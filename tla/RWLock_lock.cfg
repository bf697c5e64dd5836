CONSTANTS
    Thread = {t1, t2, t3}
    NoThread = NoThread
    MaxDepth = 2
    Upgrade = FALSE
    Debug = FALSE
SPECIFICATION FairSpec
INVARIANTS MutualExclusion NoCrash
PROPERTY ImplementsAbstract
PROPERTY ReadersCannotStarveWriters
