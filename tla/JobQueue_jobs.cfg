\* Two workers, two shared queues and the queue of a response; the second of
\* three jobs is delayed.
SPECIFICATION FairSpec
CONSTANTS
    Thread = {t1, t2}
    Queue = {q1, q2, p}
    NoQueue = NoQueue
    Private = {p}
    NJobs = 3
    Delayed = {2}
    Address <- Growing
INVARIANTS OneExecutor RunsInOrder 
PROPERTY EveryJobRuns
\* Workers with nothing to do wait for the bound on jobs.
CHECK_DEADLOCK FALSE
