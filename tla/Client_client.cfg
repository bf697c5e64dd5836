\* Two ids, five clicks, one of which does not wait, and one broadcast.
SPECIFICATION FairSpec
CONSTANTS
    Id = {a, b}
    None = None
    MaxClicks = 5
    MaxHurried = 1
    MaxBroadcasts = 1
INVARIANTS NoAssertionFails OnePage 
 
\* The user need not click.
CHECK_DEADLOCK FALSE
