\* One slot, two processes, two days, one restart, four pieces of log.
\* The program ends (the log is old, or it is killed): deadlock is not checked.
CONSTANTS
    c1 = c1
    c2 = c2
    c3 = c3
    NoChild = NoChild
    Childs <- MCTwoChilds
    MaxChilds = 0
    LastDay = 1
    MaxPieces = 4
    MaxStarts = 2
    StickyEof = FALSE
CHECK_DEADLOCK FALSE
SPECIFICATION FairSpec
INVARIANTS
    TypeOK
    NothingSkipped
    NeverSavedInside
PROPERTIES
    OneChildPerSessionAndDay
    LiveChildKeepsSlot
    EverySessionStarted
