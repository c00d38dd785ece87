\* A child that exits before the master has stored its pid.
\* The program ends (the log is old, or it is killed): deadlock is not checked.
CONSTANTS
    c1 = c1
    c2 = c2
    c3 = c3
    NoChild = NoChild
    Childs <- MCTwoChilds
    MaxChilds = 1
    LastDay = 0
    MaxPieces = 4
    MaxStarts = 1
    StickyEof = FALSE
CHECK_DEADLOCK FALSE
SPECIFICATION FairSpec
PROPERTIES
    SlotOfGoneChildIsFreed
