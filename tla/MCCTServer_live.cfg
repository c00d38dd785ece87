\* Two slots, two children, no child writes, one injected failure: fairness.
CONSTANTS
    MaxChilds = 1
    c1 = c1
    c2 = c2
    c3 = c3
    NoChild = NoChild
    Childs <- MCTwoChilds
    Fds <- MCFewFds
    ListenFd = 4
    MaxBacklog = 1
    MaxFaults = 1
    ChildMayWrite = FALSE
SPECIFICATION FairSpec
INVARIANTS
    HangUpNotLost
PROPERTIES
    
    ChildReaped
