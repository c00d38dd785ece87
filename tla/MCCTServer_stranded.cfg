\* A child that writes and exits at once.
CONSTANTS
    MaxChilds = 1
    c1 = c1
    c2 = c2
    c3 = c3
    NoChild = NoChild
    Childs <- MCTwoChilds
    Fds <- MCFewFds
    ListenFd = 4
    MaxBacklog = 1
    MaxFaults = 0
    ChildMayWrite = TRUE
SPECIFICATION FairSpec
PROPERTIES
    ExitedChildIsCleaned
