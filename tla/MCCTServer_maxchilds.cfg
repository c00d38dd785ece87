\* The limit of the configuration file.
CONSTANTS
    MaxChilds = 1
    c1 = c1
    c2 = c2
    c3 = c3
    NoChild = NoChild
    Childs <- MCTwoChilds
    Fds <- MCFds
    ListenFd = 4
    MaxBacklog = 1
    MaxFaults = 0
    ChildMayWrite = FALSE
SPECIFICATION Spec
INVARIANTS
    AtMostMaxChilds
