\* Two slots, three children, eight descriptors: a full table, descriptors
\* and slots given out again within one batch, refused connections until no
\* descriptor is left, one injected failure, children that write.
CONSTANTS
    MaxChilds = 1
    c1 = c1
    c2 = c2
    c3 = c3
    NoChild = NoChild
    Childs <- MCChilds
    Fds <- MCFds
    ListenFd = 4
    MaxBacklog = 2
    MaxFaults = 1
    ChildMayWrite = TRUE
SYMMETRY MCSymmetry
SPECIFICATION Spec
INVARIANTS
    IInv
    EventsResolve
    SlotsOwnTheirFds
    ZombieNoticed
    DescriptorAccounting
    RunningIsCounted
PROPERTIES
    ImplementsPool
