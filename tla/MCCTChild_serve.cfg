\* Two pieces to a read, one failed call.
\* A child that is gone does nothing: deadlock is not checked.
CONSTANTS
    Streams <- MCStreams
    BufPieces = 2
    MaxFaults = 1
CHECK_DEADLOCK FALSE
SPECIFICATION FairSpec
INVARIANTS
    TypeOK
    NoEdgeLost
    AnsweredInOrder
    QuitIsObeyed
PROPERTIES
    ChildEnds
    EverythingIsRead
