\* Three statements; values around the limits of a char of three bits; answers
\* of up to ten bytes; pieces of one to six characters; a static space that
\* holds two or three texts of up to six bytes; up to three packets.
\* A program may stop using a library at any time.
CONSTANTS
    MaxQueries = 3
    Keys = {k1, k2}
    Lengths = {1, 3, 4, 7, 8, 10}
    CharSize = 8
    Pieces = {1, 2, 7}
    BufSize = 3
    MaxAnswer = 10
    Raws <- MCRaws
    Texts <- MCTexts
    MaxPiece = 6
    Strings <- MCStrings
    Maxima = {1, 2, 3}
    Handles = {x, y}
    Words <- MCWords
    SpaceSize = 16
    Alignment = 4
    Slack = 1
    MaxText = 6
    FrameSize = 2
    MaxSamples = 5
    PacketLens = {1, 3}
    MaxPacket = 4
    Foreign <- MCForeign
    MaxOld = 2
SPECIFICATION Spec
INVARIANTS
    
    
    
    PiecesMakeTheWhole
    
    TextsAreKept
    
    InPlace
CHECK_DEADLOCK FALSE
