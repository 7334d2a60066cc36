SPECIFICATION FairSpec
CONSTANTS
    Streams = {s1, s2}
    Tokens <- Pieces
    Stop = stop
    MaxLength = 2
    Chars <- PieceChars
    Decode <- PieceDecode
INVARIANTS ReceivedIsText StreamIsComplete FailureIsReported
PROPERTY EveryStreamEnds
CHECK_DEADLOCK FALSE
