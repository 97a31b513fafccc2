SPECIFICATION PumpFairSpec
CONSTANTS
    out = out  err = err
    Pipe = {out, err}
    QueueSize = 2
    Outputs <- Written
INVARIANT LinesWhole
PROPERTIES
    StreamEnds
    NothingStays
CHECK_DEADLOCK FALSE
