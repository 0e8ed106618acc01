SPECIFICATION FairSpec
CONSTANTS
    PipeSize = 3
    Buffer = 2
    MaxOutput = 4
    MaxWritten = 6
INVARIANTS OkIsWhole ErrorsAreTrue ReturnLeavesNothing
PROPERTY CommandReturns
CHECK_DEADLOCK FALSE
