SPECIFICATION FairSpec
CONSTANTS
    Byte <- MCByte
    Newline <- MCNewline
    Max = 4
    Buffer = 3
    Capacity = 2
    Payloads <- MCPayloads
    Scripts <- MCScripts
    Client = Client
    Server = Server
INVARIANTS TypeOK HandlerGetsTheLine AnswerIsWhole ServedOrRaced ErrorsAreTrue
PROPERTIES ServedAsBefore ServerMovesOn KasliReturns
CHECK_DEADLOCK FALSE
