SPECIFICATION FairSpec
CONSTANTS
    r1 = r1
    r2 = r2
    Requests = {r1, r2}
    Tools = {"disk.usage", "mutating", "ghost"}
    Registered = {"disk.usage", "mutating"}
    ReadOnly = {"disk.usage"}
    NoRequest = NoRequest
INVARIANTS TypeOK LossIsBounded LogInOrder
PROPERTIES KeepsPromise EveryRequestSettles
CHECK_DEADLOCK FALSE
