SPECIFICATION Spec
CONSTANTS
    r1 = r1
    r2 = r2
    Requests = {r1, r2}
    Tools = {"disk.usage", "ghost"}
    Registered = {"disk.usage"}
    ReadOnly = {"disk.usage"}
    NoRequest = NoRequest
INVARIANT EveryRunIsRecorded
CHECK_DEADLOCK FALSE
