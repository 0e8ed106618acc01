SPECIFICATION OneShotSpec
CONSTANTS
    p1 = p1
    p2 = p2
    c1 = c1
    c2 = c2
    Procs = {p1, p2}
    OnceProcs = {p1, p2}
    Clients = {c1, c2}
    Backlog = 1
    NoFile = NoFile
    LeftOver = LeftOver
INVARIANT ListenerIsReachable
CHECK_DEADLOCK FALSE
