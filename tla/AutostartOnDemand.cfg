SPECIFICATION CalmSpec
CONSTANTS
    u1 = u1
    u2 = u2
    c1 = c1
    c2 = c2
    c3 = c3
    Procs = {u1, u2}
    OnceProcs = {}
    UnitProcs = {u1, u2}
    Clients = {c1, c2, c3}
    Explicit = {c3}
    MaxPolls = 2
    Backlog = 0
    NoFile = NoFile
    LeftOver = LeftOver
PROPERTIES StartLeadsToServer
CHECK_DEADLOCK FALSE
