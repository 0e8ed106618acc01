SPECIFICATION AFairSpec
CONSTANTS
    u1 = u1
    m1 = m1
    u2 = u2
    c1 = c1
    c2 = c2
    Procs = {u1, u2, m1}
    OnceProcs = {m1}
    UnitProcs = {u1, u2}
    Clients = {c1}
    Explicit = {}
    MaxPolls = 1
    Backlog = 1
    NoFile = NoFile
    LeftOver = LeftOver
INVARIANTS ATypeOK SentAtMostOnce ReachableIsOwnerOnly SerialStartsShareNothing WaitingIsHeld
PROPERTIES DaemonsAsBefore CliFinishes StartSettles WaitingClientHears
CHECK_DEADLOCK FALSE
