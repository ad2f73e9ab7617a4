\* One repository and the wizard's import: two requests that start, cancel or
\* reset imports or stop the daemon, one webhook more than the channel holds,
\* one fault.
SPECIFICATION FairSpec
CONSTANTS
    a = a
    c = c
    t1 = t1
    t2 = t2
    q1 = q1
    q2 = q2
    Repos = {a}
    Children = {}
    Migrated = a
    Global = Global
    Requests = {q1}
    Tasks = {t1, t2}
    None = None
    QueueCap = 1
    RequestKinds = {"start", "cancel", "reset", "signal"}
    FaultKinds = {"crash", "start", "connect", "open", "panic", "slow"}
    MaxRequests = 2
    MaxSenders = 1
    MaxFaults = 1
CHECK_DEADLOCK FALSE
PROPERTIES
    SyncedAgainAndAgain
    ImportsEnd
    ShutdownEnds
