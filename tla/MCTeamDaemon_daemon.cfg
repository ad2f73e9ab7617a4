\* One repository, one that a branch pair may add and the wizard's import; two
\* requests of any kind, one after the other, one webhook more than the channel
\* holds, one fault.  Requests are bounded, so the daemon may stop.
SPECIFICATION Spec
CONSTANTS
    a = a
    c = c
    t1 = t1
    t2 = t2
    q1 = q1
    q2 = q2
    Repos = {a, c}
    Children = {c}
    Migrated = a
    Global = Global
    Requests = {q1}
    Tasks = {t1, t2}
    None = None
    QueueCap = 1
    RequestKinds = {"start", "cancel", "reset", "update", "delete", "apply", "branch", "signal"}
    FaultKinds = {"crash", "start", "connect", "open", "panic", "slow"}
    MaxRequests = 2
    MaxSenders = 1
    MaxFaults = 1
CHECK_DEADLOCK FALSE
INVARIANTS
    OneCyclePerRepository
    OneImportPerSlot
PROPERTIES
    CleanExit
    WatermarkKept
