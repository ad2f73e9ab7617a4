\* One repository and the wizard's import: a start and a cancellation, no fault.
SPECIFICATION FairSpec
CONSTANTS
    a = a
    c = c
    t1 = t1
    t2 = t2
    q1 = q1
    q2 = q2
    Repos = {a}
    Children = {}
    Migrated = a
    Global = Global
    Requests = {q1}
    Tasks = {t1, t2}
    None = None
    QueueCap = 1
    RequestKinds = {"start", "cancel"}
    FaultKinds = {}
    MaxRequests = 2
    MaxSenders = 1
    MaxFaults = 1
CHECK_DEADLOCK FALSE
PROPERTIES
    CancelledImportStops
