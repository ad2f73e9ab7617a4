\* Up to three revisions pushed by twos, two imports, two faults of any kind and
\* one push of somebody else.
SPECIFICATION Spec
CONSTANTS
    f = f
    g = g
    s = s
    l = l
    h = h
    Files = {f, g}
    Contents = {s, l, h}
    Absent = Absent
    Histories <- All
    Size <- Sizes
    Ignored = {}
    LfsPaths = {}
    MaxSize = 2
    LfsThreshold = 1
    InFile = {}
    InLdap = {"amy"}
    HasLdap = TRUE
    HasDomain = TRUE
    BatchSize = 2
    Attempts = 2
    FaultKinds = {"crash", "clone", "connect", "export", "stale", "copy", "ldap", "commit", "push", "ack"}
    MaxFaults = 2
    MaxPushes = 1
    MaxRuns = 2
CHECK_DEADLOCK FALSE
INVARIANTS
    
    CompletedMeansPushed
PROPERTIES
    NothingOverwritten
