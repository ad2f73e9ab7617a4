\* Users commit at any moment, one step of any kind fails, the database may be
\* lost once and a conflict resolved.
SPECIFICATION Spec
CONSTANTS
    Files = {f}
    Contents = {a}
    Absent = Absent
    NoCommit = NoCommit
    MarkerChoices = {FALSE}
    BlankChoices = {FALSE}
    UsersDuringCycle = TRUE
    FaultKinds = {"crash", "command_error", "lost_ack", "cat_error", "db_error"}
    GitFetchCap = 9
    MaxSvnCommits = 2
    MaxGitCommits = 2
    MaxFaults = 1
    MaxResets = 1
    MaxResolves = 1
INVARIANTS
    NoPingPong
    RecordsTruthful
    CopiedOncePerFault
    FetchedRevisionsReachGit
PROPERTIES
    ImplementsReplication
