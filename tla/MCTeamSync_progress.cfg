\* Fair engine, bounded users, two faults of the kinds that lose no bookkeeping
\* write: copies stay in order and the engine runs out of work.
SPECIFICATION FairSpec
CONSTANTS
    Files = {f}
    Contents = {a}
    Absent = Absent
    NoCommit = NoCommit
    MarkerChoices = {FALSE}
    BlankChoices = {FALSE}
    UsersDuringCycle = TRUE
    FaultKinds = {"crash", "command_error", "lost_ack"}
    GitFetchCap = 9
    MaxSvnCommits = 2
    MaxGitCommits = 2
    MaxFaults = 2
    MaxResets = 0
    MaxResolves = 0
PROPERTIES
    ImplementsOrderedReplication
    EventuallyNothingToSync
