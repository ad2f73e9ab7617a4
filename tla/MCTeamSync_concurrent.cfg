\* Users commit while a cycle runs; nothing fails.
SPECIFICATION Spec
CONSTANTS
    Files = {f}
    Contents = {a}
    Absent = Absent
    NoCommit = NoCommit
    MarkerChoices = {FALSE}
    BlankChoices = {FALSE}
    UsersDuringCycle = TRUE
    FaultKinds = {}
    GitFetchCap = 9
    MaxSvnCommits = 2
    MaxGitCommits = 2
    MaxFaults = 0
    MaxResets = 0
    MaxResolves = 0
INVARIANTS
    NoSvnRevisionLost
