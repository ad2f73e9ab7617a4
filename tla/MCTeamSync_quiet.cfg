\* Users commit only between cycles and no step fails: two commits a side and
\* two files, so that a cycle has several changes to order and to compare.  The
\* database may be lost once; the clone's log shows a watermark only for copies
\* of SVN commits with an empty message, so both kinds are allowed.
SPECIFICATION Spec
CONSTANTS
    Files = {f, g}
    Contents = {a, b}
    Absent = Absent
    NoCommit = NoCommit
    MarkerChoices = {FALSE}
    BlankChoices = {TRUE, FALSE}
    UsersDuringCycle = FALSE
    FaultKinds = {}
    GitFetchCap = 9
    MaxSvnCommits = 2
    MaxGitCommits = 2
    MaxFaults = 0
    MaxResets = 1
    MaxResolves = 0
SYMMETRY Symmetry
INVARIANTS
    NoSvnRevisionLost
    NoGitCommitLost
    
