\* The queue: two paths, three changes in all, two cycles, two decisions of the
\* web interface, the CLI or a library caller, one fault.  The merger: every
\* three files of at most three lines.  A finished merge stops.
SPECIFICATION MCSpec
CONSTANTS
    Paths = {p, q}
    Callers = {c}
    None = None
    AutoMerge = TRUE
    MaxChanges = 3
    MaxRows = 2
    MaxCycles = 2
    MaxDecisions = 2
    MaxFaults = 1
    Lines = {x, y, z}
    NoLine = NoLine
    PatchContext = 3
CHECK_DEADLOCK FALSE
INVARIANTS
    
    DecisionsAreWhole
    MergeCorrect
