\* Two pull requests and two revisions of SVN users while the daemon runs, one
\* fault of any kind, one repair by the operator, one revision stranded.
SPECIFICATION FairSpec
CONSTANTS
    PrShapes <- Shapes
    FaultKinds = {"crash", "error", "lost_ack"}
    MaxUserRevisions = 2
    MaxPrs = 2
    MaxFaults = 1
    MaxRepairs = 1
    MaxStranded = 1
INVARIANTS
    
    ReplayedAtMostOnce
    
    NoEcho
    CommitMapTruthful
    MirroredInOrder
    MirroredOncePerFault
PROPERTIES
    EventuallyMirrored
