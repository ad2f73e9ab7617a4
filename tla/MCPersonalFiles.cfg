\* Three revisions of SVN users, two pull requests, a fault and a repair.
SPECIFICATION Spec
CONSTANTS
    Paths = {"a", "b", ".d"}
    DotPaths = {".d"}
    Ignored = {}
    LfsPaths = {}
    Blobs = {"x", "y", "z", "large", "huge"}
    Size <- Sizes
    MaxSize = 2
    LfsThreshold = 1
    UserEdits <- SvnEdits
    PrEdits <- GitEdits
    Initial <- Start
    MaxUserRevisions = 3
    MaxPrs = 2
    MaxFaults = 1
    MaxRepairs = 1
INVARIANTS
    
    ReplaysAreFaithful
