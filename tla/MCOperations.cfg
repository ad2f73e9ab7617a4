\* Secrets: two repositories, one with a branch pair, two saves, one death.
\* Schema: a daemon and a CLI command, three openings, one cut.  Identities: two
\* users, an address nobody has as fallback, two lookups, one change to the
\* directory.  Live updates: two clients, a channel of two messages, four
\* messages.  Personal daemon: three PIDs, three launches of any command, one
\* kill.  Listing: three pull requests on pages of one, two of which are asked
\* for; two changes on GitHub, two bad answers, two listings.  All of these are
\* bounded, so the system may stop.
SPECIFICATION MCSpec
CONSTANTS
    a = a
    b = b
    ab = ab
    Repos = {a, b, ab}
    Parent <- MCParent
    Secrets = {v, w}
    Legacy = Legacy
    None = None
    Blank = Blank
    MaxDeaths = 1
    Openers = {"daemon", "cli"}
    Migrating = {"daemon", "cli"}
    MaxOpens = 3
    MaxCuts = 1
    Users = {1, 2}
    Emails = {11, 12, 13}
    Fallback <- MCFallback
    Lookups = {x, y}
    Nobody = None
    MaxLookups = 2
    MaxEdits = 1
    Clients = {a, b}
    Capacity = 2
    MaxSent = 4
    Pids = {p, q, r}
    Commands = {"start", "cli_start", "stop", "status", "sync", "import", "other"}
    NoPid = NoPid
    MaxLaunches = 3
    MaxKills = 1
    LastPr = 3
    PageSize = 1
    MaxPages = 2
    MaxRetries = 1
    MaxMoves = 2
    MaxBad = 2
    MaxListings = 2
SYMMETRY MCSymmetry
CHECK_DEADLOCK FALSE
INVARIANTS
    OneIdentityPerUser
    NothingLostSilently
    
    VersionMeansApplied
    FileNamesTheDaemon
PROPERTIES
    FailsOnlyIfTorn
    
