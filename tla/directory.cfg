SPECIFICATION Spec
CONSTANTS
    Vulns = {"CVE-1", "CVE-2"}
    MaxCommits = 4
    MaxDb = 1
    HistoryTime = 5
    HistoryMoves = 3
    Flaky = TRUE
    Readers <- MCReaders
    Visited <- MCVisited
    Refs <- MCRefs
    Tag = "tag"
    Instances = {i1, i2}
    TTL = 2
    TagAge = 1
    DigestAge = 3
    DocumentAge = 3
    PageTime = 3
    MaxChanges = 1
    Tags = {"t1", "t2", "t3"}
    Fallback = {"t3"}
    MaxLookups = 1
    MaxBuilds = 1
    MaxMoves = 2
    MaxFaults = 1
    Digests = {"d1", "d2"}
    NoCopy = NoCopy
    None = None
    Off = Off
INVARIANTS
    BestScanShown
    NewDocumentSpeaks
    HistoryExact
    RescanSeenAtTag
    RowsWereTrue
    CalmPageIsExact
SYMMETRY MCSymmetry
CHECK_DEADLOCK FALSE
