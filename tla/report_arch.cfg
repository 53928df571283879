SPECIFICATION Spec
CONSTANTS
    Paths = {"p1", "p2", "p3", "s1", "s2"}
    Others = {"o1"}
    Nodes = {"n1"}
    Unshipped = {"s1", "s2"}
    Legacy = {"p2", "p3"}
    Long = {"p1"}
    Devices = {1, 2}
    Inos = {1}
    NPkgs = 3
    Arches <- MCArches
    Declared = {1}
    Offers <- MCOffers
    MaxRequires = 2
    Virtual = {2, 3}
    Texts <- MCTexts
    Objects <- MCObjects
    MaxObjects = 3
    Now = 400
    Lifetime = 398
    Matches <- MCMatches
    MaxMatches = 3
    Statements <- MCStatements
    Carried <- MCCarried
    Tags <- MCTags
    Digests = {"d1", "d2"}
    ArchesOf <- MCArchesOf
    Roots <- MCRoots
    Confs <- MCConfs
    AllowLists <- MCAllowLists
    Matched <- MCMatched
    MaxHops = 40
    MaxDepth = 8
    DefaultDirs = {"lib"}
    SetIds = {"s1", "s2", "s3"}
    Labels = {"//a", "//b"}
    Graphs <- MCGraphs
    Completions <- MCCompletions
    Off = Off
INVARIANT AskedIsShown
CHECK_DEADLOCK FALSE
