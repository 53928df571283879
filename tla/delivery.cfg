SPECIFICATION DeliverySpec
CONSTANTS
    Runs = {1, 2, 3}
    Regions = {1, 2}
    NoRun = 0
    Off = Off
    Repos <- MCRepos
    Arches <- MCArches
    Signed = {"nginx_stable_rpm"}
    Required = {"nginx_stable_rpm"}
    MaxAttempts = 3
    Binaries <- MCBinaries
    RpmFaults = 2
    Lines = 2
    Assets = 2
    MaxRelease = 2
    MaxSpin = 2
    TarballFaults = 1
    Manifests <- MCManifests
    Offers <- MCOffers
    URLs = 2
    Workers = 2
    MaxMonth = 2
    DebianFaults = 2
    Files <- MCFiles
    MaxDb = 3
    DatabaseFaults = 2
INVARIANTS
    RolloutsSerialised
    LastQueuedWins
    FailureStopsRun
    TrustAnchored
    WholeRelease
    LicensesInStep
PROPERTIES
    RolloutsEnd
    FlakesRiddenOut
    BinariesReachMain
    PinsReachMain
CHECK_DEADLOCK FALSE
