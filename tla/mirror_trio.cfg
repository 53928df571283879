SPECIFICATION Spec
CONSTANTS
    i1 = i1  ref1 = ref1  ref2 = ref2
    t1 = t1  t2 = t2  f1 = f1  v1 = v1  v2 = v2
    NoRun = NoRun  NoRef = NoRef  NoFamily = NoFamily
    Runs <- TrioRuns
    Images <- PairImages
    Refs <- TrioRefs
    Tags = {t1}
    Families = {f1}
    VexDocs = {v1}
    Built <- TrioBuilt
    Tested <- TrioBuilt
    Types <- TrioTypes
    Db <- TrioDb
    Vex <- TrioVex
    TagsOf <- TrioTagsOf
    Family <- PairFamily
    Width = 1
    MaxLive = 3
INVARIANTS
    LedgerHoldsMoves
PROPERTIES
    LedgerAppendOnly
    ReleaseRecordsTags
CHECK_DEADLOCK FALSE
