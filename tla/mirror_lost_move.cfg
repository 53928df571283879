SPECIFICATION Spec
CONSTANTS
    i1 = i1  ref1 = ref1  ref2 = ref2
    t1 = t1  t2 = t2  f1 = f1  v1 = v1  v2 = v2
    NoRun = NoRun  NoRef = NoRef  NoFamily = NoFamily
    Runs <- PairRuns
    Images <- PairImages
    Refs <- PairRefs
    Tags <- PairTags
    Families = {f1}
    VexDocs = {v1, v2}
    Built <- PairBuilt
    Tested <- PairBuilt
    Types <- PairTypes
    Db <- PairDb
    Vex <- PairVex
    TagsOf <- PairTagsOf
    Family <- PairFamily
    Width = 2
    MaxLive = 2
INVARIANT LedgerNamesEveryTag
CHECK_DEADLOCK FALSE
