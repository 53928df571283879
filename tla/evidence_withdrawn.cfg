SPECIFICATION Spec
CONSTANTS
    Vulns = {v1, v2}
    MaxCommits = 3
    MaxDb = 2
    Overlap = FALSE
INVARIANTS
    WithdrawnStopsSilencing
CHECK_DEADLOCK FALSE
