\* fflush or fsync fails after a complete fwrite.
CONSTANTS
    Comp = {c1}
    Keys <- MCKeys
    Vals <- MCVals
    Absent = Absent
    Versions <- MCVersions
    Fw <- MCFw1
    Desc <- MCDesc
    NULL = NULL
    Missing = Missing
    Torn = Torn
    SM_MAX_COMPONENTS = 1
    FlushMayFail = TRUE
    Inputs <- MCInputs
    MaxSets = 2
    MaxBoots = 2
SPECIFICATION Spec
INVARIANT NeverTorn
