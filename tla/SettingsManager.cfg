\* One component, updates and rollbacks between two firmware images.
CONSTANTS
    Comp = {c1}
    Keys <- MCKeys
    Vals <- MCVals
    Absent = Absent
    Versions <- MCVersions
    Fw <- MCFw2
    Desc <- MCDesc
    NULL = NULL
    Missing = Missing
    Torn = Torn
    SM_MAX_COMPONENTS = 1
    FlushMayFail = FALSE
    Inputs <- MCInputs
    MaxSets = 2
    MaxBoots = 2
SPECIFICATION Spec
INVARIANTS TypeOK NeverTorn ConfirmedSurvives GetTellsNextBoot NoRedundantWrite
PROPERTY ImplementsConfigStore
