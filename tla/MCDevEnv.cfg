SPECIFICATION Spec
CONSTANTS
    CargoTools = {"floor", "exact"}
    NodeTools = {"mdlint"}
    SystemTools = {"system"}
    Exact = {"exact", "mdlint", "system"}
    Pins <- MCPins
    HostCopies <- MCHostCopies
    CargoCopy <- MCCargoCopy
    NodeCopy <- MCNodeCopy
    Situations <- MCSituations
    MaxChanges = 1
INVARIANTS
    TypeOK
    DoctorIsRight
    SetupConverges
PROPERTIES
    InstallsOnlyWhatRuns
