CONSTANTS
    Threads = {t1, t2}
    NoThread = NoThread
    MaxCalls = 2
    Requests <- MCRequests
    Hosts <- MCHosts
    MaxCloses = 2
    MaxQueue = 1
SPECIFICATION OtlpSpec
INVARIANTS
    OtlpTypeOK
    OwnersAgree
    NoOrphanProvider
    ExplicitOptionsWin
    ClosedIsDrained
PROPERTIES
    OneOutcome
    CallsReturn
