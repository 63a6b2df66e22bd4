CONSTANTS
    Proposals <- MCEdits
    MaxFailures = 1
    MaxAttempts = 2
    MaxMain = 4
SPECIFICATION MainSpec
INVARIANTS MainTypeOK GreenMeansOwnersPassed CertifiedTreePassed
