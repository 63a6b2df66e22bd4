CONSTANTS
    Proposals <- MCRenames
    MaxFailures = 0
    MaxAttempts = 1
    MaxMain = 3
SPECIFICATION MainSpec
INVARIANTS EveryChangedPathClassified
