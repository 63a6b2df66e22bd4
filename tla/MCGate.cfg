CONSTANTS
    Groups <- MCGroups
    Stages <- MCStages
SPECIFICATION FairSpec
INVARIANTS TypeOK PassMeansAllPassed ReplaysEveryFailure
PROPERTIES Ends
