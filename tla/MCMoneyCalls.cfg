CONSTANTS
    DomainMax = 15
    NarrowMax = 31
    WideMax = 255
    Scale = 4
    MaxDivisor = 5
    CountMax = 6
    Radix = 2
    Places = 2
    Currencies = {"A", "B", "C"}
    Exponent <- MCExponent
    Numeric <- MCNumeric
    WeightLists <- MCWeightLists
    Texts <- MCTexts
    Displays <- MCDisplays
    Counts = {2, 3}
    PurseWeights <- MCPurseWeights
    MaxPurse = 4
    MaxOpened = 2
SPECIFICATION LedgerSpec
INVARIANTS TypeOK NeverPanics DivisionExact AllocationFair ConvertsOnce ReadsBack Conserved
