CONSTANTS
    DomainMax = 3
    NarrowMax = 7
    WideMax = 15
    w1 = w1
    w2 = w2
    w3 = w3
    Rows <- MCRows
    Workers <- MCWorkers
    Leader = w1
    Tables <- MCTables
    Total <- MCTotal
SPECIFICATION Spec
SYMMETRY Symmetry
INVARIANTS TypeOK PartialsExact LikeSequential AnswerExact
