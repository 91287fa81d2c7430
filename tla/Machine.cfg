CONSTANTS
    Programs <- MCPrograms
    MaxOutput = 6
CHECK_DEADLOCK FALSE
SPECIFICATION Spec
INVARIANTS
    TypeOK
    LeapsReachTheirLoop
    CodeIsWellFormed
    VariablesApart
    OptimisedRunAgrees
PROPERTIES
    OptimisedRunEnds
