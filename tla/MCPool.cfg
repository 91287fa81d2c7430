CONSTANTS
    Ents = {b1, b2, b3, b4}
    NULL = NULL
SPECIFICATION Spec
SYMMETRY BlockSymmetry
INVARIANTS
    TypeOK
    ListsWellFormed
PROPERTY
    RefinesPoolSpec
