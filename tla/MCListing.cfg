SPECIFICATION Spec
CONSTANTS
    Links = {a, b, c, d}
    Limit = 2
    MaxTime = 3
SYMMETRY LinkSymmetry
INVARIANTS
    TypeOK
    MissesAtMostDeleted
    RepeatsAtMostInserted
