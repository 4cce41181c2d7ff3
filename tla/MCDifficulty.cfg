\* Synchronised clocks, epochs no longer than (K-1) * Scale time units and
\* a difficulty far below the U256 bound: the retarget stays in range.
CONSTANTS
    K = 3
    Scale = 4
    TargetRate = 4
    InitialDifficulty = 16
    Width = 7
    U64Max = 1000
    Genesis = Genesis
    ProposerIds = {p1, p2, p3, p4}
    MaxTime = 6
    ClockSkew = 0
    Workers = 4
SPECIFICATION Spec
SYMMETRY MCSymmetry
INVARIANTS
    TypeOK
    RetargetNeverPanics
    RetargetIdempotent
\* The model stops when the proposer hashes and the clock are used up.
CHECK_DEADLOCK FALSE
