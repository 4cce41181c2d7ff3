\* A miner whose clock lags the latest one by one time unit.
CONSTANTS
    K = 3
    Scale = 4
    TargetRate = 4
    InitialDifficulty = 16
    Width = 7
    U64Max = 1000
    Genesis = Genesis
    ProposerIds = {p1, p2, p3, p4}
    MaxTime = 6
    ClockSkew = 1
    Workers = 4
SPECIFICATION Spec
SYMMETRY MCSymmetry
INVARIANT RetargetNeverPanics
\* The model stops when the proposer hashes and the clock are used up.
CHECK_DEADLOCK FALSE
