\* Cascade: a clock-skewed proposer panics the retarget; later proposer
\* blocks meet the poisoned mutex and end one worker each.
CONSTANTS
    K = 3
    Scale = 4
    TargetRate = 4
    InitialDifficulty = 16
    Width = 7
    U64Max = 1000
    Genesis = Genesis
    ProposerIds = {p1, p2, p3, p4}
    MaxTime = 6
    ClockSkew = 1
    Workers = 4
SPECIFICATION Spec
SYMMETRY MCSymmetry
INVARIANT PanicCostsOneWorker
\* The model stops when the proposer hashes and the clock are used up.
CHECK_DEADLOCK FALSE
