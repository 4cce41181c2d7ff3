----------------------------- MODULE Difficulty -----------------------------
(***************************************************************************)
(* The proposer side of BlockChain::insert_block (blockchain/mod.rs,       *)
(* 299-445) with the difficulty retarget of lines 347-414: every K-th      *)
(* proposer level recomputes the mining difficulty from the time the last  *)
(* epoch took; other levels copy the parent's difficulty.                  *)
(*                                                                         *)
(* The in-memory unreferred_proposer set is updated under its mutex before *)
(* the retarget runs, and the write batch is committed only after it.  A   *)
(* panic in the retarget arithmetic therefore leaves the in-memory set     *)
(* changed, the batch unwritten and the two held mutexes poisoned.         *)
(*                                                                         *)
(* Numbers are scaled down: Scale stands for the fixed-point factor 10^7,  *)
(* Width for the 256 bits of U256, U64Max for the value a saturating       *)
(* f32 -> u64 cast yields for +inf.                                        *)
(***************************************************************************)
EXTENDS Integers, FiniteSets, TLC

CONSTANTS
    K,                  \* DIFFICULTY_CHANGE_INTERVAL
    Scale,              \* the fixed-point scale 10000000.0
    TargetRate,         \* (CHAIN_MINING_RATE * 10000000.0) as u64
    InitialDifficulty,  \* INITIAL_DIFFICULTY as an integer
    Width,              \* bit width of U256
    U64Max,             \* u64::MAX
    Genesis,            \* PROPOSER_GENESIS_HASH
    ProposerIds,        \* hashes of the proposer blocks that may be mined
    MaxTime,            \* bound of the miners' clock
    ClockSkew,          \* how far a miner's clock may lag the latest one
    Workers             \* worker threads started by main.rs (4)

ASSUME K >= 2 /\ Scale >= 1 /\ TargetRate >= 1
ASSUME Workers >= 1
ASSUME InitialDifficulty \in 1..(2^Width - 1) /\ U64Max >= 1

VARIABLES
    parent,             \* PARENT_NEIGHBOR_CF
    level,              \* PROPOSER_NODE_LEVEL_CF
    difficulty,         \* MINING_DIFFICULTY_CF
    timestamp,          \* PROPOSER_BLOCK_TIMESTAMP_CF (none for genesis)
    unreferredProposer, \* BlockChain::unreferred_proposer
    proposerBest,       \* BlockChain::proposer_best
    poisoned,           \* the mutexes whose guard was held by a panicking thread
    now,                \* the latest miner clock reading (environment)
    liveWorkers         \* worker threads that have not panicked

vars == <<parent, level, difficulty, timestamp, unreferredProposer,
          proposerBest, poisoned, now, liveWorkers>>

Stored == DOMAIN level

\* The outcome of an arithmetic step that panics.
Panic == -1

U256Max == 2^Width - 1

MiningRateWholeInterval(dt) == IF dt = 0 THEN U64Max ELSE (K * Scale) \div dt

\* (((K-1) as f32) * 10000000.0 / (dt as f32)) as u64, dt already a u64.
\* x / 0.0 is +inf and the cast saturates at u64::MAX.

MiningRate(dt) == IF dt = 0 THEN U64Max ELSE ((K - 1) * Scale) \div dt

RetargetUnclamped(prev, dt) ==
    LET rate == MiningRate(dt)
        q    == IF rate = 0 THEN Panic ELSE prev \div rate
    IN  IF q = Panic \/ q * TargetRate > U256Max THEN Panic ELSE q * TargetRate

\* Lines 390-406: U256 division panics on zero, multiplication on
\* overflow, and both operands of max/min are evaluated before comparing.
Retarget(prev, dt) ==
    LET rate == MiningRate(dt)
        q    == IF rate = 0 THEN Panic ELSE prev \div rate
        new  == q * TargetRate
    IN  IF q = Panic \/ new > U256Max THEN Panic
        ELSE IF new < prev THEN IF prev \div 2 > new THEN prev \div 2 ELSE new
        ELSE IF prev * 2 > U256Max THEN Panic
        ELSE IF prev * 2 < new THEN prev * 2 ELSE new

\* block.header.timestamp - ancestor_timestamp on u64: a debug build panics,
\* a release build wraps to nearly 2^64, whose rate truncates to 0 and
\* makes the U256 division panic.  Either way the insertion panics.
ElapsedOrPanic(ts, ancTs) == IF ts < ancTs THEN Panic ELSE ts - ancTs

\* The ancestor walk of lines 362-372: n parent links from h.  Genesis has
\* no parent entry and no timestamp, so walking past it panics on unwrap:
\* the walk yields {a} for the ancestor a, or {} where it panics.
RECURSIVE WalkParents(_, _)
WalkParents(h, n) ==
    IF n = 0 THEN {h}
    ELSE IF h = Genesis THEN {} ELSE WalkParents(parent[h], n - 1)

EpochAncestorTooFar(p) == WalkParents(p, K - 1)

EpochAncestor(p) == WalkParents(p, K - 2)

\* The difficulty stored for a new block at level lvl on parent p, or Panic.
NewDifficulty(p, lvl, ts) ==
    IF lvl % K # 0 THEN difficulty[p]
    ELSE IF EpochAncestor(p) \cap DOMAIN timestamp = {} THEN Panic
    ELSE LET a  == CHOOSE x \in EpochAncestor(p) : TRUE
             dt == ElapsedOrPanic(ts, timestamp[a])
         IN  IF dt = Panic THEN Panic ELSE Retarget(difficulty[p], dt)

Init ==
    /\ parent = <<>>
    /\ level = Genesis :> 0
    /\ difficulty = Genesis :> InitialDifficulty
    /\ timestamp = <<>>
    /\ unreferredProposer = {Genesis}
    /\ proposerBest = <<Genesis, 0>>
    /\ poisoned = {}
    /\ now = 0
    /\ liveWorkers = Workers

\* new_validated_block (handler, 41-42) calls insert_block(..).unwrap() on
\* a worker thread: a panic, or an Err, ends that thread.
WorkerDies == liveWorkers' = liveWorkers - 1

\* insert_block on a proposer block b with parent p mined at time ts, run
\* by a live worker.  The unreferred set is changed first (303-308); if
\* the retarget panics, the batch is never written and the guards of
\* unreferred_proposer and unreferred_transaction, held since 303 and 309,
\* are poisoned.  Once poisoned, lock().unwrap() at 303 panics before any
\* change, and again ends the worker.
InsertProposer(b, p, ts) ==
    /\ liveWorkers > 0
    /\ b \notin Stored /\ b \notin unreferredProposer
    /\ p \in Stored
    /\ IF "unreferred_proposer" \in poisoned
       THEN /\ WorkerDies
            /\ UNCHANGED <<parent, level, difficulty, timestamp,
                           unreferredProposer, proposerBest, poisoned>>
       ELSE LET lvl == level[p] + 1
                d   == NewDifficulty(p, lvl, ts)
            IN  /\ unreferredProposer' = (unreferredProposer \ {p}) \cup {b}
                /\ IF d = Panic
                   THEN /\ poisoned' = poisoned \cup
                                        {"unreferred_proposer", "unreferred_transaction"}
                        /\ WorkerDies
                        /\ UNCHANGED <<parent, level, difficulty, timestamp, proposerBest>>
                   ELSE /\ parent' = parent @@ (b :> p)
                        /\ level' = level @@ (b :> lvl)
                        /\ difficulty' = difficulty @@ (b :> d)
                        /\ timestamp' = timestamp @@ (b :> ts)
                        /\ proposerBest' = IF lvl > proposerBest[2]
                                           THEN <<b, lvl>> ELSE proposerBest
                        /\ UNCHANGED <<poisoned, liveWorkers>>
    /\ UNCHANGED now

\* The miners' clocks advance; a block is stamped with a reading at most
\* ClockSkew behind the latest one.
Tick ==
    /\ now < MaxTime
    /\ now' = now + 1
    /\ UNCHANGED <<parent, level, difficulty, timestamp, unreferredProposer,
                   proposerBest, poisoned, liveWorkers>>

Stamps == {t \in 0..MaxTime : now - ClockSkew <= t /\ t <= now}

Next ==
    \/ \E b \in ProposerIds, p \in ProposerIds \cup {Genesis}, ts \in Stamps :
          InsertProposer(b, p, ts)
    \/ Tick

Spec == Init /\ [][Next]_vars

-----------------------------------------------------------------------------

TypeOK ==
    /\ Stored \subseteq ProposerIds \cup {Genesis}
    /\ parent \in [Stored \ {Genesis} -> Stored]
    /\ difficulty \in [Stored -> 1..U256Max]
    /\ timestamp \in [Stored \ {Genesis} -> 0..MaxTime]
    /\ poisoned \subseteq {"unreferred_proposer", "unreferred_transaction"}
    /\ liveWorkers \in 0..Workers

\* A retarget never panics: spec section 7 requires the retarget to
\* saturate at the clamp instead.  A panic in lines 386-401 poisons the
\* unreferred_proposer mutex, after which every proposer insertion fails.
RetargetNeverPanics == poisoned = {}

\* One block whose insertion panics costs the node at most the worker
\* thread that ran it.  The mutexes poisoned by that panic make every later
\* proposer insertion panic at 303 too, each on another worker, until none
\* is left to process any block.
PanicCostsOneWorker == liveWorkers >= Workers - 1

\* The block on b's ancestry at level lvl, found by level rather than by
\* counting parent links.
RECURSIVE AncestorAtLevel(_, _)
AncestorAtLevel(b, lvl) ==
    IF level[b] = lvl THEN b ELSE AncestorAtLevel(parent[b], lvl)

\* Spec section 8 (7): at a retarget level, when the K-1 block intervals
\* since the first block of the epoch took exactly the target time, the
\* new difficulty equals the old one up to truncation of the division.
RetargetIdempotent ==
    \A b \in Stored \ {Genesis} :
        LET lvl == level[b]
            a   == AncestorAtLevel(b, lvl - (K - 1))
            old == difficulty[parent[b]]
        IN  (/\ lvl % K = 0
             /\ a # Genesis
             /\ (timestamp[b] - timestamp[a]) * TargetRate = (K - 1) * Scale)
            => (old - TargetRate < difficulty[b] /\ difficulty[b] <= old)

=============================================================================
