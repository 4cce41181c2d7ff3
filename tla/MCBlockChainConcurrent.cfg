\* Concurrent ledger run: two threads, two proposers, three voters and a
\* transaction block; a voter may vote on both levels, so two leaders move.
CONSTANTS
  NumChains = 3
  Genesis = Genesis
  vg0 = vg0
  vg1 = vg1
  vg2 = vg2
  VoterGenesis <- MCVoterGenesis
  ProposerIds = {p1, p2}
  VoterIds = {v1, v2, v3}
  TxIds = {t1}
  NoBlock = NoBlock
  NoLedger = NoLedger
  Threads = {w1, w2}
  QueryLimit = 2
  WriteOutcomes = {"ok"}
SPECIFICATION Spec
SYMMETRY MCSymmetry
\* every block hash of the bounded supply has arrived: nothing more can happen
CHECK_DEADLOCK FALSE
INVARIANT
  QuiescentLedgerConsistent
