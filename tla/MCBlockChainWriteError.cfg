\* Storage errors: one worker thread, one proposer and three voters, so a
\* leader is confirmed; any of the three batch writes may return an error.
CONSTANTS
  NumChains = 3
  Genesis = Genesis
  vg0 = vg0
  vg1 = vg1
  vg2 = vg2
  VoterGenesis <- MCVoterGenesis
  ProposerIds = {p1}
  VoterIds = {v1, v2, v3}
  TxIds = {}
  NoBlock = NoBlock
  NoLedger = NoLedger
  Threads = {w1}
  QueryLimit = 2
  WriteOutcomes = {"ok", "err"}
SPECIFICATION Spec
SYMMETRY MCSymmetry
\* every block hash of the bounded supply has arrived, or the worker is gone
CHECK_DEADLOCK FALSE
INVARIANT
  QuiescentLedgerConsistent
