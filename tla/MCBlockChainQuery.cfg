\* Stale ledger query: one worker thread reorganises voter chains while a
\* visualization request reads the ledger up to a ledger_tip it copied earlier.
CONSTANTS
  NumChains = 3
  Genesis = Genesis
  vg0 = vg0
  vg1 = vg1
  vg2 = vg2
  VoterGenesis <- MCVoterGenesis
  ProposerIds = {p1}
  VoterIds = {v1, v2, v3, v4, v5}
  TxIds = {}
  NoBlock = NoBlock
  NoLedger = NoLedger
  Threads = {w1}
  QueryLimit = 2
  WriteOutcomes = {"ok"}
SPECIFICATION Spec
SYMMETRY MCSymmetry
\* every block hash of the bounded supply has arrived: nothing more can happen
CHECK_DEADLOCK FALSE
INVARIANT
  LedgerQueryNeverFails
