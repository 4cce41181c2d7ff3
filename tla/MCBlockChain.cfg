\* Ledger run: three proposers (two may share level 1 under a level-2 one),
\* one voter per chain (each may vote on two levels) and a transaction block.
CONSTANTS
  NumChains = 3
  Genesis = Genesis
  vg0 = vg0
  vg1 = vg1
  vg2 = vg2
  VoterGenesis <- MCVoterGenesis
  ProposerIds = {p1, p2, p3}
  VoterIds = {v1, v2, v3}
  TxIds = {t1}
  NoBlock = NoBlock
  NoLedger = NoLedger
SPECIFICATION Spec
SYMMETRY MCSymmetry
\* every block hash of the bounded supply has arrived: nothing more can happen
CHECK_DEADLOCK FALSE
INVARIANTS
  TypeOK
  LedgerIsRecomputation
