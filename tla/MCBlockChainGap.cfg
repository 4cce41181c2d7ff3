\* Two proposers at level 1 split the votes, all three chains vote for one
\* level-2 proposer: does ledger_tip skip a level without a ledger entry?
CONSTANTS
  NumChains = 3
  Genesis = Genesis
  vg0 = vg0
  vg1 = vg1
  vg2 = vg2
  VoterGenesis <- MCVoterGenesis
  ProposerIds = {p1, p2, p3}
  VoterIds = {v1, v2, v3}
  TxIds = {}
  NoBlock = NoBlock
  NoLedger = NoLedger
SPECIFICATION Spec
SYMMETRY MCSymmetry
CHECK_DEADLOCK FALSE
INVARIANT LedgerTipContiguous
