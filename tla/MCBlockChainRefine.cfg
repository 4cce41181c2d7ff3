\* Refinement run: two proposer levels, a voter fork that overtakes its
\* main chain, and a transaction block, checked against PrismLedger.
CONSTANTS
  NumChains = 3
  Genesis = Genesis
  vg0 = vg0
  vg1 = vg1
  vg2 = vg2
  VoterGenesis <- MCVoterGenesis
  ProposerIds = {p1, p2}
  VoterIds = {v1, v2, v3, v4}
  TxIds = {t1}
  NoBlock = NoBlock
  NoLedger = NoLedger
SPECIFICATION Spec
SYMMETRY MCSymmetry
\* every block hash of the bounded supply has arrived: nothing more can happen
CHECK_DEADLOCK FALSE
PROPERTY
  ImplementsPrismLedger
