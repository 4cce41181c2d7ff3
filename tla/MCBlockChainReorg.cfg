\* Reorg run: one proposer, six voters: three confirm level 1, a two-block
\* fork on one chain abandons its vote and deconfirms it, and a sixth voter
\* on the fork votes again, so level 1 is reconfirmed.
CONSTANTS
  NumChains = 3
  Genesis = Genesis
  vg0 = vg0
  vg1 = vg1
  vg2 = vg2
  VoterGenesis <- MCVoterGenesis
  ProposerIds = {p1}
  VoterIds = {v1, v2, v3, v4, v5, v6}
  TxIds = {t1}
  NoBlock = NoBlock
  NoLedger = NoLedger
SPECIFICATION Spec
SYMMETRY MCSymmetry
\* every block hash of the bounded supply has arrived: nothing more can happen
CHECK_DEADLOCK FALSE
INVARIANTS
  VoteSetMatchesMainChains
  LeaderMatchesVotes
  DeltaReplaysLedger
  UnconfirmedIsComplement
  LedgerIsRecomputation
