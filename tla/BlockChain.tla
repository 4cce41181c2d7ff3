----------------------------- MODULE BlockChain -----------------------------
(***************************************************************************)
(* The structured blockchain state engine of src/src/blockchain/mod.rs:   *)
(* BlockChain::new and BlockChain::insert_block for the three block kinds. *)
(* Each insert_block call is one atomic step here; the interleaving of    *)
(* concurrent calls is modelled in BlockChainConcurrent.                   *)
(*                                                                         *)
(* Column families become functions keyed by block hash or level; the     *)
(* in-memory Mutex-guarded fields become plain variables.  Block hashes    *)
(* are model values; a block that has not arrived is not in any domain.   *)
(***************************************************************************)
EXTENDS Naturals, Sequences, SequencesExt, FiniteSets, Bags, TLC

CONSTANTS
  NumChains,     \* NUM_VOTER_CHAINS
  Genesis,       \* PROPOSER_GENESIS_HASH
  VoterGenesis,  \* VOTER_GENESIS_HASHES: chain number -> voter genesis hash
  ProposerIds,   \* hashes of proposer blocks that may arrive
  VoterIds,      \* hashes of voter blocks that may arrive
  TxIds,         \* hashes of transaction blocks that may arrive
  NoBlock,       \* Option::None for a leader
  NoLedger       \* no entry in PROPOSER_LEDGER_ORDER for a level

Chains == 0 .. NumChains - 1
\* proposer levels reachable with the proposers that may arrive
Levels == 0 .. Cardinality(ProposerIds)

ASSUME NumChains >= 1 /\ DOMAIN VoterGenesis = Chains

VARIABLES
  parent,                \* GRAPH_PARENT_NEIGHBOR: block -> proposer parent
  proposerLevel,         \* PROPOSER_NODE_LEVEL
  proposerTree,          \* PROPOSER_TREE_LEVEL: level -> hashes in arrival order
  proposerRefs,          \* GRAPH_PROPOSER_REF_NEIGHBOR (parent first)
  txRefs,                \* GRAPH_TRANSACTION_REF_NEIGHBOR
  voterLevel,            \* VOTER_NODE_LEVEL
  voterChain,            \* VOTER_NODE_CHAIN
  voterParent,           \* GRAPH_VOTER_PARENT_NEIGHBOR
  voteNeighbor,          \* GRAPH_VOTE_NEIGHBOR: voter -> voted proposers
  votedLevel,            \* VOTER_NODE_VOTED_LEVEL
  voteSet,               \* PROPOSER_NODE_VOTE: proposer -> <<chain, level>> list
  leaderSequence,        \* PROPOSER_LEADER_SEQUENCE: level -> leader or NoBlock
  ledgerOrder,           \* PROPOSER_LEDGER_ORDER: level -> list or NoLedger
  proposerBest,          \* <<hash, level>>
  voterBest,             \* chain -> <<hash, level>>
  unreferredProposer,
  unreferredTransaction,
  unconfirmedProposer,
  ledgerTip,
  applied                \* history: bag of tx blocks a consumer holds after
                         \* applying every (added, removed) pair returned by
                         \* insert_block (not program state)

graphVars == <<parent, proposerLevel, proposerTree, proposerRefs, txRefs,
               voterLevel, voterChain, voterParent, voteNeighbor, votedLevel>>
vars == <<graphVars, voteSet, leaderSequence, ledgerOrder, proposerBest,
          voterBest, unreferredProposer, unreferredTransaction,
          unconfirmedProposer, ledgerTip, applied>>

Proposers == DOMAIN proposerLevel
Voters    == DOMAIN voterLevel
Txs       == DOMAIN parent \cap TxIds

-----------------------------------------------------------------------------
(* Merge operators of the graph store.                                     *)

\* h256_vec_append_merge: the operands' hashes appended, in order, to the
\* existing list (an empty one when the key is absent)
H256VecAppendMerge(existing, operands) == existing \o operands

\* Vec::swap_remove: the last element takes the place of the i-th one
SwapRemove(s, i) == [j \in 1 .. Len(s) - 1 |-> IF j = i THEN s[Len(s)] ELSE s[j]]

\* mutant: the operand's chain and level stored in swapped order
VoteVecMergeSwapped(existing, op) ==
  IF op[1] THEN Append(existing, <<op[3], op[2]>>)
  ELSE LET pos == SelectInSeq(existing, LAMBDA x : x[1] = op[2])
       IN IF pos = 0 THEN existing ELSE SwapRemove(existing, pos)

\* vote_vec_merge applied to one operand <<add, chain, level>>; a removal
\* drops the first entry of that chain, whatever its level, or is skipped
VoteVecMerge(existing, op) ==
  IF op[1] THEN Append(existing, <<op[2], op[3]>>)
  ELSE LET pos == SelectInSeq(existing, LAMBDA x : x[1] = op[2])
       IN IF pos = 0 THEN existing ELSE SwapRemove(existing, pos)

\* a missing PROPOSER_NODE_VOTE entry reads as the empty list
VotesOf(vs, p) == IF p \in DOMAIN vs THEN vs[p] ELSE <<>>

\* the batch's merge_cf calls on PROPOSER_NODE_VOTE, in batch order;
\* an operation is <<proposer, add, chain, level>>
RECURSIVE ApplyVoteOps(_, _)
ApplyVoteOps(vs, ops) ==
  IF ops = <<>> THEN vs
  ELSE LET op == Head(ops)
           new == VoteVecMerge(VotesOf(vs, op[1]), <<op[2], op[3], op[4]>>)
       IN ApplyVoteOps((op[1] :> new) @@ vs, Tail(ops))

-----------------------------------------------------------------------------
(* Vote-set delta of a voter chain switching its main chain.               *)

\* the votes of voter v, each attributed to voter level l
VotesAt(v, l) == [i \in 1 .. Len(voteNeighbor[v]) |-> <<voteNeighbor[v][i], l>>]

\* mutant: the abandoned branch's votes are never collected for removal
RECURSIVE VoteWalkNoRemoved(_, _, _, _, _, _)
VoteWalkNoRemoved(to, toL, from, fromL, added, removed) ==
  IF toL > fromL
  THEN VoteWalkNoRemoved(voterParent[to], toL - 1, from, fromL,
                         added \o VotesAt(to, toL), removed)
  ELSE IF to # from
  THEN VoteWalkNoRemoved(voterParent[to], toL - 1, voterParent[from], fromL - 1,
                         added \o VotesAt(to, toL), removed)
  ELSE <<added, removed>>

\* the two loops of insert_block walking `to` (new branch) and `from`
\* (abandoned branch) back to their common ancestor
RECURSIVE VoteWalk(_, _, _, _, _, _)
VoteWalk(to, toL, from, fromL, added, removed) ==
  IF toL > fromL
  THEN VoteWalk(voterParent[to], toL - 1, from, fromL,
                added \o VotesAt(to, toL), removed)
  ELSE IF to # from
  THEN VoteWalk(voterParent[to], toL - 1, voterParent[from], fromL - 1,
                added \o VotesAt(to, toL), removed \o VotesAt(from, fromL))
  ELSE <<added, removed>>

\* mutant: only levels of added votes are re-elected
AffectedLevelsAddedOnly(ops) == {proposerLevel[ops[i][1]] : i \in {j \in 1 .. Len(ops) : ops[j][2]}}

\* the BTreeSet `affected` of the proposer levels of every merged vote
AffectedLevels(ops) == {proposerLevel[ops[i][1]] : i \in 1 .. Len(ops)}

-----------------------------------------------------------------------------
(* Leader election and ledger rebuild.                                     *)

\* the last proposer of the level, in arrival order, whose vote list is
\* longer than NUM_VOTER_CHAINS / 2 + 1
ElectLeader(vs, L) ==
  LET blocks == proposerTree[L]
      i == SelectLastInSeq(blocks, LAMBDA p : Len(VotesOf(vs, p)) > NumChains \div 2 + 1)
  IN IF i = 0 THEN NoBlock ELSE blocks[i]

LeaderAt(ls, L) == IF L \in Levels THEN ls[L] ELSE NoBlock

\* mutant: a visited block is not taken out of unconfirmed_proposer
RECURSIVE DfsKeepsUnconfirmed(_, _, _)
DfsKeepsUnconfirmed(stack, unconf, visited) ==
  IF stack = <<>> THEN <<visited, unconf>>
  ELSE LET top == Last(stack)
           rest == Front(stack)
       IN IF top \notin unconf THEN DfsKeepsUnconfirmed(rest, unconf, visited)
          ELSE DfsKeepsUnconfirmed(rest \o Reverse(proposerRefs[top]), unconf,
                                   Append(visited, top))

\* the stack DFS from a leader: a block is visited iff it is still
\* unconfirmed when popped; its refs are pushed reversed so that the first
\* ref is popped first.  Result: <<visited in order, unconfirmed set>>
RECURSIVE Dfs(_, _, _)
Dfs(stack, unconf, visited) ==
  IF stack = <<>> THEN <<visited, unconf>>
  ELSE LET top == Last(stack)
           rest == Front(stack)
       IN IF top \notin unconf THEN Dfs(rest, unconf, visited)
          ELSE Dfs(rest \o Reverse(proposerRefs[top]), unconf \ {top},
                   Append(visited, top))

\* mutant: the DFS order is written without the stable sort
SortByLevelDropped(s) == s

\* sort_by_cached_key on the level: stable, so ties keep DFS order
SortByLevel(s) ==
  LET ls == SetToSortSeq({proposerLevel[b] : b \in ToSet(s)}, <)
  IN FlattenSeq([i \in 1 .. Len(ls) |-> SelectSeq(s, LAMBDA b : proposerLevel[b] = ls[i])])

\* the reconfirm loop from level L upward; stops at the first level with no
\* leader and sets the ledger tip just below it.  Result: record of the new
\* ledger order, unconfirmed set, tip and added proposer blocks
RECURSIVE Rebuild(_, _, _, _, _)
Rebuild(ls, L, lo, unconf, added) ==
  IF LeaderAt(ls, L) = NoBlock
  THEN [order |-> lo, unconf |-> unconf, tip |-> L - 1, added |-> added]
  ELSE LET r == Dfs(<<LeaderAt(ls, L)>>, unconf, <<>>)
           ledger == SortByLevel(r[1])
       IN Rebuild(ls, L + 1, [lo EXCEPT ![L] = ledger], r[2], added \o ledger)

\* mutant: deconfirmation starts one level above change_begin
RetiredBlocksFromNext(from, tip) ==
  LET ls == SetToSortSeq({L \in from + 1 .. tip : ledgerOrder[L] # NoLedger}, <)
  IN FlattenSeq([i \in 1 .. Len(ls) |-> ledgerOrder[ls[i]]])

\* the blocks of the ledger entries of levels from..tip, level by level:
\* the `removed` list of the deconfirm loop
RetiredBlocks(from, tip) ==
  LET ls == SetToSortSeq({L \in from .. tip : ledgerOrder[L] # NoLedger}, <)
  IN FlattenSeq([i \in 1 .. Len(ls) |-> ledgerOrder[ls[i]]])

\* the transaction blocks referred by a list of proposer blocks, in order
TxBlocksOf(ps) == FlattenSeq([i \in 1 .. Len(ps) |-> txRefs[ps[i]]])

-----------------------------------------------------------------------------
Init ==
  /\ parent = [v \in {VoterGenesis[c] : c \in Chains} |-> Genesis]
  /\ proposerLevel = Genesis :> 0
  /\ proposerTree = [l \in Levels |-> IF l = 0 THEN <<Genesis>> ELSE <<>>]
  /\ proposerRefs = Genesis :> <<>>
  /\ txRefs = Genesis :> <<>>
  /\ voterLevel = [v \in {VoterGenesis[c] : c \in Chains} |-> 0]
  /\ voterChain = [v \in {VoterGenesis[c] : c \in Chains} |->
                     CHOOSE c \in Chains : VoterGenesis[c] = v]
  /\ voterParent = [v \in {} |-> NoBlock]
  /\ voteNeighbor = [v \in {VoterGenesis[c] : c \in Chains} |-> <<Genesis>>]
  /\ votedLevel = [v \in {VoterGenesis[c] : c \in Chains} |-> 0]
  /\ voteSet = Genesis :> [i \in 1 .. NumChains |-> <<i - 1, 0>>]
  /\ leaderSequence = [l \in Levels |-> IF l = 0 THEN Genesis ELSE NoBlock]
  /\ ledgerOrder = [l \in Levels |-> IF l = 0 THEN <<Genesis>> ELSE NoLedger]
  /\ proposerBest = <<Genesis, 0>>
  /\ voterBest = [c \in Chains |-> <<VoterGenesis[c], 0>>]
  /\ unreferredProposer = {Genesis}
  /\ unreferredTransaction = {}
  /\ unconfirmedProposer = {}
  /\ ledgerTip = 0
  /\ applied = EmptyBag

\* insert_block on a transaction block b with proposer parent p
InsertTransaction(b, p) ==
  /\ parent' = (b :> p) @@ parent
  /\ unreferredTransaction' = unreferredTransaction \cup {b}
  /\ UNCHANGED <<proposerLevel, proposerTree, proposerRefs, txRefs, voterLevel,
                 voterChain, voterParent, voteNeighbor, votedLevel, voteSet,
                 leaderSequence, ledgerOrder, proposerBest, voterBest,
                 unreferredProposer, unconfirmedProposer, ledgerTip, applied>>

\* insert_block on a proposer block b with parent p, proposer refs refs and
\* transaction refs txs
InsertProposer(b, p, refs, txs) ==
  LET lvl == proposerLevel[p] + 1 IN
  /\ lvl \in Levels
  /\ parent' = (b :> p) @@ parent
  /\ unreferredProposer' = (unreferredProposer \ (ToSet(refs) \cup {p})) \cup {b}
  /\ unreferredTransaction' = unreferredTransaction \ ToSet(txs)
  /\ proposerRefs' = (b :> (<<p>> \o refs)) @@ proposerRefs
  /\ txRefs' = (b :> txs) @@ txRefs
  /\ proposerLevel' = (b :> lvl) @@ proposerLevel
  /\ proposerTree' = [proposerTree EXCEPT ![lvl] = H256VecAppendMerge(@, <<b>>)]
  /\ proposerBest' = IF lvl > proposerBest[2] THEN <<b, lvl>> ELSE proposerBest
  /\ unconfirmedProposer' = unconfirmedProposer \cup {b}
  /\ UNCHANGED <<voterLevel, voterChain, voterParent, voteNeighbor, votedLevel,
                 voteSet, leaderSequence, ledgerOrder, voterBest, ledgerTip, applied>>

\* the votes a voter may carry (checked by the validator, not the engine):
\* one proposer for each level above the voter parent's voted level, up to
\* the level of its proposer parent, as unvoted_proposer lists them
VoteChoices(lo, hi) ==
  {s \in [1 .. hi - lo -> Proposers] : \A i \in 1 .. hi - lo : proposerLevel[s[i]] = lo + i}

\* the merge operands of lines 597-648 for a voter at level lvl of chain c
\* with voter parent vp: the walk's removed votes, then its added votes,
\* then the block's own votes
VoterOps(vp, c, lvl, votes) ==
  LET prev == voterBest[c]
      walk == VoteWalk(vp, voterLevel[vp], prev[1], prev[2], <<>>, <<>>)
  IN  [i \in 1 .. Len(walk[2]) |-> <<walk[2][i][1], FALSE, c, walk[2][i][2]>>]
      \o [i \in 1 .. Len(walk[1]) |-> <<walk[1][i][1], TRUE, c, walk[1][i][2]>>]
      \o [i \in 1 .. Len(votes) |-> <<votes[i], TRUE, c, lvl>>]

\* the leader sequence after re-electing the affected levels over votes vs
ElectAffected(vs, ls, affected) ==
  [L \in Levels |-> IF L \in affected THEN ElectLeader(vs, L) ELSE ls[L]]

\* mutant: the deconfirm loop forgets unconfirmed_proposer.insert (754)
LedgerRebuildNoReinsert(ls, cb) ==
  LET removed == RetiredBlocks(cb, ledgerTip)
      lo      == [L \in Levels |-> IF L \in cb .. ledgerTip THEN NoLedger ELSE ledgerOrder[L]]
      r       == Rebuild(ls, cb, lo, unconfirmedProposer, <<>>)
  IN  [order |-> r.order, unconf |-> r.unconf, tip |-> r.tip,
       addedTx |-> TxBlocksOf(r.added), removedTx |-> TxBlocksOf(removed)]

\* the ledger batch (lines 733-869) from change_begin cb over leaders ls:
\* the new ledger, unconfirmed set and tip, and the returned tx-block delta
LedgerRebuild(ls, cb) ==
  LET removed == RetiredBlocks(cb, ledgerTip)
      lo      == [L \in Levels |-> IF L \in cb .. ledgerTip THEN NoLedger ELSE ledgerOrder[L]]
      r       == Rebuild(ls, cb, lo, unconfirmedProposer \cup ToSet(removed), <<>>)
  IN  [order |-> r.order, unconf |-> r.unconf, tip |-> r.tip,
       addedTx |-> TxBlocksOf(r.added), removedTx |-> TxBlocksOf(removed)]

\* applying a returned delta to the consumer's multiset of tx blocks
ApplyDelta(r) == (applied (+) ToBag(r.addedTx)) (-) ToBag(r.removedTx)

\* the graph part of the first batch of a voter block b (lines 447-500)
VoterGraphBatch(b, p, vp, votes) ==
  /\ parent' = (b :> p) @@ parent
  /\ voterParent' = (b :> vp) @@ voterParent
  /\ voterLevel' = (b :> voterLevel[vp] + 1) @@ voterLevel
  /\ voterChain' = (b :> voterChain[vp]) @@ voterChain
  /\ voteNeighbor' = (b :> votes) @@ voteNeighbor
  /\ votedLevel' = (b :> proposerLevel[p]) @@ votedLevel

\* insert_block on a voter block b with proposer parent p, voter parent vp
\* and votes: graph batch, then the leader batch, then the ledger batch
InsertVoter(b, p, vp, votes) ==
  LET lvl     == voterLevel[vp] + 1
      c       == voterChain[vp]
      ops     == VoterOps(vp, c, lvl, votes)
      vs      == ApplyVoteOps(voteSet, ops)
      ls      == ElectAffected(vs, leaderSequence, AffectedLevels(ops))
      changed == {L \in Levels : ls[L] # leaderSequence[L]}
      r       == LedgerRebuild(ls, Min(changed))
  IN
  /\ proposerLevel[p] >= votedLevel[vp]
  /\ votes \in VoteChoices(votedLevel[vp], proposerLevel[p])
  /\ VoterGraphBatch(b, p, vp, votes)
  /\ IF lvl > voterBest[c][2]
     THEN /\ voterBest' = [voterBest EXCEPT ![c] = <<b, lvl>>]
          /\ voteSet' = vs
          /\ leaderSequence' = ls
          /\ IF changed # {}
             THEN /\ ledgerOrder' = r.order
                  /\ unconfirmedProposer' = r.unconf
                  /\ ledgerTip' = r.tip
                  /\ applied' = ApplyDelta(r)
             ELSE UNCHANGED <<ledgerOrder, unconfirmedProposer, ledgerTip, applied>>
     ELSE UNCHANGED <<voterBest, voteSet, leaderSequence, ledgerOrder,
                         unconfirmedProposer, ledgerTip, applied>>
  /\ UNCHANGED <<proposerLevel, proposerTree, proposerRefs, txRefs, proposerBest,
                 unreferredProposer, unreferredTransaction>>

\* the refs a proposer may carry besides its parent: none, or one of the
\* tips the miner's template takes from unreferred_proposer and
\* unreferred_transaction (the engine itself accepts any arrived block)
RefChoices(p) == {<<>>} \cup {<<r>> : r \in unreferredProposer \ {p}}
TxRefChoices == {<<>>} \cup {<<t>> : t \in unreferredTransaction}

Next ==
  \/ \E b \in TxIds \ DOMAIN parent, p \in Proposers : InsertTransaction(b, p)
  \/ \E b \in ProposerIds \ Proposers, p \in Proposers :
       \E refs \in RefChoices(p), txs \in TxRefChoices : InsertProposer(b, p, refs, txs)
  \/ \E b \in VoterIds \ Voters, p \in Proposers, vp \in Voters :
       \E votes \in VoteChoices(votedLevel[vp], proposerLevel[p]) : InsertVoter(b, p, vp, votes)

Spec == Init /\ [][Next]_vars

-----------------------------------------------------------------------------
(* Properties.                                                             *)

TypeOK ==
  /\ proposerLevel \in [Proposers -> Levels]
  /\ proposerTree \in [Levels -> Seq(Proposers)]
  /\ voterChain \in [Voters -> Chains]
  /\ \A p \in DOMAIN voteSet : voteSet[p] \in Seq(Chains \X Nat)
  /\ leaderSequence \in [Levels -> Proposers \cup {NoBlock}]
  /\ \A L \in Levels : ledgerOrder[L] = NoLedger \/ ledgerOrder[L] \in Seq(Proposers)
  /\ proposerBest \in Proposers \X Levels
  /\ voterBest \in [Chains -> Voters \X Nat]
  /\ unreferredProposer \subseteq Proposers
  /\ unreferredTransaction \subseteq Txs
  /\ unconfirmedProposer \subseteq Proposers
  /\ ledgerTip \in Nat

\* the voters of chain c's main chain: the best voter and its ancestors
RECURSIVE ChainFrom(_)
ChainFrom(v) == {v} \cup (IF v \in DOMAIN voterParent THEN ChainFrom(voterParent[v]) ELSE {})
MainChain(c) == ChainFrom(voterBest[c][1])

\* the <<chain, level>> votes p should hold, one per main-chain voter voting p
ExpectedVotes(p) ==
  {<<voterChain[v], voterLevel[v]>> :
     v \in {v \in UNION {MainChain(c) : c \in Chains} : p \in ToSet(voteNeighbor[v])}}

\* Spec 3.6 / 8.6: after any sequence of insertions, including fork
\* switches walked back by insert_block, the PROPOSER_NODE_VOTE list of
\* every proposer holds exactly one entry per main-chain voter voting for it.
VoteSetMatchesMainChains ==
  \A p \in Proposers :
     ToBag(VotesOf(voteSet, p)) = [x \in ExpectedVotes(p) |-> 1]

\* Spec 3.7: the leader recorded for every level above genesis is the last
\* proposer of the level, in arrival order, holding more than N/2+1 votes,
\* although insert_block only re-elects the levels its delta touched.
LeaderMatchesVotes ==
  \A L \in Levels \ {0} : leaderSequence[L] = ElectLeader(voteSet, L)

\* the proposers reachable from x through proposer refs
RECURSIVE Reach(_)
Reach(S) == LET T == S \cup UNION {ToSet(proposerRefs[x]) : x \in S}
            IN IF T = S THEN S ELSE Reach(T)

LedgerLevels == {L \in Levels : ledgerOrder[L] # NoLedger}
ConfirmedBelow(L) == UNION {ToSet(ledgerOrder[K]) : K \in {K \in LedgerLevels : K < L}}

\* Spec 3.8 / 8.3: the ledger kept incrementally by insert_block (deconfirm
\* from the first changed level, reconfirm by DFS) is what a from-scratch
\* computation gives: each level's entry holds exactly the blocks reachable
\* from its current leader and not confirmed by a lower level, each once,
\* sorted by level; and every level whose leaders are contiguous from
\* level 1 has an entry.
LedgerIsRecomputation ==
  /\ \A L \in Levels : (\A K \in 1 .. L : leaderSequence[K] # NoBlock) => L \in LedgerLevels
  /\ \A L \in LedgerLevels :
       /\ leaderSequence[L] # NoBlock
       /\ ToSet(ledgerOrder[L]) = Reach({leaderSequence[L]}) \ ConfirmedBelow(L)
       /\ Len(ledgerOrder[L]) = Cardinality(ToSet(ledgerOrder[L]))
       /\ \A i \in 1 .. Len(ledgerOrder[L]) - 1 :
             proposerLevel[ledgerOrder[L][i]] <= proposerLevel[ledgerOrder[L][i + 1]]

\* Spec 3.9 / 8.4: unconfirmed_proposer is the exact complement of the
\* blocks in the ledger, after deconfirmations and reconfirmations.
UnconfirmedIsComplement ==
  unconfirmedProposer = Proposers \ UNION {ToSet(ledgerOrder[L]) : L \in LedgerLevels}

\* Spec 4.4: a consumer that applies every (added, removed) delta returned
\* by insert_block holds exactly the transaction blocks of the ledger.
DeltaReplaysLedger ==
  LET ls == SetToSortSeq(LedgerLevels, <)
  IN applied = ToBag(TxBlocksOf(FlattenSeq([i \in 1 .. Len(ls) |-> ledgerOrder[ls[i]]])))

\* Spec 3.8/3.10, and the unreachable! of proposer_transaction_in_ledger
\* and dump: every level up to ledger_tip has a ledger entry.
LedgerTipContiguous ==
  \A L \in 0 .. ledgerTip : L \in Levels /\ ledgerOrder[L] # NoLedger
-----------------------------------------------------------------------------
(* Refinement of PrismLedger.                                              *)

\* the votes cast on chain c's main chain, with the voter's level
MainVotesOf(c) ==
  UNION {{<<p, voterLevel[v]>> : p \in ToSet(voteNeighbor[v])} : v \in MainChain(c)}

\* the ledger entries of the leader prefix; entries past a level without a
\* leader (see LedgerTipContiguous) are not part of what the engine promises
LedgerPrefixOf ==
  [L \in Levels |-> IF \A K \in 0 .. L : leaderSequence[K] # NoBlock
                    THEN ledgerOrder[L] ELSE NoLedger]

Abstract == INSTANCE PrismLedger
              WITH tree <- proposerTree, refs <- proposerRefs,
                   mainVotes <- [c \in Chains |-> MainVotesOf(c)],
                   leader <- leaderSequence, ledger <- LedgerPrefixOf

\* Every insert_block call is one step of PrismLedger: a proposer insertion
\* leaves leaders and ledger alone, and a voter insertion changes the votes
\* of one chain's main chain and leaves the leaders elected from the votes
\* of all main chains and the ledger derived from them, although the engine
\* keeps votes as merge operands, re-elects only the levels the walk
\* touched and rebuilds the ledger from the first changed level.
ImplementsPrismLedger == Abstract!Spec

====
