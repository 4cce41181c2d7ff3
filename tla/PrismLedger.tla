----------------------------- MODULE PrismLedger -----------------------------
(***************************************************************************)
(* What the block-chain engine promises its callers, without the vote      *)
(* merges, the incremental re-election or the ledger rebuild: after each   *)
(* insert_block the leader of every level is elected from the votes on the *)
(* voter chains' main chains, and the ledger is, level by level from 0     *)
(* while levels have leaders, the proposers each leader reaches and no     *)
(* lower level confirmed, ordered by level.                                *)
(*                                                                         *)
(* A step adds a proposer block, or changes the main-chain votes of one    *)
(* chain (a voter extends it or a fork overtakes it) and re-derives the   *)
(* leaders and the ledger.                                                 *)
(***************************************************************************)
EXTENDS Naturals, Sequences, SequencesExt, FiniteSets

CONSTANTS NumChains, Genesis, ProposerIds, NoBlock, NoLedger

Chains == 0 .. NumChains - 1
Levels == 0 .. Cardinality(ProposerIds)

VARIABLES
  tree,       \* level -> proposers of that level in arrival order
  refs,       \* proposer -> the proposers it references
  mainVotes,  \* chain -> set of <<proposer, voter level>> cast on its main chain
  leader,     \* level -> leader or NoBlock
  ledger      \* level -> confirmed proposers or NoLedger

avars == <<tree, refs, mainVotes, leader, ledger>>

Known == UNION {ToSet(tree[L]) : L \in Levels}
LevelOf(p) == CHOOSE L \in Levels : p \in ToSet(tree[L])

\* the chains whose main chain votes for p
Voting(mv, p) == {c \in Chains : \E x \in mv[c] : x[1] = p}

\* the last proposer of level L, in arrival order, voted for by more than
\* N/2 + 1 chains, as spec 3.7 states the rule
Elected(mv, L) ==
  LET q == {i \in DOMAIN tree[L] : Cardinality(Voting(mv, tree[L][i])) > NumChains \div 2 + 1}
  IN  IF q = {} THEN NoBlock ELSE tree[L][Max(q)]

RECURSIVE Reachable(_)
Reachable(S) == LET T == S \cup UNION {ToSet(refs[x]) : x \in S}
                IN  IF T = S THEN S ELSE Reachable(T)

\* the levels from 0 up to the first one without a leader
LeaderPrefix(ld) == {L \in Levels : \A K \in 0 .. L : ld[K] # NoBlock}

\* lg is the ledger of leaders ld: every level of the leader prefix holds
\* the blocks its leader reaches that no lower level holds, once each, in
\* non-decreasing level; no other level has an entry
IsLedgerFor(lg, ld) ==
  \A L \in Levels :
    IF L \in LeaderPrefix(ld)
    THEN LET below == UNION {ToSet(lg[K]) : K \in 0 .. L - 1}
         IN  /\ lg[L] # NoLedger
             /\ ToSet(lg[L]) = Reachable({ld[L]}) \ below
             /\ Len(lg[L]) = Cardinality(ToSet(lg[L]))
             /\ \A i \in 1 .. Len(lg[L]) - 1 : LevelOf(lg[L][i]) <= LevelOf(lg[L][i + 1])
    ELSE lg[L] = NoLedger

Init ==
  /\ tree = [L \in Levels |-> IF L = 0 THEN <<Genesis>> ELSE <<>>]
  /\ refs = Genesis :> <<>>
  /\ mainVotes = [c \in Chains |-> {<<Genesis, 0>>}]
  /\ leader = [L \in Levels |-> IF L = 0 THEN Genesis ELSE NoBlock]
  /\ ledger = [L \in Levels |-> IF L = 0 THEN <<Genesis>> ELSE NoLedger]

\* a proposer block b arrives one level above its parent, referencing
\* known proposers; it holds no votes yet, so leaders and ledger stay
AddProposer(b) ==
  /\ b \in ProposerIds \ Known
  /\ \E L \in 1 .. Cardinality(ProposerIds) :
        /\ tree[L - 1] # <<>>
        /\ tree' = [tree EXCEPT ![L] = Append(@, b)]
  /\ DOMAIN refs' = DOMAIN refs \cup {b}
  /\ \A p \in DOMAIN refs : refs'[p] = refs[p]
  /\ ToSet(refs'[b]) \subseteq Known
  /\ UNCHANGED <<mainVotes, leader, ledger>>

\* the main-chain votes of chain c change; every leader is re-elected and
\* the ledger re-derived from the new leaders
MoveVotes(c) ==
  /\ \A d \in Chains \ {c} : mainVotes'[d] = mainVotes[d]
  /\ mainVotes'[c] # mainVotes[c]
  /\ leader' = [L \in Levels |-> IF L = 0 THEN Genesis ELSE Elected(mainVotes', L)]
  /\ IsLedgerFor(ledger', leader')
  /\ UNCHANGED <<tree, refs>>

Next == (\E b \in ProposerIds : AddProposer(b)) \/ (\E c \in Chains : MoveVotes(c))

Spec == Init /\ [][Next]_avars

=============================================================================
