------------------------- MODULE BlockChainConcurrent -------------------------
(***************************************************************************)
(* Concurrent insert_block calls on voter blocks (blockchain/mod.rs,       *)
(* 446-887).  main.rs starts 4 worker threads that each hand validated     *)
(* blocks to insert_block.  A voter insertion holds only the voter_best    *)
(* mutex of its own chain and commits three write batches:                 *)
(*   "elect"  after the graph batch at 657 (graph data and vote merges),   *)
(*   "commit" after reading the affected levels' leaders and votes,        *)
(*   "ledger" after the leader batch at 724,                               *)
(* and the ledger batch at 845 under ledger_tip and unconfirmed_proposer.  *)
(* Two threads on different chains can therefore interleave the reads and  *)
(* writes of the leader sequence.                                          *)
(*                                                                         *)
(* The reads of all affected levels (665-721) are one step here, and the   *)
(* ledger batch, serialised by the ledger_tip mutex, is one step.          *)
(* Proposer and transaction insertions are atomic steps of BlockChain:     *)
(* their in-memory sets change under the same mutexes as their batch.      *)
(***************************************************************************)
EXTENDS Naturals, Sequences, FiniteSets, FiniteSetsExt, Bags, TLC

CONSTANTS
  NumChains, Genesis, VoterGenesis, ProposerIds, VoterIds, TxIds,
  NoBlock, NoLedger,
  Threads,       \* the worker threads that call insert_block
  QueryLimit,    \* the limit argument of proposer_transaction_in_ledger
  WriteOutcomes  \* what a db.write(wb)? may return: "ok", and "err" where
                 \* storage errors are in the model

VARIABLES
  parent, proposerLevel, proposerTree, proposerRefs, txRefs, voterLevel,
  voterChain, voterParent, voteNeighbor, votedLevel, voteSet, leaderSequence,
  ledgerOrder, proposerBest, voterBest, unreferredProposer,
  unreferredTransaction, unconfirmedProposer, ledgerTip, applied,
  pc,            \* thread -> "idle", "elect", "commit", "ledger" or "dead"
  job,           \* thread -> the insertion in progress: its chain, the
                 \* affected levels, the leader writes and change_begin
  queryTip,      \* the ledger_tip a visualization query copied, or NoQuery
  queryFailed,   \* a visualization query has reached unreachable! (history)
  templateFailed \* a miner's template read has panicked on a missing entry

BC == INSTANCE BlockChain

graphVars == <<parent, proposerLevel, proposerTree, proposerRefs, txRefs,
               voterLevel, voterChain, voterParent, voteNeighbor, votedLevel>>
engineVars == <<graphVars, voteSet, leaderSequence, ledgerOrder, proposerBest,
                voterBest, unreferredProposer, unreferredTransaction,
                unconfirmedProposer, ledgerTip, applied>>
queryVars == <<queryTip, queryFailed, templateFailed>>
vars == <<engineVars, pc, job, queryVars>>

NoQuery == -1

IdleJob == [chain |-> 0, affected |-> {}, writes |-> <<>>, begin |-> 0]

\* the voter_best mutex of chain c is held by a thread between 502 and its
\* drop at 875, 880 or 885
HoldsChain(t, c) == pc[t] \notin {"idle", "dead"} /\ job[t].chain = c

\* db.write(wb)? returns the error, the guards are dropped on the way out,
\* and the handler's insert_block(..).unwrap() ends the worker thread
Dies(t) ==
  /\ pc' = [pc EXCEPT ![t] = "dead"]
  /\ job' = [job EXCEPT ![t] = IdleJob]

Init ==
  /\ BC!Init
  /\ pc = [t \in Threads |-> "idle"]
  /\ job = [t \in Threads |-> IdleJob]
  /\ queryTip = NoQuery
  /\ queryFailed = FALSE
  /\ templateFailed = FALSE

\* Lines 446-657: the graph batch of voter b, with the walk and the vote
\* merges, under chain c's voter_best mutex.  voter_best moves in memory
\* (506-510) before the batch is written at 657, or at 885 for a block that
\* does not extend the main chain and ends the call there.
VoterGraph(t, b, p, vp, votes, w) ==
  LET lvl     == voterLevel[vp] + 1
      c       == voterChain[vp]
      ops     == BC!VoterOps(vp, c, lvl, votes)
      extends == lvl > voterBest[c][2]
  IN
  /\ pc[t] = "idle"
  /\ \A u \in Threads : ~HoldsChain(u, c)
  /\ proposerLevel[p] >= votedLevel[vp]
  /\ votes \in BC!VoteChoices(votedLevel[vp], proposerLevel[p])
  /\ voterBest' = IF extends THEN [voterBest EXCEPT ![c] = <<b, lvl>>] ELSE voterBest
  /\ IF w = "ok"
     THEN /\ BC!VoterGraphBatch(b, p, vp, votes)
          /\ IF extends
             THEN /\ voteSet' = BC!ApplyVoteOps(voteSet, ops)
                  /\ pc' = [pc EXCEPT ![t] = "elect"]
                  /\ job' = [job EXCEPT ![t] = [IdleJob EXCEPT !.chain = c,
                                                  !.affected = BC!AffectedLevels(ops)]]
             ELSE UNCHANGED <<voteSet, pc, job>>
     ELSE /\ UNCHANGED <<parent, voterParent, voterLevel, voterChain,
                         voteNeighbor, votedLevel, voteSet>>
          /\ Dies(t)
  /\ UNCHANGED <<proposerLevel, proposerTree, proposerRefs, txRefs, proposerBest,
                 leaderSequence, ledgerOrder, unreferredProposer,
                 unreferredTransaction, unconfirmedProposer, ledgerTip, applied,
                 queryVars>>

\* Lines 660-721: read each affected level's leader and the votes of its
\* proposers from the store, and queue a put or delete for every level
\* whose elected leader differs from the stored one.
ElectLeaders(t) ==
  LET ls      == BC!ElectAffected(voteSet, leaderSequence, job[t].affected)
      changed == {L \in job[t].affected : ls[L] # leaderSequence[L]}
  IN
  /\ pc[t] = "elect"
  /\ pc' = [pc EXCEPT ![t] = "commit"]
  /\ job' = [job EXCEPT ![t].writes = [L \in changed |-> ls[L]],
                        ![t].begin = IF changed = {} THEN 0 ELSE Min(changed)]
  /\ UNCHANGED <<engineVars, queryVars>>

CommitLeadersNoRebuild(t, w) ==
  /\ pc[t] = "commit"
  /\ leaderSequence' = job[t].writes @@ leaderSequence
  /\ pc' = [pc EXCEPT ![t] = "idle"]
  /\ job' = [job EXCEPT ![t] = IdleJob]
  /\ UNCHANGED <<graphVars, voteSet, ledgerOrder, proposerBest, voterBest,
                 unreferredProposer, unreferredTransaction,
                 unconfirmedProposer, ledgerTip, applied, queryVars>>

\* Line 724: commit the queued leader writes.  With no change the call ends
\* (879-881); otherwise the ledger phase follows.
CommitLeaders(t, w) ==
  /\ pc[t] = "commit"
  /\ IF w = "ok"
     THEN /\ leaderSequence' = job[t].writes @@ leaderSequence
          /\ IF DOMAIN job[t].writes = {}
             THEN /\ pc' = [pc EXCEPT ![t] = "idle"]
                  /\ job' = [job EXCEPT ![t] = IdleJob]
             ELSE /\ pc' = [pc EXCEPT ![t] = "ledger"]
                  /\ UNCHANGED job
     ELSE /\ UNCHANGED leaderSequence
          /\ Dies(t)
  /\ UNCHANGED <<graphVars, voteSet, ledgerOrder, proposerBest, voterBest,
                 unreferredProposer, unreferredTransaction,
                 unconfirmedProposer, ledgerTip, applied, queryVars>>

\* Lines 733-876: under ledger_tip and unconfirmed_proposer, deconfirm from
\* change_begin and rebuild reading the leader sequence as the store has
\* it now (763), which may include other threads' leader writes.  The
\* in-memory unconfirmed_proposer (754, 790) and ledger_tip (773) change
\* while the batch is built; only the ledger order waits for the write at
\* 845, and the delta is returned only after it.
RebuildLedger(t, w) ==
  LET r == BC!LedgerRebuild(leaderSequence, job[t].begin) IN
  /\ pc[t] = "ledger"
  /\ unconfirmedProposer' = r.unconf
  /\ ledgerTip' = r.tip
  /\ IF w = "ok"
     THEN /\ ledgerOrder' = r.order
          /\ applied' = BC!ApplyDelta(r)
          /\ pc' = [pc EXCEPT ![t] = "idle"]
          /\ job' = [job EXCEPT ![t] = IdleJob]
     ELSE /\ UNCHANGED <<ledgerOrder, applied>>
          /\ Dies(t)
  /\ UNCHANGED <<graphVars, voteSet, leaderSequence, proposerBest, voterBest,
                 unreferredProposer, unreferredTransaction, queryVars>>

\* proposer and transaction blocks, each one atomic insert_block call of an
\* idle worker thread: their in-memory sets change under the mutexes that
\* are held until their batch is written (439); a transaction
\* block drops its one guard at 892, just before its write at 893
OtherBlock(t) ==
  /\ pc[t] = "idle"
  /\ \/ \E b \in TxIds \ DOMAIN parent, p \in BC!Proposers : BC!InsertTransaction(b, p)
     \/ \E b \in ProposerIds \ BC!Proposers, p \in BC!Proposers :
          \E refs \in BC!RefChoices(p), txs \in BC!TxRefChoices :
             BC!InsertProposer(b, p, refs, txs)
  /\ UNCHANGED <<pc, job, queryVars>>

\* The miner's template reads (915-988): best_proposer and its difficulty,
\* then best_voter(c) and unvoted_proposer(tip).  Each getter takes and
\* drops its own mutex, so the read of chain c waits for a thread that
\* holds voter_best[c].  unvoted_proposer unwraps the stored voted level of
\* the tip (967) and the tree entry of every level up to the best proposer
\* level (982, 985); a missing entry panics the miner.
TemplateReadFails(c) ==
  LET tip == voterBest[c][1] IN
  \/ proposerBest[1] \notin BC!Proposers
  \/ tip \notin BC!Voters
  \/ \E L \in votedLevel[tip] + 1 .. proposerBest[2] : proposerTree[L] = <<>>

MinerTemplate(c) ==
  /\ \A t \in Threads : ~HoldsChain(t, c)
  /\ templateFailed' = (templateFailed \/ TemplateReadFails(c))
  /\ UNCHANGED <<engineVars, pc, job, queryTip, queryFailed>>

\* Lines 1029-1032 of proposer_transaction_in_ledger: copy ledger_tip under
\* its mutex and drop the guard.  dump (1132-1135) starts the same way.
QueryLedgerTip ==
  /\ queryTip = NoQuery
  /\ queryTip' = ledgerTip
  /\ UNCHANGED <<engineVars, pc, job, queryFailed, templateFailed>>

\* Lines 1034-1054: read the ledger order of every level from
\* ledger_tip - limit (or 0) to the copied tip, without a lock; a missing
\* entry is unreachable!, which panics the request's thread (the
\* visualization server main.rs starts at 157 is the caller).  The
\* transaction refs of 1056-1062 are written with their proposer and never
\* deleted, so their read cannot fail.
QueryLedgerLevels ==
  LET bottom == IF queryTip > QueryLimit THEN queryTip - QueryLimit ELSE 0 IN
  /\ queryTip # NoQuery
  /\ queryFailed' = (queryFailed \/
                      \E L \in bottom .. queryTip : ledgerOrder[L] = NoLedger)
  /\ queryTip' = NoQuery
  /\ UNCHANGED <<engineVars, pc, job, templateFailed>>

Next ==
  \/ \E t \in Threads :
       \/ OtherBlock(t)
       \/ \E b \in VoterIds \ BC!Voters, p \in BC!Proposers, vp \in BC!Voters :
            \E votes \in BC!VoteChoices(votedLevel[vp], proposerLevel[p]),
              w \in WriteOutcomes :
               VoterGraph(t, b, p, vp, votes, w)
       \/ ElectLeaders(t)
       \/ \E w \in WriteOutcomes : CommitLeaders(t, w)
       \/ \E w \in WriteOutcomes : RebuildLedger(t, w)
  \/ QueryLedgerTip
  \/ QueryLedgerLevels
  \/ \E c \in BC!Chains : MinerTemplate(c)

Spec == Init /\ [][Next]_vars

-----------------------------------------------------------------------------
(* Properties, stated for states where no insert_block call is running.     *)

Quiescent == \A t \in Threads : pc[t] \in {"idle", "dead"}

\* Once every insert_block call has returned, the stored leader of each
\* level is the one an election over the stored votes gives.  The leader
\* batch (724) is computed from votes read without a lock shared between
\* chains (the FIXME at 650-656), so a thread can commit a leader computed
\* from votes another chain's thread has since changed.
QuiescentLeadersMatchVotes == Quiescent => BC!LeaderMatchesVotes

\* Once every call has returned, each ledger entry is what a from-scratch
\* computation over the stored leaders gives, and unconfirmed_proposer is
\* its exact complement, although the ledger batch (763) reads leaders
\* that other threads wrote after this thread computed change_begin.
QuiescentLedgerConsistent ==
  Quiescent => (BC!LedgerIsRecomputation /\ BC!UnconfirmedIsComplement)

\* A visualization query of the ledger never meets a level up to its ledger_tip
\* without a ledger entry, as the unreachable! at 1049 (and 1320 in dump)
\* asserts.  The tip is copied and its mutex dropped before the levels are
\* read, so a rebuild that lowers the tip (deconfirming levels at 741-758)
\* can delete the entries in between.
LedgerQueryNeverFails == ~queryFailed

\* The miner's template reads never panic: best_voter(c) names a voter block
\* whose voted level is stored.  voter_best moves in memory (506-510) before
\* the graph batch is written (657, 883), so a write that returns an error
\* leaves a tip the store does not have once its thread has died.
TemplateReadsNeverPanic == ~templateFailed

=============================================================================
