# TLA+ models of the Prism block-chain engine

This directory holds TLA+ models of `src/src/blockchain/mod.rs`, the storage
engine of this Prism implementation, and the TLC configurations that check
them. Each model was translated from the Rust source. `PROJECT.json` maps
every model definition to the source lines it stands for.

## The system

Prism keeps three kinds of blocks in one RocksDB database:

- **Transaction blocks** carry transactions.
- **Proposer blocks** form a tree by level. Each one references earlier
  proposer blocks and transaction blocks that have not been referenced yet.
- **Voter blocks** form `NUM_VOTER_CHAINS` independent chains. Each voter
  votes for one proposer block on every proposer level that its chain has
  not voted on yet.

`BlockChain::insert_block` is the only operation that writes state. The
worker threads of `main.rs` call it once they have validated a block
(`handler/new_validated_block.rs`). It works as follows:

1. **Graph data.** It writes the parent edge, levels, refs and the
   per-level proposer tree. It also updates the best tips and the
   `unreferred_*` sets, which are in-memory, mutex-protected sets.
2. **Voter reorganisation.** A voter block is the new best of its chain
   when its level is higher than the current best. In that case a
   two-pointer walk goes back from the old best and the new best to their
   common ancestor. The votes of the abandoned branch are removed and the
   votes of the new branch are added. Votes are applied through the RocksDB
   merge operator `vote_vec_merge`:
   - an add appends `(chain, level)`;
   - a remove does a `swap_remove` of the first entry of that chain.

   The graph batch is committed here, at line 657.
3. **Leader election.** For every proposer level whose votes changed, the
   leader is re-elected. The leader is the last proposer in arrival order
   that has more than `NUM_VOTER_CHAINS/2 + 1` votes. This batch is
   committed separately, at line 724.
4. **Ledger rebuild.** Let `change_begin` be the lowest level whose leader
   changed.
   - Every ledger entry from `change_begin` up to `ledger_tip` is
     deconfirmed: its blocks go back to `unconfirmed_proposer`.
   - Then, for each level that has a leader, a stack DFS from the leader
     confirms every still-unconfirmed proposer block it reaches. The result
     is sorted by level.
   - The transaction blocks that were added and removed are returned as a
     delta.

   This batch is committed at line 845.

The queries `unreferred_proposer`, `unreferred_transaction` and
`unvoted_proposer` decide what the miner references and votes for. This
means they shape every block that a later `insert_block` sees.

## Modules

| Module | Models | State | Actions |
|---|---|---|---|
| `BlockChain` | `insert_block` and `BlockChain::new`, one whole call per step | `parent`, `proposerLevel`, `proposerTree`, `proposerRefs`, `txRefs`, `voterLevel`, `voterChain`, `voterParent`, `voteNeighbor`, `votedLevel`, `voteSet` (the column families); `proposerBest`, `voterBest`, `unreferredProposer`, `unreferredTransaction`, `unconfirmedProposer`, `ledgerTip` (the mutex-protected fields); `leaderSequence`, `ledgerOrder`; `applied` (history: the multiset of tx blocks a consumer of the returned deltas holds) | `InsertTransaction`, `InsertProposer`, `InsertVoter` |
| `PrismLedger` | the abstract promise of the engine: leaders elected from main-chain votes, ledger = the from-scratch ordering of the leader prefix | `tree`, `refs`, `mainVotes`, `leader`, `ledger` | `AddProposer`, `MoveVotes` |
| `Difficulty` | the proposer path of `insert_block` with the retarget (347-414), mutex poisoning, and the worker pool of `main.rs` | `parent`, `level`, `difficulty`, `timestamp`, `unreferredProposer`, `proposerBest`, `poisoned`, `liveWorkers`; `now` (the miners' clock) | `InsertProposer`, `Tick` |
| `BlockChainConcurrent` | voter insertions split at their three batches on worker threads, plus a ledger query | `BlockChain`'s variables, `pc` and `job` per thread, `queryTip`, `queryFailed` | `VoterGraph`, `ElectLeaders`, `CommitLeaders`, `RebuildLedger`, `OtherBlock`, `QueryLedgerTip`, `QueryLedgerLevels` |
| `MCBlockChain`, `MCDifficulty`, `MCBlockChainConcurrent` | instantiations for TLC: voter genesis hashes as model values, symmetry over block ids and threads | | |

Some parts of the code are operators in `BlockChain` rather than actions:

- the merge operators: `VoteVecMerge`, `ApplyVoteOps`, `H256VecAppendMerge`;
- the walk: `VoteWalk`, `AffectedLevels`;
- the election: `ElectLeader`;
- the rebuild: `RetiredBlocks`, `Dfs`, `SortByLevel`, `Rebuild`, `TxBlocksOf`.

`InsertVoter` applies all of them in the order the code runs them, so one
step is one complete call. Its phases are also operators (`VoterGraphBatch`,
`VoterOps`, `ElectAffected`, `LedgerRebuild`, `ApplyDelta`), which
`BlockChainConcurrent` reuses through `INSTANCE BlockChain` as separate
steps.

### Difficulty

`NewDifficulty` follows lines 355-414: a non-retarget level copies the
parent's difficulty. At a retarget level it walks K-2 parent links
(`WalkParents`, which yields `{}` where an `unwrap` would panic). It then
computes the f32 rate (`MiningRate`; division by 0.0 saturates to
`U64Max`), the U256 quotient and product, and the clamp (`Retarget`). Every
arithmetic panic is the value `Panic`. Numbers are scaled down: `Scale`
stands for 1e7 and `Width` bits for 256. `InsertProposer` changes
`unreferred_proposer` first (303-308), as the code does. A panic then
poisons the two mutexes held since 303 and 309 and ends the worker thread
(`WorkerDies`, the handler's `unwrap` at line 42). Once the lock is
poisoned, each later proposer insertion panics at 303 and ends another
worker.

### Concurrency

`main.rs` starts 4 worker threads. A voter insertion holds its chain's
`voter_best` mutex from 502 until it returns. In between it commits three
batches: the graph at 657, the leaders at 724 and the ledger at 845, the
last one under `ledger_tip` and `unconfirmed_proposer`. Per thread, `pc`
goes `idle -> elect -> commit -> ledger -> idle`:

- `VoterGraph` is the graph batch;
- `ElectLeaders` reads the affected levels (660-721);
- `CommitLeaders` writes the leaders;
- `RebuildLedger` rebuilds from the leaders stored at that moment (763).

Two threads may run together only on different chains. Proposer and
transaction insertions are atomic steps of an idle thread (`OtherBlock(t)`).
They commit one batch under their own mutexes, and a voter's phases touch
none of those mutexes. `MinerTemplate(c)` is the miner's template read
(915-988): `best_proposer`, `best_voter(c)` and `unvoted_proposer(tip)`,
each under its own mutex, so it waits while a thread holds `voter_best[c]`.
`TemplateReadFails` is true when one of the `unwrap`s on a stored entry in
`unvoted_proposer` (967, 982) would meet a missing entry. `QueryLedgerTip` and `QueryLedgerLevels` are
`proposer_transaction_in_ledger` (1029-1063), as called by the
visualization server that `main.rs` starts at 157. The query copies
`ledger_tip` under its lock, drops the lock, and then reads the ledger
levels. `dump` repeats that read at 1133-1135 and 1315-1325.

**Storage errors.** Each of the three voter batches writes with
`self.db.write(wb)?`. The actions `VoterGraph`, `CommitLeaders` and
`RebuildLedger` take the write's outcome `w` from `WriteOutcomes`. On
`"err"` the call leaves through `?`: the guards are dropped normally, so no
mutex is poisoned. The handler's `unwrap` then ends the thread (`Dies`,
`pc = "dead"`). What the code changed in memory before the write stays
changed:
- `voter_best` (506-510) before the write at 657;
- `ledger_tip` (773) and `unconfirmed_proposer` (754, 790) before the write
  at 845.

Only the `write_error` and `phantom_tip` runs set `WriteOutcomes = {"ok", "err"}`. Every
other cfg has `{"ok"}`.

### Refinement

`BlockChain` is shown to implement `PrismLedger`. The refinement mapping is
defined at the end of `BlockChain`:

- `MainVotesOf(c)` gives the votes of chain c's main chain;
- `LedgerPrefixOf` gives the ledger entries of the levels 0..L that all
  have leaders.

`ImplementsPrismLedger == Abstract!Spec` is a temporal property. It checks
two things. Every `insert_block` is either a stutter or an `AddProposer`
or `MoveVotes` step of the abstract spec. And the incremental re-election
and rebuild always end in the abstract leaders and ledger.

Block hashes are model values drawn from `ProposerIds`, `VoterIds` and
`TxIds`. A block's content is abstracted to what the engine stores:

- parent, refs and tx refs for a proposer;
- parent, voter parent and votes for a voter.

The environment can insert only blocks that the miner template could build:

- `RefChoices` and `TxRefChoices` come from the `unreferred_*` sets;
- `VoteChoices` allows one vote per level above the chain's voted level.

## Runs

All runs use `NUM_VOTER_CHAINS = 3`. With three chains, a leader needs all
3 votes (`> 3/2+1`), so one chain that disagrees leaves a level without a
leader.

The cfgs say `CHECK_DEADLOCK FALSE` because a bounded model runs out of
block ids (and clock) and then stops. That is the only reason it stops.

| Run | cfg | Bounds | Properties | Result |
|---|---|---|---|---|
| ledger | `MCBlockChain.cfg` | 3 proposers, 3 voters, 1 tx | `TypeOK`, `LedgerIsRecomputation` | pass, about 1.8M states, 105 s |
| reorg | `MCBlockChainReorg.cfg` | 1 proposer, 6 voters, 1 tx | `VoteSetMatchesMainChains`, `LeaderMatchesVotes`, `DeltaReplaysLedger`, `UnconfirmedIsComplement`, `LedgerIsRecomputation` | pass, about 102k states, 65 s |
| refinement | `MCBlockChainRefine.cfg` | 2 proposers, 4 voters, 1 tx | `ImplementsPrismLedger` | pass, about 453k states, 72 s |
| ledger_gap | `MCBlockChainGap.cfg` | 3 proposers, 3 voters | `LedgerTipContiguous` | violation, at depth 7 |
| difficulty | `MCDifficulty.cfg` | K=3, 4 proposers, clock 0..6, no skew | `TypeOK`, `RetargetNeverPanics`, `RetargetIdempotent` | pass, about 9k states |
| difficulty_skew | `MCDifficultySkew.cfg` | as difficulty, skew 1 | `RetargetNeverPanics` | violation |
| difficulty_cascade | `MCDifficultyCascade.cfg` | as difficulty_skew | `PanicCostsOneWorker` | violation |
| concurrent_ledger | `MCBlockChainConcurrent.cfg` | 2 threads, 2 proposers, 3 voters, 1 tx | `QuiescentLedgerConsistent` | pass, about 625k states, 45 s |
| leader_race | `MCBlockChainRace.cfg` | 2 threads, 1 proposer, 5 voters | `QuiescentLeadersMatchVotes` | violation, at depth 16 |
| ledger_query | `MCBlockChainQuery.cfg` | 1 thread, 1 proposer, 5 voters | `LedgerQueryNeverFails` | violation |
| write_error | `MCBlockChainWriteError.cfg` | 1 thread, 1 proposer, 3 voters, writes may fail | `QuiescentLedgerConsistent` | violation |
| phantom_tip | `MCBlockChainTemplate.cfg` | as write_error | `TemplateReadsNeverPanic` | violation, at depth 3 |

Why these bounds are enough:

- **reorg.** Five voters are enough for a chain to fork and for the fork
  to overtake the main chain: v1 then v2 on top, against v3, v4, v5. The
  overtaking fork forces a walk that both removes and adds votes, and it
  deconfirms a confirmed leader (the loop at 741-758). The sixth voter, on
  the fork, votes for level 1 again, so the leader is reconfirmed by an
  incremental rebuild from `change_begin` over a ledger that was
  deconfirmed; this is where the ledger invariants and
  `unconfirmed_proposer` are checked. A leader needs all 3 chains, so with
  only 3 voters (the ledger run) the ledger is built once, from tip 0.
- **refinement.** Four voters still allow an overtaking fork: v1 on one
  side, against v2 and then v3 on the other. Two proposers give a ledger
  of two levels. The transaction block makes the abstract ledger's content
  matter. Within 4 voters no leader is ever lost, so this run checks the
  refinement against incremental confirmation only, not against a
  deconfirmation.
- **ledger.** Three proposers let one ledger entry hold blocks of two
  levels, so the sort and the DFS order matter. They also allow a level
  with two candidates. One voter per chain may vote on levels 1 and 2 at
  once, so leaders at two levels are confirmed. This run builds the ledger
  once, from scratch: it checks the DFS's dedup and the stable level sort,
  and the reorg run checks deconfirmation and reconfirmation.
- **difficulty.** With K=3 and four proposers, a chain reaches the retarget
  level 3. The epoch times 0..6 make the rate `8/dt` range over halving,
  keeping and doubling. Four proposers reach level 3 on two forks, so
  the retarget happens from two ancestors; level 6, the next retarget,
  is out of reach. The clock is synchronised and each epoch is at most 6 time
  units, so this run asks whether the arithmetic is safe in its intended
  range. Outside that range it is not:
  - with skew 1, `difficulty_skew` underflows;
  - with MaxTime 9 in a copy of `MCDifficulty.cfg` (not one of the runs),
    `RetargetNeverPanics` fails by a zero rate;
  - with InitialDifficulty 64 in such a copy, it fails by the eager
    `previous*2`.
- **concurrent_ledger.** Two threads on two chains, with two proposers, let
  a second thread's leader write land between another thread's leader
  commit and its rebuild. A run with 4 voters and a tx block took over
  6 minutes.
- **leader_race, ledger_query.** These use 1 proposer and 5 voters: the fork that
  overtakes is what changes votes under a running election, or what lowers
  `ledger_tip` under a running query.
- **write_error.** One thread, so the violation comes from the fault
  alone and not from a race; three voters are the fewest that confirm a
  leader and so reach the ledger write. `phantom_tip` needs only one
  failed graph write and one template read.

What the properties say:

- **`VoteSetMatchesMainChains`.** After any sequence of reorganisations,
  the votes stored for each proposer are exactly the votes of the
  current main chains. This is the multiset equality that `vote_vec_merge`'s
  chain-only removal must keep.
- **`LeaderMatchesVotes`.** `leader_sequence` is what a fresh election over
  the stored votes would give, so re-electing only the affected levels is
  enough.
- **`LedgerIsRecomputation`.** Each ledger level of the leader prefix has
  an entry, and each entry is what a from-scratch computation gives: the
  blocks its leader reaches, minus those confirmed below, without
  duplicates and sorted by level.
- **`UnconfirmedIsComplement`.** `unconfirmed_proposer` is exactly the set
  of proposers that are not in the ledger.
- **`DeltaReplaysLedger`.** A consumer that applies every returned delta
  holds exactly the transaction blocks the ledger confirms.
- **`ImplementsPrismLedger`.** The engine refines the abstract ledger
  spec.
- **`RetargetNeverPanics`.** No retarget panics.
- **`RetargetIdempotent`.** An epoch that took exactly the target time
  keeps the difficulty, up to truncation (spec §8.7).
- **`QuiescentLedgerConsistent`.** When no call is running, the ledger and
  `unconfirmed_proposer` are what the stored leaders give. This holds even
  though the rebuild reads leaders that other threads wrote.
- **`TemplateReadsNeverPanic`.** The miner's template reads (spec §6's
  template contract) never meet a missing stored entry.

### Findings

- **ledger_gap (code bug, mod.rs:773).** `LedgerTipContiguous` states spec
  §3 (8, 10): every level up to `ledger_tip` has a leader and a ledger
  entry. TLC finds this sequence:
  1. p1 and p2 are inserted at level 1 and split the votes, so level 1 has
     no leader.
  2. p3 is inserted at level 2, and every chain votes for it.
  3. The rebuild starts at `change_begin = 2` and sets `ledger_tip = 2`.

  `proposer_transaction_in_ledger` and `dump` then reach
  `unreachable!("level <= ledger tip should have leader")`.
- **difficulty_skew (divergence from spec §7, mod.rs:390).** A retarget
  block stamped one unit before the epoch's first block underflows the u64
  elapsed time. Spec §7 asks for saturation at the clamp instead of a
  panic.
- **difficulty_cascade (code bug, mod.rs:303).** The panicking block stays
  in the in-memory `unreferred_proposer` set, but the batch at 439 that
  would store it never runs. The panic also poisons
  `unreferred_proposer` and `unreferred_transaction`, so the miner's
  `unreferred_proposer()` (943) panics on the poisoned lock as well and
  never references the unstored block. Every later proposer
  block then panics at `lock().unwrap()`, and the handler's `unwrap` ends
  another of the 4 workers each time, until none is left.
- **leader_race (code bug, mod.rs:724).** Thread A computes level 1's leader
  p1 from three votes. Thread B's fork on another chain then drops one of
  those votes and finishes. A commits p1 anyway, so `leader_sequence[1]`
  names a block that holds 2 of 3 votes. The FIXME at 650-656 anticipates
  this.
- **ledger_query (code bug, mod.rs:1032).** A query copies `ledger_tip = 1`
  and drops the lock. A reorg then deconfirms level 1 and lowers the tip to
  0. The query's read of level 1 finds no entry and panics.
- **write_error (code bug, mod.rs:845).** Three voters confirm p1 at level
  1. The ledger write at 845 then returns an error. By that point
  `ledger_tip` is already 1 in memory and p1 is no longer in
  `unconfirmed_proposer`. The stored ledger has no level-1 entry, no delta
  was returned, and nothing rolls the memory back.
- **phantom_tip (code bug, mod.rs:507).** A voter v1 extending chain 0 sets
  `voter_best[0] = v1` in memory (506-510). The graph write at 657 then
  returns an error and the thread dies. `best_voter(0)` now names a block
  the store never received, and the miner's `unvoted_proposer(v1)` panics
  on the `unwrap` of v1's voted level at 967. Had v1 arrived again, it
  would not extend the chain either: its level is not above the phantom's.

## Mutants

Each property of each passing run is broken by a plausible code bug. The
mutant is defined next to the operator it replaces:

| Mutant | Bug it models | Property it breaks |
|---|---|---|
| `VoteVecMergeSwapped` | removal without the chain match | `TypeOK` (BlockChain) |
| `DfsKeepsUnconfirmed` | the DFS forgets `unconfirmed_proposer.remove` | `UnconfirmedIsComplement` |
| `SortByLevelDropped` | no final sort | `LedgerIsRecomputation` |
| `VoteWalkNoRemoved` | the walk does not record removed votes | `VoteSetMatchesMainChains`, `ImplementsPrismLedger` |
| `AffectedLevelsAddedOnly` | removed votes do not trigger re-election | `LeaderMatchesVotes` |
| `RetiredBlocksFromNext` | deconfirmation starts one level late | `DeltaReplaysLedger` |
| `LedgerRebuildNoReinsert` | deconfirmation forgets `unconfirmed_proposer.insert` (754) | `LedgerIsRecomputation` (reorg) |
| `RetargetUnclamped` | the clamp is dropped | `TypeOK` (Difficulty) |
| `EpochAncestorTooFar` | the walk takes K-1 links, past genesis | `RetargetNeverPanics` |
| `MiningRateWholeInterval` | the rate counts K intervals, not K-1 | `RetargetIdempotent` |
| `CommitLeadersNoRebuild` | the ledger phase is skipped after a leader change | `QuiescentLedgerConsistent` |

## Fairness

The checks are safety properties (the refinement included); no liveness
property is checked, and no fairness is assumed. A started `insert_block`
call does finish: the lock orders have no cycle (voter: `voter_best`, then
`ledger_tip`, then `unconfirmed_proposer`; proposer: `unreferred_proposer`,
then `unreferred_transaction`, then `proposer_best`, then
`unconfirmed_proposer`), and no phase waits on anything another phase
holds across a wait. In the model every phase of a running call is always
enabled, so a termination property would hold by the shape of the model.
The way work really stops is a panic. `PanicCostsOneWorker` checks that
as a safety property.

## Not modelled

- **Storage errors outside the voter path.** Write errors are modelled for
  the three voter batches only. A failed write at 439 (proposer) or 893
  (transaction) would likewise leave the in-memory sets ahead of the
  store, and a later proposer would reference the unstored block. The
  ledger DFS would then `unwrap` its missing refs (800-812), and the model
  does not represent those reads failing. The transaction path also drops
  its `unreferred_transaction` guard (892) before its write (893); this is listed
  as a hazard without a property.
- **`dump`.** Only its ledger read is modelled, through the query actions.
  The rest of it collects voter chains and proposer status for display.
- **Data outside the engine.** The HTTP API, argument parsing, the ICO
  experiment, transaction-block hashing, and the handler's mempool removal
  are I/O or act on data outside the engine. The miner, worker and
  visualization modules are not part of this source tree. Only their calls
  into the engine are modelled: the choices of what to reference and vote
  for, the 4 workers, and the ledger query.
- **Restarts.** `BlockChain::new` destroys the database (line 164), so no
  state survives a crash.
- **Difficulty at the bottom.** The difficulty-1 halving to an absorbing 0
  (line 398) needs more halving epochs than the difficulty run can
  enumerate.
