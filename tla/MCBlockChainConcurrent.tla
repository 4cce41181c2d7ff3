------------------------ MODULE MCBlockChainConcurrent ------------------------
(* Instantiates BlockChainConcurrent for TLC: three voter chains, so a     *)
(* leader needs the votes of all three, and two worker threads.            *)
EXTENDS BlockChainConcurrent

CONSTANTS vg0, vg1, vg2   \* voter genesis hashes of chains 0, 1, 2

MCVoterGenesis == (0 :> vg0) @@ (1 :> vg1) @@ (2 :> vg2)

\* block hashes and worker threads are interchangeable names
MCSymmetry == Permutations(ProposerIds) \cup Permutations(VoterIds)
              \cup Permutations(TxIds) \cup Permutations(Threads)
====
