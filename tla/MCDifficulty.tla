---------------------------- MODULE MCDifficulty ----------------------------
EXTENDS Difficulty

MCSymmetry == Permutations(ProposerIds)

=============================================================================
