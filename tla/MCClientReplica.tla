-------------------------- MODULE MCClientReplica --------------------------
EXTENDS ClientReplica, TLC

\* What a piece says matters to the code only in that it may repeat.
LetterSymmetry == Permutations(Letters)
=============================================================================
