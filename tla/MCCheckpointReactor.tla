------------------------ MODULE MCCheckpointReactor ------------------------
EXTENDS CheckpointReactor, TLC

TurnSymmetry == Permutations(Turns)
=============================================================================
