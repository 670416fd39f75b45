----------------------------- MODULE MCTurnQueue -----------------------------
(* Small instances of TurnQueue for TLC. *)
EXTENDS TurnQueue, TLC

CONSTANTS m1, m2, m3

\* The messages that are not steered are interchangeable: no action and no
\* invariant names one.
MessageSymmetry == Permutations(Messages \ Steered)
=============================================================================
