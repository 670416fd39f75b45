-------------------------- MODULE MCAssistantStream --------------------------
EXTENDS AssistantStream, TLC

CONSTANTS t1, t2, u1, u2, m1, m2

\* A thread with two turns, and another that only asks for turns.
MCThreadOf == (u1 :> t1) @@ (u2 :> t1)
MCTurnOf == (m1 :> u1) @@ (m2 :> u1)
=============================================================================
