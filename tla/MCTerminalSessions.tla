------------------------- MODULE MCTerminalSessions -------------------------
EXTENDS TerminalSessions, TLC

CONSTANTS a, b

\* Two terminals in threads of their own.
Apart == (a :> "t1") @@ (b :> "t2")

\* One terminal is used in every way, the other comes and goes.
MCRequests == ({"open", "restart", "clear", "closeThread", "sleep"} \X {a})
                \cup ({"open"} \X {b})
=============================================================================
