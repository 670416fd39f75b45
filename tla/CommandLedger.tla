---------------------------- MODULE CommandLedger ----------------------------
(***************************************************************************)
(* What OrchestrationEngine promises its callers, without queue, receipts, *)
(* read model, timers or crashes: a ledger of events to which each command *)
(* is added at most once, whole, and only where the ledger itself permits  *)
(* it, and one answer per call of dispatch that is true of the ledger.     *)
(***************************************************************************)
EXTENDS Naturals, Sequences

CONSTANTS Commands, Dispatches, CommandOf, EventsOf, Requires, Excludes

VARIABLES ledger, answer

ledgerVars == <<ledger, answer>>

InLedger(c) == \E n \in DOMAIN ledger : ledger[n].cmd = c

Permits(c) ==
  /\ \A r \in Requires[c] : InLedger(r)
  /\ \A x \in Excludes[c] : ~InLedger(x)

Open(d) == answer[d].kind = "none"

\* A call takes effect: all events of its command, at the end of the ledger.
Execute(d) ==
  LET c == CommandOf[d]
  IN  /\ Open(d)
      /\ ~InLedger(c)
      /\ Permits(c)
      /\ EventsOf[c] # <<>>
      /\ ledger' = ledger \o [i \in 1..Len(EventsOf[c]) |->
                                [cmd |-> c, kind |-> EventsOf[c][i], by |-> d]]
      /\ UNCHANGED answer

\* Success names the last event of the command, whichever call added it.
Confirm(d) ==
  /\ Open(d)
  /\ \E n \in DOMAIN ledger :
       /\ ledger[n].cmd = CommandOf[d]
       /\ \A m \in DOMAIN ledger : ledger[m].cmd = CommandOf[d] => m <= n
       /\ answer' = [answer EXCEPT ![d] = [kind |-> "ok", seq |-> n]]
  /\ UNCHANGED ledger

\* Failure is only reported for a call without effect, and a refusal only
\* when the command is not in the ledger at all.
Refuse(d) ==
  /\ Open(d)
  /\ \A n \in DOMAIN ledger : ledger[n].by # d
  /\ \E kind \in {"rejected", "invariant", "failed", "timeout"} :
       /\ kind \in {"rejected", "invariant"} => ~InLedger(CommandOf[d])
       /\ answer' = [answer EXCEPT ![d] = [kind |-> kind, seq |-> 0]]
  /\ UNCHANGED ledger

\* The process ends: its callers learn nothing, the ledger keeps everything.
LoseCallers ==
  /\ \E lost \in SUBSET {d \in Dispatches : Open(d)} :
       answer' = [d \in Dispatches |->
                    IF d \in lost THEN [kind |-> "lost", seq |-> 0] ELSE answer[d]]
  /\ UNCHANGED ledger

LedgerInit ==
  /\ ledger = <<>>
  /\ answer = [d \in Dispatches |-> [kind |-> "none", seq |-> 0]]

LedgerNext ==
  \/ \E d \in Dispatches : Execute(d) \/ Confirm(d) \/ Refuse(d)
  \/ LoseCallers

LedgerSpec == LedgerInit /\ [][LedgerNext]_ledgerVars

=============================================================================
