------------------------- MODULE ProjectionPipeline -------------------------
(***************************************************************************)
(* The durable side of orchestration: the event log, the projection tables *)
(* with one cursor each, and the bootstrap that replays the log into them. *)
(*                                                                         *)
(* The ten projectors of Layers/ProjectionPipeline.ts fall into four       *)
(* classes that the code treats differently; one projector stands for each:*)
(*   "projects"  the project rows (idempotent upserts); a snapshot cursor; *)
(*   "messages"  the other six snapshot projectors; the message table is   *)
(*               the one where applying an event twice shows, because a    *)
(*               streamed message-sent appends its text to the row;        *)
(*   "turns"     thread-turns and pending-approvals: hot, but not among    *)
(*               the snapshot cursors a project event advances;            *)
(*   "shell"     thread-shell-summaries: deferred, with a shouldApply.     *)
(* A table is the sequence of the sequence numbers applied to it.  A       *)
(* missing projection_state row reads as cursor 0, as in the code.         *)
(***************************************************************************)
EXTENDS Naturals, Sequences, FiniteSets

CONSTANTS
  Commands,    \* command ids
  Dispatches,  \* calls of dispatch
  ReadLimit    \* the default page of readFromSequence (1000 in the code)

ASSUME ReadLimitAssumption == ReadLimit \in Nat \ {0}

VARIABLES
  log,     \* orchestration_events: event n is log[n]
  rows,    \* rows[p]: the events applied to projector p's table, in order
  cursor,  \* projection_state.last_applied_sequence
  boot     \* the replay in progress, if any

projectionVars == <<rows, cursor, boot>>

\* project.*; a thread event the shell summary is refreshed by; any other.
EventKinds == {"project", "summary", "thread"}

\* by is the dispatch that appended the event: history, not in the table.
Events == [cmd : Commands, kind : EventKinds, by : Dispatches]

-----------------------------------------------------------------------------
(* The projectors                                                          *)

Projectors == {"projects", "messages", "turns", "shell"}

Hot == {"projects", "messages", "turns"}

Snapshot == {"projects", "messages"}

\* The order of the projectors array, which bootstrap follows.
BootOrder == <<"projects", "messages", "turns", "shell">>

\* Does applying an event of kind k change projector p's table?
Handles(p, k) ==
  CASE p = "projects" -> k = "project"
    [] p = "shell"    -> k = "summary"
    [] OTHER          -> k # "project"

\* shouldApply: only the shell summary projector filters.
ShouldApply(p, k) == p = "shell" => k = "summary"

\* Mutant: a project event moves the cursor of its own projector only.
AdvancedOwn(k) == IF k = "project" THEN {"projects"} ELSE Hot

\* Whose cursor does the command transaction move for an event of kind k?
\* projectMetadataEvent moves the snapshot cursors, projectHotEvent the hot.
Advanced(k) == IF k = "project" THEN Snapshot ELSE Hot

Numbers(lo, hi) == [i \in 1..(hi - lo) |-> lo + i]

\* The events lo+1..hi of log l that change p's table, in order.
Handled(l, p, lo, hi) ==
  LET upTo[n \in lo..hi] ==
        IF n = lo THEN <<>>
        ELSE IF Handles(p, l[n].kind) THEN Append(upTo[n - 1], n) ELSE upTo[n - 1]
  IN  upTo[hi]

EndOfPage(from) ==
  IF from + ReadLimit < Len(log) THEN from + ReadLimit ELSE Len(log)

-----------------------------------------------------------------------------
(* Inline projection                                                       *)

\* The projections that are part of the command transaction, for the events
\* that extend log to newLog.
ProjectInTransaction(newLog) ==
  LET Moves(p) == {n \in (Len(log) + 1)..Len(newLog) : p \in Advanced(newLog[n].kind)}
      Last(p)  == CHOOSE n \in Moves(p) : \A m \in Moves(p) : m <= n
  IN  /\ rows' = [p \in Projectors |->
                    IF p \in Hot
                    THEN rows[p] \o Handled(newLog, p, Len(log), Len(newLog))
                    ELSE rows[p]]
      /\ cursor' = [p \in Projectors |->
                      IF Moves(p) = {} THEN cursor[p] ELSE Last(p)]

\* projectDeferredEvent: one transaction of its own, after the command's;
\* an event that shouldApply refuses moves nothing.
ProjectDeferred(n) ==
  IF ShouldApply("shell", log[n].kind)
  THEN /\ rows' = [rows EXCEPT !["shell"] = Append(@, n)]
       /\ cursor' = [cursor EXCEPT !["shell"] = n]
  ELSE UNCHANGED <<rows, cursor>>

-----------------------------------------------------------------------------
(* Bootstrap: each projector in turn resumes after its cursor and reads    *)
(* one page of the log.                                                    *)

BootStates == {"off", "replaying", "done", "failed"}

NotBooting == [pc |-> "off", idx |-> 0, next |-> 0, stop |-> 0]

\* bootstrapProjector of the i-th projector from cursors c, or the end.
BootAt(i, c) ==
  IF i > Len(BootOrder)
  THEN [NotBooting EXCEPT !.pc = "done"]
  ELSE LET at == c[BootOrder[i]]
       IN [pc |-> "replaying", idx |-> i, next |-> at + 1, stop |-> EndOfPage(at)]

\* runProjectorForEvent: apply and move the cursor in one transaction.  An
\* event the projector skips only counts when it is the last of the page
\* (pendingSkippedEvent).
BootReplayEvent ==
  /\ boot.pc = "replaying"
  /\ boot.next <= boot.stop
  /\ LET p == BootOrder[boot.idx]
         n == boot.next
         k == log[n].kind
     IN /\ rows' = IF Handles(p, k) THEN [rows EXCEPT ![p] = Append(@, n)] ELSE rows
        /\ cursor' = IF ShouldApply(p, k) \/ n = boot.stop
                     THEN [cursor EXCEPT ![p] = n]
                     ELSE cursor
        /\ boot' = [boot EXCEPT !.next = n + 1]

BootNextProjector ==
  /\ boot.pc = "replaying"
  /\ boot.next > boot.stop
  /\ boot' = BootAt(boot.idx + 1, cursor)
  /\ UNCHANGED <<rows, cursor>>

\* Reading or applying fails: the projectors done so far stay replayed.
BootFail ==
  /\ boot.pc = "replaying"
  /\ boot' = [NotBooting EXCEPT !.pc = "failed"]
  /\ UNCHANGED <<rows, cursor>>

Replays == [pc : BootStates, idx : 0..Len(BootOrder), next : Nat, stop : Nat]

ProjectionTypeOK ==
  /\ log \in Seq(Events)
  /\ rows \in [Projectors -> Seq(Nat)]
  /\ cursor \in [Projectors -> Nat]
  /\ boot \in Replays

=============================================================================
