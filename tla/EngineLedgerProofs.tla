------------------------- MODULE EngineLedgerProofs -------------------------
(***************************************************************************)
(* Theorems about OrchestrationEngine and its projections together: the    *)
(* hot tables and the read model are current whenever a command is         *)
(* decided, every event is published, a repair loses no project, dispatch  *)
(* implements CommandLedger, and (the second half) no event is applied     *)
(* twice.                                                                  *)
(*                                                                         *)
(* The argument, one invariant per part: the outcome lock keeps the worker,*)
(* a catch-up and a repair apart (LockInv); so a replay sees a log that    *)
(* does not grow and ends at its end (ReplayInv, RepairInv, HotInv); so    *)
(* the worker's starting point bounds what a failed command may have       *)
(* added, and reconcile closes the gap (ModelInv, PublishedInv); so the    *)
(* decider and the receipt speak of the log itself (CallInv).              *)
(*                                                                         *)
(* Three facts of the code appear as hypotheses, because the properties    *)
(* fail without them: reads of the event store come in pages of ReadLimit  *)
(* (RepairsFitPage, CommandsFitPage), the read that reconcile makes after  *)
(* a failure may itself fail ("reconcileRead", "outcomeRead"), and so may  *)
(* the roll-back of a failed repair ("repairRestore").                     *)
(***************************************************************************)
EXTENDS OrchestrationEngineProofs

-----------------------------------------------------------------------------
(* The lock                                                                *)

\* The outcome lock is held by the step that excludes the others: the worker
\* from the start of processEnvelope to its answer, a background catch-up or a
\* repair while its bootstrap runs. A bootstrap runs in no other place.
LockInv ==
  /\ lock = "worker" <=> worker.pc \in {"start"} \cup Executing
  /\ lock = "catchUp" <=> catchUp = "running"
  /\ lock = "repair" <=> repair.pc = "running"
  /\ boot.pc # "off" => worker.pc = "bootstrap" \/ lock \in {"catchUp", "repair"}
  /\ ~Up => catchUp = "idle" /\ repair.pc = "idle"

\* No step lets two of them run together: the semaphore is taken before and
\* released after, on every path, and a crash ends all of them.
LEMMA LockInvStep ==
  ASSUME TypeOK, LockInv, Next
  PROVE  LockInv'
<1>0. worker \in Workers /\ lock \in Holders /\ repair \in Repairs /\ boot \in Replays
  BY DEF TypeOK, ProjectionTypeOK
<1> USE DEF LockInv, Executing, Up
<1>1. CASE \E d \in Dispatches : Submit(d) \/ DeadlinePasses(d) \/ Abandon(d)
  BY <1>1 DEF Submit, DeadlinePasses, Abandon, projectionVars
<1>2. CASE Take \/ AcquireLock
  BY <1>0, <1>2 DEF Take, AcquireLock, Goto, Workers, projectionVars
<1>3. CASE SkipAbandoned \/ ReplayReceipt \/ Succeed \/ SettleByReceipt \/ SettleRejected
           \/ SettleFailed
  <2>1. /\ worker' = Idle /\ lock' = "free" /\ worker.pc \in {"start"} \cup Executing
        /\ UNCHANGED <<projectionVars, catchUp, repair>>
    BY <1>3 DEF SkipAbandoned, ReplayReceipt, Succeed, SettleByReceipt, SettleRejected,
                SettleFailed, Answer
  <2> QED BY <2>1 DEF Idle, projectionVars
<1>4. CASE Start \/ NoReceiptYet \/ InstallReadModel \/ DeferredDone \/ PublishNext \/ Reconcile
  <2>1. /\ worker.pc \in {"start"} \cup Executing /\ worker'.pc \in {"start"} \cup Executing
        /\ UNCHANGED <<projectionVars, catchUp, repair, lock>>
    BY <1>0, <1>4 DEF Start, NoReceiptYet, InstallReadModel, DeferredDone, PublishNext, Reconcile,
                      Goto, Abort, Workers
  <2> QED BY <2>1 DEF projectionVars
<1>5. CASE RejectCommand \/ RefuseEmptyCommand \/ FailBeforeCommit \/ Interrupt
  <2>1. worker.pc \in TimedStates /\ UNCHANGED <<projectionVars, catchUp, repair, lock>>
    BY <1>5, EngineAssumption DEF RejectCommand, RefuseEmptyCommand, FailBeforeCommit, Interrupt,
                                  TimedStates
  <2>2. worker'.pc = "reconcile"
    <3>1. PICK err : Abort(err)
      BY <1>5 DEF RejectCommand, RefuseEmptyCommand, FailBeforeCommit, Interrupt
    <3> QED BY <1>0, <3>1 DEF Abort, Workers
  <2> QED BY <2>1, <2>2 DEF TimedStates, projectionVars
<1>6. CASE Commit
  <2>1. /\ worker.pc = "decide" /\ worker'.pc = "install"
        /\ UNCHANGED <<boot, catchUp, repair, lock>>
    BY <1>0, <1>6 DEF Commit, Workers
  <2> QED BY <2>1
<1>7. CASE ProjectNextDeferred
  <2>1. /\ worker.pc = "deferred" /\ worker'.pc = "deferred"
        /\ UNCHANGED <<boot, repair, lock>>
    BY <1>0, <1>7 DEF ProjectNextDeferred, Workers
  <2>2. catchUp' = catchUp \/ (catchUp = "idle" /\ catchUp' = "waiting")
    BY <1>7 DEF ProjectNextDeferred, ScheduleCatchUp
  <2> QED BY <2>1, <2>2
<1>8. CASE Replay
  <2>1. boot.pc # "off"
    BY <1>8 DEF Replay, BootReplayEvent, BootNextProjector, BootFail
  <2> QED BY <1>8, <2>1 DEF Replay
<1>9. CASE BeginCatchUp \/ EndCatchUp
  <2>1. boot.pc # "off" \/ lock = "free"
    BY <1>9 DEF BeginCatchUp, EndCatchUp
  <2> QED BY <1>9, <2>1 DEF BeginCatchUp, EndCatchUp, NotBooting
<1>10. CASE RequestRepair \/ ResetProjects \/ FailRepair
  <2>1. repair'.pc \in {"idle", "waiting", "running"} /\ (repair'.pc = "running" <=> ResetProjects)
    BY <1>0, <1>10 DEF RequestRepair, ResetProjects, FailRepair, Repairs, NoRepair
  <2>2. UNCHANGED worker /\ UNCHANGED catchUp /\ repair.pc \in {"idle", "waiting"}
    BY <1>10 DEF RequestRepair, ResetProjects, FailRepair, clientVars
  <2>3. repair.pc # "idle" \/ Up
    BY <1>10 DEF RequestRepair, ResetProjects, FailRepair
  <2>4. CASE ResetProjects
    BY <2>1, <2>2, <2>3, <2>4 DEF ResetProjects
  <2>5. CASE ~ResetProjects
    <3>1. UNCHANGED <<lock, boot>>
      BY <1>10, <2>5 DEF RequestRepair, FailRepair, projectionVars
    <3> QED BY <2>1, <2>2, <2>3, <2>5, <3>1
  <2> QED BY <2>4, <2>5
<1>11. CASE RefreshReadModel \/ RestoreBackup
  <2>1. repair.pc = "running" /\ EndRepair
    BY <1>11 DEF RefreshReadModel, RestoreBackup
  <2> QED BY <2>1 DEF EndRepair, NoRepair, NotBooting
<1>12. CASE Crash
  BY <1>12 DEF Crash, Down, Idle, NoRepair, NotBooting
<1>13. CASE Restart
  BY <1>13 DEF Restart, Starting, Idle
<1>14. CASE FinishStart
  <2>1. worker' \in {Idle, Down} /\ boot'.pc = "off" /\ UNCHANGED <<lock, catchUp, repair>>
    BY <1>14 DEF FinishStart, NotBooting
  <2> QED BY <1>14, <2>1 DEF FinishStart, Idle, Down
<1>15. QED
  BY <1>1, <1>2, <1>3, <1>4, <1>5, <1>6, <1>7, <1>8, <1>9, <1>10, <1>11, <1>12, <1>13, <1>14
  DEF Next, Clients, WorkerStep

-----------------------------------------------------------------------------
(* Replays                                                                 *)

\* While a repair runs, the log fits the page of one read of the event store,
\* from which its bootstrap replays. It is a hypothesis of the theorems: with a
\* longer log a repair ends with hot tables that lag.
RepairsFitPage == repair.pc = "running" => Len(log) <= ReadLimit

\* A commit appends the events of the command, all by the dispatch in flight,
\* and leaves the hot cursors at the end of the log.
LEMMA CommitEffect ==
  ASSUME TypeOK, WorkerInv, Commit
  PROVE  /\ log \in Seq(Events) /\ log' \in Seq(Events)
         /\ Len(log) \in Nat /\ Len(log') \in Nat /\ Len(log) < Len(log')
         /\ worker.d \in Dispatches /\ Command \in Commands
         /\ Len(log') = Len(log) + Len(EventsOf[Command]) /\ Len(EventsOf[Command]) \in Nat
         /\ \A n \in 1..Len(log) : log'[n] = log[n]
         /\ \A n \in (Len(log) + 1)..Len(log') : log'[n].cmd = Command /\ log'[n].by = worker.d
         /\ \A p \in Snapshot : cursor'[p] = Len(log')
<1> DEFINE newLog == log \o Block(Command, worker.d)
<1>1. worker.d \in Dispatches /\ Command \in Commands /\ log \in Seq(Events)
  BY CommandType DEF Commit, Executing, WorkerInv, TypeOK, ProjectionTypeOK
<1>2. /\ newLog \in Seq(Events) /\ Len(newLog) = Len(log) + Len(EventsOf[Command])
      /\ Len(newLog) \in Nat /\ Len(log) \in Nat /\ Len(log) + 1 <= Len(newLog)
      /\ \A n \in 1..Len(log) : newLog[n] = log[n]
      /\ \A n \in (Len(log) + 1)..Len(newLog) : newLog[n].cmd = Command /\ newLog[n].by = worker.d
  BY <1>1, AppendedLog DEF Commit
<1>3. log' = newLog /\ ProjectInTransaction(newLog)
  BY DEF Commit
<1>4. Len(EventsOf[Command]) \in Nat
  BY <1>1, EngineAssumption
<1> HIDE DEF newLog
<1>5. ASSUME NEW p \in Snapshot PROVE cursor'[p] = Len(newLog)
  <2> DEFINE M == {n \in (Len(log) + 1)..Len(newLog) : p \in Advanced(newLog[n].kind)}
             L == CHOOSE n \in M : \A m \in M : m <= n
  <2>1. p \in Projectors /\ \A k : p \in Advanced(k)
    BY DEF Snapshot, Projectors, Advanced, Hot
  <2>2. cursor'[p] = IF M = {} THEN cursor[p] ELSE L
    BY <1>3, <2>1 DEF ProjectInTransaction
  <2>3. Len(newLog) \in M /\ \A m \in M : m <= Len(newLog)
    BY <1>2, <2>1
  <2>4. L \in M /\ \A m \in M : m <= L
    <3> HIDE DEF M
    <3> QED BY <2>3
  <2>5. L = Len(newLog)
    <3>1. M \subseteq Int
      BY <1>2
    <3> HIDE DEF M, L
    <3> QED BY <2>3, <2>4, <3>1
  <2> QED BY <2>2, <2>3, <2>5
<1>6. QED BY <1>1, <1>2, <1>3, <1>4, <1>5

\* The steps that touch the projections, the log or a repair.
LEMMA ProjectionSteps ==
  ASSUME Next
  PROVE  \/ UNCHANGED <<projectionVars, log, repair>>
         \/ UNCHANGED <<projectionVars, log>> /\ (RequestRepair \/ FailRepair)
         \/ Commit \/ ProjectNextDeferred \/ Replay \/ BeginCatchUp \/ EndCatchUp
         \/ ResetProjects \/ RefreshReadModel \/ RestoreBackup
         \/ Crash \/ Restart \/ FinishStart
<1>1. CASE Clients
  BY <1>1 DEF Clients, Submit, DeadlinePasses, Abandon, storeVars
<1>2. CASE Take \/ AcquireLock \/ FailBeforeCommit \/ Interrupt
  BY <1>2 DEF Take, AcquireLock, FailBeforeCommit, Interrupt, storeVars
<1>3. CASE WorkerStep
  BY <1>3 DEF WorkerStep, SkipAbandoned, Start, ReplayReceipt, NoReceiptYet, RejectCommand,
     RefuseEmptyCommand, InstallReadModel, DeferredDone, PublishNext,
     Succeed, Reconcile, SettleByReceipt, SettleRejected, SettleFailed, storeVars
<1>4. CASE RequestRepair \/ FailRepair
  BY <1>4 DEF RequestRepair, FailRepair, storeVars
<1>5. QED BY <1>1, <1>2, <1>3, <1>4 DEF Next

\* The projectors whose cursors bound the snapshot are never ahead of the log
\* and only behind it when the log fits one page. A replay reads that page from
\* the cursor on, so it has brought each projector that it left to the end.
ReplayInv ==
  /\ boot.pc = "replaying" => boot.idx \in 1..4
  /\ \A p \in Snapshot :
       cursor[p] <= Len(log) /\ (cursor[p] = Len(log) \/ Len(log) <= ReadLimit)
  /\ boot.pc = "replaying" /\ boot.idx <= 2 =>
       boot.stop = Len(log) /\ boot.next = cursor[BootOrder[boot.idx]] + 1
  /\ boot.pc = "done" \/ (boot.pc = "replaying" /\ boot.idx > 1) => cursor["projects"] = Len(log)
  /\ boot.pc = "done" \/ (boot.pc = "replaying" /\ boot.idx > 2) => cursor["messages"] = Len(log)

\* A page read from a cursor of the snapshot ends with the log.
LEMMA PageEnd ==
  ASSUME log \in Seq(Events), NEW at \in Nat, at <= Len(log), at = Len(log) \/ Len(log) <= ReadLimit
  PROVE  EndOfPage(at) = Len(log)
BY ReadLimitAssumption DEF EndOfPage

\* bootstrap replays the projectors in this order.
LEMMA BootOrderIs ==
  /\ BootOrder[1] = "projects" /\ BootOrder[2] = "messages"
  /\ BootOrder[3] = "turns" /\ BootOrder[4] = "shell"
BY DEF BootOrder

\* Where a replay of the i-th projector starts and stops.
LEMMA BootAtFields ==
  ASSUME log \in Seq(Events), NEW c \in [Projectors -> Nat], NEW i \in 1..5,
         \A p \in Snapshot : c[p] <= Len(log) /\ (c[p] = Len(log) \/ Len(log) <= ReadLimit)
  PROVE  /\ i = 5 => BootAt(i, c).pc = "done"
         /\ i # 5 => /\ BootAt(i, c).pc = "replaying" /\ BootAt(i, c).idx = i
                     /\ i <= 2 => /\ BootAt(i, c).stop = Len(log)
                                  /\ BootAt(i, c).next = c[BootOrder[i]] + 1
<1>1. CASE i = 5
  BY <1>1, BootOrderLength DEF BootAt, NotBooting
<1>2. CASE i # 5
  <2>1. BootAt(i, c) = [pc |-> "replaying", idx |-> i, next |-> c[BootOrder[i]] + 1,
                        stop |-> EndOfPage(c[BootOrder[i]])]
    BY <1>2, BootOrderLength DEF BootAt
  <2>2. i <= 2 => EndOfPage(c[BootOrder[i]]) = Len(log)
    <3>1. i <= 2 => BootOrder[i] \in Snapshot /\ BootOrder[i] \in Projectors
      BY BootOrderIs DEF Snapshot, Projectors
    <3> QED BY <3>1, PageEnd
  <2> QED BY <1>2, <2>1, <2>2
<1>3. QED BY <1>1, <1>2

\* The types that most steps below need.
LEMMA CursorFacts ==
  ASSUME TypeOK
  PROVE  /\ log \in Seq(Events) /\ Len(log) \in Nat /\ DOMAIN log = 1..Len(log)
         /\ cursor \in [Projectors -> Nat] /\ boot \in Replays
         /\ Snapshot \subseteq Projectors /\ "projects" \in Snapshot /\ "messages" \in Snapshot
         /\ \A p \in Snapshot : cursor[p] \in Nat
BY DEF TypeOK, ProjectionTypeOK, Snapshot, Projectors

\* The values of a sequence.
Elements(s) == {s[i] : i \in DOMAIN s}

\* An append adds one value.
LEMMA ElementsAppend ==
  ASSUME NEW s \in Seq(Nat), NEW n \in Nat
  PROVE  Elements(Append(s, n)) = Elements(s) \cup {n}
<1>1. /\ Len(s) \in Nat /\ DOMAIN s = 1..Len(s) /\ DOMAIN Append(s, n) = 1..(Len(s) + 1)
      /\ \A i \in 1..Len(s) : Append(s, n)[i] = s[i]
      /\ Append(s, n)[Len(s) + 1] = n
  BY AppendProperties
<1>2. ASSUME NEW i \in DOMAIN Append(s, n) PROVE Append(s, n)[i] \in Elements(s) \cup {n}
  <2>1. CASE i = Len(s) + 1
    BY <1>1, <2>1
  <2>2. CASE i # Len(s) + 1
    <3>1. i \in DOMAIN s
      BY <1>1, <1>2, <2>2
    <3> QED BY <1>1, <3>1 DEF Elements
  <2> QED BY <2>1, <2>2
<1>3. ASSUME NEW i \in DOMAIN s PROVE s[i] \in Elements(Append(s, n))
  <2>1. i \in DOMAIN Append(s, n) /\ Append(s, n)[i] = s[i]
    BY <1>1
  <2> QED BY <2>1 DEF Elements
<1>4. n \in Elements(Append(s, n))
  <2>1. Len(s) + 1 \in DOMAIN Append(s, n)
    BY <1>1
  <2> QED BY <1>1, <2>1 DEF Elements
<1>5. QED BY <1>2, <1>3, <1>4 DEF Elements

\* The events that the table of projects shows.
ProjectRows == Elements(rows["projects"])

\* A repair under way can be rolled back to cursors inside the log, and unless
\* its replay failed the table of projects shows all projects up to the cursor:
\* the table was emptied first.
RepairInv ==
  repair.pc = "running" =>
    /\ \A p \in Snapshot : repair.cursor[p] <= Len(log)
    /\ boot.pc # "failed" =>
         ProjectRows = {n \in 1..cursor["projects"] : log[n].kind = "project"}

\* What one event of a replay changes: the rows and the cursor of the projector
\* that is replayed, by the next event of its page.
LEMMA ReplayedEvent ==
  ASSUME TypeOK, ReplayInv, BootReplayEvent
  PROVE  LET p == BootOrder[boot.idx]
             n == boot.next
         IN  /\ boot.idx \in 1..4 /\ boot.pc = "replaying" /\ n \in Nat /\ p \in Projectors
             /\ boot' = [boot EXCEPT !.next = n + 1]
             /\ boot'.pc = boot.pc /\ boot'.idx = boot.idx /\ boot'.stop = boot.stop
             /\ boot'.next = n + 1
             /\ \A q \in Projectors : q # p => cursor'[q] = cursor[q] /\ rows'[q] = rows[q]
             /\ p # "shell" => cursor'[p] = n
             /\ p \in Snapshot => boot.idx <= 2 /\ n = cursor[p] + 1 /\ n <= Len(log)
             /\ rows'[p] = IF Handles(p, log[n].kind) THEN Append(rows[p], n) ELSE rows[p]
<1>1. boot \in Replays /\ cursor \in [Projectors -> Nat] /\ rows \in [Projectors -> Seq(Nat)]
  BY DEF TypeOK, ProjectionTypeOK
<1>2. boot.idx \in 1..4 /\ boot.pc = "replaying"
  BY DEF BootReplayEvent, ReplayInv
<1>3. PICK p \in Projectors : p = BootOrder[boot.idx]
  BY <1>2, BootOrderIs DEF Projectors
<1>4. PICK n \in Nat : n = boot.next
  BY <1>1 DEF Replays
<1>5. /\ rows' = IF Handles(p, log[n].kind) THEN [rows EXCEPT ![p] = Append(@, n)] ELSE rows
      /\ cursor' = IF ShouldApply(p, log[n].kind) \/ n = boot.stop
                   THEN [cursor EXCEPT ![p] = n] ELSE cursor
      /\ boot' = [boot EXCEPT !.next = n + 1]
      /\ n <= boot.stop
  BY <1>3, <1>4 DEF BootReplayEvent
<1>6. p # "shell" => cursor' = [cursor EXCEPT ![p] = n]
  BY <1>5 DEF ShouldApply
<1>7. p \in Snapshot => boot.idx <= 2
  BY <1>2, <1>3, BootOrderIs DEF Snapshot
<1>8. boot'.pc = boot.pc /\ boot'.idx = boot.idx /\ boot'.stop = boot.stop /\ boot'.next = n + 1
  BY <1>1, <1>5 DEF Replays
<1>9. \A q \in Projectors : q # p => cursor'[q] = cursor[q] /\ rows'[q] = rows[q]
  BY <1>1, <1>5
<1>10. p # "shell" => cursor'[p] = n
  BY <1>1, <1>6
<1>11. rows'[p] = IF Handles(p, log[n].kind) THEN Append(rows[p], n) ELSE rows[p]
  BY <1>1, <1>5
<1>12. p \in Snapshot => n = cursor[p] + 1 /\ n <= Len(log)
  BY <1>2, <1>3, <1>4, <1>5, <1>7 DEF ReplayInv
<1>13. QED
  BY <1>2, <1>3, <1>4, <1>5, <1>7, <1>8, <1>9, <1>10, <1>11, <1>12

\* Every step keeps the cursors of the snapshot where ReplayInv says.
LEMMA ReplayInvStep ==
  ASSUME TypeOK, TypeOK', WorkerInv, LockInv, ReplayInv, RepairInv,
         RepairsFitPage, RepairsFitPage', Next
  PROVE  ReplayInv'
<1> USE CursorFacts
<1>0. boot' \in Replays /\ cursor' \in [Projectors -> Nat]
  BY DEF TypeOK, ProjectionTypeOK
<1>1. CASE UNCHANGED <<projectionVars, log>>
  BY <1>1 DEF ReplayInv, projectionVars
<1>2. CASE Commit
  <2>1. Len(log') \in Nat /\ \A p \in Snapshot : cursor'[p] = Len(log')
    BY <1>2, CommitEffect
  <2>2. boot.pc = "off" /\ boot' = boot
    BY <1>2 DEF Commit, LockInv, Executing
  <2> QED BY <2>1, <2>2 DEF ReplayInv
<1>3. CASE ProjectNextDeferred
  <2>1. UNCHANGED <<log, boot>> /\ \A p \in Snapshot : cursor'[p] = cursor[p]
    BY <1>3 DEF ProjectNextDeferred, ProjectDeferred, storeVars, Snapshot, Projectors
  <2>2. boot.pc = "off"
    BY <1>3 DEF ProjectNextDeferred, LockInv, Executing
  <2> QED BY <2>1, <2>2 DEF ReplayInv
<1>4. CASE Replay
  <2>1. log' = log
    BY <1>4 DEF Replay, storeVars
  <2>2. CASE BootReplayEvent
    <3>1. PICK p \in Projectors, n \in Nat :
            /\ p = BootOrder[boot.idx] /\ n = boot.next
            /\ boot.idx \in 1..4 /\ boot.pc = "replaying"
            /\ boot'.pc = boot.pc /\ boot'.idx = boot.idx /\ boot'.stop = boot.stop
            /\ boot'.next = n + 1
            /\ \A q \in Projectors : q # p => cursor'[q] = cursor[q] /\ rows'[q] = rows[q]
            /\ p # "shell" => cursor'[p] = n
            /\ p \in Snapshot => boot.idx <= 2 /\ n = cursor[p] + 1 /\ n <= Len(log)
      BY <2>2, ReplayedEvent
    <3>2. boot.idx <= 2 => p \in Snapshot
      BY <3>1, BootOrderIs DEF Snapshot
    <3>3. \A q \in Snapshot : q # "shell"
      BY DEF Snapshot
    <3>4. \A q \in Snapshot :
            /\ cursor'[q] <= Len(log) /\ (cursor'[q] = Len(log) \/ Len(log) <= ReadLimit)
      <4> TAKE q \in Snapshot
      <4>1. CASE q = p
        BY <2>1, <3>1, <3>3, <4>1 DEF ReplayInv
      <4>2. CASE q # p
        BY <2>1, <3>1, <4>2 DEF ReplayInv
      <4> QED BY <4>1, <4>2
    <3>5. boot.idx > 1 => cursor'["projects"] = cursor["projects"]
      BY <3>1, BootOrderIs
    <3>6. boot.idx > 2 => cursor'["messages"] = cursor["messages"]
      BY <3>1, BootOrderIs
    <3>7. boot.idx <= 2 => boot'.stop = Len(log) /\ boot'.next = cursor'[p] + 1
      BY <3>1, <3>2, <3>3 DEF ReplayInv
    <3> QED BY <2>1, <3>1, <3>4, <3>5, <3>6, <3>7 DEF ReplayInv
  <2>3. CASE BootNextProjector
    <3>1. boot.pc = "replaying" /\ boot.next > boot.stop /\ cursor' = cursor
          /\ boot.idx \in 1..4 /\ boot.idx + 1 \in 1..5 /\ boot' = BootAt(boot.idx + 1, cursor)
      BY <2>3 DEF BootNextProjector, ReplayInv
    <3>2. boot.idx <= 2 => cursor[BootOrder[boot.idx]] = Len(log)
      <4>1. boot.idx <= 2 => BootOrder[boot.idx] \in Snapshot
        BY <3>1, BootOrderIs DEF Snapshot
      <4> QED BY <3>1, <4>1 DEF ReplayInv
    <3>3. /\ boot.idx + 1 = 5 => boot'.pc = "done"
          /\ boot.idx + 1 # 5 =>
               /\ boot'.pc = "replaying" /\ boot'.idx = boot.idx + 1
               /\ boot.idx + 1 <= 2 => /\ boot'.stop = Len(log)
                                       /\ boot'.next = cursor[BootOrder[boot.idx + 1]] + 1
      BY <3>1, BootAtFields DEF ReplayInv
    <3>4. boot.idx > 0 /\ cursor["projects"] = Len(log)
      BY <3>1, <3>2, BootOrderIs DEF ReplayInv
    <3>5. boot.idx > 1 => cursor["messages"] = Len(log)
      BY <3>1, <3>2, BootOrderIs DEF ReplayInv
    <3> QED BY <2>1, <3>1, <3>3, <3>4, <3>5 DEF ReplayInv
  <2>4. CASE BootFail
    BY <2>1, <2>4 DEF BootFail, NotBooting, ReplayInv
  <2> QED BY <1>4, <2>2, <2>3, <2>4 DEF Replay
<1>5. CASE BeginCatchUp \/ Restart
  <2>1. log' = log /\ cursor' = cursor /\ boot' = BootAt(1, cursor)
    BY <1>5 DEF BeginCatchUp, Restart, storeVars
  <2>2. boot'.pc = "replaying" /\ boot'.idx = 1 /\ boot'.stop = Len(log)
        /\ boot'.next = cursor[BootOrder[1]] + 1
    BY <2>1, BootAtFields DEF ReplayInv
  <2> QED BY <2>1, <2>2 DEF ReplayInv
<1>6. CASE EndCatchUp \/ RefreshReadModel \/ Crash \/ FinishStart
  <2>1. log' = log /\ cursor' = cursor /\ boot' = NotBooting
    BY <1>6 DEF EndCatchUp, RefreshReadModel, EndRepair, Crash, FinishStart, storeVars
  <2> QED BY <2>1 DEF ReplayInv, NotBooting
<1>7. CASE ResetProjects
  <2>1. PICK reset \in [Projectors -> Nat] :
          /\ reset = [p \in Projectors |-> IF p \in Snapshot THEN 0 ELSE cursor[p]]
          /\ log' = log /\ cursor' = reset /\ boot' = BootAt(1, reset) /\ repair'.pc = "running"
    <3> DEFINE r == [p \in Projectors |-> IF p \in Snapshot THEN 0 ELSE cursor[p]]
    <3>1. r \in [Projectors -> Nat]
      OBVIOUS
    <3>2. log' = log /\ cursor' = r /\ boot' = BootAt(1, r) /\ repair'.pc = "running"
      BY <1>7 DEF ResetProjects, storeVars
    <3> HIDE DEF r
    <3>3. r = [p \in Projectors |-> IF p \in Snapshot THEN 0 ELSE cursor[p]]
      BY DEF r
    <3> QED BY <3>1, <3>2, <3>3
  <2>2. Len(log) <= ReadLimit
    BY <2>1 DEF RepairsFitPage
  <2>3. \A p \in Snapshot : reset[p] = 0 /\ reset[p] <= Len(log) /\ Len(log) <= ReadLimit
    BY <2>1, <2>2
  <2>4. boot'.pc = "replaying" /\ boot'.idx = 1 /\ boot'.stop = Len(log)
        /\ boot'.next = reset[BootOrder[1]] + 1
    <3>1. log \in Seq(Events) /\ 1 \in 1..5 /\ 1 # 5 /\ 1 <= 2
      OBVIOUS
    <3> QED BY <2>1, <2>3, <3>1, BootAtFields
  <2> QED BY <2>1, <2>2, <2>3, <2>4, BootOrderIs DEF ReplayInv
<1>8. CASE RestoreBackup
  <2>1. log' = log /\ cursor' \in {repair.cursor, cursor} /\ boot' = NotBooting
        /\ repair.pc = "running"
    BY <1>8 DEF RestoreBackup, EndRepair, storeVars
  <2> QED BY <2>1 DEF ReplayInv, RepairInv, RepairsFitPage, NotBooting
<1>9. QED BY ProjectionSteps, <1>1, <1>2, <1>3, <1>4, <1>5, <1>6, <1>7, <1>8 DEF projectionVars

\* Every step keeps what a repair can be rolled back to, and its new table.
LEMMA RepairInvStep ==
  ASSUME TypeOK, TypeOK', WorkerInv, LockInv, ReplayInv, RepairInv, Next
  PROVE  RepairInv'
<1> USE CursorFacts
<1>0. repair \in Repairs /\ rows \in [Projectors -> Seq(Nat)] /\ "projects" \in Projectors
  BY DEF TypeOK, ProjectionTypeOK, Projectors
<1>1. CASE UNCHANGED <<projectionVars, log, repair>>
  BY <1>1 DEF RepairInv, ProjectRows, projectionVars
<1>2. CASE RequestRepair \/ FailRepair
  <2>1. repair'.pc # "running"
    BY <1>0, <1>2 DEF RequestRepair, FailRepair, NoRepair, Repairs
  <2> QED BY <2>1 DEF RepairInv
<1>3. CASE Commit \/ ProjectNextDeferred \/ BeginCatchUp \/ EndCatchUp \/ Restart \/ FinishStart
  <2>1. repair' = repair
    BY <1>3 DEF Commit, ProjectNextDeferred, BeginCatchUp, EndCatchUp, Restart, FinishStart
  <2>2. lock \in {"worker", "free", "catchUp"} \/ ~Up
    BY <1>3 DEF Commit, ProjectNextDeferred, BeginCatchUp, EndCatchUp, Restart, FinishStart,
                LockInv, Executing, Up
  <2>3. repair.pc # "running"
    BY <2>2 DEF LockInv
  <2> QED BY <2>1, <2>3 DEF RepairInv
<1>4. CASE Crash \/ RefreshReadModel \/ RestoreBackup
  BY <1>4 DEF Crash, RefreshReadModel, RestoreBackup, EndRepair, NoRepair, RepairInv
<1>5. CASE ResetProjects
  <2>1. /\ repair' = [pc |-> "running", rows |-> rows["projects"], cursor |-> cursor]
        /\ rows'["projects"] = <<>> /\ cursor'["projects"] = 0 /\ log' = log
    BY <1>0, <1>5 DEF ResetProjects, storeVars
  <2> QED BY <2>1 DEF RepairInv, ProjectRows, ReplayInv, Elements
<1>6. CASE Replay
  <2>1. log' = log /\ repair' = repair
    BY <1>6 DEF Replay, storeVars
  <2>2. CASE BootReplayEvent
    <3>1. PICK p \in Projectors, n \in Nat :
            /\ p = BootOrder[boot.idx] /\ boot.pc = "replaying"
            /\ \A q \in Projectors : q # p => cursor'[q] = cursor[q] /\ rows'[q] = rows[q]
            /\ p # "shell" => cursor'[p] = n
            /\ p \in Snapshot => boot.idx <= 2 /\ n = cursor[p] + 1 /\ n <= Len(log)
            /\ rows'[p] = IF Handles(p, log[n].kind) THEN Append(rows[p], n) ELSE rows[p]
      BY <2>2, ReplayedEvent
    <3>2. CASE p # "projects"
      <4>1. cursor'["projects"] = cursor["projects"] /\ rows'["projects"] = rows["projects"]
        BY <1>0, <3>1, <3>2
      <4> QED BY <2>1, <3>1, <4>1 DEF RepairInv, ProjectRows
    <3>3. CASE p = "projects" /\ repair.pc = "running"
      <4>1. cursor'["projects"] = n /\ n = cursor["projects"] + 1
        BY <3>1, <3>3
      <4>2. ProjectRows = {m \in 1..cursor["projects"] : log[m].kind = "project"}
        BY <3>1, <3>3 DEF RepairInv
      <4>3. CASE log[n].kind = "project"
        <5>1. rows'["projects"] = Append(rows["projects"], n)
          BY <3>1, <3>3, <4>3 DEF Handles
        <5>2. ProjectRows' = ProjectRows \cup {n}
          <6>1. PICK r \in Seq(Nat) : r = rows["projects"]
            BY <1>0
          <6>2. Elements(Append(r, n)) = Elements(r) \cup {n}
            BY <6>1, ElementsAppend
          <6>3. ProjectRows' = Elements(Append(r, n))
            BY <5>1, <6>1 DEF ProjectRows
          <6> QED BY <6>1, <6>2, <6>3 DEF ProjectRows
        <5>3. {m \in 1..n : log[m].kind = "project"} =
                {m \in 1..cursor["projects"] : log[m].kind = "project"} \cup {n}
          BY <4>1, <4>3
        <5> QED BY <2>1, <3>3, <4>1, <4>2, <5>2, <5>3 DEF RepairInv
      <4>4. CASE log[n].kind # "project"
        <5>1. rows'["projects"] = rows["projects"]
          BY <3>1, <3>3, <4>4 DEF Handles
        <5>3. {m \in 1..n : log[m].kind = "project"} =
                {m \in 1..cursor["projects"] : log[m].kind = "project"}
          BY <4>1, <4>4
        <5> QED BY <2>1, <3>3, <4>1, <4>2, <5>1, <5>3 DEF RepairInv, ProjectRows
      <4> QED BY <4>3, <4>4
    <3> QED BY <2>1, <3>2, <3>3 DEF RepairInv
  <2>3. CASE BootNextProjector \/ BootFail
    <3>1. UNCHANGED <<rows, cursor>> /\ boot.pc = "replaying"
      BY <2>3 DEF BootNextProjector, BootFail
    <3> QED BY <2>1, <3>1 DEF RepairInv, ProjectRows
  <2> QED BY <1>6, <2>2, <2>3 DEF Replay
<1>7. QED BY ProjectionSteps, <1>1, <1>2, <1>3, <1>4, <1>5, <1>6

\* A process is only up when it was, or has just started.
LEMMA UpSteps ==
  ASSUME Next, ~FinishStart, Up'
  PROVE  Up
<1> USE DEF Up
<1>1. CASE UNCHANGED worker
  BY <1>1
<1>2. CASE Take \/ AcquireLock \/ FailBeforeCommit
  BY <1>2 DEF Take, AcquireLock, FailBeforeCommit
<1>3. CASE Interrupt
  BY <1>3, EngineAssumption DEF Interrupt, TimedStates
<1>4. CASE WorkerStep
  BY <1>4 DEF WorkerStep, SkipAbandoned, Start, ReplayReceipt, NoReceiptYet, RejectCommand, Commit,
     RefuseEmptyCommand, InstallReadModel, ProjectNextDeferred, DeferredDone, PublishNext,
     Succeed, Reconcile, SettleByReceipt, SettleRejected, SettleFailed
<1>5. CASE Crash \/ Restart
  BY <1>5 DEF Crash, Restart, Down, Starting, Idle
<1>6. CASE Clients
  BY <1>1, <1>6 DEF Clients, Submit, DeadlinePasses, Abandon
<1>7. CASE Replay \/ BeginCatchUp \/ EndCatchUp \/ RequestRepair \/ ResetProjects \/ FailRepair
  BY <1>1, <1>7 DEF Replay, BeginCatchUp, EndCatchUp, RequestRepair, ResetProjects, FailRepair
<1>8. CASE RefreshReadModel \/ RestoreBackup
  BY <1>1, <1>8 DEF RefreshReadModel, RestoreBackup, EndRepair
<1>9. QED
  BY <1>2, <1>3, <1>4, <1>5, <1>6, <1>7, <1>8 DEF Next

\* A server that is up has current hot tables, except inside a repair, and a
\* repair remembers current cursors. Rolling a failed repair back must not fail
\* itself, or the emptied tables stay.
HotInv ==
  "repairRestore" \notin Faults =>
    /\ Up /\ repair.pc # "running" => \A p \in Snapshot : cursor[p] = Len(log)
    /\ repair.pc = "running" => \A p \in Snapshot : repair.cursor[p] = Len(log)

\* Every step keeps the hot tables current.
LEMMA HotInvStep ==
  ASSUME TypeOK, TypeOK', WorkerInv, LockInv, ReplayInv, RepairInv, HotInv, Next
  PROVE  HotInv'
<1> SUFFICES ASSUME "repairRestore" \notin Faults
             PROVE  /\ Up' /\ repair'.pc # "running" => \A p \in Snapshot : cursor'[p] = Len(log')
                    /\ repair'.pc = "running" => \A p \in Snapshot : repair'.cursor[p] = Len(log')
  BY DEF HotInv
<1> USE CursorFacts
<1>0. /\ repair \in Repairs
      /\ ~FinishStart => (Up' => Up)
      /\ Up /\ repair.pc # "running" => \A p \in Snapshot : cursor[p] = Len(log)
      /\ repair.pc = "running" => \A p \in Snapshot : repair.cursor[p] = Len(log)
  BY UpSteps DEF TypeOK, HotInv
<1>1. CASE UNCHANGED <<projectionVars, log, repair>> /\ ~FinishStart
  BY <1>0, <1>1 DEF projectionVars
<1>2. CASE UNCHANGED <<projectionVars, log>> /\ (RequestRepair \/ FailRepair)
  <2>1. repair.pc # "running" /\ repair'.pc # "running" /\ worker' = worker
    BY <1>0, <1>2 DEF RequestRepair, FailRepair, NoRepair, Repairs
  <2> QED BY <1>0, <1>2, <2>1 DEF projectionVars, Up
<1>3. CASE Commit
  <2>1. \A p \in Snapshot : cursor'[p] = Len(log')
    BY <1>3, CommitEffect
  <2>2. repair' = repair /\ repair.pc # "running"
    BY <1>3 DEF Commit, LockInv, Executing
  <2> QED BY <2>1, <2>2
<1>4. CASE ProjectNextDeferred
  <2>1. UNCHANGED <<log, repair>> /\ \A p \in Snapshot : cursor'[p] = cursor[p]
    BY <1>4 DEF ProjectNextDeferred, ProjectDeferred, storeVars, Snapshot, Projectors
  <2>2. Up
    BY <1>4 DEF ProjectNextDeferred, Up
  <2> QED BY <1>0, <2>1, <2>2
<1>5. CASE Replay
  <2>1. UNCHANGED <<log, repair, worker>> /\ boot.pc # "off"
    BY <1>5 DEF Replay, storeVars, BootReplayEvent, BootNextProjector, BootFail
  <2>2. \/ repair.pc = "running"
        \/ ~Up
        \/ \A p \in Snapshot : cursor'[p] = cursor[p]
    <3> SUFFICES ASSUME repair.pc # "running", Up PROVE \A p \in Snapshot : cursor'[p] = cursor[p]
      OBVIOUS
    <3>1. \A p \in Snapshot : cursor[p] = Len(log)
      BY <1>0
    <3>2. CASE BootReplayEvent
      <4>1. PICK p \in Projectors, n \in Nat :
              /\ \A q \in Projectors : q # p => cursor'[q] = cursor[q] /\ rows'[q] = rows[q]
              /\ p \in Snapshot => boot.idx <= 2 /\ n = cursor[p] + 1 /\ n <= Len(log)
        BY <3>2, ReplayedEvent
      <4>2. p \notin Snapshot
        BY <3>1, <4>1
      <4> QED BY <4>1, <4>2
    <3>3. CASE BootNextProjector \/ BootFail
      BY <3>3 DEF BootNextProjector, BootFail
    <3> QED BY <1>5, <3>2, <3>3 DEF Replay
  <2> QED BY <1>0, <2>1, <2>2 DEF Up
<1>6. CASE BeginCatchUp \/ EndCatchUp \/ Restart
  <2>1. UNCHANGED <<log, cursor, repair>> /\ ~FinishStart
    BY <1>6 DEF BeginCatchUp, EndCatchUp, Restart, storeVars, FinishStart, Starting, Idle, Down
  <2> QED BY <1>0, <2>1
<1>7. CASE ResetProjects
  <2>1. repair.pc # "running" /\ Up
    BY <1>7 DEF ResetProjects, LockInv
  <2>2. repair' = [pc |-> "running", rows |-> rows["projects"], cursor |-> cursor] /\ log' = log
    BY <1>7 DEF ResetProjects, storeVars
  <2> QED BY <1>0, <2>1, <2>2
<1>8. CASE RefreshReadModel
  <2>1. UNCHANGED <<log, cursor>> /\ boot.pc = "done" /\ repair'.pc = "idle"
    BY <1>8 DEF RefreshReadModel, EndRepair, NoRepair, storeVars
  <2>2. \A p \in Snapshot : cursor[p] = Len(log)
    BY <2>1 DEF ReplayInv, Snapshot
  <2> QED BY <2>1, <2>2
<1>9. CASE RestoreBackup
  <2>1. log' = log /\ cursor' = repair.cursor /\ repair'.pc = "idle" /\ repair.pc = "running"
    BY <1>9 DEF RestoreBackup, EndRepair, NoRepair, storeVars, Fault
  <2> QED BY <1>0, <2>1
<1>10. CASE Crash
  BY <1>10 DEF Crash, Down, Idle, NoRepair, Up
<1>11. CASE FinishStart
  <2>1. UNCHANGED <<log, cursor, repair>>
    BY <1>11 DEF FinishStart, storeVars
  <2>2. repair.pc # "running"
    BY <1>11 DEF FinishStart, LockInv, Up
  <2>3. Up' => boot.pc = "done"
    BY <1>11 DEF FinishStart, Up, Down, Idle
  <2>4. Up' => \A p \in Snapshot : cursor[p] = Len(log)
    BY <2>3 DEF ReplayInv, Snapshot
  <2> QED BY <2>1, <2>2, <2>4
<1>12. QED BY ProjectionSteps, <1>1, <1>2, <1>3, <1>4, <1>5, <1>6, <1>7, <1>8, <1>9, <1>10, <1>11

-----------------------------------------------------------------------------
(* The read model                                                          *)

\* The events of one command fit the page of one read, from which reconcile
\* reads what a failed command may have committed.
CommandsFitPage == \A c \in Commands : Len(EventsOf[c]) <= ReadLimit

\* Read model m shows every event of log l up to hi.
Seen(m, l, hi) ==
  \A n \in 1..hi :
    IF l[n].kind = "project" THEN n \in m.projects ELSE n \in Elements(m.threads)

\* Read model m shows nothing that is not in log l.
InLog(m, l) == m.projects \subseteq 1..Len(l) /\ Elements(m.threads) \subseteq 1..Len(l)

\* The projection of a stretch of the log keeps exactly the events of that
\* stretch that the projector handles.
LEMMA HandledElements ==
  ASSUME NEW l, NEW p, NEW lo \in Nat, NEW hi \in Nat, lo <= hi
  PROVE  Elements(Handled(l, p, lo, hi)) = {n \in (lo + 1)..hi : Handles(p, l[n].kind)}
<1> DEFINE Stretch(k) == {n \in (lo + 1)..(lo + k) : Handles(p, l[n].kind)}
           Q == {k \in Nat : Elements(Handled(l, p, lo, lo + k)) = Stretch(k)}
<1>1. 0 \in Q
  <2>1. Handled(l, p, lo, lo) = <<>>
    BY HandledSteps
  <2>2. lo + 0 = lo /\ Elements(<<>>) = {} /\ Stretch(0) = {}
    BY DEF Elements
  <2> QED BY <2>1, <2>2
<1>2. ASSUME NEW k \in Nat, k \in Q PROVE k + 1 \in Q
  <2>1. /\ lo + k \in Nat /\ lo <= lo + k /\ (lo + k) + 1 \in Nat
        /\ lo + (k + 1) = (lo + k) + 1
    OBVIOUS
  <2>2. Handled(l, p, lo, lo + k) \in Seq(Nat) /\ Elements(Handled(l, p, lo, lo + k)) = Stretch(k)
    BY <1>2, HandledType
  <2>3. CASE Handles(p, l[(lo + k) + 1].kind)
    <3>1. Handled(l, p, lo, (lo + k) + 1) = Append(Handled(l, p, lo, lo + k), (lo + k) + 1)
      BY <2>1, <2>3, HandledSteps
    <3>2. Elements(Handled(l, p, lo, (lo + k) + 1)) = Stretch(k) \cup {(lo + k) + 1}
      BY <2>1, <2>2, <3>1, ElementsAppend
    <3>3. Stretch(k + 1) = Stretch(k) \cup {(lo + k) + 1}
      BY <2>1, <2>3
    <3> QED BY <2>1, <3>2, <3>3
  <2>4. CASE ~ Handles(p, l[(lo + k) + 1].kind)
    <3>1. Handled(l, p, lo, (lo + k) + 1) = Handled(l, p, lo, lo + k)
      BY <2>1, <2>4, HandledSteps
    <3>3. Stretch(k + 1) = Stretch(k)
      BY <2>1, <2>4
    <3> QED BY <2>1, <2>2, <3>1, <3>3
  <2> QED BY <2>3, <2>4
<1>3. Nat \subseteq Q
  <2> HIDE DEF Q
  <2> QED BY <1>1, <1>2, Induction
<1>4. hi - lo \in Nat /\ lo + (hi - lo) = hi
  OBVIOUS
<1>5. QED BY <1>3, <1>4

\* A concatenation has the values of both sequences.
LEMMA ElementsConcat ==
  ASSUME NEW s \in Seq(Nat), NEW t \in Seq(Nat)
  PROVE  Elements(s \o t) = Elements(s) \cup Elements(t)
<1>1. /\ Len(s) \in Nat /\ Len(t) \in Nat /\ DOMAIN s = 1..Len(s) /\ DOMAIN t = 1..Len(t)
      /\ DOMAIN (s \o t) = 1..(Len(s) + Len(t))
      /\ \A i \in 1..(Len(s) + Len(t)) :
           (s \o t)[i] = IF i <= Len(s) THEN s[i] ELSE t[i - Len(s)]
  BY ConcatProperties
<1>2. ASSUME NEW i \in DOMAIN (s \o t) PROVE (s \o t)[i] \in Elements(s) \cup Elements(t)
  <2>1. CASE i <= Len(s)
    BY <1>1, <2>1 DEF Elements
  <2>2. CASE ~ (i <= Len(s))
    <3>1. i - Len(s) \in DOMAIN t /\ (s \o t)[i] = t[i - Len(s)]
      BY <1>1, <2>2
    <3> QED BY <3>1 DEF Elements
  <2> QED BY <2>1, <2>2
<1>3. ASSUME NEW i \in DOMAIN s PROVE s[i] \in Elements(s \o t)
  <2>1. i \in DOMAIN (s \o t) /\ (s \o t)[i] = s[i]
    BY <1>1
  <2> QED BY <2>1 DEF Elements
<1>4. ASSUME NEW i \in DOMAIN t PROVE t[i] \in Elements(s \o t)
  <2>1. i + Len(s) \in DOMAIN (s \o t) /\ ~ (i + Len(s) <= Len(s)) /\ (i + Len(s)) - Len(s) = i
    BY <1>1
  <2>2. (s \o t)[i + Len(s)] = t[i]
    BY <1>1, <2>1
  <2> QED BY <2>1, <2>2 DEF Elements
<1>5. QED BY <1>2, <1>3, <1>4 DEF Elements

\* Projecting the events after those it shows leaves a read model that shows
\* all up to the last of them.
LEMMA Projected ==
  ASSUME NEW m \in ReadModels, NEW l, Len(l) \in Nat, NEW lo \in Nat, NEW hi \in Nat,
         lo <= hi, hi <= Len(l), Seen(m, l, lo), InLog(m, l)
  PROVE  /\ ProjectInMemory(m, l, lo, hi).seq = hi
         /\ Seen(ProjectInMemory(m, l, lo, hi), l, hi)
         /\ InLog(ProjectInMemory(m, l, lo, hi), l)
<1>1. PICK h \in Seq(Nat) : h = Handled(l, "messages", lo, hi)
  BY HandledType
<1>2. Elements(h) = {n \in (lo + 1)..hi : l[n].kind # "project"}
  <2>1. \A k : Handles("messages", k) <=> k # "project"
    BY DEF Handles
  <2>2. Elements(h) = {n \in (lo + 1)..hi : Handles("messages", l[n].kind)}
    BY <1>1, HandledElements
  <2> QED BY <2>1, <2>2
<1>3. m.threads \in Seq(Nat)
  BY DEF ReadModels
<1>4. PICK q : q = ProjectInMemory(m, l, lo, hi)
  OBVIOUS
<1>5. /\ q.seq = hi /\ q.threads = m.threads \o h
      /\ q.projects = m.projects \cup {n \in (lo + 1)..hi : l[n].kind = "project"}
  BY <1>1, <1>4 DEF ProjectInMemory
<1>6. Elements(q.threads) = Elements(m.threads) \cup Elements(h)
  BY <1>1, <1>3, <1>5, ElementsConcat
<1>7. Seen(q, l, hi)
  <2> SUFFICES ASSUME NEW n \in 1..hi
               PROVE  IF l[n].kind = "project" THEN n \in q.projects ELSE n \in Elements(q.threads)
    BY DEF Seen
  <2>1. CASE n <= lo
    BY <1>5, <1>6, <2>1 DEF Seen
  <2>2. CASE ~ (n <= lo)
    BY <1>2, <1>5, <1>6, <2>2
  <2> QED BY <2>1, <2>2
<1>8. InLog(q, l)
  BY <1>2, <1>5, <1>6 DEF InLog
<1>9. QED BY <1>4, <1>5, <1>7, <1>8

\* The read model is the log, except between the commit and the step that
\* installs it, and after a failure until reconcile has read the log again. For
\* that the worker remembers where the log ended when it took the envelope; as
\* the lock is its own since, at most the events of its command were added.
ModelInv ==
  /\ InLog(readModel, log)
  /\ worker.pc \in {"take", "lock", "start", "receipt", "decide",
                    "deferred", "publish", "settle"} =>
       readModel.seq = Len(log) /\ Seen(readModel, log, Len(log))
  /\ worker.pc \in {"lock", "start", "receipt", "decide"} => worker.start = Len(log)
  /\ worker.pc \in {"install", "deferred", "publish"} =>
       /\ worker.first = worker.start + 1 /\ worker.last = Len(log)
       /\ worker.start <= Len(log) /\ Len(log) <= worker.start + ReadLimit
  /\ worker.pc = "install" => readModel.seq = worker.start
  /\ worker.pc = "reconcile" =>
       /\ worker.start <= readModel.seq /\ readModel.seq <= Len(log)
       /\ Len(log) <= worker.start + ReadLimit
  /\ worker.pc \in {"install", "reconcile"} => Seen(readModel, log, readModel.seq)

\* Every step keeps the read model where ModelInv says. reconcile must be able
\* to read the log; a failed read leaves the read model behind, as the code's
\* comment admits.
LEMMA ModelInvStep ==
  ASSUME TypeOK, TypeOK', WorkerInv, LockInv, ReplayInv, RepairInv, ModelInv, Next,
         CommandsFitPage, "reconcileRead" \notin Faults
  PROVE  ModelInv'
<1> USE CursorFacts
<1>0. /\ worker \in Workers /\ readModel \in ReadModels /\ readModel.seq \in Nat
      /\ worker.start \in Nat /\ worker.first \in Nat /\ worker.last \in Nat
      /\ ReadLimit \in Nat \ {0}
  BY WorkerFields, ReadLimitAssumption DEF TypeOK, ReadModels
<1>1. CASE UNCHANGED <<worker, readModel, log>>
  BY <1>1 DEF ModelInv
<1>2. CASE Take
  <2>1. /\ worker.pc = "take" /\ worker'.pc = "lock" /\ worker'.start = readModel.seq
        /\ UNCHANGED <<log, readModel>>
    BY <1>0, <1>2 DEF Take, Workers, storeVars, memoryVars
  <2> QED BY <2>1 DEF ModelInv
<1>3. CASE AcquireLock \/ NoReceiptYet
  <2>1. /\ worker.pc \in {"lock", "receipt"} /\ worker'.pc \in {"start", "decide"}
        /\ worker'.start = worker.start /\ UNCHANGED <<log, readModel>>
    BY <1>0, <1>3 DEF AcquireLock, NoReceiptYet, Goto, Workers, storeVars, memoryVars
  <2> QED BY <2>1 DEF ModelInv
<1>4. CASE Start
  <2>1. /\ worker.pc = "start" /\ worker'.pc \in {"receipt", "reconcile"}
        /\ worker'.start = worker.start /\ UNCHANGED <<log, readModel>>
    BY <1>0, <1>4 DEF Start, Goto, Abort, Workers, storeVars, memoryVars
  <2> QED BY <1>0, <2>1 DEF ModelInv
<1>5. CASE SkipAbandoned \/ ReplayReceipt \/ Succeed \/ SettleByReceipt \/ SettleRejected
           \/ SettleFailed
  <2>1. /\ worker' = Idle /\ worker.pc \in {"start", "receipt", "publish", "settle"}
        /\ UNCHANGED <<log, readModel>>
    BY <1>5 DEF SkipAbandoned, ReplayReceipt, Succeed, SettleByReceipt, SettleRejected,
                SettleFailed, Answer, storeVars, memoryVars
  <2> QED BY <2>1 DEF Idle, ModelInv
<1>6. CASE RejectCommand \/ RefuseEmptyCommand \/ FailBeforeCommit \/ Interrupt
  <2>1. worker.pc \in TimedStates /\ UNCHANGED <<log, readModel>>
    BY <1>6, EngineAssumption DEF RejectCommand, RefuseEmptyCommand, FailBeforeCommit, Interrupt,
                                  TimedStates, storeVars, memoryVars
  <2>2. worker'.pc = "reconcile" /\ worker'.start = worker.start
    <3>1. PICK err : Abort(err)
      BY <1>6 DEF RejectCommand, RefuseEmptyCommand, FailBeforeCommit, Interrupt
    <3> QED BY <1>0, <3>1 DEF Abort, Workers
  <2> QED BY <1>0, <2>1, <2>2 DEF TimedStates, ModelInv
<1>7. CASE Commit
  <2>1. /\ worker.pc = "decide" /\ worker'.pc = "install" /\ worker'.start = worker.start
        /\ worker'.first = Len(log) + 1 /\ worker'.last = Len(log') /\ readModel' = readModel
    BY <1>0, <1>7 DEF Commit, Workers, memoryVars
  <2>2. Len(log') \in Nat /\ Len(log) <= Len(log') /\ Len(log') <= Len(log) + ReadLimit
    BY <1>0, <1>7, CommitEffect DEF CommandsFitPage
  <2>3. Seen(readModel, log', Len(log))
    <3>1. \A n \in 1..Len(log) : log'[n] = log[n]
      BY <1>7, CommitEffect
    <3>2. Seen(readModel, log, Len(log))
      BY <2>1 DEF ModelInv
    <3> QED BY <3>1, <3>2 DEF Seen
  <2>4. InLog(readModel, log')
    BY <2>2 DEF ModelInv, InLog
  <2> QED BY <1>0, <2>1, <2>2, <2>3, <2>4 DEF ModelInv
<1>8. CASE InstallReadModel
  <2>1. /\ worker.pc = "install" /\ worker'.pc = "deferred" /\ worker'.start = worker.start
        /\ worker'.first = worker.first /\ worker'.last = worker.last /\ log' = log
        /\ readModel' = ProjectInMemory(readModel, log, worker.first - 1, worker.last)
    BY <1>0, <1>8 DEF InstallReadModel, Goto, Workers, storeVars
  <2>2. worker.first - 1 = worker.start /\ worker.last = Len(log) /\ worker.start <= Len(log)
        /\ Seen(readModel, log, worker.start) /\ InLog(readModel, log)
    BY <1>0, <2>1 DEF ModelInv
  <2>3. readModel'.seq = Len(log) /\ Seen(readModel', log, Len(log)) /\ InLog(readModel', log)
    BY <1>0, <2>1, <2>2, Projected
  <2> QED BY <1>0, <2>1, <2>2, <2>3 DEF ModelInv
<1>9. CASE ProjectNextDeferred \/ DeferredDone \/ PublishNext
  <2>1. /\ worker.pc \in {"deferred", "publish"} /\ worker'.pc \in {"deferred", "publish"}
        /\ worker'.start = worker.start
        /\ worker'.first = worker.first /\ worker'.last = worker.last
        /\ UNCHANGED <<log, readModel>>
    BY <1>0, <1>9 DEF ProjectNextDeferred, DeferredDone, PublishNext, Workers, storeVars, memoryVars
  <2> QED BY <2>1 DEF ModelInv
<1>10. CASE Reconcile
  <2>1. worker.pc = "reconcile" /\ worker'.pc = "settle" /\ log' = log
    BY <1>0, <1>10 DEF Reconcile, Goto, Workers, storeVars
  <2>2. /\ worker.start <= readModel.seq /\ readModel.seq <= Len(log)
        /\ Len(log) <= worker.start + ReadLimit /\ Seen(readModel, log, readModel.seq)
        /\ InLog(readModel, log)
    BY <2>1 DEF ModelInv
  <2>3. EndOfPage(worker.start) = Len(log)
    BY <1>0, <2>2 DEF EndOfPage
  <2>4. CASE Len(log) > worker.start
    <3>1. readModel' = ProjectInMemory(readModel, log, worker.start, Len(log))
      BY <1>0, <1>10, <2>3, <2>4 DEF Reconcile, Fault
    <3>2. Seen(readModel, log, worker.start)
      BY <1>0, <2>2 DEF Seen
    <3>3. readModel'.seq = Len(log) /\ Seen(readModel', log, Len(log)) /\ InLog(readModel', log)
      BY <1>0, <2>2, <3>1, <3>2, Projected
    <3> QED BY <2>1, <3>3 DEF ModelInv
  <2>5. CASE ~ (Len(log) > worker.start)
    <3>1. readModel' = readModel
      BY <1>0, <1>10, <2>3, <2>5 DEF Reconcile, memoryVars, Fault
    <3>2. readModel.seq = Len(log)
      BY <1>0, <2>2, <2>5
    <3> QED BY <2>1, <2>2, <3>1, <3>2 DEF ModelInv
  <2> QED BY <2>4, <2>5
<1>11. CASE RefreshReadModel
  <2>1. /\ repair.pc = "running" /\ boot.pc = "done" /\ UNCHANGED <<worker, log>>
    BY <1>11 DEF RefreshReadModel, EndRepair, storeVars
  <2>2. worker.pc \in {"take", "lock"}
    <3>1. worker.pc \in WorkerStates
      BY <1>0 DEF Workers
    <3> QED BY <2>1, <3>1 DEF LockInv, WorkerStates, TimedStates, Executing, Up
  <2>3. CASE readModel' = readModel
    BY <1>1, <2>1, <2>3
  <2>4. CASE readModel' =
             [readModel EXCEPT
                !.seq = CHOOSE n \in {cursor[p] : p \in Snapshot} :
                          \A p \in Snapshot : n <= cursor[p],
                !.projects = {rows["projects"][i] : i \in DOMAIN rows["projects"]}]
    <3>1. \A p \in Snapshot : cursor[p] = Len(log)
      BY <2>1 DEF ReplayInv, Snapshot
    <3>2. {cursor[p] : p \in Snapshot} = {Len(log)}
      BY <3>1
    <3>3. Len(log) = CHOOSE n \in {cursor[p] : p \in Snapshot} :
                       \A p \in Snapshot : n <= cursor[p]
      BY <3>1, <3>2
    <3>4. ProjectRows = {n \in 1..Len(log) : log[n].kind = "project"}
      BY <2>1, <3>1 DEF RepairInv
    <3>5. readModel'.seq = Len(log) /\ readModel'.threads = readModel.threads
          /\ readModel'.projects = {n \in 1..Len(log) : log[n].kind = "project"}
      BY <1>0, <2>4, <3>3, <3>4 DEF ReadModels, ProjectRows, Elements
    <3>6. Seen(readModel, log, Len(log)) /\ InLog(readModel, log)
          /\ (worker.pc = "lock" => worker.start = Len(log))
      BY <2>2 DEF ModelInv
    <3>7. Seen(readModel', log, Len(log)) /\ InLog(readModel', log)
      BY <3>5, <3>6 DEF Seen, InLog
    <3> QED BY <2>1, <2>2, <3>5, <3>6, <3>7 DEF ModelInv
  <2> QED BY <1>11, <2>3, <2>4 DEF RefreshReadModel
<1>12. CASE Crash
  <2>1. worker'.pc = "down" /\ log' = log /\ readModel' = EmptyReadModel
    BY <1>12 DEF Crash, Down, Idle, storeVars
  <2>2. InLog(readModel', log)
    BY <2>1 DEF EmptyReadModel, InLog, Elements
  <2> QED BY <2>1, <2>2 DEF ModelInv
<1>13. CASE Restart
  <2>1. worker'.pc = "bootstrap" /\ UNCHANGED <<log, readModel>>
    BY <1>13 DEF Restart, Starting, Idle, storeVars, memoryVars
  <2> QED BY <2>1 DEF ModelInv
<1>14. CASE FinishStart
  <2>1. log' = log /\ (\/ worker'.pc = "down" /\ readModel' = readModel
                       \/ worker'.pc = "take"
                          /\ readModel' = ProjectInMemory(EmptyReadModel, log, 0, Len(log)))
    BY <1>14 DEF FinishStart, Down, Idle, storeVars
  <2>2. EmptyReadModel \in ReadModels /\ Seen(EmptyReadModel, log, 0) /\ InLog(EmptyReadModel, log)
    BY DEF EmptyReadModel, ReadModels, Seen, InLog, Elements
  <2>3. CASE worker'.pc = "take" /\ readModel' = ProjectInMemory(EmptyReadModel, log, 0, Len(log))
    <3>1. readModel'.seq = Len(log) /\ Seen(readModel', log, Len(log)) /\ InLog(readModel', log)
      BY <2>2, <2>3, Projected
    <3> QED BY <2>1, <2>3, <3>1 DEF ModelInv
  <2>4. CASE worker'.pc = "down" /\ readModel' = readModel
    BY <2>1, <2>4 DEF ModelInv
  <2> QED BY <2>1, <2>3, <2>4
<1>15. CASE Clients \/ Replay \/ BeginCatchUp \/ EndCatchUp \/ RequestRepair \/ ResetProjects
            \/ FailRepair \/ RestoreBackup
  BY <1>1, <1>15 DEF Clients, Submit, DeadlinePasses, Abandon, Replay, BeginCatchUp, EndCatchUp,
     RequestRepair, ResetProjects, FailRepair, RestoreBackup, EndRepair, storeVars, memoryVars
<1>16. QED
  BY <1>2, <1>3, <1>4, <1>5, <1>6, <1>7, <1>8, <1>9, <1>10, <1>11, <1>12, <1>13, <1>14, <1>15
  DEF Next, WorkerStep

-----------------------------------------------------------------------------
(* The domain stream                                                       *)

\* Everything since the server started, up to hi, was published.
Received(hi) == (base + 1)..hi \subseteq Elements(published)

\* Publication follows the read model: it is complete whenever the worker waits
\* or decides, and complete up to the worker's start while a command is in doubt.
PublishedInv ==
  /\ Up => base <= Len(log)
  /\ ~Up => published = <<>>
  /\ worker.pc \in {"take", "lock", "start", "receipt", "decide", "settle"} => Received(Len(log))
  /\ worker.pc \in {"install", "deferred", "reconcile"} => Received(worker.start)
  /\ worker.pc = "publish" =>
       worker.first <= worker.next /\ worker.next <= worker.last + 1 /\ Received(worker.next - 1)

\* The event numbers that reconcile publishes.
LEMMA NumbersElements ==
  ASSUME NEW lo \in Nat, NEW hi \in Nat, lo <= hi
  PROVE  Elements(Numbers(lo, hi)) = (lo + 1)..hi
<1>1. DOMAIN Numbers(lo, hi) = 1..(hi - lo) /\ \A i \in 1..(hi - lo) : Numbers(lo, hi)[i] = lo + i
  BY DEF Numbers
<1>2. \A n \in (lo + 1)..hi : n - lo \in 1..(hi - lo) /\ lo + (n - lo) = n
  OBVIOUS
<1>3. \A i \in 1..(hi - lo) : lo + i \in (lo + 1)..hi
  OBVIOUS
<1>4. ASSUME NEW n \in (lo + 1)..hi PROVE n \in Elements(Numbers(lo, hi))
  <2>1. n - lo \in DOMAIN Numbers(lo, hi) /\ Numbers(lo, hi)[n - lo] = n
    BY <1>1, <1>2
  <2> QED BY <2>1 DEF Elements
<1>5. ASSUME NEW i \in DOMAIN Numbers(lo, hi) PROVE Numbers(lo, hi)[i] \in (lo + 1)..hi
  BY <1>1, <1>3
<1>6. QED BY <1>4, <1>5 DEF Elements

\* Every step keeps publication where PublishedInv says: a failure between two
\* events of one command is made good by reconcile.
LEMMA PublishedInvStep ==
  ASSUME TypeOK, TypeOK', WorkerInv, LockInv, ModelInv, PublishedInv, Next,
         "reconcileRead" \notin Faults
  PROVE  PublishedInv'
<1> USE CursorFacts
<1>0. /\ worker \in Workers /\ readModel \in ReadModels /\ worker.start \in Nat
      /\ worker.first \in Nat /\ worker.last \in Nat /\ worker.next \in Nat /\ base \in Nat
      /\ published \in Seq(Nat) /\ ReadLimit \in Nat \ {0}
  BY WorkerFields, ReadLimitAssumption DEF TypeOK
<1>1. CASE UNCHANGED <<worker, published, base, log>>
  BY <1>1 DEF PublishedInv, Received, Up
<1>2. CASE Take \/ AcquireLock \/ NoReceiptYet
  <2>1. /\ worker.pc \in {"take", "lock", "receipt"} /\ worker'.pc \in {"lock", "start", "decide"}
        /\ UNCHANGED <<log, published, base>>
    BY <1>0, <1>2 DEF Take, AcquireLock, NoReceiptYet, Goto, Workers, storeVars, memoryVars
  <2> QED BY <2>1 DEF PublishedInv, Received, Up
<1>3. CASE Start
  <2>1. /\ worker.pc = "start" /\ worker'.pc \in {"receipt", "reconcile"}
        /\ worker'.start = worker.start /\ UNCHANGED <<log, published, base>>
    BY <1>0, <1>3 DEF Start, Goto, Abort, Workers, storeVars, memoryVars
  <2>2. worker.start = Len(log)
    BY <2>1 DEF ModelInv
  <2> QED BY <1>0, <2>1, <2>2 DEF PublishedInv, Received, Up
<1>4. CASE SkipAbandoned \/ ReplayReceipt \/ SettleByReceipt \/ SettleRejected \/ SettleFailed
  <2>1. /\ worker' = Idle /\ worker.pc \in {"start", "receipt", "settle"}
        /\ UNCHANGED <<log, published, base>>
    BY <1>4 DEF SkipAbandoned, ReplayReceipt, SettleByReceipt, SettleRejected,
                SettleFailed, Answer, storeVars, memoryVars
  <2> QED BY <2>1 DEF Idle, PublishedInv, Received, Up
<1>5. CASE RejectCommand \/ RefuseEmptyCommand \/ FailBeforeCommit \/ Interrupt
  <2>1. worker.pc \in TimedStates /\ UNCHANGED <<log, published, base>>
    BY <1>5, EngineAssumption DEF RejectCommand, RefuseEmptyCommand, FailBeforeCommit, Interrupt,
                                  TimedStates, storeVars, memoryVars
  <2>2. worker'.pc = "reconcile" /\ worker'.start = worker.start
    <3>1. PICK err : Abort(err)
      BY <1>5 DEF RejectCommand, RefuseEmptyCommand, FailBeforeCommit, Interrupt
    <3> QED BY <1>0, <3>1 DEF Abort, Workers
  <2>3. Received(worker.start) /\ base <= Len(log)
    <3>0. worker.pc = "publish" => worker.first = worker.start + 1 /\ worker.first <= worker.next
      BY DEF ModelInv, PublishedInv
    <3>1. worker.pc = "publish" => worker.next - 1 \in Int /\ worker.start <= worker.next - 1
      BY <1>0, <3>0
    <3>2. worker.pc = "publish" => Received(worker.start)
      BY <1>0, <3>1 DEF PublishedInv, Received
    <3>3. worker.pc \in {"receipt", "decide"} => Received(worker.start)
      BY DEF PublishedInv, ModelInv
    <3> QED BY <2>1, <3>2, <3>3 DEF PublishedInv, TimedStates, Up
  <2> QED BY <2>1, <2>2, <2>3 DEF PublishedInv, Received, Up
<1>6. CASE Commit
  <2>1. /\ worker.pc = "decide" /\ worker'.pc = "install" /\ worker'.start = worker.start
        /\ UNCHANGED <<published, base>>
    BY <1>0, <1>6 DEF Commit, Workers, memoryVars
  <2>2. Len(log') \in Nat /\ Len(log) <= Len(log')
    BY <1>6, CommitEffect
  <2>3. worker.start = Len(log)
    BY <2>1 DEF ModelInv
  <2> QED BY <1>0, <2>1, <2>2, <2>3 DEF PublishedInv, Received, Up
<1>7. CASE InstallReadModel \/ ProjectNextDeferred
  <2>1. /\ worker.pc \in {"install", "deferred"} /\ worker'.pc = "deferred"
        /\ worker'.start = worker.start /\ UNCHANGED <<log, published, base>>
    BY <1>0, <1>7 DEF InstallReadModel, ProjectNextDeferred, Goto, Workers, storeVars, memoryVars
  <2> QED BY <2>1 DEF PublishedInv, Received, Up
<1>8. CASE DeferredDone
  <2>1. /\ worker.pc = "deferred" /\ worker'.pc = "publish"
        /\ worker'.next = worker.first /\ worker'.first = worker.first /\ worker'.last = worker.last
        /\ worker'.start = worker.start /\ UNCHANGED <<log, published, base>>
    BY <1>0, <1>8 DEF DeferredDone, Workers, storeVars, memoryVars
  <2>2. worker.first = worker.start + 1 /\ worker.start <= worker.last /\ Received(worker.start)
        /\ base <= Len(log)
    BY <2>1 DEF ModelInv, PublishedInv, Up
  <2>3. worker.first - 1 = worker.start
    BY <1>0, <2>2
  <2> QED BY <1>0, <2>1, <2>2, <2>3 DEF PublishedInv, Received, Up
<1>9. CASE PublishNext
  <2>1. /\ worker.pc = "publish" /\ worker'.pc = "publish" /\ worker.next <= worker.last
        /\ worker'.next = worker.next + 1 /\ worker'.first = worker.first
        /\ worker'.last = worker.last
        /\ published' = Append(published, worker.next) /\ UNCHANGED <<log, base>>
    BY <1>0, <1>9 DEF PublishNext, Workers, storeVars, memoryVars
  <2>2. Elements(published') = Elements(published) \cup {worker.next}
    BY <1>0, <2>1, ElementsAppend
  <2>3. worker.first <= worker.next /\ (base + 1)..(worker.next - 1) \subseteq Elements(published)
    BY <2>1 DEF PublishedInv, Received
  <2>4. (base + 1)..((worker.next + 1) - 1) \subseteq Elements(published')
    BY <1>0, <2>2, <2>3
  <2> QED BY <1>0, <2>1, <2>3, <2>4 DEF PublishedInv, Received, Up
<1>10. CASE Succeed
  <2>1. /\ worker.pc = "publish" /\ worker' = Idle /\ worker.next > worker.last
        /\ UNCHANGED <<log, published, base>>
    BY <1>10 DEF Succeed, Answer, storeVars, memoryVars
  <2>2. Received(worker.next - 1) /\ worker.last = Len(log) /\ worker.next <= worker.last + 1
    BY <2>1 DEF PublishedInv, ModelInv
  <2>3. worker.next - 1 = Len(log)
    BY <1>0, <2>1, <2>2
  <2> QED BY <2>1, <2>2, <2>3 DEF Idle, PublishedInv, Received, Up
<1>11. CASE Reconcile
  <2>1. /\ worker.pc = "reconcile" /\ worker'.pc = "settle" /\ UNCHANGED <<log, base>>
    BY <1>0, <1>11 DEF Reconcile, Goto, Workers, storeVars
  <2>2. Received(worker.start) /\ base <= Len(log)
        /\ worker.start <= Len(log) /\ Len(log) <= worker.start + ReadLimit
    <3>1. readModel.seq \in Nat
      BY <1>0 DEF ReadModels
    <3> QED BY <1>0, <2>1, <3>1 DEF PublishedInv, ModelInv, Up
  <2>3. EndOfPage(worker.start) = Len(log)
    BY <1>0, <2>2 DEF EndOfPage
  <2>4. Received(Len(log))'
    <3>1. CASE Len(log) > worker.start
      <4>1. published' = published \o Numbers(worker.start, Len(log))
        BY <1>0, <1>11, <2>3, <3>1 DEF Reconcile, Fault
      <4>2. Elements(published') = Elements(published) \cup (worker.start + 1)..Len(log)
        BY <1>0, <2>2, <4>1, NumbersType, NumbersElements, ElementsConcat
      <4> QED BY <1>0, <2>1, <2>2, <4>2 DEF Received
    <3>2. CASE ~ (Len(log) > worker.start)
      <4>1. published' = published
        BY <1>0, <1>11, <2>3, <3>2 DEF Reconcile, memoryVars, Fault
      <4>2. worker.start = Len(log)
        BY <1>0, <2>2, <3>2
      <4> QED BY <2>1, <2>2, <4>1, <4>2 DEF Received
    <3> QED BY <3>1, <3>2
  <2> QED BY <2>1, <2>2, <2>4 DEF PublishedInv, Up
<1>12. CASE Crash
  <2>1. worker'.pc = "down" /\ published' = <<>>
    BY <1>12 DEF Crash, Down, Idle
  <2> QED BY <2>1 DEF PublishedInv, Up
<1>13. CASE Restart
  <2>1. worker.pc = "down" /\ worker'.pc = "bootstrap" /\ published' = published
    BY <1>13 DEF Restart, Starting, Idle, memoryVars
  <2> QED BY <2>1 DEF PublishedInv, Up
<1>14. CASE FinishStart
  <2>1. /\ worker.pc = "bootstrap" /\ log' = log /\ published' = published
        /\ worker'.pc = "down" \/ (worker'.pc = "take" /\ base' = Len(log))
    BY <1>14 DEF FinishStart, Down, Idle, storeVars
  <2> QED BY <2>1 DEF PublishedInv, Received, Up
<1>15. CASE Clients \/ Replay \/ BeginCatchUp \/ EndCatchUp \/ RequestRepair \/ ResetProjects
            \/ FailRepair \/ RestoreBackup \/ RefreshReadModel
  BY <1>1, <1>15 DEF Clients, Submit, DeadlinePasses, Abandon, Replay, BeginCatchUp, EndCatchUp,
     RequestRepair, ResetProjects, FailRepair, RestoreBackup, RefreshReadModel, EndRepair,
     storeVars, memoryVars
<1>16. QED
  BY <1>2, <1>3, <1>4, <1>5, <1>6, <1>7, <1>8, <1>9, <1>10, <1>11, <1>12, <1>13, <1>14, <1>15
  DEF Next, WorkerStep

-----------------------------------------------------------------------------
(* The ledger                                                              *)

\* The call d has added nothing to the log.
NoEventBy(d) == \A n \in DOMAIN log : log[n].by # d

\* What the worker may tell a caller: an event in the log was added by a call
\* that started, the call being decided or refused has added none, and the call
\* whose events were committed has the receipt that its answer will quote.
CallInv ==
  /\ \A n \in DOMAIN log : log[n].cmd = CommandOf[log[n].by] /\ exec[log[n].by] = "in-flight"
  /\ worker.pc \in {"receipt", "decide"} => NoEventBy(worker.d)
  /\ worker.pc \in {"reconcile", "settle"} /\ worker.err \in {"failed", "invariant"} =>
       NoEventBy(worker.d)
  /\ worker.pc \in {"install", "deferred", "publish"} =>
       receipt[Command] = [status |-> "accepted", seq |-> worker.last]
  /\ \A c \in Commands : receipt[c].status = "accepted" => EventsOf[c] # <<>>

\* Every step keeps what the worker may tell a caller.
LEMMA CallInvStep ==
  ASSUME TypeOK, TypeOK', WorkerInv, EnvelopeInv, DecisionInv, CallInv, Next
  PROVE  CallInv'
<1> USE CursorFacts
<1>0. /\ worker \in Workers /\ receipt \in [Commands -> Receipts]
      /\ exec \in [Dispatches -> {"none", "queued", "in-flight", "abandoned"}]
      /\ \A n \in DOMAIN log : log[n].by \in Dispatches
  <2>1. \A n \in DOMAIN log : log[n] \in Events
    OBVIOUS
  <2> QED BY <2>1 DEF TypeOK, Events
<1> USE DEF CallInv, NoEventBy
<1>1. CASE UNCHANGED coreVars
  BY <1>1 DEF coreVars, Command
<1>2. ASSUME NEW d \in Dispatches, Submit(d) \/ Abandon(d) PROVE CallInv'
  <2>1. UNCHANGED <<log, receipt, worker>> /\ exec[d] # "in-flight"
        /\ \A e \in Dispatches : e # d => exec'[e] = exec[e]
    BY <1>0, <1>2 DEF Submit, Abandon, storeVars
  <2>2. \A n \in DOMAIN log : exec'[log[n].by] = "in-flight"
    BY <1>0, <2>1
  <2> QED BY <2>1, <2>2 DEF Command
<1>3. CASE Take \/ AcquireLock
  <2>1. worker'.pc \in {"lock", "start"} /\ UNCHANGED <<log, receipt, exec>>
    BY <1>0, <1>3 DEF Take, AcquireLock, Goto, Workers, storeVars, clientVars
  <2> QED BY <2>1
<1>4. CASE Start
  <2>1. /\ worker.pc = "start" /\ worker.d \in Dispatches /\ exec[worker.d] = "queued"
        /\ worker'.d = worker.d /\ worker'.pc \in {"receipt", "reconcile"}
        /\ exec' = [exec EXCEPT ![worker.d] = "in-flight"]
        /\ UNCHANGED <<log, receipt>>
    BY <1>0, <1>4 DEF Start, Goto, Abort, Workers, storeVars, WorkerInv
  <2>2. NoEventBy(worker.d)
    BY <2>1
  <2>3. \A n \in DOMAIN log : exec'[log[n].by] = "in-flight"
    BY <1>0, <2>1
  <2> QED BY <2>1, <2>2, <2>3
<1>5. CASE NoReceiptYet
  <2>1. worker.pc = "receipt" /\ worker'.pc = "decide" /\ worker'.d = worker.d
        /\ UNCHANGED <<log, receipt, exec>>
    BY <1>0, <1>5 DEF NoReceiptYet, Goto, Workers, storeVars, clientVars
  <2> QED BY <2>1
<1>6. CASE RejectCommand \/ RefuseEmptyCommand \/ FailBeforeCommit
  <2>1. worker.pc \in {"receipt", "decide"} /\ UNCHANGED <<log, receipt, exec>>
    BY <1>6 DEF RejectCommand, RefuseEmptyCommand, FailBeforeCommit, storeVars, clientVars
  <2>2. worker'.pc = "reconcile" /\ worker'.d = worker.d
    <3>1. PICK err : Abort(err)
      BY <1>6 DEF RejectCommand, RefuseEmptyCommand, FailBeforeCommit
    <3> QED BY <1>0, <3>1 DEF Abort, Workers
  <2> QED BY <2>1, <2>2
<1>7. CASE Interrupt
  <2>1. worker'.pc = "reconcile" /\ worker'.err = "timeout" /\ UNCHANGED <<log, receipt, exec>>
    BY <1>0, <1>7 DEF Interrupt, Abort, Workers, storeVars, clientVars
  <2> QED BY <2>1
<1>8. CASE Commit
  <2>1. PICK cmd \in Commands, e \in Dispatches, end \in Nat :
          cmd = Command /\ e = worker.d /\ end = Len(log')
    BY <1>8, CommitEffect
  <2>2. /\ receipt' = [receipt EXCEPT ![cmd] = [status |-> "accepted", seq |-> end]]
        /\ worker'.d = e /\ worker'.pc = "install" /\ worker'.last = end /\ exec' = exec
        /\ EventsOf[cmd] # <<>> /\ cmd = CommandOf[e] /\ worker.pc = "decide"
    <3>1. /\ receipt' = [receipt EXCEPT ![Command] = [status |-> "accepted", seq |-> Len(log')]]
          /\ worker' = [worker EXCEPT !.pc = "install", !.last = Len(log'),
                                      !.first = Len(log) + 1, !.next = Len(log) + 1]
          /\ UNCHANGED clientVars /\ EventsOf[Command] # <<>> /\ worker.pc = "decide"
      BY <1>8 DEF Commit
    <3> QED BY <1>0, <2>1, <3>1 DEF Workers, clientVars, Command
  <2>3. Command' = cmd
    BY <2>2 DEF Command
  <2>4. receipt'[cmd] = [status |-> "accepted", seq |-> end]
    BY <1>0, <2>2
  <2>5. \A c \in Commands : receipt'[c].status = "accepted" => EventsOf[c] # <<>>
    BY <1>0, <2>2
  <2>6. exec[e] = "in-flight"
    BY <2>1, <2>2 DEF EnvelopeInv, Executing
  <2>7. /\ DOMAIN log' = 1..end
        /\ \A n \in 1..Len(log) : log'[n] = log[n]
        /\ \A n \in (Len(log) + 1)..end : log'[n].cmd = cmd /\ log'[n].by = e
    BY <1>8, <2>1, CommitEffect
  <2>8. \A n \in DOMAIN log' :
          log'[n].cmd = CommandOf[log'[n].by] /\ exec'[log'[n].by] = "in-flight"
    <3> SUFFICES ASSUME NEW n \in 1..end
                 PROVE  log'[n].cmd = CommandOf[log'[n].by] /\ exec'[log'[n].by] = "in-flight"
      BY <2>7
    <3>1. CASE n <= Len(log)
      BY <2>2, <2>7, <3>1
    <3>2. CASE ~ (n <= Len(log))
      BY <2>2, <2>6, <2>7, <3>2
    <3> QED BY <3>1, <3>2
  <2> QED BY <2>2, <2>3, <2>4, <2>5, <2>8
<1>9. CASE InstallReadModel \/ ProjectNextDeferred \/ DeferredDone \/ PublishNext
  <2>1. /\ worker.pc \in {"install", "deferred", "publish"} /\ worker'.d = worker.d
        /\ worker'.pc \in {"install", "deferred", "publish"}
        /\ worker'.last = worker.last /\ UNCHANGED <<log, receipt, exec>>
    BY <1>0, <1>9 DEF InstallReadModel, ProjectNextDeferred, DeferredDone, PublishNext, Goto,
                      Workers, storeVars, clientVars
  <2> QED BY <2>1 DEF Command
<1>10. CASE Reconcile
  <2>1. /\ worker.pc = "reconcile" /\ worker'.d = worker.d /\ worker'.err = worker.err
        /\ worker'.pc = "settle" /\ UNCHANGED <<log, receipt, exec>>
    BY <1>0, <1>10 DEF Reconcile, Goto, Workers, storeVars, clientVars
  <2> QED BY <2>1
<1>11. CASE SkipAbandoned \/ ReplayReceipt \/ Succeed \/ SettleByReceipt \/ SettleFailed
  <2>1. worker' = Idle /\ UNCHANGED <<log, receipt, exec>>
    BY <1>11 DEF SkipAbandoned, ReplayReceipt, Succeed, SettleByReceipt,
                SettleFailed, Answer, storeVars, clientVars
  <2> QED BY <2>1 DEF Idle
<1>12. CASE SettleRejected
  <2>1. worker' = Idle /\ UNCHANGED <<log, exec>>
    BY <1>12 DEF SettleRejected, Answer
  <2>2. \A c \in Commands : receipt'[c].status = "accepted" => receipt[c].status = "accepted"
    <3>1. CASE receipt' = receipt
      BY <3>1
    <3>2. CASE receipt' = [receipt EXCEPT ![Command] =
                             [status |-> "rejected", seq |-> readModel.seq]]
      <4> TAKE c \in Commands
      <4>1. c = Command => receipt'[c] = [status |-> "rejected", seq |-> readModel.seq]
        BY <1>0, <3>2
      <4>2. c # Command => receipt'[c] = receipt[c]
        BY <1>0, <3>2
      <4> QED BY <4>1, <4>2
    <3> QED BY <1>12, <3>1, <3>2 DEF SettleRejected
  <2> QED BY <2>1, <2>2 DEF Idle
<1>13. CASE Crash \/ Restart \/ FinishStart
  <2>1. worker' \in {Down, Starting, Idle} /\ UNCHANGED <<log, receipt, exec>>
    BY <1>13 DEF Crash, Restart, FinishStart, storeVars, clientVars
  <2> QED BY <2>1 DEF Down, Starting, Idle
<1>14. QED
  BY OtherSteps, <1>1, <1>2, <1>3, <1>4, <1>5, <1>6, <1>7, <1>8, <1>9, <1>10, <1>11, <1>12, <1>13
  DEF WorkerStep

\* The commands a current read model knows are those of the ledger, so the
\* decider's invariants are checked against the ledger itself.
LEMMA KnownAreLogged ==
  ASSUME TypeOK, InLog(readModel, log), Seen(readModel, log, Len(log)), NEW c
  PROVE  c \in KnownCommands(readModel) <=> Ledger!InLedger(c)
<1> USE CursorFacts
<1>1. KnownCommands(readModel) =
        {log[n].cmd : n \in readModel.projects \cup Elements(readModel.threads)}
  BY DEF KnownCommands, Elements
<1>2. readModel.projects \cup Elements(readModel.threads) = DOMAIN log
  BY DEF InLog, Seen
<1>3. QED BY <1>1, <1>2 DEF Ledger!InLedger

\* What the receipt of a command says of the ledger.
LEMMA ReceiptTells ==
  ASSUME TypeOK, OnceAndWhole, CallInv, NEW d \in Dispatches
  PROVE  LET c == CommandOf[d]
         IN  /\ c \in Commands
             /\ receipt[c].status # "accepted" => ~Ledger!InLedger(c) /\ NoEventBy(d)
             /\ receipt[c].status = "accepted" =>
                  /\ receipt[c].seq \in DOMAIN log /\ log[receipt[c].seq].cmd = c
                  /\ \A m \in DOMAIN log : log[m].cmd = c => m <= receipt[c].seq
<1>1. PICK c \in Commands : c = CommandOf[d]
  BY EngineAssumption
<1>2. WholeOrAbsent(c) /\ receipt[c].seq \in Nat /\ Len(EventsOf[c]) \in Nat
      /\ EventsOf[c] \in Seq(EventKinds)
  BY EngineAssumption DEF OnceAndWhole, TypeOK, Receipts
<1>3. ASSUME receipt[c].status # "accepted" PROVE ~Ledger!InLedger(c) /\ NoEventBy(d)
  <2>1. \A n \in DOMAIN log : log[n].cmd # c
    BY <1>2, <1>3 DEF WholeOrAbsent, EventsBy
  <2> QED BY <1>1, <2>1 DEF CallInv, NoEventBy, Ledger!InLedger
<1>4. ASSUME receipt[c].status = "accepted"
      PROVE  /\ receipt[c].seq \in DOMAIN log /\ log[receipt[c].seq].cmd = c
             /\ \A m \in DOMAIN log : log[m].cmd = c => m <= receipt[c].seq
  <2>1. Len(EventsOf[c]) # 0
    BY <1>2, <1>4, EmptySeq DEF CallInv
  <2>2. EventsBy(c) = (receipt[c].seq - Len(EventsOf[c]) + 1)..receipt[c].seq
    BY <1>2, <1>4 DEF WholeOrAbsent
  <2>3. receipt[c].seq \in EventsBy(c) /\ \A m \in EventsBy(c) : m <= receipt[c].seq
    BY <1>2, <2>1, <2>2
  <2> QED BY <2>3 DEF EventsBy
<1>5. QED BY <1>1, <1>3, <1>4

\* A step of CommandLedger, or none.
LedgerStep == Ledger!LedgerNext \/ UNCHANGED <<log, answer>>

\* An answer that quotes an accepted receipt confirms the command.
LEMMA OkConfirms ==
  ASSUME TypeOK, OnceAndWhole, CallInv, NEW d \in Dispatches, answer[d] = Unanswered,
         receipt[CommandOf[d]].status = "accepted",
         answer' = [answer EXCEPT ![d] = Accepted(receipt[CommandOf[d]].seq)],
         log' = log
  PROVE  LedgerStep
<1>1. PICK n \in DOMAIN log : /\ n = receipt[CommandOf[d]].seq /\ log[n].cmd = CommandOf[d]
                              /\ \A m \in DOMAIN log : log[m].cmd = CommandOf[d] => m <= n
  BY ReceiptTells
<1>2. answer' = [answer EXCEPT ![d] = [kind |-> "ok", seq |-> n]]
  BY <1>1 DEF Accepted
<1>3. Ledger!Open(d)
  BY DEF Ledger!Open, Unanswered
<1>4. Ledger!Confirm(d)
  BY <1>1, <1>2, <1>3 DEF Ledger!Confirm
<1>5. QED BY <1>4 DEF LedgerStep, Ledger!LedgerNext

\* An answer that reports a failure refuses a call that had no effect.
LEMMA RefusalRefuses ==
  ASSUME NEW d \in Dispatches, answer[d] = Unanswered, NoEventBy(d),
         NEW kind \in {"rejected", "invariant", "failed", "timeout"},
         kind \in {"rejected", "invariant"} => ~Ledger!InLedger(CommandOf[d]),
         answer' = [answer EXCEPT ![d] = Says(kind)],
         log' = log
  PROVE  LedgerStep
<1>1. Ledger!Open(d)
  BY DEF Ledger!Open, Unanswered
<1>2. answer' = [answer EXCEPT ![d] = [kind |-> kind, seq |-> 0]]
  BY DEF Says
<1>3. Ledger!Refuse(d)
  BY <1>1, <1>2 DEF Ledger!Refuse, NoEventBy
<1>4. QED BY <1>3 DEF LedgerStep, Ledger!LedgerNext

\* Every step of the engine is a step of the ledger: Commit executes, the
\* answers confirm or refuse, a crash loses the callers, and nothing else shows.
LEMMA LedgerSteps ==
  ASSUME IInv, CallInv, ModelInv, "outcomeRead" \notin Faults, Next
  PROVE  LedgerStep
<1> USE CursorFacts
<1>0. /\ TypeOK /\ WorkerInv /\ EnvelopeInv /\ DecisionInv /\ OnceAndWhole
      /\ answer \in [Dispatches -> Answers] /\ receipt \in [Commands -> Receipts]
  BY DEF IInv, TypeOK
<1>1. CASE UNCHANGED <<log, answer>>
  BY <1>1 DEF LedgerStep
<1>2. ASSUME NEW d \in Dispatches, Abandon(d) PROVE LedgerStep
  <2>1. answer[d] = Unanswered /\ exec[d] = "queued" /\ log' = log
        /\ answer' = [answer EXCEPT ![d] = Says("timeout")]
    BY <1>2 DEF Abandon, storeVars
  <2>2. NoEventBy(d)
    BY <2>1 DEF CallInv, NoEventBy
  <2> QED BY <2>1, <2>2, RefusalRefuses
<1>3. CASE Commit
  <2>1. PICK d \in Dispatches, c \in Commands : d = worker.d /\ c = Command /\ c = CommandOf[d]
    BY <1>0, <1>3, CommitEffect DEF Command
  <2>2. /\ worker.pc = "decide" /\ Decides(c) /\ EventsOf[c] # <<>> /\ answer' = answer
        /\ log' = log \o Block(c, d)
    BY <1>3, <2>1 DEF Commit, clientVars
  <2>3. answer[d] = Unanswered
    BY <1>0, <2>1, <2>2 DEF EnvelopeInv, Executing
  <2>4. ~Ledger!InLedger(c)
    <3>1. receipt[c].status # "accepted"
      BY <1>0, <2>1, <2>2 DEF DecisionInv, NoReceipt
    <3> QED BY <1>0, <2>1, <3>1, ReceiptTells
  <2>5. Ledger!Permits(c)
    <3>1. InLog(readModel, log) /\ Seen(readModel, log, Len(log))
      BY <2>2 DEF ModelInv
    <3>2. \A k : k \in KnownCommands(readModel) <=> Ledger!InLedger(k)
      BY <1>0, <3>1, KnownAreLogged
    <3> QED BY <2>2, <3>2 DEF Decides, Ledger!Permits
  <2>6. Ledger!Execute(d)
    BY <2>1, <2>2, <2>3, <2>4, <2>5 DEF Ledger!Execute, Ledger!Open, Unanswered, Block
  <2> QED BY <2>6 DEF LedgerStep, Ledger!LedgerNext
<1>4. CASE ReplayReceipt \/ Succeed \/ SettleByReceipt \/ SettleRejected \/ SettleFailed
  <2>1. PICK d \in Dispatches : d = worker.d /\ Command = CommandOf[d] /\ answer[d] = Unanswered
    BY <1>0, <1>4 DEF ReplayReceipt, Succeed, SettleByReceipt, SettleRejected, SettleFailed,
                      WorkerInv, EnvelopeInv, Executing, Command
  <2>2. PICK c \in Commands : c = CommandOf[d]
    BY EngineAssumption
  <2>3. log' = log
    BY <1>4 DEF ReplayReceipt, Succeed, SettleByReceipt, SettleRejected, SettleFailed, storeVars
  <2>4. receipt[c].status # "accepted" => ~Ledger!InLedger(c) /\ NoEventBy(d)
    BY <1>0, <2>2, ReceiptTells
  <2>5. ASSUME Answer(Accepted(receipt[c].seq)), receipt[c].status = "accepted"
        PROVE  LedgerStep
    BY <1>0, <2>1, <2>2, <2>3, <2>5, OkConfirms DEF Answer
  <2>6. ASSUME NEW kind \in {"rejected", "invariant", "failed", "timeout"}, Answer(Says(kind)),
               NoEventBy(d), kind \in {"rejected", "invariant"} => ~Ledger!InLedger(c)
        PROVE  LedgerStep
    BY <2>1, <2>2, <2>3, <2>6, RefusalRefuses DEF Answer
  <2>7. CASE ReplayReceipt
    <3>1. Answer(IF receipt[c].status = "accepted" THEN Accepted(receipt[c].seq)
                                                   ELSE Says("rejected"))
      BY <2>1, <2>2, <2>7 DEF ReplayReceipt
    <3>2. CASE receipt[c].status = "accepted"
      BY <2>5, <3>1, <3>2
    <3>3. CASE receipt[c].status # "accepted"
      BY <2>4, <2>6, <3>1, <3>3
    <3> QED BY <3>2, <3>3
  <2>8. CASE Succeed
    <3>1. worker.pc = "publish" /\ Answer(Accepted(worker.last))
      BY <2>8 DEF Succeed
    <3>2. receipt[c].status = "accepted" /\ receipt[c].seq = worker.last
      BY <2>1, <2>2, <3>1 DEF CallInv
    <3> QED BY <2>5, <3>1, <3>2
  <2>9. CASE SettleByReceipt
    <3> DEFINE k == IF worker.err = "timeout" THEN "timeout" ELSE "failed"
    <3>1. Answer(CASE receipt[c].status = "accepted" -> Accepted(receipt[c].seq)
                   [] receipt[c].status = "rejected" -> Says("rejected")
                   [] OTHER -> Says(k))
      BY <2>1, <2>2, <2>9 DEF SettleByReceipt, Fault
    <3>2. k \in {"failed", "timeout"}
      OBVIOUS
    <3> HIDE DEF k
    <3>3. CASE receipt[c].status = "accepted"
      BY <2>5, <3>1, <3>3
    <3>4. CASE receipt[c].status = "rejected"
      BY <2>4, <2>6, <3>1, <3>4
    <3>5. CASE receipt[c].status \notin {"accepted", "rejected"}
      BY <2>4, <2>6, <3>1, <3>2, <3>5
    <3> QED BY <3>3, <3>4, <3>5
  <2>10. CASE SettleRejected
    <3>1. Answer(Says("invariant")) /\ worker.pc = "settle" /\ worker.err = "invariant"
      BY <2>10 DEF SettleRejected
    <3>2. receipt[c].status # "accepted"
      BY <1>0, <2>1, <2>2, <3>1 DEF DecisionInv, NoReceipt
    <3> QED BY <2>4, <2>6, <3>1, <3>2
  <2>11. CASE SettleFailed
    <3>1. Answer(Says("failed")) /\ worker.pc = "settle" /\ worker.err = "failed"
      BY <2>11 DEF SettleFailed
    <3>2. NoEventBy(d)
      BY <2>1, <3>1 DEF CallInv
    <3> QED BY <2>6, <3>1, <3>2
  <2> QED BY <1>4, <2>7, <2>8, <2>9, <2>10, <2>11
<1>5. CASE Crash
  <2> DEFINE lost == {d \in Dispatches : exec[d] # "none" /\ answer[d] = Unanswered}
  <2>1. log' = log /\ answer' = [d \in Dispatches |-> IF exec[d] # "none" /\ answer[d] = Unanswered
                                                     THEN Says("lost") ELSE answer[d]]
    BY <1>5 DEF Crash, storeVars
  <2>2. answer' = [d \in Dispatches |->
                     IF d \in lost THEN [kind |-> "lost", seq |-> 0] ELSE answer[d]]
    BY <2>1 DEF Says
  <2>3. lost \in SUBSET {d \in Dispatches : Ledger!Open(d)}
    BY DEF Ledger!Open, Unanswered
  <2> HIDE DEF lost
  <2>4. Ledger!LoseCallers
    BY <2>1, <2>2, <2>3 DEF Ledger!LoseCallers
  <2> QED BY <2>4 DEF LedgerStep, Ledger!LedgerNext
<1>6. ASSUME NEW d \in Dispatches, Submit(d) PROVE UNCHANGED <<log, answer>>
  BY <1>6 DEF Submit, storeVars
<1>7. CASE Take \/ AcquireLock \/ FailBeforeCommit \/ Interrupt \/ Restart \/ FinishStart
  BY <1>1, <1>7 DEF Take, AcquireLock, FailBeforeCommit, Interrupt, Restart, FinishStart,
                    clientVars, storeVars
<1>8. CASE SkipAbandoned \/ Start \/ NoReceiptYet \/ RejectCommand \/ RefuseEmptyCommand
           \/ InstallReadModel \/ ProjectNextDeferred \/ DeferredDone \/ PublishNext \/ Reconcile
  BY <1>1, <1>8 DEF SkipAbandoned, Start, NoReceiptYet, RejectCommand, RefuseEmptyCommand,
     InstallReadModel, ProjectNextDeferred, DeferredDone, PublishNext, Reconcile,
     clientVars, storeVars
<1>9. CASE UNCHANGED coreVars
  BY <1>1, <1>9 DEF coreVars
<1>10. QED
  BY OtherSteps, <1>1, <1>2, <1>3, <1>4, <1>5, <1>6, <1>7, <1>8, <1>9 DEF WorkerStep

-----------------------------------------------------------------------------
(* Repairs                                                                 *)

\* The read model shows no project that the log does not hold.
KnownInv ==
  /\ \A n \in readModel.projects : n \in 1..Len(log) /\ log[n].kind = "project"
  /\ worker.pc = "install" => worker.last = Len(log)

\* Only these steps change the read model or make the worker install one.
LEMMA ModelSteps ==
  ASSUME TypeOK, Next
  PROVE  \/ UNCHANGED <<readModel, log>> /\ (worker' = worker \/ worker'.pc # "install")
         \/ Commit \/ InstallReadModel \/ Reconcile \/ RefreshReadModel \/ Crash \/ FinishStart
<1>0. worker \in Workers
  BY DEF TypeOK
<1>1. CASE Clients \/ Replay \/ BeginCatchUp \/ EndCatchUp \/ RequestRepair \/ ResetProjects
            \/ FailRepair \/ RestoreBackup
  BY <1>1 DEF Clients, Submit, DeadlinePasses, Abandon, Replay, BeginCatchUp, EndCatchUp,
     RequestRepair, ResetProjects, FailRepair, RestoreBackup, EndRepair, storeVars, memoryVars
<1>2. CASE Take \/ AcquireLock \/ NoReceiptYet \/ Start
  <2>1. UNCHANGED <<log, readModel>>
    BY <1>2 DEF Take, AcquireLock, NoReceiptYet, Start, storeVars, memoryVars
  <2>2. CASE Take
    BY <1>0, <2>1, <2>2 DEF Take, Workers
  <2>3. CASE AcquireLock \/ NoReceiptYet
    BY <1>0, <2>1, <2>3 DEF AcquireLock, NoReceiptYet, Goto, Workers
  <2>4. CASE Start
    <3>1. Abort("timeout") \/ Goto("receipt")
      BY <2>4 DEF Start
    <3> QED BY <1>0, <2>1, <3>1 DEF Abort, Goto, Workers
  <2> QED BY <1>2, <2>2, <2>3, <2>4
<1>3. CASE SkipAbandoned \/ ReplayReceipt \/ Succeed \/ SettleByReceipt \/ SettleRejected
           \/ SettleFailed
  <2>1. worker' = Idle /\ UNCHANGED memoryVars
    BY <1>3 DEF SkipAbandoned, ReplayReceipt, Succeed, SettleByReceipt, SettleRejected,
                SettleFailed, Answer
  <2>2. log' = log
    BY <1>3 DEF SkipAbandoned, ReplayReceipt, Succeed, SettleByReceipt, SettleRejected,
                SettleFailed, storeVars
  <2> QED BY <2>1, <2>2 DEF Idle, memoryVars
<1>4. CASE RejectCommand \/ RefuseEmptyCommand \/ FailBeforeCommit \/ Interrupt
  <2>1. UNCHANGED <<log, readModel>>
    BY <1>4 DEF RejectCommand, RefuseEmptyCommand, FailBeforeCommit, Interrupt,
                storeVars, memoryVars
  <2>2. PICK err : Abort(err)
    BY <1>4 DEF RejectCommand, RefuseEmptyCommand, FailBeforeCommit, Interrupt
  <2> QED BY <1>0, <2>1, <2>2 DEF Abort, Workers
<1>5. CASE ProjectNextDeferred \/ DeferredDone \/ PublishNext
  BY <1>0, <1>5 DEF ProjectNextDeferred, DeferredDone, PublishNext, Workers, storeVars, memoryVars
<1>6. CASE Restart
  BY <1>6 DEF Restart, Starting, Idle, storeVars, memoryVars
<1>7. QED BY <1>1, <1>2, <1>3, <1>4, <1>5, <1>6 DEF Next, WorkerStep

\* A projection into memory only adds the projects of its stretch.
LEMMA ProjectsOf ==
  ASSUME NEW m, NEW l, NEW lo, NEW hi
  PROVE  ProjectInMemory(m, l, lo, hi).projects =
           m.projects \cup {n \in (lo + 1)..hi : l[n].kind = "project"}
BY DEF ProjectInMemory

\* Every step keeps the projects of the read model inside the log.
LEMMA KnownInvStep ==
  ASSUME TypeOK, WorkerInv, LockInv, ReplayInv, RepairInv, KnownInv, Next
  PROVE  KnownInv'
<1> USE CursorFacts
<1>0. /\ worker \in Workers /\ readModel \in ReadModels /\ worker.start \in Nat
      /\ worker.first \in Nat /\ worker.last \in Nat /\ ReadLimit \in Nat
  BY WorkerFields, ReadLimitAssumption DEF TypeOK
<1>1. CASE UNCHANGED <<readModel, log>> /\ (worker' = worker \/ worker'.pc # "install")
  BY <1>1 DEF KnownInv
<1>2. CASE Commit
  <2>1. /\ worker'.last = Len(log') /\ readModel' = readModel
        /\ Len(log') \in Nat /\ Len(log) < Len(log') /\ \A n \in 1..Len(log) : log'[n] = log[n]
    BY <1>0, <1>2, CommitEffect DEF Commit, Workers, memoryVars
  <2> QED BY <2>1 DEF KnownInv
<1>3. CASE InstallReadModel
  <2>1. /\ worker'.pc = "deferred" /\ log' = log /\ worker.last = Len(log) /\ worker.first # 0
        /\ readModel'.projects = readModel.projects \cup
             {n \in (worker.first - 1 + 1)..worker.last : log[n].kind = "project"}
    BY <1>0, <1>3, ProjectsOf DEF InstallReadModel, Goto, Workers, storeVars, KnownInv, WorkerInv
  <2> QED BY <1>0, <2>1 DEF KnownInv
<1>4. CASE Reconcile
  <2>1. worker'.pc = "settle" /\ log' = log
    BY <1>0, <1>4 DEF Reconcile, Goto, Workers, storeVars
  <2>2. EndOfPage(worker.start) \in Nat /\ EndOfPage(worker.start) <= Len(log)
    BY <1>0 DEF EndOfPage
  <2>3. \/ readModel'.projects = readModel.projects
        \/ readModel'.projects = readModel.projects \cup
             {n \in (worker.start + 1)..EndOfPage(worker.start) : log[n].kind = "project"}
    BY <1>4, ProjectsOf DEF Reconcile, memoryVars
  <2> QED BY <1>0, <2>1, <2>2, <2>3 DEF KnownInv
<1>5. CASE RefreshReadModel
  <2>1. repair.pc = "running" /\ boot.pc = "done" /\ UNCHANGED <<worker, log>>
    BY <1>5 DEF RefreshReadModel, EndRepair, storeVars
  <2>2. ProjectRows = {n \in 1..Len(log) : log[n].kind = "project"}
    BY <2>1 DEF RepairInv, ReplayInv
  <2>3. readModel'.projects \in {readModel.projects, ProjectRows}
    BY <1>0, <1>5 DEF RefreshReadModel, ReadModels, ProjectRows, Elements
  <2> QED BY <2>1, <2>2, <2>3 DEF KnownInv
<1>6. CASE Crash
  BY <1>6 DEF Crash, Down, Idle, EmptyReadModel, KnownInv
<1>7. CASE FinishStart
  <2>1. /\ worker'.pc # "install" /\ log' = log
        /\ \/ readModel' = readModel
           \/ readModel'.projects = {n \in (0 + 1)..Len(log) : log[n].kind = "project"}
    BY <1>7, ProjectsOf DEF FinishStart, Down, Idle, storeVars, EmptyReadModel
  <2> QED BY <2>1 DEF KnownInv
<1>8. QED BY ModelSteps, <1>1, <1>2, <1>3, <1>4, <1>5, <1>6, <1>7

\* A repair that ends leaves no project out.
Repaired ==
  repair.pc = "running" /\ repair'.pc = "idle" /\ worker'.pc # "down"
    => readModel.projects \subseteq readModel'.projects

\* RefreshReadModel takes the projects from the table that was replayed, which
\* holds all of them or the refresh is not reached.
LEMMA RepairedStep ==
  ASSUME TypeOK, LockInv, ReplayInv, RepairInv, KnownInv, Next
  PROVE  Repaired
<1> USE CursorFacts
<1> SUFFICES ASSUME repair.pc = "running", repair'.pc = "idle", worker'.pc # "down"
             PROVE  readModel.projects \subseteq readModel'.projects
  BY DEF Repaired
<1>1. CASE readModel' = readModel
  BY <1>1
<1>2. CASE RefreshReadModel
  <2>1. ProjectRows = {n \in 1..Len(log) : log[n].kind = "project"}
    BY <1>2 DEF RefreshReadModel, RepairInv, ReplayInv
  <2>2. readModel'.projects \in {readModel.projects, ProjectRows}
    BY <1>2 DEF RefreshReadModel, ReadModels, ProjectRows, Elements, TypeOK
  <2> QED BY <2>1, <2>2 DEF KnownInv
<1>3. CASE Commit \/ InstallReadModel \/ Reconcile
  BY <1>3 DEF Commit, InstallReadModel, Reconcile, LockInv, Executing
<1>4. CASE Crash
  BY <1>4 DEF Crash, Down, Idle
<1>5. CASE FinishStart
  BY <1>5 DEF FinishStart, LockInv, Up
<1>6. QED BY ModelSteps, <1>1, <1>2, <1>3, <1>4, <1>5

-----------------------------------------------------------------------------
(* The invariants together, and what they are for                          *)

\* The inductive invariant that needs no assumption on the constants.
ReplayIInv == IInv /\ LockInv /\ ReplayInv /\ RepairInv /\ HotInv /\ KnownInv /\ CallInv

\* It holds of an empty store.
LEMMA InitReplayIInv ==
  ASSUME Init PROVE ReplayIInv
<1>1. IInv
  BY InitIInv
<1>2. LockInv
  BY DEF Init, LockInv, Idle, Executing, NotBooting, NoRepair, Up
<1>3. ReplayInv /\ RepairInv /\ HotInv
  <2>1. Len(<<>>) = 0 /\ Snapshot \subseteq Projectors
    BY DEF Snapshot, Projectors
  <2> QED BY <2>1 DEF Init, ReplayInv, RepairInv, HotInv, NotBooting, NoRepair
<1>4. KnownInv /\ CallInv
  BY DEF Init, KnownInv, CallInv, EmptyReadModel, Idle, NoReceipt
<1>5. QED BY <1>1, <1>2, <1>3, <1>4 DEF ReplayIInv

\* It depends on the variables alone.
LEMMA StutterReplayIInv ==
  ASSUME ReplayIInv, UNCHANGED vars PROVE ReplayIInv'
<1>1. IInv'
  BY StutterIInv DEF ReplayIInv
<1>2. (LockInv /\ ReplayInv /\ RepairInv /\ HotInv)'
  BY DEF ReplayIInv, LockInv, ReplayInv, RepairInv, HotInv, ProjectRows, Elements, Up,
         vars, projectionVars, storeVars, clientVars, memoryVars
<1>3. (KnownInv /\ CallInv)'
  BY DEF ReplayIInv, KnownInv, CallInv, NoEventBy, Command,
         vars, projectionVars, storeVars, clientVars, memoryVars
<1>4. QED BY <1>1, <1>2, <1>3 DEF ReplayIInv

\* The steps of IInv, from OrchestrationEngineProofs.
LEMMA IInvStep ==
  ASSUME IInv, Next PROVE IInv'
BY TypeStep, WorkerInvStep, EnvelopeInvStep, DecisionInvStep, OnceAndWholeStep DEF IInv

\* Every step keeps it while repairs fit the page.
LEMMA ReplayIInvStep ==
  ASSUME ReplayIInv, RepairsFitPage, RepairsFitPage', Next PROVE ReplayIInv'
<1>1. IInv' /\ TypeOK /\ TypeOK' /\ WorkerInv /\ EnvelopeInv /\ DecisionInv
  BY IInvStep DEF ReplayIInv, IInv
<1>2. LockInv' /\ ReplayInv' /\ RepairInv'
  BY <1>1, LockInvStep, ReplayInvStep, RepairInvStep DEF ReplayIInv
<1>3. HotInv' /\ KnownInv' /\ CallInv'
  BY <1>1, HotInvStep, KnownInvStep, CallInvStep DEF ReplayIInv
<1>4. QED BY <1>1, <1>2, <1>3 DEF ReplayIInv

\* It always holds.
LEMMA ReplayInvariance == Spec /\ []RepairsFitPage => []ReplayIInv
<1>1. ReplayIInv /\ RepairsFitPage /\ RepairsFitPage' /\ [Next]_vars => ReplayIInv'
  BY ReplayIInvStep, StutterReplayIInv
<1>2. QED BY InitReplayIInv, <1>1, PTL DEF Spec

\* Whenever the outcome lock is free or the worker's and the server is up, the
\* hot tables (projects and messages) are current with the log: no failure,
\* timeout, crash or repair leaves them behind, provided that a failed repair
\* can be rolled back (hotProjectionPipeline, repairState).
THEOREM HotTablesStayCurrent ==
  ASSUME "repairRestore" \notin Faults
  PROVE  Spec /\ []RepairsFitPage => []HotTablesCurrent
<1>1. ReplayIInv => HotTablesCurrent
  BY DEF ReplayIInv, HotInv, LockInv, HotTablesCurrent
<1>2. QED BY ReplayInvariance, <1>1, PTL

\* A repair that ends with the server up has every project that the read model
\* had before it (repairState, refreshReadModelFromProjectionSnapshot).
THEOREM RepairsKeepProjects ==
  Spec /\ []RepairsFitPage => RepairKeepsProjects
<1>1. ReplayIInv /\ [Next]_vars => [Repaired]_vars
  BY RepairedStep DEF ReplayIInv, IInv
<1>2. RepairKeepsProjects <=> [][Repaired]_vars
  BY DEF RepairKeepsProjects, Repaired
<1>3. QED BY ReplayInvariance, <1>1, <1>2, PTL DEF Spec

\* The invariant that needs the page and the faults of its theorems.
ModelIInv == ModelInv /\ PublishedInv

\* It always holds.
LEMMA ModelInvariance ==
  ASSUME CommandsFitPage, "reconcileRead" \notin Faults
  PROVE  Spec /\ []RepairsFitPage => [](ReplayIInv /\ ModelIInv)
<1>1. Init => ModelIInv
  <2> SUFFICES ASSUME Init PROVE ModelIInv
    OBVIOUS
  <2>1. log = <<>> /\ worker.pc = "take" /\ readModel = EmptyReadModel
        /\ base = 0 /\ published = <<>> /\ Len(<<>>) = 0
    BY DEF Init, Idle
  <2> QED BY <2>1 DEF ModelIInv, ModelInv, PublishedInv, EmptyReadModel, InLog, Seen, Elements,
                      Received, Up
<1>2. ReplayIInv /\ ReplayIInv' /\ ModelIInv /\ Next => ModelIInv'
  BY ModelInvStep, PublishedInvStep DEF ModelIInv, ReplayIInv, IInv
<1>3. ReplayIInv /\ ModelIInv /\ UNCHANGED vars => ModelIInv'
  BY DEF ModelIInv, ModelInv, PublishedInv, InLog, Seen, Elements, Received, Up,
         vars, projectionVars, storeVars, clientVars, memoryVars
<1>4. ReplayIInv /\ ReplayIInv' /\ ModelIInv /\ [Next]_vars => ModelIInv'
  BY <1>2, <1>3
<1>5. QED BY ReplayInvariance, <1>1, <1>4, PTL DEF Spec

\* Whenever the worker waits for a command, the read model is the whole log:
\* the next command is decided against everything that was committed, by
\* whatever path the last one ended (reconcileReadModelAfterDispatchFailure).
THEOREM ReadModelStaysCurrent ==
  ASSUME CommandsFitPage, "reconcileRead" \notin Faults
  PROVE  Spec /\ []RepairsFitPage => []ReadModelCurrent
<1>1. ReplayIInv /\ ModelIInv => ReadModelCurrent
  BY CursorFacts DEF ReplayIInv, IInv, ModelIInv, ModelInv, Seen, Elements, ReadModelCurrent
<1>2. QED BY ModelInvariance, <1>1, PTL

\* Whenever the worker waits for a command, every event committed since the
\* server started was published to its subscribers (eventPubSub).
THEOREM EveryEventPublished ==
  ASSUME CommandsFitPage, "reconcileRead" \notin Faults
  PROVE  Spec /\ []RepairsFitPage => []PublishedAll
<1>1. ReplayIInv /\ ModelIInv => PublishedAll
  BY CursorFacts DEF ReplayIInv, IInv, ModelIInv, PublishedInv, Received, Elements, PublishedAll
<1>2. QED BY ModelInvariance, <1>1, PTL

\* The engine implements CommandLedger: dispatch adds each command at most once,
\* whole, where the log permits it, and answers truthfully, across retries,
\* timeouts at any await, failed writes, repairs and crashes.
THEOREM LedgerRefinement ==
  ASSUME CommandsFitPage, Faults \cap {"reconcileRead", "outcomeRead"} = {}
  PROVE  Spec /\ []RepairsFitPage => ImplementsLedger
<1>0. "reconcileRead" \notin Faults /\ "outcomeRead" \notin Faults
  OBVIOUS
<1>1. Init => Ledger!LedgerInit
  BY DEF Init, Ledger!LedgerInit, Unanswered
<1>2. ReplayIInv /\ ModelIInv /\ Next => LedgerStep
  BY <1>0, LedgerSteps DEF ReplayIInv, ModelIInv
<1>3. ReplayIInv /\ ModelIInv /\ [Next]_vars => [Ledger!LedgerNext]_(Ledger!ledgerVars)
  BY <1>2 DEF LedgerStep, Ledger!ledgerVars, vars, storeVars, clientVars
<1>4. Spec /\ []RepairsFitPage => [](ReplayIInv /\ ModelIInv)
  BY <1>0, ModelInvariance
<1>5. QED BY <1>1, <1>3, <1>4, PTL DEF Spec, ImplementsLedger, Ledger!LedgerSpec

-----------------------------------------------------------------------------
(***************************************************************************)
(* That no event is applied twice: the projection tables (TablesExact), the*)
(* read model (ReadModelExact) and the domain stream (PublishedOnce) of    *)
(* OrchestrationEngine, for any commands, log, faults and crashes.         *)
(*                                                                         *)
(* The code has no check against a second application but the cursors, so  *)
(* the proofs show where an event can be met again. The tables: by a replay*)
(* or by the worker behind a catch-up, and both go on right behind the     *)
(* cursor (TableIInv). The read model and the stream: by reconcile, which  *)
(* reads from the worker's starting point, the end of the log then and, if *)
(* the command did not commit, still (ModelExactInv).                      *)
(*                                                                         *)
(* The hypotheses say what makes the properties fail: a timeout that       *)
(* strikes after the commit, a repair (for the tables), a replay that ends *)
(* a page before its log.                                                  *)
(***************************************************************************)

-----------------------------------------------------------------------------
(* What a projector makes of a stretch of the log                          *)

\* Events that a projector does not handle leave no row.
LEMMA HandledSkip ==
  ASSUME NEW l, NEW p, NEW lo \in Nat, NEW mid \in Nat, NEW hi \in Nat, lo <= mid, mid <= hi,
         \A n \in (mid + 1)..hi : ~Handles(p, l[n].kind)
  PROVE  Handled(l, p, lo, hi) = Handled(l, p, lo, mid)
<1> DEFINE Q == {k \in Nat : mid + k <= hi => Handled(l, p, lo, mid + k) = Handled(l, p, lo, mid)}
<1>1. 0 \in Q
  OBVIOUS
<1>2. ASSUME NEW k \in Nat, k \in Q PROVE k + 1 \in Q
  <2> SUFFICES ASSUME mid + (k + 1) <= hi
               PROVE  Handled(l, p, lo, mid + (k + 1)) = Handled(l, p, lo, mid)
    OBVIOUS
  <2>1. mid + k \in Nat /\ lo <= mid + k /\ mid + (k + 1) = (mid + k) + 1
        /\ (mid + k) + 1 \in (mid + 1)..hi
    OBVIOUS
  <2>2. Handled(l, p, lo, (mid + k) + 1) = Handled(l, p, lo, mid + k)
    BY <2>1, HandledSteps
  <2> QED BY <1>2, <2>1, <2>2
<1>3. Nat \subseteq Q
  <2> HIDE DEF Q
  <2> QED BY <1>1, <1>2, Induction
<1>4. hi - mid \in Nat /\ mid + (hi - mid) = hi
  OBVIOUS
<1>5. QED BY <1>3, <1>4

\* What was handled depends on the events that were handled only.
LEMMA HandledPrefix ==
  ASSUME NEW l, NEW k, NEW p, NEW lo \in Nat, NEW hi \in Nat, lo <= hi,
         \A n \in (lo + 1)..hi : k[n] = l[n]
  PROVE  Handled(k, p, lo, hi) = Handled(l, p, lo, hi)
<1> DEFINE Q == {i \in Nat : lo + i <= hi => Handled(k, p, lo, lo + i) = Handled(l, p, lo, lo + i)}
<1>1. 0 \in Q
  <2>1. Handled(k, p, lo, lo) = <<>> /\ Handled(l, p, lo, lo) = <<>> /\ lo + 0 = lo
    BY HandledSteps
  <2> QED BY <2>1
<1>2. ASSUME NEW i \in Nat, i \in Q PROVE i + 1 \in Q
  <2> SUFFICES ASSUME lo + (i + 1) <= hi
               PROVE  Handled(k, p, lo, lo + (i + 1)) = Handled(l, p, lo, lo + (i + 1))
    OBVIOUS
  <2>1. lo + i \in Nat /\ lo <= lo + i /\ lo + (i + 1) = (lo + i) + 1
        /\ (lo + i) + 1 \in (lo + 1)..hi
    OBVIOUS
  <2>2. k[(lo + i) + 1] = l[(lo + i) + 1]
    BY <2>1
  <2>3. Handled(k, p, lo, lo + i) = Handled(l, p, lo, lo + i)
    BY <1>2
  <2>4. CASE Handles(p, l[(lo + i) + 1].kind)
    <3>1. Handled(k, p, lo, (lo + i) + 1) = Append(Handled(k, p, lo, lo + i), (lo + i) + 1)
      BY <2>1, <2>2, <2>4, HandledSteps
    <3>2. Handled(l, p, lo, (lo + i) + 1) = Append(Handled(l, p, lo, lo + i), (lo + i) + 1)
      BY <2>1, <2>4, HandledSteps
    <3> QED BY <2>1, <2>3, <3>1, <3>2
  <2>5. CASE ~Handles(p, l[(lo + i) + 1].kind)
    <3>1. Handled(k, p, lo, (lo + i) + 1) = Handled(k, p, lo, lo + i)
      BY <2>1, <2>2, <2>5, HandledSteps
    <3>2. Handled(l, p, lo, (lo + i) + 1) = Handled(l, p, lo, lo + i)
      BY <2>1, <2>5, HandledSteps
    <3> QED BY <2>1, <2>3, <3>1, <3>2
  <2> QED BY <2>4, <2>5
<1>3. Nat \subseteq Q
  <2> HIDE DEF Q
  <2> QED BY <1>1, <1>2, Induction
<1>4. hi - lo \in Nat /\ lo + (hi - lo) = hi
  OBVIOUS
<1>5. QED BY <1>3, <1>4

\* Appending to the second of two sequences is appending to both.
LEMMA AppendToConcat ==
  ASSUME NEW s \in Seq(Nat), NEW t \in Seq(Nat), NEW n \in Nat
  PROVE  s \o Append(t, n) = Append(s \o t, n)
<1>1. s \o t \in Seq(Nat) /\ <<n>> \in Seq(Nat)
  BY ConcatProperties
<1>2. Append(t, n) = t \o <<n>> /\ Append(s \o t, n) = (s \o t) \o <<n>>
  BY <1>1, AppendIsConcat
<1>3. QED BY <1>1, <1>2, ConcatAssociative

\* Two stretches after each other.
LEMMA HandledConcat ==
  ASSUME NEW l, NEW p, NEW lo \in Nat, NEW mid \in Nat, NEW hi \in Nat, lo <= mid, mid <= hi
  PROVE  Handled(l, p, lo, mid) \o Handled(l, p, mid, hi) = Handled(l, p, lo, hi)
<1> DEFINE Q == {k \in Nat : Handled(l, p, lo, mid) \o Handled(l, p, mid, mid + k)
                               = Handled(l, p, lo, mid + k)}
<1>0. PICK s \in Seq(Nat) : s = Handled(l, p, lo, mid)
  BY HandledType
<1>1. 0 \in Q
  <2>1. Handled(l, p, mid, mid) = <<>> /\ mid + 0 = mid /\ s \o <<>> = s
    BY HandledSteps, ConcatEmptySeq
  <2> QED BY <1>0, <2>1
<1>2. ASSUME NEW k \in Nat, k \in Q PROVE k + 1 \in Q
  <2>1. mid + k \in Nat /\ lo <= mid + k /\ mid <= mid + k /\ mid + (k + 1) = (mid + k) + 1
    OBVIOUS
  <2>2. PICK t \in Seq(Nat) : t = Handled(l, p, mid, mid + k)
    BY <2>1, HandledType
  <2>3. s \o t = Handled(l, p, lo, mid + k)
    BY <1>0, <1>2, <2>2
  <2>4. CASE Handles(p, l[(mid + k) + 1].kind)
    <3>1. Handled(l, p, mid, (mid + k) + 1) = Append(t, (mid + k) + 1)
      BY <2>1, <2>2, <2>4, HandledSteps
    <3>3. Handled(l, p, lo, (mid + k) + 1) = Append(s \o t, (mid + k) + 1)
      BY <2>1, <2>3, <2>4, HandledSteps
    <3>2. s \o Append(t, (mid + k) + 1) = Append(s \o t, (mid + k) + 1)
      BY <2>1, AppendToConcat
    <3>4. s \o Handled(l, p, mid, (mid + k) + 1) = Handled(l, p, lo, (mid + k) + 1)
      BY <3>1, <3>2, <3>3
    <3> QED BY <1>0, <2>1, <3>4
  <2>5. CASE ~Handles(p, l[(mid + k) + 1].kind)
    <3>1. Handled(l, p, mid, (mid + k) + 1) = t
      BY <2>1, <2>2, <2>5, HandledSteps
    <3>2. Handled(l, p, lo, (mid + k) + 1) = s \o t
      BY <2>1, <2>3, <2>5, HandledSteps
    <3> QED BY <1>0, <2>1, <3>1, <3>2
  <2> QED BY <2>4, <2>5
<1>3. Nat \subseteq Q
  <2> HIDE DEF Q
  <2> QED BY <1>1, <1>2, Induction
<1>4. hi - mid \in Nat /\ mid + (hi - mid) = hi
  OBVIOUS
<1>5. QED BY <1>3, <1>4

-----------------------------------------------------------------------------
(* The tables                                                              *)

\* The table of p is what the events up to its cursor make of it (as
\* TablesExact asks of every table).
Exact(p) == cursor[p] <= Len(log) /\ rows[p] = Handled(log, p, 0, cursor[p])

\* Of the events up to n, those after its cursor are none that p handles.
Passed(p, n) == \A m \in (cursor[p] + 1)..n : ~Handles(p, log[m].kind)

\* A replay reads one page: it reaches the last event that the shell table
\* has still to see.
ReplayReachesShell ==
  boot.pc = "replaying" =>
    \A n \in DOMAIN log : log[n].kind = "summary" => n <= cursor["shell"] + ReadLimit

\* The tables that the command transaction writes are exact, and no event
\* that they handle is left.
HotTableInv == \A p \in Hot : Exact(p) /\ Passed(p, Len(log))

\* A commit brings the table to the end of the log.
LEMMA CommittedTable ==
  ASSUME TypeOK, WorkerInv, HotTableInv, Commit, NEW p \in Hot
  PROVE  Exact(p)' /\ Passed(p, Len(log))'
<1> USE CursorFacts
<1>1. PICK k : k = log'
  OBVIOUS
<1>2. /\ k \in Seq(Events) /\ Len(k) \in Nat /\ Len(log) \in Nat /\ Len(log) <= Len(k)
      /\ \A n \in 1..Len(log) : k[n] = log[n]
      /\ \A q \in Snapshot : cursor'[q] = Len(k)
  BY <1>1, CommitEffect
<1>3. p \in Projectors /\ cursor[p] \in Nat
  BY DEF Hot, Projectors, TypeOK, ProjectionTypeOK
<1>4. ProjectInTransaction(k)
  BY <1>1 DEF Commit
<1>5. rows'[p] = rows[p] \o Handled(k, p, Len(log), Len(k))
  BY <1>3, <1>4 DEF ProjectInTransaction
<1>6. rows[p] = Handled(k, p, 0, Len(log))
  <2>1. Handled(log, p, 0, Len(log)) = rows[p]
    BY <1>3, HandledSkip DEF HotTableInv, Exact, Passed
  <2> QED BY <1>2, <2>1, HandledPrefix
<1>7. rows'[p] = Handled(k, p, 0, Len(k))
  <2>1. Handled(k, p, 0, Len(log)) \o Handled(k, p, Len(log), Len(k)) = Handled(k, p, 0, Len(k))
    <3>1. 0 \in Nat /\ Len(log) \in Nat /\ Len(k) \in Nat /\ 0 <= Len(log) /\ Len(log) <= Len(k)
      BY <1>2
    <3> QED BY <3>1, HandledConcat, Zenon
  <2> QED BY <1>5, <1>6, <2>1
<1> DEFINE M == {n \in (Len(log) + 1)..Len(k) : p \in Advanced(k[n].kind)}
           L == CHOOSE n \in M : \A m \in M : m <= n
<1>8. cursor'[p] = IF M = {} THEN cursor[p] ELSE L
  BY <1>3, <1>4 DEF ProjectInTransaction
<1>9. /\ cursor'[p] \in Nat /\ cursor'[p] <= Len(k)
      /\ \A m \in (cursor'[p] + 1)..Len(k) : ~Handles(p, k[m].kind)
  <2>1. CASE p \in Snapshot
    BY <1>2, <2>1
  <2>2. CASE p \notin Snapshot
    <3>1. \A n : p \in Advanced(n) <=> Handles(p, n)
      BY <2>2 DEF Hot, Snapshot, Advanced, Handles
    <3>2. /\ cursor[p] <= Len(log)
          /\ \A m \in (cursor[p] + 1)..Len(log) : ~Handles(p, k[m].kind)
      BY <1>2, <1>3 DEF HotTableInv, Exact, Passed
    <3>3. CASE M = {}
      <4>1. \A m \in (Len(log) + 1)..Len(k) : ~Handles(p, k[m].kind)
        BY <3>1, <3>3
      <4> QED BY <1>2, <1>3, <1>8, <3>2, <3>3, <4>1
    <3>4. CASE M # {}
      <4>1. M \subseteq (Len(log) + 1)..Len(k) /\ Len(log) + 1 \in Nat
        BY <1>2
      <4>2. L \in M /\ \A m \in M : m <= L
        <5>1. \E n \in M : \A m \in M : m <= n
          <6> HIDE DEF M
          <6> QED BY <1>2, <3>4, <4>1, GreatestInInterval
        <5> HIDE DEF M
        <5> QED BY <5>1
      <4>3. PICK c \in (Len(log) + 1)..Len(k) : c = cursor'[p] /\ \A m \in M : m <= c
        <5> HIDE DEF M, L
        <5> QED BY <1>8, <3>4, <4>1, <4>2
      <4>4. \A m \in (c + 1)..Len(k) : m \notin M /\ m \in (Len(log) + 1)..Len(k)
        <5> HIDE DEF M, L
        <5> QED BY <1>2, <4>3, <4>1
      <4>5. \A m \in (c + 1)..Len(k) : ~Handles(p, k[m].kind)
        BY <3>1, <4>4
      <4> QED BY <1>2, <4>3, <4>5
    <3> QED BY <3>3, <3>4
  <2> QED BY <2>1, <2>2
<1>10. Handled(k, p, 0, Len(k)) = Handled(k, p, 0, cursor'[p])
  BY <1>2, <1>9, HandledSkip
<1>11. QED BY <1>1, <1>7, <1>9, <1>10 DEF Exact, Passed

-----------------------------------------------------------------------------
(* The shell table                                                         *)

\* No repair drops the rows of a table and replays others over theirs.
NoRepairRuns == repair.pc # "running"

\* The shell table, which is projected after the commit, is exact; it lacks an
\* event only while the worker still has to project it, while the dirty flag
\* says so, or until the bootstrap of the next start has replayed it.
ShellInv ==
  /\ Exact("shell")
  /\ worker.pc \in {"install", "deferred"} =>
       /\ worker.last = Len(log) /\ worker.next <= Len(log) + 1
       /\ cursor["shell"] < worker.next
       /\ dirty \/ Passed("shell", worker.next - 1)
  /\ worker.pc \in {"bootstrap", "down", "install", "deferred"}
       \/ dirty \/ Passed("shell", Len(log))
  /\ catchUp # "idle" => dirty
  /\ boot.pc = "done" => Passed("shell", Len(log))

\* A replay goes on right behind the last event that its projector handled.
PageInv ==
  boot.pc = "replaying" =>
    /\ cursor[BootOrder[boot.idx]] < boot.next
    /\ boot.next <= boot.stop + 1
    /\ boot.stop <= Len(log)
    /\ Passed(BootOrder[boot.idx], boot.next - 1)
    /\ boot.idx = 4 => \A n \in DOMAIN log : log[n].kind = "summary" => n <= boot.stop

\* The shell table handles summaries only.
LEMMA HandlesShell == \A k : Handles("shell", k) <=> k = "summary"
BY DEF Handles

\* The page that the replay of the i-th projector reads starts at its cursor.
LEMMA PageOf ==
  ASSUME TypeOK, HotTableInv, Exact("shell"), NEW i \in 1..4,
         i = 4 => \A n \in DOMAIN log : log[n].kind = "summary" => n <= cursor["shell"] + ReadLimit,
         boot' = BootAt(i, cursor), UNCHANGED <<log, rows, cursor>>
  PROVE  PageInv' /\ boot'.pc = "replaying"
<1> USE CursorFacts
<1>1. PICK p \in Projectors : p = BootOrder[i]
  BY BootOrderIs DEF Projectors
<1>2. cursor[p] \in Nat /\ cursor[p] <= Len(log)
  BY DEF HotTableInv, Exact, Hot, Projectors
<1>3. boot' = [pc |-> "replaying", idx |-> i, next |-> cursor[p] + 1, stop |-> EndOfPage(cursor[p])]
  BY <1>1, BootOrderLength DEF BootAt
<1>4. /\ EndOfPage(cursor[p]) \in Nat /\ EndOfPage(cursor[p]) <= Len(log)
      /\ cursor[p] <= EndOfPage(cursor[p])
      /\ EndOfPage(cursor[p]) = cursor[p] + ReadLimit \/ EndOfPage(cursor[p]) = Len(log)
  BY <1>2, ReadLimitAssumption DEF EndOfPage
<1>5. PICK e \in Nat : /\ e = EndOfPage(cursor[p]) /\ e <= Len(log) /\ cursor[p] <= e
                       /\ e = cursor[p] + ReadLimit \/ e = Len(log)
  BY <1>4
<1>6. /\ boot'.pc = "replaying" /\ boot'.idx = i /\ boot'.next = cursor[p] + 1 /\ boot'.stop = e
  BY <1>3, <1>5
<1>7. i = 4 => \A n \in DOMAIN log : log[n].kind = "summary" => n <= e
  BY <1>1, <1>5, BootOrderIs
<1>8. Passed(p, cursor[p])
  BY <1>2 DEF Passed
<1>9. /\ cursor'[BootOrder[boot'.idx]] < boot'.next /\ boot'.next <= boot'.stop + 1
      /\ boot'.stop <= Len(log')
  BY <1>1, <1>2, <1>5, <1>6
<1>10. Passed(BootOrder[boot.idx], boot.next - 1)'
  BY <1>1, <1>2, <1>6, <1>8 DEF Passed
<1>11. QED BY <1>6, <1>7, <1>9, <1>10 DEF PageInv

\* After the events up to c, n is the next that p can handle.
LEMMA HandledNext ==
  ASSUME NEW l, NEW p, NEW c \in Nat, NEW n \in Nat, c < n,
         \A m \in (c + 1)..(n - 1) : ~Handles(p, l[m].kind)
  PROVE  /\ Handles(p, l[n].kind) => Handled(l, p, 0, n) = Append(Handled(l, p, 0, c), n)
         /\ ~Handles(p, l[n].kind) => Handled(l, p, 0, n) = Handled(l, p, 0, c)
<1>1. PICK h \in Nat : n = h + 1 /\ n - 1 = h /\ 0 <= c /\ c <= h /\ 0 <= h
  <2>1. n - 1 \in Nat /\ n = (n - 1) + 1
    OBVIOUS
  <2> QED BY <2>1
<1>2. Handled(l, p, 0, h) = Handled(l, p, 0, c)
  BY <1>1, HandledSkip
<1>3. Handled(l, p, 0, h + 1) = IF Handles(p, l[h + 1].kind)
                                 THEN Append(Handled(l, p, 0, h), h + 1)
                                 ELSE Handled(l, p, 0, h)
  <2>1. 0 \in Nat /\ h \in Nat /\ 0 <= h
    BY <1>1
  <2> QED BY <2>1, HandledSteps, Zenon
<1>4. QED
  <2>1. PICK s : s = Handled(l, p, 0, h + 1)
    OBVIOUS
  <2>2. s = IF Handles(p, l[h + 1].kind) THEN Append(Handled(l, p, 0, c), h + 1)
                                         ELSE Handled(l, p, 0, c)
    BY <1>2, <1>3, <2>1, Zenon
  <2> QED BY <1>1, <2>1, <2>2

\* What holds of the tables in every state.
TableIInv == HotTableInv /\ ShellInv /\ PageInv

\* One event replayed keeps every table exact and the replay behind it.
LEMMA ReplayedTables ==
  ASSUME TypeOK, ReplayInv, TableIInv, BootReplayEvent, log' = log
  PROVE  /\ HotTableInv' /\ Exact("shell")' /\ PageInv'
         /\ Passed("shell", Len(log)) => Passed("shell", Len(log))'
<1> USE CursorFacts
<1>1. PICK p \in Projectors, n \in Nat :
        /\ p = BootOrder[boot.idx] /\ n = boot.next
        /\ boot.idx \in 1..4 /\ boot.pc = "replaying"
        /\ boot'.pc = boot.pc /\ boot'.idx = boot.idx /\ boot'.stop = boot.stop
        /\ boot'.next = n + 1
        /\ \A q \in Projectors : q # p => cursor'[q] = cursor[q] /\ rows'[q] = rows[q]
        /\ rows'[p] = IF Handles(p, log[n].kind) THEN Append(rows[p], n) ELSE rows[p]
  BY ReplayedEvent
<1>2. /\ n <= boot.stop
      /\ cursor' = IF ShouldApply(p, log[n].kind) \/ n = boot.stop
                   THEN [cursor EXCEPT ![p] = n] ELSE cursor
  BY <1>1 DEF BootReplayEvent
<1>3. PICK c \in Nat : c = cursor[p]
  OBVIOUS
<1>4. c < n /\ boot.stop <= Len(log) /\ \A m \in (c + 1)..(n - 1) : ~Handles(p, log[m].kind)
  BY <1>1, <1>3 DEF TableIInv, PageInv, Passed
<1>5. /\ rows[p] = Handled(log, p, 0, c)
      /\ p \in Hot => \A m \in (c + 1)..Len(log) : ~Handles(p, log[m].kind)
  BY <1>3 DEF TableIInv, HotTableInv, ShellInv, Exact, Hot, Projectors, Passed
<1>6. PICK e \in Nat :
        e = cursor'[p] /\ (e = n \/ (e = c /\ ~ShouldApply(p, log[n].kind) /\ n # boot.stop))
  BY <1>2, <1>3
<1>7. e <= n /\ c <= e /\ (e # n => ~Handles(p, log[n].kind))
  BY <1>4, <1>6, HandlesShell DEF ShouldApply
<1>8. boot.stop \in Nat /\ n <= Len(log)
  BY <1>2, <1>4 DEF Replays
<1>9. rows'[p] = Handled(log, p, 0, e)
  <2>1. /\ Handles(p, log[n].kind) => Handled(log, p, 0, n) = Append(Handled(log, p, 0, c), n)
        /\ ~Handles(p, log[n].kind) => Handled(log, p, 0, n) = Handled(log, p, 0, c)
    BY <1>4, HandledNext
  <2>2. CASE Handles(p, log[n].kind)
    <3>1. rows'[p] = Append(Handled(log, p, 0, c), n)
      BY <1>1, <1>5, <2>2
    <3> QED BY <1>6, <1>7, <2>1, <2>2, <3>1
  <2>3. CASE ~Handles(p, log[n].kind)
    <3>1. rows'[p] = Handled(log, p, 0, c)
      BY <1>1, <1>5, <2>3
    <3> QED BY <1>6, <2>1, <2>3, <3>1
  <2> QED BY <2>2, <2>3
<1>10. Exact(p)'
  BY <1>6, <1>7, <1>8, <1>9 DEF Exact
<1>11. \A q \in Projectors : q # p => Exact(q)' /\ (Passed(q, Len(log))' <=> Passed(q, Len(log)))
  BY <1>1 DEF TableIInv, HotTableInv, ShellInv, Exact, Passed, Hot, Projectors
<1>12. Passed(p, Len(log)) => Passed(p, Len(log))'
  BY <1>3, <1>6, <1>7 DEF Passed
<1>13. HotTableInv'
  BY <1>10, <1>11, <1>12 DEF HotTableInv, TableIInv, Hot, Projectors
<1>14. PageInv'
  <2>1. boot'.pc = "replaying" => boot'.next <= boot'.stop + 1 /\ boot'.stop <= Len(log')
    BY <1>1, <1>2, <1>4, <1>8
  <2>2. e < n + 1 /\ \A m \in (e + 1)..n : ~Handles(p, log[m].kind)
    BY <1>4, <1>6, <1>7
  <2>3. cursor'[BootOrder[boot'.idx]] < boot'.next /\ Passed(BootOrder[boot.idx], boot.next - 1)'
    BY <1>1, <1>6, <2>2 DEF Passed
  <2> QED BY <1>1, <2>1, <2>3 DEF PageInv, TableIInv
<1>15. QED BY <1>10, <1>11, <1>12, <1>13, <1>14 DEF Projectors

\* Which steps touch what the tables depend on; the others leave it alone.
LEMMA WorkerMoves ==
  ASSUME TypeOK, Next, InterruptAt \cap {"install", "deferred"} = {}
  PROVE  \/ UNCHANGED <<projectionVars, log, dirty, catchUp, worker>>
         \/ /\ UNCHANGED <<projectionVars, log, dirty, catchUp>>
            /\ worker.pc \notin {"install", "deferred", "bootstrap", "down"}
            /\ worker'.pc \notin {"install", "deferred", "bootstrap", "down"}
         \/ InstallReadModel \/ DeferredDone
         \/ Commit \/ ProjectNextDeferred \/ Replay \/ BeginCatchUp \/ EndCatchUp
         \/ ResetProjects \/ RefreshReadModel \/ RestoreBackup
         \/ Crash \/ Restart \/ FinishStart
<1>0. worker \in Workers
  BY DEF TypeOK
<1>1. CASE Clients \/ RequestRepair \/ FailRepair
  BY <1>1 DEF Clients, Submit, DeadlinePasses, Abandon, RequestRepair, FailRepair,
              storeVars, clientVars
<1>2. CASE Take
  BY <1>0, <1>2 DEF Take, Workers, storeVars
<1>3. CASE AcquireLock \/ NoReceiptYet \/ PublishNext \/ Reconcile
  <2>1. UNCHANGED <<projectionVars, log, dirty, catchUp>>
    BY <1>3 DEF AcquireLock, NoReceiptYet, PublishNext, Reconcile, storeVars
  <2> QED BY <1>0, <1>3, <2>1 DEF AcquireLock, NoReceiptYet, PublishNext, Reconcile, Goto, Workers
<1>4. CASE Start
  <2>1. Abort("timeout") \/ Goto("receipt")
    BY <1>4 DEF Start
  <2> QED BY <1>0, <1>4, <2>1 DEF Start, Abort, Goto, Workers, storeVars
<1>5. CASE SkipAbandoned \/ ReplayReceipt \/ Succeed \/ SettleByReceipt \/ SettleRejected
           \/ SettleFailed
  <2>1. UNCHANGED <<projectionVars, log, dirty, catchUp>>
    BY <1>5 DEF SkipAbandoned, ReplayReceipt, Succeed, SettleByReceipt, SettleRejected,
                SettleFailed, storeVars
  <2>2. worker' = Idle /\ worker.pc \in {"start", "receipt", "publish", "settle"}
    BY <1>5 DEF SkipAbandoned, ReplayReceipt, Succeed, SettleByReceipt, SettleRejected,
                SettleFailed, Answer
  <2> QED BY <2>1, <2>2 DEF Idle
<1>6. CASE RejectCommand \/ RefuseEmptyCommand \/ FailBeforeCommit \/ Interrupt
  <2>1. UNCHANGED <<projectionVars, log, dirty, catchUp>>
    BY <1>6 DEF RejectCommand, RefuseEmptyCommand, FailBeforeCommit, Interrupt, storeVars
  <2>2. worker.pc \in {"receipt", "decide", "publish"}
    BY <1>6, EngineAssumption
    DEF RejectCommand, RefuseEmptyCommand, FailBeforeCommit, Interrupt, TimedStates
  <2>3. PICK err : Abort(err)
    BY <1>6 DEF RejectCommand, RefuseEmptyCommand, FailBeforeCommit, Interrupt
  <2> QED BY <1>0, <2>1, <2>2, <2>3 DEF Abort, Workers
<1>7. QED BY <1>1, <1>2, <1>3, <1>4, <1>5, <1>6 DEF Next, WorkerStep

\* Every step keeps it. A summary is projected once: by the worker, when the
\* table has all summaries before it, or by a replay that starts at the cursor.
LEMMA TableIInvStep ==
  ASSUME TypeOK, TypeOK', WorkerInv, LockInv, ReplayInv, TableIInv, Next,
         NoRepairRuns, NoRepairRuns', ReplayReachesShell,
         InterruptAt \cap {"install", "deferred"} = {}
  PROVE  TableIInv'
<1> USE CursorFacts
<1>0. /\ worker \in Workers /\ repair \in Repairs /\ "shell" \in Projectors
      /\ cursor["shell"] \in Nat /\ catchUp \in {"idle", "waiting", "running"}
      /\ worker.first \in Nat /\ worker.next \in Nat /\ worker.last \in Nat
  BY WorkerFields DEF TypeOK, Projectors
<1> DEFINE Tables == HotTableInv /\ Exact("shell") /\ PageInv
<1>1. ASSUME UNCHANGED <<projectionVars, log>>
      PROVE  Tables' /\ \A n : Passed("shell", n)' <=> Passed("shell", n)
  BY <1>1 DEF TableIInv, HotTableInv, ShellInv, PageInv, Exact, Passed, projectionVars
<1> HIDE DEF Tables
<1>2. CASE UNCHANGED <<projectionVars, log, dirty, catchUp, worker>>
  <2>1. Tables' /\ \A n : Passed("shell", n)' <=> Passed("shell", n)
    BY <1>1, <1>2
  <2>2. ShellInv'
    BY <1>2, <2>1 DEF Tables, TableIInv, ShellInv, projectionVars
  <2> QED BY <2>1, <2>2 DEF Tables, TableIInv
<1>3. CASE /\ UNCHANGED <<projectionVars, log, dirty, catchUp>>
           /\ worker.pc \notin {"install", "deferred", "bootstrap", "down"}
           /\ worker'.pc \notin {"install", "deferred", "bootstrap", "down"}
  <2>1. Tables' /\ \A n : Passed("shell", n)' <=> Passed("shell", n)
    BY <1>1, <1>3
  <2>2. ShellInv'
    BY <1>3, <2>1 DEF Tables, TableIInv, ShellInv, projectionVars
  <2> QED BY <2>1, <2>2 DEF Tables, TableIInv
<1>4. CASE InstallReadModel \/ DeferredDone
  <2>1. UNCHANGED <<projectionVars, log, dirty, catchUp>>
    BY <1>4 DEF InstallReadModel, DeferredDone, storeVars
  <2>2. \/ /\ worker.pc = "install" /\ worker'.pc = "deferred"
           /\ worker'.next = worker.next /\ worker'.last = worker.last
        \/ worker.pc = "deferred" /\ worker'.pc = "publish" /\ worker.next > worker.last
    BY <1>0, <1>4 DEF InstallReadModel, DeferredDone, Goto, Workers
  <2>3. Tables' /\ \A n : Passed("shell", n)' <=> Passed("shell", n)
    BY <1>1, <2>1
  <2>4. worker.pc = "deferred" /\ worker.next > worker.last => worker.next - 1 = Len(log)
    BY <1>0 DEF TableIInv, ShellInv
  <2>5. ShellInv'
    <3>1. CASE worker.pc = "install" /\ worker'.pc = "deferred"
               /\ worker'.next = worker.next /\ worker'.last = worker.last
      BY <1>0, <2>1, <2>3, <3>1 DEF Tables, TableIInv, ShellInv, projectionVars
    <3>2. CASE worker.pc = "deferred" /\ worker'.pc = "publish" /\ worker.next > worker.last
      <4>1. dirty \/ Passed("shell", Len(log))
        BY <2>4, <3>2 DEF TableIInv, ShellInv
      <4> QED BY <2>1, <2>3, <3>2, <4>1 DEF Tables, TableIInv, ShellInv, projectionVars
    <3> QED BY <2>2, <3>1, <3>2
  <2> QED BY <2>3, <2>5 DEF Tables, TableIInv
<1>5. CASE Commit
  <2>1. /\ Len(log') \in Nat /\ Len(log) < Len(log')
        /\ \A n \in 1..Len(log) : log'[n] = log[n]
    BY <1>5, CommitEffect
  <2>2. /\ UNCHANGED <<boot, dirty, catchUp>> /\ worker.pc = "decide" /\ worker'.pc = "install"
        /\ worker'.last = Len(log') /\ worker'.next = Len(log) + 1
    BY <1>0, <1>5 DEF Commit, Workers
  <2>3. boot.pc = "off"
    BY <2>2 DEF LockInv, Executing
  <2>4. cursor'["shell"] = cursor["shell"] /\ rows'["shell"] = rows["shell"]
    <3>1. PICK k : k = log'
      OBVIOUS
    <3>2. ProjectInTransaction(k) /\ "shell" \notin Hot /\ \A e : "shell" \notin Advanced(e)
      BY <1>5, <3>1 DEF Commit, Hot, Snapshot, Advanced
    <3> QED BY <1>0, <3>2 DEF ProjectInTransaction
  <2>5. Exact("shell")'
    <3>1. cursor["shell"] <= Len(log) /\ rows["shell"] = Handled(log, "shell", 0, cursor["shell"])
      BY DEF TableIInv, ShellInv, Exact
    <3>2. Handled(log', "shell", 0, cursor["shell"]) = Handled(log, "shell", 0, cursor["shell"])
      <4>1. PICK k : k = log'
        OBVIOUS
      <4>2. \A n \in (0 + 1)..cursor["shell"] : k[n] = log[n]
        BY <1>0, <2>1, <3>1, <4>1
      <4> QED BY <1>0, <4>1, <4>2, HandledPrefix
    <3> QED BY <1>0, <2>1, <2>4, <3>1, <3>2 DEF Exact
  <2>6. HotTableInv'
    BY <1>5, CommittedTable DEF TableIInv, HotTableInv
  <2>7. dirty \/ Passed("shell", Len(log))
    BY <2>2 DEF TableIInv, ShellInv
  <2>8. Passed("shell", Len(log)) => Passed("shell", worker.next - 1)'
    <3>1. Len(log) + 1 - 1 = Len(log)
      BY <1>0
    <3>2. \A m \in (cursor["shell"] + 1)..Len(log) : m \in 1..Len(log)
      BY <1>0
    <3> QED BY <2>1, <2>2, <2>4, <3>1, <3>2 DEF Passed
  <2>9. ShellInv'
    <3>1. cursor["shell"] <= Len(log)
      BY DEF TableIInv, ShellInv, Exact
    <3> QED BY <1>0, <2>1, <2>2, <2>3, <2>4, <2>5, <2>7, <2>8, <3>1 DEF TableIInv, ShellInv
  <2> QED BY <2>2, <2>3, <2>6, <2>9 DEF TableIInv, PageInv
<1>6. CASE ProjectNextDeferred
  <2>1. PICK n \in Nat : n = worker.next
    BY <1>0
  <2>2. /\ worker.pc = "deferred" /\ n <= worker.last /\ worker'.next = n + 1
        /\ worker'.pc = "deferred" /\ worker'.last = worker.last
        /\ UNCHANGED <<boot, log>>
    BY <1>0, <1>6, <2>1 DEF ProjectNextDeferred, Workers, storeVars
  <2>3. /\ worker.last = Len(log) /\ cursor["shell"] < n
        /\ dirty \/ Passed("shell", n - 1)
        /\ boot.pc = "off"
    BY <2>1, <2>2 DEF TableIInv, ShellInv, LockInv, Executing
  <2>4. CASE UNCHANGED <<rows, cursor>> /\ (dirty' \/ (~dirty /\ log[n].kind # "summary"))
             /\ (catchUp' # "idle" => dirty') /\ (dirty' = dirty \/ dirty')
    <3>1. Tables' /\ \A k : Passed("shell", k)' <=> Passed("shell", k)
      BY <1>1, <2>2, <2>4 DEF projectionVars
    <3>2. dirty' \/ Passed("shell", n)
      <4>1. ~dirty /\ log[n].kind # "summary" => Passed("shell", n)
        BY <1>0, <2>3, HandlesShell DEF Passed
      <4> QED BY <2>4, <4>1
    <3>3. cursor'["shell"] < n + 1 /\ (n + 1) - 1 = n /\ n + 1 <= Len(log) + 1
      BY <1>0, <2>2, <2>3, <2>4
    <3>4. ShellInv'
      BY <2>2, <2>3, <2>4, <3>1, <3>2, <3>3 DEF Tables, ShellInv
    <3> QED BY <3>1, <3>4 DEF Tables, TableIInv
  <2>5. CASE /\ log[n].kind = "summary" /\ ~dirty /\ dirty' = dirty /\ catchUp' = catchUp
             /\ rows' = [rows EXCEPT !["shell"] = Append(@, n)]
             /\ cursor' = [cursor EXCEPT !["shell"] = n]
    <3>1. \A p \in Hot : p \in Projectors /\ p # "shell"
      BY DEF Hot, Projectors
    <3>2. \A p \in Hot : cursor'[p] = cursor[p] /\ rows'[p] = rows[p]
      BY <2>5, <3>1
    <3>3. HotTableInv'
      BY <2>2, <3>2 DEF TableIInv, HotTableInv, Exact, Passed
    <3>4. cursor'["shell"] = n /\ rows'["shell"] = Append(rows["shell"], n)
      BY <1>0, <2>5 DEF TypeOK, ProjectionTypeOK
    <3>5. Exact("shell")'
      <4>1. rows["shell"] = Handled(log, "shell", 0, cursor["shell"])
            /\ \A m \in (cursor["shell"] + 1)..(n - 1) : ~Handles("shell", log[m].kind)
        BY <2>3, <2>5 DEF TableIInv, ShellInv, Exact, Passed
      <4>2. Handles("shell", log[n].kind)
        BY <2>5, HandlesShell
      <4>3. Handled(log, "shell", 0, n) = Append(Handled(log, "shell", 0, cursor["shell"]), n)
        <5>1. PICK c \in Nat : c = cursor["shell"]
          BY <1>0
        <5>2. c < n /\ \A m \in (c + 1)..(n - 1) : ~Handles("shell", log[m].kind)
          BY <2>3, <4>1, <5>1
        <5>3. /\ Handles("shell", log[n].kind) =>
                   Handled(log, "shell", 0, n) = Append(Handled(log, "shell", 0, c), n)
              /\ ~Handles("shell", log[n].kind) =>
                   Handled(log, "shell", 0, n) = Handled(log, "shell", 0, c)
          BY <5>2, HandledNext
        <5> QED BY <4>2, <5>1, <5>3
      <4> QED BY <2>2, <2>3, <3>4, <4>1, <4>3 DEF Exact
    <3>6. Passed("shell", worker.next - 1)'
      BY <2>2, <3>4 DEF Passed
    <3>7. n < n + 1 /\ n + 1 <= Len(log) + 1 /\ catchUp = "idle"
      BY <2>2, <2>3, <2>5 DEF TableIInv, ShellInv
    <3>8. ShellInv'
      BY <2>2, <2>3, <2>5, <3>4, <3>5, <3>6, <3>7 DEF ShellInv
    <3> QED BY <2>2, <2>3, <3>3, <3>8 DEF TableIInv, PageInv
  <2>6. \/ /\ log[n].kind = "project" /\ UNCHANGED <<rows, cursor, dirty, catchUp>>
        \/ /\ dirty /\ UNCHANGED <<rows, cursor, dirty>>
        \/ /\ log[n].kind # "project" /\ ~dirty /\ ProjectDeferred(n)
           /\ UNCHANGED <<dirty, catchUp>>
        \/ dirty' /\ UNCHANGED <<rows, cursor>>
    BY <1>6, <2>1 DEF ProjectNextDeferred
  <2>7. log[n].kind # "summary" /\ ProjectDeferred(n) => UNCHANGED <<rows, cursor>>
    BY DEF ProjectDeferred, ShouldApply
  <2>8. log[n].kind = "summary" /\ ProjectDeferred(n) =>
          /\ rows' = [rows EXCEPT !["shell"] = Append(@, n)]
          /\ cursor' = [cursor EXCEPT !["shell"] = n]
    BY DEF ProjectDeferred, ShouldApply
  <2>9. catchUp # "idle" => dirty
    BY DEF TableIInv, ShellInv
  <2> QED BY <2>4, <2>5, <2>6, <2>7, <2>8, <2>9
<1>7. CASE Replay
  <2>1. UNCHANGED <<log, worker, dirty, catchUp>> /\ boot.pc = "replaying"
    BY <1>7 DEF Replay, storeVars, BootReplayEvent, BootNextProjector, BootFail
  <2>2. worker.pc \notin {"install", "deferred"}
    BY <2>1 DEF LockInv, Executing
  <2>3. CASE BootReplayEvent
    <3>1. /\ HotTableInv' /\ Exact("shell")' /\ PageInv' /\ boot'.pc = "replaying"
          /\ Passed("shell", Len(log)) => Passed("shell", Len(log))'
      BY <2>1, <2>3, ReplayedTables, ReplayedEvent
    <3>2. ShellInv'
      BY <2>1, <2>2, <3>1 DEF TableIInv, ShellInv
    <3> QED BY <3>1, <3>2 DEF TableIInv
  <2>4. CASE BootNextProjector
    <3>1. /\ boot.idx \in 1..4 /\ boot.next > boot.stop /\ boot' = BootAt(boot.idx + 1, cursor)
          /\ UNCHANGED <<rows, cursor, log>>
      BY <2>1, <2>4 DEF BootNextProjector, ReplayInv
    <3>2. HotTableInv' /\ Exact("shell")' /\ \A k : Passed("shell", k)' <=> Passed("shell", k)
      BY <3>1 DEF TableIInv, HotTableInv, ShellInv, Exact, Passed
    <3>3. CASE boot.idx = 4
      <4>1. boot'.pc = "done"
        BY <3>1, <3>3, BootOrderLength DEF BootAt, NotBooting
      <4>2. Passed("shell", Len(log))
        <5>1. /\ \A n \in DOMAIN log : log[n].kind = "summary" => n <= boot.stop
              /\ Passed("shell", boot.next - 1) /\ boot.stop <= Len(log)
          BY <2>1, <3>3, BootOrderIs DEF TableIInv, PageInv
        <5>2. boot.stop \in Nat /\ boot.next \in Nat
          BY DEF Replays
        <5>3. PICK c \in Nat : c = cursor["shell"]
          BY <1>0
        <5>4. PICK k \in Nat : k = Len(log)
          BY <1>0
        <5>5. \A n \in (c + 1)..(boot.next - 1) : ~Handles("shell", log[n].kind)
          BY <5>1, <5>3 DEF Passed
        <5>6. ASSUME NEW n \in (c + 1)..k
              PROVE  ~Handles("shell", log[n].kind)
          <6>1. CASE n <= boot.next - 1
            BY <5>2, <5>5, <6>1
          <6>2. CASE ~(n <= boot.next - 1)
            <7>1. n > boot.stop /\ n \in DOMAIN log
              BY <3>1, <5>2, <5>4, <6>2
            <7> QED BY <5>1, <5>2, <7>1, HandlesShell
          <6> QED BY <6>1, <6>2
        <5> QED BY <5>3, <5>4, <5>6 DEF Passed
      <4>3. ShellInv'
        BY <2>1, <2>2, <3>1, <3>2, <4>1, <4>2 DEF TableIInv, ShellInv
      <4> QED BY <3>2, <4>1, <4>3 DEF TableIInv, PageInv
    <3>4. CASE boot.idx # 4
      <4>1. boot.idx + 1 \in 1..4
        BY <3>1, <3>4
      <4>2. PageInv' /\ boot'.pc = "replaying"
        BY <2>1, <3>1, <4>1, PageOf DEF TableIInv, ShellInv, ReplayReachesShell
      <4>3. ShellInv'
        BY <2>1, <2>2, <3>1, <3>2, <4>2 DEF TableIInv, ShellInv
      <4> QED BY <3>2, <4>2, <4>3 DEF TableIInv
    <3> QED BY <3>3, <3>4
  <2>5. CASE BootFail
    <3>1. UNCHANGED <<rows, cursor>> /\ boot'.pc = "failed"
      BY <2>5 DEF BootFail, NotBooting
    <3>2. HotTableInv' /\ Exact("shell")' /\ \A k : Passed("shell", k)' <=> Passed("shell", k)
      BY <2>1, <3>1 DEF TableIInv, HotTableInv, ShellInv, Exact, Passed
    <3> QED BY <2>1, <2>2, <3>1, <3>2 DEF TableIInv, ShellInv, PageInv
  <2> QED BY <1>7, <2>3, <2>4, <2>5 DEF Replay
<1>8. CASE BeginCatchUp \/ Restart
  <2>1. /\ UNCHANGED <<log, rows, cursor, dirty>> /\ boot' = BootAt(1, cursor)
        /\ \/ UNCHANGED worker /\ catchUp = "waiting" /\ lock = "free"
           \/ worker'.pc = "bootstrap" /\ catchUp' = catchUp
    BY <1>8 DEF BeginCatchUp, Restart, storeVars, Starting, Idle
  <2>2. HotTableInv' /\ Exact("shell")' /\ \A k : Passed("shell", k)' <=> Passed("shell", k)
    BY <2>1 DEF TableIInv, HotTableInv, ShellInv, Exact, Passed
  <2>3. PageInv' /\ boot'.pc = "replaying"
    BY <2>1, PageOf DEF TableIInv, ShellInv
  <2>4. ShellInv'
    BY <2>1, <2>2, <2>3 DEF TableIInv, ShellInv
  <2> QED BY <2>2, <2>3, <2>4 DEF TableIInv
<1>9. CASE EndCatchUp
  <2>1. /\ UNCHANGED <<log, rows, cursor, worker>>
        /\ boot'.pc = "off" /\ boot.pc \in {"done", "failed"}
        /\ catchUp' = "idle" /\ dirty' = (boot.pc = "failed" /\ dirty) /\ lock = "catchUp"
    BY <1>9 DEF EndCatchUp, storeVars, NotBooting, LockInv
  <2>2. HotTableInv' /\ Exact("shell")' /\ \A k : Passed("shell", k)' <=> Passed("shell", k)
    BY <2>1 DEF TableIInv, HotTableInv, ShellInv, Exact, Passed
  <2>3. worker.pc \notin {"install", "deferred"}
    BY <2>1 DEF LockInv, Executing
  <2>4. dirty' \/ Passed("shell", Len(log)) \/ worker.pc \in {"bootstrap", "down"}
    BY <2>1, <2>3 DEF TableIInv, ShellInv
  <2>5. ShellInv'
    BY <2>1, <2>2, <2>3, <2>4 DEF ShellInv
  <2> QED BY <2>1, <2>2, <2>5 DEF TableIInv, PageInv
<1>10. CASE ResetProjects \/ RefreshReadModel \/ RestoreBackup
  BY <1>0, <1>10 DEF ResetProjects, RefreshReadModel, RestoreBackup, NoRepairRuns
<1>11. CASE Crash
  <2>1. /\ UNCHANGED <<log, rows, cursor>>
        /\ boot'.pc = "off" /\ worker'.pc = "down" /\ catchUp' = "idle"
    BY <1>11 DEF Crash, storeVars, NotBooting, Down, Idle
  <2>2. HotTableInv' /\ Exact("shell")'
    BY <2>1 DEF TableIInv, HotTableInv, ShellInv, Exact, Passed
  <2> QED BY <2>1, <2>2 DEF TableIInv, ShellInv, PageInv
<1>12. CASE FinishStart
  <2>1. /\ UNCHANGED <<log, rows, cursor, catchUp, dirty>> /\ boot'.pc = "off"
        /\ \/ boot.pc = "done" /\ worker'.pc = "take"
           \/ worker'.pc = "down"
    BY <1>12 DEF FinishStart, storeVars, NotBooting, Down, Idle
  <2>2. HotTableInv' /\ Exact("shell")' /\ \A k : Passed("shell", k)' <=> Passed("shell", k)
    BY <2>1 DEF TableIInv, HotTableInv, ShellInv, Exact, Passed
  <2> QED BY <2>1, <2>2 DEF TableIInv, ShellInv, PageInv
<1>13. QED
  BY WorkerMoves, <1>2, <1>3, <1>4, <1>5, <1>6, <1>7, <1>8, <1>9, <1>10, <1>11, <1>12

\* It always holds.
LEMMA TableInvariance ==
  ASSUME InterruptAt \cap {"install", "deferred"} = {}
  PROVE  Spec /\ []NoRepairRuns /\ []ReplayReachesShell => [](ReplayIInv /\ TableIInv)
<1>1. NoRepairRuns => RepairsFitPage
  BY DEF NoRepairRuns, RepairsFitPage
<1>2. Init => TableIInv
  <2> SUFFICES ASSUME Init PROVE TableIInv
    OBVIOUS
  <2>1. \A p : Handled(<<>>, p, 0, 0) = <<>>
    BY HandledSteps
  <2>2. /\ log = <<>> /\ Len(<<>>) = 0 /\ boot.pc = "off" /\ worker.pc = "take" /\ catchUp = "idle"
        /\ \A p \in Projectors : cursor[p] = 0 /\ rows[p] = <<>>
    BY DEF Init, Idle, NotBooting
  <2>3. \A p \in Projectors : Exact(p) /\ Passed(p, Len(log))
    BY <2>1, <2>2 DEF Exact, Passed
  <2> QED BY <2>2, <2>3 DEF TableIInv, HotTableInv, ShellInv, PageInv, Projectors, Hot
<1>3. ReplayIInv /\ ReplayIInv' /\ TableIInv /\ Next /\ NoRepairRuns /\ NoRepairRuns'
        /\ ReplayReachesShell => TableIInv'
  BY TableIInvStep DEF ReplayIInv, IInv
<1>4. TableIInv /\ UNCHANGED vars => TableIInv'
  BY DEF TableIInv, HotTableInv, ShellInv, PageInv, Exact, Passed,
         vars, projectionVars, storeVars, clientVars, memoryVars
<1>5. ReplayIInv /\ ReplayIInv' /\ TableIInv /\ [Next]_vars /\ NoRepairRuns /\ NoRepairRuns'
        /\ ReplayReachesShell => TableIInv'
  BY <1>3, <1>4
<1>6. []NoRepairRuns => []RepairsFitPage
  BY <1>1, PTL
<1>7. QED BY ReplayInvariance, <1>2, <1>5, <1>6, PTL DEF Spec

\* Every projection table is what its events, each applied once and in order,
\* make of it, through failed projections, catch-ups, timeouts before the commit
\* and while publishing, crashes and restarts (ProjectionPipeline.bootstrap,
\* projectEvent). The hypotheses: no repair runs, which replays messages over the
\* rows that are there; a replay reaches the last summary; and no timeout strikes
\* between commit and deferred projection, where nothing sets the dirty flag.
THEOREM TablesStayExact ==
  ASSUME InterruptAt \cap {"install", "deferred"} = {}
  PROVE  Spec /\ []NoRepairRuns /\ []ReplayReachesShell => []TablesExact
<1>1. TableIInv => TablesExact
  BY DEF TableIInv, HotTableInv, ShellInv, Exact, TablesExact, TableExact, Projectors, Hot
<1>2. QED BY TableInvariance, <1>1, PTL

-----------------------------------------------------------------------------
(* Publishing and the read model                                           *)

\* The read model has applied every thread event of the log once, in order.
ThreadsExact == readModel.threads = Handled(log, "messages", 0, Len(log))

\* Between commands and while one is decided it has the whole log; when a
\* failure is reconciled too, as nothing failed after its commit. So the page
\* that reconcile reads is empty and nothing is applied twice.
ModelExactInv ==
  /\ worker.pc \in {"take", "lock", "start", "receipt", "decide",
                    "deferred", "publish", "reconcile", "settle"} =>
       readModel.seq = Len(log) /\ ThreadsExact
  /\ worker.pc \in {"lock", "start", "receipt", "decide", "reconcile"} => worker.start = Len(log)
  /\ worker.pc = "install" =>
       /\ worker.start <= Len(log) /\ readModel.threads = Handled(log, "messages", 0, worker.start)
       /\ worker.first = worker.start + 1 /\ worker.last = Len(log)

\* What was published is ascending and before the next event to publish.
AscendingInv ==
  /\ PublishedOnce
  /\ \A i \in DOMAIN published : published[i] <= Len(log)
  /\ worker.pc \in {"install", "deferred", "publish"} => worker.last = Len(log)
  /\ worker.pc \in {"install", "deferred"} =>
       \A i \in DOMAIN published : published[i] < worker.first
  /\ worker.pc = "publish" => \A i \in DOMAIN published : published[i] < worker.next

\* Every step keeps the read model exact.
LEMMA ModelExactStep ==
  ASSUME TypeOK, TypeOK', WorkerInv, LockInv, ReplayInv, ModelExactInv, Next,
         InterruptAt \subseteq {"receipt", "decide"}
  PROVE  ModelExactInv'
<1> USE CursorFacts
<1>0. /\ worker \in Workers /\ readModel \in ReadModels /\ readModel.seq \in Nat
      /\ worker.start \in Nat /\ worker.first \in Nat /\ worker.last \in Nat
      /\ ReadLimit \in Nat \ {0}
  BY WorkerFields, ReadLimitAssumption DEF TypeOK, ReadModels
<1>1. CASE UNCHANGED <<worker, readModel, log>>
  BY <1>1 DEF ModelExactInv, ThreadsExact
<1>2. CASE Take
  <2>1. /\ worker.pc = "take" /\ worker'.pc = "lock" /\ worker'.start = readModel.seq
        /\ UNCHANGED <<log, readModel>>
    BY <1>0, <1>2 DEF Take, Workers, storeVars, memoryVars
  <2> QED BY <2>1 DEF ModelExactInv, ThreadsExact
<1>3. CASE AcquireLock \/ NoReceiptYet
  <2>1. /\ worker.pc \in {"lock", "receipt"} /\ worker'.pc \in {"start", "decide"}
        /\ worker'.start = worker.start /\ UNCHANGED <<log, readModel>>
    BY <1>0, <1>3 DEF AcquireLock, NoReceiptYet, Goto, Workers, storeVars, memoryVars
  <2> QED BY <2>1 DEF ModelExactInv, ThreadsExact
<1>4. CASE Start
  <2>1. /\ worker.pc = "start" /\ worker'.pc \in {"receipt", "reconcile"}
        /\ worker'.start = worker.start /\ UNCHANGED <<log, readModel>>
    BY <1>0, <1>4 DEF Start, Goto, Abort, Workers, storeVars, memoryVars
  <2> QED BY <2>1 DEF ModelExactInv, ThreadsExact
<1>5. CASE SkipAbandoned \/ ReplayReceipt \/ Succeed \/ SettleByReceipt \/ SettleRejected
           \/ SettleFailed
  <2>1. /\ worker' = Idle /\ worker.pc \in {"start", "receipt", "publish", "settle"}
        /\ UNCHANGED <<log, readModel>>
    BY <1>5 DEF SkipAbandoned, ReplayReceipt, Succeed, SettleByReceipt, SettleRejected,
                SettleFailed, Answer, storeVars, memoryVars
  <2> QED BY <2>1 DEF Idle, ModelExactInv, ThreadsExact
<1>6. CASE RejectCommand \/ RefuseEmptyCommand \/ FailBeforeCommit \/ Interrupt
  <2>1. worker.pc \in {"receipt", "decide"} /\ UNCHANGED <<log, readModel>>
    BY <1>6 DEF RejectCommand, RefuseEmptyCommand, FailBeforeCommit, Interrupt,
                storeVars, memoryVars
  <2>2. worker'.pc = "reconcile" /\ worker'.start = worker.start
    <3>1. PICK err : Abort(err)
      BY <1>6 DEF RejectCommand, RefuseEmptyCommand, FailBeforeCommit, Interrupt
    <3> QED BY <1>0, <3>1 DEF Abort, Workers
  <2> QED BY <2>1, <2>2 DEF ModelExactInv, ThreadsExact
<1>7. CASE Commit
  <2>1. /\ worker.pc = "decide" /\ worker'.pc = "install" /\ worker'.start = worker.start
        /\ worker'.first = Len(log) + 1 /\ worker'.last = Len(log') /\ readModel' = readModel
    BY <1>0, <1>7 DEF Commit, Workers, memoryVars
  <2>2. PICK k : k = log'
    OBVIOUS
  <2>3. Len(k) \in Nat /\ Len(log) <= Len(k) /\ \A n \in 1..Len(log) : k[n] = log[n]
    BY <1>0, <1>7, <2>2, CommitEffect
  <2>4. Handled(k, "messages", 0, Len(log)) = Handled(log, "messages", 0, Len(log))
    <3>1. \A n \in (0 + 1)..Len(log) : k[n] = log[n]
      BY <2>3
    <3> QED BY <3>1, HandledPrefix
  <2>5. readModel.threads = Handled(log, "messages", 0, Len(log)) /\ worker.start = Len(log)
    BY <2>1 DEF ModelExactInv, ThreadsExact
  <2>6. readModel'.threads = Handled(log', "messages", 0, worker'.start)
    BY <2>1, <2>2, <2>4, <2>5
  <2> QED BY <2>1, <2>2, <2>3, <2>5, <2>6 DEF ModelExactInv
<1>8. CASE InstallReadModel
  <2>1. /\ worker.pc = "install" /\ worker'.pc = "deferred" /\ log' = log
        /\ readModel' = ProjectInMemory(readModel, log, worker.first - 1, worker.last)
    BY <1>0, <1>8 DEF InstallReadModel, Goto, Workers, storeVars
  <2>2. PICK s \in Nat : s = worker.start
    BY <1>0
  <2>3. worker.first - 1 = s /\ worker.last = Len(log) /\ s <= Len(log)
        /\ readModel.threads = Handled(log, "messages", 0, s)
    BY <1>0, <2>1, <2>2 DEF ModelExactInv
  <2>4. readModel' = ProjectInMemory(readModel, log, s, Len(log))
    BY <2>1, <2>3
  <2>5. /\ readModel'.seq = Len(log)
        /\ readModel'.threads
             = Handled(log, "messages", 0, s) \o Handled(log, "messages", s, Len(log))
    BY <2>3, <2>4 DEF ProjectInMemory
  <2>6. Handled(log, "messages", 0, s) \o Handled(log, "messages", s, Len(log))
          = Handled(log, "messages", 0, Len(log))
    <3>1. 0 \in Nat /\ Len(log) \in Nat /\ 0 <= s /\ s <= Len(log) /\ s \in Nat
      BY <2>3
    <3> QED BY <3>1, HandledConcat, Zenon
  <2>7. readModel'.seq = Len(log') /\ ThreadsExact'
    BY <2>1, <2>5, <2>6 DEF ThreadsExact
  <2> QED BY <2>1, <2>7 DEF ModelExactInv
<1>9. CASE ProjectNextDeferred \/ DeferredDone \/ PublishNext
  <2>1. /\ worker.pc \in {"deferred", "publish"} /\ worker'.pc \in {"deferred", "publish"}
        /\ UNCHANGED <<log, readModel>>
    BY <1>0, <1>9 DEF ProjectNextDeferred, DeferredDone, PublishNext, Workers, storeVars, memoryVars
  <2> QED BY <2>1 DEF ModelExactInv, ThreadsExact
<1>10. CASE Reconcile
  <2>1. worker.pc = "reconcile" /\ worker'.pc = "settle" /\ log' = log
    BY <1>0, <1>10 DEF Reconcile, Goto, Workers, storeVars
  <2>2. worker.start = Len(log) /\ readModel.seq = Len(log) /\ ThreadsExact
    BY <2>1 DEF ModelExactInv
  <2>3. EndOfPage(worker.start) = worker.start
    <3>1. PICK n \in Nat : n = Len(log)
      OBVIOUS
    <3>2. ~(n + ReadLimit < n)
      BY <1>0
    <3> QED BY <2>2, <3>1, <3>2 DEF EndOfPage
  <2>4. readModel' = readModel
    BY <1>0, <1>10, <2>3 DEF Reconcile, memoryVars
  <2> QED BY <2>1, <2>2, <2>4 DEF ModelExactInv, ThreadsExact
<1>11. CASE RefreshReadModel
  <2>1. /\ repair.pc = "running" /\ boot.pc = "done" /\ UNCHANGED <<worker, log>>
    BY <1>11 DEF RefreshReadModel, EndRepair, storeVars
  <2>2. worker.pc \in {"take", "lock"}
    <3>1. worker.pc \in WorkerStates
      BY <1>0 DEF Workers
    <3> QED BY <2>1, <3>1 DEF LockInv, WorkerStates, TimedStates, Executing, Up
  <2>3. readModel'.seq \in {readModel.seq, Len(log)} /\ readModel'.threads = readModel.threads
    <3>1. \A p \in Snapshot : cursor[p] = Len(log)
      BY <2>1 DEF ReplayInv, Snapshot
    <3>2. {cursor[p] : p \in Snapshot} = {Len(log)}
      BY <3>1
    <3>3. Len(log) = CHOOSE n \in {cursor[p] : p \in Snapshot} :
                       \A p \in Snapshot : n <= cursor[p]
      BY <3>1, <3>2
    <3> QED BY <1>0, <1>11, <3>3 DEF RefreshReadModel, ReadModels
  <2>4. readModel.seq = Len(log) /\ ThreadsExact
    BY <2>2 DEF ModelExactInv
  <2> QED BY <2>1, <2>2, <2>3, <2>4 DEF ModelExactInv, ThreadsExact
<1>12. CASE Crash \/ Restart
  <2>1. worker'.pc \in {"down", "bootstrap"}
    BY <1>12 DEF Crash, Restart, Starting, Down, Idle
  <2> QED BY <2>1 DEF ModelExactInv
<1>13. CASE FinishStart
  <2>1. log' = log /\ (\/ worker'.pc = "down"
                       \/ worker'.pc = "take"
                          /\ readModel' = ProjectInMemory(EmptyReadModel, log, 0, Len(log)))
    BY <1>13 DEF FinishStart, Down, Idle, storeVars
  <2>2. CASE worker'.pc = "take" /\ readModel' = ProjectInMemory(EmptyReadModel, log, 0, Len(log))
    <3>1. PICK h \in Seq(Nat) : h = Handled(log, "messages", 0, Len(log))
      BY HandledType
    <3>2. readModel'.seq = Len(log) /\ readModel'.threads = <<>> \o h
      BY <2>2, <3>1 DEF ProjectInMemory, EmptyReadModel
    <3>3. readModel'.threads = h
      BY <3>2, ConcatEmptySeq
    <3> QED BY <2>1, <2>2, <3>1, <3>2, <3>3 DEF ModelExactInv, ThreadsExact
  <2> QED BY <2>1, <2>2 DEF ModelExactInv
<1>14. CASE Clients \/ Replay \/ BeginCatchUp \/ EndCatchUp \/ RequestRepair \/ ResetProjects
            \/ FailRepair \/ RestoreBackup
  BY <1>1, <1>14 DEF Clients, Submit, DeadlinePasses, Abandon, Replay, BeginCatchUp, EndCatchUp,
     RequestRepair, ResetProjects, FailRepair, RestoreBackup, EndRepair, storeVars, memoryVars
<1>15. QED
  BY <1>2, <1>3, <1>4, <1>5, <1>6, <1>7, <1>8, <1>9, <1>10, <1>11, <1>12, <1>13, <1>14
  DEF Next, WorkerStep

\* Every step keeps the domain stream ascending.
LEMMA AscendingStep ==
  ASSUME TypeOK, TypeOK', WorkerInv, LockInv, ModelExactInv, AscendingInv, Next,
         InterruptAt \subseteq {"receipt", "decide"}
  PROVE  AscendingInv'
<1> USE CursorFacts
<1>0. /\ worker \in Workers /\ worker.start \in Nat
      /\ worker.first \in Nat /\ worker.last \in Nat /\ worker.next \in Nat
      /\ published \in Seq(Nat) /\ ReadLimit \in Nat \ {0}
      /\ Len(published) \in Nat /\ DOMAIN published = 1..Len(published)
      /\ \A i \in DOMAIN published : published[i] \in Nat
  BY WorkerFields, ReadLimitAssumption DEF TypeOK
<1> DEFINE Busy == {"install", "deferred", "publish"}
<1>1. CASE UNCHANGED <<worker, published, log>>
  BY <1>1 DEF AscendingInv, PublishedOnce
<1>2. CASE UNCHANGED <<published, log>> /\ worker'.pc \notin Busy
  BY <1>2 DEF AscendingInv, PublishedOnce
<1>3. CASE Take \/ AcquireLock \/ NoReceiptYet
  <2>1. UNCHANGED <<published, log>> /\ worker'.pc \in {"lock", "start", "decide"}
    BY <1>0, <1>3 DEF Take, AcquireLock, NoReceiptYet, Goto, Workers, storeVars, memoryVars
  <2> QED BY <1>2, <2>1
<1>4. CASE Start
  <2>1. UNCHANGED <<published, log>> /\ worker'.pc \in {"receipt", "reconcile"}
    BY <1>0, <1>4 DEF Start, Goto, Abort, Workers, storeVars, memoryVars
  <2> QED BY <1>2, <2>1
<1>5. CASE SkipAbandoned \/ ReplayReceipt \/ Succeed \/ SettleByReceipt \/ SettleRejected
           \/ SettleFailed
  <2>1. worker' = Idle /\ UNCHANGED <<log, published>>
    BY <1>5 DEF SkipAbandoned, ReplayReceipt, Succeed, SettleByReceipt, SettleRejected,
                SettleFailed, Answer, storeVars, memoryVars
  <2> QED BY <1>2, <2>1 DEF Idle
<1>6. CASE RejectCommand \/ RefuseEmptyCommand \/ FailBeforeCommit \/ Interrupt
  <2>1. UNCHANGED <<log, published>>
    BY <1>6 DEF RejectCommand, RefuseEmptyCommand, FailBeforeCommit, Interrupt,
                storeVars, memoryVars
  <2>2. PICK err : Abort(err)
    BY <1>6 DEF RejectCommand, RefuseEmptyCommand, FailBeforeCommit, Interrupt
  <2>3. worker'.pc = "reconcile"
    BY <1>0, <2>2 DEF Abort, Workers
  <2> QED BY <1>2, <2>1, <2>3
<1>7. CASE Commit
  <2>1. /\ worker'.pc = "install" /\ worker'.first = Len(log) + 1 /\ worker'.last = Len(log')
        /\ published' = published
    BY <1>0, <1>7 DEF Commit, Workers, memoryVars
  <2>2. Len(log') \in Nat /\ Len(log) <= Len(log')
    BY <1>7, CommitEffect
  <2>3. \A i \in DOMAIN published' : published'[i] <= Len(log') /\ published'[i] < worker'.first
    BY <1>0, <2>1, <2>2 DEF AscendingInv
  <2> QED BY <2>1, <2>3 DEF AscendingInv, PublishedOnce
<1>8. CASE InstallReadModel \/ ProjectNextDeferred
  <2>1. /\ worker.pc \in {"install", "deferred"} /\ worker'.pc = "deferred"
        /\ worker'.first = worker.first /\ worker'.last = worker.last
        /\ UNCHANGED <<log, published>>
    BY <1>0, <1>8 DEF InstallReadModel, ProjectNextDeferred, Goto, Workers, storeVars, memoryVars
  <2> QED BY <2>1 DEF AscendingInv, PublishedOnce
<1>9. CASE DeferredDone
  <2>1. /\ worker.pc = "deferred" /\ worker'.pc = "publish"
        /\ worker'.next = worker.first /\ worker'.last = worker.last
        /\ UNCHANGED <<log, published>>
    BY <1>0, <1>9 DEF DeferredDone, Workers, storeVars, memoryVars
  <2> QED BY <2>1 DEF AscendingInv, PublishedOnce
<1>10. CASE PublishNext
  <2>1. /\ worker.pc = "publish" /\ worker'.pc = "publish" /\ worker.next <= worker.last
        /\ worker'.next = worker.next + 1 /\ worker'.last = worker.last
        /\ published' = Append(published, worker.next) /\ log' = log
    BY <1>0, <1>10 DEF PublishNext, Workers, storeVars
  <2>2. /\ worker.last = Len(log) /\ PublishedOnce
        /\ \A i \in DOMAIN published : published[i] <= Len(log) /\ published[i] < worker.next
    BY <2>1 DEF AscendingInv
  <2>3. /\ DOMAIN published' = 1..(Len(published) + 1)
        /\ published'[Len(published) + 1] = worker.next
        /\ \A i \in DOMAIN published : published'[i] = published[i]
    BY <1>0, <2>1
  <2>4. \A i \in DOMAIN published' : i \in DOMAIN published \/ i = Len(published) + 1
    BY <1>0, <2>3
  <2>5. \A i \in DOMAIN published' : published'[i] <= Len(log) /\ published'[i] < worker.next + 1
    BY <1>0, <2>1, <2>2, <2>3, <2>4
  <2>6. PublishedOnce'
    <3> SUFFICES ASSUME NEW i \in DOMAIN published', NEW j \in DOMAIN published', i < j
                 PROVE  published'[i] < published'[j]
      BY DEF PublishedOnce
    <3>1. i \in DOMAIN published
      BY <1>0, <2>3, <2>4
    <3>2. CASE j \in DOMAIN published
      BY <2>2, <2>3, <3>1, <3>2 DEF PublishedOnce
    <3>3. CASE j = Len(published) + 1
      BY <2>2, <2>3, <3>1, <3>3
    <3> QED BY <2>4, <3>2, <3>3
  <2> QED BY <2>1, <2>2, <2>5, <2>6 DEF AscendingInv
<1>11. CASE Reconcile
  <2>1. worker.pc = "reconcile" /\ worker'.pc = "settle" /\ log' = log
    BY <1>0, <1>11 DEF Reconcile, Goto, Workers, storeVars
  <2>2. worker.start = Len(log)
    BY <2>1 DEF ModelExactInv
  <2>3. EndOfPage(worker.start) = worker.start
    <3>1. PICK n \in Nat : n = Len(log)
      OBVIOUS
    <3>2. ~(n + ReadLimit < n)
      BY <1>0
    <3> QED BY <2>2, <3>1, <3>2 DEF EndOfPage
  <2>4. published' = published
    BY <1>0, <1>11, <2>3 DEF Reconcile, memoryVars
  <2> QED BY <1>2, <2>1, <2>4
<1>12. CASE Crash
  <2>1. worker'.pc = "down" /\ published' = <<>> /\ log' = log
    BY <1>12 DEF Crash, Down, Idle, storeVars
  <2> QED BY <2>1 DEF AscendingInv, PublishedOnce
<1>13. CASE Restart \/ FinishStart
  <2>1. worker'.pc \in {"bootstrap", "down", "take"} /\ UNCHANGED <<log, published>>
    BY <1>13 DEF Restart, FinishStart, Starting, Down, Idle, storeVars, memoryVars
  <2> QED BY <1>2, <2>1
<1>14. CASE Clients \/ Replay \/ BeginCatchUp \/ EndCatchUp \/ RequestRepair \/ ResetProjects
            \/ FailRepair \/ RestoreBackup \/ RefreshReadModel
  BY <1>1, <1>14 DEF Clients, Submit, DeadlinePasses, Abandon, Replay, BeginCatchUp, EndCatchUp,
     RequestRepair, ResetProjects, FailRepair, RestoreBackup, RefreshReadModel, EndRepair,
     storeVars, memoryVars
<1>15. QED
  BY <1>3, <1>4, <1>5, <1>6, <1>7, <1>8, <1>9, <1>10, <1>11, <1>12, <1>13, <1>14
  DEF Next, WorkerStep

\* Both always hold.
LEMMA ExactInvariance ==
  ASSUME InterruptAt \subseteq {"receipt", "decide"}
  PROVE  Spec /\ []RepairsFitPage => [](ReplayIInv /\ ModelExactInv /\ AscendingInv)
<1>1. Init => ModelExactInv /\ AscendingInv
  <2> SUFFICES ASSUME Init PROVE ModelExactInv /\ AscendingInv
    OBVIOUS
  <2>1. log = <<>> /\ worker.pc = "take" /\ readModel.seq = 0 /\ readModel.threads = <<>>
        /\ published = <<>> /\ Len(<<>>) = 0
    BY DEF Init, Idle, EmptyReadModel
  <2>2. Handled(<<>>, "messages", 0, 0) = <<>>
    BY HandledSteps
  <2> QED BY <2>1, <2>2 DEF ModelExactInv, ThreadsExact, AscendingInv, PublishedOnce
<1>2. ReplayIInv /\ ReplayIInv' /\ ModelExactInv /\ AscendingInv /\ Next
        => (ModelExactInv /\ AscendingInv)'
  BY ModelExactStep, AscendingStep DEF ReplayIInv, IInv
<1>3. ModelExactInv /\ AscendingInv /\ UNCHANGED vars => (ModelExactInv /\ AscendingInv)'
  BY DEF ModelExactInv, ThreadsExact, AscendingInv, PublishedOnce,
         vars, projectionVars, storeVars, clientVars, memoryVars
<1>4. ReplayIInv /\ ReplayIInv' /\ ModelExactInv /\ AscendingInv /\ [Next]_vars
        => (ModelExactInv /\ AscendingInv)'
  BY <1>2, <1>3
<1>5. QED BY ReplayInvariance, <1>1, <1>4, PTL DEF Spec

\* Between commands the read model has applied every thread event once, by
\* whatever path the last command ended, repairs and failed reads included, as
\* long as no timeout strikes after a commit (InterruptAt): reconcile would then
\* apply the events of the command a second time.
THEOREM ReadModelStaysExact ==
  ASSUME InterruptAt \subseteq {"receipt", "decide"}
  PROVE  Spec /\ []RepairsFitPage => []ReadModelExact
<1>1. ModelExactInv => ReadModelExact
  BY DEF ModelExactInv, ThreadsExact, ReadModelExact
<1>2. QED BY ExactInvariance, <1>1, PTL

\* The domain stream carries no event twice and none out of order (eventPubSub),
\* under the same hypothesis.
THEOREM EachEventPublishedOnce ==
  ASSUME InterruptAt \subseteq {"receipt", "decide"}
  PROVE  Spec /\ []RepairsFitPage => []PublishedOnce
<1>1. AscendingInv => PublishedOnce
  BY DEF AscendingInv
<1>2. QED BY ExactInvariance, <1>1, PTL

=============================================================================
