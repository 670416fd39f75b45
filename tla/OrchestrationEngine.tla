------------------------- MODULE OrchestrationEngine -------------------------
(***************************************************************************)
(* Layers/OrchestrationEngine.ts: callers dispatch commands into one queue;*)
(* a worker decides each against the in-memory read model, commits its     *)
(* events with the hot projections and a receipt in one transaction, and   *)
(* then, outside of it, installs the new read model, runs the deferred     *)
(* projection, publishes the events and answers the caller.  A timer       *)
(* may interrupt the worker between any two of these steps.                *)
(*                                                                         *)
(* The maintenance lock keeps the worker, the background catch-up of the   *)
(* deferred projection and repairState apart.  A crash loses everything    *)
(* but the database.                                                       *)
(*                                                                         *)
(* The decider is abstract: a command is accepted when the commands it     *)
(* requires are in the read model and those it excludes are not.           *)
(***************************************************************************)
EXTENDS ProjectionPipeline

CONSTANTS
  CommandOf,    \* the command a dispatch carries; a retry carries the same
  EventsOf,     \* the kinds of the events a command is decided into
  Requires,     \* commands whose events a command's invariants require
  Excludes,     \* commands whose events its invariants forbid
  NoDispatch,
  Faults,       \* the kinds of failure that may happen
  InterruptAt,  \* the worker states a timeout may interrupt
  MaxFaults, MaxCrashes, MaxRepairs  \* bounds of a run

FaultKinds == {"receiptRead", "defect", "transaction", "deferred", "bootstrap",
               "reconcileRead", "outcomeRead", "receiptWrite", "repairReset",
               "repairRestore", "repairRefresh"}

\* The worker states inside the effect that timeoutOption guards.
TimedStates == {"receipt", "decide", "install", "deferred", "publish"}

ASSUME EngineAssumption ==
  /\ CommandOf \in [Dispatches -> Commands]
  /\ EventsOf \in [Commands -> Seq(EventKinds)]
  /\ Requires \in [Commands -> SUBSET Commands]
  /\ Excludes \in [Commands -> SUBSET Commands]
  /\ NoDispatch \notin Dispatches
  /\ Faults \subseteq FaultKinds
  /\ InterruptAt \subseteq TimedStates
  /\ MaxFaults \in Nat /\ MaxCrashes \in Nat /\ MaxRepairs \in Nat

VARIABLES
  receipt,   \* orchestration_command_receipts
  queue,     \* commandQueue: the dispatches not yet taken
  exec,      \* the executionState of each envelope
  due,       \* have the 45 s since the dispatch passed?
  answer,    \* what the caller of each dispatch was told
  readModel, \* the in-memory read model
  published, \* what a subscriber since startup has received
  lock,      \* the holder of maintenanceLock
  worker,    \* the worker fiber, or the process's own start
  dirty,     \* deferredProjectionDirty
  catchUp,   \* the background catch-up; not idle = CatchUpInFlight
  repair,    \* one call of repairState
  base,      \* length of the log when the process started (history)
  budget     \* failures, crashes and repairs still to come (bound)

clientVars == <<queue, exec, due, answer>>
storeVars  == <<log, receipt>>
memoryVars == <<readModel, published>>
vars == <<projectionVars, storeVars, clientVars, memoryVars, lock, worker,
          dirty, catchUp, repair, base, budget>>

-----------------------------------------------------------------------------
NoReceipt == [status |-> "none", seq |-> 0]

Unanswered == [kind |-> "none", seq |-> 0]

Says(kind) == [kind |-> kind, seq |-> 0]

Accepted(n) == [kind |-> "ok", seq |-> n]

\* threads is a sequence because applying a streamed delta twice shows.
EmptyReadModel == [seq |-> 0, projects |-> {}, threads |-> <<>>]

\* projectEvent on a read model, for the events lo+1..hi of log l.
ProjectInMemory(m, l, lo, hi) ==
  [seq      |-> hi,
   projects |-> m.projects \cup {n \in (lo + 1)..hi : l[n].kind = "project"},
   threads  |-> m.threads \o Handled(l, "messages", lo, hi)]

KnownCommands(m) ==
  {log[n].cmd : n \in m.projects \cup {m.threads[i] : i \in DOMAIN m.threads}}

\* decideOrchestrationCommand: do the invariants of command c hold?
Decides(c) ==
  /\ Requires[c] \subseteq KnownCommands(readModel)
  /\ Excludes[c] \cap KnownCommands(readModel) = {}

Idle == [pc |-> "take", d |-> NoDispatch, start |-> 0, late |-> FALSE,
         first |-> 0, next |-> 0, last |-> 0, err |-> "none"]

Starting == [Idle EXCEPT !.pc = "bootstrap"]

Down == [Idle EXCEPT !.pc = "down"]

NoRepair == [pc |-> "idle", rows |-> <<>>, cursor |-> [p \in Projectors |-> 0]]

Up == worker.pc \notin {"bootstrap", "down"}

Command == CommandOf[worker.d]

Goto(pc) == worker' = [worker EXCEPT !.pc = pc]

\* The guarded effect fails: its handler first reconciles the read model.
Abort(err) == worker' = [worker EXCEPT !.pc = "reconcile", !.err = err]

Fault(kind) ==
  /\ kind \in Faults
  /\ budget.faults > 0
  /\ budget' = [budget EXCEPT !.faults = @ - 1]

\* Deferred.succeed or fail; the envelope is done and the lock free.
Answer(a) ==
  /\ answer' = [answer EXCEPT ![worker.d] = a]
  /\ worker' = Idle
  /\ lock' = "free"

-----------------------------------------------------------------------------
(* The callers of dispatch                                                 *)

Submit(d) ==
  /\ Up
  /\ answer[d] = Unanswered
  /\ exec[d] = "none"
  /\ exec' = [exec EXCEPT ![d] = "queued"]
  /\ queue' = Append(queue, d)
  /\ UNCHANGED <<due, answer, projectionVars, storeVars, memoryVars, lock,
                 worker, dirty, catchUp, repair, base, budget>>

\* The clock passes the deadline of a dispatch that has no answer yet.
DeadlinePasses(d) ==
  /\ exec[d] # "none" /\ answer[d] = Unanswered
  /\ ~due[d]
  /\ due' = [due EXCEPT ![d] = TRUE]
  /\ UNCHANGED <<queue, exec, answer, projectionVars, storeVars, memoryVars,
                 lock, worker, dirty, catchUp, repair, base, budget>>

\* Mutant: the timer does not look at the state.
AbandonInFlight(d) ==
  /\ due[d] /\ answer[d] = Unanswered
  /\ exec' = [exec EXCEPT ![d] = "abandoned"]
  /\ answer' = [answer EXCEPT ![d] = Says("timeout")]
  /\ UNCHANGED <<queue, due, projectionVars, storeVars, memoryVars, lock,
                 worker, dirty, catchUp, repair, base, budget>>

\* The caller's timer: a queued envelope is abandoned; for one in flight
\* the caller goes on waiting, which changes nothing.
Abandon(d) ==
  /\ due[d] /\ answer[d] = Unanswered
  /\ exec[d] = "queued"
  /\ exec' = [exec EXCEPT ![d] = "abandoned"]
  /\ answer' = [answer EXCEPT ![d] = Says("timeout")]
  /\ UNCHANGED <<queue, due, projectionVars, storeVars, memoryVars, lock,
                 worker, dirty, catchUp, repair, base, budget>>

-----------------------------------------------------------------------------
(* The worker: processEnvelope                                             *)

\* Mutant: a failure reconciles from the beginning.
TakeFromZero ==
  /\ worker.pc = "take"
  /\ queue # <<>>
  /\ LET d == Head(queue)
     IN worker' = [worker EXCEPT !.pc = "lock", !.d = d,
                                 !.start = 0, !.late = due[d]]
  /\ queue' = Tail(queue)
  /\ UNCHANGED <<exec, due, answer, projectionVars, storeVars, memoryVars,
                 lock, dirty, catchUp, repair, base, budget>>

\* dispatchStartSequence and remainingBudgetMs are read before the lock.
Take ==
  /\ worker.pc = "take"
  /\ queue # <<>>
  /\ LET d == Head(queue)
     IN worker' = [worker EXCEPT !.pc = "lock", !.d = d,
                                 !.start = readModel.seq, !.late = due[d]]
  /\ queue' = Tail(queue)
  /\ UNCHANGED <<exec, due, answer, projectionVars, storeVars, memoryVars,
                 lock, dirty, catchUp, repair, base, budget>>

AcquireLock ==
  /\ worker.pc = "lock"
  /\ lock = "free"
  /\ lock' = "worker"
  /\ Goto("start")
  /\ UNCHANGED <<clientVars, projectionVars, storeVars, memoryVars,
                 dirty, catchUp, repair, base, budget>>

\* Mutant: the lock is kept when nothing is run.
SkipWithoutRelease ==
  /\ worker.pc = "start"
  /\ exec[worker.d] = "abandoned"
  /\ worker' = Idle
  /\ UNCHANGED <<clientVars, projectionVars, storeVars, memoryVars, lock,
                 dirty, catchUp, repair, base, budget>>

SkipAbandoned ==
  /\ worker.pc = "start"
  /\ exec[worker.d] = "abandoned"
  /\ worker' = Idle
  /\ lock' = "free"
  /\ UNCHANGED <<clientVars, projectionVars, storeVars, memoryVars,
                 dirty, catchUp, repair, base, budget>>

Start ==
  /\ worker.pc = "start"
  /\ exec[worker.d] = "queued"
  /\ exec' = [exec EXCEPT ![worker.d] = "in-flight"]
  /\ IF worker.late THEN Abort("timeout") ELSE Goto("receipt")
  /\ UNCHANGED <<queue, due, answer, projectionVars, storeVars, memoryVars,
                 lock, dirty, catchUp, repair, base, budget>>

\* The receipt of an earlier execution answers for it.
ReplayReceipt ==
  /\ worker.pc = "receipt"
  /\ receipt[Command] # NoReceipt
  /\ Answer(IF receipt[Command].status = "accepted"
            THEN Accepted(receipt[Command].seq)
            ELSE Says("rejected"))
  /\ UNCHANGED <<queue, exec, due, projectionVars, storeVars, memoryVars,
                 dirty, catchUp, repair, base, budget>>

\* Mutant: the receipt is not looked up.
IgnoreReceipt ==
  /\ worker.pc = "receipt"
  /\ Goto("decide")
  /\ UNCHANGED <<clientVars, projectionVars, storeVars, memoryVars, lock,
                 dirty, catchUp, repair, base, budget>>

NoReceiptYet ==
  /\ worker.pc = "receipt"
  /\ receipt[Command] = NoReceipt
  /\ Goto("decide")
  /\ UNCHANGED <<clientVars, projectionVars, storeVars, memoryVars, lock,
                 dirty, catchUp, repair, base, budget>>

RejectCommand ==
  /\ worker.pc = "decide"
  /\ ~Decides(Command)
  /\ Abort("invariant")
  /\ UNCHANGED <<clientVars, projectionVars, storeVars, memoryVars, lock,
                 dirty, catchUp, repair, base, budget>>

\* The events that dispatch d of command c appends.
Block(c, d) == [i \in 1..Len(EventsOf[c]) |-> [cmd |-> c, kind |-> EventsOf[c][i], by |-> d]]

\* Mutant: the receipt names the first event, not the last.
CommitFirstSequence ==
  LET newLog == log \o Block(Command, worker.d)
  IN  /\ worker.pc = "decide"
      /\ Decides(Command)
      /\ EventsOf[Command] # <<>>
      /\ log' = newLog
      /\ receipt' = [receipt EXCEPT ![Command] = [status |-> "accepted", seq |-> Len(log) + 1]]
      /\ ProjectInTransaction(newLog)
      /\ worker' = [worker EXCEPT !.pc = "install", !.last = Len(newLog),
                                  !.first = Len(log) + 1, !.next = Len(log) + 1]
      /\ UNCHANGED <<boot, clientVars, memoryVars, lock, dirty, catchUp,
                     repair, base, budget>>

\* transactionalCommitEffect: append, project and write the receipt of all
\* events, or of none.
Commit ==
  LET newLog == log \o Block(Command, worker.d)
  IN  /\ worker.pc = "decide"
      /\ Decides(Command)
      /\ EventsOf[Command] # <<>>
      /\ log' = newLog
      /\ receipt' = [receipt EXCEPT ![Command] = [status |-> "accepted", seq |-> Len(newLog)]]
      /\ ProjectInTransaction(newLog)
      /\ worker' = [worker EXCEPT !.pc = "install", !.last = Len(newLog),
                                  !.first = Len(log) + 1, !.next = Len(log) + 1]
      /\ UNCHANGED <<boot, clientVars, memoryVars, lock, dirty, catchUp,
                     repair, base, budget>>

\* "Command produced no events." is raised inside the transaction, where
\* catchCause turns it into an internal error: no receipt remembers it.
RefuseEmptyCommand ==
  /\ worker.pc = "decide"
  /\ Decides(Command)
  /\ EventsOf[Command] = <<>>
  /\ Abort("failed")
  /\ UNCHANGED <<clientVars, projectionVars, storeVars, memoryVars, lock,
                 dirty, catchUp, repair, base, budget>>

\* A failed receipt lookup, a transaction rolled back, a defect outside it.
FailBeforeCommit ==
  /\ \/ worker.pc = "receipt" /\ Fault("receiptRead") /\ Abort("failed")
     \/ worker.pc = "decide" /\ Fault("transaction") /\ Abort("failed")
     \/ worker.pc = "decide" /\ Fault("defect") /\ Abort("defect")
  /\ UNCHANGED <<clientVars, projectionVars, storeVars, memoryVars, lock,
                 dirty, catchUp, repair, base>>

\* The model of the transaction's end: no other step can have changed it
\* since the command was decided, for the worker holds the lock.
InstallReadModel ==
  /\ worker.pc = "install"
  /\ readModel' = ProjectInMemory(readModel, log, worker.first - 1, worker.last)
  /\ Goto("deferred")
  /\ UNCHANGED <<clientVars, projectionVars, storeVars, published, lock,
                 dirty, catchUp, repair, base, budget>>

ScheduleCatchUp ==
  catchUp' = IF catchUp = "idle" THEN "waiting" ELSE catchUp

\* Mutant: a failed deferred projection is not remembered.
ForgetDeferredFailure ==
  LET n == worker.next
      skipped == log[n].kind = "project"
  IN  /\ worker.pc = "deferred"
      /\ n <= worker.last
      /\ worker' = [worker EXCEPT !.next = n + 1]
      /\ \/ /\ skipped
            /\ UNCHANGED <<rows, cursor, dirty, catchUp, budget>>
         \/ /\ ~skipped /\ dirty
            /\ ScheduleCatchUp
            /\ UNCHANGED <<rows, cursor, dirty, budget>>
         \/ /\ ~skipped /\ ~dirty
            /\ ProjectDeferred(n)
            /\ UNCHANGED <<dirty, catchUp, budget>>
         \/ /\ ~skipped /\ ~dirty /\ ShouldApply("shell", log[n].kind)
            /\ Fault("deferred")
            /\ UNCHANGED <<rows, cursor, dirty, catchUp>>
      /\ UNCHANGED <<boot, storeVars, clientVars, memoryVars, lock, repair, base>>

\* The deferred projection of the command's events, one after the other.
ProjectNextDeferred ==
  LET n == worker.next
      skipped == log[n].kind = "project"
  IN  /\ worker.pc = "deferred"
      /\ n <= worker.last
      /\ worker' = [worker EXCEPT !.next = n + 1]
      /\ \/ /\ skipped
            /\ UNCHANGED <<rows, cursor, dirty, catchUp, budget>>
         \/ /\ ~skipped /\ dirty
            /\ ScheduleCatchUp
            /\ UNCHANGED <<rows, cursor, dirty, budget>>
         \/ /\ ~skipped /\ ~dirty
            /\ ProjectDeferred(n)
            /\ UNCHANGED <<dirty, catchUp, budget>>
         \/ /\ ~skipped /\ ~dirty /\ ShouldApply("shell", log[n].kind)
            /\ Fault("deferred")
            /\ dirty' = TRUE
            /\ ScheduleCatchUp
            /\ UNCHANGED <<rows, cursor>>
      /\ UNCHANGED <<boot, storeVars, clientVars, memoryVars, lock, repair, base>>

DeferredDone ==
  /\ worker.pc = "deferred"
  /\ worker.next > worker.last
  /\ worker' = [worker EXCEPT !.pc = "publish", !.next = worker.first]
  /\ UNCHANGED <<clientVars, projectionVars, storeVars, memoryVars, lock,
                 dirty, catchUp, repair, base, budget>>

PublishNext ==
  /\ worker.pc = "publish"
  /\ worker.next <= worker.last
  /\ published' = Append(published, worker.next)
  /\ worker' = [worker EXCEPT !.next = @ + 1]
  /\ UNCHANGED <<clientVars, projectionVars, storeVars, readModel, lock,
                 dirty, catchUp, repair, base, budget>>

Succeed ==
  /\ worker.pc = "publish"
  /\ worker.next > worker.last
  /\ Answer(Accepted(worker.last))
  /\ UNCHANGED <<queue, exec, due, projectionVars, storeVars, memoryVars,
                 dirty, catchUp, repair, base, budget>>

\* timeoutOption: the budget ends and the fiber is interrupted where it is.
\* Before the commit the transaction is rolled back; after it, whatever is
\* left of the steps outside the transaction is given up, the deferred
\* projection of an event too, without the dirty flag that a failure sets.
Interrupt ==
  /\ worker.pc \in InterruptAt
  /\ due[worker.d]
  /\ Abort("timeout")
  /\ UNCHANGED <<clientVars, projectionVars, storeVars, memoryVars, lock,
                 dirty, catchUp, repair, base, budget>>

\* Mutant: what is found in the log is not published.
ReconcileSilently ==
  LET lo == worker.start
      hi == EndOfPage(lo)
  IN  /\ worker.pc = "reconcile"
      /\ Goto("settle")
      /\ \/ /\ hi > lo
            /\ readModel' = ProjectInMemory(readModel, log, lo, hi)
            /\ UNCHANGED <<published, budget>>
         \/ /\ hi <= lo
            /\ UNCHANGED <<memoryVars, budget>>
         \/ /\ Fault("reconcileRead")
            /\ UNCHANGED memoryVars
      /\ UNCHANGED <<clientVars, projectionVars, storeVars, lock, dirty,
                     catchUp, repair, base>>

\* Mutant: the start sequence itself is read again.
ReconcileInclusive ==
  LET lo == IF worker.start = 0 THEN 0 ELSE worker.start - 1
      hi == EndOfPage(lo)
  IN  /\ worker.pc = "reconcile"
      /\ Goto("settle")
      /\ \/ /\ hi > lo
            /\ readModel' = ProjectInMemory(readModel, log, lo, hi)
            /\ published' = published \o Numbers(lo, hi)
            /\ UNCHANGED budget
         \/ /\ hi <= lo
            /\ UNCHANGED <<memoryVars, budget>>
         \/ /\ Fault("reconcileRead")
            /\ UNCHANGED memoryVars
      /\ UNCHANGED <<clientVars, projectionVars, storeVars, lock, dirty,
                     catchUp, repair, base>>

\* reconcileReadModelAfterDispatchFailure: one page of events after the
\* start sequence goes through the read model and to the subscribers,
\* whether or not it has been there before.
Reconcile ==
  LET lo == worker.start
      hi == EndOfPage(lo)
  IN  /\ worker.pc = "reconcile"
      /\ Goto("settle")
      /\ \/ /\ hi > lo
            /\ readModel' = ProjectInMemory(readModel, log, lo, hi)
            /\ published' = published \o Numbers(lo, hi)
            /\ UNCHANGED budget
         \/ /\ hi <= lo
            /\ UNCHANGED <<memoryVars, budget>>
         \/ /\ Fault("reconcileRead")
            /\ UNCHANGED memoryVars
      /\ UNCHANGED <<clientVars, projectionVars, storeVars, lock, dirty,
                     catchUp, repair, base>>

\* resolveStoredCommandOutcome: after a timeout or a defect the receipt, if
\* it can be read, says what became of the command.
SettleByReceipt ==
  LET unknown == Says(IF worker.err = "timeout" THEN "timeout" ELSE "failed")
  IN  /\ worker.pc = "settle"
      /\ worker.err \in {"timeout", "defect"}
      /\ \/ /\ Answer(CASE receipt[Command].status = "accepted" ->
                             Accepted(receipt[Command].seq)
                        [] receipt[Command].status = "rejected" -> Says("rejected")
                        [] OTHER -> unknown)
            /\ UNCHANGED budget
         \/ Fault("outcomeRead") /\ Answer(unknown)
      /\ UNCHANGED <<queue, exec, due, projectionVars, storeVars, memoryVars,
                     dirty, catchUp, repair, base>>

\* Mutant: the receipt names the sequence before.
RejectBefore ==
  /\ worker.pc = "settle"
  /\ worker.err = "invariant"
  /\ \/ /\ receipt' = [receipt EXCEPT ![Command] =
                         [status |-> "rejected", seq |-> readModel.seq - 1]]
        /\ UNCHANGED budget
     \/ Fault("receiptWrite") /\ UNCHANGED receipt
  /\ Answer(Says("invariant"))
  /\ UNCHANGED <<log, queue, exec, due, projectionVars, memoryVars,
                 dirty, catchUp, repair, base>>

\* A command its invariants refuse leaves a receipt, unless writing it fails.
SettleRejected ==
  /\ worker.pc = "settle"
  /\ worker.err = "invariant"
  /\ \/ /\ receipt' = [receipt EXCEPT ![Command] =
                         [status |-> "rejected", seq |-> readModel.seq]]
        /\ UNCHANGED budget
     \/ Fault("receiptWrite") /\ UNCHANGED receipt
  /\ Answer(Says("invariant"))
  /\ UNCHANGED <<log, queue, exec, due, projectionVars, memoryVars,
                 dirty, catchUp, repair, base>>

SettleFailed ==
  /\ worker.pc = "settle"
  /\ worker.err = "failed"
  /\ Answer(Says("failed"))
  /\ UNCHANGED <<queue, exec, due, projectionVars, storeVars, memoryVars,
                 dirty, catchUp, repair, base, budget>>

-----------------------------------------------------------------------------
(* The replay that the catch-up, repairState and the start run             *)

Replay ==
  /\ \/ BootReplayEvent /\ UNCHANGED budget
     \/ BootNextProjector /\ UNCHANGED budget
     \/ BootFail /\ Fault("bootstrap")
  /\ UNCHANGED <<storeVars, clientVars, memoryVars, lock, worker, dirty,
                 catchUp, repair, base>>

-----------------------------------------------------------------------------
(* The background catch-up                                                 *)

BeginCatchUp ==
  /\ catchUp = "waiting"
  /\ lock = "free"
  /\ lock' = "catchUp"
  /\ catchUp' = "running"
  /\ boot' = BootAt(1, cursor)
  /\ UNCHANGED <<rows, cursor, storeVars, clientVars, memoryVars, worker,
                 dirty, repair, base, budget>>

\* Mutant: the flag survives the catch-up.
EndCatchUpDirty ==
  /\ catchUp = "running"
  /\ boot.pc \in {"done", "failed"}
  /\ UNCHANGED dirty
  /\ catchUp' = "idle"
  /\ boot' = NotBooting
  /\ lock' = "free"
  /\ UNCHANGED <<rows, cursor, storeVars, clientVars, memoryVars, worker,
                 repair, base, budget>>

\* Only a replay that went through clears the flag; either way it is over.
EndCatchUp ==
  /\ catchUp = "running"
  /\ boot.pc \in {"done", "failed"}
  /\ dirty' = (boot.pc = "failed" /\ dirty)
  /\ catchUp' = "idle"
  /\ boot' = NotBooting
  /\ lock' = "free"
  /\ UNCHANGED <<rows, cursor, storeVars, clientVars, memoryVars, worker,
                 repair, base, budget>>

-----------------------------------------------------------------------------
(* repairState                                                             *)

RequestRepair ==
  /\ Up
  /\ repair.pc = "idle"
  /\ budget.repairs > 0
  /\ budget' = [budget EXCEPT !.repairs = @ - 1]
  /\ repair' = [repair EXCEPT !.pc = "waiting"]
  /\ UNCHANGED <<projectionVars, storeVars, clientVars, memoryVars, lock,
                 worker, dirty, catchUp, base>>

\* Mutant: the cursors are not reset with the rows.
ResetRowsOnly ==
  LET reset == [p \in Projectors |-> cursor[p]]
  IN  /\ repair.pc = "waiting"
      /\ lock = "free"
      /\ lock' = "repair"
      /\ repair' = [pc |-> "running", rows |-> rows["projects"], cursor |-> cursor]
      /\ rows' = [rows EXCEPT !["projects"] = <<>>]
      /\ cursor' = reset
      /\ boot' = BootAt(1, reset)
      /\ UNCHANGED <<storeVars, clientVars, memoryVars, worker, dirty, catchUp,
                     base, budget>>

\* Back up, then drop the project rows and the snapshot cursors.
ResetProjects ==
  LET reset == [p \in Projectors |-> IF p \in Snapshot THEN 0 ELSE cursor[p]]
  IN  /\ repair.pc = "waiting"
      /\ lock = "free"
      /\ lock' = "repair"
      /\ repair' = [pc |-> "running", rows |-> rows["projects"], cursor |-> cursor]
      /\ rows' = [rows EXCEPT !["projects"] = <<>>]
      /\ cursor' = reset
      /\ boot' = BootAt(1, reset)
      /\ UNCHANGED <<storeVars, clientVars, memoryVars, worker, dirty, catchUp,
                     base, budget>>

\* The backup or the reset fails, each a transaction of its own.
FailRepair ==
  /\ repair.pc = "waiting"
  /\ lock = "free"
  /\ Fault("repairReset")
  /\ repair' = NoRepair
  /\ UNCHANGED <<projectionVars, storeVars, clientVars, memoryVars, lock,
                 worker, dirty, catchUp, base>>

EndRepair ==
  /\ repair' = NoRepair
  /\ boot' = NotBooting
  /\ lock' = "free"
  /\ UNCHANGED <<storeVars, clientVars, published, worker, dirty, catchUp, base>>

\* Mutant: the threads are dropped from the read model.
RefreshFromTables ==
  /\ repair.pc = "running"
  /\ boot.pc = "done"
  /\ \/ /\ readModel' =
             [readModel EXCEPT
                !.seq = CHOOSE n \in {cursor[p] : p \in Snapshot} :
                          \A p \in Snapshot : n <= cursor[p],
                !.threads = <<>>,
                !.projects = {rows["projects"][i] : i \in DOMAIN rows["projects"]}]
        /\ UNCHANGED budget
     \/ Fault("repairRefresh") /\ UNCHANGED readModel
  /\ EndRepair
  /\ UNCHANGED <<rows, cursor>>

\* The projects and the sequence come from the tables, the threads stay.
RefreshReadModel ==
  /\ repair.pc = "running"
  /\ boot.pc = "done"
  /\ \/ /\ readModel' =
             [readModel EXCEPT
                !.seq = CHOOSE n \in {cursor[p] : p \in Snapshot} :
                          \A p \in Snapshot : n <= cursor[p],
                !.projects = {rows["projects"][i] : i \in DOMAIN rows["projects"]}]
        /\ UNCHANGED budget
     \/ Fault("repairRefresh") /\ UNCHANGED readModel
  /\ EndRepair
  /\ UNCHANGED <<rows, cursor>>

\* The rebuild failed: the backup comes back, what it does not hold stays.
RestoreBackup ==
  /\ repair.pc = "running"
  /\ boot.pc = "failed"
  /\ \/ /\ rows' = [rows EXCEPT !["projects"] = repair.rows]
        /\ cursor' = repair.cursor
        /\ UNCHANGED budget
     \/ Fault("repairRestore") /\ UNCHANGED <<rows, cursor>>
  /\ EndRepair
  /\ UNCHANGED readModel

-----------------------------------------------------------------------------
(* The process                                                             *)

Crash ==
  /\ worker.pc # "down"
  /\ budget.crashes > 0
  /\ budget' = [budget EXCEPT !.crashes = @ - 1]
  /\ answer' = [d \in Dispatches |->
                  IF exec[d] # "none" /\ answer[d] = Unanswered
                  THEN Says("lost") ELSE answer[d]]
  /\ queue' = <<>>
  /\ due' = [d \in Dispatches |-> FALSE]
  /\ readModel' = EmptyReadModel
  /\ published' = <<>>
  /\ lock' = "free"
  /\ worker' = Down
  /\ dirty' = FALSE
  /\ catchUp' = "idle"
  /\ repair' = NoRepair
  /\ boot' = NotBooting
  /\ UNCHANGED <<rows, cursor, storeVars, exec, base>>

Restart ==
  /\ worker.pc = "down"
  /\ worker' = Starting
  /\ boot' = BootAt(1, cursor)
  /\ UNCHANGED <<rows, cursor, storeVars, clientVars, memoryVars, lock, dirty,
                 catchUp, repair, base, budget>>

\* The layer is built: the read model comes from the whole log.  A failed
\* bootstrap ends the process.
FinishStart ==
  /\ worker.pc = "bootstrap"
  /\ \/ /\ boot.pc = "done"
        /\ readModel' = ProjectInMemory(EmptyReadModel, log, 0, Len(log))
        /\ worker' = Idle
        /\ base' = Len(log)
     \/ /\ boot.pc = "failed"
        /\ worker' = Down
        /\ UNCHANGED <<readModel, base>>
  /\ boot' = NotBooting
  /\ UNCHANGED <<rows, cursor, storeVars, clientVars, published, lock, dirty,
                 catchUp, repair, budget>>

-----------------------------------------------------------------------------
Init ==
  /\ log = <<>>
  /\ receipt = [c \in Commands |-> NoReceipt]
  /\ rows = [p \in Projectors |-> <<>>]
  /\ cursor = [p \in Projectors |-> 0]
  /\ boot = NotBooting
  /\ queue = <<>>
  /\ exec = [d \in Dispatches |-> "none"]
  /\ due = [d \in Dispatches |-> FALSE]
  /\ answer = [d \in Dispatches |-> Unanswered]
  /\ readModel = EmptyReadModel
  /\ published = <<>>
  /\ lock = "free"
  /\ worker = Idle
  /\ dirty = FALSE
  /\ catchUp = "idle"
  /\ repair = NoRepair
  /\ base = 0
  /\ budget = [faults |-> MaxFaults, crashes |-> MaxCrashes, repairs |-> MaxRepairs]

Clients == \E d \in Dispatches : Submit(d) \/ DeadlinePasses(d) \/ Abandon(d)

\* What the worker does by itself once it holds the lock.
WorkerStep ==
  \/ SkipAbandoned \/ Start \/ ReplayReceipt \/ NoReceiptYet
  \/ RejectCommand \/ Commit \/ RefuseEmptyCommand
  \/ InstallReadModel \/ ProjectNextDeferred \/ DeferredDone
  \/ PublishNext \/ Succeed
  \/ Reconcile \/ SettleByReceipt \/ SettleRejected \/ SettleFailed

Next ==
  \/ Clients
  \/ Take \/ AcquireLock \/ WorkerStep
  \/ FailBeforeCommit \/ Interrupt
  \/ Replay
  \/ BeginCatchUp \/ EndCatchUp
  \/ RequestRepair \/ ResetProjects \/ FailRepair \/ RefreshReadModel \/ RestoreBackup
  \/ Crash \/ Restart \/ FinishStart

Spec == Init /\ [][Next]_vars

\* The runtime runs every fiber that can run, and the semaphore serves its
\* waiters in turn: a waiter that is repeatedly offered the lock gets it.
\* Nothing makes a caller call, a deadline pass or a process restart.
Fairness ==
  /\ WF_vars(Take) /\ WF_vars(WorkerStep)
  /\ SF_vars(AcquireLock) /\ SF_vars(BeginCatchUp) /\ SF_vars(ResetProjects)
  /\ WF_vars(Replay)
  /\ WF_vars(EndCatchUp) /\ WF_vars(RefreshReadModel) /\ WF_vars(RestoreBackup)
  /\ WF_vars(FinishStart)

FairSpec == Spec /\ Fairness

-----------------------------------------------------------------------------
(* Type correctness                                                        *)

Receipts == [status : {"none", "accepted", "rejected"}, seq : Nat]

Answers == [kind : {"none", "ok", "rejected", "invariant", "failed", "timeout", "lost"},
            seq : Nat]

WorkerStates == {"bootstrap", "down", "take", "lock", "start", "reconcile", "settle"}
                  \cup TimedStates

Workers == [pc : WorkerStates, d : Dispatches \cup {NoDispatch}, start : Nat,
            late : BOOLEAN, first : Nat, next : Nat, last : Nat,
            err : {"none", "timeout", "defect", "invariant", "failed"}]

ReadModels == [seq : Nat, projects : SUBSET Nat, threads : Seq(Nat)]

Repairs == [pc : {"idle", "waiting", "running"}, rows : Seq(Nat),
            cursor : [Projectors -> Nat]]

Holders == {"free", "worker", "catchUp", "repair"}

Budgets == [faults : Nat, crashes : Nat, repairs : Nat]

\* Every variable holds a value of its type.
TypeOK ==
  /\ ProjectionTypeOK
  /\ receipt \in [Commands -> Receipts]
  /\ queue \in Seq(Dispatches)
  /\ exec \in [Dispatches -> {"none", "queued", "in-flight", "abandoned"}]
  /\ due \in [Dispatches -> BOOLEAN]
  /\ answer \in [Dispatches -> Answers]
  /\ readModel \in ReadModels
  /\ published \in Seq(Nat)
  /\ lock \in Holders
  /\ worker \in Workers
  /\ dirty \in BOOLEAN
  /\ catchUp \in {"idle", "waiting", "running"}
  /\ repair \in Repairs
  /\ base \in Nat
  /\ budget \in Budgets

-----------------------------------------------------------------------------
(* Properties                                                              *)

EventsBy(c) == {n \in DOMAIN log : log[n].cmd = c}

WholeOrAbsent(c) ==
  LET first == receipt[c].seq - Len(EventsOf[c]) + 1
  IN  IF receipt[c].status = "accepted"
      THEN /\ EventsBy(c) = first..receipt[c].seq
           /\ \A n \in EventsBy(c) : log[n].kind = EventsOf[c][n - first + 1]
      ELSE EventsBy(c) = {}

\* Commands are deduplicated by receipts and committed atomically: the log
\* holds the events of a command with an accepted receipt once, together
\* and in order, ending at the receipt's sequence, and no event of any other
\* command - through retries, rollbacks, timeouts and crashes.
OnceAndWhole == \A c \in Commands : WholeOrAbsent(c)

\* Dispatch keeps the promises of CommandLedger: the order of the log, the
\* decisions that led to it and every answer are those of a ledger that
\* commands are added to one at a time.
Ledger == INSTANCE CommandLedger WITH ledger <- log
ImplementsLedger == Ledger!LedgerSpec

\* Between commands the read model the next decision will be made on has
\* seen every event of the log, whatever happened to the commands before:
\* the reconciliation after a failure and the rebuild of repairState leave
\* no event out.
ReadModelCurrent ==
  worker.pc = "take" =>
    /\ readModel.seq = Len(log)
    /\ \A n \in DOMAIN log :
         IF log[n].kind = "project"
         THEN n \in readModel.projects
         ELSE \E i \in DOMAIN readModel.threads : readModel.threads[i] = n

\* Between commands the read model has applied every thread event once: a
\* streamed delta is not appended to its message a second time.
ReadModelExact ==
  worker.pc = "take" => readModel.threads = Handled(log, "messages", 0, Len(log))

\* Between commands the subscribers have received every event committed
\* since the process started, also those of commands that failed after
\* their commit.
PublishedAll ==
  worker.pc = "take" =>
    \A n \in (base + 1)..Len(log) : \E i \in DOMAIN published : published[i] = n

\* streamDomainEvents: "persisted domain events in dispatch order ... new
\* events only".  The stream is strictly ascending: no event comes twice.
PublishedOnce ==
  \A i, j \in DOMAIN published : i < j => published[i] < published[j]

\* Every projection table holds exactly the events up to its cursor, each
\* applied once and in order: no cursor passes an event that was not
\* projected, no replay repeats one that was.
TableExact(p) == rows[p] = Handled(log, p, 0, cursor[p])

TablesExact == \A p \in Projectors : cursor[p] <= Len(log) /\ TableExact(p)

\* Every table written by the command transaction is as far as the log
\* whenever nothing is replaying: the transaction leaves none behind.
HotTablesCurrent ==
  lock \in {"free", "worker"} /\ Up =>
    \A p \in Snapshot : cursor[p] = Len(log)

\* "Replays the snapshot-related projector cursors and refreshes the
\* in-memory read model from the repaired projection snapshot": no project
\* is missing from the read model a repair leaves.
RepairKeepsProjects ==
  [][repair.pc = "running" /\ repair'.pc = "idle" /\ worker'.pc # "down"
       => readModel.projects \subseteq readModel'.projects]_vars

\* What was decided stays decided: no retry, failure or restart changes the
\* receipt of a command or the answer to a call.
DecidedOnce ==
  [][/\ \A c \in Commands : receipt[c] # NoReceipt => receipt'[c] = receipt[c]
     /\ \A d \in Dispatches : answer[d] # Unanswered => answer'[d] = answer[d]]_vars

\* Every dispatch is answered in the end, unless the process ends first,
\* which is an answer here too: a command in flight is waited for without a
\* bound, so nothing but the worker's progress guarantees this.
Answered == \A d \in Dispatches : exec[d] = "queued" ~> answer[d] # Unanswered

\* The deferred projection recovers: once it has slipped, the background
\* replay brings the shell summaries' cursor up to the end of the log and
\* ends the detour.  This holds as long as the replay itself does not fail:
\* then nothing retries it before the next thread event.
Recovers == dirty ~> (~dirty /\ cursor["shell"] = Len(log))

=============================================================================
