------------------------- MODULE ProviderSessions -------------------------
(***************************************************************************)
(* ProviderService, the session directory and the Codex manager: who keeps *)
(* the agent's process of a thread, and what conversation it continues.    *)
(*   - the directory's row (binding) survives restarts: it holds the       *)
(*     cursor of the provider's conversation;                              *)
(*   - the manager's map (session) holds the context of a live process;    *)
(*   - calls of the reactor, of another client (a revert, a socket) and of *)
(*     the idle timer overlap: each waits for the database, for an answer  *)
(*     of the process or for its timeout, and reads again nothing of what  *)
(*     it knew before.                                                     *)
(* Threads do not touch each other: this is one, of the provider Codex.    *)
(* A conversation is a number, 0 is no cursor.  Left out: review, steering,*)
(* compaction, forks, approvals, discovery sessions, a start with a cursor *)
(* of its own (an import), and what the row holds besides the cursor.      *)
(***************************************************************************)
EXTENDS Naturals, Sequences

CONSTANTS
  Absent,             \* no row
  MaxCalls,           \* calls of the reactor (bound)
  MaxOthers,          \* calls of the other client (bound)
  MaxStarts,          \* processes started (bound)
  MaxConversations,   \* conversations Codex begins (bound)
  MaxLag,             \* events on their way to the service (bound)
  MaxFaults           \* failed database accesses and crashes (bound)

ASSUME SessionsAssumption ==
  /\ Absent \notin Nat
  /\ MaxCalls \in Nat /\ MaxOthers \in Nat /\ MaxStarts \in Nat /\ MaxConversations \in Nat
  /\ MaxLag \in Nat /\ MaxFaults \in Nat

Actors == {"reactor", "client", "timer"}

VARIABLES
  binding,        \* provider_session_runtime: the row's cursor, or Absent
  contexts,       \* the CodexSessionContexts, in the order they were made
  session,        \* the manager's map: the thread's context, or 0
  timer,          \* whether runtimeIdleTimers has one
  events,         \* runtime events the service has not seen
  call,           \* actor -> the call it waits in
  calls,          \* actor -> calls made
  conversations,  \* conversations Codex has begun
  gone,           \* those it does not have any more
  last,           \* the conversation of the last turn, 0: none to keep (history)
  stale,          \* the row was written for a state that was past, or a new cursor
                  \* could not be written (history)
  faults

codex == <<conversations, gone>>

vars == <<binding, contexts, session, timer, events, call, calls, codex, last, stale, faults>>

\* seen: the row it knows; after: it began after the timer was set.
Idle == [op |-> "none", pc |-> "done", context |-> 0, cursor |-> 0, taken |-> FALSE,
         seen |-> Absent, after |-> FALSE]

\* status, active: of the ProviderSession; over: stopped, or its exit was
\* heard; alive, turn: of the process;
\* announced, odd: see AtRestStoppable.
NewContext == [status |-> "connecting", active |-> FALSE, cursor |-> 0, over |-> FALSE,
               alive |-> TRUE, turn |-> "none", announced |-> FALSE, odd |-> FALSE]

Busy(a) == call[a].op # "none"

At(a, pc) == call[a].pc = pc

Goto(a, pc) == call' = [call EXCEPT ![a].pc = pc]

Return(a) == call' = [call EXCEPT ![a] = Idle]

-----------------------------------------------------------------------------
(* The manager: contexts                                                   *)

\* What is left of a context that was stopped: its process is killed and what
\* it still says is ignored.
Closed ==
  [NewContext EXCEPT !.status = "closed", !.over = TRUE, !.alive = FALSE]

\* Stops the session the map has for the thread, if any.
StopRegistered(cs) == IF session = 0 THEN cs ELSE [cs EXCEPT ![session] = Closed]

Exited == IF session = 0 THEN events ELSE Append(events, "session.exited")

StopSession ==
  /\ contexts' = StopRegistered(contexts)
  /\ session' = 0 /\ events' = Exited

\* Mutant: a start forgets the session there is.
KeepRegistered(cs) == cs

\* What a start does first to the session there is.
Replaced(cs) == StopRegistered(cs)

\* adapter.startSession, until its first answer: a new process.
Launch(a, cursor) ==
  /\ Len(contexts) < MaxStarts
  /\ contexts' = Append(Replaced(contexts), NewContext)
  /\ session' = Len(contexts) + 1 /\ events' = Exited
  /\ call' = [call EXCEPT ![a].pc = "opening", ![a].context = Len(contexts) + 1,
                          ![a].cursor = cursor, ![a].seen = binding]

\* A request to the process the thread has now.
Ask(a) ==
  IF session = 0 \/ contexts[session].cursor = 0 THEN Return(a)
  ELSE \/ call' = [call EXCEPT ![a].pc = "asked", ![a].context = session, ![a].cursor = 0,
                               ![a].seen = binding']
       \/ ~contexts[session].alive /\ Return(a)

-----------------------------------------------------------------------------
(* The service's calls                                                     *)

\* A call begins; the stops and the start clear the idle timer at once.
Begin(a, op) ==
  /\ ~Busy(a)
  /\ \/ a = "reactor" /\ op # "rollback" /\ calls[a] < MaxCalls
     \/ a = "client" /\ op = "rollback" /\ calls[a] < MaxOthers
  /\ calls' = [calls EXCEPT ![a] = @ + 1]
  /\ call' = [call EXCEPT ![a] = [Idle EXCEPT !.op = op, !.pc = "read", !.after = timer]]
  /\ timer' = (timer /\ op \in {"send", "rollback"})
  /\ UNCHANGED <<binding, contexts, session, events, codex, last, stale, faults>>

\* Ten minutes go by; no call lasts that long.
TimerFires ==
  /\ timer /\ ~Busy("timer") /\ \A a \in Actors : Busy(a) => call[a].after
  /\ timer' = FALSE
  /\ call' = [call EXCEPT !["timer"] = [Idle EXCEPT !.op = "idle", !.pc = "read"]]
  /\ UNCHANGED <<binding, contexts, session, events, calls, codex, last, stale, faults>>

\* Mutant: a start, or a recovery, does not look for the conversation there was.
FreshCursor == 0

\* The cursor a start, or a recovery, resumes from.
StartCursor == IF binding = Absent THEN 0 ELSE binding

\* startSession: read the row, start a process.
ReadForStart(a) ==
  /\ call[a].op = "start"
  /\ Launch(a, StartCursor)
  /\ UNCHANGED timer

\* resolveRoutableSession: the session there is, or one resumed.
ReadForRequest(a) ==
  /\ call[a].op \in {"send", "rollback"}
  /\ \/ /\ binding # Absent /\ session = 0 /\ binding # 0
        /\ Launch(a, StartCursor)
     \/ /\ binding # Absent /\ session # 0
        /\ Ask(a) /\ UNCHANGED <<contexts, session, events>>
     \/ /\ binding = Absent \/ (session = 0 /\ binding = 0)
        /\ Return(a) /\ UNCHANGED <<contexts, session, events>>
  /\ UNCHANGED timer

\* A session that waits for a turn.
Stoppable(context) == context.status = "ready" /\ ~context.active /\ context.cursor # 0

\* stopIdleRuntimeSession: only a session that waits for a turn is stopped.
ReadForIdle(a) ==
  /\ call[a].op = "idle"
  /\ IF binding # Absent /\ session # 0 /\ Stoppable(contexts[session])
     THEN call' = [call EXCEPT ![a].op = "stopRuntime"] /\ timer' = FALSE
     ELSE Return(a) /\ timer' = timer
  /\ UNCHANGED <<contexts, session, events>>

\* stopSession, stopRuntimeSession, clearSessionResumeCursor
ReadForStop(a) ==
  /\ call[a].op \in {"stop", "stopRuntime", "clear"}
  /\ IF binding = Absent
     THEN Return(a) /\ UNCHANGED <<contexts, session, events>>
     ELSE /\ StopSession
          /\ call' = [call EXCEPT ![a].pc = "unbind", ![a].cursor = binding,
                                  ![a].seen = binding, ![a].context = Len(contexts)]
  /\ UNCHANGED timer

Read(a) ==
  /\ At(a, "read") /\ binding' = binding
  /\ ReadForStart(a) \/ ReadForRequest(a) \/ ReadForIdle(a) \/ ReadForStop(a)
  /\ UNCHANGED <<calls, codex, last, stale, faults>>

\* The row changed, or another process was started, since the call looked.
Overtaken(a) == binding # call[a].seen \/ Len(contexts) # call[a].context

\* After a start, or a turn, the row gets the cursor it came back with; a
\* recovered call goes on to its request.
Bind(a) ==
  /\ At(a, "bind")
  /\ binding' = call[a].cursor
  /\ stale' = (stale \/ Overtaken(a))
  /\ IF call[a].op = "start" \/ call[a].taken THEN Return(a) ELSE Ask(a)
  /\ UNCHANGED <<contexts, session, timer, events, calls, codex, last, faults>>

\* What the row holds after a stop.
AfterStop(c) ==
  CASE c.op = "stop" -> Absent [] c.op = "stopRuntime" -> c.cursor [] c.op = "clear" -> 0

\* After a stop: what it read before it stopped the process is written back.
Unbind(a) ==
  /\ At(a, "unbind")
  /\ binding' = AfterStop(call[a])
  /\ stale' = (stale \/ Overtaken(a))
  /\ last' = IF call[a].op = "stopRuntime" THEN last ELSE 0
  /\ Return(a)
  /\ UNCHANGED <<contexts, session, timer, events, calls, codex, faults>>

\* A database access fails.
AccessFails(a) ==
  /\ faults < MaxFaults /\ faults' = faults + 1
  /\ call[a].pc \in {"read", "bind", "unbind"}
  /\ stale' = (stale \/ (At(a, "bind") /\ binding # call[a].cursor))
  /\ Return(a)
  /\ UNCHANGED <<binding, contexts, session, timer, events, calls, codex, last>>

-----------------------------------------------------------------------------
(* The process answers, or does not                                        *)

Listens(c) == contexts[c].alive /\ ~contexts[c].over

Opened(a, conversation, announced) ==
  /\ contexts' = [contexts EXCEPT ![call[a].context].status = "ready",
                                  ![call[a].context].cursor = conversation,
                                  ![call[a].context].announced = announced]
  /\ events' = IF announced THEN Append(events, "thread.started") ELSE events
  /\ call' = [call EXCEPT ![a].pc = "opened", ![a].cursor = conversation]

\* The conversation is resumed.
Resume(a) ==
  /\ At(a, "opening") /\ Listens(call[a].context)
  /\ call[a].cursor \notin {0} \cup gone
  /\ Opened(a, call[a].cursor, FALSE)
  /\ UNCHANGED <<binding, session, timer, calls, codex, last, stale, faults>>

\* A new one is begun, and announced: also instead of one that Codex no longer
\* has.
OpenFresh(a) ==
  /\ At(a, "opening") /\ Listens(call[a].context)
  /\ conversations < MaxConversations /\ conversations' = conversations + 1
  /\ Opened(a, conversations + 1, TRUE)
  /\ gone' = gone \cup ({call[a].cursor} \ {0})
  /\ last' = IF call[a].cursor # 0 THEN 0 ELSE last
  /\ UNCHANGED <<binding, session, timer, calls, stale, faults>>

\* startSession resumes: the session is returned to the service.
Start(a) ==
  /\ At(a, "opened") /\ Goto(a, "bind")
  /\ UNCHANGED <<binding, contexts, session, timer, events, calls, codex, last, stale, faults>>

\* The start was stopped, refused or timed out: whatever session the thread
\* has by now is stopped.
OpenFails(a) ==
  /\ At(a, "opening")
  /\ StopSession /\ Return(a)
  /\ UNCHANGED <<binding, timer, calls, codex, last, stale, faults>>

\* Codex takes a turn.
Take(a) ==
  /\ At(a, "asked") /\ call[a].op = "send" /\ ~call[a].taken
  /\ Listens(call[a].context) /\ contexts[call[a].context].turn = "none"
  /\ contexts' = [contexts EXCEPT ![call[a].context].turn = "taken"]
  /\ call' = [call EXCEPT ![a].taken = TRUE]
  /\ last' = contexts[call[a].context].cursor
  /\ UNCHANGED <<binding, session, timer, events, calls, codex, stale, faults>>

Answer(a) ==
  /\ At(a, "asked") /\ Listens(call[a].context)
  /\ IF call[a].op = "send" THEN call[a].taken ELSE contexts[call[a].context].turn = "none"
  /\ call' = [call EXCEPT ![a].pc = "answered", ![a].cursor = contexts[call[a].context].cursor]
  /\ UNCHANGED <<binding, contexts, session, timer, events, calls, codex, last, stale, faults>>

\* The request was rejected, or its answer took too long.
AskFails(a) ==
  /\ At(a, "asked") /\ Return(a)
  /\ UNCHANGED <<binding, contexts, session, timer, events, calls, codex, last, stale, faults>>

\* sendTurn and rollbackThread resume after the answer, whatever other lines
\* were handled meanwhile.
Continue(a) ==
  LET c == call[a].context
      sent == call[a].op = "send"
  IN  /\ At(a, "answered")
      /\ contexts' = IF contexts[c].over THEN contexts
                      ELSE [contexts EXCEPT
                             ![c].status = IF sent THEN "running" ELSE "ready",
                             ![c].active = sent,
                             ![c].odd = IF sent THEN contexts[c].turn = "none" ELSE @]
      /\ IF sent THEN Goto(a, "bind") ELSE Return(a)
      /\ UNCHANGED <<binding, session, timer, events, calls, codex, last, stale, faults>>

\* handleServerNotification: turn/started
NotifyStarted(c) ==
  /\ Listens(c) /\ contexts[c].turn = "taken" /\ Len(events) < MaxLag
  /\ contexts' = [contexts EXCEPT ![c].turn = "started", ![c].status = "running",
                                  ![c].active = TRUE]
  /\ events' = Append(events, "turn.started")
  /\ UNCHANGED <<binding, session, timer, call, calls, codex, last, stale, faults>>

\* turn/completed, after the answer; a turn that failed leaves an error.
NotifyCompleted(c) ==
  /\ Listens(c) /\ contexts[c].turn = "started" /\ Len(events) < MaxLag
  /\ ~\E a \in Actors : At(a, "asked") /\ call[a].taken /\ call[a].context = c
  /\ \E failed \in BOOLEAN :
       contexts' = [contexts EXCEPT ![c].turn = "none", ![c].active = FALSE,
                      ![c].status = IF failed THEN "error" ELSE "ready",
                      ![c].announced = TRUE, ![c].odd = failed]
  /\ events' = Append(events, "turn.completed")
  /\ UNCHANGED <<binding, session, timer, call, calls, codex, last, stale, faults>>

\* A process dies by itself.
Die(c) ==
  /\ Listens(c)
  /\ contexts' = [contexts EXCEPT ![c].alive = FALSE, ![c].turn = "none"]
  /\ UNCHANGED <<binding, session, timer, events, call, calls, codex, last, stale, faults>>

\* That is heard.
HearExit(c) ==
  /\ ~contexts[c].alive /\ ~contexts[c].over
  /\ contexts' = [contexts EXCEPT ![c] = Closed]
  /\ session' = 0 /\ events' = Append(events, "session.exited")
  /\ UNCHANGED <<binding, timer, call, calls, codex, last, stale, faults>>

\* Mutant: the end of a turn does not set the timer.
ArmsAtStart == {"thread.started"}

\* The events that set the idle timer; the others clear it.
Arms == {"thread.started", "turn.completed"}

\* reconcileRuntimeIdleTimer
Reconcile ==
  /\ events # <<>> /\ events' = Tail(events)
  /\ timer' = (Head(events) \in Arms)
  /\ call' = [a \in Actors |-> [call[a] EXCEPT !.after = FALSE]]
  /\ UNCHANGED <<binding, contexts, session, calls, codex, last, stale, faults>>

\* The server ends: runStopAll writes the live session's cursor down.  Or it
\* crashes.
EndServer(graceful) ==
  /\ faults < MaxFaults /\ faults' = faults + 1
  /\ binding' = IF graceful /\ session # 0
                THEN LET cursor == contexts[session].cursor
                     IN  IF cursor # 0 THEN cursor ELSE StartCursor
                ELSE binding
  /\ contexts' = [c \in DOMAIN contexts |-> Closed]
  /\ session' = 0 /\ timer' = FALSE /\ events' = <<>>
  /\ call' = [a \in Actors |-> Idle]
  /\ UNCHANGED <<calls, codex, last, stale>>

-----------------------------------------------------------------------------
Init ==
  /\ binding = Absent /\ contexts = <<>> /\ session = 0 /\ timer = FALSE /\ events = <<>>
  /\ call = [a \in Actors |-> Idle] /\ calls = [a \in Actors |-> 0]
  /\ conversations = 0 /\ gone = {} /\ last = 0 /\ stale = FALSE /\ faults = 0

\* What a call does next when it need not wait for Codex; timeouts included.
Progress(a) ==
  \/ Read(a) \/ Bind(a) \/ Unbind(a) \/ Start(a) \/ Continue(a)
  \/ OpenFails(a) \/ AskFails(a)

Next ==
  \/ \E a \in Actors, op \in {"start", "send", "rollback", "stop", "stopRuntime", "clear"} :
       Begin(a, op)
  \/ \E a \in Actors : Progress(a) \/ AccessFails(a) \/ Resume(a) \/ OpenFresh(a) \/ Take(a)
                         \/ Answer(a)
  \/ \E c \in DOMAIN contexts : NotifyStarted(c) \/ NotifyCompleted(c) \/ Die(c) \/ HearExit(c)
  \/ TimerFires \/ Reconcile
  \/ \E graceful \in BOOLEAN : EndServer(graceful)

Spec == Init /\ [][Next]_vars

-----------------------------------------------------------------------------
(* Properties                                                              *)

\* Every process that still runs and was not told to end is the one the
\* thread's session names, and the session names none that is over: no process
\* is left that nobody could stop and no request goes to one that was, whatever
\* starts, stops, timeouts, failures and deaths crossed.
NoStrayProcess ==
  /\ \A c \in DOMAIN contexts : Listens(c) => session = c
  /\ session # 0 => ~contexts[session].over

\* The turns of a thread go to one conversation, through deaths of the
\* process, restarts and crashes of the server and timeouts, until the thread
\* is stopped, its cursor cleared or Codex does not have it any more - unless a
\* stop wrote back a row that had changed since it was read, or a new cursor
\* could not be written.
ConversationKept == [][last # 0 /\ last' # 0 /\ last' # last => stale]_vars

AtRest(c) ==
  /\ \A a \in Actors : ~Busy(a)
  /\ events = <<>> /\ contexts[c].turn = "none" /\ Listens(c)

\* A session at rest that has had a turn, or announced its conversation, can
\* be stopped and is going to be: it is ready, its row is there and says how
\* to resume it, and the timer runs.  Not so after a turn that failed or whose
\* end was heard before its sender resumed (odd), or a fault.
AtRestStoppable ==
  \A c \in DOMAIN contexts :
    AtRest(c) /\ contexts[c].announced /\ ~contexts[c].odd /\ ~stale /\ faults = 0 =>
      Stoppable(contexts[c]) /\ binding = contexts[c].cursor /\ timer

=============================================================================
