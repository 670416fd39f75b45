------------------------------ MODULE TurnQueue ------------------------------
(***************************************************************************)
(* How the messages of one thread become provider turns:                   *)
(*   - the decider queues a message when the read model shows a running    *)
(*     turn and requests a turn start otherwise;                           *)
(*   - ProviderCommandReactor keeps the queued messages in memory, hands   *)
(*     requested starts to the provider, and promotes one queued message   *)
(*     whenever a turn ends;                                               *)
(*   - ProviderRuntimeIngestion turns the provider's events into the       *)
(*     session the decider looks at.                                       *)
(* The reactor hears of turns ending straight from the provider, the       *)
(* decider through the ingestion's commands: neither waits for the other.  *)
(*                                                                         *)
(* A dispatch is one step here (OrchestrationEngine says why it may be).   *)
(* The provider is one that answers a send during a turn by closing that   *)
(* turn (ClaudeAdapter); Codex steering is not modelled, nor is the        *)
(* replacement of a live session when the model or the mode changes.       *)
(***************************************************************************)
EXTENDS Naturals, Sequences, FiniteSets

CONSTANTS
  Messages,
  NoMessage,
  Steered,         \* the messages sent with dispatchMode "steer"
  MaxStops,        \* session stops a user asks for
  MaxSendFaults,   \* sends the provider refuses
  MaxDispatchFaults, \* dispatches of a promotion the engine fails
  Redelivered,     \* the event types the domain stream may bring twice
  MaxRedeliveries

ASSUME TurnQueueAssumption ==
  /\ NoMessage \notin Messages
  /\ Steered \subseteq Messages
  /\ MaxStops \in Nat /\ MaxSendFaults \in Nat
  /\ MaxDispatchFaults \in Nat /\ MaxRedeliveries \in Nat

\* The turn a message starts is named by the message.
Turns == Messages \cup {NoMessage}

VARIABLES
  sent,      \* messages the user has sent
  session,   \* the thread's session in the read model
  events,    \* domain events on the way to the reactor
  eventId,   \* identifies the last command's events (bounded by the run)
  handled,   \* handledTurnStartKeys
  pending,   \* queuedTurnStartsByThread
  draining,  \* is the thread in drainingQueuedTurns?
  drain,     \* drainQueuedTurnsForThread, per fiber that may run it
  reactor,   \* the reactor's worker
  connected, \* has the provider a session for the thread?
  active,    \* the provider's turn
  runtime,   \* provider events on the way to the ingestion
  ended,     \* terminal provider events on the way to the drain fiber
  ingest,    \* the session the ingestion has decided to dispatch
  arrived,   \* messages in the order they joined the queue (history)
  delivered, \* sends the provider has accepted (history)
  failed,    \* messages answered by a failure activity (history)
  dropped,   \* messages a stop removed from the queue (history)
  lost,      \* messages whose promotion the engine failed (history)
  unmarked,  \* has a stop taken the mark of a drain that was running? (history)
  overtaken, \* has a stop that spared a live session set it right after its
             \* turn was announced? (history)
  budget     \* stops, faults and redeliveries to come (bound)

history == <<arrived, delivered, failed, dropped, lost, unmarked, overtaken>>
provider == <<connected, active, runtime, ended>>
vars == <<sent, session, events, eventId, handled, pending, draining, drain,
          reactor, provider, ingest, history, budget>>

\* The reactor's worker, and the fiber that watches for turns ending.
Fibers == {"worker", "stream"}

NoTurn == NoMessage

NoSession == [status |-> "none", turn |-> NoTurn]

Session(status, turn) == [status |-> status, turn |-> turn]

Resting == [pc |-> "idle", msg |-> NoMessage, promoted |-> FALSE]

NotDraining == [pc |-> "off", msg |-> NoMessage]

Event(type, m, promoted, id) ==
  [type |-> type, msg |-> m, promoted |-> promoted, id |-> id]

Running == session.status = "running" /\ session.turn # NoTurn

Dispatched(new) ==
  /\ events' = events \o new
  /\ eventId' = eventId + 1

Emit(new) == runtime' = runtime \o new

\* A fiber is between taking the mark of the thread and clearing it.
Promoting(f) == drain[f].pc \in {"dequeue", "dispatch"}

Terminal(t) == [type |-> "turn.completed", turn |-> t]

-----------------------------------------------------------------------------
(* The commands of the user                                                *)

\* thread.turn.start: with a turn running the message is queued, and a steer
\* interrupts that turn too.
SendMessage(m) ==
  LET id == eventId + 1
      queued == Event("queued", m, FALSE, id)
      stop   == Event("interrupt", m, FALSE, id)
  IN  /\ m \notin sent
      /\ sent' = sent \cup {m}
      /\ Dispatched(IF ~Running THEN <<Event("start", m, FALSE, id)>>
                    ELSE IF m \in Steered THEN <<queued, stop>> ELSE <<queued>>)
      /\ UNCHANGED <<session, handled, pending, draining, drain, reactor,
                     provider, ingest, history, budget>>

StopSession ==
  /\ budget.stops > 0
  /\ budget' = [budget EXCEPT !.stops = @ - 1]
  /\ Dispatched(<<Event("stop", NoMessage, FALSE, eventId + 1)>>)
  /\ UNCHANGED <<sent, session, handled, pending, draining, drain, reactor,
                 provider, ingest, history>>

\* The engine publishes an event again after a timeout that follows the
\* commit (OrchestrationEngine, Reconcile).
Redeliver ==
  /\ budget.redeliveries > 0
  /\ events # <<>>
  /\ events[Len(events)].type \in Redelivered
  /\ events' = Append(events, events[Len(events)])
  /\ budget' = [budget EXCEPT !.redeliveries = @ - 1]
  /\ UNCHANGED <<sent, session, eventId, handled, pending, draining, drain,
                 reactor, provider, ingest, history>>

-----------------------------------------------------------------------------
(* The reactor's worker                                                    *)

NextEvent(type) ==
  /\ reactor.pc = "idle"
  /\ events # <<>>
  /\ Head(events).type = type
  /\ events' = Tail(events)

\* Mutant: every message overtakes those before it.
EnqueueFirst(m) == <<m>> \o pending

\* Mutant: the message replaces the queue of the thread.
EnqueueOver(m) == <<m>>

\* enqueueQueuedTurnStart: a steered message overtakes the others.
Enqueue(m) == IF m \in Steered THEN <<m>> \o pending ELSE Append(pending, m)

ProcessTurnQueued ==
  /\ NextEvent("queued")
  /\ pending' = Enqueue(Head(events).msg)
  /\ arrived' = Append(arrived, Head(events).msg)
  /\ UNCHANGED <<sent, session, eventId, handled, draining, drain, reactor,
                 provider, ingest, delivered, failed, dropped, lost, unmarked,
                 overtaken, budget>>

\* Mutant: the start is not looked up among those handled before.
NotHandled(e) == TRUE

\* hasHandledTurnStartRecently, for as long as the cache remembers.
FirstHandled(e) == e.id \notin handled

\* ensureSessionForThread: without a session that is live for both sides one
\* is started, announced by the provider, and bound to the thread.  (A thread
\* that forks another is bound to the forked session: the same to the queue.
\* That a live session is replaced when the user changes the model or the
\* runtime mode is left out: no message here changes them.)
EnsureSession ==
  IF session.status \notin {"none", "stopped"} /\ connected
  THEN UNCHANGED <<session, connected, runtime>>
  ELSE /\ connected' = TRUE
       /\ Emit(<<[type |-> "session.started", turn |-> NoTurn]>>)
       /\ session' = Session("ready", NoTurn)

\* processTurnStartRequested, up to the call of the provider.
ProcessTurnStartRequested ==
  LET e == Head(events)
  IN  /\ NextEvent("start")
      /\ handled' = handled \cup {e.id}
      /\ \/ /\ ~FirstHandled(e)
            /\ UNCHANGED <<reactor, session, connected, runtime>>
         \/ /\ FirstHandled(e)
            /\ reactor' = [pc |-> "sending", msg |-> e.msg, promoted |-> e.promoted]
            /\ EnsureSession
      /\ UNCHANGED <<sent, eventId, pending, draining, drain, active, ended,
                     ingest, history, budget>>

Closing == IF active = NoTurn THEN <<>> ELSE <<Terminal(active)>>

\* Mutant: the turn that is closed is not announced.
CloseTurnSilently ==
  /\ reactor.pc = "sending"
  /\ active # NoTurn
  /\ active' = NoTurn
  /\ UNCHANGED <<sent, session, events, eventId, handled, pending, draining, drain,
                 reactor, connected, runtime, ended, ingest, history, budget>>

\* The provider is sent a message during a turn: it closes that turn first.
CloseOpenTurn ==
  /\ reactor.pc = "sending"
  /\ active # NoTurn
  /\ Emit(Closing)
  /\ ended' = ended \o Closing
  /\ active' = NoTurn
  /\ UNCHANGED <<sent, session, events, eventId, handled, pending, draining, drain,
                 reactor, connected, ingest, history, budget>>

\* The provider takes the message.
SendTurn ==
  LET m == reactor.msg
  IN  /\ reactor.pc = "sending"
      /\ active = NoTurn
      /\ delivered' = Append(delivered, [msg |-> m, promoted |-> reactor.promoted])
      /\ active' = m
      /\ Emit(<<[type |-> "turn.started", turn |-> m]>>)
      /\ reactor' = Resting
      /\ UNCHANGED <<sent, session, events, eventId, handled, pending, draining, drain,
                     connected, ended, ingest, arrived, failed, dropped, lost, unmarked,
                     overtaken, budget>>

\* The provider refuses, before or after closing a turn: a failure activity,
\* then the queue is drained.
SendTurnFails ==
  /\ reactor.pc = "sending"
  /\ budget.sendFaults > 0
  /\ budget' = [budget EXCEPT !.sendFaults = @ - 1]
  /\ failed' = failed \cup {reactor.msg}
  /\ reactor' = [Resting EXCEPT !.pc = "draining"]
  /\ drain' = [drain EXCEPT !["worker"] = [NotDraining EXCEPT !.pc = "begin"]]
  /\ UNCHANGED <<sent, session, events, eventId, handled, pending, draining,
                 provider, ingest, arrived, delivered, dropped, lost, unmarked, overtaken>>

\* The worker goes on when the drain it ran is over.
ResumeWorker ==
  /\ reactor.pc = "draining"
  /\ drain["worker"].pc = "off"
  /\ reactor' = Resting
  /\ UNCHANGED <<sent, session, events, eventId, handled, pending, draining, drain,
                 provider, ingest, history, budget>>

\* processTurnInterruptRequested: what the provider is asked to interrupt
\* ends sooner, which EndTurn may do at any time: nothing else changes.
ProcessTurnInterruptRequested ==
  /\ NextEvent("interrupt")
  /\ UNCHANGED <<sent, session, eventId, handled, pending, draining, drain, reactor,
                 provider, ingest, history, budget>>

\* processSessionStopRequested: the queue and the draining mark are dropped.
\* A session that is shown as live is stopped, which closes its turn; then the
\* thread's session is set.  Otherwise that is dispatched at once: before what
\* the ingestion has decided on, or next after it if that was dispatched first.
ProcessSessionStopRequested ==
  LET shown == session.status \notin {"none", "stopped"}
      Setting(pc) == reactor' = [Resting EXCEPT !.pc = pc]
  IN  /\ NextEvent("stop")
      /\ pending' = <<>>
      /\ dropped' = dropped \cup {pending[i] : i \in DOMAIN pending}
      /\ draining' = FALSE
      /\ unmarked' = (unmarked \/ \E f \in Fibers : Promoting(f))
      /\ \/ /\ shown /\ connected
            /\ Emit(Closing \o <<[type |-> "session.exited", turn |-> NoTurn]>>)
            /\ ended' = ended \o Closing
            /\ active' = NoTurn
            /\ connected' = FALSE
            /\ Setting("stopping")
            /\ UNCHANGED overtaken
         \/ shown /\ ~connected /\ Setting("stopping") /\ UNCHANGED <<provider, overtaken>>
         \/ ~shown /\ Setting("setting") /\ UNCHANGED <<provider, overtaken>>
         \/ /\ ~shown /\ ingest # NoSession
            /\ Setting("waiting")
            /\ overtaken' = (overtaken \/ (connected /\ ingest.turn # NoTurn))
            /\ UNCHANGED provider
      /\ UNCHANGED <<sent, session, eventId, handled, drain, ingest, arrived,
                     delivered, failed, lost, budget>>

SetSessionStopped ==
  /\ reactor.pc \in {"stopping", "setting"}
  /\ reactor' = Resting
  /\ session' = Session("stopped", NoTurn)
  /\ UNCHANGED <<sent, events, eventId, handled, pending, draining, drain,
                 provider, ingest, history, budget>>

-----------------------------------------------------------------------------
(* drainQueuedTurnsForThread                                               *)

\* A terminal event wakes the drain fiber.
HearTurnEnded ==
  /\ ended # <<>>
  /\ drain["stream"].pc = "off"
  /\ ended' = Tail(ended)
  /\ drain' = [drain EXCEPT !["stream"].pc = "begin"]
  /\ UNCHANGED <<sent, session, events, eventId, handled, pending, draining, reactor,
                 connected, active, runtime, ingest, history, budget>>

BeginDrain(f) ==
  /\ drain[f].pc = "begin"
  /\ draining' = TRUE
  /\ drain' = [drain EXCEPT ![f].pc = IF draining THEN "off" ELSE "dequeue"]
  /\ UNCHANGED <<sent, session, events, eventId, handled, pending, reactor,
                 provider, ingest, history, budget>>

\* Mutant: with nothing queued the mark stays.
DequeueKeepsMark(f) ==
  /\ drain[f].pc = "dequeue"
  /\ UNCHANGED draining
  /\ \/ /\ pending = <<>>
        /\ drain' = [drain EXCEPT ![f] = NotDraining]
        /\ UNCHANGED pending
     \/ /\ pending # <<>>
        /\ drain' = [drain EXCEPT ![f] = [pc |-> "dispatch", msg |-> Head(pending)]]
        /\ pending' = Tail(pending)
  /\ UNCHANGED <<sent, session, events, eventId, handled, reactor, provider,
                 ingest, history, budget>>

\* Mutant: an empty queue is dispatched from too.
DequeueUnchecked(f) ==
  /\ drain[f].pc = "dequeue"
  /\ UNCHANGED draining
  /\ \/ /\ pending = <<>>
        /\ drain' = [drain EXCEPT ![f].pc = "dispatch"]
        /\ UNCHANGED pending
     \/ /\ pending # <<>>
        /\ drain' = [drain EXCEPT ![f] = [pc |-> "dispatch", msg |-> Head(pending)]]
        /\ pending' = Tail(pending)
  /\ UNCHANGED <<sent, session, events, eventId, handled, reactor, provider,
                 ingest, history, budget>>

\* One message is taken; with none the drain is over.
Dequeue(f) ==
  /\ drain[f].pc = "dequeue"
  /\ \/ /\ pending = <<>>
        /\ drain' = [drain EXCEPT ![f] = NotDraining]
        /\ draining' = FALSE
        /\ UNCHANGED pending
     \/ /\ pending # <<>>
        /\ drain' = [drain EXCEPT ![f] = [pc |-> "dispatch", msg |-> Head(pending)]]
        /\ pending' = Tail(pending)
        /\ UNCHANGED draining
  /\ UNCHANGED <<sent, session, events, eventId, handled, reactor, provider,
                 ingest, history, budget>>

\* thread.turn.dispatch-queued: a start is requested, whatever is running.
DispatchQueued(f) ==
  /\ drain[f].pc = "dispatch"
  /\ Dispatched(<<Event("start", drain[f].msg, TRUE, eventId + 1)>>)
  /\ drain' = [drain EXCEPT ![f] = NotDraining]
  /\ draining' = FALSE
  /\ UNCHANGED <<sent, session, handled, pending, reactor, provider, ingest,
                 history, budget>>

\* The dispatch fails.  The failure leaves the generator without resuming
\* it, so the finally block does not run: the mark stays, and the message is
\* in nobody's hands.  The event that led here is logged and done with.
DispatchQueuedFails(f) ==
  /\ drain[f].pc = "dispatch"
  /\ budget.dispatchFaults > 0
  /\ budget' = [budget EXCEPT !.dispatchFaults = @ - 1]
  /\ lost' = lost \cup {drain[f].msg}
  /\ drain' = [drain EXCEPT ![f] = NotDraining]
  /\ UNCHANGED <<sent, session, events, eventId, handled, pending, draining, reactor,
                 provider, ingest, arrived, delivered, failed, dropped, unmarked, overtaken>>

-----------------------------------------------------------------------------
(* The provider and the ingestion of its events                            *)

EndTurn ==
  /\ active # NoTurn
  /\ Emit(Closing)
  /\ ended' = ended \o Closing
  /\ active' = NoTurn
  /\ UNCHANGED <<sent, session, events, eventId, handled, pending, draining, drain,
                 reactor, connected, ingest, history, budget>>

\* shouldApplyThreadLifecycle: a turn other than the active one neither
\* starts nor ends the thread's turn.
Believes(e) ==
  \/ e.type \in {"session.started", "session.exited"}
  \/ session.turn \in {NoTurn, e.turn}

\* processRuntimeEvent reads the read model and decides on a session ...
IngestRuntimeEvent ==
  LET e == Head(runtime)
  IN  /\ runtime # <<>>
      /\ ingest = NoSession
      /\ runtime' = Tail(runtime)
      /\ ingest' = IF ~Believes(e) THEN NoSession
                   ELSE CASE e.type = "turn.started"   -> Session("running", e.turn)
                          [] e.type = "turn.completed" -> Session("ready", NoTurn)
                          [] e.type = "session.exited" -> Session("stopped", NoTurn)
                          [] e.type = "session.started" ->
                               Session(IF session.turn = NoTurn THEN "ready" ELSE "running",
                                       session.turn)
      /\ UNCHANGED <<sent, session, events, eventId, handled, pending, draining, drain,
                     reactor, connected, active, ended, history, budget>>

\* ... and dispatches it, whatever has happened to the read model meanwhile.
\* The engine takes commands in turn, that of a stop among them.
DispatchSessionSet ==
  /\ ingest # NoSession
  /\ reactor.pc # "setting"
  /\ session' = ingest
  /\ ingest' = NoSession
  /\ reactor' = IF reactor.pc = "waiting" THEN [reactor EXCEPT !.pc = "setting"] ELSE reactor
  /\ UNCHANGED <<sent, events, eventId, handled, pending, draining, drain,
                 provider, history, budget>>

-----------------------------------------------------------------------------
Init ==
  /\ sent = {}
  /\ session = NoSession
  /\ events = <<>> /\ eventId = 0
  /\ handled = {}
  /\ pending = <<>>
  /\ draining = FALSE
  /\ drain = [f \in Fibers |-> NotDraining]
  /\ reactor = Resting
  /\ connected = FALSE
  /\ active = NoTurn
  /\ runtime = <<>> /\ ended = <<>>
  /\ ingest = NoSession
  /\ arrived = <<>> /\ delivered = <<>> /\ failed = {} /\ dropped = {} /\ lost = {}
  /\ unmarked = FALSE /\ overtaken = FALSE
  /\ budget = [stops |-> MaxStops, sendFaults |-> MaxSendFaults,
               dispatchFaults |-> MaxDispatchFaults, redeliveries |-> MaxRedeliveries]

Worker ==
  \/ ProcessTurnQueued \/ ProcessTurnStartRequested
  \/ CloseOpenTurn \/ SendTurn \/ ResumeWorker
  \/ ProcessTurnInterruptRequested \/ ProcessSessionStopRequested \/ SetSessionStopped

Drain(f) == BeginDrain(f) \/ Dequeue(f) \/ DispatchQueued(f)

Ingestion == IngestRuntimeEvent \/ DispatchSessionSet

Next ==
  \/ \E m \in Messages : SendMessage(m)
  \/ StopSession \/ Redeliver
  \/ Worker \/ SendTurnFails
  \/ HearTurnEnded \/ \E f \in Fibers : Drain(f) \/ DispatchQueuedFails(f)
  \/ EndTurn
  \/ Ingestion

Spec == Init /\ [][Next]_vars

\* Every fiber that can run runs, and a turn ends: a model call does.
Fairness ==
  /\ WF_vars(Worker) /\ WF_vars(HearTurnEnded) /\ WF_vars(Ingestion)
  /\ \A f \in Fibers : WF_vars(Drain(f))
  /\ WF_vars(EndTurn)

FairSpec == Spec /\ Fairness

-----------------------------------------------------------------------------
(* Properties                                                              *)

Sessions == [status : {"none", "ready", "running", "stopped"}, turn : Turns]

DomainEvents == [type : {"queued", "start", "interrupt", "stop"}, msg : Turns,
                 promoted : BOOLEAN, id : Nat]

RuntimeEvents == [type : {"turn.started", "turn.completed", "session.started", "session.exited"},
                  turn : Turns]

\* Every variable holds a value of its type.
TypeOK ==
  /\ sent \subseteq Messages
  /\ session \in Sessions /\ ingest \in Sessions
  /\ events \in Seq(DomainEvents) /\ eventId \in Nat /\ handled \subseteq Nat
  /\ pending \in Seq(Messages) /\ draining \in BOOLEAN
  /\ drain \in [Fibers -> [pc : {"off", "begin", "dequeue", "dispatch"}, msg : Turns]]
  /\ reactor \in [pc : {"idle", "sending", "draining", "stopping", "setting", "waiting"},
                 msg : Turns, promoted : BOOLEAN]
  /\ connected \in BOOLEAN /\ active \in Turns
  /\ runtime \in Seq(RuntimeEvents) /\ ended \in Seq(RuntimeEvents)
  /\ arrived \in Seq(Messages)
  /\ delivered \in Seq([msg : Messages, promoted : BOOLEAN])
  /\ failed \subseteq Messages /\ dropped \subseteq Messages
  /\ lost \subseteq Messages
  /\ unmarked \in BOOLEAN /\ overtaken \in BOOLEAN
  /\ budget \in [stops : Nat, sendFaults : Nat, dispatchFaults : Nat, redeliveries : Nat]

Places(m) ==
  {<<"event", i>> : i \in {j \in DOMAIN events :
                             events[j].msg = m /\ events[j].type \in {"queued", "start"}}}
    \cup {<<"pending", i>> : i \in {j \in DOMAIN pending : pending[j] = m}}
    \cup {<<"drain", f>> : f \in {g \in Fibers : drain[g].msg = m}}
    \cup {<<"reactor", 0>> : x \in {y \in {0} : reactor.msg = m}}
    \cup {<<"delivered", i>> : i \in {j \in DOMAIN delivered : delivered[j].msg = m}}
    \cup {<<"failed", 0>> : x \in {y \in {0} : m \in failed}}
    \cup {<<"dropped", 0>> : x \in {y \in {0} : m \in dropped}}
    \cup {<<"lost", 0>> : x \in {y \in {0} : m \in lost}}

\* A message the user has sent is always in exactly one place: on its way to
\* the reactor, in its queue, in the hands of a drain or of the worker, or
\* done with - delivered, reported as failed, dropped by a stop, or lost with
\* a promotion the engine failed, and in no other way.  No interleaving of
\* the two drains, the worker and a stop loses or copies one.
InOnePlace == \A m \in sent : Cardinality(Places(m)) = 1

\* A message becomes a provider turn at most once, also when its start
\* reaches the reactor twice.
StartedOnce ==
  \A i, j \in DOMAIN delivered : delivered[i].msg = delivered[j].msg => i = j

\* Queued messages are promoted in the order in which they joined the queue,
\* but for those that were steered, whichever of the two fibers takes them -
\* until a stop takes the mark from a drain that is running: from then on two
\* drains may hold a message each, and dispatch them in either order.
PromotedInOrder ==
  ~unmarked => \A i, j \in DOMAIN delivered :
    /\ i < j
    /\ delivered[i].promoted /\ delivered[j].promoted
    /\ {delivered[i].msg, delivered[j].msg} \cap Steered = {}
    => \E k, l \in DOMAIN arrived :
         k < l /\ arrived[k] = delivered[i].msg /\ arrived[l] = delivered[j].msg

Quiet ==
  /\ events = <<>> /\ runtime = <<>> /\ ended = <<>> /\ ingest = NoSession
  /\ reactor.pc = "idle" /\ \A f \in Fibers : drain[f].pc = "off"

\* When everything has been processed the session the decider looks at shows
\* the provider's turn, and no fiber left the thread marked as draining unless
\* its promotion failed: the next message is neither queued behind nothing
\* nor sent into a turn.  A stop may skip a session that is shown as stopped
\* though the provider has a new one; still the new turn is shown - unless the
\* stop sets the session right after that turn was announced.
SettlesWithProvider ==
  Quiet => (~overtaken => session.turn = active) /\ (draining => lost # {})

\* "reacts to thread.session.stop by stopping provider session and clearing
\* thread session state": when the reactor has done with a stop, the provider
\* has no session for the thread.
StopStops ==
  [][reactor.pc \in {"stopping", "setting"} /\ reactor'.pc = "idle" => ~connected']_vars

\* A message queued behind a turn of the provider leaves the queue: it is
\* promoted or dropped by a stop.
QueuedBehindTurnLeaves ==
  \A m \in Messages :
    (active # NoTurn /\ \E i \in DOMAIN pending : pending[i] = m)
      ~> ~(\E i \in DOMAIN pending : pending[i] = m)

\* "Promote the next queued message ... after the active provider turn
\* settles", "the orchestration layer decides when a queued follow-up is
\* ready": a queued message does not stay queued when no turn is left that
\* could end.
QueuedMessageLeaves ==
  \A m \in Messages :
    (\E i \in DOMAIN pending : pending[i] = m)
      ~> ~(\E i \in DOMAIN pending : pending[i] = m)

=============================================================================
