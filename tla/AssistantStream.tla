-------------------------- MODULE AssistantStream --------------------------
(***************************************************************************)
(* ProviderRuntimeIngestion: how what the agent says becomes messages.     *)
(*   - the provider sends deltas of items, ends of items, of turns and of  *)
(*     the session; one worker handles them, dispatch by dispatch;         *)
(*   - in buffered mode text is kept until its item or its turn ends, in   *)
(*     streaming mode each delta is dispatched.  The mode is one for all   *)
(*     threads: the one the last turn asked for, in whatever thread;       *)
(*   - the turn to finish when a session exits is the active turn of the   *)
(*     read model, which ProviderCommandReactor clears when a user stops   *)
(*     the session, and when it binds a new session to the thread.         *)
(* Text is a sequence of pieces, all of them renderable.  Left out:        *)
(* plans, activities, subagent threads, a session that is replaced while   *)
(* it lives without an exit, and the choice among several live messages    *)
(* for an item that ends without its id.                                   *)
(***************************************************************************)
EXTENDS Naturals, SequencesExt, FiniteSetsExt

CONSTANTS
  Threads,
  Turns, ThreadOf,     \* turns, and the thread of each
  Messages, TurnOf,    \* the messages of the items, and the turn of each
  None,
  BufferLimit,         \* MAX_BUFFERED_ASSISTANT_CHARS, in pieces
  MaxPieces,           \* deltas of an item (bound)
  MaxLag,              \* events the worker is behind (bound)
  MaxRequests,         \* turns asked for (bound)
  MaxMishaps,          \* runtime errors, exits and stops of a session (bound)
  MaxFaults            \* dispatches that fail (bound)

ASSUME AssistantAssumption ==
  /\ None \notin Threads \cup Turns \cup Messages
  /\ ThreadOf \in [Turns -> Threads] /\ TurnOf \in [Messages -> Turns]
  /\ BufferLimit \in Nat /\ MaxPieces \in Nat /\ MaxLag \in Nat /\ MaxRequests \in Nat
  /\ MaxMishaps \in Nat /\ MaxFaults \in Nat

VARIABLES
  provider,   \* turn -> "new", "open" or "over"
  item,       \* message -> "new", "live" or "done"
  said,       \* message -> the pieces the agent has said
  stopping,   \* threads whose session has ended and the reactor will write anew
  runtime,    \* the provider's events on their way to the worker
  domain,     \* thread.turn-start-requested on its way to the worker
  active,     \* read model: session.activeTurnId of a thread
  message,    \* read model: the text of a message and whether it streams
  mode,       \* assistantDeliveryModeRef
  known,      \* turnMessageIdsByTurnKey
  buffer,     \* bufferedAssistantTextByMessageId
  todo,       \* what is left of the event the worker handles
  completions, \* message -> times it was completed (history)
  disturbed,  \* turns with a mishap the ingestion cannot cope with (history)
  erred,      \* turns with an error (history)
  requests, mishaps, faults

agent == <<provider, item, said>>
store == <<active, message>>
cache == <<mode, known, buffer>>
history == <<completions, disturbed, erred, requests, mishaps, faults>>
vars == <<agent, stopping, runtime, domain, store, cache, todo, history>>

MessagesOf(turn) == {m \in Messages : TurnOf[m] = turn}
ThreadOfMessage(m) == ThreadOf[TurnOf[m]]

-----------------------------------------------------------------------------
(* The provider                                                            *)

\* An event is of a turn, and may be of an item; whether it names the turn, or
\* the item when it is of one, is another matter.
NoEvent == [type |-> "content.delta", thread |-> None, turn |-> None, msg |-> None,
            text |-> <<>>, named |-> TRUE]

Emit(e) == Len(runtime) < MaxLag /\ runtime' = Append(runtime, e)

OpenTurns(t) == {turn \in Turns : ThreadOf[turn] = t /\ provider[turn] = "open"}

StartTurn(turn) ==
  /\ provider[turn] = "new" /\ OpenTurns(ThreadOf[turn]) = {}
  /\ provider' = [provider EXCEPT ![turn] = "open"]
  /\ Emit([NoEvent EXCEPT !.type = "turn.started", !.thread = ThreadOf[turn], !.turn = turn])
  /\ UNCHANGED <<item, said, stopping, domain, store, cache, todo, history>>

\* A delta of an item.
Speak(m) ==
  /\ provider[TurnOf[m]] = "open" /\ item[m] # "done" /\ Len(said[m]) < MaxPieces
  /\ LET piece == Len(said[m]) + 1
     IN  /\ said' = [said EXCEPT ![m] = Append(@, piece)]
         /\ Emit([NoEvent EXCEPT !.thread = ThreadOfMessage(m), !.turn = TurnOf[m],
                                 !.msg = m, !.text = <<piece>>])
  /\ item' = [item EXCEPT ![m] = "live"]
  /\ UNCHANGED <<provider, stopping, domain, store, cache, todo, history>>

Live(turn) == {m \in MessagesOf(turn) : item[m] = "live"}

Completed(m, named) ==
  [NoEvent EXCEPT !.type = "item.completed", !.thread = ThreadOfMessage(m),
                  !.turn = TurnOf[m], !.msg = m, !.text = said'[m], !.named = named]

\* An item ends; its only one may do so without its id.  The event repeats
\* the text.
EndItem(m) ==
  /\ provider[TurnOf[m]] = "open" /\ item[m] = "live"
  /\ said' = said
  /\ \E named \in BOOLEAN :
       (~named => Live(TurnOf[m]) = {m}) /\ Emit(Completed(m, named))
  /\ item' = [item EXCEPT ![m] = "done"]
  /\ UNCHANGED <<provider, stopping, domain, store, cache, todo, history>>

\* An item without deltas: the text is in its end.  No other is live then.
SayAtOnce(m) ==
  /\ provider[TurnOf[m]] = "open" /\ item[m] = "new" /\ Live(TurnOf[m]) = {}
  /\ said' = [said EXCEPT ![m] = <<1>>]
  /\ Emit(Completed(m, TRUE))
  /\ item' = [item EXCEPT ![m] = "done"]
  /\ UNCHANGED <<provider, stopping, domain, store, cache, todo, history>>

\* A turn ends, whether its items have or not.  The end of one that was
\* aborted may not say which.
EndTurn(turn) ==
  /\ provider[turn] = "open"
  /\ provider' = [provider EXCEPT ![turn] = "over"]
  /\ \E named \in BOOLEAN :
       Emit([NoEvent EXCEPT !.type = IF named THEN "turn.completed" ELSE "turn.aborted",
                            !.thread = ThreadOf[turn], !.turn = turn, !.named = named])
  /\ UNCHANGED <<item, said, stopping, domain, store, cache, todo, history>>

\* An error, of the turn or of the provider's process: that ends the turn and
\* does not say which it was.
RuntimeError(turn) ==
  /\ mishaps < MaxMishaps /\ mishaps' = mishaps + 1
  /\ provider[turn] = "open"
  /\ \E named \in BOOLEAN :
       /\ Emit([NoEvent EXCEPT !.type = "runtime.error", !.thread = ThreadOf[turn],
                               !.turn = turn, !.named = named])
       /\ provider' = [provider EXCEPT ![turn] = IF named THEN @ ELSE "over"]
  /\ erred' = erred \cup {turn}
  /\ UNCHANGED <<item, said, stopping, domain, store, cache, todo, completions, disturbed,
                 requests, faults>>

\* The session ends, by itself or because a user stops it.  The reactor may be
\* still to write the session, as stopped or, if another took its place, as
\* ready.
Exit(t) ==
  /\ mishaps < MaxMishaps /\ mishaps' = mishaps + 1
  /\ t \notin stopping
  /\ provider' = [turn \in Turns |-> IF turn \in OpenTurns(t) THEN "over" ELSE provider[turn]]
  /\ \E turn \in IF OpenTurns(t) = {} THEN {None} ELSE OpenTurns(t) :
       Emit([NoEvent EXCEPT !.type = "session.exited", !.thread = t, !.turn = turn,
                            !.named = FALSE])
  /\ stopping' \in {stopping, stopping \cup {t}}
  /\ UNCHANGED <<item, said, domain, store, cache, todo, completions, disturbed, erred,
                 requests, faults>>

\* A turn is asked for, with a mode.
RequestTurn(t, m) ==
  /\ requests < MaxRequests /\ requests' = requests + 1
  /\ domain' = Append(domain, [thread |-> t, mode |-> m])
  /\ UNCHANGED <<agent, stopping, runtime, store, cache, todo, completions, disturbed, erred,
                 mishaps, faults>>

-----------------------------------------------------------------------------
(* The worker                                                              *)

\* Steps of a handler: one dispatch, or a change of the caches.
SetSession(t, turn) ==
  [op |-> "session", thread |-> t, turn |-> turn, msg |-> None, text |-> <<>>]
Say(m, text) ==
  [op |-> "delta", thread |-> ThreadOfMessage(m), turn |-> TurnOf[m], msg |-> m, text |-> text]
Flush(m, fallback) == [Say(m, fallback) EXCEPT !.op = "flush"]
Complete(m) == [Say(m, <<>>) EXCEPT !.op = "complete"]
Forget(m) == [Say(m, <<>>) EXCEPT !.op = "forget"]
ForgetTurn(turn) == [SetSession(ThreadOf[turn], turn) EXCEPT !.op = "forgetTurn"]
ClearThread(t) == [SetSession(t, None) EXCEPT !.op = "clear"]

Finalize(m, fallback) == <<Flush(m, fallback), Complete(m)>>

\* finalizeBufferedAssistantMessagesForTurn, also at the end of a turn.
FinalizeTurn(turn) ==
  LET ids == SetToSeq(known[turn])
  IN  [i \in 1..(2 * Len(ids)) |->
         IF i % 2 = 1 THEN Flush(ids[(i + 1) \div 2], <<>>) ELSE Complete(ids[i \div 2])]
        \o <<ForgetTurn(turn)>>

\* Mutant: an end that does not say of which turn is nobody's.
OwnOnly(e) == IF e.named THEN e.turn ELSE None

\* resolveTerminalTurnId: the turn the event names, or else the active one.
TurnOrActive(e) == IF e.named THEN e.turn ELSE active[e.thread]

FinalizeIfAny(turn) == IF turn = None THEN <<>> ELSE FinalizeTurn(turn)

Same == UNCHANGED <<known, buffer>>

\* turn.started: not while another turn is active.
HandleTurnStarted(e) ==
  /\ e.type = "turn.started"
  /\ todo' = IF active[e.thread] \in {None, e.turn} THEN <<SetSession(e.thread, e.turn)>> ELSE <<>>
  /\ Same

\* rememberAssistantMessageId
Remember(e) == known' = [known EXCEPT ![e.turn] = @ \cup {e.msg}]

\* A delta: dispatched, or kept unless the buffer is full.
HandleDelta(e) ==
  LET kept == buffer[e.msg] \o e.text
  IN  /\ e.type = "content.delta"
      /\ Remember(e)
      /\ \/ /\ mode = "buffered" /\ Len(kept) <= BufferLimit
            /\ buffer' = [buffer EXCEPT ![e.msg] = kept]
            /\ todo' = <<>>
         \/ /\ mode = "buffered" /\ Len(kept) > BufferLimit
            /\ buffer' = [buffer EXCEPT ![e.msg] = <<>>]
            /\ todo' = <<Say(e.msg, kept)>>
         \/ /\ mode = "streaming"
            /\ buffer' = buffer
            /\ todo' = <<Say(e.msg, e.text)>>

\* resolveAssistantCompletionMessageId: the message an ended item goes to.
Resolved(e) ==
  IF e.named /\ e.msg \in known[e.turn] THEN {e.msg}
  ELSE IF Cardinality(known[e.turn]) = 1 THEN known[e.turn]
  ELSE IF e.named THEN {e.msg} ELSE {}

\* item.completed: its text counts only if nothing was heard of it before.
HandleItemCompleted(e) ==
  /\ e.type = "item.completed"
  /\ known' = [known EXCEPT ![e.turn] = @ \cup Resolved(e)]
  /\ buffer' = buffer
  /\ IF Resolved(e) = {} THEN todo' = <<>>
     ELSE \E m \in Resolved(e) :
            todo' = Finalize(m, IF message[m].text = <<>> THEN e.text ELSE <<>>) \o <<Forget(m)>>

\* turn.completed, turn.aborted: only the active turn's end changes the
\* session; the messages of the turn are finished in any case.
HandleTurnEnded(e) ==
  LET turn == TurnOrActive(e)
  IN  /\ e.type \in {"turn.completed", "turn.aborted"}
      /\ todo' =
           (IF active[e.thread] \in {None, turn} THEN <<SetSession(e.thread, None)>> ELSE <<>>)
             \o FinalizeIfAny(turn)
      /\ Same

HandleSessionExited(e) ==
  /\ e.type = "session.exited"
  /\ todo' = <<SetSession(e.thread, None)>> \o FinalizeIfAny(TurnOrActive(e))
             \o <<ClearThread(e.thread)>>
  /\ Same

HandleRuntimeError(e) ==
  /\ e.type = "runtime.error"
  /\ todo' = FinalizeIfAny(TurnOrActive(e))
             \o (CASE ~e.named -> <<SetSession(e.thread, None)>>
                   [] e.named /\ active[e.thread] \in {None, e.turn} ->
                        <<SetSession(e.thread, e.turn)>>
                   [] OTHER -> <<>>)
  /\ Same

\* The worker takes an event of the provider.
ProcessRuntimeEvent ==
  /\ todo = <<>> /\ runtime # <<>>
  /\ LET e == Head(runtime)
     IN  \/ HandleTurnStarted(e) \/ HandleDelta(e) \/ HandleItemCompleted(e)
         \/ HandleTurnEnded(e) \/ HandleSessionExited(e) \/ HandleRuntimeError(e)
  /\ runtime' = Tail(runtime)
  /\ UNCHANGED <<agent, stopping, domain, store, mode, history>>

Buffered == {m \in Messages : buffer[m] # <<>>}

\* Mutant: the mode changes, the buffer stays.
ModeOnly(e) == <<>>

\* What of the thread's active turn is flushed when streaming begins.
FlushedForStreaming(e) ==
  IF e.mode # "streaming" \/ active[e.thread] = None THEN <<>>
  ELSE LET ids == SetToSeq(known[active[e.thread]])
       IN  [i \in DOMAIN ids |-> Flush(ids[i], <<>>)]

\* The worker takes a thread.turn-start-requested.
ProcessDomainEvent ==
  /\ todo = <<>> /\ domain # <<>>
  /\ LET e == Head(domain)
     IN  /\ mode' = e.mode
         /\ todo' = FlushedForStreaming(e)
         /\ disturbed' = disturbed \cup
              IF e.mode = "streaming"
              THEN {TurnOf[m] : m \in {x \in Buffered : TurnOf[x] # active[e.thread]}} ELSE {}
  /\ domain' = Tail(domain)
  /\ UNCHANGED <<agent, stopping, runtime, store, known, buffer, completions, erred, requests,
                 mishaps, faults>>

\* The projector: streamed text is appended, an end leaves the text.
Appended(m, text) == [message EXCEPT ![m] = [text |-> @.text \o text, streaming |-> TRUE]]

Taken(s) == IF buffer[s.msg] # <<>> THEN buffer[s.msg] ELSE s.text

Dispatches(s) ==
  \/ s.op \in {"session", "delta", "complete"}
  \/ s.op = "flush" /\ Taken(s) # <<>>

\* Mutant: an item that has ended is still known.
ForgetNothing(s) == s.op = "forget" /\ known' = known

ForgetMessage(s) == s.op = "forget" /\ known' = [known EXCEPT ![s.turn] = @ \ {s.msg}]

\* The handler's next step.
Step ==
  /\ todo # <<>> /\ todo' = Tail(todo)
  /\ LET s == Head(todo)
     IN  \/ /\ s.op = "session"
            /\ active' = [active EXCEPT ![s.thread] = s.turn]
            /\ UNCHANGED <<message, known, buffer, completions>>
         \/ /\ s.op = "delta"
            /\ message' = Appended(s.msg, s.text)
            /\ UNCHANGED <<active, known, buffer, completions>>
         \/ /\ s.op = "flush"
            /\ message' = IF Taken(s) = <<>> THEN message ELSE Appended(s.msg, Taken(s))
            /\ buffer' = [buffer EXCEPT ![s.msg] = <<>>]
            /\ UNCHANGED <<active, known, completions>>
         \/ /\ s.op = "complete"
            /\ message' = [message EXCEPT ![s.msg].streaming = FALSE]
            /\ completions' = [completions EXCEPT ![s.msg] = @ + 1]
            /\ UNCHANGED <<active, known, buffer>>
         \/ /\ ForgetMessage(s)
            /\ UNCHANGED <<active, message, buffer, completions>>
         \/ /\ s.op = "forgetTurn"
            /\ known' = [known EXCEPT ![s.turn] = {}]
            /\ UNCHANGED <<active, message, buffer, completions>>
         \/ /\ s.op = "clear"
            /\ known' = [turn \in Turns |-> IF ThreadOf[turn] = s.thread THEN {} ELSE known[turn]]
            /\ buffer' = [m \in Messages |->
                 IF \E turn \in Turns : ThreadOf[turn] = s.thread /\ m \in known[turn]
                 THEN <<>> ELSE buffer[m]]
            /\ UNCHANGED <<active, message, completions>>
  /\ UNCHANGED <<agent, stopping, runtime, domain, mode, disturbed, erred, requests, mishaps,
                 faults>>

\* A dispatch fails: the rest of the handler is skipped, text that was taken
\* from its buffer is gone.
FailStep ==
  /\ todo # <<>> /\ Dispatches(Head(todo)) /\ faults < MaxFaults /\ faults' = faults + 1
  /\ LET s == Head(todo)
     IN  /\ buffer' = IF s.op = "flush" THEN [buffer EXCEPT ![s.msg] = <<>>] ELSE buffer
         /\ disturbed' = disturbed \cup
              IF \E i \in DOMAIN todo : todo[i].op = "session"
              THEN {turn \in Turns : ThreadOf[turn] = s.thread} ELSE {s.turn}
  /\ todo' = <<>>
  /\ UNCHANGED <<agent, stopping, runtime, domain, store, mode, known, completions, erred,
                 requests, mishaps>>

\* Events of a thread that are not handled yet.
Behind(t) == \/ \E i \in DOMAIN runtime : runtime[i].thread = t
             \/ \E i \in DOMAIN todo : todo[i].thread = t

\* processSessionStopRequested once the provider has stopped, or
\* bindSessionToThread once there is another session: the reactor writes the
\* session without an active turn, whatever the ingestion has still to handle.
SetStopped(t) ==
  /\ t \in stopping /\ stopping' = stopping \ {t}
  /\ active' = [active EXCEPT ![t] = None]
  /\ disturbed' = disturbed \cup
       {turn \in Turns : ThreadOf[turn] = t /\ provider[turn] # "new"
                           /\ (provider[turn] = "open" \/ Behind(t))}
  /\ UNCHANGED <<agent, runtime, domain, message, cache, todo, completions, erred, requests,
                 mishaps, faults>>

-----------------------------------------------------------------------------
Init ==
  /\ provider = [turn \in Turns |-> "new"] /\ item = [m \in Messages |-> "new"]
  /\ said = [m \in Messages |-> <<>>] /\ stopping = {}
  /\ runtime = <<>> /\ domain = <<>>
  /\ active = [t \in Threads |-> None]
  /\ message = [m \in Messages |-> [text |-> <<>>, streaming |-> FALSE]]
  /\ mode = "buffered" /\ known = [turn \in Turns |-> {}]
  /\ buffer = [m \in Messages |-> <<>>] /\ todo = <<>>
  /\ completions = [m \in Messages |-> 0] /\ disturbed = {} /\ erred = {}
  /\ requests = 0 /\ mishaps = 0 /\ faults = 0

Next ==
  \/ \E turn \in Turns : StartTurn(turn) \/ EndTurn(turn) \/ RuntimeError(turn)
  \/ \E m \in Messages : Speak(m) \/ EndItem(m) \/ SayAtOnce(m)
  \/ \E t \in Threads : Exit(t) \/ SetStopped(t)
  \/ \E t \in Threads, m \in {"buffered", "streaming"} : RequestTurn(t, m)
  \/ ProcessRuntimeEvent \/ ProcessDomainEvent \/ Step \/ FailStep

Spec == Init /\ [][Next]_vars

-----------------------------------------------------------------------------
(* Properties                                                              *)

\* What a reader sees of a message, with what is kept back, is what the agent
\* has said so far: nothing twice, nothing out of order, nothing left out in
\* between - whatever the mode does meanwhile, and when an end of an item
\* repeats its text.
TextInOrder ==
  \A m \in Messages : TurnOf[m] \notin disturbed =>
    IsPrefix(message[m].text \o buffer[m], said[m])

Settled(turn) == provider[turn] = "over" /\ ~Behind(ThreadOf[turn])

Shown(m) == message[m] = [text |-> said[m], streaming |-> FALSE] /\ buffer[m] = <<>>

\* When a turn is over, however it ended, all that was said in it is shown
\* and finished, and the caches hold nothing of it.
EndedTurnShown ==
  \A turn \in Turns \ disturbed : Settled(turn) =>
    (\A m \in MessagesOf(turn) : Shown(m)) /\ known[turn] = {}

\* A message is completed once, not by the end of its item and again by the
\* end of its turn or of the session.  An error completes it before its time.
CompletedOnce ==
  \A m \in Messages : TurnOf[m] \notin disturbed \cup erred => completions[m] <= 1
=============================================================================
