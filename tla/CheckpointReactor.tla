-------------------------- MODULE CheckpointReactor --------------------------
(***************************************************************************)
(* The checkpoints of one thread in a git workspace.                       *)
(*   - ProviderCommandReactor saves the working tree before it sends a     *)
(*     message; the provider's turn edits the tree;                        *)
(*   - CheckpointReactor saves the tree when the turn has ended, under the *)
(*     turn count it gives the turn, and on a user's request reverts tree, *)
(*     provider conversation and thread to an earlier count;               *)
(*   - ProviderRuntimeIngestion sets the session, completes the            *)
(*     assistant's message, and reserves a count by a placeholder          *)
(*     checkpoint when the provider announces a diff.                      *)
(* Each event is projected twice: into the read model the server decides   *)
(* on (projector.ts) and into the tables the clients are shown             *)
(* (ProjectionPipeline.ts).  Left out: steered messages, the contents of   *)
(* diffs, system messages, and the caps on messages and checkpoints.  A    *)
(* queued message appears with its promotion: that it joined the thread's  *)
(* messages before, while the turn before it ran, is left out too.         *)
(***************************************************************************)
EXTENDS Naturals, SequencesExt, FiniteSetsExt

CONSTANTS
  Turns,       \* a turn is named by the message that starts it
  NoTurn,
  MaxReverts,  \* reverts a user asks for
  MaxFaults,   \* turns that do not complete, calls of git or the provider that fail
               \* (a send the provider refuses among them)
  MaxBehind,   \* events not yet processed when a message is sent
  MaxWaiting   \* those of them on the way to the reactor

ASSUME CheckpointAssumption ==
  /\ NoTurn \notin Turns /\ IsFiniteSet(Turns)
  /\ MaxReverts \in Nat /\ MaxFaults \in Nat
  /\ MaxBehind \in Nat /\ MaxWaiting \in Nat

VARIABLES
  thread,     \* the thread in the read model
  table,      \* its rows in the projection tables
  tree,       \* the turns whose edits are in the working tree
  refs,       \* hidden git refs: the tree each one holds
  provider,   \* the provider's session
  starting,   \* the message ProviderCommandReactor is about to send
  refused,    \* the messages that were never sent: a send failed (history)
  domain,     \* domain events on the way to the reactor
  runtime,    \* provider events on the way to the reactor
  ingestion,  \* provider events on the way to the ingestion
  ingest,     \* what the ingestion has decided to dispatch
  reactor,    \* CheckpointReactor's worker
  startOf,    \* pendingMessageStartByThread
  disturbed,  \* what went wrong on the way (history)
  budget      \* messages, reverts and faults to come (bound)

inbox == <<domain, runtime>>
views == <<thread, table>>
vars == <<views, tree, refs, provider, starting, refused, inbox, ingestion, ingest,
          reactor, startOf, disturbed, budget>>

Put(f, k, v) == [x \in DOMAIN f \cup {k} |-> IF x = k THEN v ELSE f[x]]

Only(f, S) == [x \in DOMAIN f \cap S |-> f[x]]

\* Refs: of a turn count, of the moment before a message was sent, and of a
\* turn's start.
CountRef(n) == <<"turn", n>>
MessageRef(t) == <<"message-start", t>>
StartRef(t) == <<"turn-start", t>>

-----------------------------------------------------------------------------
(* The two projections                                                     *)

\* A turn's checkpoint in either view; count 0 is NULL.  Its ref is the git
\* ref of its count when captured, else a provider-diff: placeholder.
Checkpoint(n, status, captured) ==
  [count |-> n, status |-> status, captured |-> captured]

NoCheckpoint == Checkpoint(0, "none", FALSE)

Message(role, t, turn) == [role |-> role, of |-> t, turn |-> turn]

MaxCount(checkpoints) == Max({checkpoints[t].count : t \in DOMAIN checkpoints} \cup {0})

\* The turns a revert to count n keeps.
KeptTurns(checkpoints, n) ==
  {t \in DOMAIN checkpoints : checkpoints[t].count \in 1..n}

\* The messages that are in S, in their order (SelectSeq for a set, as a
\* function of how many have been gone through).
Selected(messages, S) ==
  LET upto[i \in 0..Len(messages)] ==
        IF i = 0 THEN <<>>
        ELSE IF messages[i] \in S THEN Append(upto[i - 1], messages[i]) ELSE upto[i - 1]
  IN  upto[Len(messages)]

\* Mutant: the messages that are known do not count.
RetainMoreMessages(messages, kept, prompts, n) ==
  LET Known(m) == m.turn \in kept \/ (m.role = "user" /\ m.of \in prompts)
      Free(m) == ~Known(m) /\ m.turn = NoTurn
      older(m) == {i \in DOMAIN messages : messages[i].role = m.role /\ Free(messages[i])
                                             /\ \A j \in 1..i : messages[j] # m}
  IN  Selected(messages, {m \in ToSet(messages) :
                            Known(m) \/ (Free(m) /\ Cardinality(older(m)) < n)})

\* The messages a revert to count n keeps: those of kept turns, the prompts
\* known to have started one, and, where that makes less than n of a role,
\* the oldest of those without a turn.
RetainMessages(messages, kept, prompts, n) ==
  LET Known(m) == m.turn \in kept \/ (m.role = "user" /\ m.of \in prompts)
      Free(m) == ~Known(m) /\ m.turn = NoTurn
      known(role) == {i \in DOMAIN messages : messages[i].role = role /\ Known(messages[i])}
      older(m) == {i \in DOMAIN messages : messages[i].role = m.role /\ Free(messages[i])
                                             /\ \A j \in 1..i : messages[j] # m}
      Fills(m) == Free(m) /\ Cardinality(known(m.role)) + Cardinality(older(m)) < n
  IN  Selected(messages, {m \in ToSet(messages) : Known(m) \/ Fills(m)})

\* thread.message-sent: a message the view has not seen is appended.
WithMessage(messages, m) ==
  IF m \in ToSet(messages) THEN messages ELSE Append(messages, m)

\* A row of the table of turns: a prompt, if it is known, and a checkpoint.
Row(prompt, c) ==
  [prompt |-> prompt, count |-> c.count, status |-> c.status, captured |-> c.captured]

\* The row of a turn, created on the first event that names the turn.
TurnRow(t, prompt) ==
  IF t \in DOMAIN table.turns
  THEN [table.turns[t] EXCEPT !.prompt = IF @ = NoTurn THEN prompt ELSE @]
  ELSE Row(prompt, NoCheckpoint)

SetSession(status, t) == [thread EXCEPT !.session = [status |-> status, turn |-> t]]

\* thread.session-set with a running turn: the row takes over the pending start.
TurnRunning(t) ==
  /\ thread' = SetSession("running", t)
  /\ table' = [table EXCEPT !.turns = Put(@, t, TurnRow(t, table.pending)),
                            !.pending = NoTurn]

\* Mutant: the read model takes each checkpoint, too.
ProjectTurnDiffUnguarded(t, c) ==
  LET Uncounted(row) == IF row.count = c.count THEN Row(row.prompt, NoCheckpoint) ELSE row
  IN  /\ thread' = [thread EXCEPT !.checkpoints = Put(@, t, c)]
      /\ table' = [table EXCEPT !.turns =
                     Put([x \in DOMAIN @ |-> Uncounted(@[x])],
                         t, Row(TurnRow(t, NoTurn).prompt, c))]

\* thread.turn-diff-completed.  The read model keeps a captured checkpoint
\* against a later placeholder; the table takes each, and takes the count
\* from any other turn that has it.
ProjectTurnDiff(t, c) ==
  LET Uncounted(row) == IF row.count = c.count THEN Row(row.prompt, NoCheckpoint) ELSE row
      kept == /\ t \in DOMAIN thread.checkpoints
              /\ thread.checkpoints[t].status # "missing" /\ c.status = "missing"
  IN  /\ thread' = IF kept THEN thread
                   ELSE [thread EXCEPT !.checkpoints = Put(@, t, c)]
      /\ table' = [table EXCEPT !.turns =
                     Put([x \in DOMAIN @ |-> Uncounted(@[x])],
                         t, Row(TurnRow(t, NoTurn).prompt, c))]

\* thread.reverted.  The read model goes by its checkpoints, the tables by
\* the rows of the turns, which know the prompts.
ProjectReverted(n) ==
  LET inMemory == KeptTurns(thread.checkpoints, n)
      rows     == KeptTurns(table.turns, n)
      prompts  == {table.turns[t].prompt : t \in rows}
  IN  /\ thread' = [thread EXCEPT
                      !.checkpoints = Only(@, inMemory),
                      !.messages = RetainMessages(@, inMemory, {}, n)]
      /\ table' = [messages |-> RetainMessages(table.messages, rows, prompts, n),
                   turns |-> Only(table.turns, rows), pending |-> NoTurn]

-----------------------------------------------------------------------------
(* The user, ProviderCommandReactor and the provider                       *)

NotIngesting == [pc |-> "idle", turn |-> NoTurn, count |-> 0]

AtRest == [pc |-> "idle", turn |-> NoTurn, count |-> 0, status |-> "none",
           target |-> <<>>, back |-> 0, stale |-> {}]

Domain(type, t, n) == [type |-> type, turn |-> t, count |-> n]

Runtime(type, t, outcome) == [type |-> type, turn |-> t, outcome |-> outcome]

\* The reactor has done what it was asked and told.
CaughtUp ==
  /\ starting = NoTurn /\ provider.active = NoTurn
  /\ domain = <<>> /\ runtime = <<>> /\ reactor = AtRest

\* The ingestion has, too.
Settled == CaughtUp /\ ingestion = <<>> /\ ingest = NotIngesting

\* What disturbs the order the reactor counts on:
\*   hurried  a message is sent before the last turn has its checkpoint, or
\*            a revert is asked for before the ingestion is done as well;
\*   ahead    a message is sent before the ingestion heard the last turn begin:
\*            that turn takes the message for its prompt;
\*   late     a baseline is saved after the turn has edited;
\*   missed   a turn gets no checkpoint, or not through the reactor;
\*   torn     a revert stops half-way;
\*   astray   a revert is asked for that keeps a turn whose prompt stands
\*            behind a message without a turn: the read model, which does not
\*            know the prompts, keeps that message for one of them.
Hurry(done) == IF done THEN {} ELSE {"hurried"}

Ahead == IF \E i \in DOMAIN ingestion : ingestion[i].type = "turn.started"
         THEN {"ahead"} ELSE {}

Astray(n) ==
  IF \E i, j \in DOMAIN thread.messages :
       /\ i < j
       /\ thread.messages[i].of \in refused
       /\ thread.messages[j].of \in KeptTurns(thread.checkpoints, n)
       /\ thread.messages[j].role = "user"
  THEN {"astray"} ELSE {}

Fault == budget.faults > 0 /\ budget' = [budget EXCEPT !.faults = @ - 1]

\* A message is sent, or a queued one promoted, when the provider has no turn.
SendMessage(t) ==
  /\ t \in budget.messages
  /\ starting = NoTurn /\ provider.active = NoTurn
  /\ Len(domain) + Len(runtime) <= MaxWaiting
  /\ Len(domain) + Len(runtime) + Len(ingestion) <= MaxBehind
  /\ budget' = [budget EXCEPT !.messages = @ \ {t}]
  /\ disturbed' = disturbed \cup Hurry(CaughtUp) \cup Ahead
  /\ starting' = t
  /\ thread' = [thread EXCEPT !.messages = Append(@, Message("user", t, NoTurn))]
  /\ table' = [table EXCEPT !.messages = Append(@, Message("user", t, NoTurn)),
                            !.pending = t]
  /\ domain' = domain \o <<Domain("message-sent", t, 0), Domain("turn-start-requested", t, 0)>>
  /\ UNCHANGED <<tree, refs, provider, refused, runtime, ingestion, ingest, reactor, startOf>>

\* The tree is saved before the provider is asked; a failure to is logged.
SendTurn ==
  /\ starting # NoTurn
  /\ \/ refs' = Put(refs, MessageRef(starting), tree) /\ UNCHANGED budget
     \/ Fault /\ UNCHANGED refs
  /\ provider' = [provider EXCEPT !.active = starting,
                                  !.conversation = Append(@, starting)]
  /\ runtime' = Append(runtime, Runtime("turn.started", starting, "none"))
  /\ ingestion' = Append(ingestion, Runtime("turn.started", starting, "none"))
  /\ starting' = NoTurn
  /\ UNCHANGED <<views, tree, refused, domain, ingest, reactor, startOf, disturbed>>

\* The send fails, on the way to the provider or there: a failure activity
\* tells, the message stays in the thread, and no turn takes it up.
SendTurnFails ==
  /\ starting # NoTurn
  /\ Fault
  /\ refs' \in {refs, Put(refs, MessageRef(starting), tree)}
  /\ refused' = refused \cup {starting}
  /\ starting' = NoTurn
  /\ UNCHANGED <<views, tree, provider, inbox, ingestion, ingest, reactor, startOf, disturbed>>

\* A turn edits files, which some providers announce.
Edit ==
  /\ provider.active # NoTurn
  /\ provider.active \notin provider.edited
  /\ tree' = tree \cup {provider.active}
  /\ provider' = [provider EXCEPT !.edited = @ \cup {provider.active}]
  /\ \/ ingestion' = Append(ingestion, Runtime("turn.diff.updated", provider.active, "none"))
     \/ UNCHANGED ingestion
  /\ UNCHANGED <<views, refs, starting, refused, inbox, ingest, reactor, startOf, disturbed, budget>>

\* turn.completed goes to both listeners.
EndTurn(outcome) ==
  LET e == Runtime("turn.completed", provider.active, outcome)
  IN  /\ provider.active # NoTurn
      /\ IF outcome = "completed" THEN UNCHANGED budget ELSE Fault
      /\ provider' = [provider EXCEPT !.active = NoTurn]
      /\ ingestion' = Append(ingestion, e)
      /\ runtime' = Append(runtime, e)
      /\ UNCHANGED <<views, tree, refs, starting, refused, domain, ingest, reactor, startOf, disturbed>>

\* The reactor does not listen to turn.aborted: the turn gets no checkpoint.
AbortTurn ==
  /\ provider.active # NoTurn
  /\ Fault
  /\ provider' = [provider EXCEPT !.active = NoTurn]
  /\ ingestion' = Append(ingestion, Runtime("turn.aborted", provider.active, "aborted"))
  /\ disturbed' = disturbed \cup {"missed"}
  /\ UNCHANGED <<views, tree, refs, starting, refused, inbox, ingest, reactor, startOf>>

\* thread.checkpoint.revert: on a user's message of which the client knows
\* the checkpoint, while the client sees no turn running; to the count before.
RequestRevert(t) ==
  /\ budget.reverts > 0
  /\ thread.session.status # "running"
  /\ t \in DOMAIN table.turns /\ table.turns[t].count > 0
  /\ Message("assistant", t, t) \in ToSet(table.messages)
  /\ budget' = [budget EXCEPT !.reverts = @ - 1]
  /\ disturbed' = disturbed \cup Hurry(Settled) \cup Astray(table.turns[t].count - 1)
  /\ domain' = Append(domain, Domain("checkpoint-revert-requested", NoTurn,
                                     table.turns[t].count - 1))
  /\ UNCHANGED <<views, tree, refs, provider, starting, refused, runtime, ingestion,
                 ingest, reactor, startOf>>

-----------------------------------------------------------------------------
(* ProviderRuntimeIngestion                                                *)

TakeIngestion(type) ==
  /\ ingest.pc = "idle" /\ ingestion # <<>> /\ Head(ingestion).type \in type
  /\ ingestion' = Tail(ingestion)
  /\ UNCHANGED <<tree, refs, provider, starting, refused, inbox, reactor, startOf, disturbed, budget>>

\* No other turn is the active one.
Ours(t) == thread.session.turn \in {NoTurn, t}

\* The turn becomes the active one.
IngestTurnStarted ==
  /\ TakeIngestion({"turn.started"})
  /\ LET t == Head(ingestion).turn
     IN  IF Ours(t) THEN TurnRunning(t) ELSE UNCHANGED views
  /\ UNCHANGED ingest

\* The session settles; the assistant's message is completed by a later command.
IngestTurnEnded ==
  /\ TakeIngestion({"turn.completed", "turn.aborted"})
  /\ LET e == Head(ingestion)
         status == CASE e.outcome = "failed" -> "error"
                     [] e.outcome = "aborted" -> "interrupted"
                     [] OTHER -> "ready"
     IN  /\ thread' = IF Ours(e.turn) THEN SetSession(status, NoTurn) ELSE thread
         /\ ingest' = [pc |-> "message", turn |-> e.turn, count |-> 0]
  /\ UNCHANGED table

\* thread.message.assistant.complete
CompleteMessage ==
  /\ ingest.pc = "message"
  /\ LET m == Message("assistant", ingest.turn, ingest.turn)
     IN  /\ thread' = [thread EXCEPT !.messages = WithMessage(@, m)]
         /\ table' = [table EXCEPT !.messages = WithMessage(@, m),
                                   !.turns = Put(@, ingest.turn, TurnRow(ingest.turn, NoTurn))]
  /\ ingest' = NotIngesting
  /\ UNCHANGED <<tree, refs, provider, starting, refused, inbox, ingestion, reactor, startOf,
                 disturbed, budget>>

\* A turn without a checkpoint gets a placeholder: the count is taken from
\* the read model, the command is dispatched later.
IngestDiff ==
  /\ TakeIngestion({"turn.diff.updated"})
  /\ LET t == Head(ingestion).turn
     IN  ingest' = IF t \in DOMAIN thread.checkpoints THEN ingest
                   ELSE [pc |-> "diff", turn |-> t,
                         count |-> MaxCount(thread.checkpoints) + 1]
  /\ UNCHANGED views

\* thread.turn.diff.complete with the count read before.
DispatchPlaceholder ==
  /\ ingest.pc = "diff"
  /\ ProjectTurnDiff(ingest.turn, Checkpoint(ingest.count, "missing", FALSE))
  /\ ingest' = NotIngesting
  /\ UNCHANGED <<tree, refs, provider, starting, refused, inbox, ingestion, reactor, startOf,
                 disturbed, budget>>

-----------------------------------------------------------------------------
(* CheckpointReactor                                                       *)

TakeDomain(type) ==
  /\ reactor.pc = "idle" /\ domain # <<>> /\ Head(domain).type = type
  /\ domain' = Tail(domain)
  /\ UNCHANGED <<views, provider, starting, refused, runtime, ingestion, ingest, budget>>

TakeRuntime(type) ==
  /\ reactor.pc = "idle" /\ runtime # <<>> /\ Head(runtime).type = type
  /\ runtime' = Tail(runtime)
  /\ UNCHANGED <<views, tree, provider, starting, refused, domain, ingestion, ingest, budget>>

Captured(rs, ref) == IF ref \in DOMAIN rs THEN rs ELSE Put(rs, ref, tree)

\* ensureLegacyBaselineCheckpoint; late, when the turn has edited already.
EnsureBaseline(rs) ==
  LET baseline == CountRef(MaxCount(thread.checkpoints))
  IN  /\ refs' = Captured(rs, baseline)
      /\ disturbed' = IF baseline \notin DOMAIN rs /\ tree # {}
                      THEN disturbed \cup {"late"} ELSE disturbed

\* A user's message that no turn has yet.
ProcessMessageSent ==
  /\ TakeDomain("message-sent")
  /\ EnsureBaseline(refs)
  /\ UNCHANGED <<tree, reactor, startOf>>

\* A message whose tree was not saved before it was sent has it saved now.
ProcessTurnStartRequested ==
  /\ TakeDomain("turn-start-requested")
  /\ startOf' = Head(domain).turn
  /\ EnsureBaseline(Captured(refs, MessageRef(Head(domain).turn)))
  /\ UNCHANGED <<tree, reactor>>

\* The refs when the tree saved before the message is the turn's start, too.
StartAliased(t) ==
  LET m == IF startOf # NoTurn THEN startOf ELSE table.pending
  IN  IF MessageRef(m) \in DOMAIN refs THEN Put(refs, StartRef(t), refs[MessageRef(m)]) ELSE refs

\* The tree saved before the message becomes the turn's start.
ProcessTurnStarted ==
  /\ TakeRuntime("turn.started")
  /\ EnsureBaseline(StartAliased(Head(runtime).turn))
  /\ startOf' = NoTurn
  /\ UNCHANGED reactor

\* A call of git fails in one of these handlers: that is logged, what was done
\* before stays done, and nothing tries again.
FailMessageBaseline ==
  /\ reactor.pc = "idle" /\ domain # <<>>
  /\ Fault
  /\ \/ Head(domain).type = "message-sent" /\ UNCHANGED <<refs, startOf>>
     \/ /\ Head(domain).type = "turn-start-requested"
        /\ startOf' = Head(domain).turn
        /\ refs' \in {refs, Captured(refs, MessageRef(Head(domain).turn))}
  /\ domain' = Tail(domain)
  /\ UNCHANGED <<views, tree, provider, starting, refused, runtime, ingestion, ingest, reactor,
                 disturbed>>

FailTurnBaseline ==
  /\ reactor.pc = "idle" /\ runtime # <<>> /\ Head(runtime).type = "turn.started"
  /\ Fault
  /\ \/ UNCHANGED <<refs, startOf>>
     \/ refs' = StartAliased(Head(runtime).turn) /\ startOf' = NoTurn
  /\ runtime' = Tail(runtime)
  /\ UNCHANGED <<views, tree, provider, starting, refused, domain, ingestion, ingest, reactor,
                 disturbed>>

\* checkpointStatusFromRuntime
CheckpointStatus(outcome) ==
  CASE outcome = "failed" -> "error" [] outcome = "interrupted" -> "missing" [] OTHER -> "ready"

\* The read model is consulted once, before the tree is saved.
ProcessTurnCompleted ==
  /\ TakeRuntime("turn.completed")
  /\ LET t  == Head(runtime).turn
         cs == thread.checkpoints
         n  == IF t \in DOMAIN cs THEN cs[t].count ELSE MaxCount(cs) + 1
     IN  IF ~Ours(t)
         THEN /\ disturbed' = disturbed \cup {"missed"}
              /\ UNCHANGED reactor
         ELSE /\ reactor' = IF t \in DOMAIN cs /\ cs[t].status # "missing" THEN reactor
                            ELSE [AtRest EXCEPT !.pc = "capture", !.turn = t, !.count = n,
                                    !.status = CheckpointStatus(Head(runtime).outcome)]
              /\ UNCHANGED disturbed
  /\ UNCHANGED <<refs, startOf>>

\* The tree is saved as it is now, over what the ref held; a turn whose start
\* was not saved counts as missing.
CaptureCheckpoint ==
  /\ reactor.pc = "capture"
  /\ refs' = Put(refs, CountRef(reactor.count), tree)
  /\ reactor' = [reactor EXCEPT !.pc = "dispatch",
                   !.status = IF StartRef(reactor.turn) \in DOMAIN refs THEN @ ELSE "missing"]
  /\ UNCHANGED <<views, tree, provider, starting, refused, inbox, ingestion, ingest, startOf,
                 disturbed, budget>>

\* thread.turn.diff.complete, dispatched with what was read at the start.
DispatchCheckpoint ==
  /\ reactor.pc = "dispatch"
  /\ ProjectTurnDiff(reactor.turn, Checkpoint(reactor.count, reactor.status, TRUE))
  /\ reactor' = AtRest
  /\ UNCHANGED <<tree, refs, provider, starting, refused, inbox, ingestion, ingest, startOf,
                 disturbed, budget>>

\* The ref a revert to count n restores: that of the checkpoint with the count.
RevertTargets(n) ==
  LET cs == thread.checkpoints
  IN  IF n = 0 THEN {CountRef(0)}
      ELSE {IF cs[t].captured THEN CountRef(n) ELSE <<"provider-diff", t>> :
              t \in {x \in DOMAIN cs : cs[x].count = n}}

\* The refs of the checkpoints a revert to count n drops.
StaleRefs(n) ==
  LET cs == thread.checkpoints
  IN  {CountRef(cs[t].count) : t \in {x \in DOMAIN cs : cs[x].captured /\ cs[x].count > n}}

\* thread.checkpoint-revert-requested: a count that is too high or that no
\* checkpoint has is answered by a failure activity.
ProcessRevertRequested ==
  /\ TakeDomain("checkpoint-revert-requested")
  /\ LET n       == Head(domain).count
         current == MaxCount(thread.checkpoints)
     IN  \/ (n > current \/ RevertTargets(n) = {}) /\ UNCHANGED reactor
         \/ /\ n <= current
            /\ \E target \in RevertTargets(n) :
                 reactor' = [AtRest EXCEPT !.pc = "restore", !.count = n, !.target = target,
                               !.back = current - n, !.stale = StaleRefs(n)]
  /\ UNCHANGED <<tree, refs, startOf, disturbed>>

\* Mutant: files the target does not have are not cleaned away.
RestoreOverTree ==
  /\ reactor.pc = "restore"
  /\ LET found == reactor.target \in DOMAIN refs \/ reactor.count = 0
     IN  /\ tree' = IF reactor.target \in DOMAIN refs THEN tree \cup refs[reactor.target]
                    ELSE tree
         /\ reactor' = IF found THEN [reactor EXCEPT !.pc = "rollback"] ELSE AtRest
  /\ UNCHANGED <<views, refs, provider, starting, refused, inbox, ingestion, ingest, startOf,
                 disturbed, budget>>

\* git restore, or a failure activity when the ref holds nothing; count 0
\* falls back to HEAD, the tree without any turn's edits.
RestoreTree ==
  /\ reactor.pc = "restore"
  /\ LET found == reactor.target \in DOMAIN refs \/ reactor.count = 0
     IN  /\ tree' = IF reactor.target \in DOMAIN refs THEN refs[reactor.target]
                    ELSE IF found THEN {} ELSE tree
         /\ reactor' = IF found THEN [reactor EXCEPT !.pc = "rollback"] ELSE AtRest
  /\ UNCHANGED <<views, refs, provider, starting, refused, inbox, ingestion, ingest, startOf,
                 disturbed, budget>>

\* Mutant: the provider forgets as many turns as it should keep.
RollbackToCount ==
  /\ reactor.pc = "rollback"
  /\ provider' = [provider EXCEPT !.conversation =
                    SubSeq(@, 1, IF Len(@) > reactor.count THEN Len(@) - reactor.count ELSE 0)]
  /\ reactor' = [reactor EXCEPT !.pc = "delete"]
  /\ UNCHANGED <<views, tree, refs, starting, refused, inbox, ingestion, ingest, startOf,
                 disturbed, budget>>

\* The provider forgets as many turns as counts are reverted.
RollbackConversation ==
  /\ reactor.pc = "rollback"
  /\ provider' = [provider EXCEPT !.conversation =
                    SubSeq(@, 1, IF Len(@) > reactor.back THEN Len(@) - reactor.back ELSE 0)]
  /\ reactor' = [reactor EXCEPT !.pc = "delete"]
  /\ UNCHANGED <<views, tree, refs, starting, refused, inbox, ingestion, ingest, startOf,
                 disturbed, budget>>

\* Mutant: the ref that was reverted to goes with them.
DeleteTargetRef ==
  /\ reactor.pc = "delete"
  /\ refs' = Only(refs, DOMAIN refs \ (reactor.stale \cup {reactor.target}))
  /\ reactor' = [reactor EXCEPT !.pc = "complete"]
  /\ UNCHANGED <<views, tree, provider, starting, refused, inbox, ingestion, ingest, startOf,
                 disturbed, budget>>

\* deleteCheckpointRefs: those of the checkpoints that are reverted.
DeleteStaleRefs ==
  /\ reactor.pc = "delete"
  /\ refs' = Only(refs, DOMAIN refs \ reactor.stale)
  /\ reactor' = [reactor EXCEPT !.pc = "complete"]
  /\ UNCHANGED <<views, tree, provider, starting, refused, inbox, ingestion, ingest, startOf,
                 disturbed, budget>>

\* thread.revert.complete
CompleteRevert ==
  /\ reactor.pc = "complete"
  /\ ProjectReverted(reactor.count)
  /\ reactor' = AtRest
  /\ UNCHANGED <<tree, refs, provider, starting, refused, inbox, ingestion, ingest, startOf,
                 disturbed, budget>>

\* A call of git, the provider or the engine fails: an activity tells, what
\* was done stays done, and nothing tries again.
FailReactor ==
  /\ reactor.pc # "idle"
  /\ Fault
  /\ disturbed' = disturbed \cup CASE reactor.pc \in {"capture", "dispatch"} -> {"missed"}
                                   [] OTHER -> {"torn"}
  /\ reactor' = AtRest
  /\ UNCHANGED <<views, tree, refs, provider, starting, refused, inbox, ingestion, ingest, startOf>>

-----------------------------------------------------------------------------
Empty == [x \in {} |-> x]

Init ==
  /\ thread = [session |-> [status |-> "none", turn |-> NoTurn], messages |-> <<>>,
               checkpoints |-> Empty]
  /\ table = [messages |-> <<>>, turns |-> Empty, pending |-> NoTurn]
  /\ tree = {} /\ refs = Empty
  /\ provider = [active |-> NoTurn, conversation |-> <<>>, edited |-> {}]
  /\ starting = NoTurn /\ refused = {}
  /\ domain = <<>> /\ runtime = <<>> /\ ingestion = <<>>
  /\ ingest = NotIngesting /\ reactor = AtRest /\ startOf = NoTurn
  /\ disturbed = {}
  /\ budget = [messages |-> Turns, reverts |-> MaxReverts, faults |-> MaxFaults]

Provider ==
  \/ SendTurn \/ SendTurnFails \/ Edit \/ AbortTurn
  \/ \E outcome \in {"completed", "failed", "interrupted"} : EndTurn(outcome)

Ingestion ==
  \/ IngestTurnStarted \/ IngestTurnEnded \/ CompleteMessage
  \/ IngestDiff \/ DispatchPlaceholder

Reactor ==
  \/ ProcessMessageSent \/ ProcessTurnStartRequested \/ ProcessTurnStarted
  \/ FailMessageBaseline \/ FailTurnBaseline
  \/ ProcessTurnCompleted \/ CaptureCheckpoint \/ DispatchCheckpoint
  \/ ProcessRevertRequested \/ RestoreTree \/ RollbackConversation
  \/ DeleteStaleRefs \/ CompleteRevert \/ FailReactor

Next ==
  \/ \E t \in Turns : SendMessage(t) \/ RequestRevert(t)
  \/ Provider \/ Ingestion \/ Reactor

Spec == Init /\ [][Next]_vars

-----------------------------------------------------------------------------
(* Properties                                                              *)

\* When all is done and nothing disturbed it, the clients are shown the
\* messages the server decides on: the two projections of thread.reverted,
\* which know different things of a turn, keep the same messages.
MessagesAgree ==
  Settled /\ disturbed = {} => thread.messages = table.messages

\* When all is done and the order was kept, whatever messages the provider
\* refused, it remembers exactly the turns the thread has checkpoints of:
\* reverting by a number of counts rolls back the turns that go.
ConversationKept ==
  Settled /\ disturbed \subseteq {"ahead", "astray"} =>
    ToSet(provider.conversation) = DOMAIN thread.checkpoints

\* Then the working tree has the edits of the turns the provider remembers
\* and no others, whichever count was reverted to.
TreeKept ==
  Settled /\ disturbed \subseteq {"ahead", "astray"} =>
    tree = provider.edited \cap ToSet(provider.conversation)

\* Whatever the order of things, a captured checkpoint of the thread can be
\* restored: its ref is there, but between the last two steps of a revert or
\* after a revert that stopped between them.
Restorable ==
  reactor.pc # "complete" /\ "torn" \notin disturbed =>
    \A t \in DOMAIN thread.checkpoints :
      thread.checkpoints[t].captured => CountRef(thread.checkpoints[t].count) \in DOMAIN refs

\* Whatever the order of things, the checkpoint of a turn in the read model
\* never changes once it is captured for a turn that came to an end.
CaptureStays ==
  [][\A t \in DOMAIN thread.checkpoints \cap DOMAIN thread'.checkpoints :
       thread.checkpoints[t].status # "missing"
         => thread'.checkpoints[t] = thread.checkpoints[t]]_vars
=============================================================================
