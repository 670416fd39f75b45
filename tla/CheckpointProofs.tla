--------------------------- MODULE CheckpointProofs ---------------------------
(***************************************************************************)
(* Theorems about CheckpointReactor, for any turns, reverts, faults and    *)
(* number of events that are behind when a message is sent.                *)
(*                                                                         *)
(* Whatever the order of things, a captured checkpoint keeps its ref       *)
(* (Captures) and its content (Uncaptured: what is being captured is not   *)
(* yet there).                                                             *)
(*                                                                         *)
(* As long as nothing disturbs the order of things, the counts are places: *)
(* a turn's checkpoint has the turn's place in the provider's conversation *)
(* as its count, the ref of a count holds the edits of as many turns, and  *)
(* all turns but one that is in flight have checkpoints.  The handlers     *)
(* take each count from the read model of some steps before, and a revert  *)
(* is done in four steps on three stores, so that this holds rests on the  *)
(* order: one turn at a time, its end after its beginning, and a revert    *)
(* alone.  Ordered is the invariant that says so.                          *)
(*                                                                         *)
(* As long as nothing at all disturbs it, a user's message ranks no later  *)
(* than its turn's place (SameShown), when the messages that the provider  *)
(* refused do not count.  They belong to no turn (Apart), and no revert    *)
(* that is asked for keeps a prompt behind one (Straight).  So the prompts *)
(* that the tables know are among those that the read model keeps without  *)
(* knowing them.                                                           *)
(***************************************************************************)
EXTENDS CheckpointReactor, SequenceTheorems, FiniteSetTheorems, TLAPS

\* What may stand where a turn is named.
Holders == Turns \cup {NoTurn}

-----------------------------------------------------------------------------
(* Counts                                                                  *)

\* A finite set of numbers that is not empty has a greatest.
LEMMA GreatestExists ==
  ASSUME NEW S, IsFiniteSet(S), S \subseteq Nat, S # {}
  PROVE  \E x \in S : \A y \in S : x >= y
<1> DEFINE Without == {T \in SUBSET S : T # {} /\ ~ \E x \in T : \A y \in T : x >= y}
<1>1. SUFFICES ASSUME Without # {}
               PROVE  FALSE
  BY <1>1
<1>2. IsWellFoundedOn(StrictSubsetOrdering(S), SUBSET S)
  BY FS_StrictSubsetOrderingWellFounded, FS_FiniteSubsetsOfFinite
<1>3. Without \subseteq SUBSET S
  OBVIOUS
<1>4. PICK T \in Without : \A U \in Without : ~ (<<U, T>> \in StrictSubsetOrdering(S))
  <2> HIDE DEF Without
  <2>1. QED BY <1>1, <1>2, <1>3, WFMin
<1>5. PICK x \in T : TRUE
  BY <1>4
<1>6. CASE T = {x}
  <2>1. \A y \in T : x >= y
    BY <1>4, <1>6
  <2>2. QED BY <1>4, <2>1
<1>7. CASE T # {x}
  <2>1. T \ {x} \in SUBSET S /\ T \ {x} \subseteq T /\ T \ {x} # T /\ T \ {x} # {}
    BY <1>4, <1>5, <1>7
  <2>2. T \ {x} \notin Without
    BY <1>4, <2>1 DEF StrictSubsetOrdering
  <2>3. PICK z \in T \ {x} : \A y \in T \ {x} : z >= y
    BY <2>1, <2>2
  <2>4. x \in Nat /\ z \in Nat /\ T \subseteq Nat
    BY <1>4
  <2>5. CASE x >= z
    <3>1. \A y \in T : x >= y
      <4>1. TAKE y \in T
      <4>2. y \in Nat
        BY <2>4
      <4>3. CASE y = x
        BY <4>3, <2>4
      <4>4. CASE y # x
        <5>1. z >= y
          BY <4>4, <2>3
        <5>2. QED BY <5>1, <2>4, <2>5, <4>2
      <4>5. QED BY <4>3, <4>4
    <3>2. QED BY <1>4, <3>1
  <2>6. CASE ~ (x >= z)
    <3>1. \A y \in T : z >= y
      BY <2>3, <2>4, <2>6
    <3>2. QED BY <1>4, <3>1
  <2>7. QED BY <2>5, <2>6
<1>8. QED BY <1>6, <1>7

\* The counts of the rows, as a function.
LEMMA CountsFinite ==
  ASSUME NEW f, IsFiniteSet(DOMAIN f), \A t \in DOMAIN f : f[t].count \in Nat
  PROVE  /\ MaxCount(f) \in Nat
         /\ \A t \in DOMAIN f : f[t].count <= MaxCount(f)
         /\ MaxCount(f) = 0 \/ \E t \in DOMAIN f : f[t].count = MaxCount(f)
<1> DEFINE S == {f[t].count : t \in DOMAIN f}
           g == [t \in DOMAIN f |-> f[t].count]
<1>1. g \in Surjection(DOMAIN f, S)
  BY DEF Surjection
<1>2. IsFiniteSet(S)
  BY <1>1, FS_Surjection
<1>3. IsFiniteSet(S \cup {0}) /\ S \cup {0} \subseteq Nat /\ S \cup {0} # {}
  BY <1>2, FS_AddElement
<1>4. \E x \in S \cup {0} : \A y \in S \cup {0} : x >= y
  BY <1>3, GreatestExists
<1>5. MaxCount(f) \in S \cup {0} /\ \A y \in S \cup {0} : MaxCount(f) >= y
  BY <1>4 DEF MaxCount, Max
<1>6. QED BY <1>3, <1>5

-----------------------------------------------------------------------------
(* Types                                                                   *)

Statuses == {"none", "missing", "error", "ready"}

Checkpoints == [count : Nat, status : Statuses, captured : BOOLEAN]

Reverts == {"restore", "rollback", "delete", "complete"}

Capturing == reactor.pc \in {"capture", "dispatch"}

Counts == {CountRef(n) : n \in Nat}

Others == {MessageRef(t) : t \in Holders} \cup {StartRef(t) : t \in Holders}

Targets == Counts \cup {<<"provider-diff", t>> : t \in Turns} \cup {<<>>}

DomainEvents ==
  [type : {"message-sent", "turn-start-requested", "checkpoint-revert-requested"},
   turn : Holders, count : Nat]

Events(types) ==
  [type : types, turn : Turns,
   outcome : {"none", "completed", "failed", "interrupted", "aborted"}]

RuntimeEvents == Events({"turn.started", "turn.completed"})

IngestionEvents ==
  Events({"turn.started", "turn.completed", "turn.aborted", "turn.diff.updated"})

ReactorStates ==
  [pc : {"idle", "capture", "dispatch"} \cup Reverts, turn : Holders, count : Nat,
   status : Statuses, target : Targets, back : Nat, stale : SUBSET Counts]

\* What the two views hold of the checkpoints.
ViewsTyped ==
  /\ DOMAIN thread = {"session", "messages", "checkpoints"}
  /\ DOMAIN thread.checkpoints \subseteq Turns
  /\ \A t \in DOMAIN thread.checkpoints : thread.checkpoints[t] \in Checkpoints
  /\ DOMAIN table = {"messages", "turns", "pending"}
  /\ DOMAIN table.turns \subseteq Turns
  /\ \A t \in DOMAIN table.turns : table.turns[t].count \in Nat
  /\ table.pending \in Holders

\* What is on its way.
QueuesTyped ==
  /\ domain \in Seq(DomainEvents)
  /\ runtime \in Seq(RuntimeEvents)
  /\ ingestion \in Seq(IngestionEvents)

\* What each of the parts holds.
PartsTyped ==
  /\ provider \in [active : Holders, conversation : Seq(Turns), edited : SUBSET Turns]
  /\ starting \in Holders /\ startOf \in Holders
  /\ ingest \in [pc : {"idle", "message", "diff"}, turn : Holders, count : Nat]
  /\ ingest.pc # "idle" => ingest.turn \in Turns
  /\ reactor \in ReactorStates
  /\ Capturing => reactor.turn \in Turns
  /\ DOMAIN refs \subseteq Counts \cup Others
  /\ DOMAIN budget = {"messages", "reverts", "faults"} /\ budget.messages \subseteq Turns

Typed == ViewsTyped /\ QueuesTyped /\ PartsTyped

\* The turns that have checkpoints are finitely many.
LEMMA MaxCounts ==
  ASSUME ViewsTyped
  PROVE  /\ MaxCount(thread.checkpoints) \in Nat
         /\ \A t \in DOMAIN thread.checkpoints :
              thread.checkpoints[t].count <= MaxCount(thread.checkpoints)
         /\ \/ MaxCount(thread.checkpoints) = 0
            \/ \E t \in DOMAIN thread.checkpoints :
                 thread.checkpoints[t].count = MaxCount(thread.checkpoints)
<1>1. IsFiniteSet(DOMAIN thread.checkpoints)
  BY FS_Subset, CheckpointAssumption DEF ViewsTyped
<1>2. \A t \in DOMAIN thread.checkpoints : thread.checkpoints[t].count \in Nat
  BY DEF ViewsTyped, Checkpoints
<1>3. QED BY <1>1, <1>2, CountsFinite

\* The event that is taken.
LEMMA HeadTyped ==
  ASSUME QueuesTyped
  PROVE  /\ domain # <<>> => Head(domain) \in DomainEvents /\ Tail(domain) \in Seq(DomainEvents)
         /\ runtime # <<>> =>
              Head(runtime) \in RuntimeEvents /\ Tail(runtime) \in Seq(RuntimeEvents)
         /\ ingestion # <<>> =>
              Head(ingestion) \in IngestionEvents /\ Tail(ingestion) \in Seq(IngestionEvents)
BY HeadTailProperties DEF QueuesTyped

\* A row that is put has the count it had or that of the checkpoint.
LEMMA RowCount ==
  ASSUME ViewsTyped, NEW t \in Turns, NEW prompt
  PROVE  TurnRow(t, prompt).count \in Nat
<1>1. CASE t \in DOMAIN table.turns
  BY <1>1 DEF TurnRow, ViewsTyped
<1>2. CASE t \notin DOMAIN table.turns
  BY <1>2 DEF TurnRow, NoCheckpoint, Checkpoint, Row
<1>3. QED BY <1>1, <1>2

\* A row is put into the table.
LEMMA PutRow ==
  ASSUME ViewsTyped, NEW t \in Turns, NEW prompt \in Holders, NEW pending \in Holders,
         NEW th, DOMAIN th = DOMAIN thread, th.checkpoints = thread.checkpoints,
         NEW tb, DOMAIN tb = DOMAIN table, tb.pending = pending,
         tb.turns = Put(table.turns, t, TurnRow(t, prompt)),
         thread' = th, table' = tb
  PROVE  ViewsTyped'
BY RowCount DEF ViewsTyped, Put

\* A checkpoint is projected.
LEMMA DiffTyped ==
  ASSUME ViewsTyped, NEW t \in Turns, NEW c \in Checkpoints, ProjectTurnDiff(t, c)
  PROVE  /\ ViewsTyped'
         /\ thread'.checkpoints =
              IF t \in DOMAIN thread.checkpoints /\ thread.checkpoints[t].status # "missing"
                   /\ c.status = "missing"
              THEN thread.checkpoints ELSE Put(thread.checkpoints, t, c)
<1>1. thread'.checkpoints =
        IF t \in DOMAIN thread.checkpoints /\ thread.checkpoints[t].status # "missing"
             /\ c.status = "missing"
        THEN thread.checkpoints ELSE Put(thread.checkpoints, t, c)
  BY DEF ProjectTurnDiff, ViewsTyped
<1>2. DOMAIN thread' = DOMAIN thread /\ DOMAIN table' = DOMAIN table
      /\ table'.pending = table.pending
  BY DEF ProjectTurnDiff, ViewsTyped
<1>3. DOMAIN table'.turns \subseteq Turns
      /\ \A u \in DOMAIN table'.turns : table'.turns[u].count \in Nat
  <2> DEFINE Uncounted(row) == IF row.count = c.count THEN Row(row.prompt, NoCheckpoint) ELSE row
  <2>1. table'.turns = Put([x \in DOMAIN table.turns |-> Uncounted(table.turns[x])], t,
                           Row(TurnRow(t, NoTurn).prompt, c))
    BY DEF ProjectTurnDiff, ViewsTyped
  <2>2. Row(TurnRow(t, NoTurn).prompt, c).count \in Nat
    BY DEF Checkpoints, Row
  <2>3. ASSUME NEW x \in DOMAIN table.turns
        PROVE  Uncounted(table.turns[x]).count \in Nat
    BY <2>3 DEF ViewsTyped, NoCheckpoint, Checkpoint, Row
  <2> HIDE DEF Uncounted
  <2>4. QED BY <2>1, <2>2, <2>3 DEF ViewsTyped, Put
<1>4. DOMAIN thread'.checkpoints \subseteq Turns
      /\ \A u \in DOMAIN thread'.checkpoints : thread'.checkpoints[u] \in Checkpoints
  BY <1>1 DEF ViewsTyped, Put
<1>5. QED BY <1>1, <1>2, <1>3, <1>4 DEF ViewsTyped

\* A revert is projected.
LEMMA RevertedTyped ==
  ASSUME ViewsTyped, NEW n \in Nat, ProjectReverted(n)
  PROVE  /\ ViewsTyped'
         /\ thread'.checkpoints = Only(thread.checkpoints, KeptTurns(thread.checkpoints, n))
<1>1. thread'.checkpoints = Only(thread.checkpoints, KeptTurns(thread.checkpoints, n))
  BY DEF ProjectReverted, ViewsTyped
<1>2. DOMAIN thread' = DOMAIN thread
  BY DEF ProjectReverted, ViewsTyped
<1>3. /\ DOMAIN table' = {"messages", "turns", "pending"} /\ table'.pending = NoTurn
      /\ table'.turns = Only(table.turns, KeptTurns(table.turns, n))
  BY DEF ProjectReverted
<1>4. QED BY <1>1, <1>2, <1>3 DEF ViewsTyped, Only, Holders

\* What each step does to the checkpoints of the thread.
LEMMA ViewSteps ==
  ASSUME Typed, [Next]_vars
  PROVE  ViewsTyped'
<1>1. CASE UNCHANGED vars
  BY <1>1 DEF vars, views, Typed, ViewsTyped
<1>2. ASSUME NEW t \in Turns, SendMessage(t)
      PROVE  ViewsTyped'
  BY <1>2 DEF SendMessage, Typed, ViewsTyped, Holders
<1>3. CASE IngestTurnStarted
  <2>1. CASE UNCHANGED views
    BY <2>1 DEF views, Typed, ViewsTyped
  <2>2. CASE TurnRunning(Head(ingestion).turn)
    <3>1. Head(ingestion).turn \in Turns
      <4>1. ingestion # <<>>
        BY <1>3 DEF IngestTurnStarted, TakeIngestion
      <4>2. QED BY <4>1, HeadTyped DEF Typed, IngestionEvents, Events
    <3>2. PICK t \in Turns : t = Head(ingestion).turn
      BY <3>1
    <3>3. DOMAIN thread' = DOMAIN thread /\ thread'.checkpoints = thread.checkpoints
      BY <2>2 DEF TurnRunning, SetSession, Typed, ViewsTyped
    <3>4. DOMAIN table' = DOMAIN table /\ table'.pending = NoTurn
          /\ table'.turns = Put(table.turns, t, TurnRow(t, table.pending))
      BY <2>2, <3>2 DEF TurnRunning, Typed, ViewsTyped
    <3>5. QED BY <3>3, <3>4, PutRow DEF Typed, ViewsTyped, Holders
  <2>3. QED BY <1>3, <2>1, <2>2 DEF IngestTurnStarted
<1>4. CASE IngestTurnEnded
  BY <1>4 DEF IngestTurnEnded, SetSession, Typed, ViewsTyped
<1>5. CASE CompleteMessage
  <2>1. PICK t \in Turns : t = ingest.turn
    BY <1>5 DEF CompleteMessage, Typed, PartsTyped
  <2>2. DOMAIN thread' = DOMAIN thread /\ thread'.checkpoints = thread.checkpoints
    BY <1>5 DEF CompleteMessage, Typed, ViewsTyped
  <2>3. DOMAIN table' = DOMAIN table /\ table'.pending = table.pending
        /\ table'.turns = Put(table.turns, t, TurnRow(t, NoTurn))
    BY <1>5, <2>1 DEF CompleteMessage, Typed, ViewsTyped
  <2>4. QED BY <2>2, <2>3, PutRow DEF Typed, ViewsTyped, Holders
<1>6. CASE DispatchPlaceholder
  <2>1. ingest.turn \in Turns /\ ingest.count \in Nat
    BY <1>6 DEF DispatchPlaceholder, Typed, PartsTyped
  <2>2. Checkpoint(ingest.count, "missing", FALSE) \in Checkpoints
    BY <2>1 DEF Checkpoint, Checkpoints, Statuses
  <2>3. QED BY <1>6, <2>1, <2>2, DiffTyped DEF DispatchPlaceholder, Typed
<1>7. CASE DispatchCheckpoint
  <2>1. reactor.turn \in Turns /\ reactor.count \in Nat /\ reactor.status \in Statuses
    BY <1>7 DEF DispatchCheckpoint, Typed, PartsTyped, Capturing, ReactorStates
  <2>2. Checkpoint(reactor.count, reactor.status, TRUE) \in Checkpoints
    BY <2>1 DEF Checkpoint, Checkpoints
  <2>3. QED BY <1>7, <2>1, <2>2, DiffTyped DEF DispatchCheckpoint, Typed
<1>8. CASE CompleteRevert
  BY <1>8, RevertedTyped DEF CompleteRevert, Typed, PartsTyped, ReactorStates
<1>9. CASE UNCHANGED views
  BY <1>9 DEF views, Typed, ViewsTyped
<1>10. QED
  <2>1. CASE Provider
    BY <2>1, <1>9 DEF Provider, SendTurn, SendTurnFails, Edit, AbortTurn, EndTurn
  <2>2. CASE Ingestion
    BY <2>2, <1>3, <1>4, <1>5, <1>6, <1>9 DEF Ingestion, IngestDiff
  <2>3. CASE Reactor
    BY <2>3, <1>7, <1>8, <1>9 DEF Reactor, ProcessMessageSent, ProcessTurnStartRequested,
       ProcessTurnStarted, ProcessTurnCompleted, CaptureCheckpoint, ProcessRevertRequested,
       RestoreTree, RollbackConversation, DeleteStaleRefs, FailReactor, TakeDomain, TakeRuntime,
       FailMessageBaseline, FailTurnBaseline
  <2>4. ASSUME NEW t \in Turns, RequestRevert(t)
        PROVE  ViewsTyped'
    BY <2>4, <1>9 DEF RequestRevert
  <2>5. QED BY <1>1, <1>2, <2>1, <2>2, <2>3, <2>4 DEF Next

\* What goes into a queue and what is taken from it.
LEMMA QueueSteps ==
  ASSUME Typed, [Next]_vars
  PROVE  QueuesTyped'
<1> USE DEF Typed, Holders
<1>1. CASE UNCHANGED vars
  BY <1>1 DEF vars, inbox, QueuesTyped
<1>2. ASSUME NEW t \in Turns, SendMessage(t)
      PROVE  QueuesTyped'
  <2>1. domain' = domain \o <<Domain("message-sent", t, 0), Domain("turn-start-requested", t, 0)>>
        /\ UNCHANGED <<runtime, ingestion>>
    BY <1>2 DEF SendMessage
  <2>2. PICK a \in DomainEvents : a = Domain("message-sent", t, 0)
    BY DEF Domain, DomainEvents
  <2>3. PICK b \in DomainEvents : b = Domain("turn-start-requested", t, 0)
    BY DEF Domain, DomainEvents
  <2>4. <<a, b>> \in Seq(DomainEvents)
    OBVIOUS
  <2>5. domain' = domain \o <<a, b>>
    BY <2>1, <2>2, <2>3
  <2>6. domain' \in Seq(DomainEvents)
    BY <2>4, <2>5, ConcatProperties DEF QueuesTyped
  <2>7. QED BY <2>1, <2>6 DEF QueuesTyped
<1>3. ASSUME NEW t \in Turns, RequestRevert(t)
      PROVE  QueuesTyped'
  <2>1. PICK n : n = table.turns[t].count - 1
    OBVIOUS
  <2>2. n \in Nat
    BY <1>3, <2>1 DEF RequestRevert, ViewsTyped
  <2>3. PICK e \in DomainEvents : e = Domain("checkpoint-revert-requested", NoTurn, n)
    BY <2>2 DEF Domain, DomainEvents
  <2>4. domain' = Append(domain, e) /\ UNCHANGED <<runtime, ingestion>>
    BY <1>3, <2>1, <2>3 DEF RequestRevert
  <2>5. QED BY <2>4, AppendProperties DEF QueuesTyped
<1>4. ASSUME NEW type \in {"turn.started", "turn.completed", "turn.aborted", "turn.diff.updated"},
             NEW t \in Turns,
             NEW outcome \in {"none", "completed", "failed", "interrupted", "aborted"},
             ingestion' = Append(ingestion, Runtime(type, t, outcome)),
             \/ UNCHANGED runtime
             \/ /\ type \in {"turn.started", "turn.completed"}
                /\ runtime' = Append(runtime, Runtime(type, t, outcome)),
             UNCHANGED domain
      PROVE  QueuesTyped'
  <2>1. PICK e : e = Runtime(type, t, outcome)
    OBVIOUS
  <2>2. /\ e \in IngestionEvents
        /\ type \in {"turn.started", "turn.completed"} => e \in RuntimeEvents
    BY <2>1 DEF Runtime, IngestionEvents, RuntimeEvents, Events
  <2>3. ingestion' \in Seq(IngestionEvents)
    BY <1>4, <2>1, <2>2, AppendProperties DEF QueuesTyped
  <2>4. runtime' \in Seq(RuntimeEvents)
    <3>1. CASE UNCHANGED runtime
      BY <3>1 DEF QueuesTyped
    <3>2. CASE type \in {"turn.started", "turn.completed"} /\ runtime' = Append(runtime, e)
      BY <2>2, <3>2, AppendProperties DEF QueuesTyped
    <3>3. QED BY <1>4, <2>1, <3>1, <3>2
  <2>5. QED BY <1>4, <2>3, <2>4 DEF QueuesTyped
<1>5. CASE SendTurn
  BY <1>4, <1>5 DEF SendTurn, PartsTyped
<1>6. CASE Edit
  <2>1. provider.active \in Turns
    BY <1>6 DEF Edit, PartsTyped
  <2>2. QED BY <1>4, <1>6, <2>1 DEF Edit, QueuesTyped, inbox
<1>7. ASSUME NEW outcome \in {"completed", "failed", "interrupted"}, EndTurn(outcome)
      PROVE  QueuesTyped'
  <2>1. provider.active \in Turns
    BY <1>7 DEF EndTurn, PartsTyped
  <2>2. QED BY <1>4, <1>7, <2>1 DEF EndTurn
<1>8. CASE AbortTurn
  <2>1. provider.active \in Turns
    BY <1>8 DEF AbortTurn, PartsTyped
  <2>2. QED BY <1>4, <1>8, <2>1 DEF AbortTurn, inbox
<1>9. CASE ingestion # <<>> /\ ingestion' = Tail(ingestion) /\ UNCHANGED <<domain, runtime>>
  BY <1>9, HeadTyped DEF QueuesTyped
<1>10. CASE domain # <<>> /\ domain' = Tail(domain) /\ UNCHANGED <<ingestion, runtime>>
  BY <1>10, HeadTyped DEF QueuesTyped
<1>11. CASE runtime # <<>> /\ runtime' = Tail(runtime) /\ UNCHANGED <<ingestion, domain>>
  BY <1>11, HeadTyped DEF QueuesTyped
<1>12. CASE UNCHANGED <<inbox, ingestion>>
  BY <1>12 DEF QueuesTyped, inbox
<1>13. CASE SendTurnFails
  BY <1>12, <1>13 DEF SendTurnFails
<1>14. QED
  <2>1. CASE Ingestion
    BY <2>1, <1>9, <1>12 DEF Ingestion, IngestTurnStarted, IngestTurnEnded, IngestDiff,
       CompleteMessage, DispatchPlaceholder, TakeIngestion, inbox
  <2>2. CASE Reactor
    BY <2>2, <1>10, <1>11, <1>12 DEF Reactor, ProcessMessageSent, ProcessTurnStartRequested,
       ProcessTurnStarted, ProcessTurnCompleted, CaptureCheckpoint, DispatchCheckpoint,
       ProcessRevertRequested, RestoreTree, RollbackConversation, DeleteStaleRefs, CompleteRevert,
       FailReactor, TakeDomain, TakeRuntime, inbox, FailMessageBaseline, FailTurnBaseline
  <2>3. QED BY <1>1, <1>2, <1>3, <1>5, <1>6, <1>7, <1>8, <1>13, <2>1, <2>2 DEF Next, Provider

\* The conversation is cut.
LEMMA Cut ==
  ASSUME NEW S, NEW s \in Seq(S), NEW n \in Nat, n <= Len(s)
  PROVE  /\ SubSeq(s, 1, n) \in Seq(S) /\ Len(SubSeq(s, 1, n)) = n
         /\ \A i \in 1..n : SubSeq(s, 1, n)[i] = s[i]
<1>1. \A i \in 1..n : s[i] \in S
  BY LenProperties
<1>2. QED BY <1>1, SubSeqProperties, LenProperties

\* What is left of the conversation after a rollback.
LEMMA RollbackTyped ==
  ASSUME NEW s \in Seq(Turns), NEW k \in Nat
  PROVE  SubSeq(s, 1, IF Len(s) > k THEN Len(s) - k ELSE 0) \in Seq(Turns)
<1>1. PICK n : n = IF Len(s) > k THEN Len(s) - k ELSE 0
  OBVIOUS
<1>2. n \in Nat /\ n <= Len(s)
  BY <1>1, LenProperties
<1>3. QED BY <1>1, <1>2, Cut

\* A ref is put, or refs are dropped.
LEMMA RefsPut ==
  ASSUME NEW f, DOMAIN f \subseteq Counts \cup Others, NEW r \in Counts \cup Others, NEW v
  PROVE  DOMAIN Put(f, r, v) \subseteq Counts \cup Others
BY DEF Put

\* The provider moves.
LEMMA ProviderTyped ==
  ASSUME Typed, Provider
  PROVE  PartsTyped'
<1> USE DEF Typed, PartsTyped
<1>1. CASE SendTurn
  <2>1. Append(provider.conversation, starting) \in Seq(Turns) /\ starting \in Turns
    BY <1>1, AppendProperties DEF SendTurn, Holders
  <2>2. DOMAIN refs' \subseteq Counts \cup Others
    BY <1>1, RefsPut DEF SendTurn, Others
  <2>3. DOMAIN budget' = {"messages", "reverts", "faults"} /\ budget'.messages = budget.messages
    BY <1>1 DEF SendTurn, Fault
  <2>4. QED BY <1>1, <2>1, <2>2, <2>3 DEF SendTurn, Holders, Capturing
<1>2. CASE Edit
  BY <1>2 DEF Edit, Holders, Capturing
<1>3. CASE \E outcome \in {"completed", "failed", "interrupted"} : EndTurn(outcome)
  BY <1>3 DEF EndTurn, Fault, Holders, Capturing
<1>4. CASE AbortTurn
  BY <1>4 DEF AbortTurn, Fault, Holders, Capturing
<1>5. CASE SendTurnFails
  <2>1. DOMAIN refs' \subseteq Counts \cup Others
    BY <1>5, RefsPut DEF SendTurnFails, Others
  <2>2. DOMAIN budget' = {"messages", "reverts", "faults"} /\ budget'.messages = budget.messages
    BY <1>5 DEF SendTurnFails, Fault
  <2>3. QED BY <1>5, <2>1, <2>2 DEF SendTurnFails, Holders, Capturing
<1>6. QED BY <1>1, <1>2, <1>3, <1>4, <1>5 DEF Provider

\* The ingestion moves.
LEMMA IngestionTyped ==
  ASSUME Typed, Ingestion
  PROVE  PartsTyped'
<1> USE DEF Typed, PartsTyped
<1>1. ingestion # <<>> => Head(ingestion).turn \in Turns
  BY HeadTyped DEF IngestionEvents, Events
<1>2. CASE IngestTurnStarted
  BY <1>2 DEF IngestTurnStarted, TakeIngestion, Capturing
<1>3. CASE IngestTurnEnded
  <2>1. ingest' = [pc |-> "message", turn |-> Head(ingestion).turn, count |-> 0]
    BY <1>3 DEF IngestTurnEnded
  <2>2. Head(ingestion).turn \in Turns
    BY <1>1, <1>3 DEF IngestTurnEnded, TakeIngestion
  <2>3. QED BY <1>3, <2>1, <2>2 DEF IngestTurnEnded, TakeIngestion, Capturing, Holders
<1>4. CASE CompleteMessage \/ DispatchPlaceholder
  <2>1. /\ ingest' = [pc |-> "idle", turn |-> NoTurn, count |-> 0]
        /\ UNCHANGED <<refs, provider, starting, reactor, startOf, budget>>
    BY <1>4 DEF CompleteMessage, DispatchPlaceholder, NotIngesting
  <2>2. QED BY <2>1 DEF Capturing, Holders
<1>5. CASE IngestDiff
  <2>1. Head(ingestion).turn \in Turns
    BY <1>1, <1>5 DEF IngestDiff, TakeIngestion
  <2>2. ingest' = ingest \/ ingest' = [pc |-> "diff", turn |-> Head(ingestion).turn,
                                       count |-> MaxCount(thread.checkpoints) + 1]
    BY <1>5 DEF IngestDiff
  <2>3. QED BY <1>5, <2>1, <2>2, MaxCounts DEF IngestDiff, TakeIngestion, Capturing, Holders
<1>6. QED BY <1>2, <1>3, <1>4, <1>5 DEF Ingestion

\* Where the baseline is saved.
LEMMA BaselineTyped ==
  ASSUME ViewsTyped, NEW rs, DOMAIN rs \subseteq Counts \cup Others, EnsureBaseline(rs)
  PROVE  DOMAIN refs' \subseteq Counts \cup Others
<1>1. PICK b \in Counts : b = CountRef(MaxCount(thread.checkpoints))
  BY MaxCounts DEF Counts
<1>2. QED BY <1>1, RefsPut DEF EnsureBaseline, Captured

\* What the message's tree, saved as the turn's start, adds to the refs.
LEMMA AliasTyped ==
  ASSUME Typed, NEW t \in Turns
  PROVE  /\ DOMAIN refs \subseteq DOMAIN StartAliased(t)
         /\ DOMAIN StartAliased(t) \subseteq Counts \cup Others
<1>1. StartRef(t) \in Counts \cup Others
  BY DEF Others, Holders
<1>2. PICK m : m = IF startOf # NoTurn THEN startOf ELSE table.pending
  OBVIOUS
<1>3. StartAliased(t) = IF MessageRef(m) \in DOMAIN refs
                        THEN Put(refs, StartRef(t), refs[MessageRef(m)]) ELSE refs
  BY <1>2 DEF StartAliased
<1>4. QED BY <1>1, <1>3, RefsPut DEF Typed, PartsTyped, Put

\* What a baseline that fails may have done: no view, no step of a checkpoint.
LEMMA FailBaseline ==
  ASSUME Typed, FailMessageBaseline \/ FailTurnBaseline
  PROVE  /\ reactor.pc = "idle" /\ startOf' \in Holders
         /\ DOMAIN refs \subseteq DOMAIN refs' /\ DOMAIN refs' \subseteq Counts \cup Others
         /\ DOMAIN budget' = DOMAIN budget /\ budget'.messages = budget.messages
         /\ UNCHANGED <<thread, table, tree, provider, starting, refused, ingestion, ingest,
                        reactor, disturbed>>
<1>1. CASE FailMessageBaseline
  <2>1. PICK t : t = Head(domain).turn
    OBVIOUS
  <2>2. t \in Holders
    BY <1>1, <2>1, HeadTyped DEF FailMessageBaseline, DomainEvents, Typed
  <2>3. DOMAIN refs \subseteq DOMAIN Captured(refs, MessageRef(t))
        /\ DOMAIN Captured(refs, MessageRef(t)) \subseteq Counts \cup Others
    BY <2>2, RefsPut DEF Captured, Put, Others, Typed, PartsTyped
  <2>4. /\ reactor.pc = "idle"
        /\ DOMAIN budget' = DOMAIN budget /\ budget'.messages = budget.messages
        /\ UNCHANGED <<thread, table, tree, provider, starting, refused, ingestion, ingest, reactor,
                       disturbed>>
    BY <1>1 DEF FailMessageBaseline, Fault, views, Typed, PartsTyped
  <2>5. \/ UNCHANGED <<refs, startOf>>
        \/ startOf' = t /\ refs' \in {refs, Captured(refs, MessageRef(t))}
    BY <1>1, <2>1 DEF FailMessageBaseline
  <2>6. QED BY <2>2, <2>3, <2>4, <2>5 DEF Typed, PartsTyped
<1>2. CASE FailTurnBaseline
  <2>1. PICK t : t = Head(runtime).turn
    OBVIOUS
  <2>2. t \in Turns
    BY <1>2, <2>1, HeadTyped DEF FailTurnBaseline, RuntimeEvents, Events, Typed
  <2>3. /\ reactor.pc = "idle"
        /\ DOMAIN budget' = DOMAIN budget /\ budget'.messages = budget.messages
        /\ UNCHANGED <<thread, table, tree, provider, starting, refused, ingestion, ingest, reactor,
                       disturbed>>
    BY <1>2 DEF FailTurnBaseline, Fault, views, Typed, PartsTyped
  <2>4. \/ UNCHANGED <<refs, startOf>>
        \/ refs' = StartAliased(t) /\ startOf' = NoTurn
    BY <1>2, <2>1 DEF FailTurnBaseline
  <2>5. QED BY <2>2, <2>3, <2>4, AliasTyped DEF Typed, PartsTyped, Holders
<1>3. QED BY <1>1, <1>2

\* What a handler leaves of the reactor.
LEMMA AtRestTyped == AtRest \in ReactorStates /\ AtRest.pc = "idle"
BY DEF AtRest, ReactorStates, Holders, Statuses, Targets

\* The reactor of the checkpoints moves.
LEMMA ReactorTyped ==
  ASSUME Typed, Reactor
  PROVE  PartsTyped'
<1> USE DEF Typed, PartsTyped
<1>1. /\ domain # <<>> => Head(domain).turn \in Holders /\ Head(domain).count \in Nat
      /\ runtime # <<>> => Head(runtime).turn \in Turns
  BY HeadTyped DEF DomainEvents, RuntimeEvents, Events
<1>2. CASE ProcessMessageSent
  BY <1>2, BaselineTyped DEF ProcessMessageSent, TakeDomain, Capturing
<1>3. CASE ProcessTurnStartRequested
  <2>1. PICK t \in Holders : t = Head(domain).turn
    BY <1>1, <1>3 DEF ProcessTurnStartRequested, TakeDomain
  <2>2. DOMAIN Captured(refs, MessageRef(t)) \subseteq Counts \cup Others
    BY RefsPut DEF Captured, Others
  <2>3. DOMAIN refs' \subseteq Counts \cup Others
    BY <1>3, <2>1, <2>2, BaselineTyped DEF ProcessTurnStartRequested
  <2>4. QED BY <1>3, <2>1, <2>3 DEF ProcessTurnStartRequested, TakeDomain, Capturing
<1>4. CASE ProcessTurnStarted
  <2>1. PICK t \in Turns : t = Head(runtime).turn
    BY <1>1, <1>4 DEF ProcessTurnStarted, TakeRuntime
  <2>2. EnsureBaseline(StartAliased(t))
    BY <1>4, <2>1 DEF ProcessTurnStarted
  <2>3. DOMAIN refs' \subseteq Counts \cup Others
    BY <2>2, AliasTyped, BaselineTyped
  <2>4. QED BY <1>4, <2>3 DEF ProcessTurnStarted, TakeRuntime, Capturing, Holders
<1>5. CASE ProcessTurnCompleted
  <2>1. PICK t \in Turns : t = Head(runtime).turn
    BY <1>1, <1>5 DEF ProcessTurnCompleted, TakeRuntime
  <2>2. PICK n : n = IF t \in DOMAIN thread.checkpoints THEN thread.checkpoints[t].count
                     ELSE MaxCount(thread.checkpoints) + 1
    OBVIOUS
  <2>3. n \in Nat
    BY <2>2, MaxCounts DEF ViewsTyped, Checkpoints
  <2>4. PICK st \in Statuses : st = CheckpointStatus(Head(runtime).outcome)
    BY DEF Statuses, CheckpointStatus
  <2>5. \/ reactor' = reactor
        \/ reactor' = [AtRest EXCEPT !.pc = "capture", !.turn = t, !.count = n, !.status = st]
    BY <1>5, <2>1, <2>2, <2>4 DEF ProcessTurnCompleted
  <2>6. reactor' \in ReactorStates /\ (Capturing' => reactor'.turn \in Turns)
    <3>1. CASE reactor' = reactor
      BY <3>1 DEF Capturing
    <3>2. CASE reactor' = [AtRest EXCEPT !.pc = "capture", !.turn = t, !.count = n, !.status = st]
      BY <2>3, <3>2, AtRestTyped DEF ReactorStates, Holders
    <3>3. QED BY <2>5, <3>1, <3>2
  <2>7. QED BY <1>5, <2>6 DEF ProcessTurnCompleted, TakeRuntime
<1>6. CASE CaptureCheckpoint
  <2>1. CountRef(reactor.count) \in Counts
    BY DEF ReactorStates, Counts
  <2>2. DOMAIN refs' \subseteq Counts \cup Others
    BY <1>6, <2>1, RefsPut DEF CaptureCheckpoint
  <2>3. reactor' \in ReactorStates /\ (Capturing' => reactor'.turn \in Turns)
    BY <1>6 DEF CaptureCheckpoint, ReactorStates, Capturing, Statuses
  <2>4. QED BY <1>6, <2>2, <2>3 DEF CaptureCheckpoint
<1>7. CASE reactor' = AtRest /\ UNCHANGED <<provider, starting, startOf, ingest, refs>>
           /\ DOMAIN budget' = DOMAIN budget /\ budget'.messages = budget.messages
  BY <1>7, AtRestTyped DEF Capturing
<1>8. CASE ProcessRevertRequested
  <2>1. PICK n \in Nat : n = Head(domain).count
    BY <1>1, <1>8 DEF ProcessRevertRequested, TakeDomain
  <2>2. PICK current \in Nat : current = MaxCount(thread.checkpoints)
    BY MaxCounts
  <2>3. PICK stale \in SUBSET Counts : stale = StaleRefs(n)
    <3>1. StaleRefs(n) \subseteq Counts
      BY DEF StaleRefs, Counts, ViewsTyped, Checkpoints
    <3>2. QED BY <3>1
  <2>4. RevertTargets(n) \subseteq Targets
    BY DEF RevertTargets, Targets, Counts, ViewsTyped
  <2>5. \/ reactor' = reactor
        \/ /\ n <= current
           /\ \E target \in RevertTargets(n) :
                reactor' = [AtRest EXCEPT !.pc = "restore", !.count = n, !.target = target,
                              !.back = current - n, !.stale = stale]
    BY <1>8, <2>1, <2>2, <2>3 DEF ProcessRevertRequested
  <2>7. reactor' \in ReactorStates /\ (Capturing' => reactor'.turn \in Turns)
    <3>1. CASE reactor' = reactor
      BY <3>1 DEF Capturing
    <3>2. ASSUME n <= current, NEW target \in Targets,
                 reactor' = [AtRest EXCEPT !.pc = "restore", !.count = n, !.target = target,
                               !.back = current - n, !.stale = stale]
          PROVE  reactor' \in ReactorStates /\ ~Capturing'
      <4>1. PICK back \in Nat : back = current - n
        BY <3>2
      <4>2. reactor' = [AtRest EXCEPT !.pc = "restore", !.count = n, !.target = target,
                          !.back = back, !.stale = stale]
        BY <3>2, <4>1
      <4>3. QED BY ONLY <4>2, AtRestTyped, target \in Targets, n \in Nat, back \in Nat,
                        stale \in SUBSET Counts DEF ReactorStates, Reverts, Capturing
    <3>3. QED BY <2>4, <2>5, <3>1, <3>2
  <2>8. QED BY <1>8, <2>7 DEF ProcessRevertRequested, TakeDomain
<1>9. CASE RestoreTree
  <2>1. reactor' = AtRest \/ reactor' = [reactor EXCEPT !.pc = "rollback"]
    BY <1>9 DEF RestoreTree
  <2>2. reactor' \in ReactorStates /\ ~Capturing'
    BY <2>1, AtRestTyped DEF ReactorStates, Reverts, Capturing
  <2>3. QED BY <1>9, <2>2 DEF RestoreTree
<1>10. CASE RollbackConversation
  <2>1. provider'.conversation \in Seq(Turns) /\ provider'.active = provider.active
        /\ provider' \in [active : Holders, conversation : Seq(Turns), edited : SUBSET Turns]
    BY <1>10, RollbackTyped DEF RollbackConversation, ReactorStates
  <2>2. reactor' \in ReactorStates /\ ~Capturing'
    BY <1>10 DEF RollbackConversation, ReactorStates, Reverts, Capturing
  <2>3. QED BY <1>10, <2>1, <2>2 DEF RollbackConversation
<1>11. CASE DeleteStaleRefs
  <2>1. reactor' \in ReactorStates /\ ~Capturing'
    BY <1>11 DEF DeleteStaleRefs, ReactorStates, Reverts, Capturing
  <2>2. DOMAIN refs' \subseteq Counts \cup Others
    BY <1>11 DEF DeleteStaleRefs, Only
  <2>3. QED BY <1>11, <2>1, <2>2 DEF DeleteStaleRefs
<1>12. QED
  <2>1. CASE DispatchCheckpoint \/ CompleteRevert
    BY <2>1, <1>7 DEF DispatchCheckpoint, CompleteRevert
  <2>2. CASE FailReactor
    <3>1. DOMAIN budget' = DOMAIN budget /\ budget'.messages = budget.messages
      BY <2>2 DEF FailReactor, Fault
    <3>2. QED BY <2>2, <3>1, <1>7 DEF FailReactor
  <2>3. CASE FailMessageBaseline \/ FailTurnBaseline
    BY <2>3, FailBaseline DEF Capturing
  <2>4. QED BY <1>2, <1>3, <1>4, <1>5, <1>6, <1>8, <1>9, <1>10, <1>11, <2>1, <2>2, <2>3 DEF Reactor

\* Every step keeps the types.
LEMMA TypedSteps == Typed /\ [Next]_vars => Typed'
<1> SUFFICES ASSUME Typed, [Next]_vars
             PROVE  Typed'
  OBVIOUS
<1>1. CASE UNCHANGED vars
  BY <1>1, ViewSteps, QueueSteps DEF vars, Typed, PartsTyped, Capturing
<1>2. ASSUME NEW t \in Turns, SendMessage(t) \/ RequestRevert(t)
      PROVE  PartsTyped'
  <2>1. CASE SendMessage(t)
    BY <2>1 DEF SendMessage, Typed, PartsTyped, Capturing, Holders
  <2>2. CASE RequestRevert(t)
    BY <2>2 DEF RequestRevert, Typed, PartsTyped, Capturing, Holders
  <2>3. QED BY <1>2, <2>1, <2>2
<1>3. CASE Next
  BY <1>2, <1>3, ViewSteps, QueueSteps, ProviderTyped, IngestionTyped, ReactorTyped DEF Next, Typed
<1>4. QED BY <1>1, <1>3

\* What begins is typed.
LEMMA TypedInit == Init => Typed
BY DEF Init, Typed, ViewsTyped, QueuesTyped, PartsTyped, Empty, NotIngesting, AtRest, ReactorStates,
       Holders, Statuses, Targets, Capturing

-----------------------------------------------------------------------------
(* What is captured                                                        *)

\* Refs of counts are as different as the counts, and unlike other refs.
LEMMA RefsDiffer ==
  /\ \A m, n \in Nat : CountRef(m) = CountRef(n) => m = n
  /\ \A n \in Nat, t \in Holders : CountRef(n) # MessageRef(t) /\ CountRef(n) # StartRef(t)
  /\ \A n \in Nat, t \in Turns : CountRef(n) # <<"provider-diff", t>>
  /\ \A r \in Counts \cup Others, t \in Turns : r # <<"provider-diff", t>>
BY DEF CountRef, MessageRef, StartRef, Counts, Others

\* The refs that a revert which has not deleted them will delete are those of
\* higher counts, and what has been captured for a turn has its ref, unless a
\* revert that is about to complete took it away, or one stopped there.
Captures ==
  /\ reactor.pc = "dispatch" => CountRef(reactor.count) \in DOMAIN refs
  /\ reactor.pc \in {"restore", "rollback", "delete"} =>
       reactor.stale \subseteq {CountRef(n) : n \in {m \in Nat : m > reactor.count}}
  /\ "torn" \notin disturbed =>
       \A t \in DOMAIN thread.checkpoints : thread.checkpoints[t].captured =>
         \/ CountRef(thread.checkpoints[t].count) \in DOMAIN refs
         \/ reactor.pc = "complete" /\ thread.checkpoints[t].count > reactor.count

\* A turn whose end is being handled has no checkpoint that would have to stay.
Uncaptured ==
  Capturing => \/ reactor.turn \notin DOMAIN thread.checkpoints
               \/ thread.checkpoints[reactor.turn].status = "missing"

\* Steps that leave the reactor alone.
Aside ==
  \/ UNCHANGED vars
  \/ \E t \in Turns : SendMessage(t) \/ RequestRevert(t)
  \/ Provider \/ Ingestion

\* Steps in which the reactor, at rest, takes an event.
Takes ==
  \/ ProcessMessageSent \/ ProcessTurnStartRequested \/ ProcessTurnStarted
  \/ FailMessageBaseline \/ FailTurnBaseline
  \/ ProcessTurnCompleted \/ ProcessRevertRequested

\* Who changes the reactor.
LEMMA AsideSteps ==
  ASSUME Typed, Aside
  PROVE  reactor' = reactor /\ DOMAIN refs \subseteq DOMAIN refs' /\ disturbed \subseteq disturbed'
<1>1. CASE UNCHANGED vars
  BY <1>1 DEF vars
<1>2. ASSUME NEW t \in Turns, SendMessage(t) \/ RequestRevert(t)
      PROVE  reactor' = reactor /\ refs' = refs /\ disturbed \subseteq disturbed'
  BY <1>2 DEF SendMessage, RequestRevert
<1>3. CASE Ingestion
  BY <1>3 DEF Ingestion, IngestTurnStarted, IngestTurnEnded, IngestDiff, CompleteMessage,
     DispatchPlaceholder, TakeIngestion
<1>4. CASE Provider
  BY <1>4 DEF Provider, SendTurn, SendTurnFails, Edit, EndTurn, AbortTurn, Put
<1>5. QED BY <1>1, <1>2, <1>3, <1>4 DEF Aside

\* Who changes the checkpoints.
LEMMA CheckpointsStay ==
  ASSUME Typed, [Next]_vars, ~DispatchPlaceholder, ~DispatchCheckpoint, ~CompleteRevert
  PROVE  thread'.checkpoints = thread.checkpoints
<1>1. CASE UNCHANGED views
  BY <1>1 DEF views
<1>2. ASSUME NEW t \in Turns, SendMessage(t)
      PROVE  thread'.checkpoints = thread.checkpoints
  BY <1>2 DEF SendMessage, Typed, ViewsTyped
<1>3. CASE IngestTurnStarted \/ IngestTurnEnded \/ CompleteMessage
  BY <1>3 DEF IngestTurnStarted, TurnRunning, IngestTurnEnded, CompleteMessage, SetSession, Typed,
     ViewsTyped, views
<1>4. CASE Provider
  BY <1>1, <1>4 DEF Provider, SendTurn, SendTurnFails, Edit, AbortTurn, EndTurn
<1>5. CASE Ingestion
  BY <1>1, <1>3, <1>5 DEF Ingestion, IngestDiff
<1>6. CASE Reactor
  BY <1>1, <1>6 DEF Reactor, ProcessMessageSent, ProcessTurnStartRequested, ProcessTurnStarted,
     ProcessTurnCompleted, CaptureCheckpoint, ProcessRevertRequested, RestoreTree,
     RollbackConversation, DeleteStaleRefs, FailReactor, TakeDomain, TakeRuntime,
     FailMessageBaseline, FailTurnBaseline
<1>7. ASSUME NEW t \in Turns, RequestRevert(t)
      PROVE  thread'.checkpoints = thread.checkpoints
  BY <1>1, <1>7 DEF RequestRevert
<1>8. QED BY <1>1, <1>2, <1>4, <1>5, <1>6, <1>7 DEF Next, vars, views

\* What a placeholder that is dispatched, or the end of a capture, changes.
LEMMA PlaceholderPut ==
  ASSUME Typed, DispatchPlaceholder
  PROVE  LET c == Checkpoint(ingest.count, "missing", FALSE)
         IN  /\ ingest.turn \in Turns /\ ingest.count \in Nat
             /\ c \in Checkpoints /\ c.count = ingest.count /\ c.status = "missing" /\ ~c.captured
             /\ thread'.checkpoints =
                  IF /\ ingest.turn \in DOMAIN thread.checkpoints
                     /\ thread.checkpoints[ingest.turn].status # "missing"
                  THEN thread.checkpoints ELSE Put(thread.checkpoints, ingest.turn, c)
<1>1. ingest.turn \in Turns /\ ingest.count \in Nat
  BY DEF DispatchPlaceholder, Typed, PartsTyped
<1>2. PICK c : c = Checkpoint(ingest.count, "missing", FALSE)
  OBVIOUS
<1>3. c \in Checkpoints /\ c.count = ingest.count /\ c.status = "missing" /\ c.captured = FALSE
  BY <1>1, <1>2 DEF Checkpoint, Checkpoints, Statuses
<1>4. ProjectTurnDiff(ingest.turn, c)
  BY <1>2 DEF DispatchPlaceholder
<1>5. QED BY <1>1, <1>2, <1>3, <1>4, DiffTyped DEF Typed

\* ... and for a captured checkpoint.
LEMMA CheckpointPut ==
  ASSUME Typed, Uncaptured, DispatchCheckpoint
  PROVE  LET c == Checkpoint(reactor.count, reactor.status, TRUE)
         IN  /\ reactor.turn \in Turns /\ reactor.count \in Nat
             /\ c \in Checkpoints /\ c.count = reactor.count /\ c.captured
             /\ thread'.checkpoints = Put(thread.checkpoints, reactor.turn, c)
<1>1. reactor.turn \in Turns /\ reactor.count \in Nat /\ reactor.status \in Statuses /\ Capturing
  BY DEF DispatchCheckpoint, Typed, PartsTyped, ReactorStates, Capturing
<1>2. PICK c : c = Checkpoint(reactor.count, reactor.status, TRUE)
  OBVIOUS
<1>3. c \in Checkpoints /\ c.count = reactor.count /\ c.captured = TRUE
  BY <1>1, <1>2 DEF Checkpoint, Checkpoints
<1>4. ProjectTurnDiff(reactor.turn, c)
  BY <1>2 DEF DispatchCheckpoint
<1>5. QED BY <1>1, <1>2, <1>3, <1>4, DiffTyped DEF Typed, Uncaptured

\* What a step of the reactor at rest does to it and to the refs.
LEMMA TakesSteps ==
  ASSUME Typed, Takes
  PROVE  /\ reactor.pc = "idle" /\ DOMAIN refs \subseteq DOMAIN refs'
         /\ disturbed \subseteq disturbed' /\ thread' = thread
<1>1. /\ reactor.pc = "idle" /\ thread' = thread
  BY DEF Takes, ProcessMessageSent, ProcessTurnStartRequested, ProcessTurnStarted,
     ProcessTurnCompleted, ProcessRevertRequested, TakeDomain, TakeRuntime, views,
     FailMessageBaseline, FailTurnBaseline
<1>2. ASSUME NEW rs, DOMAIN refs \subseteq DOMAIN rs, EnsureBaseline(rs)
      PROVE  DOMAIN refs \subseteq DOMAIN refs' /\ disturbed \subseteq disturbed'
  BY <1>2 DEF EnsureBaseline, Captured, Put
<1>3. CASE ProcessMessageSent
  BY <1>1, <1>2, <1>3 DEF ProcessMessageSent
<1>4. CASE ProcessTurnStartRequested
  BY <1>1, <1>2, <1>4 DEF ProcessTurnStartRequested, Captured, Put
<1>5. CASE ProcessTurnStarted
  <2>1. PICK t \in Turns : t = Head(runtime).turn
    BY <1>5, HeadTyped DEF ProcessTurnStarted, TakeRuntime, RuntimeEvents, Events, Typed
  <2>2. EnsureBaseline(StartAliased(t))
    BY <1>5, <2>1 DEF ProcessTurnStarted
  <2>3. QED BY <1>1, <1>2, <2>2, AliasTyped
<1>6. CASE ProcessTurnCompleted \/ ProcessRevertRequested
  BY <1>1, <1>6 DEF ProcessTurnCompleted, ProcessRevertRequested
<1>7. CASE FailMessageBaseline \/ FailTurnBaseline
  BY <1>1, <1>7, FailBaseline
<1>8. QED BY <1>3, <1>4, <1>5, <1>6, <1>7 DEF Takes

\* A handler begins with nothing captured, and a revert knows what is stale.
LEMMA TakenCaptures ==
  ASSUME Typed, Captures, Takes
  PROVE  Captures' /\ Uncaptured'
<1>1. /\ reactor.pc = "idle" /\ DOMAIN refs \subseteq DOMAIN refs'
      /\ disturbed \subseteq disturbed' /\ thread' = thread
  BY TakesSteps
<1>2. \/ reactor' = reactor
      \/ reactor'.pc = "capture" /\ Uncaptured'
      \/ /\ reactor'.pc = "restore"
         /\ reactor'.stale \subseteq {CountRef(n) : n \in {m \in Nat : m > reactor'.count}}
  <2>1. CASE ProcessMessageSent \/ ProcessTurnStartRequested \/ ProcessTurnStarted
    BY <2>1 DEF ProcessMessageSent, ProcessTurnStartRequested, ProcessTurnStarted, TakeDomain
  <2>2. CASE ProcessTurnCompleted
    <3>1. PICK t, n, st :
            \/ reactor' = reactor
            \/ /\ ~ (t \in DOMAIN thread.checkpoints /\ thread.checkpoints[t].status # "missing")
               /\ reactor' = [AtRest EXCEPT !.pc = "capture", !.turn = t, !.count = n,
                                !.status = st]
      BY <2>2 DEF ProcessTurnCompleted
    <3>2. QED BY <1>1, <3>1 DEF Uncaptured, AtRest
  <2>3. CASE ProcessRevertRequested
    <3>1. PICK n : n = Head(domain).count
      OBVIOUS
    <3>2. n \in Nat
      BY <2>3, <3>1, HeadTyped DEF ProcessRevertRequested, TakeDomain, DomainEvents, Typed
    <3>3. PICK stale : stale = StaleRefs(n)
      OBVIOUS
    <3>4. stale \subseteq {CountRef(k) : k \in {m \in Nat : m > n}}
      BY <3>2, <3>3 DEF StaleRefs, Typed, ViewsTyped, Checkpoints
    <3>5. \/ reactor' = reactor
          \/ \E target, back :
               reactor' = [AtRest EXCEPT !.pc = "restore", !.count = n, !.target = target,
                             !.back = back, !.stale = stale]
      BY <2>3, <3>1, <3>3 DEF ProcessRevertRequested
    <3>6. CASE reactor' # reactor
      <4>1. PICK target, back :
              reactor' = [AtRest EXCEPT !.pc = "restore", !.count = n, !.target = target,
                            !.back = back, !.stale = stale]
        BY <3>5, <3>6
      <4>2. reactor'.pc = "restore" /\ reactor'.count = n /\ reactor'.stale = stale
        BY <4>1 DEF AtRest
      <4>3. QED BY <3>4, <4>2
    <3>7. QED BY <3>6
  <2>4. CASE FailMessageBaseline \/ FailTurnBaseline
    BY <2>4, FailBaseline
  <2>5. QED BY <2>1, <2>2, <2>3, <2>4 DEF Takes
<1>3. reactor'.pc \in {"idle", "capture", "restore"}
  BY <1>1, <1>2
<1>4. "torn" \notin disturbed' =>
        \A t \in DOMAIN thread'.checkpoints : thread'.checkpoints[t].captured =>
          CountRef(thread'.checkpoints[t].count) \in DOMAIN refs'
  BY <1>1 DEF Captures
<1>5. QED BY <1>1, <1>2, <1>3, <1>4 DEF Captures, Uncaptured, Capturing

\* A placeholder takes no captured checkpoint's ref, and is none itself.
LEMMA AsideCaptures ==
  ASSUME Typed, Captures, Uncaptured, Aside, [Next]_vars
  PROVE  Captures' /\ Uncaptured'
<1>1. reactor' = reactor /\ DOMAIN refs \subseteq DOMAIN refs' /\ disturbed \subseteq disturbed'
  BY AsideSteps
<1>2. ~CompleteRevert /\ ~DispatchCheckpoint
  BY <1>1, AtRestTyped DEF CompleteRevert, DispatchCheckpoint
<1>3. CASE ~DispatchPlaceholder
  <2>1. thread'.checkpoints = thread.checkpoints
    BY <1>2, <1>3, CheckpointsStay
  <2>2. QED BY <1>1, <2>1 DEF Captures, Uncaptured, Capturing
<1>4. CASE DispatchPlaceholder
  <2>1. PICK c : c = Checkpoint(ingest.count, "missing", FALSE)
    OBVIOUS
  <2>2. /\ c.status = "missing" /\ ~c.captured
        /\ \/ thread'.checkpoints = thread.checkpoints
           \/ thread'.checkpoints = Put(thread.checkpoints, ingest.turn, c)
    BY <1>4, <2>1, PlaceholderPut
  <2>3. QED BY <1>1, <2>2 DEF Captures, Uncaptured, Capturing, Put
<1>5. QED BY <1>3, <1>4

\* The steps of a capture.
LEMMA CaptureCaptures ==
  ASSUME Typed, Captures, Uncaptured, CaptureCheckpoint \/ DispatchCheckpoint
  PROVE  Captures' /\ Uncaptured'
<1>1. CASE CaptureCheckpoint
  <2>1. /\ refs' = Put(refs, CountRef(reactor.count), tree) /\ thread' = thread
        /\ disturbed' = disturbed /\ reactor.pc = "capture" /\ reactor'.pc = "dispatch"
        /\ reactor'.count = reactor.count /\ reactor'.turn = reactor.turn
    BY <1>1 DEF CaptureCheckpoint, Typed, PartsTyped, ReactorStates, views
  <2>2. QED BY <2>1 DEF Captures, Uncaptured, Capturing, Put
<1>2. CASE DispatchCheckpoint
  <2>1. PICK c : c = Checkpoint(reactor.count, reactor.status, TRUE)
    OBVIOUS
  <2>2. c.count = reactor.count /\ thread'.checkpoints = Put(thread.checkpoints, reactor.turn, c)
    BY <1>2, <2>1, CheckpointPut
  <2>3. reactor.pc = "dispatch" /\ reactor'.pc = "idle" /\ refs' = refs /\ disturbed' = disturbed
    BY <1>2 DEF DispatchCheckpoint, AtRest
  <2>4. QED BY <2>2, <2>3 DEF Captures, Uncaptured, Capturing, Put
<1>3. QED BY <1>1, <1>2

\* The steps of a revert.
LEMMA RevertCaptures ==
  ASSUME Typed, Captures, [Next]_vars,
         RestoreTree \/ RollbackConversation \/ DeleteStaleRefs \/ CompleteRevert \/ FailReactor
  PROVE  Captures' /\ Uncaptured'
<1>1. CASE RestoreTree \/ RollbackConversation
  <2>1. /\ reactor.pc \in {"restore", "rollback"} /\ reactor'.pc \in {"idle", "rollback", "delete"}
        /\ reactor'.pc # "idle" => reactor'.count = reactor.count /\ reactor'.stale = reactor.stale
        /\ UNCHANGED <<refs, disturbed, thread>>
    BY <1>1 DEF RestoreTree, RollbackConversation, Typed, PartsTyped, ReactorStates, views, AtRest
  <2>2. QED BY <2>1 DEF Captures, Uncaptured, Capturing
<1>2. CASE DeleteStaleRefs
  <2>1. /\ reactor.pc = "delete" /\ reactor'.pc = "complete" /\ reactor'.count = reactor.count
        /\ refs' = Only(refs, DOMAIN refs \ reactor.stale) /\ UNCHANGED <<disturbed, thread>>
    BY <1>2 DEF DeleteStaleRefs, Typed, PartsTyped, ReactorStates, views
  <2>2. ASSUME NEW t \in DOMAIN thread.checkpoints,
               CountRef(thread.checkpoints[t].count) \in reactor.stale
        PROVE  thread.checkpoints[t].count > reactor.count
    <3>1. thread.checkpoints[t].count \in Nat
      BY DEF Typed, ViewsTyped, Checkpoints
    <3>2. PICK m \in Nat : m > reactor.count /\ CountRef(m) = CountRef(thread.checkpoints[t].count)
      BY <2>1, <2>2 DEF Captures
    <3>3. QED BY <3>1, <3>2, RefsDiffer
  <2>3. QED BY <2>1, <2>2 DEF Captures, Uncaptured, Capturing, Only
<1>3. CASE CompleteRevert
  <2>1. /\ reactor.pc = "complete" /\ reactor'.pc = "idle" /\ UNCHANGED <<refs, disturbed>>
        /\ reactor.count \in Nat
    BY <1>3 DEF CompleteRevert, AtRest, Typed, PartsTyped, ReactorStates
  <2>2. thread'.checkpoints
          = Only(thread.checkpoints, KeptTurns(thread.checkpoints, reactor.count))
    BY <1>3, <2>1, RevertedTyped DEF CompleteRevert, Typed
  <2>3. ASSUME NEW t \in DOMAIN thread'.checkpoints
        PROVE  /\ t \in DOMAIN thread.checkpoints /\ thread'.checkpoints[t] = thread.checkpoints[t]
               /\ ~ (thread.checkpoints[t].count > reactor.count)
    BY <2>1, <2>2, <2>3 DEF Only, KeptTurns
  <2>4. QED BY <2>1, <2>3 DEF Captures, Uncaptured, Capturing
<1>4. CASE FailReactor
  <2>1. /\ reactor'.pc = "idle" /\ UNCHANGED <<refs, thread>> /\ disturbed \subseteq disturbed'
        /\ reactor.pc = "complete" => "torn" \in disturbed'
    BY <1>4 DEF FailReactor, AtRest, views
  <2>2. QED BY <2>1 DEF Captures, Uncaptured, Capturing
<1>5. QED BY <1>1, <1>2, <1>3, <1>4

\* Every step is one of those.
LEMMA CaptureSteps == Typed /\ Captures /\ Uncaptured /\ [Next]_vars => Captures' /\ Uncaptured'
<1> SUFFICES ASSUME Typed, Captures, Uncaptured, [Next]_vars
             PROVE  Captures' /\ Uncaptured'
  OBVIOUS
<1>1. QED BY TakenCaptures, AsideCaptures, CaptureCaptures, RevertCaptures
          DEF Next, Reactor, Takes, Aside

\* What is known of the checkpoints in every state.
LEMMA CapturesAlways == Spec => [](Typed /\ Captures /\ Uncaptured)
<1>1. Init => Captures /\ Uncaptured
  BY DEF Init, Captures, Uncaptured, Capturing, AtRest, Empty
<1>2. QED BY <1>1, TypedInit, TypedSteps, CaptureSteps, PTL DEF Spec

\* Whatever the order of things, a captured checkpoint of the thread can be
\* restored (captureAndDispatchCheckpoint, handleRevertRequested): its ref is
\* there, unless a revert stopped between deleting refs and completing.
THEOREM RestoreFindsRef == Spec => []Restorable
<1>1. Captures => Restorable
  BY DEF Captures, Restorable
<1>2. QED BY <1>1, CapturesAlways, PTL

\* Whatever the order of things, a checkpoint that is captured for a turn that
\* came to an end stays as it is (projector.ts, thread.turn-diff-completed).
THEOREM CapturedForGood == Spec => CaptureStays
<1> DEFINE Stays == \A t \in DOMAIN thread.checkpoints \cap DOMAIN thread'.checkpoints :
                      thread.checkpoints[t].status # "missing" =>
                        thread'.checkpoints[t] = thread.checkpoints[t]
<1>1. Typed /\ Captures /\ Uncaptured /\ [Next]_vars => [Stays]_vars
  <2> SUFFICES ASSUME Typed, Uncaptured, [Next]_vars
               PROVE  Stays
    OBVIOUS
  <2>1. CASE DispatchPlaceholder
    BY <2>1, PlaceholderPut DEF Put
  <2>2. CASE DispatchCheckpoint
    BY <2>2, CheckpointPut DEF Put, Uncaptured, Capturing, DispatchCheckpoint
  <2>3. CASE CompleteRevert
    <3>1. thread'.checkpoints
            = Only(thread.checkpoints, KeptTurns(thread.checkpoints, reactor.count))
      BY <2>3, RevertedTyped DEF CompleteRevert, Typed, PartsTyped, ReactorStates
    <3>2. QED BY <3>1 DEF Only
  <2>4. QED BY <2>1, <2>2, <2>3, CheckpointsStay
<1>2. QED BY <1>1, CapturesAlways, PTL DEF Spec, CaptureStays

-----------------------------------------------------------------------------
(* What the order of things keeps                                          *)

\* The turns the provider remembers.
Conversation == provider.conversation

\* Turn t is the n-th of the conversation.
Placed(t, n) == n \in 1..Len(Conversation) /\ Conversation[n] = t

\* A revert is asked for and not taken up.
Asked == \E i \in DOMAIN domain : domain[i].type = "checkpoint-revert-requested"

\* The conversation is cut, the thread not yet.
Trimmed == reactor.pc \in {"delete", "complete"}

\* The end of t is on its way to the reactor.
Ending(t) == \E i \in DOMAIN runtime : runtime[i].type = "turn.completed" /\ runtime[i].turn = t

\* The turn runs, ends or is captured.
InFlight(t) == provider.active = t \/ Ending(t) \/ (Capturing /\ reactor.turn = t)

\* A message is sent once.
Fresh ==
  /\ starting \notin budget.messages
  /\ \A i \in 1..Len(Conversation) :
       Conversation[i] \notin budget.messages /\ Conversation[i] # starting
  /\ \A i, j \in 1..Len(Conversation) : Conversation[i] = Conversation[j] => i = j
  /\ provider.edited \cap (budget.messages \cup {starting}) = {}

\* One turn at a time: the newest is being sent, runs, ends or is captured.
OneTurn ==
  /\ starting # NoTurn => runtime = <<>> /\ provider.active = NoTurn /\ reactor = AtRest
  /\ provider.active # NoTurn => Placed(provider.active, Len(Conversation)) /\ reactor = AtRest
  /\ \A i \in DOMAIN runtime :
       /\ Placed(runtime[i].turn, Len(Conversation))
       /\ runtime[i].type = "turn.completed" =>
            i = Len(runtime) /\ starting = NoTurn /\ provider.active = NoTurn
  /\ runtime # <<>> => reactor = AtRest
  /\ Capturing => /\ runtime = <<>> /\ starting = NoTurn /\ provider.active = NoTurn
                  /\ Placed(reactor.turn, Len(Conversation))
                  /\ reactor.count = Len(Conversation)

\* A revert is alone.
Alone ==
  /\ Asked \/ reactor.pc \in Reverts =>
       /\ starting = NoTurn /\ provider.active = NoTurn /\ runtime = <<>>
       /\ ingestion = <<>> /\ ingest = NotIngesting
  /\ Asked => Len(domain) = 1 /\ reactor = AtRest
  /\ reactor.pc \in Reverts => domain = <<>>

\* The ingestion is about turns of the conversation.
Follows ==
  /\ \A i \in DOMAIN ingestion : \E n \in Nat : Placed(ingestion[i].turn, n)
  /\ ingest.pc = "diff" => Placed(ingest.turn, ingest.count)

\* A checkpoint has its turn's place as its count, or a revert has cut the
\* conversation and will drop it.
Numbered ==
  \A t \in DOMAIN thread.checkpoints :
    \/ /\ Trimmed /\ thread.checkpoints[t].count > reactor.count
       /\ \A n \in Nat : ~Placed(t, n)
    \/ Placed(t, thread.checkpoints[t].count)

\* Each turn has a checkpoint, but the newest while it is in flight.
Covered ==
  \A i \in 1..Len(Conversation) :
    \/ Conversation[i] \in DOMAIN thread.checkpoints
    \/ i = Len(Conversation) /\ InFlight(Conversation[i])

\* A revert rolls back as many turns as are beyond its count.
Back ==
  /\ reactor.pc \in {"restore", "rollback"} => reactor.back + reactor.count = Len(Conversation)
  /\ Trimmed => Len(Conversation) = reactor.count

\* The edits of the first n turns.
Upto(n) == {t \in provider.edited : \E i \in 1..Len(Conversation) : i <= n /\ Conversation[i] = t}

\* The working tree has the edits of the conversation, and of no more than
\* the restored turns once a revert has restored it; the ref of a captured
\* checkpoint has those up to its turn, unless it will be dropped.
Trees ==
  /\ tree = Upto(IF reactor.pc = "rollback" THEN reactor.count ELSE Len(Conversation))
  /\ CountRef(0) \in DOMAIN refs => refs[CountRef(0)] = {}
  /\ reactor.pc = "dispatch" => refs[CountRef(reactor.count)] = Upto(Len(Conversation))
  /\ reactor.pc = "restore" =>
       /\ reactor.target \in DOMAIN refs => refs[reactor.target] = Upto(reactor.count)
  /\ \A t \in DOMAIN thread.checkpoints : thread.checkpoints[t].captured =>
       /\ provider.active # t
       /\ \/ Trimmed /\ thread.checkpoints[t].count > reactor.count
          \/ refs[CountRef(thread.checkpoints[t].count)] = Upto(thread.checkpoints[t].count)

\* Nothing that the reactor counts on has been disturbed.
Undisturbed == disturbed \subseteq {"ahead", "astray"}

\* The parts of the invariant.
Order == Fresh /\ OneTurn /\ Alone

Numbers == Follows /\ Numbered /\ Covered /\ Back

\* The invariant: while nothing disturbs it, each step finds this and keeps it.
Ordered == Undisturbed => Order /\ Numbers /\ Trees

\* What a step that disturbs nothing starts from.
Sound == Typed /\ Captures /\ Undisturbed /\ Order /\ Numbers /\ Trees

\* What the types say of the conversation.
LEMMA Turned ==
  ASSUME Typed
  PROVE  /\ Conversation \in Seq(Turns) /\ Len(Conversation) \in Nat
         /\ \A i \in 1..Len(Conversation) : Conversation[i] \in Turns /\ Conversation[i] # NoTurn
         /\ provider.edited \subseteq Turns /\ budget.messages \subseteq Turns
         /\ NoTurn \notin Turns /\ provider.active \in Holders /\ starting \in Holders
         /\ \A t \in DOMAIN thread.checkpoints :
              thread.checkpoints[t].count \in Nat /\ t \in Turns /\ t # NoTurn
<1>1. provider \in [active : Holders, conversation : Seq(Turns), edited : SUBSET Turns]
  BY DEF Typed, PartsTyped
<1>2. Conversation \in Seq(Turns) /\ provider.edited \subseteq Turns /\ provider.active \in Holders
  BY <1>1 DEF Conversation
<1>3. /\ Len(Conversation) \in Nat
      /\ \A i \in 1..Len(Conversation) : Conversation[i] \in Turns
  BY <1>2, LenProperties
<1>4. QED BY <1>2, <1>3, CheckpointAssumption DEF Typed, PartsTyped, ViewsTyped, Checkpoints

\* A turn has one place.
LEMMA OnePlace ==
  ASSUME Fresh, NEW t, NEW m, NEW n, Placed(t, m), Placed(t, n)
  PROVE  m = n
BY DEF Fresh, Placed

\* The greatest count, where the first k turns have checkpoints and no count
\* is higher.
LEMMA Highest ==
  ASSUME Typed, Fresh, NEW k \in Nat, k <= Len(Conversation),
         \A i \in 1..k : Conversation[i] \in DOMAIN thread.checkpoints,
         \A t \in DOMAIN thread.checkpoints :
           thread.checkpoints[t].count <= k /\ Placed(t, thread.checkpoints[t].count)
  PROVE  MaxCount(thread.checkpoints) = k
<1>1. PICK m \in Nat : m = MaxCount(thread.checkpoints)
  BY MaxCounts DEF Typed
<1>2. /\ \A t \in DOMAIN thread.checkpoints : thread.checkpoints[t].count <= m
      /\ m = 0 \/ \E t \in DOMAIN thread.checkpoints : thread.checkpoints[t].count = m
  BY <1>1, MaxCounts DEF Typed
<1>3. m <= k
  BY <1>2
<1>4. CASE k = 0
  BY <1>1, <1>3, <1>4
<1>5. CASE k > 0
  <2>1. PICK t \in DOMAIN thread.checkpoints : t = Conversation[k]
    BY <1>5
  <2>2. Placed(t, k)
    BY <1>5, <2>1, Turned DEF Placed
  <2>3. thread.checkpoints[t].count = k
    BY <2>1, <2>2, OnePlace
  <2>4. QED BY <1>1, <1>2, <1>3, <2>1, <2>3
<1>6. QED BY <1>4, <1>5

\* Where a revert has not cut the conversation, a checkpoint has its place.
LEMMA InPlace ==
  ASSUME Typed, Numbered, ~Trimmed, NEW t \in DOMAIN thread.checkpoints
  PROVE  /\ Placed(t, thread.checkpoints[t].count)
         /\ thread.checkpoints[t].count \in 1..Len(Conversation)
BY DEF Numbered, Placed

\* The next count is that of the newest turn, while it has no checkpoint.
LEMMA NextCount ==
  ASSUME Typed, Fresh, Numbered, Covered, ~Trimmed, NEW t, NEW n \in Nat, Placed(t, n),
         t \notin DOMAIN thread.checkpoints
  PROVE  MaxCount(thread.checkpoints) + 1 = n /\ n = Len(Conversation)
<1>1. n = Len(Conversation) /\ Conversation[n] = t /\ n >= 1
  BY Turned DEF Placed, Covered
<1>2. PICK k \in Nat : k = n - 1
  BY <1>1
<1>3. \A i \in 1..k : Conversation[i] \in DOMAIN thread.checkpoints
  BY <1>1, <1>2, Turned DEF Covered
<1>4. ASSUME NEW u \in DOMAIN thread.checkpoints
      PROVE  thread.checkpoints[u].count <= k /\ Placed(u, thread.checkpoints[u].count)
  <2>1. PICK c \in Nat : c = thread.checkpoints[u].count
    BY Turned
  <2>2. Placed(u, c) /\ c \in 1..Len(Conversation)
    BY <2>1, InPlace
  <2>3. c # n
    BY <1>1, <2>2 DEF Placed
  <2>4. QED BY <1>1, <1>2, <2>1, <2>2, <2>3
<1>5. MaxCount(thread.checkpoints) = k
  BY <1>1, <1>2, <1>3, <1>4, Highest
<1>6. QED BY <1>1, <1>2, <1>5

\* Nothing is in flight: each turn has a checkpoint.
LEMMA AllCovered ==
  ASSUME Typed, Covered, provider.active = NoTurn, runtime = <<>>, ~Capturing
  PROVE  \A i \in 1..Len(Conversation) : Conversation[i] \in DOMAIN thread.checkpoints
BY Turned DEF Covered, InFlight, Ending

\* Then the greatest count is that of the newest.
LEMMA LastCount ==
  ASSUME Typed, Fresh, Numbered, Covered, ~Trimmed, provider.active = NoTurn, runtime = <<>>,
         ~Capturing
  PROVE  MaxCount(thread.checkpoints) = Len(Conversation)
<1>1. \A t \in DOMAIN thread.checkpoints :
        /\ thread.checkpoints[t].count <= Len(Conversation)
        /\ Placed(t, thread.checkpoints[t].count)
  BY InPlace, Turned
<1>2. QED BY <1>1, AllCovered, Highest, Turned

\* The edits of the first turns are the same while the first turns and the
\* edits are.
LEMMA SameEdits ==
  ASSUME NEW n \in Nat, provider'.edited = provider.edited,
         Len(Conversation) \in Nat, Len(Conversation') \in Nat,
         n <= Len(Conversation), n <= Len(Conversation'),
         \A i \in 1..n : Conversation'[i] = Conversation[i]
  PROVE  Upto(n)' = Upto(n)
<1>1. Upto(n) = {t \in provider.edited : \E i \in 1..n : Conversation[i] = t}
  BY DEF Upto
<1>2. Upto(n)' = {t \in provider'.edited : \E i \in 1..n : Conversation'[i] = t}
  BY DEF Upto
<1>3. QED BY <1>1, <1>2

\* A captured checkpoint, before a revert has cut the conversation: its ref
\* holds the edits up to its turn.
LEMMA Held ==
  ASSUME Sound, ~Trimmed, NEW t \in DOMAIN thread.checkpoints, thread.checkpoints[t].captured
  PROVE  \E c \in 1..Len(Conversation) :
           /\ thread.checkpoints[t].count = c /\ Placed(t, c) /\ c \in Nat
           /\ CountRef(c) \in DOMAIN refs /\ refs[CountRef(c)] = Upto(c)
           /\ provider.active # t
<1>1. "torn" \notin disturbed
  BY DEF Sound, Undisturbed
<1>2. CountRef(thread.checkpoints[t].count) \in DOMAIN refs
  BY <1>1 DEF Sound, Captures, Trimmed
<1>3. refs[CountRef(thread.checkpoints[t].count)] = Upto(thread.checkpoints[t].count)
      /\ provider.active # t
  BY DEF Sound, Trees
<1>4. QED BY <1>2, <1>3, InPlace, Turned DEF Sound, Numbers

\* The tree and the refs stay right in a step that keeps them, the edits up to
\* every place, and every checkpoint that is captured.
LEMMA TreesStay ==
  ASSUME Sound, ~Trimmed, reactor.pc \notin {"dispatch", "restore", "rollback"},
         reactor'.pc \notin {"dispatch", "restore", "rollback"},
         tree' = Upto(Len(Conversation))',
         CountRef(0) \in DOMAIN refs' => refs'[CountRef(0)] = {},
         \A t \in DOMAIN thread'.checkpoints : thread'.checkpoints[t].captured =>
           t \in DOMAIN thread.checkpoints /\ thread'.checkpoints[t] = thread.checkpoints[t],
         \A t \in DOMAIN thread.checkpoints :
           thread.checkpoints[t].captured => provider'.active # t,
         NEW k \in Nat,
         \A t \in DOMAIN thread.checkpoints :
           thread.checkpoints[t].captured => thread.checkpoints[t].count <= k,
         \A n \in 0..k : Upto(n)' = Upto(n),
         \A n \in Nat : CountRef(n) \in DOMAIN refs =>
           CountRef(n) \in DOMAIN refs' /\ refs'[CountRef(n)] = refs[CountRef(n)]
  PROVE  Trees'
<1>1. ASSUME NEW t \in DOMAIN thread'.checkpoints, thread'.checkpoints[t].captured
      PROVE  /\ provider'.active # t
             /\ refs'[CountRef(thread'.checkpoints[t].count)]
                = Upto(thread.checkpoints[t].count)'
  <2>1. t \in DOMAIN thread.checkpoints /\ thread'.checkpoints[t] = thread.checkpoints[t]
    BY <1>1
  <2>2. PICK c \in 1..Len(Conversation) :
          /\ thread.checkpoints[t].count = c /\ c \in Nat
          /\ CountRef(c) \in DOMAIN refs /\ refs[CountRef(c)] = Upto(c)
    BY <1>1, <2>1, Held
  <2>3. thread'.checkpoints[t].count = c /\ c \in 0..k
    BY <1>1, <2>1, <2>2
  <2>4. refs'[CountRef(c)] = Upto(c)'
    BY <2>2, <2>3
  <2>5. QED BY <1>1, <2>1, <2>3, <2>4
<1>2. QED BY <1>1 DEF Trees

\* The tree and the refs stay right while all they depend on stays.
LEMMA TreesSame ==
  ASSUME Trees, UNCHANGED <<tree, refs, provider, reactor>>,
         \A t \in DOMAIN thread'.checkpoints : thread'.checkpoints[t].captured =>
           t \in DOMAIN thread.checkpoints /\ thread'.checkpoints[t] = thread.checkpoints[t]
  PROVE  Trees'
<1>1. \A n : Upto(n)' = Upto(n)
  BY DEF Upto, Conversation
<1>2. UNCHANGED <<Conversation, Trimmed>>
  BY DEF Conversation, Trimmed
<1>3. (tree = Upto(IF reactor.pc = "rollback" THEN reactor.count ELSE Len(Conversation)))'
  BY <1>1, <1>2 DEF Trees
<1>4. (reactor.pc = "dispatch" => refs[CountRef(reactor.count)] = Upto(Len(Conversation)))'
  BY <1>1, <1>2 DEF Trees
<1>5. (reactor.pc = "restore" /\ reactor.target \in DOMAIN refs
         => refs[reactor.target] = Upto(reactor.count))'
  BY <1>1 DEF Trees
<1>6. ASSUME NEW t \in DOMAIN thread'.checkpoints, thread'.checkpoints[t].captured
      PROVE  (/\ provider.active # t
              /\ \/ Trimmed /\ thread.checkpoints[t].count > reactor.count
                 \/ refs[CountRef(thread.checkpoints[t].count)]
                    = Upto(thread.checkpoints[t].count))'
  BY <1>1, <1>2, <1>6 DEF Trees
<1>7. (CountRef(0) \in DOMAIN refs => refs[CountRef(0)] = {})'
  BY DEF Trees
<1>8. QED BY <1>3, <1>4, <1>5, <1>6, <1>7 DEF Trees

\* So do the numbers.
LEMMA NumbersSame ==
  ASSUME Numbers, UNCHANGED <<provider, reactor, runtime, ingestion, ingest>>,
         thread'.checkpoints = thread.checkpoints
  PROVE  Numbers'
BY DEF Numbers, Follows, Numbered, Covered, Back, Placed, Conversation, InFlight, Ending,
   Capturing, Trimmed

\* A message is sent when all is caught up.
LEMMA SendMessageOrdered ==
  ASSUME Sound, Undisturbed', NEW s \in Turns, SendMessage(s)
  PROVE  (Order /\ Numbers /\ Trees)'
<1> USE DEF Sound
<1>1. CaughtUp /\ s \in budget.messages
  BY DEF SendMessage, Undisturbed, Hurry
<1>2. /\ provider' = provider /\ reactor' = reactor /\ runtime' = runtime
      /\ starting' = s /\ budget'.messages = budget.messages \ {s}
      /\ thread'.checkpoints = thread.checkpoints
      /\ UNCHANGED <<tree, refs, ingestion, ingest>>
  BY DEF SendMessage, Typed, ViewsTyped, PartsTyped
<1>3. Fresh'
  BY <1>1, <1>2, Turned DEF Fresh, Order, Conversation
<1>4. OneTurn'
  BY <1>1, <1>2 DEF OneTurn, CaughtUp, Order, Conversation, Placed, Capturing, AtRest
<1>5. ~Asked' /\ reactor'.pc \notin Reverts
  <2>1. domain' = <<Domain("message-sent", s, 0), Domain("turn-start-requested", s, 0)>>
    BY <1>1 DEF SendMessage, CaughtUp
  <2>2. QED BY <1>1, <1>2, <2>1 DEF Asked, Domain, CaughtUp, AtRest, Reverts
<1>6. Alone'
  BY <1>5 DEF Alone
<1>7. Numbers'
  BY <1>2, NumbersSame
<1>8. Trees'
  BY <1>2, TreesSame
<1>9. QED BY <1>3, <1>4, <1>6, <1>7, <1>8 DEF Order

\* The trees of the messages and of the turns' starts are none of a count.
LEMMA RefsBeside ==
  ASSUME Sound, UNCHANGED <<tree, provider, reactor>>,
         thread'.checkpoints = thread.checkpoints, reactor.pc = "idle",
         \A n \in Nat : /\ CountRef(n) \in DOMAIN refs' <=> CountRef(n) \in DOMAIN refs
                        /\ CountRef(n) \in DOMAIN refs => refs'[CountRef(n)] = refs[CountRef(n)]
  PROVE  Trees'
<1> USE DEF Sound
<1>1. PICK L \in Nat : L = Len(Conversation)
  BY Turned
<1>2. ~Trimmed /\ \A n \in 0..L : Upto(n)' = Upto(n)
  BY DEF Trimmed, Upto, Conversation
<1>3. tree' = Upto(Len(Conversation))'
  BY DEF Trees, Upto, Conversation
<1>4. ASSUME NEW t \in DOMAIN thread.checkpoints, thread.checkpoints[t].captured
      PROVE  provider'.active # t /\ thread.checkpoints[t].count <= L
  BY <1>1, <1>2, <1>4, Held, Turned
<1>5. CountRef(0) \in DOMAIN refs' => refs'[CountRef(0)] = {}
  BY DEF Trees
<1>6. QED BY <1>2, <1>3, <1>4, <1>5, TreesStay

\* The send of a message fails: nothing is on its way.
LEMMA SendTurnFailsOrdered ==
  ASSUME Sound, SendTurnFails
  PROVE  (Order /\ Numbers /\ Trees)'
<1> USE DEF Sound
<1>1. PICK s \in Turns : s = starting
  BY DEF SendTurnFails, Typed, PartsTyped, Holders
<1>2. /\ starting' = NoTurn /\ budget'.messages = budget.messages
      /\ UNCHANGED <<thread, tree, provider, domain, runtime, ingestion, ingest, reactor>>
      /\ runtime = <<>> /\ reactor = AtRest /\ reactor.pc = "idle"
  BY <1>1, CheckpointAssumption
     DEF SendTurnFails, Fault, views, inbox, Typed, PartsTyped, Order, OneTurn, AtRest
<1>3. Fresh'
  BY <1>2, Turned DEF Order, Fresh, Conversation
<1>4. OneTurn' /\ Alone'
  BY <1>2 DEF Order, OneTurn, Alone, Asked, Conversation, Placed, Capturing
<1>5. Numbers'
  BY <1>2, NumbersSame
<1>6. Trees'
  <2>1. \A n \in Nat : CountRef(n) # MessageRef(s)
    BY RefsDiffer DEF Holders
  <2>2. \/ refs' = refs
        \/ refs' = Put(refs, MessageRef(s), tree)
    BY <1>1 DEF SendTurnFails
  <2>3. QED BY <1>2, <2>1, <2>2, RefsBeside DEF Put
<1>7. QED BY <1>3, <1>4, <1>5, <1>6 DEF Order

\* The turn of a message begins.
LEMMA SendTurnOrdered ==
  ASSUME Sound, SendTurn
  PROVE  (Order /\ Numbers /\ Trees)'
<1> USE DEF Sound
<1>1. PICK s \in Turns : s = starting
  BY DEF SendTurn, Typed, PartsTyped, Holders
<1>2. PICK L \in Nat : L = Len(Conversation)
  BY Turned
<1>3. /\ runtime = <<>> /\ provider.active = NoTurn /\ reactor = AtRest /\ reactor' = AtRest
      /\ starting' = NoTurn /\ budget'.messages = budget.messages
      /\ thread' = thread /\ tree' = tree /\ ingest' = ingest /\ domain' = domain
  BY DEF SendTurn, Order, OneTurn, Fault, views, Typed, PartsTyped
<1>4. PICK e : e = Runtime("turn.started", s, "none")
  OBVIOUS
<1>5. e.type = "turn.started" /\ e.turn = s
  BY <1>4 DEF Runtime
<1>6. runtime' = <<e>> /\ ingestion' = Append(ingestion, e)
  BY <1>1, <1>3, <1>4 DEF SendTurn
<1>7. /\ provider'.active = s /\ provider'.edited = provider.edited
      /\ Conversation' = Append(Conversation, s)
  BY <1>1 DEF SendTurn, Conversation, Typed, PartsTyped
<1>8. /\ Len(Conversation') = L + 1 /\ Conversation'[L + 1] = s
      /\ \A i \in 1..L : Conversation'[i] = Conversation[i]
  BY <1>2, <1>7, Turned, AppendProperties
<1>9. /\ \A t, n : Placed(t, n) => Placed(t, n)'
      /\ Placed(s, L + 1)'
  BY <1>2, <1>8 DEF Placed
<1>10. s \notin budget.messages /\ \A i \in 1..L : Conversation[i] # s
  BY <1>1, <1>2 DEF Order, Fresh
<1>11. Fresh'
  BY <1>1, <1>2, <1>3, <1>7, <1>8, <1>10, Turned DEF Fresh, Order
<1>12. OneTurn'
  BY <1>3, <1>5, <1>6, <1>7, <1>8, <1>9, <1>1, CheckpointAssumption DEF OneTurn, Capturing, AtRest
<1>13. ~Asked' /\ reactor'.pc \notin Reverts
  BY <1>1, <1>3, CheckpointAssumption DEF Order, Alone, Asked, AtRest, Reverts
<1>14. Follows'
  <2>1. ASSUME NEW i \in DOMAIN ingestion'
        PROVE  \E n \in Nat : Placed(ingestion[i].turn, n)'
    <3>1. CASE ingestion'[i] = e
      <4>1. Placed(ingestion[i].turn, L + 1)'
        BY <1>5, <1>8, <3>1 DEF Placed
      <4>2. L + 1 \in Nat
        OBVIOUS
      <4>3. QED BY <4>1, <4>2
    <3>2. CASE i \in DOMAIN ingestion /\ ingestion'[i] = ingestion[i]
      <4>1. PICK n \in Nat : Placed(ingestion[i].turn, n)
        BY <3>2 DEF Numbers, Follows
      <4>2. Placed(ingestion[i].turn, n)'
        BY <1>2, <1>8, <3>2, <4>1 DEF Placed
      <4>3. QED BY <4>2
    <3>3. QED BY <1>6, <3>1, <3>2, AppendProperties DEF Typed, QueuesTyped
  <2>2. (ingest.pc = "diff" => Placed(ingest.turn, ingest.count))'
    BY <1>2, <1>3, <1>8 DEF Numbers, Follows, Placed
  <2>3. QED BY <2>1, <2>2 DEF Follows
<1>15. Numbered'
  BY <1>3, <1>9 DEF Numbered, Trimmed, AtRest, Numbers
<1>16. Covered'
  <2>1. \A i \in 1..L : Conversation[i] \in DOMAIN thread.checkpoints
    BY <1>2, <1>3, AllCovered DEF Numbers, AtRest, Capturing
  <2>2. QED BY <1>2, <1>3, <1>7, <1>8, <2>1 DEF Covered, InFlight
<1>17. Back'
  BY <1>3 DEF Back, Trimmed, AtRest
<1>18. \A n \in 0..L : Upto(n)' = Upto(n)
  BY <1>2, <1>7, <1>8, SameEdits
<1>19. Upto(L + 1)' = Upto(L)
  <2>1. s \notin provider.edited
    BY <1>1 DEF Order, Fresh
  <2>2. Upto(L) = {t \in provider.edited : \E i \in 1..L : Conversation[i] = t}
    BY <1>2 DEF Upto
  <2>3. Upto(L + 1)' = {t \in provider.edited : \E i \in 1..(L + 1) : Conversation'[i] = t}
    BY <1>7, <1>8 DEF Upto
  <2>4. QED BY <1>8, <2>1, <2>2, <2>3
<1>20. \A n \in Nat : /\ CountRef(n) \in DOMAIN refs' <=> CountRef(n) \in DOMAIN refs
                      /\ CountRef(n) \in DOMAIN refs => refs'[CountRef(n)] = refs[CountRef(n)]
  BY <1>1, RefsDiffer DEF SendTurn, Put, Holders
<1>21. Trees'
  <2>1. tree' = Upto(Len(Conversation))'
    BY <1>2, <1>3, <1>8, <1>19 DEF Trees, AtRest
  <2>2. ASSUME NEW t \in DOMAIN thread.checkpoints, thread.checkpoints[t].captured
        PROVE  provider'.active # t /\ thread.checkpoints[t].count <= L
    BY <1>2, <1>3, <1>7, <1>10, <2>2, Held DEF Placed, Trimmed, AtRest
  <2>3. CountRef(0) \in DOMAIN refs' => refs'[CountRef(0)] = {}
    BY <1>20 DEF Trees
  <2>4. QED BY <1>3, <1>18, <1>20, <2>1, <2>2, <2>3, TreesStay DEF Trimmed, AtRest
<1>22. QED BY <1>11, <1>12, <1>13, <1>14, <1>15, <1>16, <1>17, <1>21 DEF Order, Numbers, Alone

\* The ingestion is told of a turn of the conversation.
LEMMA ToldOf ==
  ASSUME Sound, NEW e, NEW n \in Nat, Placed(e.turn, n), Conversation' = Conversation,
         ingest' = ingest, ingestion' = ingestion \/ ingestion' = Append(ingestion, e)
  PROVE  Follows'
<1>1. \A i \in DOMAIN ingestion' :
        ingestion'[i] = e \/ (i \in DOMAIN ingestion /\ ingestion'[i] = ingestion[i])
  <2>1. ingestion \in Seq(IngestionEvents)
    BY DEF Sound, Typed, QueuesTyped
  <2>2. CASE ingestion' = ingestion
    BY <2>2
  <2>3. CASE ingestion' = Append(ingestion, e)
    BY <2>1, <2>3
  <2>4. QED BY <2>2, <2>3
<1>2. ASSUME NEW i \in DOMAIN ingestion'
      PROVE  \E k \in Nat : Placed(ingestion[i].turn, k)'
  <2>1. CASE ingestion'[i] = e
    <3>1. Placed(ingestion[i].turn, n)'
      BY <2>1 DEF Placed
    <3>2. QED BY <3>1
  <2>2. CASE i \in DOMAIN ingestion /\ ingestion'[i] = ingestion[i]
    <3>1. PICK k \in Nat : Placed(ingestion[i].turn, k)
      BY <2>2 DEF Sound, Numbers, Follows
    <3>2. Placed(ingestion[i].turn, k)'
      BY <2>2, <3>1 DEF Placed
    <3>3. QED BY <3>2
  <2>3. QED BY <1>1, <2>1, <2>2
<1>3. (ingest.pc = "diff" => Placed(ingest.turn, ingest.count))'
  BY DEF Sound, Numbers, Follows, Placed
<1>4. QED BY <1>2, <1>3 DEF Follows

\* The turn that runs is the newest.
LEMMA Running ==
  ASSUME Sound, provider.active # NoTurn
  PROVE  /\ Placed(provider.active, Len(Conversation)) /\ provider.active \in Turns
         /\ reactor = AtRest /\ starting = NoTurn /\ ~Asked /\ ~Trimmed
         /\ reactor.pc = "idle" /\ ~Capturing
         /\ \A i \in DOMAIN runtime : runtime[i].type # "turn.completed"
BY Turned DEF Sound, Order, OneTurn, Alone, AtRest, Trimmed, Capturing, Holders

\* A turn edits the tree.
LEMMA EditOrdered ==
  ASSUME Sound, Edit
  PROVE  (Order /\ Numbers /\ Trees)'
<1> USE DEF Sound
<1>1. PICK a \in Turns : a = provider.active
  BY Running DEF Edit
<1>2. PICK L \in Nat : L = Len(Conversation)
  BY Turned
<1>3. /\ Placed(a, L) /\ reactor = AtRest /\ reactor.pc = "idle" /\ starting = NoTurn /\ ~Asked
      /\ ~Trimmed
  BY <1>1, <1>2, Running DEF Edit
<1>4. /\ UNCHANGED <<thread, refs, starting, domain, runtime, ingest, reactor, budget>>
      /\ tree' = tree \cup {a} /\ a \notin provider.edited
      /\ provider'.edited = provider.edited \cup {a} /\ Conversation' = Conversation
      /\ provider'.active = provider.active
  BY <1>1 DEF Edit, views, inbox, Conversation, Typed, PartsTyped
<1>5. Fresh'
  BY <1>2, <1>3, <1>4, Turned DEF Fresh, Order, Placed
<1>6. OneTurn'
  BY <1>3, <1>4 DEF OneTurn, Order, Placed, Capturing
<1>7. Alone'
  BY <1>3, <1>4 DEF Alone, Asked, AtRest, Reverts
<1>8. Follows'
  <2>1. PICK e : e = Runtime("turn.diff.updated", a, "none")
    OBVIOUS
  <2>2. e.turn = a /\ (ingestion' = ingestion \/ ingestion' = Append(ingestion, e))
    BY <1>1, <2>1 DEF Edit, Runtime
  <2>3. QED BY <1>2, <1>3, <1>4, <2>2, ToldOf
<1>9. Numbered' /\ Covered' /\ Back'
  BY <1>4 DEF Numbers, Numbered, Covered, Back, Placed, InFlight, Ending, Capturing, Trimmed
<1>10. L > 0 /\ Conversation[L] = a
  BY <1>2, <1>3 DEF Placed
<1>11. PICK k \in Nat : k = L - 1
  BY <1>10
<1>12. \A i \in 1..k : Conversation[i] # a
  BY <1>2, <1>10, <1>11 DEF Fresh, Order
<1>13. \A n \in 0..k : Upto(n)' = Upto(n)
  <2>1. TAKE n \in 0..k
  <2>2. Upto(n) = {t \in provider.edited : \E i \in 1..n : Conversation[i] = t}
    BY <1>2, <1>11 DEF Upto
  <2>3. Upto(n)' = {t \in provider'.edited : \E i \in 1..n : Conversation[i] = t}
    BY <1>2, <1>4, <1>11 DEF Upto
  <2>4. QED BY <1>4, <1>12, <2>2, <2>3
<1>14. tree' = Upto(Len(Conversation))'
  <2>1. Upto(L) = {t \in provider.edited : \E i \in 1..L : Conversation[i] = t}
    BY <1>2 DEF Upto
  <2>2. Upto(L)' = {t \in provider'.edited : \E i \in 1..L : Conversation[i] = t}
    BY <1>2, <1>4 DEF Upto
  <2>3. Upto(L)' = Upto(L) \cup {a}
    BY <1>4, <1>10, <2>1, <2>2
  <2>4. tree = Upto(L)
    BY <1>2, <1>3 DEF Trees
  <2>5. QED BY <1>2, <1>4, <2>3, <2>4
<1>15. ASSUME NEW t \in DOMAIN thread.checkpoints, thread.checkpoints[t].captured
       PROVE  provider'.active # t /\ thread.checkpoints[t].count <= k
  <2>1. PICK c \in 1..L : /\ thread.checkpoints[t].count = c /\ Placed(t, c) /\ c \in Nat
                          /\ provider.active # t
    BY <1>2, <1>3, <1>15, Held
  <2>2. c # L
    BY <1>1, <1>10, <2>1 DEF Placed
  <2>3. QED BY <1>4, <1>11, <2>1, <2>2
<1>16. Trees'
  <2>1. CountRef(0) \in DOMAIN refs' => refs'[CountRef(0)] = {}
    BY <1>4 DEF Trees
  <2>2. QED BY <1>3, <1>4, <1>13, <1>14, <1>15, <2>1, TreesStay
<1>17. QED BY <1>5, <1>6, <1>7, <1>8, <1>9, <1>16 DEF Order, Numbers

\* A turn ends.
LEMMA EndTurnOrdered ==
  ASSUME Sound, NEW outcome, EndTurn(outcome)
  PROVE  (Order /\ Numbers /\ Trees)'
<1> USE DEF Sound
<1>1. PICK a \in Turns : a = provider.active
  BY Running DEF EndTurn
<1>2. PICK L \in Nat : L = Len(Conversation)
  BY Turned
<1>3. /\ Placed(a, L) /\ reactor = AtRest /\ reactor.pc = "idle" /\ starting = NoTurn /\ ~Asked
      /\ ~Trimmed
      /\ \A i \in DOMAIN runtime : runtime[i].type # "turn.completed"
  BY <1>1, <1>2, Running DEF EndTurn
<1>4. PICK e : e = Runtime("turn.completed", a, outcome)
  OBVIOUS
<1>5. e.type = "turn.completed" /\ e.turn = a
  BY <1>4 DEF Runtime
<1>6. /\ UNCHANGED <<thread, tree, refs, starting, domain, ingest, reactor>>
      /\ budget'.messages = budget.messages
      /\ provider'.edited = provider.edited /\ Conversation' = Conversation
      /\ provider'.active = NoTurn
      /\ ingestion' = Append(ingestion, e) /\ runtime' = Append(runtime, e)
  BY <1>1, <1>4 DEF EndTurn, views, Conversation, Typed, PartsTyped, Fault
<1>7. Fresh'
  BY <1>6 DEF Fresh, Order
<1>8. /\ Len(runtime') = Len(runtime) + 1 /\ runtime'[Len(runtime) + 1] = e
      /\ \A i \in 1..Len(runtime) : runtime'[i] = runtime[i]
      /\ DOMAIN runtime = 1..Len(runtime) /\ DOMAIN runtime' = 1..Len(runtime')
      /\ Len(runtime) \in Nat
  BY <1>6, AppendProperties, LenProperties DEF Typed, QueuesTyped
<1>9. OneTurn'
  <2>1. ASSUME NEW i \in DOMAIN runtime'
        PROVE  /\ Placed(runtime[i].turn, Len(Conversation))'
               /\ runtime'[i].type = "turn.completed" => i = Len(runtime')
    <3>1. CASE i = Len(runtime) + 1
      BY <1>2, <1>3, <1>5, <1>6, <1>8, <3>1 DEF Placed
    <3>2. CASE i \in 1..Len(runtime)
      BY <1>3, <1>6, <1>8, <3>2 DEF Placed, Order, OneTurn
    <3>3. QED BY <1>8, <3>1, <3>2
  <2>2. QED BY <1>3, <1>6, <2>1 DEF OneTurn, Capturing
<1>10. Alone'
  BY <1>3, <1>6 DEF Alone, Asked, AtRest, Reverts
<1>11. Follows'
  BY <1>2, <1>3, <1>5, <1>6, ToldOf
<1>12. Numbered' /\ Back'
  BY <1>6 DEF Numbers, Numbered, Back, Placed, Trimmed
<1>13. Covered'
  <2>1. Ending(a)'
    BY <1>5, <1>8 DEF Ending
  <2>2. \A i \in 1..L : Conversation[i] \in DOMAIN thread.checkpoints \/ i = L
    BY <1>2 DEF Numbers, Covered
  <2>3. Conversation[L] = a
    BY <1>3 DEF Placed
  <2>4. QED BY <1>2, <1>6, <2>1, <2>2, <2>3 DEF Covered, InFlight
<1>14. \A n \in 0..L : Upto(n)' = Upto(n)
  BY <1>2, <1>6 DEF Upto
<1>15. Trees'
  <2>1. ASSUME NEW t \in DOMAIN thread.checkpoints, thread.checkpoints[t].captured
        PROVE  provider'.active # t /\ thread.checkpoints[t].count <= L
    BY <1>2, <1>3, <1>6, <2>1, Held, Turned
  <2>2. CountRef(0) \in DOMAIN refs' => refs'[CountRef(0)] = {}
    BY <1>6 DEF Trees
  <2>3. tree' = Upto(Len(Conversation))'
    BY <1>3, <1>6 DEF Trees, Upto
  <2>4. QED BY <1>3, <1>6, <1>14, <2>1, <2>2, <2>3, TreesStay
<1>16. QED BY <1>7, <1>9, <1>10, <1>11, <1>12, <1>13, <1>15 DEF Order, Numbers

\* A revert is asked for when all has settled.
LEMMA RequestRevertOrdered ==
  ASSUME Sound, Undisturbed', NEW t, RequestRevert(t)
  PROVE  (Order /\ Numbers /\ Trees)'
<1> USE DEF Sound
<1>1. Settled
  <2>1. Hurry(Settled) \subseteq disturbed'
    BY DEF RequestRevert
  <2>2. QED BY <2>1 DEF Undisturbed, Hurry
<1>2. PICK e : e = Domain("checkpoint-revert-requested", NoTurn, table.turns[t].count - 1)
  OBVIOUS
<1>3. /\ UNCHANGED <<thread, tree, refs, provider, starting, runtime, ingestion, ingest, reactor>>
      /\ budget'.messages = budget.messages
      /\ domain' = <<e>>
  BY <1>1, <1>2 DEF RequestRevert, views, Typed, PartsTyped, Settled, CaughtUp
<1>4. Alone'
  BY <1>1, <1>3 DEF Alone, Settled, CaughtUp, AtRest, Reverts
<1>5. Fresh' /\ OneTurn'
  BY <1>3 DEF Order, Fresh, OneTurn, Conversation, Placed, Capturing
<1>6. Numbers'
  BY <1>3, NumbersSame
<1>7. Trees'
  BY <1>3, TreesSame
<1>8. QED BY <1>4, <1>5, <1>6, <1>7 DEF Order

\* The ingestion takes an event: no revert is asked for or runs.
LEMMA IngestionTakes ==
  ASSUME Sound, ingestion # <<>> \/ ingest.pc # "idle"
  PROVE  ~Asked /\ reactor.pc \notin Reverts /\ ~Trimmed
BY DEF Sound, Order, Alone, NotIngesting, Trimmed, Reverts

\* The order stays in a step of the ingestion.
LEMMA IngestionInOrder ==
  ASSUME Sound, ingestion # <<>> \/ ingest.pc # "idle",
         UNCHANGED <<provider, starting, inbox, reactor, budget>>
  PROVE  Order'
<1>1. ~Asked /\ reactor.pc \notin Reverts
  BY IngestionTakes
<1>2. Fresh' /\ OneTurn'
  BY DEF Sound, Order, Fresh, OneTurn, Conversation, Placed, Capturing, inbox
<1>3. Alone'
  BY <1>1 DEF Alone, Asked, inbox
<1>4. QED BY <1>2, <1>3 DEF Order

\* What is left of the queue is about turns of the conversation.
LEMMA QueueFollows ==
  ASSUME Sound, ingestion # <<>>, ingestion' = Tail(ingestion), provider' = provider
  PROVE  /\ \A i \in DOMAIN ingestion' : \E n \in Nat : Placed(ingestion[i].turn, n)'
         /\ \E n \in Nat : Placed(Head(ingestion).turn, n)
<1>1. ingestion \in Seq(IngestionEvents)
  BY DEF Sound, Typed, QueuesTyped
<1>2. \A i \in DOMAIN ingestion' : i + 1 \in DOMAIN ingestion /\ ingestion'[i] = ingestion[i + 1]
  BY <1>1
<1>3. ASSUME NEW i \in DOMAIN ingestion'
      PROVE  \E n \in Nat : Placed(ingestion[i].turn, n)'
  <2>1. PICK n \in Nat : Placed(ingestion[i + 1].turn, n)
    BY <1>2 DEF Sound, Numbers, Follows
  <2>2. Placed(ingestion[i].turn, n)'
    BY <1>2, <2>1 DEF Placed, Conversation
  <2>3. QED BY <2>2
<1>4. 1 \in DOMAIN ingestion /\ Head(ingestion) = ingestion[1]
  BY <1>1
<1>5. QED BY <1>3, <1>4 DEF Sound, Numbers, Follows

\* The ingestion takes the beginning of a turn, its end, or its diff.
LEMMA IngestOrdered ==
  ASSUME Sound, IngestTurnStarted \/ IngestTurnEnded \/ IngestDiff
  PROVE  (Order /\ Numbers /\ Trees)'
<1> USE DEF Sound
<1>1. /\ ingestion # <<>> /\ ingestion' = Tail(ingestion) /\ ingest.pc = "idle"
      /\ UNCHANGED <<tree, refs, provider, starting, inbox, reactor, budget>>
  BY DEF IngestTurnStarted, IngestTurnEnded, IngestDiff, TakeIngestion
<1>2. thread'.checkpoints = thread.checkpoints
  BY DEF IngestTurnStarted, TurnRunning, IngestTurnEnded, IngestDiff, SetSession, Typed, ViewsTyped,
     views
<1>3. Order'
  BY <1>1, IngestionInOrder
<1>4. (ingest.pc = "diff" => Placed(ingest.turn, ingest.count))'
  <2>1. CASE IngestTurnStarted \/ IngestTurnEnded
    BY <1>1, <2>1 DEF IngestTurnStarted, IngestTurnEnded
  <2>2. CASE IngestDiff
    <3>1. PICK t : t = Head(ingestion).turn
      OBVIOUS
    <3>2. PICK n \in Nat : Placed(t, n)
      BY <1>1, <3>1, QueueFollows
    <3>3. CASE t \in DOMAIN thread.checkpoints
      BY <1>1, <2>2, <3>1, <3>3 DEF IngestDiff
    <3>4. CASE t \notin DOMAIN thread.checkpoints
      <4>1. MaxCount(thread.checkpoints) + 1 = n
        BY <1>1, <3>2, <3>4, NextCount, IngestionTakes DEF Order, Numbers
      <4>2. ingest' = [pc |-> "diff", turn |-> t, count |-> n]
        BY <2>2, <3>1, <3>4, <4>1 DEF IngestDiff
      <4>3. QED BY <1>1, <3>2, <4>2 DEF Placed, Conversation
    <3>5. QED BY <3>3, <3>4
  <2>3. QED BY <2>1, <2>2
<1>5. Follows'
  BY <1>1, <1>4, QueueFollows DEF Follows
<1>6. Numbered' /\ Covered' /\ Back'
  BY <1>1, <1>2 DEF Numbers, Numbered, Covered, Back, Placed, InFlight, Ending, Capturing, Trimmed,
     Conversation, inbox
<1>7. Trees'
  BY <1>1, <1>2, TreesSame
<1>8. QED BY <1>3, <1>5, <1>6, <1>7 DEF Numbers

\* The assistant's message is completed.
LEMMA CompleteMessageOrdered ==
  ASSUME Sound, CompleteMessage
  PROVE  (Order /\ Numbers /\ Trees)'
<1> USE DEF Sound
<1>1. /\ ingest.pc # "idle" /\ ingest' = NotIngesting
      /\ UNCHANGED <<tree, refs, provider, starting, inbox, ingestion, reactor, budget>>
      /\ thread'.checkpoints = thread.checkpoints
  BY DEF CompleteMessage, Typed, ViewsTyped
<1>2. Order'
  BY <1>1, IngestionInOrder
<1>3. Follows'
  BY <1>1 DEF Numbers, Follows, Placed, Conversation, NotIngesting
<1>4. Numbered' /\ Covered' /\ Back'
  BY <1>1 DEF Numbers, Numbered, Covered, Back, Placed, InFlight, Ending, Capturing, Trimmed,
     Conversation, inbox
<1>5. QED BY <1>1, <1>2, <1>3, <1>4, TreesSame DEF Numbers

\* A placeholder is put at its turn's place.
LEMMA DispatchPlaceholderOrdered ==
  ASSUME Sound, DispatchPlaceholder
  PROVE  (Order /\ Numbers /\ Trees)'
<1> USE DEF Sound
<1>1. PICK t \in Turns, n \in Nat : t = ingest.turn /\ n = ingest.count
  BY PlaceholderPut
<1>2. PICK c : c = Checkpoint(n, "missing", FALSE)
  OBVIOUS
<1>3. /\ ingest.pc # "idle" /\ ingest' = NotIngesting
      /\ UNCHANGED <<tree, refs, provider, starting, inbox, ingestion, reactor, budget>>
  BY DEF DispatchPlaceholder
<1>4. /\ c.count = n /\ ~c.captured
      /\ \/ thread'.checkpoints = thread.checkpoints
         \/ thread'.checkpoints = Put(thread.checkpoints, t, c)
  BY <1>1, <1>2, PlaceholderPut
<1>5. Placed(t, n)
  BY <1>1 DEF Numbers, Follows, DispatchPlaceholder
<1>6. Order'
  BY <1>3, IngestionInOrder
<1>7. Follows'
  BY <1>3 DEF Numbers, Follows, Placed, Conversation, NotIngesting
<1>8. ~Trimmed
  BY <1>3, IngestionTakes
<1>9. Numbered'
  <2>1. ASSUME NEW u \in DOMAIN thread'.checkpoints
        PROVE  Placed(u, thread.checkpoints[u].count)'
    <3>1. \/ u \in DOMAIN thread.checkpoints /\ thread'.checkpoints[u] = thread.checkpoints[u]
          \/ u = t /\ thread'.checkpoints[u] = c
      BY <1>4 DEF Put
    <3>2. QED BY <1>3, <1>4, <1>5, <1>8, <3>1, InPlace DEF Numbers, Placed, Conversation
  <2>2. QED BY <2>1 DEF Numbered
<1>10. Covered' /\ Back'
  <2>1. DOMAIN thread.checkpoints \subseteq DOMAIN thread'.checkpoints
    BY <1>4 DEF Put
  <2>2. QED BY <1>3, <2>1 DEF Numbers, Covered, Back, InFlight, Ending, Capturing, Trimmed,
               Conversation, inbox
<1>11. Trees'
  <2>1. ASSUME NEW u \in DOMAIN thread'.checkpoints, thread'.checkpoints[u].captured
        PROVE  u \in DOMAIN thread.checkpoints /\ thread'.checkpoints[u] = thread.checkpoints[u]
    BY <1>4, <2>1 DEF Put
  <2>2. QED BY <1>3, <2>1, TreesSame
<1>12. QED BY <1>6, <1>7, <1>9, <1>10, <1>11 DEF Numbers

\* The reactor makes sure of a baseline: no ref of a checkpoint is touched,
\* and that of count 0 is saved from a tree without edits.
LEMMA BaselineKeeps ==
  ASSUME Sound, Undisturbed', NEW rs, EnsureBaseline(rs), tree' = tree, provider' = provider,
         thread'.checkpoints = thread.checkpoints, reactor.pc = "idle", reactor' = reactor,
         \A n \in Nat : /\ CountRef(n) \in DOMAIN rs <=> CountRef(n) \in DOMAIN refs
                        /\ CountRef(n) \in DOMAIN refs => rs[CountRef(n)] = refs[CountRef(n)]
  PROVE  Trees'
<1> USE DEF Sound
<1>1. PICK m \in Nat : m = MaxCount(thread.checkpoints)
  BY MaxCounts DEF Typed
<1>2. refs' = IF CountRef(m) \in DOMAIN rs THEN rs ELSE Put(rs, CountRef(m), tree)
  BY <1>1 DEF EnsureBaseline, Captured
<1>3. CountRef(m) \in DOMAIN rs \/ tree = {}
  BY <1>1 DEF EnsureBaseline, Undisturbed
<1>4. \A n \in Nat : CountRef(n) \in DOMAIN refs =>
        CountRef(n) \in DOMAIN refs' /\ refs'[CountRef(n)] = refs[CountRef(n)]
  BY <1>2 DEF Put
<1>5. CountRef(0) \in DOMAIN refs' => refs'[CountRef(0)] = {}
  BY <1>2, <1>3, RefsDiffer DEF Put, Trees
<1>6. ~Trimmed
  BY DEF Trimmed
<1>7. PICK L \in Nat : L = Len(Conversation)
  BY Turned
<1>8. \A n \in 0..L : Upto(n)' = Upto(n)
  BY DEF Upto, Conversation
<1>9. tree' = Upto(Len(Conversation))'
  BY DEF Trees, Upto, Conversation
<1>10. ASSUME NEW t \in DOMAIN thread.checkpoints, thread.checkpoints[t].captured
       PROVE  provider'.active # t /\ thread.checkpoints[t].count <= L
  BY <1>6, <1>7, <1>10, Held, Turned
<1>11. QED BY <1>4, <1>5, <1>6, <1>8, <1>9, <1>10, TreesStay

\* The events of the domain that start a turn.
LEMMA DomainTakes ==
  ASSUME Sound, domain # <<>>, domain' = Tail(domain),
         Head(domain).type # "checkpoint-revert-requested"
  PROVE  ~Asked /\ ~Asked'
<1>1. domain \in Seq(DomainEvents)
  BY DEF Sound, Typed, QueuesTyped
<1>2. \A i \in DOMAIN domain' : i + 1 \in DOMAIN domain /\ domain'[i] = domain[i + 1]
  BY <1>1
<1>3. Head(domain) = domain[1] /\ DOMAIN domain = 1..Len(domain) /\ Len(domain) \in Nat
  BY <1>1
<1>4. ~Asked
  BY <1>1, <1>3 DEF Sound, Order, Alone, Asked
<1>5. QED BY <1>1, <1>2, <1>4 DEF Asked

\* The reactor hears that a message is sent or that a turn is to start.
LEMMA MessageOrdered ==
  ASSUME Sound, Undisturbed', ProcessMessageSent \/ ProcessTurnStartRequested
  PROVE  (Order /\ Numbers /\ Trees)'
<1> USE DEF Sound
<1>1. /\ reactor.pc = "idle" /\ thread' = thread
      /\ UNCHANGED <<tree, provider, starting, runtime, ingestion, ingest, reactor, budget>>
  BY DEF ProcessMessageSent, ProcessTurnStartRequested, TakeDomain, views
<1>2. ~Asked'
  BY DomainTakes DEF ProcessMessageSent, ProcessTurnStartRequested, TakeDomain
<1>3. Order'
  <2>1. Fresh' /\ OneTurn'
    BY <1>1 DEF Order, Fresh, OneTurn, Conversation, Placed, Capturing
  <2>2. QED BY <1>1, <1>2, <2>1 DEF Order, Alone, Reverts
<1>4. Numbers'
  BY <1>1, NumbersSame
<1>5. Trees'
  <2>1. CASE ProcessMessageSent
    BY <1>1, <2>1, BaselineKeeps DEF ProcessMessageSent
  <2>2. CASE ProcessTurnStartRequested
    <3>1. PICK t \in Holders : t = Head(domain).turn
      BY <2>2, HeadTyped DEF ProcessTurnStartRequested, TakeDomain, Typed, DomainEvents
    <3>2. PICK rs : rs = Captured(refs, MessageRef(t))
      OBVIOUS
    <3>3. EnsureBaseline(rs)
      BY <2>2, <3>1, <3>2 DEF ProcessTurnStartRequested
    <3>4. \A n \in Nat : /\ CountRef(n) \in DOMAIN rs <=> CountRef(n) \in DOMAIN refs
                         /\ CountRef(n) \in DOMAIN refs => rs[CountRef(n)] = refs[CountRef(n)]
      BY <3>2, RefsDiffer DEF Captured, Put
    <3>5. QED BY <1>1, <3>3, <3>4, BaselineKeeps
  <2>3. QED BY <2>1, <2>2
<1>6. QED BY <1>3, <1>4, <1>5

\* The reactor takes what the provider tells it of the newest turn.
LEMMA RuntimeMoves ==
  ASSUME Sound, runtime # <<>>, runtime' = Tail(runtime)
  PROVE  /\ runtime' \in Seq(RuntimeEvents)
         /\ Len(runtime) \in Nat /\ Len(runtime) >= 1 /\ Len(runtime') = Len(runtime) - 1
         /\ \A i \in DOMAIN runtime' : i + 1 \in DOMAIN runtime /\ runtime'[i] = runtime[i + 1]
         /\ Head(runtime) = runtime[1] /\ 1 \in DOMAIN runtime
         /\ starting = NoTurn /\ ~Asked /\ reactor = AtRest /\ reactor.pc = "idle"
         /\ ~Capturing /\ ~Trimmed
         /\ Placed(Head(runtime).turn, Len(Conversation))
<1> USE DEF Sound
<1>1. runtime \in Seq(RuntimeEvents)
  BY DEF Typed, QueuesTyped
<1>2. /\ runtime' \in Seq(RuntimeEvents)
      /\ Len(runtime) \in Nat /\ Len(runtime) >= 1 /\ Len(runtime') = Len(runtime) - 1
      /\ \A i \in DOMAIN runtime' : i + 1 \in DOMAIN runtime /\ runtime'[i] = runtime[i + 1]
      /\ Head(runtime) = runtime[1] /\ 1 \in DOMAIN runtime
  BY <1>1
<1>3. starting = NoTurn /\ reactor = AtRest /\ Placed(runtime[1].turn, Len(Conversation))
  BY <1>1, <1>2 DEF Order, OneTurn
<1>4. ~Asked
  BY <1>1 DEF Order, Alone
<1>5. QED BY <1>1, <1>2, <1>3, <1>4 DEF AtRest, Capturing, Trimmed

\* ... in a handler that changes no view.
LEMMA RuntimeTakes ==
  ASSUME Sound, NEW type, TakeRuntime(type)
  PROVE  /\ runtime' = Tail(runtime) /\ runtime' \in Seq(RuntimeEvents)
         /\ Len(runtime) \in Nat /\ Len(runtime) >= 1 /\ Len(runtime') = Len(runtime) - 1
         /\ \A i \in DOMAIN runtime' : i + 1 \in DOMAIN runtime /\ runtime'[i] = runtime[i + 1]
         /\ Head(runtime) = runtime[1] /\ 1 \in DOMAIN runtime
         /\ starting = NoTurn /\ ~Asked /\ reactor = AtRest /\ reactor.pc = "idle"
         /\ ~Capturing /\ ~Trimmed
         /\ Placed(Head(runtime).turn, Len(Conversation)) /\ Head(runtime).type = type
         /\ UNCHANGED <<thread, tree, provider, starting, domain, ingestion, ingest, budget>>
BY RuntimeMoves DEF TakeRuntime, views

\* That a turn has begun is taken: its end, which may be told too, stays.
LEMMA BeginningTaken ==
  ASSUME Sound, runtime # <<>>, runtime' = Tail(runtime), Head(runtime).type = "turn.started",
         budget'.messages = budget.messages,
         UNCHANGED <<thread, provider, starting, domain, ingestion, ingest, reactor>>
  PROVE  (Order /\ Numbers)'
<1> USE DEF Sound
<1>1. runtime' \in Seq(RuntimeEvents)
  BY RuntimeMoves
<1>2. /\ Len(runtime) \in Nat /\ Len(runtime) >= 1 /\ Len(runtime') = Len(runtime) - 1
      /\ \A i \in DOMAIN runtime' : i + 1 \in DOMAIN runtime /\ runtime'[i] = runtime[i + 1]
      /\ Head(runtime) = runtime[1] /\ starting = NoTurn /\ ~Asked /\ reactor = AtRest
  BY RuntimeMoves
<1>3. Order'
  <2>1. Fresh'
    BY <1>2 DEF Order, Fresh, Conversation
  <2>2. OneTurn'
    BY <1>2 DEF Order, OneTurn, Conversation, Placed, Capturing
  <2>3. Alone'
    BY <1>2 DEF Alone, Asked, Reverts, AtRest
  <2>4. QED BY <2>1, <2>2, <2>3 DEF Order
<1>4. Numbers'
  <2>1. Follows' /\ Numbered' /\ Back'
    BY <1>2 DEF Numbers, Follows, Numbered, Back, Placed, Conversation, Trimmed
  <2>2. ASSUME NEW t, Ending(t)
        PROVE  Ending(t)'
    <3>1. PICK i \in DOMAIN runtime : runtime[i].type = "turn.completed" /\ runtime[i].turn = t
      BY <2>2 DEF Ending
    <3>2. i # 1 /\ i \in 1..Len(runtime)
      BY <1>2, <3>1 DEF Typed, QueuesTyped
    <3>3. PICK j : j = i - 1
      OBVIOUS
    <3>4. j \in DOMAIN runtime' /\ runtime'[j] = runtime[i]
      <4>1. j \in 1..Len(runtime') /\ j + 1 = i
        BY <1>2, <3>2, <3>3
      <4>2. runtime' \in Seq(RuntimeEvents)
        BY <1>1
      <4>3. QED BY <1>2, <4>1, <4>2
    <3>5. QED BY <3>1, <3>4 DEF Ending
  <2>3. \A t : InFlight(t) => InFlight(t)'
    BY <1>2, <2>2 DEF InFlight, Capturing
  <2>4. Covered'
    BY <1>2, <2>3 DEF Numbers, Covered, Conversation
  <2>5. QED BY <2>1, <2>4 DEF Numbers
<1>5. QED BY <1>3, <1>4

\* The tree of a message becomes that of a turn's start.
LEMMA AliasBeside ==
  ASSUME NEW t \in Turns, NEW n \in Nat
  PROVE  /\ CountRef(n) \in DOMAIN StartAliased(t) <=> CountRef(n) \in DOMAIN refs
         /\ CountRef(n) \in DOMAIN refs => StartAliased(t)[CountRef(n)] = refs[CountRef(n)]
<1>1. CountRef(n) # StartRef(t)
  BY RefsDiffer DEF Holders
<1>2. PICK m : m = IF startOf # NoTurn THEN startOf ELSE table.pending
  OBVIOUS
<1>3. StartAliased(t) = IF MessageRef(m) \in DOMAIN refs
                        THEN Put(refs, StartRef(t), refs[MessageRef(m)]) ELSE refs
  BY <1>2 DEF StartAliased
<1>4. QED BY <1>1, <1>3 DEF Put

\* The reactor hears that a turn has begun.
LEMMA TurnStartedOrdered ==
  ASSUME Sound, Undisturbed', ProcessTurnStarted
  PROVE  (Order /\ Numbers /\ Trees)'
<1> USE DEF Sound
<1>1. TakeRuntime("turn.started") /\ reactor' = reactor
  BY DEF ProcessTurnStarted
<1>2. /\ runtime # <<>> /\ runtime' = Tail(runtime) /\ Head(runtime).type = "turn.started"
      /\ reactor.pc = "idle"
      /\ UNCHANGED <<thread, tree, provider, starting, domain, ingestion, ingest, budget>>
  BY <1>1, RuntimeTakes DEF TakeRuntime
<1>3. Order' /\ Numbers'
  BY <1>1, <1>2, BeginningTaken
<1>4. Trees'
  <2>1. PICK t \in Turns : t = Head(runtime).turn
    BY <1>2, HeadTyped DEF Typed, RuntimeEvents, Events
  <2>2. EnsureBaseline(StartAliased(t))
    BY <2>1 DEF ProcessTurnStarted
  <2>3. QED BY <1>1, <1>2, <2>2, AliasBeside, BaselineKeeps
<1>5. QED BY <1>3, <1>4

\* A handler of these fails: the trees that were saved may be saved.
LEMMA BaselineFails ==
  ASSUME Sound, FailMessageBaseline \/ FailTurnBaseline
  PROVE  (Order /\ Numbers /\ Trees)'
<1> USE DEF Sound
<1>1. /\ reactor.pc = "idle" /\ budget'.messages = budget.messages
      /\ UNCHANGED <<thread, tree, provider, starting, ingestion, ingest, reactor>>
  BY FailBaseline
<1>2. CASE FailMessageBaseline
  <2>1. domain # <<>> /\ domain' = Tail(domain) /\ runtime' = runtime
        /\ Head(domain).type # "checkpoint-revert-requested"
    BY <1>2 DEF FailMessageBaseline
  <2>2. ~Asked'
    BY <2>1, DomainTakes
  <2>3. Order'
    <3>1. Fresh' /\ OneTurn'
      BY <1>1, <2>1 DEF Order, Fresh, OneTurn, Conversation, Placed, Capturing
    <3>2. QED BY <1>1, <2>2, <3>1 DEF Order, Alone, Reverts
  <2>4. Numbers'
    BY <1>1, <2>1, NumbersSame
  <2>5. Trees'
    <3>1. PICK t \in Holders : t = Head(domain).turn
      BY <2>1, HeadTyped DEF Typed, DomainEvents
    <3>2. refs' \in {refs, Captured(refs, MessageRef(t))}
      BY <1>2, <3>1 DEF FailMessageBaseline
    <3>3. \A n \in Nat : /\ CountRef(n) \in DOMAIN refs' <=> CountRef(n) \in DOMAIN refs
                         /\ CountRef(n) \in DOMAIN refs => refs'[CountRef(n)] = refs[CountRef(n)]
      BY <3>2, RefsDiffer DEF Captured, Put
    <3>4. QED BY <1>1, <3>3, RefsBeside
  <2>6. QED BY <2>3, <2>4, <2>5
<1>3. CASE FailTurnBaseline
  <2>1. runtime # <<>> /\ runtime' = Tail(runtime) /\ Head(runtime).type = "turn.started"
        /\ domain' = domain
    BY <1>3 DEF FailTurnBaseline
  <2>2. Order' /\ Numbers'
    BY <1>1, <2>1, BeginningTaken
  <2>3. Trees'
    <3>1. PICK t \in Turns : t = Head(runtime).turn
      BY <2>1, HeadTyped DEF Typed, RuntimeEvents, Events
    <3>2. refs' = refs \/ refs' = StartAliased(t)
      BY <1>3, <3>1 DEF FailTurnBaseline
    <3>3. QED BY <1>1, <3>2, AliasBeside, RefsBeside
  <2>4. QED BY <2>2, <2>3
<1>4. QED BY <1>2, <1>3

\* The reactor hears that a turn has ended: it captures under the turn's
\* place, unless a checkpoint that stays is there.
LEMMA TurnCompletedOrdered ==
  ASSUME Sound, Undisturbed', ProcessTurnCompleted
  PROVE  (Order /\ Numbers /\ Trees)'
<1> USE DEF Sound
<1>1. TakeRuntime("turn.completed") /\ refs' = refs
  BY DEF ProcessTurnCompleted
<1>2. /\ starting = NoTurn /\ ~Asked /\ reactor = AtRest /\ reactor.pc = "idle" /\ ~Trimmed
      /\ UNCHANGED <<thread, tree, provider, starting, domain, ingestion, ingest, budget>>
  BY <1>1, RuntimeTakes
<1>3. runtime' = <<>> /\ provider.active = NoTurn /\ Len(runtime) = 1
  <2>1. 1 = Len(runtime) /\ provider.active = NoTurn
    BY <1>1, RuntimeTakes DEF Order, OneTurn
  <2>2. runtime' \in Seq(RuntimeEvents) /\ Len(runtime') = 0
    BY <1>1, <2>1, RuntimeTakes
  <2>3. QED BY <2>1, <2>2
<1>4. PICK L \in Nat : L = Len(Conversation)
  BY Turned
<1>5. PICK t \in Turns : t = Head(runtime).turn
  BY <1>1, RuntimeTakes, HeadTyped DEF Typed, RuntimeEvents, Events
<1>6. Placed(t, L) /\ Conversation[L] = t
  BY <1>1, <1>4, <1>5, RuntimeTakes DEF Placed
<1>7. PICK n : n = IF t \in DOMAIN thread.checkpoints THEN thread.checkpoints[t].count
                   ELSE MaxCount(thread.checkpoints) + 1
  OBVIOUS
<1>8. n = L
  <2>1. CASE t \in DOMAIN thread.checkpoints
    BY <1>2, <1>6, <1>7, <2>1, InPlace, OnePlace DEF Numbers, Order
  <2>2. CASE t \notin DOMAIN thread.checkpoints
    BY <1>2, <1>6, <1>7, <2>2, NextCount DEF Numbers, Order
  <2>3. QED BY <2>1, <2>2
<1>9. PICK st : st = CheckpointStatus(Head(runtime).outcome)
  OBVIOUS
<1>10. \/ /\ reactor' = reactor
          /\ t \in DOMAIN thread.checkpoints
       \/ reactor' = [AtRest EXCEPT !.pc = "capture", !.turn = t, !.count = L, !.status = st]
  <2>1. Ours(t)
    BY <1>5 DEF ProcessTurnCompleted, Undisturbed
  <2>2. \/ /\ reactor' = reactor
           /\ t \in DOMAIN thread.checkpoints
        \/ reactor' = [AtRest EXCEPT !.pc = "capture", !.turn = t, !.count = n, !.status = st]
    BY <1>5, <1>7, <1>9, <2>1 DEF ProcessTurnCompleted
  <2>3. QED BY <1>8, <2>2
<1>11. \/ reactor' = AtRest /\ t \in DOMAIN thread.checkpoints
       \/ reactor'.pc = "capture" /\ reactor'.turn = t /\ reactor'.count = L
  BY <1>2, <1>10 DEF AtRest
<1>12. reactor'.pc \in {"idle", "capture"}
  BY <1>2, <1>11
<1>13. Order'
  <2>1. Fresh'
    BY <1>2 DEF Order, Fresh, Conversation
  <2>2. OneTurn'
    BY <1>2, <1>3, <1>4, <1>6, <1>11 DEF OneTurn, Conversation, Placed, Capturing, AtRest
  <2>3. Alone'
    BY <1>2, <1>12 DEF Alone, Asked, Reverts
  <2>4. QED BY <2>1, <2>2, <2>3 DEF Order
<1>14. Numbers'
  <2>1. Follows'
    BY <1>2 DEF Numbers, Follows, Placed, Conversation
  <2>2. Numbered' /\ Back'
    BY <1>2, <1>12 DEF Numbers, Numbered, Back, Placed, Conversation, Trimmed
  <2>3. \A i \in 1..L : Conversation[i] \in DOMAIN thread.checkpoints \/ i = L
    BY <1>4 DEF Numbers, Covered
  <2>4. Conversation[L] \in DOMAIN thread.checkpoints \/ (Capturing' /\ reactor'.turn = t)
    BY <1>6, <1>11 DEF Capturing
  <2>5. Covered'
    BY <1>2, <1>4, <1>6, <2>3, <2>4 DEF Covered, InFlight, Conversation
  <2>6. QED BY <2>1, <2>2, <2>5 DEF Numbers
<1>15. Trees'
  <2>1. \A k \in 0..L : Upto(k)' = Upto(k)
    BY <1>2 DEF Upto, Conversation
  <2>2. tree' = Upto(Len(Conversation))'
    BY <1>2 DEF Trees, Upto, Conversation
  <2>3. ASSUME NEW u \in DOMAIN thread.checkpoints, thread.checkpoints[u].captured
        PROVE  provider'.active # u /\ thread.checkpoints[u].count <= L
    BY <1>2, <1>4, <2>3, Held, Turned
  <2>4. CountRef(0) \in DOMAIN refs' => refs'[CountRef(0)] = {}
    BY <1>1 DEF Trees
  <2>5. QED BY <1>1, <1>2, <1>12, <2>1, <2>2, <2>3, <2>4, TreesStay
<1>16. QED BY <1>13, <1>14, <1>15

\* Nothing is asked of the reactor while it works.
LEMMA Working ==
  ASSUME Sound, reactor.pc # "idle"
  PROVE  ~Asked /\ starting = NoTurn /\ provider.active = NoTurn /\ runtime = <<>>
<1> USE DEF Sound
<1>1. reactor # AtRest
  BY DEF AtRest
<1>2. QED BY <1>1 DEF Order, Alone, OneTurn, Capturing

\* The tree is saved under the newest turn's count.
LEMMA CaptureOrdered ==
  ASSUME Sound, CaptureCheckpoint
  PROVE  (Order /\ Numbers /\ Trees)'
<1> USE DEF Sound
<1>1. PICK L \in Nat : L = Len(Conversation)
  BY Turned
<1>2. /\ reactor.pc = "capture" /\ reactor'.pc = "dispatch"
      /\ reactor'.turn = reactor.turn /\ reactor'.count = reactor.count
      /\ UNCHANGED <<thread, tree, provider, starting, inbox, ingestion, ingest, budget>>
      /\ refs' = Put(refs, CountRef(reactor.count), tree)
  BY DEF CaptureCheckpoint, Typed, PartsTyped, ReactorStates, views
<1>3. ~Asked /\ starting = NoTurn /\ provider.active = NoTurn /\ runtime = <<>> /\ ~Trimmed
  BY <1>2, Working DEF Trimmed
<1>4. reactor.count = L /\ Placed(reactor.turn, L) /\ L > 0
  BY <1>1, <1>2 DEF Order, OneTurn, Capturing, Placed
<1>5. Order'
  <2>1. Fresh'
    BY <1>2 DEF Order, Fresh, Conversation
  <2>2. OneTurn'
    BY <1>1, <1>2, <1>3, <1>4 DEF OneTurn, Conversation, Placed, Capturing, inbox
  <2>3. Alone'
    BY <1>2, <1>3 DEF Alone, Asked, Reverts, inbox
  <2>4. QED BY <2>1, <2>2, <2>3 DEF Order
<1>6. Numbers'
  BY <1>2 DEF Numbers, Follows, Numbered, Covered, Back, Placed, Conversation, InFlight, Ending,
     Capturing, Trimmed, inbox
<1>7. Trees'
  <2>1. \A n \in Nat : Upto(n)' = Upto(n)
    BY <1>2 DEF Upto, Conversation
  <2>2. tree = Upto(L)
    BY <1>1, <1>2 DEF Trees
  <2>3. /\ refs'[CountRef(L)] = Upto(L)
        /\ \A n \in Nat : n # L =>
             /\ CountRef(n) \in DOMAIN refs' => CountRef(n) \in DOMAIN refs
             /\ CountRef(n) \in DOMAIN refs => refs'[CountRef(n)] = refs[CountRef(n)]
    BY <1>2, <1>4, <2>2, RefsDiffer DEF Put
  <2>4. ASSUME NEW t \in DOMAIN thread.checkpoints, thread.checkpoints[t].captured
        PROVE  /\ provider.active # t
               /\ refs'[CountRef(thread.checkpoints[t].count)] = Upto(thread.checkpoints[t].count)
    BY <1>3, <2>3, <2>4, Held
  <2>5. CountRef(0) \in DOMAIN refs' => refs'[CountRef(0)] = {}
    BY <1>4, <2>3 DEF Trees
  <2>6. QED
    <3>1. tree' = Upto(Len(Conversation))'
      BY <1>1, <1>2, <2>1, <2>2 DEF Conversation
    <3>2. (refs[CountRef(reactor.count)] = Upto(Len(Conversation)))'
      BY <1>1, <1>2, <1>4, <2>1, <2>3 DEF Conversation
    <3>3. ASSUME NEW t \in DOMAIN thread'.checkpoints, thread'.checkpoints[t].captured
          PROVE  (/\ provider.active # t
                  /\ refs[CountRef(thread.checkpoints[t].count)]
                     = Upto(thread.checkpoints[t].count))'
      BY <1>2, <2>1, <2>4, <3>3, Turned
    <3>4. QED BY <1>2, <2>5, <3>1, <3>2, <3>3 DEF Trees
<1>8. QED BY <1>5, <1>6, <1>7

\* The checkpoint is put at the newest turn's place.
LEMMA DispatchCheckpointOrdered ==
  ASSUME Sound, Uncaptured, DispatchCheckpoint
  PROVE  (Order /\ Numbers /\ Trees)'
<1> USE DEF Sound
<1>1. PICK L \in Nat : L = Len(Conversation)
  BY Turned
<1>2. /\ reactor.pc = "dispatch" /\ reactor' = AtRest
      /\ UNCHANGED <<tree, refs, provider, starting, inbox, ingestion, ingest, budget>>
  BY DEF DispatchCheckpoint
<1>3. ~Asked /\ starting = NoTurn /\ provider.active = NoTurn /\ runtime = <<>> /\ ~Trimmed
  BY <1>2, Working DEF Trimmed
<1>4. PICK t \in Turns : t = reactor.turn
  BY CheckpointPut
<1>5. reactor.count = L /\ Placed(t, L) /\ Conversation[L] = t
  BY <1>1, <1>2, <1>4 DEF Order, OneTurn, Capturing, Placed
<1>6. PICK c : c = Checkpoint(L, reactor.status, TRUE)
  OBVIOUS
<1>7. c.count = L /\ thread'.checkpoints = Put(thread.checkpoints, t, c)
  BY <1>4, <1>5, <1>6, CheckpointPut
<1>8. reactor'.pc = "idle" /\ ~Capturing' /\ ~Trimmed'
  BY <1>2 DEF AtRest, Capturing, Trimmed
<1>9. Order'
  <2>1. Fresh'
    BY <1>2 DEF Order, Fresh, Conversation
  <2>2. OneTurn'
    BY <1>2, <1>3, <1>8 DEF OneTurn, inbox
  <2>3. Alone'
    BY <1>2, <1>3, <1>8 DEF Alone, Asked, Reverts, inbox
  <2>4. QED BY <2>1, <2>2, <2>3 DEF Order
<1>10. \A u \in DOMAIN thread'.checkpoints :
         \/ u = t /\ thread'.checkpoints[u] = c
         \/ /\ u \in DOMAIN thread.checkpoints
            /\ thread'.checkpoints[u] = thread.checkpoints[u]
  BY <1>7 DEF Put
<1>11. Numbers'
  <2>1. Follows'
    BY <1>2 DEF Numbers, Follows, Placed, Conversation
  <2>2. ASSUME NEW u \in DOMAIN thread'.checkpoints
        PROVE  Placed(u, thread.checkpoints[u].count)'
    <3>1. CASE u = t /\ thread'.checkpoints[u] = c
      BY <1>2, <1>5, <1>7, <3>1 DEF Placed, Conversation
    <3>2. CASE u \in DOMAIN thread.checkpoints /\ thread'.checkpoints[u] = thread.checkpoints[u]
      BY <1>2, <1>3, <3>2, InPlace DEF Numbers, Placed, Conversation
    <3>3. QED BY <1>10, <3>1, <3>2
  <2>3. Numbered'
    BY <2>2 DEF Numbered
  <2>4. \A i \in 1..L : Conversation[i] \in DOMAIN thread'.checkpoints
    <3>1. \A i \in 1..L : Conversation[i] \in DOMAIN thread.checkpoints \/ i = L
      BY <1>1 DEF Numbers, Covered
    <3>2. DOMAIN thread'.checkpoints = DOMAIN thread.checkpoints \cup {t}
      BY <1>7 DEF Put
    <3>3. QED BY <1>5, <3>1, <3>2
  <2>5. Covered' /\ Back'
    BY <1>1, <1>2, <1>8, <2>4 DEF Covered, Back, Conversation
  <2>6. QED BY <2>1, <2>3, <2>5 DEF Numbers
<1>12. Trees'
  <2>1. \A n \in Nat : Upto(n)' = Upto(n)
    BY <1>2 DEF Upto, Conversation
  <2>2. refs[CountRef(L)] = Upto(L) /\ tree = Upto(L)
    BY <1>1, <1>2, <1>5 DEF Trees
  <2>3. ASSUME NEW u \in DOMAIN thread'.checkpoints, thread'.checkpoints[u].captured
        PROVE  (/\ provider.active # u
                /\ refs[CountRef(thread.checkpoints[u].count)]
                   = Upto(thread.checkpoints[u].count))'
    <3>1. CASE u = t /\ thread'.checkpoints[u] = c
      BY <1>2, <1>3, <1>7, <2>1, <2>2, <3>1, CheckpointAssumption
    <3>2. CASE u \in DOMAIN thread.checkpoints /\ thread'.checkpoints[u] = thread.checkpoints[u]
      BY <1>2, <1>3, <2>1, <2>3, <3>2, Held
    <3>3. QED BY <1>10, <3>1, <3>2
  <2>4. tree' = Upto(Len(Conversation))'
    BY <1>1, <1>2, <2>1, <2>2 DEF Conversation
  <2>5. CountRef(0) \in DOMAIN refs' => refs'[CountRef(0)] = {}
    BY <1>2 DEF Trees
  <2>6. QED BY <1>8, <2>3, <2>4, <2>5 DEF Trees
<1>13. QED BY <1>9, <1>11, <1>12

\* A revert that is asked for or runs is alone.
LEMMA RevertAlone ==
  ASSUME Sound, reactor.pc \in Reverts
  PROVE  /\ starting = NoTurn /\ provider.active = NoTurn /\ runtime = <<>> /\ domain = <<>>
         /\ ingestion = <<>> /\ ingest = NotIngesting /\ ~Asked /\ ~Capturing
BY DEF Sound, Order, Alone, Asked, Reverts, Capturing

\* The order stays while a revert runs, whatever it has cut.
LEMMA RevertInOrder ==
  ASSUME Sound, reactor.pc \in Reverts, reactor'.pc \in Reverts \cup {"idle"},
         UNCHANGED <<starting, inbox, ingestion, ingest, budget>>,
         provider'.active = NoTurn, provider'.edited = provider.edited,
         NEW k \in Nat, k <= Len(Conversation), Len(Conversation') = k,
         \A i \in 1..k : Conversation'[i] = Conversation[i]
  PROVE  Order' /\ Follows'
<1> USE DEF Sound
<1>1. /\ starting' = NoTurn /\ runtime' = <<>> /\ domain' = <<>>
      /\ ingestion' = <<>> /\ ingest' = NotIngesting
  BY RevertAlone DEF inbox
<1>2. ~Capturing' /\ ~Asked'
  BY <1>1 DEF Capturing, Reverts, Asked
<1>3. Fresh'
  BY Turned DEF Fresh, Order
<1>4. OneTurn' /\ Alone'
  BY <1>1, <1>2 DEF OneTurn, Alone
<1>5. Follows'
  BY <1>1 DEF Follows, NotIngesting
<1>6. QED BY <1>3, <1>4, <1>5 DEF Order

\* Where a revert works, each turn of the conversation has its checkpoint.
LEMMA RevertCovered ==
  ASSUME Sound, reactor.pc \in Reverts
  PROVE  \A i \in 1..Len(Conversation) :
           /\ Conversation[i] \in DOMAIN thread.checkpoints
           /\ thread.checkpoints[Conversation[i]].count = i
<1> USE DEF Sound
<1>1. \A i \in 1..Len(Conversation) : Conversation[i] \in DOMAIN thread.checkpoints
  BY RevertAlone, AllCovered DEF Numbers
<1>2. ASSUME NEW i \in 1..Len(Conversation)
      PROVE  thread.checkpoints[Conversation[i]].count = i
  <2>1. Placed(Conversation[i], i) /\ i \in Nat
    BY Turned DEF Placed
  <2>2. Placed(Conversation[i], thread.checkpoints[Conversation[i]].count)
    BY <1>1, <2>1 DEF Numbers, Numbered
  <2>3. QED BY <2>1, <2>2, OnePlace DEF Order
<1>3. QED BY <1>1, <1>2

\* The reactor hears of a revert.
LEMMA RevertRequestedOrdered ==
  ASSUME Sound, ProcessRevertRequested
  PROVE  (Order /\ Numbers /\ Trees)'
<1> USE DEF Sound
<1>1. /\ domain \in Seq(DomainEvents) /\ domain # <<>> /\ domain' = Tail(domain)
      /\ Head(domain).type = "checkpoint-revert-requested" /\ reactor.pc = "idle"
      /\ UNCHANGED <<thread, tree, refs, provider, starting, runtime, ingestion, ingest, budget>>
  BY DEF ProcessRevertRequested, TakeDomain, Typed, QueuesTyped, views
<1>2. Asked
  BY <1>1 DEF Asked
<1>3. /\ starting = NoTurn /\ provider.active = NoTurn /\ runtime = <<>>
      /\ ingestion = <<>> /\ ingest = NotIngesting /\ Len(domain) = 1 /\ reactor = AtRest
  BY <1>2 DEF Order, Alone
<1>4. domain' = <<>>
  BY <1>1, <1>3
<1>5. ~Trimmed /\ ~Capturing
  BY <1>1 DEF Trimmed, Capturing
<1>6. PICK L \in Nat : L = Len(Conversation)
  BY Turned
<1>7. MaxCount(thread.checkpoints) = L
  BY <1>3, <1>5, <1>6, LastCount DEF Order, Numbers
<1>8. PICK n \in Nat : n = Head(domain).count
  BY <1>1, HeadTyped DEF Typed, DomainEvents
<1>9. ASSUME NEW target \in RevertTargets(n), n <= L, target \in DOMAIN refs
      PROVE  refs[target] = Upto(n)
  <2>1. CASE n = 0
    <3>1. Upto(0) = {}
      BY DEF Upto
    <3>2. target = CountRef(0)
      BY <1>9, <2>1 DEF RevertTargets
    <3>3. QED BY <1>9, <2>1, <3>1, <3>2 DEF Trees
  <2>2. CASE n # 0
    <3>1. PICK t \in DOMAIN thread.checkpoints :
            /\ thread.checkpoints[t].count = n
            /\ target = IF thread.checkpoints[t].captured THEN CountRef(n)
                        ELSE <<"provider-diff", t>>
      BY <1>9, <2>2 DEF RevertTargets
    <3>2. CASE thread.checkpoints[t].captured
      BY <1>5, <3>1, <3>2, Held
    <3>3. CASE ~thread.checkpoints[t].captured
      <4>1. target \in Counts \cup Others /\ t \in Turns
        BY <1>9, Turned DEF Typed, PartsTyped
      <4>2. QED BY <3>1, <3>3, <4>1, RefsDiffer
    <3>4. QED BY <3>2, <3>3
  <2>3. QED BY <2>1, <2>2
<1>10. \/ reactor' = reactor
       \/ /\ reactor'.pc = "restore" /\ reactor'.count = n /\ reactor'.back + n = L
          /\ reactor'.target \in DOMAIN refs => refs[reactor'.target] = Upto(n)
  <2>1. PICK stale : stale = StaleRefs(n)
    OBVIOUS
  <2>2. PICK back : back = L - n
    OBVIOUS
  <2>3. \/ reactor' = reactor
        \/ /\ n <= L
           /\ \E target \in RevertTargets(n) :
                reactor' = [AtRest EXCEPT !.pc = "restore", !.count = n, !.target = target,
                              !.back = back, !.stale = stale]
    BY <1>7, <1>8, <2>1, <2>2 DEF ProcessRevertRequested
  <2>4. ASSUME n <= L, NEW target \in RevertTargets(n),
               reactor' = [AtRest EXCEPT !.pc = "restore", !.count = n, !.target = target,
                             !.back = back, !.stale = stale]
        PROVE  /\ reactor'.pc = "restore" /\ reactor'.count = n /\ reactor'.back + n = L
               /\ reactor'.target \in DOMAIN refs => refs[reactor'.target] = Upto(n)
    <3>1. /\ reactor'.pc = "restore" /\ reactor'.count = n /\ reactor'.target = target
          /\ reactor'.back = back
      BY <2>4 DEF AtRest
    <3>2. QED BY <1>9, <2>2, <2>4, <3>1
  <2>5. QED BY <2>3, <2>4
<1>11. reactor'.pc \in {"idle", "restore"} /\ ~Asked'
  BY <1>1, <1>4, <1>10 DEF Asked
<1>12. Order'
  <2>1. Fresh'
    BY <1>1 DEF Order, Fresh, Conversation
  <2>2. OneTurn'
    BY <1>1, <1>3, <1>11 DEF OneTurn, Capturing
  <2>3. QED BY <1>1, <1>3, <1>4, <1>11, <2>1, <2>2 DEF Order, Alone
<1>13. Numbers'
  <2>1. Follows'
    BY <1>1 DEF Numbers, Follows, Placed, Conversation
  <2>2. Numbered'
    BY <1>1, <1>5, <1>11 DEF Numbers, Numbered, Placed, Conversation, Trimmed
  <2>3. Covered'
    BY <1>1, <1>3, <1>5, AllCovered DEF Numbers, Covered, Conversation
  <2>4. Back'
    BY <1>1, <1>6, <1>10, <1>11 DEF Back, Conversation, Trimmed
  <2>5. QED BY <2>1, <2>2, <2>3, <2>4 DEF Numbers
<1>14. Trees'
  <2>1. \A k \in Nat : Upto(k)' = Upto(k)
    BY <1>1 DEF Upto, Conversation
  <2>2. tree' = Upto(Len(Conversation))'
    BY <1>1, <1>6, <2>1 DEF Trees, Conversation
  <2>3. ASSUME NEW u \in DOMAIN thread'.checkpoints, thread'.checkpoints[u].captured
        PROVE  (/\ provider.active # u
                /\ refs[CountRef(thread.checkpoints[u].count)]
                   = Upto(thread.checkpoints[u].count))'
    BY <1>1, <1>5, <2>1, <2>3, Held
  <2>4. CountRef(0) \in DOMAIN refs' => refs'[CountRef(0)] = {}
    BY <1>1 DEF Trees
  <2>5. (reactor.pc = "restore" /\ reactor.target \in DOMAIN refs
           => refs[reactor.target] = Upto(reactor.count))'
    BY <1>1, <1>10, <2>1
  <2>6. QED BY <1>11, <2>2, <2>3, <2>4, <2>5 DEF Trees
<1>15. QED BY <1>12, <1>13, <1>14

\* The tree is restored to that of the first turns, or the revert ends.
LEMMA RestoreOrdered ==
  ASSUME Sound, RestoreTree
  PROVE  (Order /\ Numbers /\ Trees)'
<1> USE DEF Sound
<1>1. /\ reactor.pc = "restore" /\ ~Trimmed
      /\ UNCHANGED <<thread, refs, provider, starting, inbox, ingestion, ingest, budget>>
  BY DEF RestoreTree, views, Trimmed
<1>2. PICK L \in Nat : L = Len(Conversation)
  BY Turned
<1>3. PICK n \in Nat : n = reactor.count
  BY DEF Typed, PartsTyped, ReactorStates
<1>4. \/ reactor' = AtRest /\ tree' = tree
      \/ reactor' = [reactor EXCEPT !.pc = "rollback"] /\ tree' = Upto(n)
  <2>1. CASE reactor.target \in DOMAIN refs
    BY <1>1, <1>3, <2>1 DEF RestoreTree, Trees
  <2>2. CASE reactor.target \notin DOMAIN refs /\ reactor.count = 0
    <3>1. Upto(0) = {}
      BY DEF Upto
    <3>2. QED BY <1>3, <2>2, <3>1 DEF RestoreTree
  <2>3. CASE reactor.target \notin DOMAIN refs /\ reactor.count # 0
    BY <2>3 DEF RestoreTree
  <2>4. QED BY <2>1, <2>2, <2>3
<1>5. \/ reactor'.pc = "idle" /\ tree' = tree
      \/ /\ reactor'.pc = "rollback" /\ tree' = Upto(n)
         /\ reactor'.count = n /\ reactor'.back = reactor.back
  BY <1>3, <1>4 DEF AtRest, Typed, PartsTyped, ReactorStates
<1>6. reactor'.pc \in {"idle", "rollback"}
  BY <1>5
<1>7. Order' /\ Follows'
  BY <1>1, <1>2, <1>6, RevertInOrder, RevertAlone DEF Reverts, Conversation
<1>8. Numbers'
  <2>1. Numbered'
    BY <1>1, <1>6 DEF Numbers, Numbered, Placed, Conversation, Trimmed
  <2>2. Covered'
    BY <1>1, RevertCovered DEF Covered, Conversation, Reverts
  <2>3. Back'
    BY <1>1, <1>3, <1>5 DEF Numbers, Back, Conversation, Trimmed
  <2>4. QED BY <1>7, <2>1, <2>2, <2>3 DEF Numbers
<1>9. Trees'
  <2>1. \A k \in Nat : Upto(k)' = Upto(k)
    BY <1>1 DEF Upto, Conversation
  <2>2. tree = Upto(L)
    BY <1>1, <1>2 DEF Trees
  <2>3. (tree = Upto(IF reactor.pc = "rollback" THEN reactor.count ELSE Len(Conversation)))'
    BY <1>1, <1>2, <1>5, <2>1, <2>2 DEF Conversation
  <2>4. ASSUME NEW u \in DOMAIN thread'.checkpoints, thread'.checkpoints[u].captured
        PROVE  (/\ provider.active # u
                /\ refs[CountRef(thread.checkpoints[u].count)]
                   = Upto(thread.checkpoints[u].count))'
    BY <1>1, <2>1, <2>4, Held
  <2>5. CountRef(0) \in DOMAIN refs' => refs'[CountRef(0)] = {}
    BY <1>1 DEF Trees
  <2>6. QED BY <1>6, <2>3, <2>4, <2>5 DEF Trees
<1>10. QED BY <1>7, <1>8, <1>9

\* The provider forgets the turns beyond the count.
LEMMA RollbackOrdered ==
  ASSUME Sound, RollbackConversation
  PROVE  (Order /\ Numbers /\ Trees)'
<1> USE DEF Sound
<1>1. /\ reactor.pc = "rollback" /\ reactor'.pc = "delete" /\ reactor'.count = reactor.count
      /\ UNCHANGED <<thread, tree, refs, starting, inbox, ingestion, ingest, budget>>
      /\ provider'.active = provider.active /\ provider'.edited = provider.edited
  BY DEF RollbackConversation, views, Conversation, Typed, PartsTyped, ReactorStates
<1>2. PICK L \in Nat : L = Len(Conversation)
  BY Turned
<1>3. PICK k \in Nat : k = reactor.count /\ reactor.back \in Nat
  BY DEF Typed, PartsTyped, ReactorStates
<1>4. reactor.back + k = L
  BY <1>1, <1>2, <1>3 DEF Numbers, Back
<1>5. k <= L
  BY <1>2, <1>3, <1>4
<1>6. Len(Conversation') = k /\ \A i \in 1..k : Conversation'[i] = Conversation[i]
  <2>1. k = IF L > reactor.back THEN L - reactor.back ELSE 0
    BY <1>2, <1>3, <1>4
  <2>2. Conversation' = SubSeq(Conversation, 1, k)
    BY <1>2, <2>1 DEF RollbackConversation, Conversation, Typed, PartsTyped
  <2>3. QED BY <1>2, <1>5, <2>2, Cut, Turned
<1>7. provider.active = NoTurn
  BY <1>1, RevertAlone DEF Reverts
<1>8. Order' /\ Follows'
  BY <1>1, <1>2, <1>5, <1>6, <1>7, RevertInOrder DEF Reverts
<1>9. ~Trimmed /\ Trimmed'
  BY <1>1 DEF Trimmed
<1>10. ASSUME NEW t \in DOMAIN thread.checkpoints, NEW c \in 1..L, Placed(t, c),
              thread.checkpoints[t].count = c
       PROVE  IF c > k THEN \A n \in Nat : ~Placed(t, n)' ELSE Placed(t, c)'
  <2>1. CASE c > k
    <3>1. SUFFICES ASSUME NEW n \in Nat, Placed(t, n)'
                   PROVE  FALSE
      BY <2>1
    <3>2. n \in 1..k /\ Conversation[n] = t
      BY <1>6, <3>1 DEF Placed
    <3>3. Placed(t, n)
      BY <1>2, <1>5, <3>2 DEF Placed
    <3>4. n = c
      BY <1>10, <3>3, OnePlace DEF Order
    <3>5. QED BY <1>2, <2>1, <3>2, <3>4
  <2>2. CASE ~ (c > k)
    <3>1. c \in 1..k /\ Conversation[c] = t
      BY <1>2, <1>10, <2>2 DEF Placed
    <3>2. QED BY <1>6, <2>2, <3>1 DEF Placed
  <2>3. QED BY <2>1, <2>2
<1>11. Numbers'
  <2>1. Numbered'
    <3>1. ASSUME NEW t \in DOMAIN thread'.checkpoints
          PROVE  (\/ /\ Trimmed /\ thread.checkpoints[t].count > reactor.count
                     /\ \A n \in Nat : ~Placed(t, n)
                  \/ Placed(t, thread.checkpoints[t].count))'
      <4>1. t \in DOMAIN thread.checkpoints
        BY <1>1
      <4>2. PICK c \in 1..L : c = thread.checkpoints[t].count /\ Placed(t, c)
        BY <1>2, <1>9, <4>1, InPlace DEF Numbers
      <4>3. IF c > k THEN \A n \in Nat : ~Placed(t, n)' ELSE Placed(t, c)'
        BY <1>10, <4>1, <4>2
      <4>4. CASE c > k
        BY <1>1, <1>3, <1>9, <4>2, <4>3, <4>4
      <4>5. CASE ~ (c > k)
        BY <1>1, <4>2, <4>3, <4>5 DEF Placed
      <4>6. QED BY <4>4, <4>5
    <3>2. QED BY <3>1 DEF Numbered
  <2>2. Covered'
    <3>1. \A i \in 1..L : Conversation[i] \in DOMAIN thread.checkpoints
      BY <1>1, <1>2, RevertCovered DEF Reverts
    <3>2. \A i \in 1..k : Conversation'[i] \in DOMAIN thread'.checkpoints
      BY <1>1, <1>2, <1>5, <1>6, <3>1
    <3>3. QED BY <1>6, <3>2 DEF Covered
  <2>3. Back'
    BY <1>1, <1>3, <1>6 DEF Back
  <2>4. QED BY <1>8, <2>1, <2>2, <2>3 DEF Numbers
<1>12. Trees'
  <2>1. \A n \in 0..k : Upto(n)' = Upto(n)
    <3>1. TAKE n \in 0..k
    <3>2. n \in Nat /\ n <= Len(Conversation) /\ n <= Len(Conversation')
      BY <1>2, <1>5, <1>6
    <3>3. \A i \in 1..n : Conversation'[i] = Conversation[i]
      BY <1>6, <3>2
    <3>4. provider'.edited = provider.edited /\ Len(Conversation) \in Nat
          /\ Len(Conversation') \in Nat
      BY <1>1, <1>2, <1>6
    <3>5. QED BY <3>2, <3>3, <3>4, SameEdits
  <2>2. (tree = Upto(IF reactor.pc = "rollback" THEN reactor.count ELSE Len(Conversation)))'
    <3>1. tree = Upto(k)
      BY <1>1, <1>3 DEF Trees
    <3>2. Upto(k)' = Upto(k)
      BY <2>1
    <3>3. QED BY <1>1, <1>6, <3>1, <3>2
  <2>3. ASSUME NEW u \in DOMAIN thread'.checkpoints, thread'.checkpoints[u].captured
        PROVE  (/\ provider.active # u
                /\ \/ Trimmed /\ thread.checkpoints[u].count > reactor.count
                   \/ refs[CountRef(thread.checkpoints[u].count)]
                      = Upto(thread.checkpoints[u].count))'
    <3>1. u \in DOMAIN thread.checkpoints /\ thread.checkpoints[u].captured
      BY <1>1, <2>3
    <3>2. PICK c \in 1..L : /\ thread.checkpoints[u].count = c /\ c \in Nat
                            /\ refs[CountRef(c)] = Upto(c) /\ provider.active # u
      BY <1>2, <1>9, <3>1, Held
    <3>3. CASE c > k
      BY <1>1, <1>3, <1>9, <3>2, <3>3
    <3>4. CASE ~ (c > k)
      <4>1. c \in 0..k
        BY <3>2, <3>4
      <4>2. refs[CountRef(c)] = Upto(c)'
        BY <2>1, <3>2, <4>1
      <4>3. QED BY <1>1, <3>2, <4>2
    <3>5. QED BY <3>3, <3>4
  <2>4. CountRef(0) \in DOMAIN refs' => refs'[CountRef(0)] = {}
    BY <1>1 DEF Trees
  <2>5. QED BY <1>1, <2>2, <2>3, <2>4 DEF Trees
<1>13. QED BY <1>8, <1>11, <1>12

\* The refs of higher counts are deleted.
LEMMA DeleteOrdered ==
  ASSUME Sound, DeleteStaleRefs
  PROVE  (Order /\ Numbers /\ Trees)'
<1> USE DEF Sound
<1>1. /\ reactor.pc = "delete" /\ reactor'.pc = "complete" /\ reactor'.count = reactor.count
      /\ UNCHANGED <<thread, tree, provider, starting, inbox, ingestion, ingest, budget>>
      /\ refs' = Only(refs, DOMAIN refs \ reactor.stale)
  BY DEF DeleteStaleRefs, views, Typed, PartsTyped, ReactorStates
<1>2. PICK k \in Nat : k = reactor.count
  BY DEF Typed, PartsTyped, ReactorStates
<1>3. Trimmed /\ Trimmed' /\ reactor.pc \in Reverts
  BY <1>1 DEF Trimmed, Reverts
<1>4. Len(Conversation) = k
  BY <1>2, <1>3 DEF Numbers, Back
<1>5. Order' /\ Follows'
  BY <1>1, <1>2, <1>3, <1>4, RevertInOrder, RevertAlone DEF Reverts, Conversation
<1>6. Numbers'
  <2>1. Numbered' /\ Back'
    BY <1>1, <1>3 DEF Numbers, Numbered, Back, Placed, Conversation
  <2>2. Covered'
    BY <1>1, <1>3, RevertCovered DEF Covered, Conversation
  <2>3. QED BY <1>5, <2>1, <2>2 DEF Numbers
<1>7. ASSUME NEW c \in Nat, c <= k, CountRef(c) \in DOMAIN refs
      PROVE  CountRef(c) \in DOMAIN refs' /\ refs'[CountRef(c)] = refs[CountRef(c)]
  <2>1. CountRef(c) \notin reactor.stale
    <3>1. \A m \in Nat : m > k => CountRef(m) # CountRef(c)
      BY <1>7, RefsDiffer
    <3>2. QED BY <1>1, <1>2, <3>1 DEF Captures
  <2>2. QED BY <1>1, <1>7, <2>1 DEF Only
<1>8. Trees'
  <2>1. \A n \in Nat : Upto(n)' = Upto(n)
    BY <1>1 DEF Upto, Conversation
  <2>2. tree' = Upto(Len(Conversation))'
    BY <1>1, <1>4, <2>1 DEF Trees, Conversation
  <2>3. ASSUME NEW u \in DOMAIN thread'.checkpoints, thread'.checkpoints[u].captured
        PROVE  (/\ provider.active # u
                /\ \/ Trimmed /\ thread.checkpoints[u].count > reactor.count
                   \/ refs[CountRef(thread.checkpoints[u].count)]
                      = Upto(thread.checkpoints[u].count))'
    <3>1. u \in DOMAIN thread.checkpoints /\ thread.checkpoints[u].captured
      BY <1>1, <2>3
    <3>2. PICK c \in Nat : c = thread.checkpoints[u].count
      BY <3>1, Turned
    <3>3. provider.active # u /\ (c > k \/ refs[CountRef(c)] = Upto(c))
      BY <1>2, <3>1, <3>2 DEF Trees
    <3>4. CASE c > k
      BY <1>1, <1>2, <1>3, <3>2, <3>3, <3>4
    <3>5. CASE ~ (c > k)
      <4>1. "torn" \notin disturbed
        BY DEF Undisturbed
      <4>2. CountRef(c) \in DOMAIN refs
        BY <1>1, <3>1, <3>2, <4>1 DEF Captures
      <4>3. refs'[CountRef(c)] = Upto(c)
        BY <1>7, <3>3, <3>5, <4>2
      <4>4. QED BY <1>1, <2>1, <3>2, <3>3, <4>3
    <3>6. QED BY <3>4, <3>5
  <2>4. CountRef(0) \in DOMAIN refs' => refs'[CountRef(0)] = {}
    BY <1>1 DEF Trees, Only
  <2>5. QED BY <1>1, <2>2, <2>3, <2>4 DEF Trees
<1>9. QED BY <1>5, <1>6, <1>8

\* The thread forgets the checkpoints beyond the count.
LEMMA CompleteRevertOrdered ==
  ASSUME Sound, CompleteRevert
  PROVE  (Order /\ Numbers /\ Trees)'
<1> USE DEF Sound
<1>1. /\ reactor.pc = "complete" /\ reactor' = AtRest /\ reactor'.pc = "idle"
      /\ UNCHANGED <<tree, refs, provider, starting, inbox, ingestion, ingest, budget>>
  BY DEF CompleteRevert, AtRest
<1>2. PICK k \in Nat : k = reactor.count
  BY DEF Typed, PartsTyped, ReactorStates
<1>3. Trimmed /\ ~Trimmed' /\ ~Capturing' /\ reactor.pc \in Reverts
  BY <1>1 DEF Trimmed, Reverts, Capturing
<1>4. Len(Conversation) = k
  BY <1>2, <1>3 DEF Numbers, Back
<1>5. Order' /\ Follows'
  BY <1>1, <1>2, <1>3, <1>4, RevertInOrder, RevertAlone DEF Reverts, Conversation
<1>6. thread'.checkpoints = Only(thread.checkpoints, KeptTurns(thread.checkpoints, k))
  <2>1. ProjectReverted(k) /\ ViewsTyped
    BY <1>2 DEF CompleteRevert, Typed
  <2>2. QED BY <2>1, RevertedTyped
<1>7. /\ DOMAIN thread'.checkpoints = {t \in DOMAIN thread.checkpoints :
                                         thread.checkpoints[t].count \in 1..k}
      /\ \A t \in DOMAIN thread'.checkpoints : thread'.checkpoints[t] = thread.checkpoints[t]
  BY <1>6 DEF Only, KeptTurns
<1>8. Numbers'
  <2>1. Numbered'
    <3>1. ASSUME NEW t \in DOMAIN thread'.checkpoints
          PROVE  Placed(t, thread.checkpoints[t].count)'
      <4>1. PICK c \in 1..k : c = thread.checkpoints[t].count /\ c = thread'.checkpoints[t].count
        BY <1>7
      <4>2. Placed(t, c)
        BY <1>2, <1>7, <4>1 DEF Numbers, Numbered
      <4>3. QED BY <1>1, <4>1, <4>2 DEF Placed, Conversation
    <3>2. QED BY <3>1 DEF Numbered
  <2>2. Covered'
    <3>1. \A i \in 1..k : Conversation[i] \in DOMAIN thread'.checkpoints
      BY <1>3, <1>4, <1>7, RevertCovered
    <3>2. QED BY <1>1, <1>4, <3>1 DEF Covered, Conversation
  <2>3. Back'
    BY <1>1 DEF Back, Trimmed
  <2>4. QED BY <1>5, <2>1, <2>2, <2>3 DEF Numbers
<1>9. Trees'
  <2>1. \A n \in Nat : Upto(n)' = Upto(n)
    BY <1>1 DEF Upto, Conversation
  <2>2. tree' = Upto(Len(Conversation))'
    BY <1>1, <1>4, <2>1 DEF Trees, Conversation
  <2>3. ASSUME NEW u \in DOMAIN thread'.checkpoints, thread'.checkpoints[u].captured
        PROVE  (/\ provider.active # u
                /\ refs[CountRef(thread.checkpoints[u].count)]
                   = Upto(thread.checkpoints[u].count))'
    <3>1. /\ u \in DOMAIN thread.checkpoints /\ thread.checkpoints[u].captured
          /\ thread'.checkpoints[u] = thread.checkpoints[u]
      BY <1>7, <2>3
    <3>2. PICK c \in 1..k : c = thread.checkpoints[u].count
      BY <1>7
    <3>3. provider.active # u /\ refs[CountRef(c)] = Upto(c)
      BY <1>2, <3>1, <3>2 DEF Trees
    <3>4. QED BY <1>1, <2>1, <3>1, <3>2, <3>3
  <2>4. CountRef(0) \in DOMAIN refs' => refs'[CountRef(0)] = {}
    BY <1>1 DEF Trees
  <2>5. QED BY <1>1, <2>2, <2>3, <2>4 DEF Trees
<1>10. QED BY <1>5, <1>8, <1>9

\* What has gone wrong stays known.
LEMMA DisturbedGrows ==
  ASSUME Typed, [Next]_vars
  PROVE  disturbed \subseteq disturbed'
<1>1. CASE Aside
  BY <1>1, AsideSteps
<1>2. CASE Takes
  BY <1>2, TakesSteps
<1>3. CASE FailReactor
  BY <1>3 DEF FailReactor
<1>4. CASE CaptureCheckpoint \/ DispatchCheckpoint \/ RestoreTree \/ RollbackConversation
           \/ DeleteStaleRefs \/ CompleteRevert
  BY <1>4 DEF CaptureCheckpoint, DispatchCheckpoint, RestoreTree, RollbackConversation,
     DeleteStaleRefs, CompleteRevert
<1>5. QED BY <1>1, <1>2, <1>3, <1>4 DEF Next, Aside, Takes, Reactor

\* What goes wrong is told.
LEMMA NothingGoesWrong ==
  ASSUME Undisturbed'
  PROVE  ~AbortTurn /\ ~FailReactor
<1>1. "missed" \notin disturbed' /\ "torn" \notin disturbed'
  BY DEF Undisturbed
<1>2. ~AbortTurn
  BY <1>1 DEF AbortTurn
<1>3. ASSUME FailReactor
      PROVE  FALSE
  <2>1. CASE reactor.pc \in {"capture", "dispatch"}
    BY <1>1, <1>3, <2>1 DEF FailReactor
  <2>2. CASE reactor.pc \notin {"capture", "dispatch"}
    BY <1>1, <1>3, <2>2 DEF FailReactor
  <2>3. QED BY <2>1, <2>2
<1>4. QED BY <1>2, <1>3

\* What happens while nothing disturbs it keeps the order.
LEMMA OrderedSteps ==
  Typed /\ Captures /\ Uncaptured /\ Ordered /\ [Next]_vars => Ordered'
<1> SUFFICES ASSUME Typed, Captures, Uncaptured, Ordered, [Next]_vars, Undisturbed'
             PROVE  (Order /\ Numbers /\ Trees)'
  BY DEF Ordered
<1>1. Sound
  BY DisturbedGrows DEF Sound, Ordered, Undisturbed
<1>2. CASE UNCHANGED vars
  <2>1. Order'
    BY <1>1, <1>2 DEF Sound, Order, Fresh, OneTurn, Alone, Asked, Conversation, Placed, Capturing,
       vars, views, inbox
  <2>2. QED BY <1>1, <1>2, <2>1, NumbersSame, TreesSame DEF Sound, vars, views, inbox
<1>3. ~AbortTurn /\ ~FailReactor
  BY NothingGoesWrong
<1>4. CASE \E t \in Turns : SendMessage(t) \/ RequestRevert(t)
  BY <1>1, <1>4, SendMessageOrdered, RequestRevertOrdered
<1>5. CASE Provider
  BY <1>1, <1>3, <1>5, SendTurnOrdered, SendTurnFailsOrdered, EditOrdered, EndTurnOrdered
     DEF Provider
<1>6. CASE Ingestion
  BY <1>1, <1>6, IngestOrdered, CompleteMessageOrdered, DispatchPlaceholderOrdered DEF Ingestion
<1>7. CASE Reactor
  BY <1>1, <1>3, <1>7, MessageOrdered, TurnStartedOrdered, BaselineFails, TurnCompletedOrdered,
     CaptureOrdered, DispatchCheckpointOrdered, RevertRequestedOrdered, RestoreOrdered,
     RollbackOrdered, DeleteOrdered, CompleteRevertOrdered DEF Reactor
<1>8. QED BY <1>2, <1>4, <1>5, <1>6, <1>7 DEF Next

\* The order at the start.
LEMMA OrderedInit == Init => Ordered
<1> SUFFICES ASSUME Init
             PROVE  Order /\ Numbers /\ Trees
  BY DEF Ordered
<1>1. Len(Conversation) = 0 /\ reactor.pc = "idle" /\ runtime = <<>> /\ domain = <<>>
  BY DEF Init, Conversation, AtRest
<1>2. Order
  BY <1>1, CheckpointAssumption DEF Init, Order, Fresh, OneTurn, Alone, Asked, Conversation,
     Capturing, Reverts
<1>3. Numbers
  BY <1>1 DEF Init, Numbers, Follows, Numbered, Covered, Back, Trimmed, Empty, NotIngesting
<1>4. Trees
  BY <1>1 DEF Init, Trees, Upto, Empty
<1>5. QED BY <1>2, <1>3, <1>4

\* The order in every state.
LEMMA OrderedAlways == Spec => [](Typed /\ Captures /\ Uncaptured /\ Ordered)
BY CapturesAlways, OrderedInit, OrderedSteps, PTL DEF Spec

\* When all is done and nothing disturbed it, the provider remembers exactly
\* the turns the thread has checkpoints of (handleRevertRequested: it rolls
\* back as many turns as the revert takes counts).
THEOREM ConversationAgrees == Spec => []ConversationKept
<1>1. Typed /\ Ordered => ConversationKept
  <2> SUFFICES ASSUME Typed, Ordered, Settled, Undisturbed
               PROVE  ToSet(provider.conversation) = DOMAIN thread.checkpoints
    BY DEF ConversationKept, Undisturbed
  <2>1. /\ provider.active = NoTurn /\ runtime = <<>> /\ reactor.pc = "idle"
        /\ ~Capturing /\ ~Trimmed
    BY DEF Settled, CaughtUp, AtRest, Capturing, Trimmed
  <2>2. ToSet(Conversation) = {Conversation[i] : i \in 1..Len(Conversation)}
    BY Turned DEF ToSet
  <2>3. \A i \in 1..Len(Conversation) : Conversation[i] \in DOMAIN thread.checkpoints
    BY <2>1, AllCovered DEF Ordered, Numbers
  <2>4. \A t \in DOMAIN thread.checkpoints :
          \E i \in 1..Len(Conversation) : Conversation[i] = t
    BY <2>1, InPlace DEF Ordered, Numbers, Placed
  <2>5. QED BY <2>2, <2>3, <2>4 DEF Conversation
<1>2. QED BY <1>1, OrderedAlways, PTL

\* Then the working tree has the edits of the turns the provider remembers and
\* no others, whichever count was reverted to (CheckpointStore.ts,
\* restoreCheckpoint, with the ref handleRevertRequested picks).
THEOREM TreeAgrees == Spec => []TreeKept
<1>1. Typed /\ Ordered => TreeKept
  <2> SUFFICES ASSUME Typed, Ordered, Settled, Undisturbed
               PROVE  tree = provider.edited \cap ToSet(provider.conversation)
    BY DEF TreeKept, Undisturbed
  <2>1. reactor.pc = "idle"
    BY DEF Settled, CaughtUp, AtRest
  <2>2. tree = {t \in provider.edited : \E i \in 1..Len(Conversation) : Conversation[i] = t}
    BY <2>1, Turned DEF Ordered, Trees, Upto
  <2>3. ToSet(Conversation) = {Conversation[i] : i \in 1..Len(Conversation)}
    BY Turned DEF ToSet
  <2>4. QED BY <2>2, <2>3 DEF Conversation
<1>2. QED BY <1>1, OrderedAlways, PTL

-----------------------------------------------------------------------------
(* What a revert keeps of the messages                                     *)

\* A user's message, and the assistant's answer to it.
Messages ==
  {Message("user", t, NoTurn) : t \in Turns} \cup {Message("assistant", t, t) : t \in Turns}

\* The users' messages among the first n but those of D, and how many they are.
UsersTo(D, s, n) == {i \in 1..n : s[i].role = "user" /\ s[i].of \notin D}

Rank(D, s, n) == Cardinality(UsersTo(D, s, n))

Distinct(s) == \A i, j \in 1..Len(s) : s[i] = s[j] => i = j

\* Each message of r is one of S in s, later ones later.
Embeds(g, r, s, k, S) ==
  /\ g \in [1..Len(r) -> 1..k]
  /\ \A i, j \in 1..Len(r) : i < j => g[i] < g[j]
  /\ \A i \in 1..Len(r) : r[i] = s[g[i]] /\ r[i] \in S

\* They are finitely many.
LEMMA RankType ==
  ASSUME NEW D, NEW s, NEW n \in Nat
  PROVE  IsFiniteSet(UsersTo(D, s, n)) /\ Rank(D, s, n) \in Nat
<1>1. IsFiniteSet(1..n)
  BY FS_Interval
<1>2. UsersTo(D, s, n) \in SUBSET (1..n)
  BY DEF UsersTo
<1>3. QED BY <1>1, <1>2, FS_Subset, FS_CardinalityType DEF Rank

\* One message more.
LEMMA RankStep ==
  ASSUME NEW D, NEW s, NEW n \in Nat
  PROVE  Rank(D, s, n + 1) = IF s[n + 1].role = "user" /\ s[n + 1].of \notin D
                             THEN Rank(D, s, n) + 1 ELSE Rank(D, s, n)
<1>1. CASE s[n + 1].role = "user" /\ s[n + 1].of \notin D
  <2>1. UsersTo(D, s, n + 1) = UsersTo(D, s, n) \cup {n + 1} /\ n + 1 \notin UsersTo(D, s, n)
    BY <1>1 DEF UsersTo
  <2>2. QED BY <1>1, <2>1, RankType, FS_AddElement DEF Rank
<1>2. CASE ~(s[n + 1].role = "user" /\ s[n + 1].of \notin D)
  <2>1. UsersTo(D, s, n + 1) = UsersTo(D, s, n)
    BY <1>2 DEF UsersTo
  <2>2. QED BY <1>2, <2>1 DEF Rank
<1>3. QED BY <1>1, <1>2

\* More messages have no fewer of users.
LEMMA RankGrows ==
  ASSUME NEW D, NEW s, NEW m \in Nat, NEW n \in Nat, m <= n
  PROVE  Rank(D, s, m) <= Rank(D, s, n)
<1>1. UsersTo(D, s, m) \in SUBSET UsersTo(D, s, n)
  BY DEF UsersTo
<1>2. QED BY <1>1, RankType, FS_Subset DEF Rank

\* The first messages decide.
LEMMA RankSame ==
  ASSUME NEW D, NEW r, NEW s, NEW n \in Nat, \A i \in 1..n : r[i] = s[i]
  PROVE  Rank(D, r, n) = Rank(D, s, n)
<1>1. UsersTo(D, r, n) = UsersTo(D, s, n)
  BY DEF UsersTo
<1>2. QED BY <1>1 DEF Rank

\* Messages that are not left out do not add to it less.
LEMMA RankBut ==
  ASSUME NEW D, NEW E, NEW s, NEW n \in Nat,
         \A i \in 1..n : s[i].role = "user" /\ s[i].of \in E => s[i].of \in D
  PROVE  Rank(D, s, n) <= Rank(E, s, n)
<1>1. UsersTo(D, s, n) \in SUBSET UsersTo(E, s, n)
  BY DEF UsersTo
<1>2. QED BY <1>1, RankType, FS_Subset DEF Rank

\* A user's message that is left out is one less.
LEMMA RankLess ==
  ASSUME NEW D, NEW s, NEW n \in Nat, NEW k \in 1..n, s[k].role = "user", s[k].of \notin D
  PROVE  Rank(D \cup {s[k].of}, s, n) + 1 <= Rank(D, s, n)
<1> DEFINE A == UsersTo(D \cup {s[k].of}, s, n)
           B == UsersTo(D, s, n)
<1>1. A \cup {k} \in SUBSET B /\ k \notin A
  BY DEF UsersTo
<1>2. IsFiniteSet(A) /\ IsFiniteSet(B)
  BY RankType
<1> HIDE DEF A, B
<1>3. Cardinality(A \cup {k}) = Cardinality(A) + 1
  BY <1>1, <1>2, FS_AddElement
<1>4. Cardinality(A \cup {k}) <= Cardinality(B)
  BY <1>1, <1>2, FS_Subset
<1>5. QED BY <1>3, <1>4 DEF Rank, A, B

\* Users' messages of rank n at most are n at most.
LEMMA RankBounds ==
  ASSUME NEW D, NEW s, NEW k \in Nat, NEW n \in Nat, NEW T, T \subseteq UsersTo(D, s, k),
         \A i \in T : Rank(D, s, i) <= n
  PROVE  IsFiniteSet(T) /\ Cardinality(T) \in Nat /\ Cardinality(T) <= n
<1>1. IsFiniteSet(T) /\ Cardinality(T) \in Nat
  BY RankType, FS_Subset, FS_CardinalityType
<1>2. CASE T = {}
  BY <1>1, <1>2, FS_EmptySet
<1>3. CASE T # {}
  <2>1. T \subseteq Nat
    BY DEF UsersTo
  <2>2. PICK x \in T : \A y \in T : x >= y
    BY <1>1, <1>3, <2>1, GreatestExists
  <2>3. x \in Nat /\ T \in SUBSET UsersTo(D, s, x)
    BY <2>1, <2>2 DEF UsersTo
  <2>4. Cardinality(T) <= Rank(D, s, x)
    BY <2>3, RankType, FS_Subset DEF Rank
  <2>5. Rank(D, s, x) <= n /\ Rank(D, s, x) \in Nat
    BY <2>2, <2>3, RankType
  <2>6. QED BY <1>1, <2>4, <2>5
<1>4. QED BY <1>2, <1>3

\* f is the function that the recursion in Selected defines.
SelectedTo(f, s, S, n) ==
  f = [i \in 0..n |->
        IF i = 0 THEN <<>>
        ELSE IF s[i] \in S THEN Append(f[i - 1], s[i]) ELSE f[i - 1]]

\* A set with 0 and each next number has all numbers.
LEMMA CountedUp ==
  ASSUME NEW Q, 0 \in Q, \A n \in Nat : n \in Q => n + 1 \in Q
  PROVE  Nat \subseteq Q
<1> SUFFICES ASSUME NEW k \in Nat, k \notin Q
             PROVE  FALSE
  OBVIOUS
<1> DEFINE T == {i \in 0..k : \A j \in 0..i : j \in Q}
<1>1. T \subseteq Nat /\ 0 \in T
  OBVIOUS
<1>2. IsFiniteSet(T)
  <2>1. IsFiniteSet(0..k) /\ T \in SUBSET (0..k)
    BY FS_Interval
  <2>2. QED BY <2>1, FS_Subset
<1>3. PICK x \in T : \A y \in T : x >= y
  <2> HIDE DEF T
  <2>1. QED BY <1>1, <1>2, GreatestExists
<1>4. x \in 0..k /\ x # k /\ x \in Q
  BY <1>3
<1>5. x + 1 \in T
  BY <1>3, <1>4
<1>6. QED BY <1>3, <1>4, <1>5

\* There is a function with that equation, and Selected is its last value.
LEMMA SelectedDef ==
  ASSUME NEW s, NEW S, Len(s) \in Nat
  PROVE  \E f : SelectedTo(f, s, S, Len(s)) /\ Selected(s, S) = f[Len(s)]
<1> DEFINE Q == {k \in Nat : \E f : SelectedTo(f, s, S, k)}
<1>1. 0 \in Q
  <2>1. SelectedTo([i \in 0..0 |-> <<>>], s, S, 0)
    BY DEF SelectedTo
  <2>2. QED BY <2>1
<1>2. ASSUME NEW k \in Nat, k \in Q
      PROVE  k + 1 \in Q
  <2>1. PICK f : SelectedTo(f, s, S, k)
    BY <1>2
  <2> DEFINE last == IF s[k + 1] \in S THEN Append(f[k], s[k + 1]) ELSE f[k]
             g == [i \in 0..(k + 1) |-> IF i = k + 1 THEN last ELSE f[i]]
  <2>2. ASSUME NEW i \in 0..(k + 1)
        PROVE  g[i] = IF i = 0 THEN <<>>
                      ELSE IF s[i] \in S THEN Append(g[i - 1], s[i]) ELSE g[i - 1]
    <3> HIDE DEF last
    <3>1. CASE i = k + 1
      <4>1. i # 0 /\ i - 1 = k /\ g[i - 1] = f[k] /\ g[i] = last
        BY <3>1
      <4>2. QED BY <4>1, <3>1 DEF last
    <3>2. CASE i # k + 1
      <4>1. i \in 0..k /\ g[i] = f[i]
        BY <3>2
      <4>2. i # 0 => i - 1 \in 0..(k + 1) /\ i - 1 # k + 1
        BY <3>2
      <4>3. i # 0 => g[i - 1] = f[i - 1]
        BY <4>2
      <4>4. f[i] = IF i = 0 THEN <<>>
                   ELSE IF s[i] \in S THEN Append(f[i - 1], s[i]) ELSE f[i - 1]
        BY <2>1, <4>1 DEF SelectedTo
      <4>5. QED BY <4>1, <4>3, <4>4
    <3>3. QED BY <3>1, <3>2
  <2>3. SelectedTo(g, s, S, k + 1)
    BY <2>2 DEF SelectedTo
  <2>4. QED BY <2>3
<1>3. Nat \subseteq Q
  <2> HIDE DEF Q
  <2>1. QED BY <1>1, <1>2, CountedUp
<1>4. PICK f : SelectedTo(f, s, S, Len(s))
  BY <1>3
<1>5. QED BY <1>4 DEF SelectedTo, Selected

\* What is selected are members of S, in their order.
LEMMA SelectedEmbeds ==
  ASSUME NEW T, NEW s \in Seq(T), NEW S
  PROVE  /\ Selected(s, S) \in Seq(T)
         /\ \E g : Embeds(g, Selected(s, S), s, Len(s), S)
<1>1. Len(s) \in Nat /\ \A i \in 1..Len(s) : s[i] \in T
  BY LenProperties
<1>2. PICK f : SelectedTo(f, s, S, Len(s)) /\ Selected(s, S) = f[Len(s)]
  BY <1>1, SelectedDef
<1> DEFINE Good(k) == f[k] \in Seq(T) /\ \E g : Embeds(g, f[k], s, k, S)
           Q == {k \in Nat : k <= Len(s) => Good(k)}
<1>3. 0 \in Q
  <2>1. f[0] = <<>>
    BY <1>1, <1>2 DEF SelectedTo
  <2>2. <<>> \in Seq(T) /\ Len(<<>>) = 0
    OBVIOUS
  <2>3. Embeds([i \in 1..0 |-> 0], <<>>, s, 0, S)
    BY <2>2 DEF Embeds
  <2>4. QED BY <2>1, <2>2, <2>3
<1>4. ASSUME NEW k \in Nat, k \in Q
      PROVE  k + 1 \in Q
  <2> SUFFICES ASSUME k + 1 <= Len(s)
               PROVE  Good(k + 1)
    OBVIOUS
  <2>1. f[k] \in Seq(T) /\ \E g : Embeds(g, f[k], s, k, S)
    BY <1>1, <1>4
  <2>2. PICK r \in Seq(T) : r = f[k]
    BY <2>1
  <2>3. PICK g : Embeds(g, r, s, k, S)
    BY <2>1, <2>2
  <2>4. Len(r) \in Nat
    BY LenProperties
  <2>5. /\ g \in [1..Len(r) -> 1..k]
        /\ \A i, j \in 1..Len(r) : i < j => g[i] < g[j]
        /\ \A i \in 1..Len(r) : r[i] = s[g[i]] /\ r[i] \in S
    BY <2>3 DEF Embeds
  <2>6. f[k + 1] = IF s[k + 1] \in S THEN Append(r, s[k + 1]) ELSE r
    <3>1. PICK i \in 0..Len(s) : i = k + 1
      BY <1>1
    <3>2. i # 0 /\ i - 1 = k
      BY <3>1
    <3>3. f[i] = IF s[i] \in S THEN Append(f[i - 1], s[i]) ELSE f[i - 1]
      BY <1>2, <3>2 DEF SelectedTo
    <3>4. QED BY <2>2, <3>1, <3>2, <3>3
  <2>7. CASE s[k + 1] \notin S
    <3>1. g \in [1..Len(r) -> 1..(k + 1)]
      BY <2>5
    <3>2. Embeds(g, r, s, k + 1, S)
      BY <2>5, <3>1 DEF Embeds
    <3>3. QED BY <2>2, <2>6, <2>7, <3>2
  <2>8. CASE s[k + 1] \in S
    <3> DEFINE q == Append(r, s[k + 1])
               h == [i \in 1..(Len(r) + 1) |-> IF i = Len(r) + 1 THEN k + 1 ELSE g[i]]
    <3>1. s[k + 1] \in T
      BY <1>1
    <3>2. /\ q \in Seq(T) /\ Len(q) = Len(r) + 1 /\ q[Len(r) + 1] = s[k + 1]
          /\ \A i \in 1..Len(r) : q[i] = r[i]
      BY <2>4, <3>1, AppendProperties
    <3>3. h \in [1..Len(q) -> 1..(k + 1)]
      BY <2>4, <2>5, <3>2
    <3>4. ASSUME NEW i \in 1..Len(q)
          PROVE  q[i] = s[h[i]] /\ q[i] \in S
      <4>1. CASE i = Len(r) + 1
        BY <2>8, <3>2, <4>1
      <4>2. CASE i # Len(r) + 1
        <5>1. i \in 1..Len(r) /\ h[i] = g[i]
          BY <2>4, <3>2, <4>2
        <5>2. QED BY <2>5, <3>2, <5>1
      <4>3. QED BY <4>1, <4>2
    <3>5. ASSUME NEW i \in 1..Len(q), NEW j \in 1..Len(q), i < j
          PROVE  h[i] < h[j]
      <4>1. i \in 1..Len(r) /\ h[i] = g[i] /\ g[i] \in 1..k
        BY <2>4, <2>5, <3>2, <3>5
      <4>2. CASE j = Len(r) + 1
        <5>1. h[j] = k + 1
          BY <2>4, <4>2
        <5>2. QED BY <4>1, <5>1
      <4>3. CASE j # Len(r) + 1
        <5>1. j \in 1..Len(r) /\ h[j] = g[j]
          BY <2>4, <3>2, <4>3
        <5>2. QED BY <2>5, <3>5, <4>1, <5>1
      <4>4. QED BY <4>2, <4>3
    <3> HIDE DEF q, h
    <3>6. Embeds(h, q, s, k + 1, S)
      BY <3>3, <3>4, <3>5 DEF Embeds
    <3>7. QED BY <2>6, <2>8, <3>2, <3>6 DEF q
  <2>9. QED BY <2>7, <2>8
<1>5. Nat \subseteq Q
  <2> HIDE DEF Q
  <2>1. QED BY <1>3, <1>4, CountedUp
<1>6. QED BY <1>1, <1>2, <1>5

\* Then each message occurs once, as before, and none ranks higher.
LEMMA EmbeddedRank ==
  ASSUME NEW D, NEW T, NEW r \in Seq(T), NEW s \in Seq(T), NEW S, NEW g,
         Embeds(g, r, s, Len(s), S), Distinct(s)
  PROVE  /\ Distinct(r)
         /\ \A i \in 1..Len(r) : g[i] \in 1..Len(s) /\ Rank(D, r, i) <= Rank(D, s, g[i])
<1>1. Len(r) \in Nat /\ Len(s) \in Nat
  BY LenProperties
<1>2. /\ g \in [1..Len(r) -> 1..Len(s)]
      /\ \A i, j \in 1..Len(r) : i < j => g[i] < g[j]
      /\ \A i \in 1..Len(r) : r[i] = s[g[i]]
  BY DEF Embeds
<1>3. \A i, j \in 1..Len(r) : g[i] = g[j] => i = j
  BY <1>1, <1>2
<1>4. Distinct(r)
  BY <1>2, <1>3 DEF Distinct
<1>5. ASSUME NEW i \in 1..Len(r)
      PROVE  Rank(D, r, i) <= Rank(D, s, g[i])
  <2> DEFINE A == UsersTo(D, r, i)
             B == UsersTo(D, s, g[i])
             h == [x \in A |-> g[x]]
  <2>1. \A x \in A : x \in 1..Len(r) /\ r[x].role = "user" /\ r[x].of \notin D /\ x <= i
    BY <1>1 DEF UsersTo
  <2>2. ASSUME NEW x \in A
        PROVE  g[x] \in B
    <3>1. x \in 1..Len(r) /\ r[x].role = "user" /\ r[x].of \notin D /\ x <= i
      BY <2>1
    <3> HIDE DEF A
    <3>2. /\ g[x] \in 1..Len(s) /\ s[g[x]].role = "user" /\ s[g[x]].of \notin D
          /\ g[i] \in 1..Len(s)
          /\ x < i => g[x] < g[i]
      BY <1>2, <3>1
    <3>3. g[x] <= g[i]
      BY <1>1, <3>1, <3>2
    <3>4. QED BY <1>1, <3>1, <3>2, <3>3 DEF UsersTo
  <2>3. h \in Injection(A, B)
    <3> HIDE DEF A, B
    <3>1. h \in [A -> B]
      BY <2>2
    <3>2. \A x, y \in A : h[x] = h[y] => x = y
      BY <1>3, <2>1
    <3>3. QED BY <3>1, <3>2 DEF Injection, IsInjective
  <2>4. IsFiniteSet(B)
    BY <1>1, <1>2, RankType
  <2>5. QED BY <2>3, <2>4, FS_Injection DEF Rank
<1>6. QED BY <1>2, <1>4, <1>5

\* The sets that RetainMessages forms.
KnownIn(m, kept, prompts) == m.turn \in kept \/ (m.role = "user" /\ m.of \in prompts)

FreeIn(m, kept, prompts) == ~KnownIn(m, kept, prompts) /\ m.turn = NoTurn

KnownOf(s, role, kept, prompts) ==
  {i \in DOMAIN s : s[i].role = role /\ KnownIn(s[i], kept, prompts)}

OlderThan(s, m, kept, prompts) ==
  {i \in DOMAIN s : s[i].role = m.role /\ FreeIn(s[i], kept, prompts)
                    /\ \A j \in 1..i : s[j] # m}

Retained(s, kept, prompts, n) ==
  {m \in ToSet(s) :
     \/ KnownIn(m, kept, prompts)
     \/ /\ FreeIn(m, kept, prompts)
        /\ Cardinality(KnownOf(s, m.role, kept, prompts))
             + Cardinality(OlderThan(s, m, kept, prompts)) < n}

LEMMA RetainedDef ==
  ASSUME NEW s, NEW kept, NEW prompts, NEW n
  PROVE  RetainMessages(s, kept, prompts, n) = Selected(s, Retained(s, kept, prompts, n))
BY DEF RetainMessages, Retained, KnownIn, FreeIn, KnownOf, OlderThan

\* What a message can be.
LEMMA MessageParts ==
  ASSUME NEW m \in Messages
  PROVE  /\ m.of \in Turns /\ m.of # NoTurn
         /\ m.role = "user" => m.turn = NoTurn /\ m = Message("user", m.of, NoTurn)
         /\ m.role # "user" => m.turn \in Turns /\ m.turn # NoTurn
<1>1. PICK t \in Turns : m = Message("user", t, NoTurn) \/ m = Message("assistant", t, t)
  BY DEF Messages
<1>2. QED BY <1>1, CheckpointAssumption DEF Message

\* An assistant's message is kept with its turn.
LEMMA AnswerRetained ==
  ASSUME NEW s \in Seq(Messages), NEW kept \in SUBSET Turns, NEW prompts, NEW n,
         NEW p \in 1..Len(s), s[p].role # "user"
  PROVE  s[p] \in Retained(s, kept, prompts, n) <=> s[p].turn \in kept
<1>1. s[p] \in Messages /\ s[p] \in ToSet(s)
  BY LenProperties DEF ToSet
<1>2. PICK m \in Messages : m = s[p]
  BY <1>1
<1>3. m.turn # NoTurn
  BY <1>2, MessageParts
<1>4. KnownIn(m, kept, prompts) <=> m.turn \in kept
  BY <1>2 DEF KnownIn
<1>5. ~FreeIn(m, kept, prompts)
  BY <1>3 DEF FreeIn
<1>6. QED BY <1>1, <1>2, <1>4, <1>5 DEF Retained

\* A user's message is kept when it is one of the first n, provided that the
\* prompts that are known are.
LEMMA PromptRetained ==
  ASSUME NEW s \in Seq(Messages), Distinct(s), NEW kept \in SUBSET Turns, NEW prompts,
         NEW n \in Nat,
         \A i \in 1..Len(s) : s[i].role = "user" /\ s[i].of \in prompts => Rank({}, s, i) <= n,
         NEW p \in 1..Len(s), s[p].role = "user"
  PROVE  s[p] \in Retained(s, kept, prompts, n) <=> Rank({}, s, p) <= n
<1>1. /\ Len(s) \in Nat /\ DOMAIN s = 1..Len(s) /\ \A i \in 1..Len(s) : s[i] \in Messages
      /\ s[p] \in ToSet(s) /\ p \in Nat /\ p - 1 \in Nat
  BY LenProperties DEF ToSet
<1>2. ASSUME NEW i \in 1..Len(s), s[i].role = "user"
      PROVE  /\ KnownIn(s[i], kept, prompts) <=> s[i].of \in prompts
             /\ FreeIn(s[i], kept, prompts) <=> s[i].of \notin prompts
  <2>1. s[i].turn = NoTurn /\ NoTurn \notin kept
    BY <1>1, <1>2, MessageParts, CheckpointAssumption
  <2>2. QED BY <1>2, <2>1 DEF KnownIn, FreeIn
<1> DEFINE U == UsersTo({}, s, p - 1)
           F == {i \in U : s[i].of \notin prompts}
           B == {i \in U : s[i].of \in prompts}
           K == {i \in UsersTo({}, s, Len(s)) : s[i].of \in prompts}
<1>3. KnownOf(s, s[p].role, kept, prompts) = K
  BY <1>1, <1>2 DEF KnownOf, UsersTo
<1>4. OlderThan(s, s[p], kept, prompts) = F
  <2>1. ASSUME NEW i \in 1..Len(s)
        PROVE  (\A j \in 1..i : s[j] # s[p]) <=> i \in 1..(p - 1)
    <3>1. CASE i \in 1..(p - 1)
      <4>1. \A j \in 1..i : j \in 1..Len(s) /\ j # p
        BY <1>1, <3>1
      <4>2. QED BY <3>1, <4>1 DEF Distinct
    <3>2. CASE i \notin 1..(p - 1)
      <4>1. p \in 1..i
        BY <1>1, <3>2
      <4>2. QED BY <3>2, <4>1
    <3>3. QED BY <3>1, <3>2
  <2>2. ASSUME NEW i \in 1..Len(s)
        PROVE  i \in OlderThan(s, s[p], kept, prompts) <=> i \in F
    <3>1. i \in OlderThan(s, s[p], kept, prompts) <=>
            s[i].role = "user" /\ FreeIn(s[i], kept, prompts) /\ i \in 1..(p - 1)
      BY <1>1, <2>1 DEF OlderThan
    <3>2. i \in F <=> i \in 1..(p - 1) /\ s[i].role = "user" /\ s[i].of \notin prompts
      BY DEF UsersTo
    <3>3. QED BY <1>2, <3>1, <3>2
  <2>3. OlderThan(s, s[p], kept, prompts) \subseteq 1..Len(s) /\ F \subseteq 1..Len(s)
    BY <1>1 DEF OlderThan, UsersTo
  <2>4. QED BY <2>2, <2>3
<1>5. s[p] \in Retained(s, kept, prompts, n) <=>
        s[p].of \in prompts \/ Cardinality(K) + Cardinality(F) < n
  <2> HIDE DEF K, F
  <2>1. QED BY <1>1, <1>2, <1>3, <1>4 DEF Retained
<1>6. /\ IsFiniteSet(U) /\ IsFiniteSet(F) /\ IsFiniteSet(B) /\ IsFiniteSet(K)
      /\ Cardinality(F) \in Nat /\ Cardinality(B) \in Nat /\ Cardinality(K) \in Nat
      /\ Cardinality(B) <= Cardinality(K)
  <2>1. IsFiniteSet(U) /\ F \in SUBSET U /\ B \in SUBSET U
    BY <1>1, RankType
  <2>2. IsFiniteSet(UsersTo({}, s, Len(s))) /\ K \in SUBSET UsersTo({}, s, Len(s))
    BY <1>1, RankType
  <2>3. B \in SUBSET K
    BY <1>1 DEF UsersTo
  <2> HIDE DEF U, F, B, K
  <2>4. IsFiniteSet(F) /\ IsFiniteSet(B) /\ IsFiniteSet(K)
    BY <2>1, <2>2, FS_Subset
  <2>5. QED BY <2>1, <2>3, <2>4, FS_Subset, FS_CardinalityType
<1>7. Rank({}, s, p) = Cardinality(F) + Cardinality(B) + 1
  <2>1. Rank({}, s, p) = Rank({}, s, p - 1) + 1
    <3>1. PICK q \in Nat : q = p - 1
      BY <1>1
    <3>2. p = q + 1
      BY <1>1, <3>1
    <3>3. QED BY <3>1, <3>2, RankStep
  <2>2. U = F \cup B /\ F \cap B = {}
    OBVIOUS
  <2>3. Cardinality(U) = Cardinality(F) + Cardinality(B)
    <3> HIDE DEF U, F, B
    <3>1. Cardinality(F \cap B) = 0
      BY <2>2, FS_EmptySet
    <3>2. Cardinality(F \cup B) = Cardinality(F) + Cardinality(B) - Cardinality(F \cap B)
      BY <1>6, FS_Union
    <3>3. QED BY <1>6, <2>2, <3>1, <3>2
  <2>4. QED BY <2>1, <2>3 DEF Rank
<1>8. CASE s[p].of \in prompts
  BY <1>5, <1>8
<1>9. CASE s[p].of \notin prompts
  <2>1. ASSUME Cardinality(K) + Cardinality(F) < n
        PROVE  Rank({}, s, p) <= n
    <3> HIDE DEF K, F, B
    <3>1. QED BY <1>6, <1>7, <2>1
  <2>2. ASSUME Rank({}, s, p) <= n
        PROVE  Cardinality(K) + Cardinality(F) < n
    <3> DEFINE L == (K \cup F) \cup {p}
    <3>1. L \subseteq UsersTo({}, s, Len(s)) /\ K \cap F = {} /\ p \notin K \cup F
      BY <1>1, <1>9 DEF UsersTo
    <3>2. ASSUME NEW i \in L
          PROVE  Rank({}, s, i) <= n
      <4>1. CASE i \in K
        BY <4>1 DEF UsersTo
      <4>2. CASE i \in F
        <5>1. i \in Nat /\ i <= p
          BY <1>1, <4>2 DEF UsersTo
        <5>2. Rank({}, s, i) <= Rank({}, s, p)
          BY <1>1, <5>1, RankGrows
        <5>3. Rank({}, s, i) \in Nat /\ Rank({}, s, p) \in Nat
          BY <1>1, <5>1, RankType
        <5>4. QED BY <2>2, <5>2, <5>3
      <4>3. CASE i = p
        BY <2>2, <4>3
      <4>4. QED BY <3>2, <4>1, <4>2, <4>3
    <3> HIDE DEF K, F
    <3>3. Cardinality(L) <= n
      <4> HIDE DEF L
      <4>1. QED BY <1>1, <3>1, <3>2, RankBounds
    <3>4. IsFiniteSet(K \cup F) /\ Cardinality(K \cup F) = Cardinality(K) + Cardinality(F)
      <4>1. Cardinality(K \cap F) = 0
        BY <3>1, FS_EmptySet
      <4>2. /\ IsFiniteSet(K \cup F)
            /\ Cardinality(K \cup F) = Cardinality(K) + Cardinality(F) - Cardinality(K \cap F)
        BY <1>6, FS_Union
      <4>3. QED BY <1>6, <4>1, <4>2
    <3>5. Cardinality(L) = Cardinality(K) + Cardinality(F) + 1
      BY <3>1, <3>4, FS_AddElement
    <3>6. QED BY <1>6, <3>3, <3>5
  <2>3. QED BY <1>5, <1>9, <2>1, <2>2
<1>10. QED BY <1>8, <1>9

\* The prompts of the turns that are kept are among the first n.
PromptsFirst(s, kept, n) ==
  \A i \in 1..Len(s) : s[i].role = "user" /\ s[i].of \in kept => Rank({}, s, i) <= n

\* r are messages of s, no later than they were whether those of D count or
\* not, with n users' at most.
Shorter(D, r, s, n) ==
  /\ r \in Seq(Messages) /\ Distinct(r) /\ Rank({}, r, Len(r)) <= n
  /\ \A i \in 1..Len(r) : \E j \in 1..Len(s) :
       r[i] = s[j] /\ Rank(D, r, i) <= Rank(D, s, j)

\* So a view that knows the prompts keeps the same messages as one that does
\* not, which are n of the users' at most.
LEMMA RetainSame ==
  ASSUME NEW s \in Seq(Messages), Distinct(s), NEW kept \in SUBSET Turns, NEW n \in Nat,
         NEW prompts, prompts \subseteq kept \cup {NoTurn}, PromptsFirst(s, kept, n),
         NEW r, r = RetainMessages(s, kept, {}, n), NEW D
  PROVE  RetainMessages(s, kept, prompts, n) = r /\ Shorter(D, r, s, n)
<1> DEFINE A == Retained(s, kept, {}, n)
           B == Retained(s, kept, prompts, n)
<1>1. Len(s) \in Nat /\ \A i \in 1..Len(s) : s[i] \in Messages
  BY LenProperties
<1>2. \A i \in 1..Len(s) : s[i].role = "user" /\ s[i].of \in prompts => Rank({}, s, i) <= n
  BY <1>1, MessageParts DEF PromptsFirst
<1>3. ASSUME NEW p \in 1..Len(s)
      PROVE  /\ s[p] \in A <=> s[p] \in B
             /\ s[p] \in A /\ s[p].role = "user" => Rank({}, s, p) <= n
  <2> HIDE DEF A, B
  <2>1. CASE s[p].role = "user"
    <3>1. s[p] \in A <=> Rank({}, s, p) <= n
      BY <2>1, PromptRetained DEF A
    <3>2. s[p] \in B <=> Rank({}, s, p) <= n
      BY <1>2, <2>1, PromptRetained DEF B
    <3>3. QED BY <3>1, <3>2
  <2>2. CASE s[p].role # "user"
    <3>1. s[p] \in A <=> s[p].turn \in kept
      BY <2>2, AnswerRetained DEF A
    <3>2. s[p] \in B <=> s[p].turn \in kept
      BY <2>2, AnswerRetained DEF B
    <3>3. QED BY <2>2, <3>1, <3>2
  <2>3. QED BY <2>1, <2>2
<1>4. A = B
  <2>1. A \subseteq ToSet(s) /\ B \subseteq ToSet(s)
    BY DEF Retained
  <2>2. \A m \in ToSet(s) : \E p \in 1..Len(s) : m = s[p]
    BY LenProperties DEF ToSet
  <2> HIDE DEF A, B
  <2>3. \A m \in ToSet(s) : m \in A <=> m \in B
    BY <1>3, <2>2
  <2>4. QED BY <2>1, <2>3
<1>5. r = Selected(s, A) /\ RetainMessages(s, kept, prompts, n) = Selected(s, B)
  BY RetainedDef
<1> HIDE DEF A, B
<1>6. r \in Seq(Messages) /\ \E g : Embeds(g, r, s, Len(s), A)
  BY <1>5, SelectedEmbeds
<1>7. PICK g : Embeds(g, r, s, Len(s), A)
  BY <1>6
<1>8. /\ Distinct(r)
      /\ \A i \in 1..Len(r) : /\ g[i] \in 1..Len(s) /\ Rank({}, r, i) <= Rank({}, s, g[i])
                              /\ Rank(D, r, i) <= Rank(D, s, g[i])
  BY <1>6, <1>7, EmbeddedRank
<1>9. \A i \in 1..Len(r) : r[i] = s[g[i]] /\ r[i] \in A
  BY <1>7 DEF Embeds
<1>10. Rank({}, r, Len(r)) <= n
  <2>1. Len(r) \in Nat
    BY <1>6, LenProperties
  <2>2. ASSUME NEW i \in UsersTo({}, r, Len(r))
        PROVE  Rank({}, r, i) <= n
    <3>1. i \in 1..Len(r) /\ r[i].role = "user"
      BY DEF UsersTo
    <3>2. PICK j \in 1..Len(s) :
            j = g[i] /\ r[i] = s[j] /\ Rank({}, r, i) <= Rank({}, s, j) /\ s[j] \in A
      BY <1>8, <1>9, <3>1
    <3>3. Rank({}, s, j) <= n
      BY <1>3, <3>1, <3>2
    <3>4. Rank({}, r, i) \in Nat /\ Rank({}, s, j) \in Nat
      BY <1>1, <2>1, <3>1, RankType
    <3>5. QED BY <3>2, <3>3, <3>4
  <2>3. QED BY <2>1, <2>2, RankBounds DEF Rank
<1>11. QED BY <1>4, <1>5, <1>6, <1>8, <1>9, <1>10 DEF Shorter

-----------------------------------------------------------------------------
(* What both views show                                                    *)

\* The rows of the table know the counts of the checkpoints, and prompts only
\* of their own turn.
RowsAgree ==
  /\ \A t \in DOMAIN table.turns : table.turns[t].prompt \in {NoTurn, t}
  /\ \A t \in DOMAIN thread.checkpoints :
       t \in DOMAIN table.turns /\ table.turns[t].count = thread.checkpoints[t].count
  /\ \A t \in DOMAIN table.turns : t \notin DOMAIN thread.checkpoints => table.turns[t].count = 0

\* The prompt that waits for its turn is that of the turn that begins.
Begun ==
  /\ \A i \in DOMAIN ingestion : ingestion[i].type = "turn.started" =>
       starting = NoTurn /\ table.pending \in {NoTurn, ingestion[i].turn}
  /\ starting # NoTurn => table.pending \in {NoTurn, starting}

\* A message that is refused has no turn and is not sent again; one that is
\* being sent is shown.
Apart ==
  /\ refused \subseteq Turns /\ refused \cap (budget.messages \cup {starting}) = {}
  /\ \A i \in 1..Len(Conversation) : Conversation[i] \notin refused
  /\ starting # NoTurn => \E i \in 1..Len(thread.messages) :
       thread.messages[i].role = "user" /\ thread.messages[i].of = starting

\* A revert that is asked for or under way keeps no prompt that stands behind a
\* refused message.
Straight ==
  /\ \A i \in DOMAIN domain :
       domain[i].type = "checkpoint-revert-requested" => Astray(domain[i].count) = {}
  /\ reactor.pc \in Reverts => Astray(reactor.count) = {}

\* The turns there are prompts of.
Room == IF starting = NoTurn THEN Len(Conversation) ELSE Len(Conversation) + 1

\* Both views have the same messages, a user's no later than its turn's place
\* when those that were refused do not count; a revert that has cut the
\* conversation has not yet dropped the others.
Sent ==
  /\ table.messages = thread.messages
  /\ thread.messages \in Seq(Messages) /\ Distinct(thread.messages)
  /\ \A i \in 1..Len(thread.messages) :
       /\ thread.messages[i].role = "user" => thread.messages[i].of \notin budget.messages
       /\ \A n \in Nat : thread.messages[i].role = "user" /\ Placed(thread.messages[i].of, n) =>
            Rank(refused, thread.messages, i) <= n
  /\ ~Trimmed => Rank(refused, thread.messages, Len(thread.messages)) <= Room

\* The invariant: while nothing at all disturbs it.
Calm == disturbed = {}

SameShown == Calm => RowsAgree /\ Begun /\ Sent /\ Apart /\ Straight

\* No turn begins for the ingestion that did not before.
NoneBegins ==
  \A i \in DOMAIN ingestion' : ingestion'[i].type = "turn.started" =>
    \E j \in DOMAIN ingestion : ingestion[j] = ingestion'[i]

\* What leaves the counts and prompts, the beginnings, the messages alone.
LEMMA RowsSame ==
  ASSUME RowsAgree, table'.turns = table.turns, thread'.checkpoints = thread.checkpoints
  PROVE  RowsAgree'
BY DEF RowsAgree

LEMMA BegunSame ==
  ASSUME Begun, NoneBegins, starting' = starting, table'.pending \in {NoTurn, table.pending}
  PROVE  Begun'
BY DEF Begun, NoneBegins

LEMMA SentSame ==
  ASSUME Sent, thread'.messages = thread.messages, table'.messages = table.messages,
         budget'.messages = budget.messages, starting' = starting, Conversation' = Conversation,
         refused' = refused, Trimmed => Trimmed'
  PROVE  Sent'
<1>1. Rank(refused, thread.messages, Len(thread.messages))'
        = Rank(refused, thread.messages, Len(thread.messages))
      /\ \A i \in 1..Len(thread.messages) :
           Rank(refused, thread.messages, i)' = Rank(refused, thread.messages, i)
  BY DEF Rank, UsersTo
<1>2. Room' = Room /\ \A t, n : Placed(t, n)' <=> Placed(t, n)
  BY DEF Room, Placed
<1>3. Distinct(thread.messages)'
  BY DEF Sent, Distinct
<1>4. QED BY <1>1, <1>2, <1>3 DEF Sent

\* What is taken from a queue or added to it does not begin a turn.
LEMMA NoneBeginsTail ==
  ASSUME Typed, ingestion # <<>>, ingestion' = Tail(ingestion)
  PROVE  NoneBegins
<1>1. PICK q \in Seq(IngestionEvents) : q = ingestion
  BY DEF Typed, QueuesTyped
<1>2. /\ Tail(q) \in Seq(IngestionEvents) /\ DOMAIN Tail(q) = 1..(Len(q) - 1)
      /\ \A i \in 1..(Len(q) - 1) : Tail(q)[i] = q[i + 1]
  BY <1>1, HeadTailProperties, LenProperties
<1>3. \A i \in 1..(Len(q) - 1) : i + 1 \in DOMAIN q
  BY LenProperties
<1>4. QED BY <1>1, <1>2, <1>3 DEF NoneBegins

LEMMA NoneBeginsAppend ==
  ASSUME Typed, NEW e \in IngestionEvents, e.type # "turn.started",
         ingestion' = Append(ingestion, e)
  PROVE  NoneBegins
<1>1. PICK q \in Seq(IngestionEvents) : q = ingestion
  BY DEF Typed, QueuesTyped
<1>2. /\ DOMAIN Append(q, e) = 1..(Len(q) + 1) /\ Append(q, e)[Len(q) + 1] = e
      /\ \A i \in 1..Len(q) : Append(q, e)[i] = q[i]
      /\ DOMAIN q = 1..Len(q) /\ Len(q) \in Nat
  BY AppendProperties, LenProperties
<1>3. QED BY <1>1, <1>2 DEF NoneBegins

\* Steps that neither show nor begin anything.
Quiet ==
  \/ UNCHANGED vars
  \/ \E t \in Turns : RequestRevert(t)
  \/ Edit \/ IngestDiff
  \/ \E outcome \in {"completed", "failed", "interrupted"} : EndTurn(outcome)
  \/ Takes \/ CaptureCheckpoint \/ RestoreTree \/ DeleteStaleRefs

LEMMA QuietViews ==
  ASSUME Typed, Quiet
  PROVE  /\ thread' = thread /\ table' = table /\ starting' = starting /\ refused' = refused
         /\ Conversation' = Conversation /\ budget'.messages = budget.messages
<1> USE DEF Conversation, Typed, PartsTyped, views
<1>1. CASE UNCHANGED vars
  BY <1>1 DEF vars
<1>2. CASE \E t \in Turns : RequestRevert(t)
  BY <1>2 DEF RequestRevert
<1>3. CASE Edit \/ IngestDiff
  BY <1>3 DEF Edit, IngestDiff, TakeIngestion
<1>4. ASSUME NEW outcome \in {"completed", "failed", "interrupted"}, EndTurn(outcome)
      PROVE  /\ thread' = thread /\ table' = table /\ starting' = starting /\ refused' = refused
             /\ Conversation' = Conversation /\ budget'.messages = budget.messages
  BY <1>4 DEF EndTurn, Fault
<1>5. CASE Takes
  BY <1>5 DEF Takes, ProcessMessageSent, ProcessTurnStartRequested, ProcessTurnStarted,
     ProcessTurnCompleted, ProcessRevertRequested, TakeDomain, TakeRuntime, FailMessageBaseline,
     FailTurnBaseline, Fault
<1>6. CASE CaptureCheckpoint \/ RestoreTree \/ DeleteStaleRefs
  BY <1>6 DEF CaptureCheckpoint, RestoreTree, DeleteStaleRefs
<1>7. QED BY <1>1, <1>2, <1>3, <1>4, <1>5, <1>6 DEF Quiet

LEMMA QuietTrimmed ==
  ASSUME Typed, Quiet, Trimmed
  PROVE  Trimmed'
<1>1. CASE UNCHANGED reactor
  BY <1>1 DEF Trimmed
<1>2. CASE Takes \/ CaptureCheckpoint \/ RestoreTree
  BY <1>2, TakesSteps DEF Trimmed, CaptureCheckpoint, RestoreTree
<1>3. CASE DeleteStaleRefs
  BY <1>3 DEF Trimmed, DeleteStaleRefs, Typed, PartsTyped, ReactorStates
<1>4. QED BY <1>1, <1>2, <1>3 DEF Quiet, vars, RequestRevert, Edit, IngestDiff, TakeIngestion,
          EndTurn

LEMMA QuietBegins ==
  ASSUME Typed, Quiet
  PROVE  NoneBegins
<1>1. CASE UNCHANGED ingestion
  BY <1>1 DEF NoneBegins
<1>2. CASE IngestDiff
  BY <1>2, NoneBeginsTail DEF IngestDiff, TakeIngestion
<1>3. CASE Edit
  <2>1. CASE UNCHANGED ingestion
    BY <1>1, <2>1
  <2>2. CASE ingestion' = Append(ingestion, Runtime("turn.diff.updated", provider.active, "none"))
    <3>1. provider.active \in Turns
      BY <1>3 DEF Edit, Typed, PartsTyped, Holders
    <3>2. PICK e : e = Runtime("turn.diff.updated", provider.active, "none")
      OBVIOUS
    <3>3. e \in IngestionEvents /\ e.type # "turn.started"
      BY <3>1, <3>2 DEF Runtime, IngestionEvents, Events
    <3>4. QED BY <2>2, <3>2, <3>3, NoneBeginsAppend
  <2>3. QED BY <1>3, <2>1, <2>2 DEF Edit
<1>4. ASSUME NEW outcome \in {"completed", "failed", "interrupted"}, EndTurn(outcome)
      PROVE  NoneBegins
  <2>1. provider.active \in Turns
        /\ ingestion' = Append(ingestion, Runtime("turn.completed", provider.active, outcome))
    BY <1>4 DEF EndTurn, Typed, PartsTyped, Holders
  <2>2. PICK e \in IngestionEvents :
          /\ e = Runtime("turn.completed", provider.active, outcome)
          /\ e.type # "turn.started"
    BY <2>1 DEF Runtime, IngestionEvents, Events
  <2>3. QED BY <2>1, <2>2, NoneBeginsAppend
<1>5. CASE Takes
  BY <1>1, <1>5 DEF Takes, ProcessMessageSent, ProcessTurnStartRequested, ProcessTurnStarted,
     ProcessTurnCompleted, ProcessRevertRequested, TakeDomain, TakeRuntime, FailMessageBaseline,
     FailTurnBaseline
<1>6. QED BY <1>1, <1>2, <1>3, <1>4, <1>5 DEF Quiet, vars, RequestRevert, CaptureCheckpoint,
          RestoreTree, DeleteStaleRefs

LEMMA QuietShown ==
  ASSUME Typed, RowsAgree, Begun, Sent, Quiet
  PROVE  (RowsAgree /\ Begun /\ Sent)'
BY QuietViews, QuietTrimmed, QuietBegins, RowsSame, BegunSame, SentSame

\* What is true of messages s with m added.
Longer(D, q, s, m) ==
  /\ q \in Seq(Messages) /\ Distinct(q) /\ Len(q) = Len(s) + 1 /\ q[Len(s) + 1] = m
  /\ \A i \in 1..Len(s) : q[i] = s[i] /\ Rank(D, q, i) = Rank(D, s, i)
  /\ Rank(D, q, Len(q)) = IF m.role = "user" /\ m.of \notin D
                         THEN Rank(D, s, Len(s)) + 1 ELSE Rank(D, s, Len(s))

LEMMA AppendRank ==
  ASSUME NEW D, NEW s \in Seq(Messages), Distinct(s), NEW m \in Messages,
         \A i \in 1..Len(s) : s[i] # m
  PROVE  Longer(D, Append(s, m), s, m)
<1> DEFINE q == Append(s, m)
<1>1. Len(s) \in Nat
  BY LenProperties
<1>2. /\ q \in Seq(Messages) /\ Len(q) = Len(s) + 1 /\ q[Len(s) + 1] = m
      /\ \A i \in 1..Len(s) : q[i] = s[i]
  BY <1>1, AppendProperties
<1> HIDE DEF q
<1>3. Distinct(q)
  BY <1>1, <1>2 DEF Distinct
<1>4. ASSUME NEW i \in 1..Len(s)
      PROVE  Rank(D, q, i) = Rank(D, s, i)
  <2>1. i \in Nat /\ \A j \in 1..i : q[j] = s[j]
    BY <1>1, <1>2
  <2>2. QED BY <2>1, RankSame
<1>5. Rank(D, q, Len(s)) = Rank(D, s, Len(s))
  BY <1>1, <1>2, RankSame
<1>6. Rank(D, q, Len(s) + 1) = IF q[Len(s) + 1].role = "user" /\ q[Len(s) + 1].of \notin D
                               THEN Rank(D, q, Len(s)) + 1 ELSE Rank(D, q, Len(s))
  BY <1>1, RankStep
<1>7. Longer(D, q, s, m)
  BY <1>2, <1>3, <1>4, <1>5, <1>6 DEF Longer
<1>8. QED BY <1>7 DEF q

\* A message is sent when the ranks leave room for it.
LEMMA SendMessageShown ==
  ASSUME Sound, RowsAgree, Begun, Sent, Calm', NEW t \in Turns, SendMessage(t)
  PROVE  (RowsAgree /\ Begun /\ Sent)'
<1>1. CaughtUp /\ \A i \in DOMAIN ingestion : ingestion[i].type # "turn.started"
  <2>1. Hurry(CaughtUp) = {} /\ Ahead = {}
    BY DEF SendMessage, Calm
  <2>2. CaughtUp
    BY <2>1 DEF Hurry
  <2>3. QED BY <2>1, <2>2 DEF Ahead
<1>2. /\ starting = NoTurn /\ starting' = t /\ t # NoTurn /\ t \in budget.messages
      /\ refused' = refused
      /\ Conversation' = Conversation /\ budget'.messages = budget.messages \ {t}
  BY CheckpointAssumption DEF SendMessage, Sound, Typed, PartsTyped, Conversation
<1>3. PICK m : m = Message("user", t, NoTurn)
  OBVIOUS
<1>4. m \in Messages /\ m.role = "user" /\ m.of = t
  BY <1>3 DEF Messages, Message
<1>5. /\ thread'.messages = Append(thread.messages, m)
      /\ table'.messages = Append(table.messages, m)
      /\ thread'.checkpoints = thread.checkpoints /\ table'.turns = table.turns
      /\ table'.pending = t
  BY <1>3 DEF SendMessage, Sound, Typed, ViewsTyped
<1>6. RowsAgree'
  BY <1>5, RowsSame
<1>7. Begun'
  BY <1>1, <1>2, <1>5 DEF Begun, SendMessage
<1>8. Sent'
  <2>1. PICK s \in Seq(Messages) : s = thread.messages
    BY DEF Sent
  <2>2. PICK q : q = Append(s, m)
    OBVIOUS
  <2>3. Distinct(s) /\ \A i \in 1..Len(s) : s[i] # m
    BY <1>2, <1>4, <2>1 DEF Sent
  <2>4. /\ q \in Seq(Messages) /\ Distinct(q) /\ Len(q) = Len(s) + 1 /\ q[Len(s) + 1] = m
        /\ \A i \in 1..Len(s) : q[i] = s[i] /\ Rank(refused, q, i) = Rank(refused, s, i)
        /\ Rank(refused, q, Len(q)) = IF m.role = "user" /\ m.of \notin refused
                                      THEN Rank(refused, s, Len(s)) + 1
                                      ELSE Rank(refused, s, Len(s))
    <3>1. Longer(refused, q, s, m)
      BY <1>4, <2>2, <2>3, AppendRank
    <3>2. QED BY <3>1 DEF Longer
  <2>5. thread'.messages = q /\ table'.messages = q
    BY <1>5, <2>1, <2>2 DEF Sent
  <2>6. Len(s) \in Nat /\ Len(Conversation) \in Nat /\ Rank(refused, s, Len(s)) \in Nat
    BY LenProperties, Turned, RankType DEF Sound
  <2>7. Rank(refused, s, Len(s)) <= Len(Conversation)
    <3>1. ~Trimmed
      BY <1>1 DEF CaughtUp, AtRest, Trimmed
    <3>2. QED BY <1>2, <2>1, <3>1 DEF Sent, Room
  <2>8. Rank(refused, q, Len(q)) <= Room'
    <3>1. Room' = Len(Conversation) + 1
      BY <1>2 DEF Room
    <3>2. QED BY <1>4, <2>4, <2>6, <2>7, <3>1
  <2>9. ASSUME NEW i \in 1..Len(q), q[i].role = "user"
        PROVE  /\ q[i].of \notin budget'.messages
               /\ \A n \in Nat : Placed(q[i].of, n)' => Rank(refused, q, i) <= n
    <3>1. CASE i = Len(s) + 1
      <4>1. \A n \in Nat : ~Placed(t, n)
        BY <1>2 DEF Sound, Order, Fresh, Placed
      <4>2. \A n \in Nat : ~Placed(t, n)'
        BY <1>2, <4>1 DEF Placed
      <4>3. QED BY <1>2, <1>4, <2>4, <3>1, <4>2
    <3>2. CASE i # Len(s) + 1
      <4>1. i \in 1..Len(s)
        BY <2>4, <2>6, <3>2
      <4>2. s[i].of \notin budget.messages
            /\ \A n \in Nat : Placed(s[i].of, n) => Rank(refused, s, i) <= n
        BY <2>1, <2>4, <2>9, <4>1 DEF Sent
      <4>3. \A n \in Nat : Placed(s[i].of, n)' <=> Placed(s[i].of, n)
        BY <1>2 DEF Placed
      <4>4. QED BY <1>2, <2>4, <4>1, <4>2, <4>3
    <3>3. QED BY <3>1, <3>2
  <2>10. Rank(refused, thread.messages, Len(thread.messages))' = Rank(refused, q, Len(q))
         /\ \A i \in 1..Len(q) : Rank(refused, thread.messages, i)' = Rank(refused, q, i)
    BY <1>2, <2>5 DEF Rank, UsersTo
  <2>11. Distinct(thread.messages)'
    BY <2>4, <2>5 DEF Distinct
  <2>12. QED BY <2>4, <2>5, <2>8, <2>9, <2>10, <2>11 DEF Sent
<1>9. QED BY <1>6, <1>7, <1>8

\* The provider takes the message: the turn gets the place that was left.
LEMMA SendTurnShown ==
  ASSUME Sound, RowsAgree, Begun, Sent, SendTurn
  PROVE  (RowsAgree /\ Begun /\ Sent)'
<1>1. /\ starting # NoTurn /\ starting \in Turns /\ starting' = NoTurn /\ refused' = refused
      /\ thread' = thread /\ table' = table /\ budget'.messages = budget.messages
      /\ Conversation' = Append(Conversation, starting)
      /\ ingestion' = Append(ingestion, Runtime("turn.started", starting, "none"))
      /\ reactor' = reactor
  BY DEF SendTurn, Sound, Typed, PartsTyped, Holders, Conversation, Fault, views
<1>2. RowsAgree'
  BY <1>1, RowsSame
<1>3. Begun'
  <2>1. PICK e : e = Runtime("turn.started", starting, "none")
    OBVIOUS
  <2>2. e.turn = starting
    BY <2>1 DEF Runtime
  <2>3. PICK q \in Seq(IngestionEvents) : q = ingestion
    BY DEF Sound, Typed, QueuesTyped
  <2>4. e \in IngestionEvents
    BY <1>1, <2>1 DEF Runtime, IngestionEvents, Events
  <2>5. /\ DOMAIN Append(q, e) = 1..(Len(q) + 1) /\ Append(q, e)[Len(q) + 1] = e
        /\ \A i \in 1..Len(q) : Append(q, e)[i] = q[i]
        /\ DOMAIN q = 1..Len(q) /\ Len(q) \in Nat
    BY <2>4, AppendProperties, LenProperties
  <2>6. /\ \A i \in 1..Len(q) : q[i].type # "turn.started"
        /\ table.pending \in {NoTurn, starting}
    BY <1>1, <2>3, <2>5 DEF Begun
  <2>7. ASSUME NEW i \in 1..(Len(q) + 1), Append(q, e)[i].type = "turn.started"
        PROVE  Append(q, e)[i].turn = starting
    BY <2>2, <2>5, <2>6, <2>7
  <2>8. QED BY <1>1, <2>1, <2>3, <2>5, <2>6, <2>7 DEF Begun
<1>4. Sent'
  <2>1. PICK s \in Seq(Messages) : s = thread.messages
    BY DEF Sent
  <2>2. PICK k \in Nat : k = Len(Conversation)
    BY Turned DEF Sound
  <2>3. /\ Len(Conversation') = k + 1 /\ Conversation'[k + 1] = starting
        /\ \A i \in 1..k : Conversation'[i] = Conversation[i]
    BY <1>1, <2>2, Turned, AppendProperties DEF Sound
  <2>4. Len(s) \in Nat /\ Rank(refused, s, Len(s)) \in Nat
    BY LenProperties, RankType
  <2>5. ~Trimmed /\ ~Trimmed'
    BY <1>1 DEF Sound, Order, OneTurn, AtRest, Trimmed
  <2>6. Rank(refused, s, Len(s)) <= k + 1
    BY <1>1, <2>1, <2>2, <2>5 DEF Sent, Room
  <2>7. Room' = k + 1
    BY <1>1, <2>3 DEF Room
  <2>8. ASSUME NEW i \in 1..Len(s), s[i].role = "user", NEW n \in Nat, Placed(s[i].of, n)'
        PROVE  Rank(refused, s, i) <= n
    <3>1. n \in 1..(k + 1)
      BY <2>3, <2>8 DEF Placed
    <3>2. CASE n = k + 1
      <4>1. Rank(refused, s, i) <= Rank(refused, s, Len(s)) /\ Rank(refused, s, i) \in Nat
        BY <2>4, RankGrows, RankType
      <4>2. QED BY <2>4, <2>6, <3>2, <4>1
    <3>3. CASE n # k + 1
      <4>1. n \in 1..k
        BY <3>1, <3>3
      <4>2. Placed(s[i].of, n)
        BY <2>2, <2>3, <2>8, <4>1 DEF Placed
      <4>3. QED BY <2>1, <2>8, <4>2 DEF Sent
    <3>4. QED BY <3>2, <3>3
  <2>9. Rank(refused, thread.messages, Len(thread.messages))' = Rank(refused, s, Len(s))
        /\ \A i \in 1..Len(s) : Rank(refused, thread.messages, i)' = Rank(refused, s, i)
    BY <1>1, <2>1 DEF Rank, UsersTo
  <2>10. Distinct(thread.messages)'
    BY <1>1 DEF Sent, Distinct
  <2>11. QED BY <1>1, <2>1, <2>6, <2>7, <2>8, <2>9, <2>10 DEF Sent
<1>5. QED BY <1>2, <1>3, <1>4

\* The row of a turn, with a prompt that is the turn's.
LEMMA TurnRowAgrees ==
  ASSUME RowsAgree, NEW t \in Turns, NEW prompt, prompt \in {NoTurn, t}
  PROVE  /\ TurnRow(t, prompt).prompt \in {NoTurn, t}
         /\ t \in DOMAIN thread.checkpoints =>
              TurnRow(t, prompt).count = thread.checkpoints[t].count
         /\ t \notin DOMAIN thread.checkpoints => TurnRow(t, prompt).count = 0
<1>1. CASE t \in DOMAIN table.turns
  <2>1. PICK row : row = table.turns[t]
    OBVIOUS
  <2>2. row.prompt \in {NoTurn, t}
    BY <1>1, <2>1 DEF RowsAgree
  <2>3. TurnRow(t, prompt) = [row EXCEPT !.prompt = IF row.prompt = NoTurn THEN prompt
                                                    ELSE row.prompt]
    BY <1>1, <2>1 DEF TurnRow
  <2>4. TurnRow(t, prompt).count = row.count
    BY <2>3
  <2>5. TurnRow(t, prompt).prompt \in {NoTurn, t}
    <3>1. CASE "prompt" \in DOMAIN row
      BY <2>2, <2>3, <3>1
    <3>2. CASE "prompt" \notin DOMAIN row
      BY <2>2, <2>3, <3>2
    <3>3. QED BY <3>1, <3>2
  <2>6. QED BY <1>1, <2>1, <2>4, <2>5 DEF RowsAgree
<1>2. CASE t \notin DOMAIN table.turns
  <2>1. TurnRow(t, prompt) = Row(prompt, NoCheckpoint)
    BY <1>2 DEF TurnRow
  <2>2. TurnRow(t, prompt).prompt = prompt /\ TurnRow(t, prompt).count = 0
    BY <2>1 DEF Row, NoCheckpoint, Checkpoint
  <2>3. t \notin DOMAIN thread.checkpoints
    BY <1>2 DEF RowsAgree
  <2>4. QED BY <2>2, <2>3
<1>3. QED BY <1>1, <1>2

LEMMA PutRowAgrees ==
  ASSUME RowsAgree, NEW t \in Turns, NEW prompt, prompt \in {NoTurn, t},
         thread'.checkpoints = thread.checkpoints,
         table'.turns = Put(table.turns, t, TurnRow(t, prompt))
  PROVE  RowsAgree'
BY TurnRowAgrees DEF RowsAgree, Put

\* The ingestion sets the session.
LEMMA IngestShown ==
  ASSUME Sound, RowsAgree, Begun, Sent, IngestTurnStarted \/ IngestTurnEnded
  PROVE  (RowsAgree /\ Begun /\ Sent)'
<1>1. /\ ingestion # <<>> /\ ingestion' = Tail(ingestion) /\ starting' = starting
      /\ provider' = provider /\ reactor' = reactor /\ budget' = budget /\ refused' = refused
  BY DEF IngestTurnStarted, IngestTurnEnded, TakeIngestion
<1>2. NoneBegins
  BY <1>1, NoneBeginsTail DEF Sound
<1>3. ASSUME NEW th, NEW tb, thread' = th, table' = tb, tb.messages = table.messages,
             th.messages = thread.messages
      PROVE  Sent'
  BY <1>1, <1>3, SentSame DEF Conversation, Trimmed
<1>4. CASE UNCHANGED views
  BY <1>1, <1>2, <1>3, <1>4, RowsSame, BegunSame DEF views
<1>5. CASE IngestTurnEnded
  <2>1. /\ thread'.checkpoints = thread.checkpoints /\ thread'.messages = thread.messages
        /\ table' = table
    BY <1>5 DEF IngestTurnEnded, SetSession, Sound, Typed, ViewsTyped
  <2>2. QED BY <1>1, <1>2, <1>3, <2>1, RowsSame, BegunSame
<1>6. CASE IngestTurnStarted /\ TurnRunning(Head(ingestion).turn)
  <2>1. PICK t \in Turns : t = Head(ingestion).turn
    BY <1>1, HeadTyped DEF Sound, Typed, IngestionEvents, Events
  <2>2. PICK q \in Seq(IngestionEvents) : q = ingestion
    BY DEF Sound, Typed, QueuesTyped
  <2>3. 1 \in DOMAIN q /\ Head(q) = q[1]
    BY <1>1, <2>2, HeadTailProperties, LenProperties
  <2>4. table.pending \in {NoTurn, t}
    BY <1>6, <2>1, <2>2, <2>3 DEF IngestTurnStarted, TakeIngestion, Begun
  <2>5. /\ thread'.checkpoints = thread.checkpoints /\ thread'.messages = thread.messages
        /\ table'.turns = Put(table.turns, t, TurnRow(t, table.pending))
        /\ table'.messages = table.messages /\ table'.pending = NoTurn
    BY <1>6, <2>1 DEF TurnRunning, SetSession, Sound, Typed, ViewsTyped
  <2>6. RowsAgree'
    BY <2>4, <2>5, PutRowAgrees
  <2>7. QED BY <1>1, <1>2, <1>3, <2>5, <2>6, BegunSame
<1>7. QED BY <1>4, <1>5, <1>6 DEF IngestTurnStarted

\* Both views are told of the assistant's message, and take it once.
LEMMA CompleteMessageShown ==
  ASSUME Sound, RowsAgree, Begun, Sent, CompleteMessage
  PROVE  (RowsAgree /\ Begun /\ Sent)'
<1>1. PICK t \in Turns : t = ingest.turn
  BY DEF CompleteMessage, Sound, Typed, PartsTyped
<1>2. PICK m : m = Message("assistant", t, t)
  OBVIOUS
<1>3. m \in Messages /\ m.role = "assistant"
  BY <1>2 DEF Messages, Message
<1>4. PICK s \in Seq(Messages) : s = thread.messages /\ s = table.messages /\ Distinct(s)
  BY DEF Sent
<1>5. /\ thread'.messages = WithMessage(s, m) /\ thread'.checkpoints = thread.checkpoints
      /\ table'.messages = WithMessage(s, m) /\ table'.pending = table.pending
      /\ table'.turns = Put(table.turns, t, TurnRow(t, NoTurn))
      /\ UNCHANGED <<ingestion, starting, refused, provider, reactor, budget>>
  BY <1>1, <1>2, <1>4 DEF CompleteMessage, Sound, Typed, ViewsTyped
<1>6. RowsAgree'
  BY <1>5, PutRowAgrees
<1>7. NoneBegins
  BY <1>5 DEF NoneBegins
<1>8. Begun'
  BY <1>5, <1>7, BegunSame
<1>9. CASE m \in ToSet(s)
  <2>1. thread'.messages = thread.messages /\ table'.messages = table.messages
    BY <1>4, <1>5, <1>9 DEF WithMessage
  <2>2. QED BY <1>5, <1>6, <1>8, <2>1, SentSame DEF Conversation, Trimmed
<1>10. CASE m \notin ToSet(s)
  <2>1. PICK q : q = Append(s, m)
    OBVIOUS
  <2>2. \A i \in 1..Len(s) : s[i] # m
    BY <1>10, LenProperties DEF ToSet
  <2>3. /\ q \in Seq(Messages) /\ Distinct(q) /\ Len(q) = Len(s) + 1 /\ q[Len(s) + 1] = m
        /\ \A i \in 1..Len(s) : q[i] = s[i] /\ Rank(refused, q, i) = Rank(refused, s, i)
        /\ Rank(refused, q, Len(q)) = Rank(refused, s, Len(s))
    <3>1. Longer(refused, q, s, m)
      BY <1>3, <1>4, <2>1, <2>2, AppendRank
    <3>2. QED BY <1>3, <3>1 DEF Longer
  <2>4. thread'.messages = q /\ table'.messages = q
    BY <1>5, <1>10, <2>1 DEF WithMessage
  <2>5. ASSUME NEW i \in 1..Len(q), q[i].role = "user"
        PROVE  /\ q[i].of \notin budget.messages
               /\ \A n \in Nat : Placed(q[i].of, n) => Rank(refused, q, i) <= n
    <3>1. i \in 1..Len(s)
      <4>1. Len(s) \in Nat
        BY LenProperties
      <4>2. QED BY <1>3, <2>3, <2>5, <4>1
    <3>2. q[i] = s[i] /\ Rank(refused, q, i) = Rank(refused, s, i)
      BY <2>3, <3>1
    <3>3. s[i].role = "user"
      BY <2>5, <3>2
    <3>4. QED BY <1>4, <3>1, <3>2, <3>3 DEF Sent
  <2>6. ~Trimmed => Rank(refused, q, Len(q)) <= Room
    BY <1>4, <2>3 DEF Sent
  <2>7. Rank(refused, thread.messages, Len(thread.messages))' = Rank(refused, q, Len(q))
        /\ \A i \in 1..Len(q) : Rank(refused, thread.messages, i)' = Rank(refused, q, i)
    BY <1>5, <2>4 DEF Rank, UsersTo
  <2>8. Room' = Room /\ (Trimmed' <=> Trimmed) /\ \A u, n : Placed(u, n)' <=> Placed(u, n)
    BY <1>5 DEF Room, Trimmed, Placed, Conversation
  <2>9. Distinct(thread.messages)'
    BY <2>3, <2>4 DEF Distinct
  <2>10. Sent'
    BY <1>5, <2>3, <2>4, <2>5, <2>6, <2>7, <2>8, <2>9 DEF Sent
  <2>11. QED BY <1>6, <1>8, <2>10
<1>11. QED BY <1>9, <1>10

\* A checkpoint gets the count of its turn's place, so that the table takes
\* the count from no other turn.
LEMMA DiffAgrees ==
  ASSUME Sound, RowsAgree, ~Trimmed, NEW t \in Turns, NEW c \in Checkpoints,
         Placed(t, c.count), ProjectTurnDiff(t, c)
  PROVE  RowsAgree'
<1> DEFINE Uncounted(row) == IF row.count = c.count THEN Row(row.prompt, NoCheckpoint) ELSE row
<1>1. c.count \in Nat
  BY DEF Checkpoints
<1>2. table'.turns = Put([x \in DOMAIN table.turns |-> Uncounted(table.turns[x])], t,
                         Row(TurnRow(t, NoTurn).prompt, c))
  BY DEF ProjectTurnDiff, Sound, Typed, ViewsTyped
<1>3. \/ thread'.checkpoints = Put(thread.checkpoints, t, c)
      \/ thread'.checkpoints = thread.checkpoints /\ t \in DOMAIN thread.checkpoints
  BY DiffTyped DEF Sound, Typed
<1>4. ASSUME NEW u \in DOMAIN thread.checkpoints
      PROVE  thread.checkpoints[u].count = c.count <=> u = t
  <2>1. Placed(u, thread.checkpoints[u].count)
    BY InPlace DEF Sound, Numbers
  <2>2. ASSUME thread.checkpoints[u].count = c.count
        PROVE  u = t
    BY <2>1, <2>2 DEF Placed
  <2>3. ASSUME u = t
        PROVE  thread.checkpoints[u].count = c.count
    BY <2>1, <2>3, OnePlace DEF Sound, Order
  <2>4. QED BY <2>2, <2>3
<1>5. t \in DOMAIN thread'.checkpoints /\ thread'.checkpoints[t].count = c.count
      /\ DOMAIN thread'.checkpoints = DOMAIN thread.checkpoints \cup {t}
      /\ \A u \in DOMAIN thread.checkpoints : u # t =>
           thread'.checkpoints[u] = thread.checkpoints[u]
  BY <1>3, <1>4 DEF Put
<1>6. Row(TurnRow(t, NoTurn).prompt, c).prompt \in {NoTurn, t}
      /\ Row(TurnRow(t, NoTurn).prompt, c).count = c.count
  BY TurnRowAgrees DEF Row
<1>7. ASSUME NEW u \in DOMAIN table.turns, u # t
      PROVE  /\ Uncounted(table.turns[u]).prompt \in {NoTurn, u}
             /\ u \in DOMAIN thread.checkpoints =>
                  Uncounted(table.turns[u]).count = thread.checkpoints[u].count
             /\ u \notin DOMAIN thread.checkpoints => Uncounted(table.turns[u]).count = 0
  <2>1. table.turns[u].prompt \in {NoTurn, u}
    BY <1>7 DEF RowsAgree
  <2>2. Uncounted(table.turns[u]).prompt = table.turns[u].prompt
    BY DEF Row
  <2>3. CASE u \in DOMAIN thread.checkpoints
    <3>1. table.turns[u].count = thread.checkpoints[u].count
      BY <2>3 DEF RowsAgree
    <3>2. table.turns[u].count # c.count
      BY <1>4, <1>7, <2>3, <3>1
    <3>3. Uncounted(table.turns[u]) = table.turns[u]
      BY <3>2
    <3>4. QED BY <2>1, <2>3, <3>1, <3>3
  <2>4. CASE u \notin DOMAIN thread.checkpoints
    <3>1. table.turns[u].count = 0
      BY <1>7, <2>4 DEF RowsAgree
    <3>2. Uncounted(table.turns[u]).count = 0
      BY <3>1 DEF Row, NoCheckpoint, Checkpoint
    <3>3. QED BY <2>1, <2>2, <2>4, <3>2
  <2>5. QED BY <2>3, <2>4
<1> DEFINE row == Row(TurnRow(t, NoTurn).prompt, c)
<1> HIDE DEF Uncounted, row
<1>8. /\ DOMAIN table'.turns = DOMAIN table.turns \cup {t}
      /\ table'.turns[t] = row
      /\ \A u \in DOMAIN table.turns : u # t => table'.turns[u] = Uncounted(table.turns[u])
  BY <1>2 DEF Put, row
<1>9. row.prompt \in {NoTurn, t} /\ row.count = c.count
  BY <1>6 DEF row
<1>10. QED BY <1>5, <1>7, <1>8, <1>9 DEF RowsAgree

\* Placeholders and checkpoints are projected.
LEMMA DispatchShown ==
  ASSUME Sound, RowsAgree, Begun, Sent, DispatchPlaceholder \/ DispatchCheckpoint
  PROVE  (RowsAgree /\ Begun /\ Sent)'
<1>1. PICK t \in Turns, c \in Checkpoints :
        Placed(t, c.count) /\ ProjectTurnDiff(t, c)
  <2>1. CASE DispatchPlaceholder
    <3>1. PICK c : c = Checkpoint(ingest.count, "missing", FALSE)
      OBVIOUS
    <3>2. ingest.turn \in Turns /\ c \in Checkpoints /\ c.count = ingest.count
      BY <2>1, <3>1, PlaceholderPut DEF Sound
    <3>3. Placed(ingest.turn, ingest.count)
      BY <2>1 DEF DispatchPlaceholder, Sound, Numbers, Follows
    <3>4. QED BY <2>1, <3>1, <3>2, <3>3 DEF DispatchPlaceholder
  <2>2. CASE DispatchCheckpoint
    <3>1. PICK c : c = Checkpoint(reactor.count, reactor.status, TRUE)
      OBVIOUS
    <3>2. /\ reactor.turn \in Turns /\ reactor.count \in Nat /\ reactor.status \in Statuses
          /\ Capturing
      BY <2>2 DEF DispatchCheckpoint, Sound, Typed, PartsTyped, ReactorStates, Capturing
    <3>3. c \in Checkpoints /\ c.count = reactor.count
      BY <3>1, <3>2 DEF Checkpoint, Checkpoints
    <3>4. Placed(reactor.turn, reactor.count)
      BY <3>2 DEF Sound, Order, OneTurn
    <3>5. QED BY <2>2, <3>1, <3>2, <3>3, <3>4 DEF DispatchCheckpoint
  <2>3. QED BY <2>1, <2>2
<1>2. ~Trimmed /\ ~Trimmed'
  <2>1. CASE DispatchPlaceholder
    BY <2>1 DEF DispatchPlaceholder, NotIngesting, Sound, Order, Alone, Trimmed, Reverts
  <2>2. CASE DispatchCheckpoint
    BY <2>2 DEF DispatchCheckpoint, Trimmed, AtRest
  <2>3. QED BY <2>1, <2>2
<1>3. RowsAgree'
  BY <1>1, <1>2, DiffAgrees
<1>4. /\ thread'.messages = thread.messages /\ table'.messages = table.messages
      /\ table'.pending = table.pending
  BY <1>1 DEF ProjectTurnDiff, Sound, Typed, ViewsTyped
<1>5. UNCHANGED <<provider, starting, refused, ingestion, budget>>
  BY DEF DispatchPlaceholder, DispatchCheckpoint
<1>6. NoneBegins
  BY <1>5 DEF NoneBegins
<1>7. QED BY <1>2, <1>3, <1>4, <1>5, <1>6, BegunSame, SentSame DEF Conversation

\* The provider forgets turns, no turn changes its place.
LEMMA RollbackShown ==
  ASSUME Sound, RowsAgree, Begun, Sent, RollbackConversation
  PROVE  (RowsAgree /\ Begun /\ Sent)'
<1>1. /\ thread' = thread /\ table' = table /\ budget' = budget
      /\ starting' = starting /\ ingestion' = ingestion /\ refused' = refused
  BY DEF RollbackConversation, views
<1>2. Trimmed'
  BY DEF RollbackConversation, Trimmed, Sound, Typed, PartsTyped, ReactorStates
<1>3. RowsAgree' /\ Begun'
  BY <1>1, RowsSame, BegunSame DEF NoneBegins
<1>4. ASSUME NEW t, NEW n \in Nat, Placed(t, n)'
      PROVE  Placed(t, n)
  <2>1. PICK k \in Nat : /\ k = IF Len(Conversation) > reactor.back
                                THEN Len(Conversation) - reactor.back ELSE 0
                         /\ k <= Len(Conversation)
    BY Turned DEF Sound, Typed, PartsTyped, ReactorStates
  <2>2. Conversation' = SubSeq(Conversation, 1, k)
    BY <2>1 DEF RollbackConversation, Conversation, Sound, Typed, PartsTyped
  <2>3. Len(Conversation') = k /\ \A i \in 1..k : Conversation'[i] = Conversation[i]
    BY <2>1, <2>2, Turned DEF Sound
  <2>4. QED BY <1>4, <2>1, <2>3, Turned DEF Placed, Sound
<1>5. Rank(refused, thread.messages, Len(thread.messages))'
        = Rank(refused, thread.messages, Len(thread.messages))
      /\ \A i \in 1..Len(thread.messages) :
           Rank(refused, thread.messages, i)' = Rank(refused, thread.messages, i)
  BY <1>1 DEF Rank, UsersTo
<1>6. Distinct(thread.messages)'
  BY <1>1 DEF Sent, Distinct
<1>7. Sent'
  BY <1>1, <1>2, <1>4, <1>5, <1>6 DEF Sent
<1>8. QED BY <1>3, <1>7

\* Both views keep the same turns, hence the same messages, and no more of the
\* users' than the conversation has been cut to.
LEMMA CompleteRevertShown ==
  ASSUME Sound, RowsAgree, Begun, Sent, Apart, Straight, CompleteRevert
  PROVE  (RowsAgree /\ Begun /\ Sent)'
<1>1. PICK n \in Nat : n = reactor.count
  BY DEF Sound, Typed, PartsTyped, ReactorStates
<1>2. /\ Trimmed /\ ~Trimmed' /\ starting = NoTurn /\ ProjectReverted(n)
      /\ UNCHANGED <<provider, starting, refused, ingestion, budget>>
  BY <1>1 DEF CompleteRevert, Trimmed, AtRest, Sound, Order, Alone, Reverts
<1>3. Len(Conversation) = n
  BY <1>1, <1>2 DEF Sound, Numbers, Back
<1>4. PICK K \in SUBSET Turns : K = KeptTurns(thread.checkpoints, n)
  BY DEF KeptTurns, Sound, Typed, ViewsTyped
<1>5. K = KeptTurns(table.turns, n)
  <2>1. \A t \in DOMAIN thread.checkpoints :
          t \in DOMAIN table.turns /\ table.turns[t].count = thread.checkpoints[t].count
    BY DEF RowsAgree
  <2>2. \A t \in DOMAIN table.turns :
          t \notin DOMAIN thread.checkpoints => table.turns[t].count \notin 1..n
    BY DEF RowsAgree
  <2>3. QED BY <1>4, <2>1, <2>2 DEF KeptTurns
<1>6. PICK prompts : prompts = {table.turns[t].prompt : t \in K}
  OBVIOUS
<1>7. prompts \subseteq K \cup {NoTurn}
  <2>1. \A t \in K : t \in DOMAIN table.turns
    BY <1>5 DEF KeptTurns
  <2>2. QED BY <1>6, <2>1 DEF RowsAgree
<1>8. PICK s \in Seq(Messages) : s = thread.messages /\ s = table.messages /\ Distinct(s)
  BY DEF Sent
<1>9. PICK r : r = RetainMessages(s, K, {}, n)
  OBVIOUS
<1>10. /\ thread'.checkpoints = Only(thread.checkpoints, K)
       /\ table'.turns = Only(table.turns, K) /\ table'.pending = NoTurn
       /\ thread'.messages = r /\ table'.messages = RetainMessages(s, K, prompts, n)
  <2>1. DOMAIN thread = {"session", "messages", "checkpoints"}
    BY DEF Sound, Typed, ViewsTyped
  <2>2. QED BY <1>2, <1>4, <1>5, <1>6, <1>8, <1>9, <2>1 DEF ProjectReverted
<1>11. ASSUME NEW i \in 1..Len(s), s[i].role = "user", s[i].of \in K
       PROVE  Rank({}, s, i) <= n
  <2>1. PICK c \in Nat : /\ c = thread.checkpoints[s[i].of].count /\ c \in 1..n
                         /\ s[i].of \in DOMAIN thread.checkpoints
    BY <1>4, <1>11 DEF KeptTurns
  <2>2. Placed(s[i].of, c)
    BY <1>1, <2>1 DEF Sound, Numbers, Numbered
  <2>3. Rank(refused, s, i) <= c
    BY <1>8, <1>11, <2>2 DEF Sent
  <2>4. \A k \in 1..i : s[k].of \notin refused
    <3>1. Astray(n) = {} /\ DOMAIN s = 1..Len(s) /\ Len(s) \in Nat
      BY <1>1, LenProperties DEF CompleteRevert, Straight, Reverts
    <3>2. \A k \in 1..Len(s) : k < i => s[k].of \notin refused
      BY <1>4, <1>8, <1>11, <3>1 DEF Astray
    <3>3. s[i].of \notin refused
      BY <2>2 DEF Apart, Placed
    <3>4. QED BY <3>1, <3>2, <3>3
  <2>5. Rank({}, s, i) <= Rank(refused, s, i)
    BY <2>4, RankBut
  <2>6. Rank({}, s, i) \in Nat /\ Rank(refused, s, i) \in Nat
    BY RankType
  <2>7. QED BY <2>1, <2>3, <2>5, <2>6
<1>12. /\ table'.messages = r
       /\ r \in Seq(Messages) /\ Distinct(r) /\ Rank({}, r, Len(r)) <= n
       /\ \A i \in 1..Len(r) : \E j \in 1..Len(s) :
            r[i] = s[j] /\ Rank(refused, r, i) <= Rank(refused, s, j)
  <2>1. PromptsFirst(s, K, n)
    BY <1>11 DEF PromptsFirst
  <2>2. table'.messages = r /\ Shorter(refused, r, s, n)
    BY <1>7, <1>8, <1>9, <1>10, <2>1, RetainSame
  <2>3. QED BY <2>2 DEF Shorter
<1>13. RowsAgree'
  BY <1>10 DEF RowsAgree, Only
<1>14. Begun'
  BY <1>2, <1>10, BegunSame DEF NoneBegins
<1>15. Sent'
  <2>1. Len(r) \in Nat /\ Len(s) \in Nat
    BY <1>12, LenProperties
  <2>2. ASSUME NEW i \in 1..Len(r), r[i].role = "user"
        PROVE  /\ r[i].of \notin budget.messages
               /\ \A m \in Nat : Placed(r[i].of, m) => Rank(refused, r, i) <= m
    <3>1. PICK j \in 1..Len(s) : r[i] = s[j] /\ Rank(refused, r, i) <= Rank(refused, s, j)
      BY <1>12
    <3>2. Rank(refused, r, i) \in Nat /\ Rank(refused, s, j) \in Nat
      BY <2>1, RankType
    <3>3. /\ s[j].of \notin budget.messages
          /\ \A m \in Nat : Placed(s[j].of, m) => Rank(refused, s, j) <= m
      BY <1>8, <2>2, <3>1 DEF Sent
    <3>4. QED BY <3>1, <3>2, <3>3
  <2>3. Rank(refused, thread.messages, Len(thread.messages))' = Rank(refused, r, Len(r))
        /\ \A i \in 1..Len(r) : Rank(refused, thread.messages, i)' = Rank(refused, r, i)
    BY <1>2, <1>10 DEF Rank, UsersTo
  <2>4. Distinct(thread.messages)'
    BY <1>10, <1>12 DEF Distinct
  <2>5. Room' = n /\ \A t, m : Placed(t, m)' <=> Placed(t, m)
    BY <1>2, <1>3 DEF Room, Placed, Conversation
  <2>6. Rank(refused, r, Len(r)) <= n
    <3>1. Rank(refused, r, Len(r)) <= Rank({}, r, Len(r))
      BY <2>1, RankBut
    <3>2. Rank(refused, r, Len(r)) \in Nat /\ Rank({}, r, Len(r)) \in Nat
      BY <2>1, RankType
    <3>3. QED BY <1>12, <3>1, <3>2
  <2>7. QED BY <1>2, <1>10, <1>12, <2>2, <2>3, <2>4, <2>5, <2>6 DEF Sent
<1>16. QED BY <1>13, <1>14, <1>15

\* The provider refuses the message: it no longer counts.
LEMMA SendTurnFailsShown ==
  ASSUME Sound, RowsAgree, Begun, Sent, Apart, SendTurnFails
  PROVE  (RowsAgree /\ Begun /\ Sent)'
<1>1. /\ starting # NoTurn /\ starting \in Turns /\ starting' = NoTurn
      /\ refused' = refused \cup {starting}
      /\ thread' = thread /\ table' = table /\ budget'.messages = budget.messages
      /\ Conversation' = Conversation /\ ingestion' = ingestion /\ reactor' = reactor
  BY DEF SendTurnFails, Sound, Typed, PartsTyped, Holders, Conversation, Fault, views
<1>2. RowsAgree'
  BY <1>1, RowsSame
<1>3. Begun'
  BY <1>1 DEF Begun
<1>4. PICK s \in Seq(Messages) : s = thread.messages
  BY DEF Sent
<1>5. Len(s) \in Nat
  BY LenProperties
<1>6. PICK x : x = starting
  OBVIOUS
<1>7. PICK k \in 1..Len(s) : s[k].role = "user" /\ s[k].of = x
  BY <1>1, <1>4, <1>6 DEF Apart
<1>8. x \notin refused /\ refused' = refused \cup {x}
  BY <1>1, <1>6 DEF Apart
<1>9. Rank(refused', s, Len(s)) + 1 <= Rank(refused, s, Len(s))
  BY <1>5, <1>7, <1>8, RankLess
<1>10. ~Trimmed /\ ~Trimmed'
  BY <1>1 DEF Sound, Order, OneTurn, AtRest, Trimmed
<1>11. Rank(refused', s, Len(s)) <= Room'
  <2>1. Rank(refused, s, Len(s)) <= Len(Conversation) + 1
    BY <1>1, <1>4, <1>10 DEF Sent, Room
  <2>2. Room' = Len(Conversation) /\ Len(Conversation) \in Nat
    BY <1>1, Turned DEF Room, Sound
  <2>3. Rank(refused', s, Len(s)) \in Nat /\ Rank(refused, s, Len(s)) \in Nat
    BY <1>5, RankType
  <2>4. QED BY <1>9, <2>1, <2>2, <2>3
<1>12. ASSUME NEW i \in 1..Len(s), s[i].role = "user", NEW n \in Nat, Placed(s[i].of, n)'
       PROVE  Rank(refused', s, i) <= n
  <2>1. Placed(s[i].of, n)
    BY <1>1, <1>12 DEF Placed
  <2>2. Rank(refused, s, i) <= n
    BY <1>4, <1>12, <2>1 DEF Sent
  <2>3. Rank(refused', s, i) <= Rank(refused, s, i)
    BY <1>5, <1>8, RankBut
  <2>4. Rank(refused', s, i) \in Nat /\ Rank(refused, s, i) \in Nat
    BY <1>5, RankType
  <2>5. QED BY <2>2, <2>3, <2>4
<1>13. Rank(refused, thread.messages, Len(thread.messages))' = Rank(refused', s, Len(s))
       /\ \A i \in 1..Len(s) : Rank(refused, thread.messages, i)' = Rank(refused', s, i)
  BY <1>1, <1>4 DEF Rank, UsersTo
<1>14. Distinct(thread.messages)'
  BY <1>1 DEF Sent, Distinct
<1>15. Sent'
  BY <1>1, <1>4, <1>10, <1>11, <1>12, <1>13, <1>14 DEF Sent
<1>16. QED BY <1>2, <1>3, <1>15

\* What is refused stays apart while no message is sent, and one that is being
\* sent stays shown.
LEMMA ApartSame ==
  ASSUME Apart, refused' = refused, budget'.messages = budget.messages, starting' = starting,
         \A i \in 1..Len(Conversation') :
           \E j \in 1..Len(Conversation) : Conversation'[i] = Conversation[j],
         starting # NoTurn =>
           \A i \in 1..Len(thread.messages) :
             \E j \in 1..Len(thread'.messages) : thread'.messages[j] = thread.messages[i]
  PROVE  Apart'
<1>1. \A i \in 1..Len(Conversation') : Conversation'[i] \notin refused'
  BY DEF Apart
<1>2. starting' # NoTurn => \E i \in 1..Len(thread'.messages) :
        thread'.messages[i].role = "user" /\ thread'.messages[i].of = starting'
  BY DEF Apart
<1>3. QED BY <1>1, <1>2 DEF Apart

\* It stays apart in each step.
LEMMA ApartSteps ==
  ASSUME Sound, Sent, Apart, [Next]_vars, ~AbortTurn, ~FailReactor
  PROVE  Apart'
<1> USE DEF Sound
<1>1. CASE Quiet
  BY <1>1, QuietViews, ApartSame
<1>2. ASSUME NEW t \in Turns, SendMessage(t)
      PROVE  Apart'
  <2>1. PICK m : m = Message("user", t, NoTurn)
    OBVIOUS
  <2>2. /\ starting' = t /\ refused' = refused /\ Conversation' = Conversation
        /\ budget'.messages = budget.messages \ {t} /\ t \in budget.messages
        /\ thread'.messages = Append(thread.messages, m)
    BY <1>2, <2>1 DEF SendMessage, Typed, PartsTyped, ViewsTyped, Conversation
  <2>3. m \in Messages /\ m.role = "user" /\ m.of = t
    BY <2>1 DEF Messages, Message
  <2>4. PICK s \in Seq(Messages) : s = thread.messages
    BY DEF Sent
  <2>5. Len(Append(s, m)) \in 1..Len(Append(s, m)) /\ Append(s, m)[Len(Append(s, m))] = m
    BY <2>3, AppendProperties, LenProperties
  <2>6. QED BY <2>2, <2>3, <2>4, <2>5 DEF Apart
<1>3. CASE SendTurn
  <2>1. /\ starting \in Turns /\ starting # NoTurn /\ starting' = NoTurn /\ refused' = refused
        /\ budget'.messages = budget.messages
        /\ Conversation' = Append(Conversation, starting)
    BY <1>3 DEF SendTurn, Typed, PartsTyped, Holders, Conversation, Fault
  <2>2. \A i \in 1..Len(Conversation') :
          Conversation'[i] = starting \/ \E j \in 1..Len(Conversation) :
            Conversation'[i] = Conversation[j]
    BY <2>1, Turned, AppendProperties
  <2>3. NoTurn \notin refused
    BY CheckpointAssumption DEF Apart
  <2>4. QED BY <2>1, <2>2, <2>3 DEF Apart
<1>4. CASE SendTurnFails
  <2>1. /\ starting \in Turns /\ starting # NoTurn /\ starting' = NoTurn
        /\ refused' = refused \cup {starting} /\ budget'.messages = budget.messages
        /\ Conversation' = Conversation
    BY <1>4 DEF SendTurnFails, Typed, PartsTyped, Holders, Conversation, Fault
  <2>2. starting \notin budget.messages
        /\ \A i \in 1..Len(Conversation) : Conversation[i] # starting
    BY DEF Order, Fresh
  <2>3. NoTurn \notin refused
    BY CheckpointAssumption DEF Apart
  <2>4. QED BY <2>1, <2>2, <2>3 DEF Apart
<1>5. CASE IngestTurnStarted \/ IngestTurnEnded \/ DispatchPlaceholder \/ DispatchCheckpoint
  <2>1. UNCHANGED <<refused, budget, starting, provider>>
    BY <1>5 DEF IngestTurnStarted, IngestTurnEnded, TakeIngestion, DispatchPlaceholder,
       DispatchCheckpoint
  <2>2. thread'.messages = thread.messages
    BY <1>5 DEF IngestTurnStarted, IngestTurnEnded, TurnRunning, SetSession, DispatchPlaceholder,
       DispatchCheckpoint, ProjectTurnDiff, Typed, ViewsTyped, views
  <2>3. QED BY <2>1, <2>2, ApartSame DEF Conversation
<1>6. CASE CompleteMessage
  <2>1. PICK t \in Turns : t = ingest.turn
    BY <1>6 DEF CompleteMessage, Typed, PartsTyped
  <2>2. PICK m \in Messages : m = Message("assistant", t, t)
    BY DEF Messages
  <2>3. PICK s \in Seq(Messages) : s = thread.messages
    BY DEF Sent
  <2>4. /\ UNCHANGED <<refused, budget, starting, provider>>
        /\ thread'.messages \in {s, Append(s, m)}
    BY <1>6, <2>1, <2>2, <2>3 DEF CompleteMessage, WithMessage, Typed, ViewsTyped
  <2>5. \A i \in 1..Len(s) : i \in 1..Len(Append(s, m)) /\ Append(s, m)[i] = s[i]
    BY AppendProperties, LenProperties
  <2>6. QED BY <2>3, <2>4, <2>5, ApartSame DEF Conversation
<1>7. CASE RollbackConversation
  <2>1. UNCHANGED <<refused, budget, starting, thread>>
    BY <1>7 DEF RollbackConversation, views
  <2>2. PICK k \in Nat : /\ k = IF Len(Conversation) > reactor.back
                                THEN Len(Conversation) - reactor.back ELSE 0
                         /\ k <= Len(Conversation)
    BY Turned DEF Typed, PartsTyped, ReactorStates
  <2>3. Conversation' = SubSeq(Conversation, 1, k)
    BY <1>7, <2>2 DEF RollbackConversation, Conversation, Typed, PartsTyped
  <2>4. Len(Conversation') = k /\ \A i \in 1..k : Conversation'[i] = Conversation[i]
    BY <2>2, <2>3, Turned
  <2>5. \A i \in 1..k : i \in 1..Len(Conversation)
    BY <2>2, Turned
  <2>6. QED BY <2>1, <2>4, <2>5, ApartSame
<1>8. CASE CompleteRevert
  <2>1. UNCHANGED <<refused, budget, starting, provider>> /\ starting = NoTurn
    BY <1>8, RevertAlone DEF CompleteRevert, Reverts
  <2>2. QED BY <2>1, ApartSame DEF Conversation
<1>9. QED
  BY <1>1, <1>2, <1>3, <1>4, <1>5, <1>6, <1>7, <1>8
     DEF Next, Provider, Ingestion, Reactor, Takes, Quiet

\* Nothing is to be kept where no revert is.
LEMMA NoneAsked ==
  ASSUME ~Asked', reactor'.pc \notin Reverts
  PROVE  Straight'
BY DEF Asked, Straight

\* From a revert's request to its end nothing is sent, refused or captured.
LEMMA StraightSteps ==
  ASSUME Sound, Straight, [Next]_vars, Calm', ~AbortTurn, ~FailReactor
  PROVE  Straight'
<1> USE DEF Sound
<1>1. ASSUME UNCHANGED <<thread, refused>>
      PROVE  \A n : Astray(n)' = Astray(n)
  BY <1>1 DEF Astray
<1>2. ASSUME ~Asked, reactor.pc \notin Reverts, UNCHANGED <<domain, reactor>>
      PROVE  Straight'
  BY <1>2, NoneAsked DEF Asked
<1>3. CASE UNCHANGED vars
  BY <1>1, <1>3 DEF Straight, vars, views, inbox
<1>4. ASSUME NEW t \in Turns, SendMessage(t)
      PROVE  Straight'
  <2>1. CaughtUp
    <3>1. Hurry(CaughtUp) = {}
      BY <1>4 DEF SendMessage, Calm
    <3>2. QED BY <3>1 DEF Hurry
  <2>2. domain' = <<Domain("message-sent", t, 0), Domain("turn-start-requested", t, 0)>>
        /\ reactor' = AtRest
    BY <1>4, <2>1 DEF SendMessage, CaughtUp
  <2>3. QED BY <2>2, NoneAsked DEF Asked, Domain, AtRest, Reverts
<1>5. ASSUME NEW t \in Turns, RequestRevert(t)
      PROVE  Straight'
  <2>1. PICK n : n = table.turns[t].count - 1
    OBVIOUS
  <2>2. Settled /\ Astray(n) = {}
    <3>1. Hurry(Settled) = {} /\ Astray(n) = {}
      BY <1>5, <2>1 DEF RequestRevert, Calm
    <3>2. QED BY <3>1 DEF Hurry
  <2>3. domain' = <<Domain("checkpoint-revert-requested", NoTurn, n)>> /\ reactor' = AtRest
        /\ UNCHANGED <<thread, refused>>
    BY <1>5, <2>1, <2>2 DEF RequestRevert, Settled, CaughtUp, views
  <2>4. QED BY <1>1, <2>2, <2>3 DEF Straight, Domain, AtRest, Reverts
<1>6. CASE Provider
  <2>1. starting # NoTurn \/ provider.active # NoTurn
    BY <1>6 DEF Provider, SendTurn, SendTurnFails, Edit, AbortTurn, EndTurn
  <2>2. ~Asked /\ reactor.pc \notin Reverts
    BY <2>1 DEF Order, Alone
  <2>3. UNCHANGED <<domain, reactor>>
    BY <1>6 DEF Provider, SendTurn, SendTurnFails, Edit, AbortTurn, EndTurn, inbox
  <2>4. QED BY <1>2, <2>2, <2>3
<1>7. CASE Ingestion
  <2>1. ingestion # <<>> \/ ingest.pc # "idle"
    BY <1>7 DEF Ingestion, IngestTurnStarted, IngestTurnEnded, IngestDiff, CompleteMessage,
       DispatchPlaceholder, TakeIngestion
  <2>2. UNCHANGED <<domain, reactor>>
    BY <1>7 DEF Ingestion, IngestTurnStarted, IngestTurnEnded, IngestDiff, CompleteMessage,
       DispatchPlaceholder, TakeIngestion, inbox
  <2>3. QED BY <1>2, <2>1, <2>2, IngestionTakes
<1>8. CASE ProcessMessageSent \/ ProcessTurnStartRequested \/ FailMessageBaseline
  <2>1. /\ domain # <<>> /\ domain' = Tail(domain)
        /\ Head(domain).type # "checkpoint-revert-requested"
        /\ reactor' = reactor /\ reactor.pc = "idle"
    BY <1>8 DEF ProcessMessageSent, ProcessTurnStartRequested, FailMessageBaseline, TakeDomain
  <2>2. QED BY <2>1, DomainTakes, NoneAsked DEF Reverts
<1>9. CASE ProcessTurnStarted \/ ProcessTurnCompleted \/ FailTurnBaseline
  <2>1. /\ runtime # <<>> /\ runtime' = Tail(runtime) /\ domain' = domain
        /\ reactor.pc = "idle" /\ reactor'.pc \in {"idle", "capture"}
    BY <1>9 DEF ProcessTurnStarted, ProcessTurnCompleted, FailTurnBaseline, TakeRuntime, AtRest
  <2>2. ~Asked
    BY <2>1, RuntimeMoves
  <2>3. QED BY <2>1, <2>2, NoneAsked DEF Asked, Reverts
<1>10. CASE CaptureCheckpoint \/ DispatchCheckpoint
  <2>1. reactor.pc # "idle" /\ domain' = domain /\ reactor'.pc \in {"dispatch", "idle"}
    <3>1. CASE CaptureCheckpoint
      BY <3>1 DEF CaptureCheckpoint, inbox, Typed, PartsTyped, ReactorStates
    <3>2. CASE DispatchCheckpoint
      BY <3>2 DEF DispatchCheckpoint, inbox, AtRest
    <3>3. QED BY <1>10, <3>1, <3>2
  <2>2. QED BY <2>1, Working, NoneAsked DEF Asked, Reverts
<1>11. CASE ProcessRevertRequested
  <2>1. /\ domain # <<>> /\ domain' = Tail(domain) /\ domain \in Seq(DomainEvents)
        /\ Head(domain).type = "checkpoint-revert-requested" /\ reactor.pc = "idle"
        /\ UNCHANGED <<thread, refused>>
    BY <1>11 DEF ProcessRevertRequested, TakeDomain, views, Typed, QueuesTyped
  <2>2. 1 \in DOMAIN domain /\ Head(domain) = domain[1]
    BY <2>1
  <2>3. Len(domain) = 1
    BY <2>1, <2>2 DEF Order, Alone, Asked
  <2>4. DOMAIN domain' = {}
    BY <2>1, <2>3
  <2>5. Astray(Head(domain).count) = {}
    BY <2>1, <2>2 DEF Straight
  <2>6. PICK n : n = Head(domain).count
    OBVIOUS
  <2>7. \/ reactor' = reactor
        \/ reactor'.pc = "restore" /\ reactor'.count = n
    <3>1. \/ reactor' = reactor
          \/ \E target, back, stale :
               reactor' = [AtRest EXCEPT !.pc = "restore", !.count = n, !.target = target,
                             !.back = back, !.stale = stale]
      BY <1>11, <2>6 DEF ProcessRevertRequested
    <3>2. QED BY <3>1 DEF AtRest
  <2>8. QED BY <1>1, <2>1, <2>4, <2>5, <2>6, <2>7 DEF Straight, Reverts
<1>12. CASE RestoreTree \/ RollbackConversation \/ DeleteStaleRefs
  <2>1. /\ reactor.pc \in Reverts /\ UNCHANGED <<domain, thread, refused>>
        /\ reactor'.pc = "idle" \/ reactor'.count = reactor.count
    BY <1>12 DEF RestoreTree, RollbackConversation, DeleteStaleRefs, Reverts, AtRest, inbox, views,
       Typed, PartsTyped, ReactorStates
  <2>2. domain = <<>>
    BY <2>1, RevertAlone
  <2>3. QED BY <1>1, <2>1, <2>2 DEF Straight, Reverts
<1>13. CASE CompleteRevert
  <2>1. domain = <<>> /\ domain' = domain /\ reactor'.pc = "idle"
    BY <1>13, RevertAlone DEF CompleteRevert, Reverts, AtRest, inbox
  <2>2. QED BY <2>1, NoneAsked DEF Asked, Reverts
<1>14. QED
  BY <1>3, <1>4, <1>5, <1>6, <1>7, <1>8, <1>9, <1>10, <1>11, <1>12, <1>13 DEF Next, Reactor

\* Each step keeps it.
LEMMA ShownSteps ==
  Typed /\ Captures /\ Uncaptured /\ Ordered /\ SameShown /\ [Next]_vars => SameShown'
<1> SUFFICES ASSUME Typed, Captures, Uncaptured, Ordered, SameShown, [Next]_vars, Calm'
             PROVE  (RowsAgree /\ Begun /\ Sent /\ Apart /\ Straight)'
  BY DEF SameShown
<1>1. Calm
  BY DisturbedGrows DEF Calm
<1>2. Sound /\ RowsAgree /\ Begun /\ Sent /\ Apart /\ Straight
  BY <1>1 DEF Sound, Ordered, Undisturbed, SameShown, Calm
<1>3. ~AbortTurn /\ ~FailReactor
  BY NothingGoesWrong DEF Undisturbed, Calm
<1>4. Apart' /\ Straight'
  BY <1>1, <1>2, <1>3, ApartSteps, StraightSteps
<1>5. RowsAgree' /\ Begun' /\ Sent'
  <2>1. CASE Quiet
    BY <1>2, <2>1, QuietShown DEF Sound
  <2>2. CASE \E t \in Turns : SendMessage(t)
    BY <1>2, <2>2, SendMessageShown
  <2>3. CASE SendTurn
    BY <1>2, <2>3, SendTurnShown
  <2>4. CASE SendTurnFails
    BY <1>2, <2>4, SendTurnFailsShown
  <2>5. CASE IngestTurnStarted \/ IngestTurnEnded
    BY <1>2, <2>5, IngestShown
  <2>6. CASE CompleteMessage
    BY <1>2, <2>6, CompleteMessageShown
  <2>7. CASE DispatchPlaceholder \/ DispatchCheckpoint
    BY <1>2, <2>7, DispatchShown
  <2>8. CASE RollbackConversation
    BY <1>2, <2>8, RollbackShown
  <2>9. CASE CompleteRevert
    BY <1>2, <2>9, CompleteRevertShown
  <2>10. QED
    BY <1>3, <2>1, <2>2, <2>3, <2>4, <2>5, <2>6, <2>7, <2>8, <2>9
       DEF Next, Provider, Ingestion, Reactor, Takes, Quiet
<1>6. QED BY <1>4, <1>5

\* It holds at the start.
LEMMA ShownInit == Init => SameShown
<1> SUFFICES ASSUME Init
             PROVE  RowsAgree /\ Begun /\ Sent /\ Apart /\ Straight
  BY DEF SameShown
<1>1. RowsAgree /\ Begun /\ Apart /\ Straight
  BY DEF Init, RowsAgree, Begun, Apart, Straight, Conversation, AtRest, Reverts, Empty
<1>2. Sent
  <2>1. thread.messages = <<>> /\ table.messages = <<>> /\ Len(thread.messages) = 0
    BY DEF Init
  <2>2. Rank(refused, thread.messages, 0) = 0
    <3>1. UsersTo(refused, thread.messages, 0) = {}
      BY DEF UsersTo
    <3>2. QED BY <3>1, FS_EmptySet DEF Rank
  <2>3. Room = 0
    BY DEF Init, Room, Conversation
  <2>4. Distinct(thread.messages) /\ thread.messages \in Seq(Messages)
    BY <2>1 DEF Distinct
  <2>5. QED BY <2>1, <2>2, <2>3, <2>4 DEF Sent
<1>3. QED BY <1>1, <1>2

\* When all is done and nothing disturbed it, the clients are shown the
\* messages the server decides on: what a revert keeps by the checkpoints of
\* the read model (projector.ts, retainThreadMessagesAfterRevert) is what it
\* keeps by the rows that know the prompts (ProjectionPipeline.ts,
\* retainProjectionMessagesAfterRevert).
THEOREM ViewsAgree == Spec => []MessagesAgree
<1>1. SameShown => MessagesAgree
  BY DEF SameShown, Sent, Calm, MessagesAgree
<1>2. Spec => []SameShown
  <2>1. Spec => [](Typed /\ Captures /\ Uncaptured /\ Ordered)
    BY OrderedAlways
  <2>2. QED BY <2>1, ShownInit, ShownSteps, PTL DEF Spec
<1>3. QED BY <1>1, <1>2, PTL
=============================================================================
