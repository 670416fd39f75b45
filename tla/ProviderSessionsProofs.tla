----------------------- MODULE ProviderSessionsProofs -----------------------
(***************************************************************************)
(* What is proved of ProviderSessions, for any number of calls, processes, *)
(* conversations, events under way, failed accesses and crashes.           *)
(*                                                                         *)
(* No process of a thread is left that its session does not name           *)
(* (NoStrayProcess).  It is inductive only with the other half: of all the *)
(* contexts that were made, exactly the one in the map is not over         *)
(* (OneSession).  A process that listens has a context that is not over,   *)
(* so it is that one.  Every start closes the registered context before it *)
(* registers its own, and every stop, failure and exit empties the map and *)
(* closes it in one step.                                                  *)
(*                                                                         *)
(* The turns of a thread keep to one conversation (ConversationKept).      *)
(* Codex takes a turn in the conversation of the live session, so what has *)
(* to be shown is that this is the conversation of the last turn (RowKept).*)
(* It came to the session from the row, through a start that may have been *)
(* overtaken; hence what each call under way knows (KeptBy).               *)
(*                                                                         *)
(* From the same invariant, a session at rest has a row and a running      *)
(* timer and is in the state the timer stops (AtRestStoppable).            *)
(***************************************************************************)
EXTENDS ProviderSessions, SequenceTheorems, TLAPS

Contexts == [status : {"connecting", "ready", "running", "error", "closed"}, active : BOOLEAN,
             cursor : Nat, over : BOOLEAN, alive : BOOLEAN,
             turn : {"none", "taken", "started"}, announced : BOOLEAN, odd : BOOLEAN]

Stops == {"stop", "stopRuntime", "clear"}

CallStates == [op : Stops \cup {"none", "start", "send", "rollback", "idle"},
               pc : {"done", "read", "opening", "opened", "bind", "asked", "answered", "unbind"},
               context : Nat, cursor : Nat, taken : BOOLEAN, seen : Nat \cup {Absent},
               after : BOOLEAN]

Heard == {"thread.started", "turn.started", "turn.completed", "session.exited"}

\* Contexts, the map and the events under way have their types.
ManagerOK ==
  /\ contexts \in Seq(Contexts) /\ session \in 0..Len(contexts)
  /\ events \in Seq(Heard)

\* A call that waits for Codex knows which process it asked, and only a stop
\* comes to write back what it read.
CallStateOK(c, n) ==
  /\ c \in CallStates /\ c.context <= n
  /\ c.pc \in {"opening", "asked", "answered"} => c.context # 0
  /\ c.pc = "unbind" => c.op \in Stops

CallOK ==
  /\ call \in [Actors -> CallStates]
  /\ \A a \in Actors : CallStateOK(call[a], Len(contexts))

\* Every variable has its type.
TypeOK ==
  /\ binding \in Nat \cup {Absent}
  /\ ManagerOK /\ CallOK
  /\ timer \in BOOLEAN /\ calls \in [Actors -> Nat]
  /\ conversations \in Nat /\ gone \subseteq Nat /\ last \in Nat
  /\ stale \in BOOLEAN /\ faults \in Nat

\* The session of the map is the one context that is not over.
OneSession == \A c \in DOMAIN contexts : contexts[c].over <=> c # session

Inv == TypeOK /\ OneSession

-----------------------------------------------------------------------------
(* Contexts                                                                *)

\* A new context and a closed one are contexts.
LEMMA ContextTypes ==
  NewContext \in Contexts /\ Closed \in Contexts /\ Closed.over /\ ~NewContext.over
BY DEF NewContext, Closed, Contexts

\* Replacing an element of a sequence, or nothing, leaves a sequence of that
\* length.
LEMMA Replacing ==
  ASSUME NEW S, NEW s \in Seq(S), NEW c, NEW x \in S
  PROVE  LET t == [s EXCEPT ![c] = x]
         IN  /\ t \in Seq(S) /\ Len(t) = Len(s) /\ DOMAIN t = DOMAIN s
             /\ \A d \in DOMAIN s : t[d] = IF d = c THEN x ELSE s[d]
<1> DEFINE t == [s EXCEPT ![c] = x]
<1>1. s \in [1..Len(s) -> S] /\ DOMAIN s = 1..Len(s) /\ Len(s) \in Nat
  BY LenProperties
<1>2. t \in [1..Len(s) -> S]
  BY <1>1
<1>3. \A d \in DOMAIN s : t[d] = IF d = c THEN x ELSE s[d]
  BY <1>1
<1>4. t \in Seq(S) /\ Len(t) = Len(s)
  BY <1>1, <1>2
<1>5. QED BY <1>1, <1>2, <1>3, <1>4

\* What the invariant says of the contexts.
LEMMA Registered ==
  ASSUME Inv
  PROVE  /\ contexts \in Seq(Contexts) /\ Len(contexts) \in Nat
         /\ DOMAIN contexts = 1..Len(contexts)
         /\ session \in 0..Len(contexts) /\ session \in Nat /\ events \in Seq(Heard)
         /\ \A c \in 1..Len(contexts) :
              contexts[c] \in Contexts /\ (contexts[c].over <=> c # session)
BY LenProperties DEF Inv, TypeOK, ManagerOK, OneSession

\* A process that listens is that of the session there is.
LEMMA Listening ==
  ASSUME Inv, NEW c \in 1..Len(contexts), Listens(c)
  PROVE  c = session
BY Registered DEF Listens

\* Stopping the registered session leaves none that is not over.
LEMMA StopRegisteredOver ==
  ASSUME Inv
  PROVE  /\ StopRegistered(contexts) \in Seq(Contexts)
         /\ Len(StopRegistered(contexts)) = Len(contexts)
         /\ \A c \in 1..Len(contexts) : StopRegistered(contexts)[c].over
         /\ Exited \in Seq(Heard)
<1>1. CASE session = 0
  BY <1>1, Registered DEF StopRegistered, Exited
<1>2. CASE session # 0
  <2>1. StopRegistered(contexts) = [contexts EXCEPT ![session] = Closed]
    BY <1>2 DEF StopRegistered
  <2>2. Exited = Append(events, "session.exited") /\ "session.exited" \in Heard
    BY <1>2 DEF Exited, Heard
  <2>3. QED BY <2>1, <2>2, Registered, ContextTypes, Replacing, AppendProperties
<1>3. QED BY <1>1, <1>2

\* One context changes, but not whether it is over, and the service may hear
\* of it.
LEMMA ContextChanges ==
  ASSUME Inv, NEW c \in 1..Len(contexts), NEW x \in Contexts, x.over = contexts[c].over,
         contexts' = [contexts EXCEPT ![c] = x], session' = session,
         events' = events \/ \E e \in Heard : events' = Append(events, e)
  PROVE  /\ ManagerOK' /\ OneSession' /\ Len(contexts') = Len(contexts)
         /\ \A d \in 1..Len(contexts) : contexts'[d] = IF d = c THEN x ELSE contexts[d]
<1>1. /\ contexts' \in Seq(Contexts) /\ Len(contexts') = Len(contexts)
      /\ DOMAIN contexts' = DOMAIN contexts
      /\ \A d \in DOMAIN contexts : contexts'[d] = IF d = c THEN x ELSE contexts[d]
  BY Registered, Replacing
<1>2. events' \in Seq(Heard)
  <2>1. events \in Seq(Heard)
    BY Registered
  <2>2. ASSUME NEW e \in Heard, events' = Append(events, e)
        PROVE  events' \in Seq(Heard)
    BY <2>1, <2>2, AppendProperties
  <2>3. QED BY <2>1, <2>2
<1>3. QED BY <1>1, <1>2, Registered DEF ManagerOK, OneSession

\* Stopping the session leaves none in the map.
LEMMA SessionStops ==
  ASSUME Inv, StopSession
  PROVE  ManagerOK' /\ OneSession' /\ Len(contexts') = Len(contexts) /\ session' = 0
<1>1. contexts' \in Seq(Contexts) /\ Len(contexts') = Len(contexts) /\ session' = 0
      /\ events' \in Seq(Heard) /\ \A c \in 1..Len(contexts) : contexts'[c].over
  BY StopRegisteredOver DEF StopSession
<1>2. DOMAIN contexts' = 1..Len(contexts)
  BY <1>1, LenProperties
<1>3. QED BY <1>1, <1>2, Registered DEF ManagerOK, OneSession

-----------------------------------------------------------------------------
(* Calls                                                                   *)

\* A call that is not under way is a call.
LEMMA IdleType == Idle \in CallStates /\ \A n \in Nat : CallStateOK(Idle, n)
BY SessionsAssumption DEF Idle, CallStates, CallStateOK

\* One call changes, and contexts become no fewer.
LEMMA CallChanges ==
  ASSUME CallOK, NEW a \in Actors, NEW x \in CallStates, call' = [call EXCEPT ![a] = x],
         CallStateOK(x, Len(contexts')), Len(contexts) \in Nat, Len(contexts') \in Nat,
         Len(contexts) <= Len(contexts')
  PROVE  CallOK'
<1>1. \A b \in Actors : call[b].context \in Nat
  BY DEF CallOK, CallStates
<1>2. call' \in [Actors -> CallStates]
  BY DEF CallOK
<1>3. ASSUME NEW b \in Actors
      PROVE  CallStateOK(call'[b], Len(contexts'))
  BY <1>1 DEF CallOK, CallStateOK
<1>4. QED BY <1>2, <1>3 DEF CallOK

\* A call comes back.
LEMMA Returns ==
  ASSUME Inv, NEW a \in Actors, Return(a), Len(contexts') = Len(contexts)
  PROVE  CallOK'
<1>1. Len(contexts') \in Nat /\ Len(contexts) \in Nat /\ CallOK
  BY Registered DEF Inv, TypeOK
<1>2. CallStateOK(Idle, Len(contexts')) /\ call' = [call EXCEPT ![a] = Idle]
  BY <1>1, IdleType DEF Return
<1>3. Len(contexts) <= Len(contexts')
  BY <1>1
<1>4. Idle \in CallStates
  BY IdleType
<1>5. QED BY <1>1, <1>2, <1>3, <1>4, CallChanges, Zenon

\* A start closes the session there is and registers its own.
LEMMA Launches ==
  ASSUME Inv, NEW a \in Actors, NEW cursor \in Nat, Launch(a, cursor)
  PROVE  /\ ManagerOK' /\ OneSession' /\ CallOK'
         /\ Len(contexts') = Len(contexts) + 1 /\ session' = Len(contexts) + 1
         /\ contexts'[session'] = NewContext
         /\ call' = [call EXCEPT ![a] =
              [call[a] EXCEPT !.pc = "opening", !.context = Len(contexts) + 1,
                              !.cursor = cursor, !.seen = binding]]
<1> DEFINE cs == StopRegistered(contexts)
<1>1. /\ cs \in Seq(Contexts) /\ Len(cs) = Len(contexts) /\ Exited \in Seq(Heard)
      /\ \A c \in 1..Len(contexts) : cs[c].over
  BY StopRegisteredOver
<1>2. /\ contexts' = Append(cs, NewContext) /\ session' = Len(contexts) + 1 /\ events' = Exited
  BY DEF Launch, Replaced
<1>3. Len(contexts) \in Nat
  BY Registered
<1>4. /\ contexts' \in Seq(Contexts) /\ Len(contexts') = Len(contexts) + 1
      /\ DOMAIN contexts' = 1..(Len(contexts) + 1)
      /\ \A c \in 1..Len(contexts) : contexts'[c] = cs[c]
      /\ contexts'[Len(contexts) + 1] = NewContext
  <2> HIDE DEF cs
  <2> QED BY <1>1, <1>2, ContextTypes, AppendProperties, LenProperties
<1>5. \A c \in DOMAIN contexts' : contexts'[c].over <=> c # session'
  <2> TAKE c \in DOMAIN contexts'
  <2>1. CASE c = Len(contexts) + 1
    BY <2>1, <1>2, <1>4, ContextTypes
  <2>2. CASE c \in 1..Len(contexts)
    BY <2>2, <1>1, <1>2, <1>3, <1>4
  <2>3. QED BY <1>3, <1>4, <2>1, <2>2
<1>6. ManagerOK' /\ OneSession'
  BY <1>1, <1>2, <1>3, <1>4, <1>5 DEF ManagerOK, OneSession
<1> DEFINE x == [call[a] EXCEPT !.pc = "opening", !.context = Len(contexts) + 1,
                                !.cursor = cursor, !.seen = binding]
<1>7. call' = [call EXCEPT ![a] = x]
  BY DEF Launch, Inv, TypeOK, CallOK
<1>8. CallOK'
  <2>1. call[a] \in CallStates /\ binding \in Nat \cup {Absent} /\ Len(contexts) + 1 \in Nat
        /\ CallOK
    BY <1>3 DEF Inv, TypeOK, CallOK
  <2>2. /\ x \in CallStates /\ x.pc = "opening" /\ x.context = Len(contexts) + 1
    BY <2>1 DEF CallStates
  <2>3. /\ Len(contexts') \in Nat /\ Len(contexts') = Len(contexts) + 1
        /\ Len(contexts) <= Len(contexts')
    BY <1>3, <1>4
  <2>4. CallStateOK(x, Len(contexts'))
    BY <1>3, <2>2, <2>3 DEF CallStateOK
  <2> HIDE DEF x
  <2>5. QED BY <1>3, <1>7, <2>1, <2>2, <2>3, <2>4, CallChanges, Zenon
<1>9. QED BY <1>2, <1>4, <1>6, <1>7, <1>8

\* A request goes to the session there is, or comes back.
LEMMA Asks ==
  ASSUME Inv, NEW a \in Actors, binding' \in Nat \cup {Absent}, Ask(a),
         Len(contexts') = Len(contexts)
  PROVE  CallOK'
<1>1. CASE Return(a)
  BY <1>1, Returns
<1>2. CASE /\ session # 0
           /\ call' = [call EXCEPT ![a].pc = "asked", ![a].context = session, ![a].cursor = 0,
                                   ![a].seen = binding']
  <2> DEFINE x == [call[a] EXCEPT !.pc = "asked", !.context = session, !.cursor = 0,
                                  !.seen = binding']
  <2>1. call \in [Actors -> CallStates] /\ call[a] \in CallStates
    BY DEF Inv, TypeOK, CallOK
  <2>2. x \in CallStates /\ x.pc = "asked" /\ x.context = session
    BY <2>1, Registered DEF CallStates
  <2>3. CallStateOK(x, Len(contexts'))
    BY <1>2, <2>2, Registered DEF CallStateOK
  <2>4. call' = [call EXCEPT ![a] = x]
    BY <1>2, <2>1
  <2> HIDE DEF x
  <2>5. Len(contexts) \in Nat /\ Len(contexts') \in Nat /\ Len(contexts) <= Len(contexts') /\ CallOK
    BY Registered DEF Inv, TypeOK
  <2>6. QED BY <2>2, <2>3, <2>4, <2>5, CallChanges, Zenon
<1>3. QED BY <1>1, <1>2 DEF Ask

-----------------------------------------------------------------------------
(* The steps                                                               *)

\* What a call, or the timer, begins.
LEMMA BeginSteps ==
  ASSUME Inv,
         \/ TimerFires
         \/ \E a \in Actors, op \in {"start", "send", "rollback", "stop", "stopRuntime", "clear"} :
              Begin(a, op)
  PROVE  Inv'
<1> USE SessionsAssumption
<1>1. CASE TimerFires
  <2> DEFINE x == [Idle EXCEPT !.op = "idle", !.pc = "read"]
  <2>1. x \in CallStates /\ x.pc = "read" /\ x.context = 0 /\ "timer" \in Actors
    BY DEF Idle, CallStates, Actors
  <2>2. Len(contexts) \in Nat /\ Len(contexts') \in Nat /\ Len(contexts) <= Len(contexts') /\ CallOK
    BY <1>1, Registered DEF TimerFires, Inv, TypeOK
  <2>3. CallStateOK(x, Len(contexts')) /\ call' = [call EXCEPT !["timer"] = x] /\ timer' = FALSE
    BY <1>1, <2>1, <2>2 DEF CallStateOK, TimerFires
  <2> HIDE DEF x
  <2>4. CallOK'
    BY <2>1, <2>2, <2>3, CallChanges, Zenon
  <2>5. QED BY <1>1, <2>3, <2>4 DEF TimerFires, codex, Inv, TypeOK, ManagerOK, OneSession
<1>2. ASSUME NEW a \in Actors,
             NEW op \in {"start", "send", "rollback", "stop", "stopRuntime", "clear"}, Begin(a, op)
      PROVE  Inv'
  <2> DEFINE x == [Idle EXCEPT !.op = op, !.pc = "read", !.after = timer]
  <2>1. x \in CallStates /\ x.pc = "read" /\ x.context = 0
    BY DEF Idle, CallStates, Stops, Inv, TypeOK
  <2>2. Len(contexts) \in Nat /\ Len(contexts') \in Nat /\ Len(contexts) <= Len(contexts') /\ CallOK
    BY <1>2, Registered DEF Begin, Inv, TypeOK
  <2>3. CallStateOK(x, Len(contexts')) /\ call' = [call EXCEPT ![a] = x]
    BY <1>2, <2>1, <2>2 DEF CallStateOK, Begin
  <2>4. CallOK'
    <3> HIDE DEF x
    <3> QED BY <2>1, <2>2, <2>3, CallChanges, Zenon
  <2>5. timer' \in BOOLEAN /\ calls' \in [Actors -> Nat]
    BY <1>2 DEF Begin, Inv, TypeOK
  <2>6. QED BY <1>2, <2>4, <2>5 DEF Begin, codex, Inv, TypeOK, ManagerOK, OneSession
<1>3. QED BY <1>1, <1>2

\* Nothing happens to the manager.
LEMMA ManagerRests ==
  ASSUME Inv, UNCHANGED <<contexts, session, events>>
  PROVE  ManagerOK' /\ OneSession' /\ Len(contexts') = Len(contexts)
BY DEF Inv, TypeOK, ManagerOK, OneSession

\* What a call does after it has read the row.
LEMMA ReadSteps ==
  ASSUME Inv, NEW a \in Actors, Read(a)
  PROVE  Inv'
<1>1. /\ binding' = binding /\ calls' = calls /\ conversations' = conversations /\ gone' = gone
      /\ last' = last /\ stale' = stale /\ faults' = faults
      /\ ReadForStart(a) \/ ReadForRequest(a) \/ ReadForIdle(a) \/ ReadForStop(a)
  BY DEF Read, codex
<1>2. binding \in Nat \cup {Absent} /\ StartCursor \in Nat /\ CallOK
  BY DEF Inv, TypeOK, StartCursor
<1>3. SUFFICES ManagerOK' /\ OneSession' /\ CallOK' /\ timer' \in BOOLEAN
  BY <1>1 DEF Inv, TypeOK
<1>4. CASE ReadForStart(a)
  BY <1>2, <1>4, Launches DEF ReadForStart, Inv, TypeOK
<1>5. CASE ReadForRequest(a)
  <2>1. timer' \in BOOLEAN
    BY <1>5 DEF ReadForRequest, Inv, TypeOK
  <2>2. CASE Launch(a, StartCursor)
    BY <1>2, <2>1, <2>2, Launches
  <2>3. CASE Ask(a) /\ UNCHANGED <<contexts, session, events>>
    BY <1>1, <1>2, <2>1, <2>3, Asks, ManagerRests
  <2>4. CASE Return(a) /\ UNCHANGED <<contexts, session, events>>
    BY <2>1, <2>4, Returns, ManagerRests
  <2>5. QED BY <1>5, <2>2, <2>3, <2>4 DEF ReadForRequest
<1>6. CASE ReadForIdle(a)
  <2>1. timer' \in BOOLEAN /\ UNCHANGED <<contexts, session, events>>
    BY <1>6 DEF ReadForIdle, Inv, TypeOK
  <2>2. CASE call' = [call EXCEPT ![a].op = "stopRuntime"]
    <3> DEFINE x == [call[a] EXCEPT !.op = "stopRuntime"]
    <3>1. CallStateOK(call[a], Len(contexts)) /\ call \in [Actors -> CallStates]
      BY <1>2 DEF CallOK
    <3>2. x \in CallStates /\ x.pc = call[a].pc /\ x.context = call[a].context /\ x.op \in Stops
      BY <3>1 DEF CallStateOK, CallStates, Stops
    <3>3. CallStateOK(x, Len(contexts')) /\ call' = [call EXCEPT ![a] = x]
      BY <2>1, <2>2, <3>1, <3>2 DEF CallStateOK
    <3> HIDE DEF x
    <3>4. Len(contexts) \in Nat /\ Len(contexts') \in Nat /\ Len(contexts) <= Len(contexts')
      BY <2>1, Registered
    <3>5. CallOK'
      BY <1>2, <3>2, <3>3, <3>4, CallChanges, Zenon
    <3>6. QED BY <2>1, <3>5, ManagerRests
  <2>3. CASE Return(a)
    BY <2>1, <2>3, Returns, ManagerRests
  <2>4. QED BY <1>6, <2>2, <2>3 DEF ReadForIdle
<1>7. CASE ReadForStop(a)
  <2>1. timer' \in BOOLEAN /\ call[a].op \in Stops
    BY <1>7 DEF ReadForStop, Inv, TypeOK, Stops
  <2>2. CASE Return(a) /\ UNCHANGED <<contexts, session, events>>
    BY <2>1, <2>2, Returns, ManagerRests
  <2>3. CASE /\ binding # Absent /\ StopSession
             /\ call' = [call EXCEPT ![a].pc = "unbind", ![a].cursor = binding,
                                     ![a].seen = binding, ![a].context = Len(contexts)]
    <3> DEFINE x == [call[a] EXCEPT !.pc = "unbind", !.cursor = binding,
                                    !.seen = binding, !.context = Len(contexts)]
    <3>1. call[a] \in CallStates /\ binding \in Nat /\ call \in [Actors -> CallStates]
      BY <1>2, <2>3 DEF CallOK
    <3>2. Len(contexts) \in Nat /\ Len(contexts') \in Nat /\ Len(contexts) <= Len(contexts')
          /\ Len(contexts') = Len(contexts) /\ ManagerOK' /\ OneSession'
      BY <2>3, SessionStops, Registered
    <3>3. x \in CallStates /\ x.pc = "unbind" /\ x.context = Len(contexts) /\ x.op \in Stops
      BY <2>1, <3>1, <3>2 DEF CallStates
    <3>4. CallStateOK(x, Len(contexts')) /\ call' = [call EXCEPT ![a] = x]
      BY <2>3, <3>1, <3>2, <3>3 DEF CallStateOK
    <3> HIDE DEF x
    <3>5. CallOK'
      BY <1>2, <3>2, <3>3, <3>4, CallChanges, Zenon
    <3>6. QED BY <2>1, <3>2, <3>5
  <2>4. QED BY <1>7, <2>2, <2>3 DEF ReadForStop
<1>8. QED BY <1>1, <1>4, <1>5, <1>6, <1>7

\* What a call does to the row.
LEMMA RowSteps ==
  ASSUME Inv, NEW a \in Actors, Bind(a) \/ Unbind(a) \/ AccessFails(a)
  PROVE  Inv'
<1>1. CallOK /\ call[a] \in CallStates /\ call[a].cursor \in Nat
  BY DEF Inv, TypeOK, CallOK, CallStates
<1>2. UNCHANGED <<contexts, session, events>> /\ contexts' = contexts
  BY DEF Bind, Unbind, AccessFails
<1>3. CASE Bind(a)
  <2>1. binding' \in Nat /\ stale' \in BOOLEAN
    BY <1>1, <1>3 DEF Bind, Overtaken, Inv, TypeOK
  <2>2. CallOK'
    BY <1>2, <1>3, <2>1, Returns, Asks DEF Bind
  <2>3. QED BY <1>2, <1>3, <2>1, <2>2, ManagerRests DEF Bind, codex, Inv, TypeOK
<1>4. CASE Unbind(a)
  <2>1. call[a].op \in Stops
    BY <1>4 DEF Unbind, At, Inv, TypeOK, CallOK, CallStateOK
  <2>2. AfterStop(call[a]) \in Nat \cup {Absent}
    BY <1>1, <2>1 DEF AfterStop, Stops
  <2>3. binding' \in Nat \cup {Absent} /\ stale' \in BOOLEAN /\ last' \in Nat
    BY <1>4, <2>2 DEF Unbind, Overtaken, Inv, TypeOK
  <2>4. CallOK'
    BY <1>2, <1>4, Returns DEF Unbind
  <2>5. QED BY <1>2, <1>4, <2>3, <2>4, ManagerRests DEF Unbind, codex, Inv, TypeOK
<1>5. CASE AccessFails(a)
  <2>1. CallOK' /\ faults' \in Nat /\ stale' \in BOOLEAN
    BY <1>2, <1>5, Returns DEF AccessFails, Inv, TypeOK
  <2>2. QED BY <1>2, <1>5, <2>1, ManagerRests DEF AccessFails, codex, Inv, TypeOK
<1>6. QED BY <1>3, <1>4, <1>5

\* The invariant of a call lets its next state be checked field by field.
LEMMA CallUpdates ==
  ASSUME Inv, NEW a \in Actors, NEW x \in CallStates, call' = [call EXCEPT ![a] = x],
         Len(contexts') = Len(contexts), x.context = call[a].context,
         x.pc \in {"opening", "asked", "answered"} => x.context # 0, x.pc # "unbind"
  PROVE  CallOK'
<1>1. Len(contexts) \in Nat /\ Len(contexts') \in Nat /\ Len(contexts) <= Len(contexts') /\ CallOK
  BY Registered DEF Inv, TypeOK
<1>2. CallStateOK(x, Len(contexts'))
  BY <1>1 DEF CallOK, CallStateOK
<1>3. QED BY <1>1, <1>2, CallChanges, Zenon

\* A call that waits for an answer asked a process there was.
LEMMA Asked ==
  ASSUME Inv, NEW a \in Actors, call[a].pc \in {"opening", "asked", "answered"}
  PROVE  call[a].context \in 1..Len(contexts)
BY Registered DEF Inv, TypeOK, CallOK, CallStateOK, CallStates

\* The conversation of a call's process is open, announced or not.
Opens(a, n) == Opened(a, n, TRUE) \/ Opened(a, n, FALSE)

\* That changes the call and its context.
LEMMA Opening ==
  ASSUME Inv, NEW a \in Actors, At(a, "opening"), NEW n \in Nat, Opens(a, n),
         session' = session
  PROVE  /\ ManagerOK' /\ OneSession' /\ CallOK' /\ Len(contexts') = Len(contexts)
         /\ \A d \in 1..Len(contexts) :
              contexts'[d].cursor = IF d = call[a].context THEN n ELSE contexts[d].cursor
         /\ call' = [call EXCEPT ![a] = [call[a] EXCEPT !.pc = "opened", !.cursor = n]]
<1>0. PICK b \in BOOLEAN : Opened(a, n, b)
  BY DEF Opens
<1> DEFINE c == call[a].context
           x == [contexts[c] EXCEPT !.status = "ready", !.cursor = n, !.announced = b]
           y == [call[a] EXCEPT !.pc = "opened", !.cursor = n]
<1>1. call \in [Actors -> CallStates] /\ call[a] \in CallStates
  BY DEF Inv, TypeOK, CallOK
<1>2. c \in 1..Len(contexts) /\ contexts[c] \in Contexts
  BY Asked, Registered DEF At
<1>3. x \in Contexts /\ x.over = contexts[c].over /\ x.cursor = n
  BY <1>2 DEF Contexts
<1>4. contexts' = [contexts EXCEPT ![c] = x]
  BY <1>0 DEF Opened
<1>5. events' = events \/ \E e \in Heard : events' = Append(events, e)
  BY <1>0 DEF Opened, Heard
<1>6. y \in CallStates /\ y.pc = "opened" /\ y.context = c /\ call' = [call EXCEPT ![a] = y]
  BY <1>0, <1>1 DEF CallStates, Opened
<1>7. /\ ManagerOK' /\ OneSession' /\ Len(contexts') = Len(contexts)
      /\ \A d \in 1..Len(contexts) : contexts'[d] = IF d = c THEN x ELSE contexts[d]
  <2> HIDE DEF x
  <2> QED BY <1>2, <1>3, <1>4, <1>5, ContextChanges
<1>8. CallOK'
  <2> HIDE DEF y
  <2> QED BY <1>6, <1>7, CallUpdates
<1>9. QED BY <1>3, <1>6, <1>7, <1>8

\* What a call does while Codex opens its conversation.
LEMMA OpeningSteps ==
  ASSUME Inv, NEW a \in Actors, Resume(a) \/ OpenFresh(a) \/ Start(a) \/ OpenFails(a)
  PROVE  Inv'
<1>1. call \in [Actors -> CallStates] /\ call[a] \in CallStates /\ call[a].cursor \in Nat
  BY DEF Inv, TypeOK, CallOK, CallStates
<1>2. CASE Resume(a)
  <2>1. ManagerOK' /\ OneSession' /\ CallOK'
    BY <1>1, <1>2, Opening DEF Resume, Opens, codex
  <2>2. QED BY <1>2, <2>1 DEF Resume, codex, Inv, TypeOK
<1>3. CASE OpenFresh(a)
  <2>1. conversations + 1 \in Nat
    BY DEF Inv, TypeOK
  <2>2. ManagerOK' /\ OneSession' /\ CallOK'
    BY <1>3, <2>1, Opening DEF OpenFresh, Opens
  <2>3. conversations' \in Nat /\ last' \in Nat
    BY <1>3, <2>1 DEF OpenFresh, Inv, TypeOK
  <2>4. gone' \subseteq Nat
    <3>1. gone' = gone \cup ({call[a].cursor} \ {0}) /\ gone \subseteq Nat
      BY <1>3 DEF OpenFresh, Inv, TypeOK
    <3>2. QED BY <1>1, <3>1
  <2>5. UNCHANGED <<binding, timer, calls, stale, faults>>
    BY <1>3 DEF OpenFresh
  <2>6. QED BY <2>2, <2>3, <2>4, <2>5 DEF Inv, TypeOK
<1>4. CASE Start(a)
  <2> DEFINE y == [call[a] EXCEPT !.pc = "bind"]
  <2>1. y \in CallStates /\ y.pc = "bind" /\ y.context = call[a].context
        /\ call' = [call EXCEPT ![a] = y]
    BY <1>1, <1>4 DEF Start, Goto, CallStates
  <2>2. UNCHANGED <<contexts, session, events>>
    BY <1>4 DEF Start
  <2>3. CallOK'
    <3> HIDE DEF y
    <3> QED BY <2>1, <2>2, CallUpdates
  <2>4. QED BY <1>4, <2>2, <2>3, ManagerRests DEF Start, codex, Inv, TypeOK
<1>5. CASE OpenFails(a)
  <2>1. ManagerOK' /\ OneSession' /\ CallOK'
    BY <1>5, SessionStops, Returns DEF OpenFails
  <2>2. QED BY <1>5, <2>1 DEF OpenFails, codex, Inv, TypeOK
<1>6. QED BY <1>2, <1>3, <1>4, <1>5

\* What a call does while Codex handles its request.
LEMMA RequestSteps ==
  ASSUME Inv, NEW a \in Actors, Take(a) \/ Answer(a) \/ AskFails(a) \/ Continue(a)
  PROVE  Inv'
<1> DEFINE c == call[a].context
<1>1. call \in [Actors -> CallStates] /\ call[a] \in CallStates
  BY DEF Inv, TypeOK, CallOK
<1>2. CASE Take(a)
  <2> DEFINE x == [contexts[c] EXCEPT !.turn = "taken"]
             y == [call[a] EXCEPT !.taken = TRUE]
  <2>0. c \in 1..Len(contexts) /\ contexts[c] \in Contexts
    BY <1>2, Asked, Registered DEF Take, At
  <2>1. x \in Contexts /\ x.over = contexts[c].over /\ contexts[c].cursor \in Nat
    BY <2>0 DEF Contexts
  <2>2. contexts' = [contexts EXCEPT ![c] = x] /\ session' = session /\ events' = events
        /\ last' = contexts[c].cursor
    BY <1>2 DEF Take
  <2>3. y \in CallStates /\ y.pc = "asked" /\ y.context = c /\ call' = [call EXCEPT ![a] = y]
    BY <1>1, <1>2 DEF Take, At, CallStates
  <2>4. ManagerOK' /\ OneSession' /\ Len(contexts') = Len(contexts)
    <3> HIDE DEF x
    <3> QED BY <2>0, <2>1, <2>2, ContextChanges
  <2>5. y.context # 0
    BY <2>0, <2>3, Registered
  <2>6. CallOK'
    <3> HIDE DEF y
    <3> QED BY <2>3, <2>4, <2>5, CallUpdates
  <2>7. QED BY <1>2, <2>1, <2>2, <2>4, <2>6 DEF Take, codex, Inv, TypeOK
<1>3. CASE Answer(a)
  <2> DEFINE y == [call[a] EXCEPT !.pc = "answered", !.cursor = contexts[c].cursor]
  <2>0. c \in 1..Len(contexts) /\ contexts[c] \in Contexts
    BY <1>3, Asked, Registered DEF Answer, At
  <2>1. contexts[c].cursor \in Nat /\ UNCHANGED <<contexts, session, events>>
    BY <1>3, <2>0 DEF Contexts, Answer
  <2>2. y \in CallStates /\ y.pc = "answered" /\ y.context = c /\ call' = [call EXCEPT ![a] = y]
    BY <1>1, <1>3, <2>1 DEF Answer, CallStates
  <2>3. y.context # 0 /\ Len(contexts') = Len(contexts)
    BY <2>0, <2>1, <2>2, Registered
  <2>4. CallOK'
    <3> HIDE DEF y
    <3> QED BY <2>2, <2>3, CallUpdates
  <2>5. QED BY <1>3, <2>1, <2>4, ManagerRests DEF Answer, codex, Inv, TypeOK
<1>4. CASE AskFails(a)
  <2>1. UNCHANGED <<contexts, session, events>> /\ CallOK'
    BY <1>4, Returns DEF AskFails
  <2>2. QED BY <1>4, <2>1, ManagerRests DEF AskFails, codex, Inv, TypeOK
<1>5. CASE Continue(a)
  <2> DEFINE sent == call[a].op = "send"
             x == IF contexts[c].over THEN contexts[c]
                  ELSE [contexts[c] EXCEPT !.status = IF sent THEN "running" ELSE "ready",
                                           !.active = sent,
                                           !.odd = IF sent THEN contexts[c].turn = "none" ELSE @]
  <2>0. c \in 1..Len(contexts) /\ contexts[c] \in Contexts
    BY <1>5, Asked, Registered DEF Continue, At
  <2>1. x \in Contexts /\ x.over = contexts[c].over
    BY <2>0 DEF Contexts
  <2>2. contexts' = [contexts EXCEPT ![c] = x] /\ session' = session /\ events' = events
    <3>1. contexts = [contexts EXCEPT ![c] = contexts[c]]
      BY Registered
    <3>2. QED BY <1>5, <3>1 DEF Continue
  <2>3. ManagerOK' /\ OneSession' /\ Len(contexts') = Len(contexts)
    <3> HIDE DEF x
    <3> QED BY <2>0, <2>1, <2>2, ContextChanges
  <2>4. CallOK'
    <3>1. CASE Return(a)
      BY <2>3, <3>1, Returns
    <3>2. CASE Goto(a, "bind")
      <4> DEFINE y == [call[a] EXCEPT !.pc = "bind"]
      <4>1. y \in CallStates /\ y.pc = "bind" /\ y.context = c /\ call' = [call EXCEPT ![a] = y]
        BY <1>1, <3>2 DEF Goto, CallStates
      <4> HIDE DEF y
      <4>2. QED BY <2>3, <4>1, CallUpdates
    <3>3. QED BY <1>5, <3>1, <3>2 DEF Continue
  <2>5. QED BY <1>5, <2>3, <2>4 DEF Continue, codex, Inv, TypeOK
<1>6. QED BY <1>2, <1>3, <1>4, <1>5

\* What a process says, or how it ends.
LEMMA ProcessSteps ==
  ASSUME Inv, NEW c \in DOMAIN contexts,
         NotifyStarted(c) \/ NotifyCompleted(c) \/ Die(c) \/ HearExit(c)
  PROVE  Inv'
<1>1. c \in 1..Len(contexts) /\ contexts[c] \in Contexts /\ CallOK /\ Len(contexts) \in Nat
  BY Registered DEF Inv, TypeOK
<1>2. call' = call
  BY DEF NotifyStarted, NotifyCompleted, Die, HearExit
<1>3. Len(contexts') = Len(contexts) => CallOK'
  BY <1>1, <1>2 DEF CallOK
<1>4. ASSUME NEW x \in Contexts, x.over = contexts[c].over, contexts' = [contexts EXCEPT ![c] = x],
             session' = session, events' = events \/ \E e \in Heard : events' = Append(events, e)
      PROVE  ManagerOK' /\ OneSession' /\ CallOK'
  BY <1>1, <1>3, <1>4, ContextChanges
<1>5. CASE NotifyStarted(c)
  <2> DEFINE x == [contexts[c] EXCEPT !.turn = "started", !.status = "running", !.active = TRUE]
  <2>1. x \in Contexts /\ x.over = contexts[c].over
    BY <1>1 DEF Contexts
  <2>2. contexts' = [contexts EXCEPT ![c] = x] /\ \E e \in Heard : events' = Append(events, e)
    BY <1>5 DEF NotifyStarted, Heard
  <2>3. ManagerOK' /\ OneSession' /\ CallOK'
    <3> HIDE DEF x
    <3> QED BY <1>4, <1>5, <2>1, <2>2 DEF NotifyStarted
  <2>4. QED BY <1>5, <2>3 DEF NotifyStarted, codex, Inv, TypeOK
<1>6. CASE NotifyCompleted(c)
  <2>1. PICK f \in BOOLEAN :
          contexts' = [contexts EXCEPT ![c].turn = "none", ![c].active = FALSE,
                         ![c].status = IF f THEN "error" ELSE "ready",
                         ![c].announced = TRUE, ![c].odd = f]
    BY <1>6 DEF NotifyCompleted
  <2> DEFINE x == [contexts[c] EXCEPT !.turn = "none", !.active = FALSE,
                     !.status = IF f THEN "error" ELSE "ready", !.announced = TRUE, !.odd = f]
  <2>2. x \in Contexts /\ x.over = contexts[c].over
    BY <1>1 DEF Contexts
  <2>3. contexts' = [contexts EXCEPT ![c] = x] /\ \E e \in Heard : events' = Append(events, e)
    BY <1>6, <2>1 DEF NotifyCompleted, Heard
  <2>4. ManagerOK' /\ OneSession' /\ CallOK'
    <3> HIDE DEF x
    <3> QED BY <1>4, <1>6, <2>2, <2>3 DEF NotifyCompleted
  <2>5. QED BY <1>6, <2>4 DEF NotifyCompleted, codex, Inv, TypeOK
<1>7. CASE Die(c)
  <2> DEFINE x == [contexts[c] EXCEPT !.alive = FALSE, !.turn = "none"]
  <2>1. x \in Contexts /\ x.over = contexts[c].over
    BY <1>1 DEF Contexts
  <2>2. contexts' = [contexts EXCEPT ![c] = x]
    BY <1>7 DEF Die
  <2>3. ManagerOK' /\ OneSession' /\ CallOK'
    <3> HIDE DEF x
    <3> QED BY <1>4, <1>7, <2>1, <2>2 DEF Die
  <2>4. QED BY <1>7, <2>3 DEF Die, codex, Inv, TypeOK
<1>8. CASE HearExit(c)
  <2>1. c = session /\ c # 0
    BY <1>1, <1>8, Registered DEF HearExit
  <2>2. StopSession
    BY <1>8, <2>1 DEF HearExit, StopSession, StopRegistered, Exited
  <2>3. QED BY <1>3, <1>8, <2>2, SessionStops DEF HearExit, codex, Inv, TypeOK
<1>9. QED BY <1>5, <1>6, <1>7, <1>8

\* The service's ears, and the end of the server.
LEMMA ServerSteps ==
  ASSUME Inv, Reconcile \/ \E graceful \in BOOLEAN : EndServer(graceful)
  PROVE  Inv'
<1>1. CASE Reconcile
  <2>1. call' = [a \in Actors |-> [call[a] EXCEPT !.after = FALSE]] /\ contexts' = contexts
        /\ session' = session /\ events' \in Seq(Heard) /\ timer' \in BOOLEAN
    BY <1>1, Registered, HeadTailProperties DEF Reconcile
  <2>2. ManagerOK' /\ OneSession'
    BY <2>1 DEF ManagerOK, OneSession, Inv, TypeOK
  <2>3. ASSUME NEW a \in Actors
        PROVE  call'[a] \in CallStates /\ CallStateOK(call'[a], Len(contexts))
    BY <2>1 DEF Inv, TypeOK, CallOK, CallStateOK, CallStates
  <2>4. CallOK'
    BY <2>1, <2>3 DEF CallOK
  <2>5. QED BY <1>1, <2>1, <2>2, <2>4 DEF Reconcile, codex, Inv, TypeOK
<1>2. ASSUME NEW graceful \in BOOLEAN, EndServer(graceful)
      PROVE  Inv'
  <2>1. contexts' = [c \in DOMAIN contexts |-> Closed] /\ session' = 0 /\ events' = <<>>
        /\ call' = [a \in Actors |-> Idle] /\ timer' = FALSE /\ faults' \in Nat
    BY <1>2 DEF EndServer, Inv, TypeOK
  <2>2. contexts' \in Seq(Contexts) /\ Len(contexts') = Len(contexts)
        /\ DOMAIN contexts' = 1..Len(contexts)
    BY <2>1, Registered, ContextTypes
  <2>3. ManagerOK' /\ OneSession'
    <3>1. \A c \in DOMAIN contexts' : contexts'[c].over /\ c # 0
      BY <2>1, <2>2, Registered, ContextTypes
    <3>2. QED BY <2>1, <2>2, <3>1, Registered DEF ManagerOK, OneSession
  <2>4. CallOK'
    BY <2>1, <2>2, IdleType, Registered DEF CallOK
  <2>5. binding' \in Nat \cup {Absent}
    <3>1. session # 0 => contexts[session].cursor \in Nat
      BY Registered DEF Contexts
    <3>2. QED BY <1>2, <3>1 DEF EndServer, StartCursor, Inv, TypeOK
  <2>6. QED BY <1>2, <2>1, <2>3, <2>4, <2>5 DEF EndServer, codex, Inv, TypeOK
<1>3. QED BY <1>1, <1>2

\* The invariant holds at first.
LEMMA Initially == Init => Inv
<1>1. ASSUME Init
      PROVE  Inv
  <2>1. ManagerOK /\ OneSession /\ Len(contexts) = 0
    BY <1>1 DEF Init, ManagerOK, OneSession
  <2>2. CallOK
    BY <1>1, <2>1, IdleType DEF Init, CallOK
  <2>3. QED BY <1>1, <2>1, <2>2 DEF Init, Inv, TypeOK
<1>2. QED BY <1>1

\* Every step keeps the invariant.
LEMMA Steps == Inv /\ [Next]_vars => Inv'
<1> SUFFICES ASSUME Inv, [Next]_vars
             PROVE  Inv'
  OBVIOUS
<1>1. CASE UNCHANGED vars
  BY <1>1 DEF vars, codex, Inv, TypeOK, ManagerOK, CallOK, OneSession
<1>2. CASE Next
  BY <1>2, BeginSteps, ReadSteps, RowSteps, OpeningSteps, RequestSteps, ProcessSteps, ServerSteps
     DEF Next, Progress
<1>3. QED BY <1>1, <1>2

\* The variables keep their types, and of all processes that were started
\* the map names the one that is not over.
THEOREM Invariance == Spec => []Inv
<1>1. QED BY Initially, Steps, PTL DEF Spec

\* However starts, stops, timeouts, deaths and crashes cross, no process runs
\* that the thread's session does not name.
THEOREM OneProcess == Spec => []NoStrayProcess
<1>1. Inv => NoStrayProcess
  <2> SUFFICES ASSUME Inv
               PROVE  NoStrayProcess
    OBVIOUS
  <2>1. \A c \in DOMAIN contexts : Listens(c) => session = c
    BY Listening, Registered
  <2>2. session # 0 => ~contexts[session].over
    BY Registered
  <2>3. QED BY <2>1, <2>2 DEF NoStrayProcess
<1>2. QED BY <1>1, Invariance, PTL

-----------------------------------------------------------------------------
(* One conversation                                                        *)

\* The conversation of the live session, 0 when it has none.
Current == IF session = 0 THEN 0 ELSE contexts[session].cursor

\* A start whose session is the live one has not written the row yet.
Starting(a) ==
  /\ call[a].op = "start" /\ call[a].pc \in {"opened", "bind"}
  /\ call[a].context = session

\* What call a may rely on: while its process opens a conversation the row is
\* as it was read, and what it comes back with is what the session has.
KeptBy(a) ==
  /\ call[a].op \in {"start", "send", "stop", "clear"} => a = "reactor"
  /\ At(a, "opening") /\ call[a].cursor = 0 => call[a].op = "start"
  /\ At(a, "opening") /\ call[a].context = session =>
       Current = 0 /\ (stale \/ call[a].cursor = StartCursor)
  /\ At(a, "asked") /\ call[a].context = session => Current # 0
  /\ call[a].pc \in {"opened", "bind", "answered"} /\ call[a].context = Len(contexts) =>
       /\ call[a].cursor # 0
       /\ session # 0 => Current = call[a].cursor
       /\ stale \/ last = 0 \/ call[a].cursor \in {last} \cup gone
  /\ At(a, "unbind") =>
       call[a].cursor = call[a].seen /\ (call[a].context = Len(contexts) => session = 0)

\* Two calls do not open a conversation in one process.
Apart ==
  \A a, b \in Actors :
    /\ a # b /\ call[a].pc \in {"opening", "opened"} /\ call[b].pc \in {"opening", "opened"}
    => call[a].context # call[b].context

\* The row and the session have the conversation of the last turn, or one that
\* Codex does not have any more.
RowKept ==
  stale \/ /\ last # 0 => binding \in {last} \cup gone
           /\ Current # 0 => binding \in {Current} \cup gone \/ \E a \in Actors : Starting(a)
           /\ last # 0 => Current \in {0, last}

Kept ==
  /\ session # 0 => session = Len(contexts)
  /\ 0 \notin gone
  /\ \A a \in Actors : KeptBy(a)
  /\ Apart /\ RowKept

-----------------------------------------------------------------------------
(* What does not touch the session                                         *)

\* The types a proof about calls needs.
LEMMA Types ==
  ASSUME Inv
  PROVE  /\ call \in [Actors -> CallStates]
         /\ \A a \in Actors : /\ call[a].context \in Nat /\ call[a].context <= Len(contexts)
                              /\ call[a].cursor \in Nat
                              /\ call[a].pc \in {"opening", "asked", "answered"} =>
                                   call[a].context # 0
         /\ Len(contexts) \in Nat /\ session \in Nat /\ session <= Len(contexts)
         /\ binding \in Nat \cup {Absent} /\ last \in Nat /\ gone \subseteq Nat
         /\ Absent \notin Nat /\ Current \in Nat
<1>1. session # 0 => contexts[session].cursor \in Nat
  BY Registered DEF Contexts
<1>2. Current \in Nat
  BY <1>1 DEF Current
<1>3. QED BY <1>2, Registered, SessionsAssumption DEF Inv, TypeOK, CallOK, CallStateOK, CallStates

\* The session stops, and the calls are what they were, at an end, or about
\* to write back what they read.
LEMMA SessionEnds ==
  ASSUME Inv, Kept, session' = 0, Len(contexts') = Len(contexts),
         UNCHANGED <<gone, last, stale>>,
         stale \/ last = 0 \/ binding' \in {last} \cup gone,
         \A a \in Actors :
           \/ call'[a] = call[a] \/ call'[a] = Idle
           \/ /\ call'[a].pc = "unbind" /\ call'[a].op = call[a].op
              /\ call'[a].cursor = call'[a].seen
  PROVE  Kept'
<1>1. Current' = 0
  BY DEF Current
<1>2. ASSUME NEW a \in Actors
      PROVE  KeptBy(a)'
  <2>1. CASE call'[a] = call[a]
    BY <1>1, <1>2, <2>1, Types DEF Kept, KeptBy, At
  <2>2. CASE call'[a] = Idle
    BY <2>2 DEF Idle, KeptBy, At
  <2>3. CASE call'[a].pc = "unbind" /\ call'[a].op = call[a].op
             /\ call'[a].cursor = call'[a].seen
    BY <1>2, <2>3 DEF Kept, KeptBy, At
  <2>4. QED BY <1>2, <2>1, <2>2, <2>3
<1>3. Apart'
  BY DEF Apart, Kept, Idle
<1>4. RowKept'
  BY <1>1 DEF RowKept
<1>5. QED BY <1>2, <1>3, <1>4 DEF Kept

\* One call moves; no session, row or last turn changes.
LEMMA CallMoves ==
  ASSUME Inv, Kept, NEW a \in Actors,
         UNCHANGED <<binding, session, gone, last, stale>>,
         Len(contexts') = Len(contexts), Current' = Current,
         \A b \in Actors \ {a} : /\ call'[b].op = call[b].op /\ call'[b].pc = call[b].pc
                                 /\ call'[b].context = call[b].context
                                 /\ call'[b].cursor = call[b].cursor
                                 /\ call'[b].seen = call[b].seen,
         KeptBy(a)', Starting(a) => Starting(a)',
         call'[a].pc \in {"opening", "opened"} =>
           call[a].pc \in {"opening", "opened"} /\ call'[a].context = call[a].context
  PROVE  Kept'
<1>1. ASSUME NEW b \in Actors \ {a}
      PROVE  KeptBy(b)' /\ (Starting(b) => Starting(b)')
  BY <1>1 DEF Kept, KeptBy, At, Starting, StartCursor
<1>2. Apart'
  BY DEF Kept, Apart
<1>3. RowKept'
  BY <1>1 DEF Kept, RowKept
<1>4. QED BY <1>1, <1>2, <1>3 DEF Kept

-----------------------------------------------------------------------------
(* The steps                                                               *)

\* What a call, or the timer, begins.
LEMMA BeginKeeps ==
  ASSUME Inv, Kept,
         \/ TimerFires
         \/ \E a \in Actors, op \in {"start", "send", "rollback", "stop", "stopRuntime", "clear"} :
              Begin(a, op)
  PROVE  Kept'
<1>1. CASE TimerFires
  <2>1. "timer" \in Actors /\ call["timer"].op = "none"
        /\ UNCHANGED <<binding, contexts, session, gone, last, stale>>
        /\ call' = [call EXCEPT !["timer"] = [Idle EXCEPT !.op = "idle", !.pc = "read"]]
    BY <1>1 DEF TimerFires, Busy, Actors, codex
  <2>2. call'["timer"].op = "idle" /\ call'["timer"].pc = "read"
        /\ \A b \in Actors \ {"timer"} : call'[b] = call[b]
    BY <2>1, Types DEF Idle
  <2>3. KeptBy("timer")' /\ ~Starting("timer")
    BY <2>1, <2>2 DEF KeptBy, At, Starting
  <2>4. Current' = Current
    BY <2>1 DEF Current
  <2>5. QED BY <2>1, <2>2, <2>3, <2>4, CallMoves
<1>2. ASSUME NEW a \in Actors,
             NEW op \in {"start", "send", "rollback", "stop", "stopRuntime", "clear"}, Begin(a, op)
      PROVE  Kept'
  <2>1. call[a].op = "none" /\ UNCHANGED <<binding, contexts, session, gone, last, stale>>
        /\ call' = [call EXCEPT ![a] = [Idle EXCEPT !.op = op, !.pc = "read", !.after = timer]]
        /\ (a = "reactor" \/ op = "rollback")
    BY <1>2 DEF Begin, Busy, codex
  <2>2. call'[a].op = op /\ call'[a].pc = "read" /\ \A b \in Actors \ {a} : call'[b] = call[b]
    BY <2>1, Types DEF Idle
  <2>3. KeptBy(a)' /\ ~Starting(a)
    BY <2>1, <2>2 DEF KeptBy, At, Starting
  <2>4. Current' = Current
    BY <2>1 DEF Current
  <2>5. QED BY <2>1, <2>2, <2>3, <2>4, CallMoves
<1>3. QED BY <1>1, <1>2

\* A call comes back that had not started a process, or whose start is over.
LEMMA ReturnKeeps ==
  ASSUME Inv, Kept, NEW a \in Actors, Return(a), ~Starting(a),
         UNCHANGED <<binding, contexts, session, gone, last, stale>>
  PROVE  Kept'
<1>1. call'[a] = Idle /\ \A b \in Actors \ {a} : call'[b] = call[b]
  BY Types DEF Return
<1>2. KeptBy(a)' /\ call'[a].pc = "done"
  BY <1>1 DEF KeptBy, At, Idle
<1>3. Current' = Current
  BY DEF Current
<1>4. QED BY <1>1, <1>2, <1>3, CallMoves

\* A request goes to a process that has its conversation.
LEMMA AskKeeps ==
  ASSUME Inv, Kept, NEW a \in Actors, Ask(a), ~Starting(a),
         UNCHANGED <<binding, contexts, session, gone, last, stale>>
  PROVE  Kept'
<1>1. CASE Return(a)
  BY <1>1, ReturnKeeps
<1>2. CASE /\ ~(session = 0 \/ contexts[session].cursor = 0)
           /\ call' = [call EXCEPT ![a].pc = "asked", ![a].context = session, ![a].cursor = 0,
                                   ![a].seen = binding']
  <2>1. call'[a].op = call[a].op /\ call'[a].pc = "asked" /\ call'[a].context = session
        /\ \A b \in Actors \ {a} : call'[b] = call[b]
    BY <1>2, Types DEF CallStates
  <2>2. Current' = Current /\ Current # 0
    BY <1>2 DEF Current
  <2>3. KeptBy(a)'
    BY <2>1, <2>2 DEF Kept, KeptBy, At
  <2>4. QED BY <2>1, <2>2, <2>3, CallMoves
<1>3. QED BY <1>1, <1>2 DEF Ask

\* A start or a recovery resumes what the row says.
LEMMA LaunchKeeps ==
  ASSUME Inv, Kept, NEW a \in Actors, Launch(a, StartCursor), At(a, "read"),
         call[a].op = "start" \/ StartCursor # 0, call[a].op \in {"start", "send", "rollback"},
         UNCHANGED <<binding, gone, last, stale>>
  PROVE  Kept'
<1> DEFINE n == Len(contexts) + 1
<1>1. Len(contexts') = n /\ session' = n /\ contexts'[session'] = NewContext
      /\ call' = [call EXCEPT ![a] = [call[a] EXCEPT !.pc = "opening", !.context = n,
                                        !.cursor = StartCursor, !.seen = binding]]
  BY Launches, Types DEF StartCursor
<1>2. Current' = 0 /\ StartCursor' = StartCursor
  BY <1>1, Types DEF Current, NewContext, StartCursor
<1>3. call'[a].op = call[a].op /\ call'[a].pc = "opening" /\ call'[a].context = n
      /\ call'[a].cursor = StartCursor /\ \A b \in Actors \ {a} : call'[b] = call[b]
  BY <1>1, Types DEF CallStates
<1>4. ASSUME NEW b \in Actors
      PROVE  KeptBy(b)'
  <2>1. CASE b = a
    BY <1>1, <1>2, <1>3, <2>1 DEF Kept, KeptBy, At
  <2>2. CASE b # a
    <3>1. call'[b] = call[b] /\ call[b].context # n
      BY <1>3, <2>2, Types
    <3>2. QED BY <1>1, <3>1 DEF Kept, KeptBy, At
  <2>3. QED BY <2>1, <2>2
<1>5. Apart'
  <2>1. \A b \in Actors : call[b].context # n
    BY Types
  <2>2. QED BY <1>3, <2>1 DEF Kept, Apart
<1>6. RowKept'
  BY <1>2 DEF Kept, RowKept
<1>7. QED BY <1>1, <1>4, <1>5, <1>6 DEF Kept

\* What a call does after it has read the row.
LEMMA ReadKeeps ==
  ASSUME Inv, Kept, NEW a \in Actors, Read(a)
  PROVE  Kept'
<1>1. UNCHANGED <<binding, gone, last, stale>> /\ At(a, "read") /\ ~Starting(a)
      /\ (ReadForStart(a) \/ ReadForRequest(a) \/ ReadForIdle(a) \/ ReadForStop(a))
  BY DEF Read, codex, Starting, At
<1>2. CASE ReadForStart(a)
  BY <1>1, <1>2, LaunchKeeps DEF ReadForStart
<1>3. CASE ReadForRequest(a)
  <2>1. CASE binding # Absent /\ binding # 0 /\ Launch(a, StartCursor)
    BY <1>1, <1>3, <2>1, LaunchKeeps DEF ReadForRequest, StartCursor
  <2>2. CASE Ask(a) /\ UNCHANGED <<contexts, session>>
    BY <1>1, <2>2, AskKeeps
  <2>3. CASE Return(a) /\ UNCHANGED <<contexts, session>>
    BY <1>1, <2>3, ReturnKeeps
  <2>4. QED BY <1>3, <2>1, <2>2, <2>3 DEF ReadForRequest
<1>4. CASE ReadForIdle(a)
  <2>1. CASE call' = [call EXCEPT ![a].op = "stopRuntime"]
    <3>1. call'[a].op = "stopRuntime" /\ call'[a].pc = "read"
          /\ \A b \in Actors \ {a} : call'[b] = call[b]
      BY <1>1, <2>1, Types DEF At, CallStates
    <3>2. KeptBy(a)'
      BY <3>1 DEF KeptBy, At
    <3>3. Current' = Current /\ Len(contexts') = Len(contexts) /\ session' = session
      BY <1>4 DEF Current, ReadForIdle
    <3>4. QED BY <1>1, <3>1, <3>2, <3>3, CallMoves
  <2>2. CASE Return(a) /\ UNCHANGED <<contexts, session>>
    BY <1>1, <2>2, ReturnKeeps
  <2>3. QED BY <1>4, <2>1, <2>2 DEF ReadForIdle
<1>5. CASE ReadForStop(a)
  <2>1. CASE Return(a) /\ UNCHANGED <<contexts, session>>
    BY <1>1, <2>1, ReturnKeeps
  <2>2. CASE /\ StopSession
             /\ call' = [call EXCEPT ![a].pc = "unbind", ![a].cursor = binding,
                                     ![a].seen = binding, ![a].context = Len(contexts)]
    <3>1. call'[a].pc = "unbind" /\ call'[a].op = call[a].op /\ call'[a].cursor = call'[a].seen
          /\ \A b \in Actors \ {a} : call'[b] = call[b]
      BY <2>2, Types DEF CallStates
    <3>2. session' = 0 /\ Len(contexts') = Len(contexts)
      BY <2>2, SessionStops
    <3>3. stale \/ last = 0 \/ binding' \in {last} \cup gone
      BY <1>1 DEF Kept, RowKept
    <3>4. QED BY <1>1, <3>1, <3>2, <3>3, SessionEnds
  <2>3. QED BY <1>5, <2>1, <2>2 DEF ReadForStop
<1>6. QED BY <1>1, <1>2, <1>3, <1>4, <1>5

\* A call that gives up, or writes the row, does not touch the rest.
LEMMA RowCalls ==
  ASSUME Inv, Kept, NEW a \in Actors, Bind(a) \/ Unbind(a) \/ AccessFails(a)
  PROVE  /\ UNCHANGED <<contexts, session, gone>> /\ Current' = Current
         /\ \A b \in Actors \ {a} : call'[b] = call[b] /\ (Starting(b) => Starting(b)')
         /\ \/ call'[a] = Idle
            \/ /\ Bind(a) /\ call'[a].op = call[a].op /\ call'[a].pc = "asked"
               /\ call'[a].context = session /\ Current # 0
         /\ Apart'
<1>1. /\ UNCHANGED <<contexts, session, gone>> /\ Current' = Current
      /\ Return(a) \/ (Bind(a) /\ Ask(a))
  BY DEF Bind, Unbind, AccessFails, codex, Current
<1>2. CASE Return(a)
  BY <1>1, <1>2, Types DEF Return, Starting, Idle, Kept, Apart
<1>3. CASE /\ Bind(a) /\ ~(session = 0 \/ contexts[session].cursor = 0)
           /\ call' = [call EXCEPT ![a].pc = "asked", ![a].context = session, ![a].cursor = 0,
                                   ![a].seen = binding']
  <2>1. /\ call'[a].op = call[a].op /\ call'[a].pc = "asked" /\ call'[a].context = session
        /\ \A b \in Actors \ {a} : call'[b] = call[b]
    BY <1>3, Types DEF CallStates
  <2>2. Current # 0
    BY <1>3 DEF Current
  <2>3. QED BY <1>1, <1>3, <2>1, <2>2 DEF Starting, Kept, Apart
<1>4. QED BY <1>1, <1>2, <1>3 DEF Ask

\* What a start or a turn came back with is written down.
LEMMA BindKeeps ==
  ASSUME Inv, Kept, NEW a \in Actors, Bind(a)
  PROVE  Kept'
<1> DEFINE k == call[a].cursor
<1>1. /\ At(a, "bind") /\ binding' = k /\ last' = last /\ k \in Nat
      /\ stale' = (stale \/ call[a].context # Len(contexts) \/ binding # call[a].seen)
  BY Types DEF Bind, Overtaken
<1>2. ~stale' =>
        /\ ~stale /\ call[a].context = Len(contexts) /\ k # 0
        /\ session # 0 => Current = k
        /\ last = 0 \/ k \in {last} \cup gone
  BY <1>1 DEF Kept, KeptBy, At, Inv, TypeOK
<1>3. StartCursor' = k
  BY <1>1, Types DEF StartCursor
<1>4. ASSUME NEW b \in Actors
      PROVE  KeptBy(b)'
  <2>1. CASE b = a
    BY <1>1, <2>1, RowCalls DEF Kept, KeptBy, At, Idle
  <2>2. CASE b # a
    <3>1. call'[b] = call[b] /\ KeptBy(b)
      BY <2>2, RowCalls DEF Kept
    <3>2. At(b, "opening") /\ call[b].context = session => stale'
      BY <1>2, <3>1, Types DEF KeptBy, At
    <3>3. stale => stale'
      BY <1>1
    <3>4. QED BY <1>1, <3>1, <3>2, <3>3, RowCalls DEF KeptBy, At
  <2>3. QED BY <2>1, <2>2
<1>5. RowKept'
  <2>1. Current # 0 => session # 0
    BY DEF Current
  <2>2. CASE stale'
    BY <2>2 DEF RowKept
  <2>3. CASE ~stale'
    BY <1>1, <1>2, <2>1, <2>3, RowCalls DEF Kept, RowKept
  <2>4. QED BY <2>2, <2>3
<1>6. QED BY <1>4, <1>5, RowCalls DEF Kept

\* A stop writes back what it read.
LEMMA UnbindKeeps ==
  ASSUME Inv, Kept, NEW a \in Actors, Unbind(a)
  PROVE  Kept'
<1> DEFINE k == call[a].cursor
<1>1. /\ At(a, "unbind") /\ binding' = AfterStop(call[a])
      /\ stale' = (stale \/ call[a].context # Len(contexts) \/ binding # call[a].seen)
      /\ last' = IF call[a].op = "stopRuntime" THEN last ELSE 0
  BY DEF Unbind, Overtaken
<1>2. call[a].op \in Stops /\ ~Bind(a)
  BY <1>1 DEF Inv, TypeOK, CallOK, CallStateOK, At, Bind
<1>3. ~stale' => ~stale /\ session = 0 /\ binding = k
  BY <1>1 DEF Kept, KeptBy, At, Inv, TypeOK
<1>4. call[a].op = "stopRuntime" => binding' = k
  BY <1>1 DEF AfterStop
<1>5. ASSUME NEW b \in Actors
      PROVE  KeptBy(b)'
  <2>1. CASE b = a
    BY <1>2, <2>1, RowCalls DEF KeptBy, At, Idle
  <2>2. CASE b # a
    <3>1. call'[b] = call[b] /\ KeptBy(b) /\ (stale => stale') /\ (last' = last \/ last' = 0)
      BY <1>1, <2>2, RowCalls DEF Kept
    <3>2. At(b, "opening") /\ call[b].context = session => stale'
      BY <1>3, Types DEF At
    <3>3. QED BY <3>1, <3>2, RowCalls DEF KeptBy, At
  <2>3. QED BY <2>1, <2>2
<1>6. RowKept'
  <2>1. CASE stale'
    BY <2>1 DEF RowKept
  <2>2. CASE ~stale'
    <3>1. Current' = 0
      BY <1>3, <2>2, RowCalls DEF Current
    <3>2. last' # 0 => last' = last /\ binding' = binding
      BY <1>1, <1>3, <1>4, <2>2
    <3>3. QED BY <1>3, <2>2, <3>1, <3>2, RowCalls DEF Kept, RowKept
  <2>3. QED BY <2>1, <2>2
<1>7. QED BY <1>5, <1>6, RowCalls DEF Kept

\* A call whose access fails leaves the row as it was.
LEMMA AccessKeeps ==
  ASSUME Inv, Kept, NEW a \in Actors, AccessFails(a)
  PROVE  Kept'
<1>1. /\ UNCHANGED <<binding, last>> /\ (stale => stale')
      /\ stale' \/ ~At(a, "bind") \/ binding = call[a].cursor
      /\ call[a].pc \in {"read", "bind", "unbind"} /\ call'[a] = Idle
  BY Types DEF AccessFails, Return
<1>2. StartCursor' = StartCursor
  BY <1>1 DEF StartCursor
<1>3. ASSUME NEW b \in Actors
      PROVE  KeptBy(b)'
  <2>1. CASE b = a
    BY <1>1, <2>1 DEF KeptBy, At, Idle
  <2>2. CASE b # a
    <3>1. call'[b] = call[b] /\ KeptBy(b)
      BY <2>2, RowCalls DEF Kept
    <3>2. QED BY <1>1, <1>2, <3>1, RowCalls DEF KeptBy, At
  <2>3. QED BY <2>1, <2>2
<1>4. RowKept'
  <2>1. CASE stale'
    BY <2>1 DEF RowKept
  <2>2. CASE ~stale'
    <3>1. Starting(a) /\ Current # 0 => binding = Current
      <4>1. Starting(a) => At(a, "bind") /\ call[a].context = session
        BY <1>1 DEF Starting, At
      <4>2. Current # 0 => session # 0 /\ session = Len(contexts)
        BY DEF Current, Kept
      <4>3. QED BY <1>1, <2>2, <4>1, <4>2 DEF Kept, KeptBy, At
    <3>2. QED BY <1>1, <2>2, <3>1, RowCalls DEF Kept, RowKept
  <2>3. QED BY <2>1, <2>2
<1>5. QED BY <1>3, <1>4, RowCalls DEF Kept

\* Call a has opened conversation n in the live session, and no other call
\* opens one there or has one.
Alone(a, n) ==
  /\ call[a].context = session /\ session # 0 /\ session = Len(contexts)
  /\ session' = session /\ Len(contexts') = Len(contexts) /\ Current = 0 /\ Current' = n
  /\ call'[a].op = call[a].op /\ call'[a].pc = "opened" /\ call'[a].cursor = n
  /\ call'[a].context = session
  /\ \A b \in Actors \ {a} :
       /\ call'[b] = call[b] /\ ~Starting(b)
       /\ ~(At(b, "opening") /\ call[b].context = session)
       /\ ~(call[b].pc \in {"opened", "bind", "answered"} /\ call[b].context = session)
  /\ stale \/ call[a].cursor = StartCursor
  /\ Apart'

\* That is so whether the conversation was resumed or begun.
LEMMA OpenedAlone ==
  ASSUME Inv, Kept, NEW a \in Actors, At(a, "opening"), Listens(call[a].context),
         NEW n \in Nat, n # 0, Opens(a, n), session' = session
  PROVE  Alone(a, n)
<1>1. call[a].context = session /\ session # 0 /\ session = Len(contexts)
  BY Asked, Listening, Types DEF Kept, At
<1>2. Current = 0 /\ (stale \/ call[a].cursor = StartCursor)
  BY <1>1 DEF Kept, KeptBy
<1>3. /\ Len(contexts') = Len(contexts) /\ contexts'[session].cursor = n
      /\ call' = [call EXCEPT ![a] = [call[a] EXCEPT !.pc = "opened", !.cursor = n]]
  <2>1. /\ Len(contexts') = Len(contexts)
        /\ \A d \in 1..Len(contexts) :
             contexts'[d].cursor = IF d = call[a].context THEN n ELSE contexts[d].cursor
        /\ call' = [call EXCEPT ![a] = [call[a] EXCEPT !.pc = "opened", !.cursor = n]]
    BY Opening
  <2>2. session \in 1..Len(contexts)
    BY <1>1, Types
  <2>3. QED BY <1>1, <2>1, <2>2
<1>4. Current' = n
  BY <1>1, <1>3 DEF Current
<1>5. call'[a].op = call[a].op /\ call'[a].pc = "opened" /\ call'[a].cursor = n
      /\ call'[a].context = session /\ \A d \in Actors \ {a} : call'[d] = call[d]
  BY <1>1, <1>3, Types DEF CallStates
<1>6. ASSUME NEW d \in Actors \ {a}
      PROVE  /\ ~(At(d, "opening") /\ call[d].context = session)
             /\ ~(call[d].pc \in {"opened", "bind", "answered"} /\ call[d].context = session)
  BY <1>1, <1>2 DEF Kept, Apart, KeptBy, At
<1>7. \A d \in Actors \ {a} : ~Starting(d)
  BY <1>6 DEF Starting
<1>8. Apart'
  BY <1>1, <1>5 DEF Kept, Apart, At
<1>9. QED BY <1>1, <1>2, <1>3, <1>4, <1>5, <1>6, <1>7, <1>8 DEF Alone

\* The conversation of the row is resumed: that of the last turn, for Codex has
\* it.
LEMMA ResumeKeeps ==
  ASSUME Inv, Kept, NEW a \in Actors, Resume(a)
  PROVE  Kept'
<1> DEFINE k == call[a].cursor
<1>1. At(a, "opening") /\ Listens(call[a].context) /\ k \in Nat /\ k # 0 /\ k \notin gone
      /\ Opens(a, k) /\ UNCHANGED <<binding, session, gone, last, stale>>
  BY Types DEF Resume, Opens, codex
<1>2. Alone(a, k)
  <2> HIDE DEF k
  <2> QED BY <1>1, OpenedAlone
<1>3. stale \/ binding = k
  BY <1>1, <1>2 DEF StartCursor, Alone
<1>4. stale \/ last = 0 \/ last = k
  BY <1>1, <1>3 DEF Kept, RowKept
<1>5. ASSUME NEW b \in Actors
      PROVE  KeptBy(b)'
  <2>1. CASE b = a
    BY <1>1, <1>2, <1>4, <2>1 DEF Kept, KeptBy, At, Alone
  <2>2. CASE b # a
    <3>1. KeptBy(b) /\ call'[b] = call[b] /\ StartCursor' = StartCursor
      BY <1>1, <1>2, <2>2 DEF Kept, StartCursor, Alone
    <3>2. QED BY <1>1, <1>2, <2>2, <3>1 DEF KeptBy, At, Alone
  <2>3. QED BY <2>1, <2>2
<1>6. RowKept'
  BY <1>1, <1>2, <1>3, <1>4 DEF RowKept, Alone
<1>7. QED BY <1>1, <1>2, <1>5, <1>6 DEF Kept, Alone

\* A new conversation is begun: there was none to keep, or Codex does not have
\* it any more.
LEMMA OpenFreshKeeps ==
  ASSUME Inv, Kept, NEW a \in Actors, OpenFresh(a)
  PROVE  Kept'
<1> DEFINE k == call[a].cursor
           n == conversations + 1
<1>1. At(a, "opening") /\ Listens(call[a].context) /\ n \in Nat /\ n # 0 /\ k \in Nat
      /\ Opens(a, n) /\ UNCHANGED <<binding, session, stale>>
      /\ gone' = gone \cup ({k} \ {0}) /\ last' = IF k # 0 THEN 0 ELSE last
  <2>1. conversations \in Nat
    BY DEF Inv, TypeOK
  <2>2. n \in Nat /\ n # 0
    BY <2>1
  <2>3. QED BY <2>2, Types DEF OpenFresh, Opens
<1>2. Alone(a, n)
  <2> HIDE DEF n
  <2> QED BY <1>1, OpenedAlone
<1>3. stale \/ k = StartCursor
  BY <1>2 DEF Alone
<1>4. stale \/ last' = 0
  <2>1. CASE k # 0
    BY <1>1, <2>1
  <2>2. CASE k = 0 /\ ~stale
    <3>1. binding = Absent \/ binding = 0
      BY <1>3, <2>2 DEF StartCursor
    <3>2. QED BY <1>1, <2>2, <3>1, Types DEF Kept, RowKept
  <2>3. QED BY <2>1, <2>2
<1>5. ASSUME NEW b \in Actors
      PROVE  KeptBy(b)'
  <2>1. CASE b = a
    BY <1>1, <1>2, <1>4, <2>1 DEF Kept, KeptBy, At, Alone
  <2>2. CASE b # a
    <3>1. KeptBy(b) /\ call'[b] = call[b] /\ StartCursor' = StartCursor
      BY <1>1, <1>2, <2>2 DEF Kept, StartCursor, Alone
    <3>2. QED BY <1>1, <1>2, <1>4, <2>2, <3>1 DEF KeptBy, At, Alone
  <2>3. QED BY <2>1, <2>2
<1>6. RowKept'
  <2>1. CASE k # 0
    BY <1>1, <1>2, <1>3, <1>4, <2>1 DEF RowKept, StartCursor, Alone
  <2>2. CASE k = 0
    <3>1. Starting(a)'
      BY <1>1, <1>2, <2>2 DEF Kept, KeptBy, Starting, Alone
    <3>2. QED BY <1>1, <1>4, <3>1 DEF RowKept
  <2>3. QED BY <2>1, <2>2
<1>7. 0 \notin gone'
  BY <1>1 DEF Kept
<1>8. QED BY <1>1, <1>2, <1>5, <1>6, <1>7 DEF Kept, Alone

\* What a call does while Codex opens its conversation.
LEMMA OpeningKeeps ==
  ASSUME Inv, Kept, NEW a \in Actors, Resume(a) \/ OpenFresh(a) \/ Start(a) \/ OpenFails(a)
  PROVE  Kept'
<1>1. CASE Start(a)
  <2>1. UNCHANGED <<binding, contexts, session, gone, last, stale>> /\ At(a, "opened")
        /\ call' = [call EXCEPT ![a].pc = "bind"]
    BY <1>1 DEF Start, Goto, codex
  <2>2. call'[a].op = call[a].op /\ call'[a].pc = "bind" /\ call'[a].context = call[a].context
        /\ call'[a].cursor = call[a].cursor /\ \A b \in Actors \ {a} : call'[b] = call[b]
    BY <2>1, Types DEF CallStates
  <2>3. Current' = Current
    BY <2>1 DEF Current
  <2>4. KeptBy(a)'
    BY <2>1, <2>2, <2>3 DEF Kept, KeptBy, At
  <2>5. Starting(a) => Starting(a)'
    BY <2>1, <2>2 DEF Starting
  <2>6. QED BY <2>1, <2>2, <2>3, <2>4, <2>5, CallMoves
<1>2. CASE OpenFails(a)
  <2>1. UNCHANGED <<binding, gone, last, stale>> /\ StopSession /\ Return(a)
    BY <1>2 DEF OpenFails, codex
  <2>2. session' = 0 /\ Len(contexts') = Len(contexts)
    BY <2>1, SessionStops
  <2>3. \A b \in Actors : call'[b] = call[b] \/ call'[b] = Idle
    BY <2>1, Types DEF Return
  <2>4. stale \/ last = 0 \/ binding' \in {last} \cup gone
    BY <2>1 DEF Kept, RowKept
  <2>5. QED BY <2>1, <2>2, <2>3, <2>4, SessionEnds
<1>3. QED BY <1>1, <1>2, ResumeKeeps, OpenFreshKeeps

\* Codex takes a turn in the conversation of the live session, which is that
\* of the last turn.
LEMMA TakeKeeps ==
  ASSUME Inv, Kept, NEW a \in Actors, Take(a)
  PROVE  Kept' /\ (last # 0 /\ last' # 0 /\ last' # last => stale)
<1>1. /\ At(a, "asked") /\ call[a].op = "send" /\ Listens(call[a].context)
      /\ contexts' = [contexts EXCEPT ![call[a].context].turn = "taken"]
      /\ call' = [call EXCEPT ![a].taken = TRUE]
      /\ last' = contexts[call[a].context].cursor
      /\ UNCHANGED <<binding, session, gone, stale>>
  BY DEF Take, codex
<1>2. call[a].context = session /\ session # 0 /\ session = Len(contexts)
      /\ session \in 1..Len(contexts)
  BY <1>1, Asked, Listening, Types DEF Kept, At
<1>3. last' = Current /\ Current # 0
  BY <1>1, <1>2 DEF Current, Kept, KeptBy
<1>4. Len(contexts') = Len(contexts) /\ Current' = Current
  <2>1. contexts' = [contexts EXCEPT ![session] = [contexts[session] EXCEPT !.turn = "taken"]]
    BY <1>1, <1>2
  <2>2. contexts \in Seq(Contexts) /\ [contexts[session] EXCEPT !.turn = "taken"] \in Contexts
    BY <1>2, Registered DEF Contexts
  <2>3. Len(contexts') = Len(contexts)
        /\ contexts'[session] = [contexts[session] EXCEPT !.turn = "taken"]
    BY <1>2, <2>1, <2>2, Replacing, Registered
  <2>4. contexts'[session].cursor = contexts[session].cursor
    BY <1>2, <2>3, Registered DEF Contexts
  <2>5. QED BY <1>1, <1>2, <2>3, <2>4 DEF Current
<1>5. \A b \in Actors : /\ call'[b].op = call[b].op /\ call'[b].pc = call[b].pc
                        /\ call'[b].context = call[b].context
                        /\ call'[b].cursor = call[b].cursor /\ call'[b].seen = call[b].seen
  BY <1>1, Types DEF CallStates
<1>6. StartCursor' = StartCursor
  BY <1>1 DEF StartCursor
<1>7. ASSUME NEW b \in Actors
      PROVE  KeptBy(b)' /\ ~Starting(b)
  <2>1. KeptBy(b)'
    BY <1>1, <1>2, <1>3, <1>4, <1>5, <1>6 DEF Kept, KeptBy, At
  <2>2. ~Starting(b)
    <3>1. call[b].op = "start" => b = a
      BY <1>1 DEF Kept, KeptBy
    <3>2. QED BY <1>1, <3>1 DEF Starting
  <2>3. QED BY <2>1, <2>2
<1>8. Apart'
  BY <1>5 DEF Kept, Apart
<1>9. stale \/ (binding \in {Current} \cup gone /\ (last = 0 \/ Current = last))
  BY <1>3, <1>7 DEF Kept, RowKept
<1>10. RowKept'
  BY <1>1, <1>3, <1>4, <1>9 DEF RowKept
<1>11. QED BY <1>1, <1>2, <1>3, <1>4, <1>7, <1>8, <1>9, <1>10 DEF Kept

\* What a call does while Codex handles its request.
LEMMA RequestKeeps ==
  ASSUME Inv, Kept, NEW a \in Actors, Answer(a) \/ AskFails(a) \/ Continue(a)
  PROVE  Kept'
<1>1. UNCHANGED <<binding, session, gone, last, stale>> /\ ~Starting(a)
  BY DEF Answer, AskFails, Continue, codex, At, Starting
<1>2. CASE Answer(a)
  <2>1. At(a, "asked") /\ Listens(call[a].context) /\ UNCHANGED contexts
        /\ call' = [call EXCEPT ![a].pc = "answered",
                                ![a].cursor = contexts[call[a].context].cursor]
    BY <1>2 DEF Answer
  <2>2. call[a].context = session /\ session # 0
    BY <2>1, Asked, Listening, Types DEF At
  <2>3. call'[a].op = call[a].op /\ call'[a].pc = "answered" /\ call'[a].context = session
        /\ call'[a].cursor = Current /\ \A b \in Actors \ {a} : call'[b] = call[b]
    BY <2>1, <2>2, Types DEF CallStates, Current
  <2>4. Current' = Current /\ Current # 0
    BY <1>1, <2>1, <2>2 DEF Current, Kept, KeptBy
  <2>5. KeptBy(a)'
    BY <1>1, <2>3, <2>4 DEF Kept, KeptBy, RowKept, At
  <2>6. QED BY <1>1, <2>1, <2>3, <2>4, <2>5, CallMoves
<1>3. CASE AskFails(a)
  BY <1>1, <1>3, ReturnKeeps DEF AskFails
<1>4. CASE Continue(a)
  <2> DEFINE c == call[a].context
  <2>1. c \in 1..Len(contexts) /\ At(a, "answered")
    BY <1>4, Asked DEF Continue, At
  <2>2. Len(contexts') = Len(contexts)
        /\ \A d \in 1..Len(contexts) : contexts'[d].cursor = contexts[d].cursor
    <3>1. CASE contexts[c].over
      BY <1>4, <3>1 DEF Continue
    <3>2. CASE ~contexts[c].over
      <4>1. PICK s \in {"running", "ready"}, t \in BOOLEAN, o \in BOOLEAN :
              contexts' = [contexts EXCEPT ![c].status = s, ![c].active = t, ![c].odd = o]
        <5>1. contexts[c].odd \in BOOLEAN
          BY <2>1, Registered DEF Contexts
        <5>2. QED BY <1>4, <3>2, <5>1 DEF Continue
      <4> DEFINE x == [contexts[c] EXCEPT !.status = s, !.active = t, !.odd = o]
      <4>2. x \in Contexts /\ x.cursor = contexts[c].cursor
        <5>1. contexts[c] \in Contexts
          BY <2>1, Registered
        <5>2. QED BY <5>1 DEF Contexts
      <4>3. contexts' = [contexts EXCEPT ![c] = x]
        BY <4>1
      <4> HIDE DEF x
      <4>4. QED BY <2>1, <4>2, <4>3, Replacing, Registered
    <3>3. QED BY <3>1, <3>2
  <2>3. Current' = Current
    BY <1>1, <2>2, Types DEF Current
  <2>4. CASE Goto(a, "bind")
    <3>1. call'[a].op = call[a].op /\ call'[a].pc = "bind" /\ call'[a].context = c
          /\ call'[a].cursor = call[a].cursor /\ \A b \in Actors \ {a} : call'[b] = call[b]
      BY <2>4, Types DEF CallStates, Goto
    <3>2. KeptBy(a)'
      BY <1>1, <2>1, <2>2, <2>3, <3>1 DEF Kept, KeptBy, At
    <3>3. QED BY <1>1, <2>2, <2>3, <3>1, <3>2, CallMoves
  <2>5. CASE Return(a)
    <3>1. call'[a] = Idle /\ \A b \in Actors \ {a} : call'[b] = call[b]
      BY <2>5, Types DEF Return
    <3>2. KeptBy(a)' /\ call'[a].pc = "done"
      BY <3>1 DEF KeptBy, At, Idle
    <3>3. QED BY <1>1, <2>2, <2>3, <3>1, <3>2, CallMoves
  <2>6. QED BY <1>4, <2>4, <2>5 DEF Continue
<1>5. QED BY <1>2, <1>3, <1>4

\* What a process says, or how it ends.
LEMMA ProcessKeeps ==
  ASSUME Inv, Kept, NEW c \in DOMAIN contexts,
         NotifyStarted(c) \/ NotifyCompleted(c) \/ Die(c) \/ HearExit(c)
  PROVE  Kept'
<1>1. c \in 1..Len(contexts) /\ contexts[c] \in Contexts /\ contexts \in Seq(Contexts)
      /\ UNCHANGED <<binding, call, gone, last, stale>>
  BY Registered DEF NotifyStarted, NotifyCompleted, Die, HearExit, codex
<1>2. ASSUME NEW x \in Contexts, x.cursor = contexts[c].cursor, session' = session,
             contexts' = [contexts EXCEPT ![c] = x]
      PROVE  Kept'
  <2>1. Len(contexts') = Len(contexts)
        /\ \A d \in 1..Len(contexts) : contexts'[d].cursor = contexts[d].cursor
    BY <1>1, <1>2, Replacing, Registered
  <2>2. Current' = Current
    BY <1>2, <2>1, Types DEF Current
  <2>3. "reactor" \in Actors /\ call' = call
    BY <1>1 DEF Actors
  <2>4. KeptBy("reactor")' /\ (Starting("reactor") => Starting("reactor")')
    BY <1>1, <1>2, <2>1, <2>2, <2>3 DEF Kept, KeptBy, At, Starting, StartCursor
  <2>5. QED BY <1>1, <1>2, <2>1, <2>2, <2>3, <2>4, CallMoves
<1>3. CASE NotifyStarted(c)
  <2> DEFINE x == [contexts[c] EXCEPT !.turn = "started", !.status = "running", !.active = TRUE]
  <2>1. x \in Contexts /\ x.cursor = contexts[c].cursor
    BY <1>1 DEF Contexts
  <2>2. contexts' = [contexts EXCEPT ![c] = x] /\ session' = session
    BY <1>3 DEF NotifyStarted
  <2> HIDE DEF x
  <2>3. QED BY <1>2, <2>1, <2>2
<1>4. CASE NotifyCompleted(c)
  <2>1. PICK f \in BOOLEAN :
          contexts' = [contexts EXCEPT ![c].turn = "none", ![c].active = FALSE,
                         ![c].status = IF f THEN "error" ELSE "ready",
                         ![c].announced = TRUE, ![c].odd = f]
    BY <1>4 DEF NotifyCompleted
  <2> DEFINE x == [contexts[c] EXCEPT !.turn = "none", !.active = FALSE,
                     !.status = IF f THEN "error" ELSE "ready", !.announced = TRUE, !.odd = f]
  <2>2. x \in Contexts /\ x.cursor = contexts[c].cursor
    BY <1>1 DEF Contexts
  <2>3. contexts' = [contexts EXCEPT ![c] = x] /\ session' = session
    BY <1>4, <2>1 DEF NotifyCompleted
  <2> HIDE DEF x
  <2>4. QED BY <1>2, <2>2, <2>3
<1>5. CASE Die(c)
  <2> DEFINE x == [contexts[c] EXCEPT !.alive = FALSE, !.turn = "none"]
  <2>1. x \in Contexts /\ x.cursor = contexts[c].cursor
    BY <1>1 DEF Contexts
  <2>2. contexts' = [contexts EXCEPT ![c] = x] /\ session' = session
    BY <1>5 DEF Die
  <2> HIDE DEF x
  <2>3. QED BY <1>2, <2>1, <2>2
<1>6. CASE HearExit(c)
  <2>1. session' = 0 /\ contexts' = [contexts EXCEPT ![c] = Closed]
    BY <1>6 DEF HearExit
  <2>2. Len(contexts') = Len(contexts)
    BY <1>1, <2>1, ContextTypes, Replacing
  <2>3. stale \/ last = 0 \/ binding' \in {last} \cup gone
    BY <1>1 DEF Kept, RowKept
  <2>4. QED BY <1>1, <2>1, <2>2, <2>3, SessionEnds
<1>7. QED BY <1>3, <1>4, <1>5, <1>6

\* The service's ears, and the end of the server.
LEMMA ServerKeeps ==
  ASSUME Inv, Kept, Reconcile \/ \E graceful \in BOOLEAN : EndServer(graceful)
  PROVE  Kept'
<1>1. CASE Reconcile
  <2>1. UNCHANGED <<binding, contexts, session, gone, last, stale>>
        /\ call' = [a \in Actors |-> [call[a] EXCEPT !.after = FALSE]]
    BY <1>1 DEF Reconcile, codex
  <2>2. \A b \in Actors : /\ call'[b].op = call[b].op /\ call'[b].pc = call[b].pc
                          /\ call'[b].context = call[b].context
                          /\ call'[b].cursor = call[b].cursor /\ call'[b].seen = call[b].seen
    BY <2>1, Types DEF CallStates
  <2>3. Current' = Current /\ "reactor" \in Actors
    BY <2>1 DEF Current, Actors
  <2>4. KeptBy("reactor")' /\ (Starting("reactor") => Starting("reactor")')
    BY <2>1, <2>2, <2>3 DEF Kept, KeptBy, At, Starting, StartCursor
  <2>5. QED BY <2>1, <2>2, <2>3, <2>4, CallMoves
<1>2. ASSUME NEW graceful \in BOOLEAN, EndServer(graceful)
      PROVE  Kept'
  <2>1. session' = 0 /\ contexts' = [c \in DOMAIN contexts |-> Closed]
        /\ call' = [a \in Actors |-> Idle] /\ UNCHANGED <<gone, last, stale>>
    BY <1>2 DEF EndServer, codex
  <2>2. Len(contexts') = Len(contexts)
    BY <2>1, Registered
  <2>3. (Current # 0 /\ binding' = Current) \/ binding' = binding \/ binding' = StartCursor
    BY <1>2 DEF EndServer, Current
  <2>4. stale \/ last = 0 \/ binding' \in {last} \cup gone
    BY <2>3, Types DEF Kept, RowKept, StartCursor
  <2>5. QED BY <2>1, <2>2, <2>4, SessionEnds
<1>3. QED BY <1>1, <1>2

-----------------------------------------------------------------------------
(* The theorem                                                             *)

\* No turn, no call: nothing to keep.
LEMMA InitiallyKept == Init => Kept
<1>1. ASSUME Init
      PROVE  Kept
  <2>1. session = 0 /\ last = 0 /\ gone = {} /\ \A a \in Actors : call[a] = Idle
    BY <1>1 DEF Init
  <2>2. Current = 0
    BY <2>1 DEF Current
  <2>3. \A a \in Actors : KeptBy(a)
    BY <2>1 DEF KeptBy, At, Idle
  <2>4. Apart /\ RowKept
    BY <2>1, <2>2 DEF Apart, RowKept, Idle
  <2>5. QED BY <2>1, <2>3, <2>4 DEF Kept
<1>2. QED BY <1>1

\* Every step keeps what is known of the conversation.
LEMMA KeptSteps == Inv /\ Kept /\ [Next]_vars => Kept'
<1> SUFFICES ASSUME Inv, Kept, [Next]_vars
             PROVE  Kept'
  OBVIOUS
<1>1. CASE UNCHANGED vars
  BY <1>1 DEF vars, codex, Kept, KeptBy, At, Apart, RowKept, Current, Starting, StartCursor
<1>2. CASE Next
  BY <1>2, BeginKeeps, ReadKeeps, BindKeeps, UnbindKeeps, AccessKeeps, OpeningKeeps, TakeKeeps,
     RequestKeeps, ProcessKeeps, ServerKeeps DEF Next, Progress
<1>3. QED BY <1>1, <1>2

\* And no step moves the turns to another conversation: only Take has one.
LEMMA LastSteps == Inv /\ Kept /\ [Next]_vars => (last # 0 /\ last' # 0 /\ last' # last => stale)
<1> SUFFICES ASSUME Inv, Kept, [Next]_vars
             PROVE  last # 0 /\ last' # 0 /\ last' # last => stale
  OBVIOUS
<1>1. CASE \E a \in Actors : Take(a)
  BY <1>1, TakeKeeps
<1>2. CASE \E a \in Actors : OpenFresh(a) \/ Unbind(a)
  BY <1>2 DEF OpenFresh, Unbind
<1>3. CASE last' = last
  BY <1>3
<1>4. CASE Next
  <2>1. (\E a \in Actors : Take(a) \/ OpenFresh(a) \/ Unbind(a)) \/ last' = last
    BY <1>4 DEF Next, Progress, Begin, TimerFires, Read, Bind, AccessFails, Resume, Start,
       OpenFails, Answer, AskFails, Continue, NotifyStarted, NotifyCompleted, Die, HearExit,
       Reconcile, EndServer
  <2>2. QED BY <1>1, <1>2, <1>3, <2>1
<1>5. QED BY <1>3, <1>4 DEF vars

\* What the calls, the row and the session know of the conversation, always.
THEOREM KeptAlways == Spec => [](Inv /\ Kept)
<1>1. Init => Inv /\ Kept
  BY Initially, InitiallyKept
<1>2. Inv /\ Kept /\ [Next]_vars => (Inv /\ Kept)'
  BY Steps, KeptSteps
<1>3. QED BY <1>1, <1>2, PTL DEF Spec

\* The turns of a thread go to one conversation however calls, deaths, timeouts,
\* failures and crashes cross: until the thread is stopped, its cursor cleared
\* or Codex does not have the conversation - unless the row was written for a
\* state that was past, or a new cursor could not be written.
THEOREM OneConversation == Spec => ConversationKept
<1>1. Inv /\ Kept /\ [Next]_vars => [last # 0 /\ last' # 0 /\ last' # last => stale]_vars
  BY LastSteps
<1>2. QED BY <1>1, KeptAlways, PTL DEF Spec, ConversationKept

-----------------------------------------------------------------------------
(* Sessions at rest                                                        *)

\* No write was overtaken, nothing has failed.
Quiet == ~stale /\ faults = 0

\* A call that has the conversation of the live session and will write it down.
Pending(a) == call[a].pc \in {"opened", "bind"} /\ call[a].context = session

\* A start under way in which the row may be missing.
Begun(a) == call[a].op = "start" /\ call[a].pc \in {"opening", "opened", "bind"}

\* A call that will replace the session, or stop it if there is a row.
Replaces(a) == At(a, "read") /\ call[a].op = "start"

Stopping(a) == At(a, "read") /\ call[a].op \in Stops \cup {"idle"}

\* When the service has heard everything, the timer runs.
Armed == IF events = <<>> THEN timer ELSE events[Len(events)] \in Arms

\* A call that began after the timer was set is one of those that leave it;
\* a call that is not under way waits for nothing.
Late ==
  \A a \in Actors : /\ timer /\ call[a].after => call[a].op \in {"send", "rollback"}
                    /\ ~Busy(a) => At(a, "done")

\* A session between two turns is ready, and what was announced or takes turns
\* has a conversation.
Standing(s) ==
  /\ s.announced \/ s.turn # "none" => s.cursor # 0
  /\ s.cursor # 0 => s.status # "connecting"
  /\ s.alive /\ s.turn = "none" /\ ~s.odd => s.status \in {"connecting", "ready"} /\ ~s.active

\* Only a first start runs without a row.
Awaited == binding = Absent => Begun("reactor")

\* The row has the conversation of the session, or is going to.
Written == Current # 0 => binding = Current \/ \E a \in Actors : Pending(a)

\* The session has its timer, is going to have it, or is going to end.
Watched ==
  contexts[session].alive /\ contexts[session].announced =>
    \/ Armed \/ contexts[session].turn # "none" \/ contexts[session].odd
    \/ \E a \in Actors : Replaces(a) \/ (binding # Absent /\ Stopping(a))

\* What makes a session at rest one that can be stopped.
Rested ==
  /\ Late
  /\ session # 0 => Standing(contexts[session])
  /\ Quiet /\ session # 0 => Awaited /\ Written /\ Watched

\* A call that moves on, or comes back, while nobody sets the timer.
LEMMA LateKept ==
  ASSUME Late, timer' => timer,
         \A b \in Actors :
           \/ call'[b] = Idle
           \/ /\ call'[b].after = call[b].after /\ call'[b].op = call[b].op
              /\ At(b, "done") => call'[b] = call[b]
  PROVE  Late'
BY DEF Late, Idle, Busy, At

\* One call moves on.
LEMMA LateMoves ==
  ASSUME Inv, Late, timer' => timer, NEW a \in Actors, ~At(a, "done"),
         \A b \in Actors \ {a} : call'[b] = call[b],
         \/ call'[a] = Idle
         \/ call'[a].after = call[a].after /\ call'[a].op = call[a].op
  PROVE  Late'
BY LateKept

\* What Read, Bind and Continue do to the calls.
LEMMA LateCalls ==
  ASSUME Inv, Late, timer' => timer, NEW a \in Actors, ~At(a, "done"),
         Return(a) \/ Ask(a) \/ Launch(a, StartCursor) \/ \E pc \in {"bind"} : Goto(a, pc)
  PROVE  Late'
<1> USE Types
<1>1. CASE Return(a)
  BY <1>1, LateMoves DEF Return
<1>2. CASE Ask(a) /\ ~Return(a)
  <2>1. call' = [call EXCEPT ![a].pc = "asked", ![a].context = session, ![a].cursor = 0,
                             ![a].seen = binding']
    BY <1>2 DEF Ask
  <2>2. call'[a].after = call[a].after /\ call'[a].op = call[a].op
        /\ \A b \in Actors \ {a} : call'[b] = call[b]
    BY <2>1 DEF CallStates
  <2>3. QED BY <2>2, LateMoves
<1>3. CASE Launch(a, StartCursor)
  <2>1. call' = [call EXCEPT ![a].pc = "opening", ![a].context = Len(contexts) + 1,
                             ![a].cursor = StartCursor, ![a].seen = binding]
    BY <1>3 DEF Launch
  <2>2. call'[a].after = call[a].after /\ call'[a].op = call[a].op
        /\ \A b \in Actors \ {a} : call'[b] = call[b]
    BY <2>1 DEF CallStates
  <2>3. QED BY <2>2, LateMoves
<1>4. CASE Goto(a, "bind")
  BY <1>4, LateMoves DEF Goto, CallStates
<1>5. QED BY <1>1, <1>2, <1>3, <1>4

\* Every step keeps what is known of the calls that began late.
LEMMA LateSteps ==
  ASSUME Inv, Late, [Next]_vars
  PROVE  Late'
<1> USE Types
<1>1. CASE UNCHANGED vars
  BY <1>1 DEF vars, Late, Busy, At
<1>2. ASSUME NEW a \in Actors,
             NEW op \in {"start", "send", "rollback", "stop", "stopRuntime", "clear"}, Begin(a, op)
      PROVE  Late'
  <2>1. call' = [call EXCEPT ![a] = [Idle EXCEPT !.op = op, !.pc = "read", !.after = timer]]
        /\ timer' = (timer /\ op \in {"send", "rollback"})
    BY <1>2 DEF Begin
  <2>2. call'[a].op = op /\ \A b \in Actors \ {a} : call'[b] = call[b]
    BY <2>1 DEF Idle
  <2>3. QED BY <2>1, <2>2 DEF Late, Busy, At
<1>3. CASE TimerFires \/ \E graceful \in BOOLEAN : EndServer(graceful)
  <2>1. CASE TimerFires
    BY <2>1 DEF TimerFires, Late, Busy, At, Idle
  <2>2. CASE \E graceful \in BOOLEAN : EndServer(graceful)
    BY <2>2 DEF EndServer, Late, Busy, At, Idle
  <2>3. QED BY <1>3, <2>1, <2>2
<1>4. CASE Reconcile
  BY <1>4 DEF Reconcile, Late, CallStates, Busy, At
<1>5. ASSUME NEW a \in Actors, Read(a)
      PROVE  Late'
  <2>0. ~At(a, "done")
    BY <1>5 DEF Read, At
  <2>1. CASE (Launch(a, StartCursor) \/ Ask(a) \/ Return(a)) /\ UNCHANGED timer
    BY <2>0, <2>1, LateCalls
  <2>2. CASE timer' = FALSE /\ call' = [call EXCEPT ![a].op = "stopRuntime"]
    BY <2>0, <2>2 DEF Late, CallStates, Busy, At
  <2>3. CASE UNCHANGED timer /\ call' = [call EXCEPT ![a].pc = "unbind", ![a].cursor = binding,
                                     ![a].seen = binding, ![a].context = Len(contexts)]
    <3>1. call'[a].after = call[a].after /\ call'[a].op = call[a].op
          /\ \A b \in Actors \ {a} : call'[b] = call[b]
      BY <2>3 DEF CallStates
    <3>2. QED BY <2>0, <2>3, <3>1, LateMoves
  <2>4. QED BY <1>5, <2>1, <2>2, <2>3
            DEF Read, ReadForStart, ReadForRequest, ReadForIdle, ReadForStop
<1>6. ASSUME NEW a \in Actors,
             Bind(a) \/ Unbind(a) \/ AccessFails(a) \/ Start(a) \/ OpenFails(a) \/ AskFails(a)
                     \/ Continue(a)
      PROVE  Late'
  <2>1. ~At(a, "done") /\ timer' = timer
    BY <1>6 DEF Bind, Unbind, AccessFails, Start, OpenFails, AskFails, Continue, At
  <2>2. Return(a) \/ Ask(a) \/ Goto(a, "bind")
    BY <1>6 DEF Bind, Unbind, AccessFails, Start, OpenFails, AskFails, Continue
  <2>3. QED BY <2>1, <2>2, LateCalls
<1>7. ASSUME NEW a \in Actors, Resume(a) \/ OpenFresh(a) \/ Take(a) \/ Answer(a)
      PROVE  Late'
  <2>1. ~At(a, "done") /\ timer' = timer
    BY <1>7 DEF Resume, OpenFresh, Take, Answer, At
  <2>2. call'[a].after = call[a].after /\ call'[a].op = call[a].op
        /\ \A b \in Actors \ {a} : call'[b] = call[b]
    <3>1. CASE Resume(a) \/ OpenFresh(a)
      BY <3>1 DEF Resume, OpenFresh, Opened, CallStates
    <3>2. CASE Take(a)
      BY <3>2 DEF Take, CallStates
    <3>3. CASE Answer(a)
      BY <3>3 DEF Answer, CallStates
    <3>4. QED BY <1>7, <3>1, <3>2, <3>3
  <2>3. QED BY <2>1, <2>2, LateMoves
<1>8. ASSUME NEW c \in DOMAIN contexts,
              NotifyStarted(c) \/ NotifyCompleted(c) \/ Die(c) \/ HearExit(c)
       PROVE  Late'
  <2>1. UNCHANGED <<timer, call>>
    BY <1>8 DEF NotifyStarted, NotifyCompleted, Die, HearExit
  <2>2. QED BY <2>1 DEF Late, Busy, At
<1>9. QED BY <1>1, <1>2, <1>3, <1>4, <1>5, <1>6, <1>7, <1>8 DEF Next, Progress

\* Nothing is asked of a session that is gone.
LEMMA NoneRests ==
  ASSUME Late', session' = 0
  PROVE  Rested'
BY DEF Rested

\* Calls move, the session stays as it is.
LEMMA CallRests ==
  ASSUME Rested, Late', UNCHANGED <<binding, contexts, session>>, Quiet' => Quiet,
         Quiet' => /\ \A b \in Actors : (Pending(b) => Pending(b)') /\ (Begun(b) => Begun(b)')
                   /\ session # 0 => Watched'
  PROVE  Rested'
<1>1. "reactor" \in Actors /\ Current' = Current
  BY DEF Actors, Current
<1>2. ASSUME Quiet', session # 0
      PROVE  Awaited' /\ Written' /\ Watched'
  <2>1. Awaited /\ Written
    BY <1>2 DEF Rested
  <2>2. QED BY <1>1, <1>2, <2>1 DEF Awaited, Written
<1>3. QED BY <1>2 DEF Rested

\* Calls that do not keep the session from being watched.
LEMMA CallWatched ==
  ASSUME Rested, Quiet, session # 0, UNCHANGED <<binding, contexts, session>>, Armed => Armed',
         \A b \in Actors : /\ Replaces(b) => Replaces(b)'
                           /\ binding # Absent /\ Stopping(b) => Stopping(b)'
  PROVE  Watched'
BY DEF Rested, Watched

\* One call moves on that is not at the start or the end of anything.
LEMMA OneRests ==
  ASSUME Rested, Late', UNCHANGED <<binding, contexts, session, timer, events, stale, faults>>,
         NEW a \in Actors, \A b \in Actors \ {a} : call'[b] = call[b],
         Pending(a) => Pending(a)', Begun(a) => Begun(a)', Replaces(a) => Replaces(a)',
         binding # Absent /\ Stopping(a) => Stopping(a)'
  PROVE  Rested'
<1>1. /\ \A b \in Actors : (Pending(b) => Pending(b)') /\ (Begun(b) => Begun(b)')
      /\ \A b \in Actors : /\ Replaces(b) => Replaces(b)'
                           /\ binding # Absent /\ Stopping(b) => Stopping(b)'
  BY DEF Pending, Begun, Replaces, Stopping, At
<1>2. (Armed => Armed') /\ Quiet' = Quiet
  BY DEF Armed, Quiet
<1>3. QED BY <1>1, <1>2, CallRests, CallWatched

\* A call begins, or the timer fires.
LEMMA BeginRests ==
  ASSUME Inv, Kept, Rested, Late',
         \/ TimerFires
         \/ \E a \in Actors, op \in {"start", "send", "rollback", "stop", "stopRuntime", "clear"} :
              Begin(a, op)
  PROVE  Rested'
<1>1. CASE TimerFires
  <2>1. /\ "timer" \in Actors /\ call["timer"].op = "none" /\ timer
        /\ UNCHANGED <<binding, contexts, session, events, stale, faults>>
        /\ call' = [call EXCEPT !["timer"] = [Idle EXCEPT !.op = "idle", !.pc = "read"]]
        /\ \A a \in Actors : Busy(a) => call[a].after
    BY <1>1 DEF TimerFires, Busy, Actors
  <2>2. call'["timer"].op = "idle" /\ call'["timer"].pc = "read"
        /\ \A b \in Actors \ {"timer"} : call'[b] = call[b]
    BY <2>1, Types DEF Idle
  <2>3. ~ Begun("reactor") /\ ~ Begun("timer")
    <3>1. \A a \in Actors : Busy(a) => call[a].op \in {"send", "rollback"}
      BY <2>1 DEF Rested, Late
    <3>2. QED BY <3>1 DEF Begun, Busy, Actors
  <2>4. ASSUME Quiet, session # 0
        PROVE  Watched'
    <3>1. binding # Absent
      BY <2>3, <2>4 DEF Rested, Awaited
    <3>2. Stopping("timer")'
      BY <2>2 DEF Stopping, At
    <3>3. QED BY <2>1, <3>1, <3>2 DEF Watched
  <2>5. \A b \in Actors : (Pending(b) => Pending(b)') /\ (Begun(b) => Begun(b)')
    <3>1. ~ Pending("timer") /\ session' = session
      BY <2>1 DEF Pending, Busy, Rested, Late, At
    <3>2. QED BY <2>2, <2>3, <3>1 DEF Pending, Begun
  <2>6. QED BY <2>1, <2>4, <2>5, CallRests DEF Quiet
<1>2. ASSUME NEW a \in Actors,
             NEW op \in {"start", "send", "rollback", "stop", "stopRuntime", "clear"}, Begin(a, op)
      PROVE  Rested'
  <2>1. call[a].op = "none" /\ UNCHANGED <<binding, contexts, session, events, stale, faults>>
        /\ call' = [call EXCEPT ![a] = [Idle EXCEPT !.op = op, !.pc = "read", !.after = timer]]
        /\ (a = "reactor" \/ op = "rollback") /\ timer' = (timer /\ op \in {"send", "rollback"})
    BY <1>2 DEF Begin, Busy
  <2>2. call'[a].op = op /\ call'[a].pc = "read" /\ \A b \in Actors \ {a} : call'[b] = call[b]
    BY <2>1, Types DEF Idle
  <2>3. ~ Begun(a) /\ ~ Replaces(a) /\ ~ Stopping(a)
    BY <2>1 DEF Begun, Replaces, Stopping, Stops
  <2>4. ASSUME Quiet, session # 0
        PROVE  Watched'
    <3>1. CASE op \in {"send", "rollback"}
      <4>1. Armed => Armed'
        BY <2>1, <3>1 DEF Armed
      <4>2. \A b \in Actors : /\ Replaces(b) => Replaces(b)'
                              /\ binding # Absent /\ Stopping(b) => Stopping(b)'
        BY <2>2, <2>3 DEF Replaces, Stopping, At
      <4>3. QED BY <2>1, <2>4, <4>1, <4>2, CallWatched
    <3>2. CASE op = "start"
      BY <2>2, <3>2 DEF Watched, Replaces, At
    <3>3. CASE op \in Stops
      <4>1. binding # Absent
        BY <2>1, <2>3, <2>4, <3>3 DEF Rested, Awaited, Stops
      <4>2. Stopping(a)'
        BY <2>2, <3>3 DEF Stopping, At
      <4>3. QED BY <2>1, <4>1, <4>2 DEF Watched
    <3>4. QED BY <3>1, <3>2, <3>3 DEF Stops
  <2>5. \A b \in Actors : (Pending(b) => Pending(b)') /\ (Begun(b) => Begun(b)')
    <3>1. ~ Pending(a) /\ session' = session
      BY <2>1 DEF Pending, Busy, Rested, Late, At
    <3>2. QED BY <2>2, <2>3, <3>1 DEF Pending, Begun
  <2>6. QED BY <2>1, <2>4, <2>5, CallRests DEF Quiet
<1>3. QED BY <1>1, <1>2

\* A start or a recovery has a session of its own.
LEMMA LaunchRests ==
  ASSUME Inv, Kept, Late', NEW a \in Actors, Launch(a, StartCursor), UNCHANGED binding,
         (call[a].op = "start" /\ a = "reactor") \/ binding # Absent
  PROVE  Rested'
<1>1. /\ session' = Len(contexts) + 1 /\ contexts'[session'] = NewContext
      /\ call' = [call EXCEPT ![a] = [call[a] EXCEPT !.pc = "opening",
                    !.context = Len(contexts) + 1, !.cursor = StartCursor, !.seen = binding]]
  BY Launches, Types DEF StartCursor
<1>2. Current' = 0
  BY <1>1, Types DEF Current, NewContext
<1>3. call'[a].op = call[a].op /\ call'[a].pc = "opening"
  BY <1>1, Types DEF CallStates
<1>4. Awaited' /\ Written' /\ Watched'
  BY <1>1, <1>2, <1>3 DEF Awaited, Begun, Written, Watched, NewContext
<1>5. Standing(contexts[session])'
  BY <1>1 DEF Standing, NewContext
<1>6. QED BY <1>4, <1>5 DEF Rested

\* A request goes to the session, or comes back.
LEMMA AskRests ==
  ASSUME Inv, Rested, Late', NEW a \in Actors, Ask(a) \/ Return(a),
         UNCHANGED <<binding, contexts, session, timer, events, stale, faults>>,
         ~Pending(a), ~Begun(a), ~Replaces(a), binding = Absent \/ ~Stopping(a)
  PROVE  Rested'
<1>1. \A b \in Actors \ {a} : call'[b] = call[b]
  BY Types DEF Ask, Return
<1>2. QED BY <1>1, OneRests

\* The idle timer stops a session that waits for a turn; another one will get
\* a timer of its own.
LEMMA IdleRests ==
  ASSUME Inv, Rested, Late', NEW a \in Actors, At(a, "read"), ReadForIdle(a),
         UNCHANGED <<binding, stale, faults>>
  PROVE  Rested'
<1>1. call[a].op = "idle" /\ UNCHANGED <<contexts, session, events>>
      /\ ~Pending(a) /\ ~Begun(a) /\ ~Replaces(a)
  BY DEF ReadForIdle, Pending, Begun, Replaces, At
<1>2. CASE binding # Absent /\ call' = [call EXCEPT ![a].op = "stopRuntime"]
  <2>1. Stopping(a)' /\ \A b \in Actors \ {a} : call'[b] = call[b]
    BY <1>2, Types DEF Stopping, At, CallStates, Stops
  <2>2. Watched'
    BY <1>2, <2>1 DEF Watched
  <2>3. \A b \in Actors : (Pending(b) => Pending(b)') /\ (Begun(b) => Begun(b)')
    BY <1>1, <2>1 DEF Pending, Begun
  <2>4. QED BY <1>1, <2>2, <2>3, CallRests DEF Quiet
<1>3. CASE /\ Return(a) /\ timer' = timer
           /\ binding = Absent \/ session = 0 \/ ~Stoppable(contexts[session])
  <2>1. \A b \in Actors \ {a} : call'[b] = call[b]
    BY <1>3, Types DEF Return
  <2>2. \A b \in Actors : (Pending(b) => Pending(b)') /\ (Begun(b) => Begun(b)')
    BY <1>1, <2>1 DEF Pending, Begun
  <2>3. ASSUME Quiet, session # 0
        PROVE  Watched'
    <3>1. CASE binding = Absent
      <4>1. Armed => Armed'
        BY <1>1, <1>3 DEF Armed
      <4>2. \A b \in Actors : Replaces(b) => Replaces(b)'
        BY <1>1, <2>1 DEF Replaces, At
      <4>3. QED BY <1>1, <2>3, <3>1, <4>1, <4>2, CallWatched
    <3>2. CASE binding # Absent
      <4>1. ASSUME contexts[session].alive, contexts[session].announced
            PROVE  contexts[session].turn # "none" \/ contexts[session].odd
        BY <1>3, <2>3, <3>2, <4>1 DEF Rested, Standing, Stoppable
      <4>2. QED BY <1>1, <4>1 DEF Watched
    <3>3. QED BY <3>1, <3>2
  <2>4. QED BY <1>1, <2>2, <2>3, CallRests DEF Quiet
<1>4. QED BY <1>2, <1>3 DEF ReadForIdle

\* What a call does after it has read the row.
LEMMA ReadRests ==
  ASSUME Inv, Kept, Rested, Late', NEW a \in Actors, Read(a)
  PROVE  Rested'
<1>1. At(a, "read") /\ UNCHANGED <<binding, stale, faults>> /\ ~Pending(a) /\ ~Begun(a)
  BY DEF Read, At, Pending, Begun
<1>2. CASE ReadForStart(a)
  BY <1>1, <1>2, LaunchRests DEF ReadForStart, Kept, KeptBy
<1>3. CASE ReadForRequest(a)
  <2>1. ~Replaces(a) /\ ~Stopping(a)
    BY <1>3 DEF ReadForRequest, Replaces, Stopping, Stops
  <2>2. CASE binding # Absent /\ Launch(a, StartCursor)
    BY <1>1, <2>2, LaunchRests
  <2>3. CASE (Ask(a) \/ Return(a)) /\ UNCHANGED <<contexts, session, events, timer>>
    BY <1>1, <2>1, <2>3, AskRests
  <2>4. QED BY <1>3, <2>2, <2>3 DEF ReadForRequest
<1>4. CASE ReadForIdle(a)
  BY <1>1, <1>4, IdleRests
<1>5. CASE ReadForStop(a)
  <2>1. CASE binding = Absent /\ Return(a) /\ UNCHANGED <<contexts, session, events, timer>>
    <3>1. ~Replaces(a)
      BY <1>5 DEF ReadForStop, Replaces
    <3>2. QED BY <1>1, <2>1, <3>1, AskRests
  <2>2. CASE StopSession
    BY <2>2, NoneRests DEF StopSession
  <2>3. QED BY <1>5, <2>1, <2>2 DEF ReadForStop
<1>6. QED BY <1>1, <1>2, <1>3, <1>4, <1>5 DEF Read

\* What a call came back with is written: that is what the session has, if
\* nothing overtook it.
LEMMA BindRests ==
  ASSUME Inv, Kept, Rested, Late', NEW a \in Actors, Bind(a)
  PROVE  Rested'
<1> DEFINE k == call[a].cursor
<1>1. /\ At(a, "bind") /\ binding' = k /\ k \in Nat
      /\ UNCHANGED <<contexts, session, timer, events>>
      /\ stale' = (stale \/ call[a].context # Len(contexts) \/ binding # call[a].seen)
      /\ faults' = faults /\ \A b \in Actors \ {a} : call'[b] = call[b]
  <2>1. \A b \in Actors \ {a} : call'[b] = call[b]
    BY Types DEF Bind, Ask, Return
  <2>2. QED BY <2>1, Types DEF Bind, Overtaken
<1>2. ASSUME Quiet', session # 0
      PROVE  Quiet /\ Current = k /\ binding' # Absent
  BY <1>1, <1>2, Types DEF Kept, KeptBy, At, Quiet, Inv, TypeOK
<1>3. ASSUME Quiet', session # 0
      PROVE  Awaited' /\ Written' /\ Watched'
  <2>1. Current' = Current /\ (Armed => Armed') /\ ~Replaces(a) /\ ~Stopping(a)
    BY <1>1 DEF Current, Armed, Replaces, Stopping, At
  <2>2. \A b \in Actors : (Replaces(b) => Replaces(b)') /\ (Stopping(b) => Stopping(b)')
    BY <1>1, <2>1 DEF Replaces, Stopping, At
  <2>3. Watched
    BY <1>2, <1>3 DEF Rested
  <2>4. Watched'
    BY <1>1, <1>2, <1>3, <2>1, <2>2, <2>3 DEF Watched
  <2>5. QED BY <1>1, <1>2, <1>3, <2>1, <2>4 DEF Awaited, Written
<1>4. QED BY <1>1, <1>3 DEF Rested

\* A stop that is not overtaken writes back when there is no session.
LEMMA UnbindRests ==
  ASSUME Inv, Kept, Rested, Late', NEW a \in Actors, Unbind(a) \/ AccessFails(a)
  PROVE  Rested'
<1>1. UNCHANGED <<contexts, session>>
  BY DEF Unbind, AccessFails
<1>2. session = 0 \/ ~Quiet'
  <2>1. CASE Unbind(a)
    BY <2>1 DEF Unbind, Overtaken, Kept, KeptBy, At, Quiet, Inv, TypeOK
  <2>2. CASE AccessFails(a)
    BY <2>2 DEF AccessFails, Quiet, Inv, TypeOK
  <2>3. QED BY <2>1, <2>2
<1>3. QED BY <1>1, <1>2 DEF Rested

\* The session's context changes, but not its conversation.
LEMMA ContextRests ==
  ASSUME Inv, Rested, Late', NEW x \in Contexts, session # 0, session' = session,
         contexts' = [contexts EXCEPT ![session] = x], x.cursor = contexts[session].cursor,
         Standing(x), UNCHANGED <<binding, stale, faults>>,
         \A b \in Actors : (Pending(b) => Pending(b)') /\ (Begun(b) => Begun(b)'),
         Quiet => Watched'
  PROVE  Rested'
<1>1. contexts'[session] = x
  BY Registered, Replacing
<1>2. Current' = Current /\ "reactor" \in Actors
  BY <1>1 DEF Current, Actors
<1>3. ASSUME Quiet
      PROVE  Awaited' /\ Written'
  BY <1>2, <1>3 DEF Rested, Awaited, Written
<1>4. QED BY <1>1, <1>3 DEF Rested, Quiet

\* A conversation is open: the call that opened it will write it down; a new
\* one sets the timer.
LEMMA OpenedRests ==
  ASSUME Inv, Kept, Rested, Late', NEW a \in Actors, NEW n \in Nat, n # 0,
         NEW announced \in BOOLEAN, Opened(a, n, announced), At(a, "opening"),
         Listens(call[a].context), UNCHANGED <<binding, session, stale, faults>>
  PROVE  Rested'
<1>1. Alone(a, n) /\ session \in 1..Len(contexts)
  <2>1. Alone(a, n)
    BY OpenedAlone DEF Opens
  <2>2. QED BY <2>1, Types DEF Alone
<1>2. PICK s \in Contexts : s = contexts[session]
  BY <1>1, Registered
<1>3. PICK x : x = [s EXCEPT !.status = "ready", !.cursor = n, !.announced = announced]
  OBVIOUS
<1>4. x \in Contexts /\ x.status = "ready" /\ x.cursor = n /\ x.announced = announced
      /\ x.alive = s.alive /\ x.turn = s.turn /\ x.odd = s.odd /\ x.active = s.active
  BY <1>3 DEF Contexts
<1>5. contexts' = [contexts EXCEPT ![session] = x]
  BY <1>1, <1>2, <1>3 DEF Opened, Alone
<1>6. contexts'[session] = x
  BY <1>4, <1>5, Registered, Replacing
<1>7. Standing(contexts[session])'
  BY <1>1, <1>2, <1>4, <1>6 DEF Rested, Standing, Alone
<1>8. ASSUME Quiet, session # 0
      PROVE  Awaited' /\ Written' /\ Watched'
  <2>1. Pending(a)'
    BY <1>1 DEF Pending, Alone
  <2>2. \A b \in Actors : Begun(b) => Begun(b)'
    BY <1>1 DEF Begun, Alone
  <2>3. announced => Armed'
    <3>1. ASSUME announced
          PROVE  events' # <<>> /\ events'[Len(events')] = "thread.started"
      <4>1. events' = Append(events, "thread.started")
        BY <3>1 DEF Opened
      <4>2. QED BY <4>1, Registered, AppendProperties, LenProperties DEF Heard
    <3>2. QED BY <3>1 DEF Armed, Arms
  <2>4. Watched'
    BY <1>1, <1>4, <1>6, <2>3 DEF Watched
  <2>5. "reactor" \in Actors
    BY DEF Actors
  <2>6. QED BY <1>8, <2>1, <2>2, <2>4, <2>5 DEF Rested, Awaited, Written
<1>9. QED BY <1>1, <1>7, <1>8 DEF Rested, Quiet

\* What a call does while Codex opens its conversation.
LEMMA OpeningRests ==
  ASSUME Inv, Kept, Rested, Late', NEW a \in Actors,
         Resume(a) \/ OpenFresh(a) \/ Start(a) \/ OpenFails(a)
  PROVE  Rested'
<1>1. CASE Resume(a)
  <2>1. call[a].cursor \in Nat /\ call[a].cursor # 0
    BY <1>1, Types DEF Resume
  <2>2. QED BY <1>1, <2>1, OpenedRests DEF Resume
<1>2. CASE OpenFresh(a)
  <2>1. conversations + 1 \in Nat /\ conversations + 1 # 0
    BY DEF Inv, TypeOK
  <2>2. QED BY <1>2, <2>1, OpenedRests DEF OpenFresh
<1>3. CASE Start(a)
  <2>1. call' = [call EXCEPT ![a].pc = "bind"] /\ At(a, "opened")
        /\ UNCHANGED <<binding, contexts, session, timer, events, stale, faults>>
    BY <1>3 DEF Start, Goto
  <2>2. call'[a].op = call[a].op /\ call'[a].pc = "bind" /\ call'[a].context = call[a].context
        /\ \A b \in Actors \ {a} : call'[b] = call[b]
    BY <2>1, Types DEF CallStates
  <2>3. QED BY <2>1, <2>2, OneRests DEF Pending, Begun, Replaces, Stopping, At
<1>4. CASE OpenFails(a)
  BY <1>4, NoneRests DEF OpenFails, StopSession
<1>5. QED BY <1>1, <1>2, <1>3, <1>4

\* What a call does while Codex handles its request.
LEMMA RequestRests ==
  ASSUME Inv, Kept, Rested, Late', NEW a \in Actors,
         Take(a) \/ Answer(a) \/ AskFails(a) \/ Continue(a)
  PROVE  Rested'
<1>0. UNCHANGED <<binding, session, timer, events, stale, faults>>
      /\ ~Pending(a) /\ ~Begun(a) /\ ~Replaces(a) /\ ~Stopping(a)
  BY DEF Take, Answer, AskFails, Continue, Pending, Begun, Replaces, Stopping, At
<1>1. CASE Answer(a) \/ AskFails(a)
  <2>1. \A b \in Actors \ {a} : call'[b] = call[b]
    BY <1>1, Types DEF Answer, AskFails, Return
  <2>2. UNCHANGED contexts
    BY <1>1 DEF Answer, AskFails
  <2>3. QED BY <1>0, <2>1, <2>2, OneRests
<1>2. CASE Take(a)
  <2>1. call[a].context = session /\ session # 0 /\ session \in 1..Len(contexts) /\ Current # 0
    <3>1. call[a].context = session /\ session # 0 /\ session \in 1..Len(contexts)
      BY <1>2, Asked, Listening, Types DEF Take, Kept, At
    <3>2. QED BY <1>2, <3>1 DEF Take, Kept, KeptBy
  <2>2. PICK s \in Contexts : s = contexts[session]
    BY <2>1, Registered
  <2>3. PICK x : x = [s EXCEPT !.turn = "taken"]
    OBVIOUS
  <2>4. x \in Contexts /\ x.turn = "taken" /\ x.cursor = s.cursor /\ x.status = s.status
    BY <2>3 DEF Contexts
  <2>5. contexts' = [contexts EXCEPT ![session] = x]
    BY <1>2, <2>1, <2>2, <2>3 DEF Take
  <2>6. contexts'[session] = x
    BY <2>1, <2>4, <2>5, Registered, Replacing
  <2>7. Standing(x) /\ x.cursor = contexts[session].cursor
    BY <2>1, <2>2, <2>4 DEF Rested, Standing, Current
  <2>8. Watched'
    BY <1>0, <2>4, <2>6 DEF Watched
  <2>9. \A b \in Actors : (Pending(b) => Pending(b)') /\ (Begun(b) => Begun(b)')
    <3>1. \A b \in Actors \ {a} : call'[b] = call[b]
      BY <1>2, Types DEF Take
    <3>2. QED BY <1>0, <3>1 DEF Pending, Begun
  <2>10. QED BY <1>0, <2>1, <2>4, <2>5, <2>7, <2>8, <2>9, ContextRests
<1>3. CASE Continue(a)
  <2> DEFINE c == call[a].context
             sent == call[a].op = "send"
  <2>1. c \in 1..Len(contexts) /\ \A b \in Actors \ {a} : call'[b] = call[b]
    BY <1>3, Asked, Types DEF Continue, At, Goto, Return
  <2>2. CASE contexts[c].over
    BY <1>0, <1>3, <2>1, <2>2, OneRests DEF Continue
  <2>3. CASE ~contexts[c].over
    <3>1. c = session /\ session # 0
      BY <2>1, <2>3, Registered
    <3>2. PICK s \in Contexts : s = contexts[session]
      BY <2>1, <3>1, Registered
    <3>3. PICK x : x = [s EXCEPT !.status = IF sent THEN "running" ELSE "ready", !.active = sent,
                                 !.odd = IF sent THEN s.turn = "none" ELSE @]
      OBVIOUS
    <3>4. /\ x \in Contexts /\ x.turn = s.turn /\ x.cursor = s.cursor /\ x.alive = s.alive
          /\ x.announced = s.announced /\ x.active = sent
          /\ x.status = IF sent THEN "running" ELSE "ready"
          /\ x.odd = IF sent THEN s.turn = "none" ELSE s.odd
      BY <3>3 DEF Contexts
    <3>5. contexts' = [contexts EXCEPT ![session] = x]
      BY <1>3, <2>3, <3>1, <3>2, <3>3 DEF Continue
    <3>6. contexts'[session] = x
      BY <2>1, <3>1, <3>4, <3>5, Registered, Replacing
    <3>7. Standing(x) /\ x.cursor = contexts[session].cursor
      BY <3>1, <3>2, <3>4 DEF Rested, Standing
    <3>8. ASSUME Quiet
          PROVE  Watched'
      <4>1. \A b \in Actors : (Replaces(b) => Replaces(b)') /\ (Stopping(b) => Stopping(b)')
        BY <1>0, <2>1 DEF Replaces, Stopping, At
      <4>2. Armed => Armed'
        BY <1>0 DEF Armed
      <4>3. QED BY <1>0, <3>1, <3>2, <3>4, <3>6, <3>8, <4>1, <4>2 DEF Rested, Watched
    <3>9. \A b \in Actors : (Pending(b) => Pending(b)') /\ (Begun(b) => Begun(b)')
      BY <1>0, <2>1 DEF Pending, Begun
    <3>10. QED BY <1>0, <3>1, <3>4, <3>5, <3>7, <3>8, <3>9, ContextRests
  <2>4. QED BY <2>2, <2>3
<1>4. QED BY <1>1, <1>2, <1>3

\* What a process says, or how it ends.
LEMMA ProcessRests ==
  ASSUME Inv, Kept, Rested, Late', NEW c \in DOMAIN contexts,
         NotifyStarted(c) \/ NotifyCompleted(c) \/ Die(c) \/ HearExit(c)
  PROVE  Rested'
<1>1. c \in 1..Len(contexts) /\ UNCHANGED <<binding, call, stale, faults>>
  BY Registered DEF NotifyStarted, NotifyCompleted, Die, HearExit
<1>2. CASE HearExit(c)
  BY <1>2, NoneRests DEF HearExit
<1>3. CASE ~HearExit(c)
  <2>0. Listens(c) /\ session' = session
    BY <1>3 DEF NotifyStarted, NotifyCompleted, Die
  <2>1. Listens(c) /\ c = session /\ session # 0 /\ session' = session
    <3>1. Len(contexts) \in Nat /\ c # 0
      BY <1>1, Registered
    <3>2. c = session
      BY <1>1, <2>0, Listening
    <3>3. QED BY <2>0, <3>1, <3>2
  <2>2. PICK s \in Contexts : s = contexts[session]
    BY <1>1, <2>1, Registered
  <2>3. \A b \in Actors : (Pending(b) => Pending(b)') /\ (Begun(b) => Begun(b)')
    BY <1>1, <2>1 DEF Pending, Begun
  <2>4. ASSUME NEW x \in Contexts, contexts' = [contexts EXCEPT ![session] = x],
               x.cursor = s.cursor, Standing(x),
               ~x.alive \/ x.turn # "none" \/ Armed'
        PROVE  Rested'
    <3>1. contexts'[session] = x
      BY <1>1, <2>1, <2>4, Registered, Replacing
    <3>2. Watched'
      BY <2>1, <2>4, <3>1 DEF Watched
    <3>3. QED BY <1>1, <2>1, <2>2, <2>3, <2>4, <3>2, ContextRests
  <2>5. CASE NotifyStarted(c)
    <3>1. PICK x : x = [s EXCEPT !.turn = "started", !.status = "running", !.active = TRUE]
      OBVIOUS
    <3>2. x \in Contexts /\ x.turn = "started" /\ x.status = "running" /\ x.cursor = s.cursor
      BY <3>1 DEF Contexts
    <3>3. contexts' = [contexts EXCEPT ![session] = x] /\ s.turn = "taken"
      BY <2>1, <2>2, <2>5, <3>1 DEF NotifyStarted
    <3>4. Standing(x)
      BY <2>1, <2>2, <3>2, <3>3 DEF Rested, Standing
    <3>5. QED BY <2>4, <3>2, <3>3, <3>4
  <2>6. CASE NotifyCompleted(c)
    <3>1. PICK failed \in BOOLEAN :
            contexts' = [contexts EXCEPT ![c].turn = "none", ![c].active = FALSE,
                          ![c].status = IF failed THEN "error" ELSE "ready",
                          ![c].announced = TRUE, ![c].odd = failed]
      BY <2>6 DEF NotifyCompleted
    <3>2. PICK x : x = [s EXCEPT !.turn = "none", !.active = FALSE,
                          !.status = IF failed THEN "error" ELSE "ready",
                          !.announced = TRUE, !.odd = failed]
      OBVIOUS
    <3>3. /\ x \in Contexts /\ x.turn = "none" /\ x.active = FALSE /\ x.odd = failed
          /\ x.status = (IF failed THEN "error" ELSE "ready") /\ x.cursor = s.cursor
      BY <3>2 DEF Contexts
    <3>4. contexts' = [contexts EXCEPT ![session] = x]
      BY <2>1, <2>2, <3>1, <3>2
    <3>5. s.turn = "started" /\ events' = Append(events, "turn.completed")
      BY <2>1, <2>2, <2>6 DEF NotifyCompleted
    <3>6. Standing(x)
      BY <2>1, <2>2, <3>3, <3>5 DEF Rested, Standing
    <3>7. Armed'
      <4>1. PICK e : e = "turn.completed" /\ e \in Heard
        BY DEF Heard
      <4>2. events' # <<>> /\ events'[Len(events')] = e
        BY <3>5, <4>1, Registered, AppendProperties, LenProperties
      <4>3. QED BY <4>1, <4>2 DEF Armed, Arms
    <3>8. QED BY <2>4, <3>3, <3>4, <3>6, <3>7
  <2>7. CASE Die(c)
    <3>1. PICK x : x = [s EXCEPT !.alive = FALSE, !.turn = "none"]
      OBVIOUS
    <3>2. /\ x \in Contexts /\ x.turn = "none" /\ ~x.alive /\ x.cursor = s.cursor
          /\ x.status = s.status /\ x.announced = s.announced
      BY <3>1 DEF Contexts
    <3>3. contexts' = [contexts EXCEPT ![session] = x]
      BY <2>1, <2>2, <2>7, <3>1 DEF Die
    <3>4. Standing(x)
      BY <2>1, <2>2, <3>2 DEF Rested, Standing
    <3>5. QED BY <2>4, <3>2, <3>3, <3>4
  <2>8. QED BY <1>3, <2>5, <2>6, <2>7
<1>4. QED BY <1>2, <1>3

\* A sequence without a tail has one element.
LEMMA LastOne ==
  ASSUME NEW S, NEW s \in Seq(S), s # <<>>, Tail(s) = <<>>
  PROVE  Len(s) = 1
<1>1. Len(s) \in Nat /\ Tail(s) \in Seq(S)
  BY HeadTailProperties, LenProperties
<1>2. PICK n \in Nat : n = Len(s)
  BY <1>1
<1>3. PICK t \in Seq(S) : t = Tail(s)
  BY <1>1
<1>4. Len(t) = n - 1
  BY <1>2, <1>3, HeadTailProperties
<1>5. Len(t) = 0
  BY ONLY <1>3, Tail(s) = <<>>, EmptySeq
<1>6. n = 1
  <2>1. PICK k : k = Len(t)
    OBVIOUS
  <2>2. k = n - 1 /\ k = 0
    BY <1>4, <1>5, <2>1
  <2>3. QED BY ONLY <2>2, n \in Nat
<1>7. QED BY <1>2, <1>6

\* The service's ears, and the end of the server.
LEMMA ServerRests ==
  ASSUME Inv, Kept, Rested, Late', Reconcile \/ \E graceful \in BOOLEAN : EndServer(graceful)
  PROVE  Rested'
<1>1. CASE \E graceful \in BOOLEAN : EndServer(graceful)
  BY <1>1, NoneRests DEF EndServer
<1>2. CASE Reconcile
  <2>1. /\ UNCHANGED <<binding, contexts, session, stale, faults>>
        /\ call' = [b \in Actors |-> [call[b] EXCEPT !.after = FALSE]]
        /\ events # <<>> /\ events' = Tail(events) /\ timer' = (Head(events) \in Arms)
    BY <1>2 DEF Reconcile
  <2>2. \A b \in Actors : /\ call'[b].op = call[b].op /\ call'[b].pc = call[b].pc
                          /\ call'[b].context = call[b].context
    BY <2>1, Types DEF CallStates
  <2>3. /\ \A b \in Actors : (Pending(b) => Pending(b)') /\ (Begun(b) => Begun(b)')
        /\ \A b \in Actors : (Replaces(b) => Replaces(b)') /\ (Stopping(b) => Stopping(b)')
    BY <2>1, <2>2 DEF Pending, Begun, Replaces, Stopping, At
  <2>4. Armed => Armed'
    <3>1. /\ events \in Seq(Heard) /\ Len(events) \in Nat /\ Len(Tail(events)) = Len(events) - 1
          /\ Len(events) # 0 /\ Head(events) = events[1] /\ Tail(events) \in Seq(Heard)
          /\ \A i \in 1..Len(Tail(events)) : Tail(events)[i] = events[i + 1]
      BY <2>1, Registered, HeadTailProperties, LenProperties, EmptySeq
    <3>2. CASE Tail(events) = <<>>
      <4>1. Len(events) = 1
        BY <2>1, <3>1, <3>2, LastOne
      <4>2. QED BY <2>1, <3>1, <3>2, <4>1 DEF Armed
    <3>3. CASE Tail(events) # <<>>
      <4>1. Len(Tail(events)) # 0
        BY <3>1, <3>3, EmptySeq
      <4>2. Tail(events)[Len(Tail(events))] = events[Len(events)]
        BY <3>1, <4>1
      <4>3. QED BY <2>1, <3>3, <4>2 DEF Armed
    <3>4. QED BY <3>2, <3>3
  <2>5. QED BY <2>1, <2>3, <2>4, CallRests, CallWatched DEF Quiet
<1>3. QED BY <1>1, <1>2

\* Every step keeps what is known of a session at rest.
LEMMA RestSteps == Inv /\ Kept /\ Rested /\ [Next]_vars => Rested'
<1> SUFFICES ASSUME Inv, Kept, Rested, [Next]_vars
             PROVE  Rested'
  OBVIOUS
<1>1. Late'
  BY LateSteps DEF Rested
<1>2. CASE UNCHANGED vars
  <2>1. (Awaited' <=> Awaited) /\ (Written' <=> Written) /\ (Watched' <=> Watched)
    BY <1>2 DEF vars, Awaited, Begun, Written, Current, Pending, Watched, Armed, Replaces, Stopping,
                At
  <2>2. QED BY <1>1, <1>2, <2>1 DEF vars, Rested, Quiet
<1>3. CASE Next
  BY <1>1, <1>3, BeginRests, ReadRests, BindRests, UnbindRests, OpeningRests, RequestRests,
     ProcessRests, ServerRests DEF Next, Progress
<1>4. QED BY <1>2, <1>3

\* A session at rest that has had a turn, or announced its conversation, is
\* ready, has its row, and its timer runs (stopIdleRuntimeSession,
\* reconcileRuntimeIdleTimer): unless its last turn failed, or its sender
\* resumed after its end, a write was overtaken or something failed.
THEOREM RestIsStoppable == Spec => []AtRestStoppable
<1>1. Init => Rested
  <2>1. ASSUME Init
        PROVE  Rested
    BY <2>1 DEF Init, Rested, Late, Busy, At, Idle
  <2>2. QED BY <2>1
<1>2. Inv /\ Kept /\ Rested => AtRestStoppable
  <2> SUFFICES ASSUME Inv, Kept, Rested, NEW c \in DOMAIN contexts, AtRest(c),
                      contexts[c].announced, ~contexts[c].odd, ~stale, faults = 0
               PROVE  Stoppable(contexts[c]) /\ binding = contexts[c].cursor /\ timer
    BY DEF AtRestStoppable
  <2>1. c = session /\ c \in 1..Len(contexts) /\ session # 0 /\ contexts[c].alive
    BY Registered, Listening DEF AtRest, Listens
  <2>2. \A a \in Actors : At(a, "done")
    BY DEF AtRest, Rested, Late
  <2>3. \A a \in Actors : ~Pending(a) /\ ~Replaces(a) /\ ~Stopping(a)
    BY <2>2 DEF Pending, Replaces, Stopping, At
  <2>4. Written /\ Watched /\ Standing(contexts[c])
    BY <2>1 DEF Rested, Quiet
  <2>5. contexts[c].cursor # 0 /\ Stoppable(contexts[c])
    BY <2>1, <2>4 DEF AtRest, Standing, Stoppable
  <2>6. binding = contexts[c].cursor
    BY <2>1, <2>3, <2>4, <2>5 DEF Written, Current
  <2>7. timer
    BY <2>1, <2>3, <2>4 DEF Watched, AtRest, Armed
  <2>8. QED BY <2>5, <2>6, <2>7
<1>3. QED BY <1>1, <1>2, RestSteps, KeptAlways, PTL DEF Spec
=============================================================================
