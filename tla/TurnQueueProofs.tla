--------------------------- MODULE TurnQueueProofs ---------------------------
(***************************************************************************)
(* Theorems about TurnQueue, for any messages, faults, crashes and repeated*)
(* events: its variables keep their types and every message on its way,    *)
(* queued, in a fiber's hands or delivered was sent (TypeCorrect); if the  *)
(* domain stream brings no queue event twice, a message becomes a provider *)
(* turn at most once (AtMostOneStart), start events it may bring twice, as *)
(* often as it likes; if it brings neither twice, a message that was sent  *)
(* is always in exactly one place (NothingLost); queued messages are       *)
(* promoted in order (FirstInFirstOut); and when all has been processed    *)
(* the thread shows the provider's turn (ThreadSettles).                   *)
(***************************************************************************)
EXTENDS TurnQueue, SequenceTheorems, FiniteSetTheorems, TLAPS

\* The elements of a sequence.
Elems(s) == {s[i] : i \in DOMAIN s}

\* No element occurs twice.
Distinct(s) == \A i, j \in DOMAIN s : s[i] = s[j] => i = j

\* An element joins a sequence at its end ...
LEMMA OnAppend ==
  ASSUME NEW S, NEW s \in Seq(S), NEW x \in S
  PROVE  /\ Append(s, x) \in Seq(S) /\ Elems(Append(s, x)) = Elems(s) \cup {x}
         /\ Distinct(s) /\ x \notin Elems(s) => Distinct(Append(s, x))
<1> DEFINE t == Append(s, x)
<1>1. /\ t \in Seq(S) /\ Len(t) = Len(s) + 1 /\ Len(s) \in Nat
      /\ \A i \in 1..Len(s) : t[i] = s[i]
      /\ t[Len(s) + 1] = x /\ DOMAIN t = 1..(Len(s) + 1) /\ DOMAIN s = 1..Len(s)
  BY AppendProperties, LenProperties
<1> HIDE DEF t
<1>2. Elems(t) = Elems(s) \cup {x}
  BY <1>1 DEF Elems
<1>3. ASSUME Distinct(s), x \notin Elems(s)
      PROVE  Distinct(t)
  BY <1>1, <1>3 DEF Elems, Distinct
<1>4. QED BY <1>1, <1>2, <1>3 DEF t

\* ... or at its head.
LEMMA OnCons ==
  ASSUME NEW S, NEW s \in Seq(S), NEW x \in S
  PROVE  /\ <<x>> \o s \in Seq(S) /\ Elems(<<x>> \o s) = Elems(s) \cup {x}
         /\ Distinct(s) /\ x \notin Elems(s) => Distinct(<<x>> \o s)
<1> DEFINE t == <<x>> \o s
<1>1. <<x>> \in Seq(S) /\ Len(<<x>>) = 1 /\ <<x>>[1] = x
  OBVIOUS
<1>2. /\ t \in Seq(S) /\ Len(t) = 1 + Len(s) /\ Len(s) \in Nat
      /\ \A i \in 1..(1 + Len(s)) : t[i] = IF i <= 1 THEN x ELSE s[i - 1]
      /\ DOMAIN t = 1..(1 + Len(s)) /\ DOMAIN s = 1..Len(s)
  <2>1. /\ t \in Seq(S) /\ Len(t) = 1 + Len(s) /\ Len(s) \in Nat
        /\ \A i \in 1..(1 + Len(s)) : t[i] = IF i <= 1 THEN <<x>>[i] ELSE s[i - 1]
    BY <1>1, ConcatProperties, LenProperties
  <2>2. QED BY <1>1, <2>1, LenProperties
<1> HIDE DEF t
<1>3. t[1] = x /\ \A i \in 1..Len(s) : t[i + 1] = s[i]
  BY <1>2
<1>4. Elems(t) = Elems(s) \cup {x}
  <2>1. ASSUME NEW y \in Elems(t)
        PROVE  y \in Elems(s) \cup {x}
    BY <1>2 DEF Elems
  <2>2. ASSUME NEW y \in Elems(s)
        PROVE  y \in Elems(t)
    <3>1. PICK i \in 1..Len(s) : y = s[i]
      BY <1>2 DEF Elems
    <3>2. i + 1 \in DOMAIN t /\ t[i + 1] = y
      BY <1>2, <1>3, <3>1
    <3>3. QED BY <3>2 DEF Elems
  <2>3. x \in Elems(t)
    BY <1>2, <1>3 DEF Elems
  <2>4. QED BY <2>1, <2>2, <2>3
<1>5. ASSUME Distinct(s), x \notin Elems(s)
      PROVE  Distinct(t)
  <2>1. ASSUME NEW i \in DOMAIN t, NEW j \in DOMAIN t, t[i] = t[j]
        PROVE  i = j
    <3>1. ASSUME NEW k \in DOMAIN t
          PROVE  \/ k = 1 /\ t[k] = x
                 \/ k # 1 /\ t[k] = s[k - 1] /\ k - 1 \in DOMAIN s
      <4>1. k \in 1..(1 + Len(s)) /\ k \in Nat /\ k >= 1
        BY <1>2
      <4>2. CASE k = 1
        BY <1>2, <4>1, <4>2
      <4>3. CASE k # 1
        <5>1. ~(k <= 1) /\ k - 1 \in 1..Len(s)
          BY <1>2, <4>1, <4>3
        <5>2. QED BY <1>2, <4>1, <4>3, <5>1
      <4>4. QED BY <4>2, <4>3
    <3>2. \A k \in DOMAIN s : s[k] # x
      BY <1>5 DEF Elems
    <3>3. CASE i = 1 \/ j = 1
      BY <2>1, <3>1, <3>2, <3>3
    <3>4. CASE i # 1 /\ j # 1
      <4>1. i - 1 = j - 1
        BY <1>5, <2>1, <3>1, <3>4 DEF Distinct
      <4>2. QED BY <1>2, <4>1
    <3>5. QED BY <3>3, <3>4
  <2>2. QED BY <2>1 DEF Distinct
<1>6. QED BY <1>2, <1>4, <1>5 DEF t

\* The head leaves a sequence.
LEMMA OnTail ==
  ASSUME NEW S, NEW s \in Seq(S), s # <<>>
  PROVE  /\ Head(s) \in S /\ Tail(s) \in Seq(S) /\ Elems(s) = Elems(Tail(s)) \cup {Head(s)}
         /\ Distinct(s) => Distinct(Tail(s)) /\ Head(s) \notin Elems(Tail(s))
<1> DEFINE t == Tail(s)
<1>1. /\ Head(s) = s[1] /\ Head(s) \in S /\ t \in Seq(S) /\ Len(t) = Len(s) - 1 /\ Len(s) \in Nat
      /\ Len(s) # 0 /\ \A i \in 1..Len(t) : t[i] = s[i + 1]
      /\ DOMAIN t = 1..(Len(s) - 1) /\ DOMAIN s = 1..Len(s)
  BY HeadTailProperties, LenProperties, EmptySeq
<1> HIDE DEF t
<1>2. Elems(s) = Elems(t) \cup {s[1]}
  <2>1. ASSUME NEW y \in Elems(s)
        PROVE  y \in Elems(t) \cup {s[1]}
    <3>1. PICK i \in 1..Len(s) : y = s[i]
      BY <1>1 DEF Elems
    <3>2. CASE i # 1
      <4>1. i - 1 \in DOMAIN t /\ t[i - 1] = y
        BY <1>1, <3>1, <3>2
      <4>2. QED BY <4>1 DEF Elems
    <3>3. QED BY <3>1, <3>2
  <2>2. ASSUME NEW y \in Elems(t)
        PROVE  y \in Elems(s)
    <3>1. PICK i \in 1..Len(t) : y = t[i]
      BY <1>1 DEF Elems
    <3>2. i + 1 \in DOMAIN s /\ y = s[i + 1]
      BY <1>1, <3>1
    <3>3. QED BY <3>2 DEF Elems
  <2>3. s[1] \in Elems(s)
    BY <1>1 DEF Elems
  <2>4. QED BY <2>1, <2>2, <2>3
<1>3. ASSUME Distinct(s)
      PROVE  Distinct(t) /\ s[1] \notin Elems(t)
  <2>1. \A i, j \in 1..Len(s) : s[i] = s[j] => i = j
    BY <1>1, <1>3 DEF Distinct
  <2>2. \A i \in DOMAIN t : t[i] = s[i + 1] /\ i + 1 \in 1..Len(s) /\ i + 1 # 1
    BY <1>1
  <2>3. \A i, j \in DOMAIN t : t[i] = t[j] => i = j
    <3> TAKE i, j \in DOMAIN t
    <3>1. t[i] = t[j] => i + 1 = j + 1
      BY <2>1, <2>2
    <3>2. QED BY <1>1, <3>1
  <2>4. \A i \in DOMAIN t : t[i] # s[1]
    <3>1. 1 \in 1..Len(s)
      BY <1>1
    <3>2. QED BY <2>1, <2>2, <3>1
  <2>5. QED BY <2>3, <2>4 DEF Distinct, Elems
<1>4. QED BY <1>1, <1>2, <1>3 DEF t

\* One sequence follows another.
LEMMA OnConcat ==
  ASSUME NEW S, NEW s \in Seq(S), NEW t \in Seq(S)
  PROVE  s \o t \in Seq(S) /\ Elems(s \o t) = Elems(s) \cup Elems(t)
<1> DEFINE u == s \o t
<1>1. /\ u \in Seq(S) /\ Len(u) = Len(s) + Len(t) /\ Len(s) \in Nat /\ Len(t) \in Nat
      /\ \A i \in 1..(Len(s) + Len(t)) : u[i] = IF i <= Len(s) THEN s[i] ELSE t[i - Len(s)]
      /\ DOMAIN u = 1..(Len(s) + Len(t)) /\ DOMAIN s = 1..Len(s) /\ DOMAIN t = 1..Len(t)
  BY ConcatProperties, LenProperties
<1> HIDE DEF u
<1>2. ASSUME NEW y \in Elems(u)
      PROVE  y \in Elems(s) \cup Elems(t)
  <2>1. PICK i \in DOMAIN u : y = u[i]
    BY DEF Elems
  <2>2. CASE i <= Len(s)
    BY <1>1, <2>1, <2>2 DEF Elems
  <2>3. CASE ~(i <= Len(s))
    <3>1. i - Len(s) \in 1..Len(t) /\ y = t[i - Len(s)]
      BY <1>1, <2>1, <2>3
    <3>2. QED BY <1>1, <3>1 DEF Elems
  <2>4. QED BY <2>2, <2>3
<1>3. ASSUME NEW y \in Elems(s)
      PROVE  y \in Elems(u)
  <2>1. PICK i \in 1..Len(s) : y = s[i]
    BY <1>1 DEF Elems
  <2>2. i \in DOMAIN u /\ y = u[i]
    BY <1>1, <2>1
  <2>3. QED BY <2>2 DEF Elems
<1>4. ASSUME NEW y \in Elems(t)
      PROVE  y \in Elems(u)
  <2>1. PICK i \in 1..Len(t) : y = t[i]
    BY <1>1 DEF Elems
  <2>2. i + Len(s) \in DOMAIN u /\ y = u[i + Len(s)]
    BY <1>1, <2>1
  <2>3. QED BY <2>2 DEF Elems
<1>5. QED BY <1>1, <1>2, <1>3, <1>4 DEF u

-----------------------------------------------------------------------------
(* Types                                                                   *)

\* The events that carry a message towards the provider.
Moves == {"queued", "start"}

\* What is on its way, queued, in a fiber's hands or delivered was sent.
Known ==
  /\ \A e \in Elems(events) : e.type \in Moves => e.msg \in sent
  /\ Elems(pending) \subseteq sent
  /\ \A f \in Fibers : IF drain[f].pc = "dispatch" THEN drain[f].msg \in sent
                                                   ELSE drain[f].msg = NoMessage
  /\ IF reactor.pc = "sending" THEN reactor.msg \in sent ELSE reactor.msg = NoMessage
  /\ \A d \in Elems(delivered) : d.msg \in sent

\* The inductive invariant.
Typed == TypeOK /\ Known

\* What is left of the bounds.
Budgets == [stops : Nat, sendFaults : Nat, dispatchFaults : Nat, redeliveries : Nat]

\* An element more.
LEMMA AddsOne ==
  ASSUME NEW S, NEW s \in Seq(S), NEW x \in S
  PROVE  s \o <<x>> \in Seq(S) /\ Elems(s \o <<x>>) = Elems(s) \cup {x}
<1>1. <<x>> \in Seq(S) /\ Elems(<<x>>) = {x}
  BY DEF Elems
<1>2. s \o <<x>> \in Seq(S) /\ Elems(s \o <<x>>) = Elems(s) \cup Elems(<<x>>)
  BY <1>1, OnConcat
<1>3. QED BY <1>1, <1>2

\* Two elements more.
LEMMA AddsTwo ==
  ASSUME NEW S, NEW s \in Seq(S), NEW x \in S, NEW y \in S
  PROVE  s \o <<x, y>> \in Seq(S) /\ Elems(s \o <<x, y>>) = Elems(s) \cup {x, y}
<1>1. <<x, y>> \in Seq(S) /\ Elems(<<x, y>>) = {x, y}
  <2>1. <<x, y>> \in Seq(S) /\ DOMAIN <<x, y>> = {1, 2} /\ <<x, y>>[1] = x /\ <<x, y>>[2] = y
    OBVIOUS
  <2>2. QED BY <2>1 DEF Elems
<1>2. s \o <<x, y>> \in Seq(S) /\ Elems(s \o <<x, y>>) = Elems(s) \cup Elems(<<x, y>>)
  BY <1>1, OnConcat
<1>3. QED BY <1>1, <1>2

\* The end of the open turn, if any, is an event.
LEMMA ClosingType ==
  ASSUME TypeOK
  PROVE  /\ Closing \in Seq(RuntimeEvents)
         /\ runtime \o Closing \in Seq(RuntimeEvents) /\ ended \o Closing \in Seq(RuntimeEvents)
<1>1. active \in Turns /\ runtime \in Seq(RuntimeEvents) /\ ended \in Seq(RuntimeEvents)
  BY DEF TypeOK
<1>2. Terminal(active) \in RuntimeEvents
  BY <1>1 DEF Terminal, RuntimeEvents
<1>3. Closing \in Seq(RuntimeEvents)
  BY <1>2 DEF Closing
<1>4. QED BY <1>1, <1>3, OnConcat

\* The commands of the user.
LEMMA UserTypes ==
  ASSUME Typed, (\E m \in Messages : SendMessage(m)) \/ StopSession \/ Redeliver
  PROVE  Typed'
<1>1. /\ events \in Seq(DomainEvents) /\ eventId + 1 \in Nat /\ sent \subseteq Messages
      /\ budget \in Budgets /\ NoMessage \in Turns
  BY DEF Typed, TypeOK, Budgets, Turns
<1>2. ASSUME NEW m \in Messages, SendMessage(m)
      PROVE  Typed'
  <2> DEFINE a == Event("start", m, FALSE, eventId + 1)
             b == Event("queued", m, FALSE, eventId + 1)
             c == Event("interrupt", m, FALSE, eventId + 1)
  <2>1. a \in DomainEvents /\ b \in DomainEvents /\ c \in DomainEvents
        /\ a.msg = m /\ b.msg = m /\ c.msg = m
    BY <1>1 DEF Event, DomainEvents, Turns
  <2>2. events' \in {events \o <<a>>, events \o <<b>>, events \o <<b, c>>}
    BY <1>2 DEF SendMessage, Dispatched
  <2> HIDE DEF a, b, c
  <2>3. /\ events' \in Seq(DomainEvents)
        /\ \A e \in Elems(events') : e \in Elems(events) \/ e.msg = m
    <3>1. events \o <<a>> \in Seq(DomainEvents) /\ Elems(events \o <<a>>) = Elems(events) \cup {a}
      BY <1>1, <2>1, AddsOne
    <3>2. events \o <<b>> \in Seq(DomainEvents) /\ Elems(events \o <<b>>) = Elems(events) \cup {b}
      BY <1>1, <2>1, AddsOne
    <3>3. /\ events \o <<b, c>> \in Seq(DomainEvents)
          /\ Elems(events \o <<b, c>>) = Elems(events) \cup {b, c}
      BY <1>1, <2>1, AddsTwo
    <3>4. QED BY <2>1, <2>2, <3>1, <3>2, <3>3
  <2>4. sent' = sent \cup {m} /\ eventId' \in Nat
    BY <1>1, <1>2 DEF SendMessage, Dispatched
  <2>5. Known'
    BY <1>2, <2>3, <2>4 DEF SendMessage, Typed, Known, history
  <2>6. QED BY <1>1, <1>2, <2>3, <2>4, <2>5 DEF SendMessage, Typed, TypeOK, provider, history
<1>3. CASE StopSession
  <2> DEFINE e == Event("stop", NoMessage, FALSE, eventId + 1)
  <2>1. e \in DomainEvents /\ e.type \notin Moves /\ events' = events \o <<e>>
        /\ eventId' = eventId + 1
    BY <1>1, <1>3 DEF StopSession, Dispatched, Event, DomainEvents, Moves
  <2> HIDE DEF e
  <2>2. events' \in Seq(DomainEvents) /\ Elems(events') = Elems(events) \cup {e}
    <3>1. events \o <<e>> \in Seq(DomainEvents) /\ Elems(events \o <<e>>) = Elems(events) \cup {e}
      BY <1>1, <2>1, AddsOne
    <3>2. QED BY <2>1, <3>1
  <2>3. Known'
    BY <1>3, <2>1, <2>2 DEF StopSession, Typed, Known, history
  <2>4. budget' \in Budgets
    <3>1. budget.stops - 1 \in Nat
      BY <1>1, <1>3 DEF StopSession, Budgets
    <3>2. QED BY <1>1, <1>3, <3>1 DEF StopSession, Budgets
  <2>5. QED BY <1>1, <1>3, <2>1, <2>2, <2>3, <2>4
               DEF StopSession, Typed, TypeOK, provider, history, Budgets
<1>4. CASE Redeliver
  <2> DEFINE e == events[Len(events)]
  <2>1. e \in DomainEvents /\ events' = Append(events, e) /\ e \in Elems(events)
    BY <1>1, <1>4, LenProperties, EmptySeq DEF Redeliver, Elems
  <2> HIDE DEF e
  <2>2. events' \in Seq(DomainEvents) /\ Elems(events') = Elems(events)
    <3>1. /\ Append(events, e) \in Seq(DomainEvents)
          /\ Elems(Append(events, e)) = Elems(events) \cup {e}
      BY <1>1, <2>1, OnAppend
    <3>2. QED BY <2>1, <3>1
  <2>3. Known'
    BY <1>4, <2>2 DEF Redeliver, Typed, Known, history
  <2>4. budget' \in Budgets
    <3>1. budget.redeliveries - 1 \in Nat
      BY <1>1, <1>4 DEF Redeliver, Budgets
    <3>2. QED BY <1>1, <1>4, <3>1 DEF Redeliver, Budgets
  <2>5. QED BY <1>1, <1>4, <2>2, <2>3, <2>4 DEF Redeliver, Typed, TypeOK, provider, history, Budgets
<1>5. QED BY <1>2, <1>3, <1>4

\* The worker takes an event.
LEMMA TakesEvent ==
  ASSUME Typed, NEW type, NextEvent(type)
  PROVE  /\ Head(events) \in DomainEvents /\ Head(events) \in Elems(events)
         /\ Head(events).type = type
         /\ type \in Moves => Head(events).msg \in sent /\ Head(events).msg \in Messages
         /\ events' \in Seq(DomainEvents) /\ Elems(events') \subseteq Elems(events)
<1>1. events \in Seq(DomainEvents) /\ events # <<>> /\ events' = Tail(events)
      /\ Head(events).type = type /\ sent \subseteq Messages
  BY DEF Typed, TypeOK, NextEvent
<1>2. /\ Head(events) \in DomainEvents /\ Tail(events) \in Seq(DomainEvents)
      /\ Elems(events) = Elems(Tail(events)) \cup {Head(events)}
  BY <1>1, OnTail
<1>3. QED BY <1>1, <1>2 DEF Typed, Known

\* A message joins the queue.
LEMMA Enqueues ==
  ASSUME Typed, NEW m \in Messages
  PROVE  /\ Enqueue(m) \in Seq(Messages) /\ Elems(Enqueue(m)) = Elems(pending) \cup {m}
         /\ Distinct(pending) /\ m \notin Elems(pending) => Distinct(Enqueue(m))
<1>1. pending \in Seq(Messages)
  BY DEF Typed, TypeOK
<1>2. /\ Append(pending, m) \in Seq(Messages) /\ Elems(Append(pending, m)) = Elems(pending) \cup {m}
      /\ Distinct(pending) /\ m \notin Elems(pending) => Distinct(Append(pending, m))
  BY <1>1, OnAppend
<1>3. /\ <<m>> \o pending \in Seq(Messages) /\ Elems(<<m>> \o pending) = Elems(pending) \cup {m}
      /\ Distinct(pending) /\ m \notin Elems(pending) => Distinct(<<m>> \o pending)
  BY <1>1, OnCons
<1>4. QED BY <1>2, <1>3 DEF Enqueue

\* Where the worker may be.
ReactorPlaces == {"idle", "sending", "draining", "stopping", "setting", "waiting"}

\* A stop leaves the worker without a message, about to set the session.
LEMMA StopsAt ==
  ASSUME ProcessSessionStopRequested
  PROVE  /\ reactor.pc = "idle"
         /\ \E pc \in {"stopping", "setting", "waiting"} :
              reactor' = [pc |-> pc, msg |-> NoMessage, promoted |-> FALSE]
<1>1. reactor.pc = "idle"
  BY DEF ProcessSessionStopRequested, NextEvent
<1>2. PICK pc \in {"stopping", "setting", "waiting"} : reactor' = [Resting EXCEPT !.pc = pc]
  BY DEF ProcessSessionStopRequested
<1>3. reactor' = [pc |-> pc, msg |-> NoMessage, promoted |-> FALSE]
  BY <1>2 DEF Resting
<1>4. QED BY <1>1, <1>3

\* The ingestion leaves the worker alone, but for a stop that waits for it.
LEMMA IngestionSpares ==
  ASSUME reactor \in [pc : ReactorPlaces, msg : Turns, promoted : BOOLEAN], Ingestion
  PROVE  /\ reactor'.msg = reactor.msg /\ reactor'.promoted = reactor.promoted
         /\ reactor' = reactor \/ (reactor.pc = "waiting" /\ reactor'.pc = "setting")
         /\ reactor' \in [pc : ReactorPlaces, msg : Turns, promoted : BOOLEAN]
<1>1. reactor' = reactor \/ (reactor.pc = "waiting" /\ reactor' = [reactor EXCEPT !.pc = "setting"])
  BY DEF Ingestion, IngestRuntimeEvent, DispatchSessionSet
<1>2. QED BY <1>1 DEF ReactorPlaces

\* The worker's handlers.
LEMMA WorkerTypes ==
  ASSUME Typed, Worker \/ SendTurnFails
  PROVE  Typed'
<1>1. CASE ProcessTurnQueued
  <2> DEFINE m == Head(events).msg
  <2>1. m \in sent /\ m \in Messages /\ events' \in Seq(DomainEvents)
        /\ Elems(events') \subseteq Elems(events)
    BY <1>1, TakesEvent DEF ProcessTurnQueued, Moves
  <2>2. pending' = Enqueue(m) /\ arrived' = Append(arrived, m)
    BY <1>1 DEF ProcessTurnQueued
  <2> HIDE DEF m
  <2>3. pending' \in Seq(Messages) /\ Elems(pending') = Elems(pending) \cup {m}
    BY <2>1, <2>2, Enqueues
  <2>4. arrived' \in Seq(Messages)
    BY <2>1, <2>2 DEF Typed, TypeOK
  <2>5. Known'
    BY <1>1, <2>1, <2>3 DEF ProcessTurnQueued, Typed, Known
  <2>6. QED BY <1>1, <2>1, <2>3, <2>4, <2>5 DEF ProcessTurnQueued, Typed, TypeOK, provider
<1>2. CASE ProcessTurnStartRequested
  <2> DEFINE e == Head(events)
  <2>1. /\ e \in DomainEvents /\ e.msg \in sent /\ e.msg \in Messages /\ e.id \in Nat
        /\ e.promoted \in BOOLEAN
        /\ events' \in Seq(DomainEvents) /\ Elems(events') \subseteq Elems(events)
    <3>1. e \in DomainEvents /\ e.msg \in sent /\ e.msg \in Messages
          /\ events' \in Seq(DomainEvents) /\ Elems(events') \subseteq Elems(events)
      BY <1>2, TakesEvent DEF ProcessTurnStartRequested, Moves
    <3>2. QED BY <3>1 DEF DomainEvents
  <2>2. handled' \subseteq Nat
    <3>1. handled' = handled \cup {e.id} /\ handled \subseteq Nat
      BY <1>2 DEF ProcessTurnStartRequested, Typed, TypeOK
    <3>2. QED BY <2>1, <3>1
  <2>3. \/ UNCHANGED <<reactor, session, connected, runtime>>
        \/ /\ reactor' = [pc |-> "sending", msg |-> e.msg, promoted |-> e.promoted]
           /\ EnsureSession
    BY <1>2 DEF ProcessTurnStartRequested
  <2> HIDE DEF e
  <2>4. reactor' \in [pc : ReactorPlaces, msg : Turns,
                      promoted : BOOLEAN]
        /\ IF reactor'.pc = "sending" THEN reactor'.msg \in sent ELSE reactor'.msg = NoMessage
    BY <2>1, <2>3 DEF Typed, TypeOK, Known, Turns, ReactorPlaces
  <2>5. session' \in Sessions /\ connected' \in BOOLEAN /\ runtime' \in Seq(RuntimeEvents)
    <3>1. session \in Sessions /\ connected \in BOOLEAN /\ runtime \in Seq(RuntimeEvents)
      BY DEF Typed, TypeOK
    <3>2. Session("ready", NoTurn) \in Sessions
      BY DEF Session, Sessions, NoTurn, Turns
    <3>3. [type |-> "session.started", turn |-> NoTurn] \in RuntimeEvents
      BY DEF RuntimeEvents, NoTurn, Turns
    <3>4. runtime \o <<[type |-> "session.started", turn |-> NoTurn]>> \in Seq(RuntimeEvents)
      BY <3>1, <3>3, AddsOne
    <3>5. QED BY <2>3, <3>1, <3>2, <3>4 DEF EnsureSession, Emit
  <2>6. Known'
    BY <1>2, <2>1, <2>4 DEF ProcessTurnStartRequested, Typed, Known, history
  <2>7. QED BY <1>2, <2>1, <2>2, <2>4, <2>5, <2>6
               DEF ProcessTurnStartRequested, Typed, TypeOK, history
<1>3. CASE CloseOpenTurn
  <2>1. runtime' \in Seq(RuntimeEvents) /\ ended' \in Seq(RuntimeEvents) /\ active' \in Turns
    BY <1>3, ClosingType DEF CloseOpenTurn, Emit, Typed, Turns, NoTurn
  <2>2. QED BY <1>3, <2>1 DEF CloseOpenTurn, Typed, TypeOK, Known, history
<1>4. CASE SendTurn
  <2> DEFINE d == [msg |-> reactor.msg, promoted |-> reactor.promoted]
             t == [type |-> "turn.started", turn |-> reactor.msg]
  <2>1. reactor.msg \in sent /\ reactor.msg \in Messages /\ reactor.promoted \in BOOLEAN
    BY <1>4 DEF SendTurn, Typed, TypeOK, Known
  <2>2. d \in [msg : Messages, promoted : BOOLEAN] /\ d.msg \in sent /\ t \in RuntimeEvents
    BY <2>1 DEF RuntimeEvents, Turns
  <2>3. delivered' = Append(delivered, d) /\ runtime' = runtime \o <<t>> /\ active' = reactor.msg
        /\ reactor' = Resting
    BY <1>4 DEF SendTurn, Emit
  <2> HIDE DEF d, t
  <2>4. /\ delivered' \in Seq([msg : Messages, promoted : BOOLEAN])
        /\ Elems(delivered') = Elems(delivered) \cup {d}
    <3> DEFINE D == [msg : Messages, promoted : BOOLEAN]
    <3>1. delivered \in Seq(D) /\ d \in D
      BY <2>2 DEF Typed, TypeOK
    <3> HIDE DEF D
    <3>2. Append(delivered, d) \in Seq(D) /\ Elems(Append(delivered, d)) = Elems(delivered) \cup {d}
      BY <3>1, OnAppend
    <3>3. QED BY <2>3, <3>2 DEF D
  <2>5. runtime' \in Seq(RuntimeEvents)
    <3>1. runtime \in Seq(RuntimeEvents)
      BY DEF Typed, TypeOK
    <3>2. QED BY <2>2, <2>3, <3>1, AddsOne
  <2>6. Known'
    BY <1>4, <2>2, <2>3, <2>4 DEF SendTurn, Typed, Known, Resting
  <2>7. QED BY <1>4, <2>1, <2>3, <2>4, <2>5, <2>6 DEF SendTurn, Typed, TypeOK, Resting, Turns
<1>5. CASE SendTurnFails
  <2>1. failed' \subseteq Messages
    BY <1>5 DEF SendTurnFails, Typed, TypeOK, Known
  <2>2. budget' \in Budgets
    <3>1. budget \in Budgets /\ budget.sendFaults - 1 \in Nat
      BY <1>5 DEF SendTurnFails, Typed, TypeOK, Budgets
    <3>2. QED BY <1>5, <3>1 DEF SendTurnFails, Budgets
  <2>3. /\ reactor' = [Resting EXCEPT !.pc = "draining"]
        /\ drain' = [drain EXCEPT !["worker"] = [NotDraining EXCEPT !.pc = "begin"]]
    BY <1>5 DEF SendTurnFails
  <2>4. /\ drain' \in [Fibers -> [pc : {"off", "begin", "dequeue", "dispatch"}, msg : Turns]]
        /\ \A f \in Fibers : IF drain'[f].pc = "dispatch" THEN drain'[f].msg \in sent
                                                          ELSE drain'[f].msg = NoMessage
    BY <2>3 DEF Typed, TypeOK, Known, NotDraining, Turns
  <2>5. Known'
    BY <1>5, <2>3, <2>4 DEF SendTurnFails, Typed, Known, Resting
  <2>6. QED BY <1>5, <2>1, <2>2, <2>3, <2>4, <2>5
               DEF SendTurnFails, Typed, TypeOK, Resting, Turns, provider, Budgets
<1>6. CASE ResumeWorker \/ SetSessionStopped
  <2>1. session' \in Sessions /\ reactor' = Resting
    BY <1>6 DEF ResumeWorker, SetSessionStopped, Session, Sessions, Turns, NoTurn, Typed, TypeOK
  <2>2. UNCHANGED <<sent, events, eventId, handled, pending, draining, drain, provider, ingest,
                    history, budget>>
    BY <1>6 DEF ResumeWorker, SetSessionStopped
  <2>3. QED BY <2>1, <2>2 DEF Typed, TypeOK, Known, Resting, Turns, provider, history
<1>7. CASE ProcessTurnInterruptRequested
  <2>1. events' \in Seq(DomainEvents) /\ Elems(events') \subseteq Elems(events)
    BY <1>7, TakesEvent DEF ProcessTurnInterruptRequested
  <2>2. QED BY <1>7, <2>1 DEF ProcessTurnInterruptRequested, Typed, TypeOK, Known, provider, history
<1>8. CASE ProcessSessionStopRequested
  <2>1. events' \in Seq(DomainEvents) /\ Elems(events') \subseteq Elems(events)
    BY <1>8, TakesEvent DEF ProcessSessionStopRequested
  <2>2. pending' = <<>> /\ draining' = FALSE /\ dropped' \subseteq Messages
    BY <1>8 DEF ProcessSessionStopRequested, Typed, TypeOK
  <2>3. /\ runtime' \in Seq(RuntimeEvents) /\ ended' \in Seq(RuntimeEvents)
        /\ active' \in Turns /\ connected' \in BOOLEAN
    <3> DEFINE x == [type |-> "session.exited", turn |-> NoTurn]
    <3>1. x \in RuntimeEvents
      BY DEF RuntimeEvents, NoTurn, Turns
    <3>2. Closing \o <<x>> \in Seq(RuntimeEvents)
      BY <3>1, AddsOne, ClosingType DEF Typed
    <3>3. runtime \o (Closing \o <<x>>) \in Seq(RuntimeEvents)
      BY <3>2, OnConcat DEF Typed, TypeOK
    <3>4. ended \o Closing \in Seq(RuntimeEvents)
      BY ClosingType DEF Typed
    <3>5. QED BY <1>8, <3>3, <3>4
                 DEF ProcessSessionStopRequested, Emit, provider, Typed, TypeOK, NoTurn, Turns
  <2>4. /\ UNCHANGED <<sent, session, eventId, handled, drain, ingest, arrived, delivered, failed,
                        lost, budget>>
        /\ unmarked' \in BOOLEAN /\ overtaken' \in BOOLEAN
    BY <1>8 DEF ProcessSessionStopRequested, Typed, TypeOK
  <2>5. PICK pc \in {"stopping", "setting", "waiting"} :
          reactor' = [pc |-> pc, msg |-> NoMessage, promoted |-> FALSE]
    BY <1>8, StopsAt
  <2>6. Known'
    <3>1. Elems(pending') = {}
      BY <2>2 DEF Elems
    <3>2. QED BY <2>1, <2>4, <2>5, <3>1 DEF Typed, Known
  <2>7. TypeOK'
    <3>1. reactor' \in [pc : ReactorPlaces, msg : Turns,
                        promoted : BOOLEAN]
      BY <2>5 DEF Turns, ReactorPlaces
    <3>2. pending' \in Seq(Messages)
      BY <2>2
    <3>3. QED BY <2>1, <2>2, <2>3, <2>4, <3>1, <3>2 DEF Typed, TypeOK, ReactorPlaces
  <2>8. QED BY <2>6, <2>7 DEF Typed
<1>9. QED BY <1>1, <1>2, <1>3, <1>4, <1>5, <1>6, <1>7, <1>8 DEF Worker

\* The drains, the provider and the ingestion.
LEMMA OtherTypes ==
  ASSUME Typed, HearTurnEnded \/ (\E f \in Fibers : Drain(f) \/ DispatchQueuedFails(f)) \/ EndTurn
                \/ Ingestion
  PROVE  Typed'
<1> DEFINE Drains == [Fibers -> [pc : {"off", "begin", "dequeue", "dispatch"}, msg : Turns]]
           Holds(d) == \A f \in Fibers : IF d[f].pc = "dispatch" THEN d[f].msg \in sent
                                                                   ELSE d[f].msg = NoMessage
<1>1. /\ drain \in Drains /\ Holds(drain) /\ NoMessage \in Turns /\ sent \subseteq Messages
      /\ pending \in Seq(Messages) /\ Elems(pending) \subseteq sent
      /\ budget \in Budgets /\ events \in Seq(DomainEvents)
      /\ eventId \in Nat /\ eventId + 1 \in Nat
      /\ lost \subseteq Messages
  BY DEF Typed, TypeOK, Known, Budgets, Turns
<1>2. CASE HearTurnEnded
  <2>1. drain' \in Drains /\ Holds(drain')
    BY <1>1, <1>2 DEF HearTurnEnded
  <2>2. ended' \in Seq(RuntimeEvents)
    <3>1. ended \in Seq(RuntimeEvents) /\ ended # <<>> /\ ended' = Tail(ended)
      BY <1>2 DEF HearTurnEnded, Typed, TypeOK
    <3>2. QED BY <3>1, OnTail
  <2>3. UNCHANGED <<sent, session, events, eventId, handled, pending, draining, reactor,
                    connected, active, runtime, ingest, history, budget>>
    BY <1>2 DEF HearTurnEnded
  <2>4. QED BY <2>1, <2>2, <2>3 DEF Typed, TypeOK, Known, history
<1>3. ASSUME NEW f \in Fibers, BeginDrain(f)
      PROVE  Typed'
  <2>1. drain' \in Drains /\ Holds(drain') /\ draining' \in BOOLEAN
    BY <1>1, <1>3 DEF BeginDrain
  <2>2. UNCHANGED <<sent, session, events, eventId, handled, pending, reactor, provider, ingest,
                    history, budget>>
    BY <1>3 DEF BeginDrain
  <2>3. QED BY <2>1, <2>2 DEF Typed, TypeOK, Known, history, provider
<1>4. ASSUME NEW f \in Fibers, Dequeue(f)
      PROVE  Typed'
  <2>1. /\ drain' \in Drains /\ Holds(drain') /\ draining' \in BOOLEAN
        /\ pending' \in Seq(Messages) /\ Elems(pending') \subseteq sent
    <3>1. CASE pending = <<>>
      <4>1. drain' = [drain EXCEPT ![f] = [pc |-> "off", msg |-> NoMessage]] /\ pending' = pending
            /\ draining' \in BOOLEAN
        BY <1>4, <3>1 DEF Dequeue, NotDraining
      <4>2. QED BY <1>1, <4>1
    <3>2. CASE pending # <<>>
      <4>1. /\ Head(pending) \in Messages /\ Tail(pending) \in Seq(Messages)
            /\ Elems(pending) = Elems(Tail(pending)) \cup {Head(pending)}
        BY <1>1, <3>2, OnTail
      <4>2. /\ drain' = [drain EXCEPT ![f] = [pc |-> "dispatch", msg |-> Head(pending)]]
            /\ pending' = Tail(pending) /\ draining' = draining
        BY <1>4, <3>2 DEF Dequeue
      <4>3. draining \in BOOLEAN /\ Head(pending) \in sent /\ Head(pending) \in Turns
        BY <1>1, <4>1 DEF Typed, TypeOK, Turns
      <4>4. QED BY <1>1, <4>1, <4>2, <4>3
    <3>3. QED BY <3>1, <3>2
  <2>2. UNCHANGED <<sent, session, events, eventId, handled, reactor, provider, ingest, history,
                    budget>>
    BY <1>4 DEF Dequeue
  <2>3. QED BY <2>1, <2>2 DEF Typed, TypeOK, Known, history, provider
<1>5. ASSUME NEW f \in Fibers, DispatchQueued(f)
      PROVE  Typed'
  <2> DEFINE e == Event("start", drain[f].msg, TRUE, eventId + 1)
  <2>1. /\ drain[f].msg \in sent /\ events' = events \o <<e>> /\ eventId' = eventId + 1
        /\ drain' = [drain EXCEPT ![f] = [pc |-> "off", msg |-> NoMessage]] /\ draining' = FALSE
    BY <1>1, <1>5 DEF DispatchQueued, Dispatched, NotDraining
  <2>2. e \in DomainEvents /\ e.msg \in sent
    BY <1>1, <2>1 DEF Event, DomainEvents, Turns
  <2> HIDE DEF e
  <2>3. events' \in Seq(DomainEvents) /\ Elems(events') = Elems(events) \cup {e}
    BY <1>1, <2>1, <2>2, AddsOne
  <2>4. drain' \in Drains /\ Holds(drain')
    BY <1>1, <2>1
  <2>5. UNCHANGED <<sent, session, handled, pending, reactor, provider, ingest, history, budget>>
    BY <1>5 DEF DispatchQueued
  <2>6. Known'
    BY <2>2, <2>3, <2>4, <2>5 DEF Typed, Known, history
  <2>7. eventId' \in Nat
    BY <1>1, <2>1
  <2>8. QED BY <2>1, <2>3, <2>4, <2>5, <2>6, <2>7 DEF Typed, TypeOK, history, provider
<1>6. ASSUME NEW f \in Fibers, DispatchQueuedFails(f)
      PROVE  Typed'
  <2>1. /\ drain[f].msg \in sent /\ lost' = lost \cup {drain[f].msg}
        /\ drain' = [drain EXCEPT ![f] = [pc |-> "off", msg |-> NoMessage]]
    BY <1>1, <1>6 DEF DispatchQueuedFails, NotDraining
  <2>2. drain' \in Drains /\ Holds(drain') /\ lost' \subseteq Messages
    BY <1>1, <2>1
  <2>3. budget' \in Budgets
    <3>1. budget.dispatchFaults - 1 \in Nat
      BY <1>1, <1>6 DEF DispatchQueuedFails, Budgets
    <3>2. QED BY <1>1, <1>6, <3>1 DEF DispatchQueuedFails, Budgets
  <2>4. UNCHANGED <<sent, session, events, eventId, handled, pending, draining, reactor, provider,
                    ingest, arrived, delivered, failed, dropped, unmarked, overtaken>>
    BY <1>6 DEF DispatchQueuedFails
  <2>5. QED BY <2>2, <2>3, <2>4 DEF Typed, TypeOK, Known, provider, Budgets
<1>7. CASE EndTurn
  <2>1. runtime' \in Seq(RuntimeEvents) /\ ended' \in Seq(RuntimeEvents) /\ active' \in Turns
    BY <1>1, <1>7, ClosingType DEF EndTurn, Emit, Typed, NoTurn
  <2>2. QED BY <1>7, <2>1 DEF EndTurn, Typed, TypeOK, Known, history
<1>8. CASE IngestRuntimeEvent
  <2> DEFINE e == Head(runtime)
  <2>1. e \in RuntimeEvents /\ runtime' \in Seq(RuntimeEvents)
    <3>1. runtime \in Seq(RuntimeEvents) /\ runtime # <<>> /\ runtime' = Tail(runtime)
      BY <1>8 DEF IngestRuntimeEvent, Typed, TypeOK
    <3>2. QED BY <3>1, OnTail
  <2>2. /\ ingest' = IF ~Believes(e) THEN NoSession
                   ELSE CASE e.type = "turn.started"   -> Session("running", e.turn)
                          [] e.type = "turn.completed" -> Session("ready", NoTurn)
                          [] e.type = "session.exited" -> Session("stopped", NoTurn)
                          [] e.type = "session.started" ->
                               Session(IF session.turn = NoTurn THEN "ready" ELSE "running",
                                       session.turn)
    BY <1>8 DEF IngestRuntimeEvent
  <2> HIDE DEF e
  <2>3. ingest' \in Sessions
    BY <1>1, <2>1, <2>2 DEF RuntimeEvents, Session, Sessions, NoSession, NoTurn, Typed, TypeOK
  <2>4. QED BY <1>8, <2>1, <2>3 DEF IngestRuntimeEvent, Typed, TypeOK, Known, history
<1>9. CASE DispatchSessionSet
  <2>1. session' \in Sessions /\ ingest' \in Sessions
    BY <1>1, <1>9 DEF DispatchSessionSet, Typed, TypeOK, NoSession, NoTurn, Sessions
  <2>2. reactor \in [pc : ReactorPlaces, msg : Turns, promoted : BOOLEAN]
    BY DEF Typed, TypeOK, ReactorPlaces
  <2>3. /\ reactor'.msg = reactor.msg
        /\ reactor'.pc = "sending" <=> reactor.pc = "sending"
        /\ reactor' \in [pc : ReactorPlaces, msg : Turns, promoted : BOOLEAN]
    BY <1>9, <2>2, IngestionSpares DEF Ingestion
  <2>4. /\ UNCHANGED <<sent, events, eventId, handled, pending, draining, drain, provider, history,
                       budget>>
    BY <1>9 DEF DispatchSessionSet
  <2>5. Known'
    <3>1. UNCHANGED <<sent, events, pending, drain, delivered>> /\ reactor'.msg = reactor.msg
          /\ (reactor'.pc = "sending" <=> reactor.pc = "sending")
      BY <2>3, <2>4 DEF history
    <3>2. QED BY <3>1 DEF Typed, Known
  <2>6. QED BY <2>1, <2>3, <2>4, <2>5 DEF Typed, TypeOK, history, provider, ReactorPlaces
<1>10. QED BY <1>2, <1>3, <1>4, <1>5, <1>6, <1>7, <1>8, <1>9 DEF Drain, Ingestion

\* The initial state is typed.
LEMMA InitTypes ==
  ASSUME Init
  PROVE  Typed
<1>1. NoMessage \in Turns /\ NoSession \in Sessions
  BY DEF Turns, NoSession, NoTurn, Sessions
<1>2. /\ drain \in [Fibers -> [pc : {"off", "begin", "dequeue", "dispatch"}, msg : Turns]]
      /\ reactor \in [pc : ReactorPlaces, msg : Turns,
                      promoted : BOOLEAN]
  BY <1>1 DEF Init, NotDraining, Resting, ReactorPlaces
<1>3. budget \in Budgets
  BY TurnQueueAssumption DEF Init, Budgets, TurnQueueAssumption
<1>4. /\ events \in Seq(DomainEvents) /\ pending \in Seq(Messages) /\ runtime \in Seq(RuntimeEvents)
      /\ ended \in Seq(RuntimeEvents) /\ arrived \in Seq(Messages)
      /\ delivered \in Seq([msg : Messages, promoted : BOOLEAN])
  BY DEF Init
<1>5. TypeOK
  BY <1>1, <1>2, <1>3, <1>4 DEF Init, TypeOK, NoTurn, Budgets, ReactorPlaces
<1>6. Known
  BY DEF Init, Known, Elems, NotDraining, Resting
<1>7. QED BY <1>5, <1>6 DEF Typed

\* A step keeps the types.
LEMMA StepTypes ==
  ASSUME Typed, [Next]_vars
  PROVE  Typed'
<1>1. CASE UNCHANGED vars
  BY <1>1 DEF vars, provider, history, Typed, TypeOK, Known
<1>2. CASE Next
  BY <1>2, UserTypes, WorkerTypes, OtherTypes DEF Next
<1>3. QED BY <1>1, <1>2

\* The state of the queue, the reactor, the drains, the provider and the
\* ingestion keeps its types in every instance: drainQueuedTurnsForThread
\* takes from no empty queue, and a start names a message.
THEOREM TypeCorrect == Spec => []TypeOK
<1>1. Init => Typed
  BY InitTypes
<1>2. Typed /\ [Next]_vars => Typed'
  BY StepTypes
<1>3. Typed => TypeOK
  BY DEF Typed
<1>4. QED BY <1>1, <1>2, <1>3, PTL DEF Spec

-----------------------------------------------------------------------------
(* A message is started at most once                                       *)

\* The message is in an event that queues it.
Waits(m) == \E e \in Elems(events) : e.type = "queued" /\ e.msg = m

\* The events that request its start.
Starts(m) == {e \in Elems(events) : e.type = "start" /\ e.msg = m}

\* A drain has it in hand.
Held(m) == \E f \in Fibers : drain[f].msg = m

\* The worker has it in hand, or the provider has accepted it.
Begun(m) == reactor.msg = m \/ \E d \in Elems(delivered) : d.msg = m

\* A message goes through the event that queues it, the queue, a drain, the
\* events that request its start and the worker, one after the other; the
\* start events it leaves behind are known to be handled.
Once(m) ==
  /\ Waits(m) => m \notin Elems(pending)
  /\ Waits(m) \/ m \in Elems(pending) => ~Held(m)
  /\ Waits(m) \/ m \in Elems(pending) \/ Held(m) => Starts(m) = {} /\ ~Begun(m)
  /\ reactor.msg = m => \A d \in Elems(delivered) : d.msg # m
  /\ \A d, e \in Starts(m) : d.id = e.id
  /\ Begun(m) => \A e \in Starts(m) : e.id \in handled
  /\ \A f, g \in Fibers : drain[f].msg = m /\ drain[g].msg = m => f = g

\* Each message is in at most one of the events of these types.
Alone(s, T) == \A i, j \in DOMAIN s :
                 s[i].type \in T /\ s[j].type \in T /\ s[i].msg = s[j].msg => i = j

\* The events that may lead to a message being queued.
Queueing == {"queued"}

\* The inductive invariant.
OneStart ==
  /\ Alone(events, Queueing) /\ Distinct(pending) /\ StartedOnce
  /\ \A m \in Messages : Once(m)

\* The step puts the message nowhere it was not.
NoNewPlace(m) ==
  /\ Waits(m)' => Waits(m)
  /\ m \in Elems(pending)' => m \in Elems(pending)
  /\ \A f \in Fibers : drain'[f].msg = m => drain[f].msg = m
  /\ Starts(m)' \subseteq Starts(m)
  /\ reactor'.msg = m => reactor.msg = m
  /\ \A d \in Elems(delivered)' : d.msg = m => d \in Elems(delivered)
  /\ handled \subseteq handled'

-----------------------------------------------------------------------------
(* Lemmas                                                                  *)

\* A message that goes nowhere stays where it was at most once.
LEMMA KeepsOnce ==
  ASSUME NEW m \in Messages, Once(m), NoNewPlace(m)
  PROVE  Once(m)'
<1>1. /\ Held(m)' => Held(m)
      /\ Begun(m)' => Begun(m)
  BY DEF NoNewPlace, Held, Begun
<1>2. /\ (Waits(m) => m \notin Elems(pending))'
      /\ (Waits(m) \/ m \in Elems(pending) => ~Held(m))'
      /\ (Waits(m) \/ m \in Elems(pending) \/ Held(m) => Starts(m) = {} /\ ~Begun(m))'
  BY <1>1 DEF NoNewPlace, Once
<1>3. (reactor.msg = m => \A d \in Elems(delivered) : d.msg # m)'
  BY DEF NoNewPlace, Once
<1>4. /\ (\A d, e \in Starts(m) : d.id = e.id)'
      /\ (Begun(m) => \A e \in Starts(m) : e.id \in handled)'
  BY <1>1 DEF NoNewPlace, Once
<1>5. (\A f, g \in Fibers : drain[f].msg = m /\ drain[g].msg = m => f = g)'
  BY DEF NoNewPlace, Once
<1>6. QED BY <1>2, <1>3, <1>4, <1>5 DEF Once

\* Fewer events: fewer wait and fewer starts are requested.
LEMMA FewerEvents ==
  ASSUME NEW m, \A e \in Elems(events)' : e \in Elems(events) \/ e.msg # m \/ e.type \notin Moves
  PROVE  (Waits(m)' => Waits(m)) /\ Starts(m)' \subseteq Starts(m)
BY DEF Waits, Starts, Moves

\* The rest of a sequence of events has each message in one queue event, and
\* not the message that the first one queues.
LEMMA AloneTail ==
  ASSUME NEW T, NEW s \in Seq(DomainEvents), s # <<>>, Alone(s, T)
  PROVE  /\ Alone(Tail(s), T)
         /\ Head(s).type \in T =>
              \A e \in Elems(Tail(s)) : e.type \in T => e.msg # Head(s).msg
<1> DEFINE t == Tail(s)
<1>1. /\ Head(s) = s[1] /\ Len(t) = Len(s) - 1 /\ Len(s) \in Nat
      /\ Len(s) # 0 /\ \A i \in 1..Len(t) : t[i] = s[i + 1]
      /\ DOMAIN t = 1..(Len(s) - 1) /\ DOMAIN s = 1..Len(s)
  BY HeadTailProperties, LenProperties, EmptySeq
<1> HIDE DEF t
<1>2. \A i \in DOMAIN t : t[i] = s[i + 1] /\ i + 1 \in DOMAIN s /\ i + 1 # 1
  BY <1>1
<1>3. Alone(t, T)
  <2>1. ASSUME NEW i \in DOMAIN t, NEW j \in DOMAIN t,
               t[i].type \in T, t[j].type \in T, t[i].msg = t[j].msg
        PROVE  i = j
    <3>1. i + 1 = j + 1
      BY <1>2, <2>1 DEF Alone
    <3>2. QED BY <1>1, <3>1
  <2>2. QED BY <2>1 DEF Alone
<1>4. ASSUME Head(s).type \in T, NEW e \in Elems(t), e.type \in T
      PROVE  e.msg # Head(s).msg
  <2>1. PICK i \in DOMAIN t : e = t[i]
    BY DEF Elems
  <2>2. 1 \in DOMAIN s
    BY <1>1
  <2>3. QED BY <1>1, <1>2, <1>4, <2>1, <2>2 DEF Alone
<1>5. QED BY <1>3, <1>4 DEF t

\* Events that queue no message of the others join them.
LEMMA AloneConcat ==
  ASSUME NEW T, NEW s \in Seq(DomainEvents), NEW t \in Seq(DomainEvents),
         Alone(s, T), Alone(t, T),
         \A d \in Elems(s), e \in Elems(t) :
           d.type \in T /\ e.type \in T => d.msg # e.msg
  PROVE  Alone(s \o t, T)
<1> DEFINE u == s \o t
<1>1. /\ Len(u) = Len(s) + Len(t) /\ Len(s) \in Nat /\ Len(t) \in Nat
      /\ \A i \in 1..(Len(s) + Len(t)) : u[i] = IF i <= Len(s) THEN s[i] ELSE t[i - Len(s)]
      /\ DOMAIN u = 1..(Len(s) + Len(t)) /\ DOMAIN s = 1..Len(s) /\ DOMAIN t = 1..Len(t)
  BY ConcatProperties, LenProperties
<1> HIDE DEF u
<1>2. ASSUME NEW i \in DOMAIN u
      PROVE  \/ i \in DOMAIN s /\ u[i] = s[i] /\ u[i] \in Elems(s)
             \/ i - Len(s) \in DOMAIN t /\ u[i] = t[i - Len(s)] /\ u[i] \in Elems(t)
  <2>1. CASE i <= Len(s)
    BY <1>1, <2>1 DEF Elems
  <2>2. CASE ~(i <= Len(s))
    <3>1. i - Len(s) \in DOMAIN t /\ u[i] = t[i - Len(s)]
      BY <1>1, <2>2
    <3>2. QED BY <3>1 DEF Elems
  <2>3. QED BY <2>1, <2>2
<1>3. ASSUME NEW i \in DOMAIN u, NEW j \in DOMAIN u,
             u[i].type \in T, u[j].type \in T, u[i].msg = u[j].msg
      PROVE  i = j
  <2>1. i \in Nat /\ j \in Nat
    BY <1>1
  <2>2. CASE u[i] \in Elems(s) /\ i \in DOMAIN s /\ u[i] = s[i]
    <3>1. j \in DOMAIN s /\ u[j] = s[j]
      BY <1>2, <1>3, <2>2
    <3>2. QED BY <1>3, <2>2, <3>1 DEF Alone
  <2>3. CASE u[i] \in Elems(t) /\ i - Len(s) \in DOMAIN t /\ u[i] = t[i - Len(s)]
    <3>1. j - Len(s) \in DOMAIN t /\ u[j] = t[j - Len(s)]
      BY <1>2, <1>3, <2>3
    <3>2. i - Len(s) = j - Len(s)
      BY <1>3, <2>3, <3>1 DEF Alone
    <3>3. QED BY <1>1, <2>1, <3>2
  <2>4. QED BY <1>2, <2>2, <2>3
<1>4. QED BY <1>3 DEF Alone, u

\* A sequence of one event.
LEMMA OneEvent ==
  ASSUME NEW T, NEW d \in DomainEvents
  PROVE  <<d>> \in Seq(DomainEvents) /\ Elems(<<d>>) = {d} /\ Alone(<<d>>, T)
<1>1. DOMAIN <<d>> = {1} /\ <<d>>[1] = d
  OBVIOUS
<1>2. QED BY <1>1 DEF Alone, Elems

\* A queue event and another event.
LEMMA TwoEvents ==
  ASSUME NEW T, NEW d \in DomainEvents, NEW e \in DomainEvents, e.type \notin T
  PROVE  <<d, e>> \in Seq(DomainEvents) /\ Elems(<<d, e>>) = {d, e} /\ Alone(<<d, e>>, T)
<1>1. DOMAIN <<d, e>> = {1, 2} /\ <<d, e>>[1] = d /\ <<d, e>>[2] = e
  OBVIOUS
<1>2. <<d, e>> \in Seq(DomainEvents) /\ Elems(<<d, e>>) = {d, e}
  BY <1>1 DEF Elems
<1>3. QED BY <1>1, <1>2 DEF Alone

\* A message not sent yet is nowhere.
LEMMA UnsentNowhere ==
  ASSUME Typed, NEW m \in Messages, m \notin sent
  PROVE  ~Waits(m) /\ m \notin Elems(pending) /\ ~Held(m) /\ Starts(m) = {} /\ ~Begun(m)
<1>1. m # NoMessage
  BY TurnQueueAssumption DEF TurnQueueAssumption
<1>2. ~Waits(m) /\ Starts(m) = {}
  BY DEF Waits, Starts, Typed, Known, Moves
<1>3. m \notin Elems(pending) /\ ~Held(m)
  BY <1>1 DEF Held, Typed, Known
<1>4. ~Begun(m)
  BY <1>1 DEF Begun, Typed, Known
<1>5. QED BY <1>2, <1>3, <1>4

-----------------------------------------------------------------------------
(* The steps                                                               *)

\* The commands of the user and the redelivery of an event.
LEMMA UserOnce ==
  ASSUME Typed, OneStart, "queued" \notin Redelivered,
         (\E m \in Messages : SendMessage(m)) \/ StopSession \/ Redeliver
  PROVE  OneStart'
<1>1. events \in Seq(DomainEvents) /\ eventId + 1 \in Nat /\ Alone(events, Queueing)
  BY DEF Typed, TypeOK, OneStart
<1>2. ASSUME NEW m \in Messages, SendMessage(m)
      PROVE  OneStart'
  <2> DEFINE a == Event("start", m, FALSE, eventId + 1)
             b == Event("queued", m, FALSE, eventId + 1)
             c == Event("interrupt", m, FALSE, eventId + 1)
  <2>1. /\ a \in DomainEvents /\ b \in DomainEvents /\ c \in DomainEvents
        /\ a.msg = m /\ b.msg = m /\ c.msg = m
        /\ a.type = "start" /\ b.type = "queued" /\ c.type = "interrupt"
    BY <1>1 DEF Event, DomainEvents, Turns
  <2>2. events' \in {events \o <<a>>, events \o <<b>>, events \o <<b, c>>}
    BY <1>2 DEF SendMessage, Dispatched
  <2> HIDE DEF a, b, c
  <2>3. UNCHANGED <<handled, pending, drain, reactor, delivered>> /\ m \notin sent
    BY <1>2 DEF SendMessage, history
  <2>4. ~Waits(m) /\ m \notin Elems(pending) /\ ~Held(m) /\ Starts(m) = {} /\ ~Begun(m)
    BY <2>3, UnsentNowhere
  <2>5. \/ Elems(events') = Elems(events) \cup {a} /\ Alone(events', Queueing)
        \/ Elems(events') = Elems(events) \cup {b} /\ Alone(events', Queueing)
        \/ Elems(events') = Elems(events) \cup {b, c} /\ Alone(events', Queueing)
    <3>1. \A e \in Elems(events) : e.type = "queued" => e.msg # m
      BY <2>4 DEF Waits
    <3>2. <<a>> \in Seq(DomainEvents) /\ Elems(<<a>>) = {a} /\ Alone(<<a>>, Queueing)
      BY <2>1, OneEvent
    <3>3. <<b>> \in Seq(DomainEvents) /\ Elems(<<b>>) = {b} /\ Alone(<<b>>, Queueing)
      BY <2>1, OneEvent
    <3>4. <<b, c>> \in Seq(DomainEvents) /\ Elems(<<b, c>>) = {b, c} /\ Alone(<<b, c>>, Queueing)
      BY <2>1, TwoEvents DEF Queueing
    <3>5. \A t \in {<<a>>, <<b>>, <<b, c>>} :
            Elems(events \o t) = Elems(events) \cup Elems(t) /\ Alone(events \o t, Queueing)
      <4> SUFFICES ASSUME NEW t \in {<<a>>, <<b>>, <<b, c>>}
                   PROVE  /\ Elems(events \o t) = Elems(events) \cup Elems(t)
                          /\ Alone(events \o t, Queueing)
        OBVIOUS
      <4>1. t \in Seq(DomainEvents) /\ Alone(t, Queueing) /\ \A e \in Elems(t) : e.msg = m
        BY <2>1, <3>2, <3>3, <3>4
      <4>2. QED BY <1>1, <3>1, <4>1, OnConcat, AloneConcat DEF Queueing
    <3>6. QED BY <2>2, <3>2, <3>3, <3>4, <3>5
  <2>6. ASSUME NEW n \in Messages, n # m
        PROVE  Once(n)'
    <3>1. \A e \in Elems(events)' : e \in Elems(events) \/ e.msg # n
      BY <2>1, <2>5, <2>6
    <3>2. NoNewPlace(n)
      BY <2>3, <3>1, FewerEvents DEF NoNewPlace
    <3>3. QED BY <3>2, KeepsOnce DEF OneStart
  <2>7. Once(m)'
    <3>1. m \notin Elems(pending)' /\ ~Held(m)' /\ ~Begun(m)'
      BY <2>3, <2>4 DEF Held, Begun
    <3>2. CASE Elems(events') = Elems(events) \cup {a}
      <4>1. ~Waits(m)' /\ Starts(m)' = {a}
        BY <2>1, <2>4, <3>2 DEF Waits, Starts
      <4>2. QED BY <3>1, <4>1 DEF Once, Begun, Held
    <3>3. CASE Elems(events') = Elems(events) \cup {b} \/ Elems(events') = Elems(events) \cup {b, c}
      <4>1. Starts(m)' = {}
        BY <2>1, <2>4, <3>3 DEF Starts
      <4>2. QED BY <3>1, <4>1 DEF Once, Begun, Held
    <3>4. QED BY <2>5, <3>2, <3>3
  <2>8. QED BY <2>3, <2>5, <2>6, <2>7 DEF OneStart, Distinct, StartedOnce
<1>3. CASE StopSession
  <2> DEFINE e == Event("stop", NoMessage, FALSE, eventId + 1)
  <2>1. /\ e \in DomainEvents /\ e.type = "stop" /\ events' = events \o <<e>>
        /\ UNCHANGED <<handled, pending, drain, reactor, delivered>>
    BY <1>1, <1>3 DEF StopSession, Dispatched, Event, DomainEvents, Turns, history
  <2> HIDE DEF e
  <2>2. Elems(events') = Elems(events) \cup {e}
    BY <1>1, <2>1, AddsOne
  <2>3. Alone(events', Queueing)
    <3>1. <<e>> \in Seq(DomainEvents) /\ Elems(<<e>>) = {e} /\ Alone(<<e>>, Queueing)
      BY <2>1, OneEvent
    <3>2. QED BY <1>1, <2>1, <3>1, AloneConcat DEF Queueing
  <2>4. ASSUME NEW n \in Messages
        PROVE  Once(n)'
    <3>1. NoNewPlace(n)
      BY <2>1, <2>2, FewerEvents DEF NoNewPlace, Moves
    <3>2. QED BY <3>1, KeepsOnce DEF OneStart
  <2>5. QED BY <2>1, <2>3, <2>4 DEF OneStart, Distinct, StartedOnce
<1>4. CASE Redeliver
  <2> DEFINE e == events[Len(events)]
  <2>1. /\ e \in DomainEvents /\ events' = Append(events, e) /\ e \in Elems(events)
        /\ e.type # "queued" /\ UNCHANGED <<handled, pending, drain, reactor, delivered>>
    BY <1>1, <1>4, LenProperties, EmptySeq DEF Redeliver, Elems, history
  <2> HIDE DEF e
  <2>2. Elems(events') = Elems(events)
    <3>1. Elems(Append(events, e)) = Elems(events) \cup {e}
      BY <1>1, <2>1, OnAppend
    <3>2. QED BY <2>1, <3>1
  <2>3. Alone(events', Queueing)
    <3>1. <<e>> \in Seq(DomainEvents) /\ Elems(<<e>>) = {e} /\ Alone(<<e>>, Queueing)
      BY <2>1, OneEvent
    <3>2. events' = events \o <<e>>
      BY <1>1, <2>1, AppendIsConcat
    <3>3. QED BY <1>1, <2>1, <3>1, <3>2, AloneConcat DEF Queueing
  <2>4. ASSUME NEW n \in Messages
        PROVE  Once(n)'
    <3>1. NoNewPlace(n)
      BY <2>1, <2>2, FewerEvents DEF NoNewPlace
    <3>2. QED BY <3>1, KeepsOnce DEF OneStart
  <2>5. QED BY <2>1, <2>3, <2>4 DEF OneStart, Distinct, StartedOnce
<1>5. QED BY <1>2, <1>3, <1>4

\* The events that are left when the worker has taken one.
LEMMA TakesAlone ==
  ASSUME Typed, OneStart, NEW type, NextEvent(type)
  PROVE  /\ Alone(events', Queueing) /\ Elems(events)' \subseteq Elems(events)
         /\ type = "queued" =>
              \A e \in Elems(events)' : e.type = "queued" => e.msg # Head(events).msg
         /\ reactor.msg = NoMessage
<1>1. events \in Seq(DomainEvents) /\ events # <<>> /\ events' = Tail(events)
      /\ Head(events).type = type /\ Alone(events, Queueing) /\ reactor.msg = NoMessage
  BY DEF Typed, TypeOK, Known, NextEvent, OneStart
<1>2. QED BY <1>1, AloneTail, TakesEvent DEF Queueing

\* A queue event is handled: its message joins the queue.
LEMMA QueuedOnce ==
  ASSUME Typed, OneStart, ProcessTurnQueued
  PROVE  OneStart'
<1>1. PICK h : h = Head(events)
  OBVIOUS
<1>2. /\ h \in Elems(events) /\ h.type = "queued" /\ h.msg \in Messages
      /\ Alone(events', Queueing) /\ Elems(events)' \subseteq Elems(events)
      /\ \A e \in Elems(events)' : e.type = "queued" => e.msg # h.msg
  BY <1>1, TakesEvent, TakesAlone DEF ProcessTurnQueued, Moves
<1>3. /\ pending' = Enqueue(h.msg)
      /\ UNCHANGED <<handled, drain, reactor, delivered>>
  BY <1>1 DEF ProcessTurnQueued
<1>4. Waits(h.msg) /\ Once(h.msg)
  BY <1>2 DEF Waits, OneStart
<1>5. Elems(pending)' = Elems(pending) \cup {h.msg} /\ Distinct(pending')
  BY <1>2, <1>3, <1>4, Enqueues DEF Once, OneStart
<1>6. ASSUME NEW n \in Messages, n # h.msg
      PROVE  Once(n)'
  <2>1. NoNewPlace(n)
    BY <1>2, <1>3, <1>5, <1>6, FewerEvents DEF NoNewPlace
  <2>2. QED BY <2>1, KeepsOnce DEF OneStart
<1>7. Once(h.msg)'
  <2>1. ~Waits(h.msg)' /\ Starts(h.msg)' = {}
    BY <1>2, <1>4 DEF Waits, Starts, Once
  <2>2. ~Held(h.msg)' /\ ~Begun(h.msg)'
    BY <1>3, <1>4 DEF Held, Begun, Once
  <2>3. QED BY <2>1, <2>2 DEF Once, Held, Begun
<1>8. QED BY <1>2, <1>3, <1>5, <1>6, <1>7 DEF OneStart, StartedOnce

\* A start event is handled, the first time it is seen.
LEMMA StartOnce ==
  ASSUME Typed, OneStart, ProcessTurnStartRequested
  PROVE  OneStart'
<1>1. PICK h : h = Head(events)
  OBVIOUS
<1>2. /\ h \in Elems(events) /\ h.type = "start" /\ h.msg \in Messages
      /\ Alone(events', Queueing) /\ Elems(events)' \subseteq Elems(events)
  BY <1>1, TakesEvent, TakesAlone DEF ProcessTurnStartRequested, Moves
<1>3. /\ handled' = handled \cup {h.id}
      /\ \/ reactor' = reactor
         \/ h.id \notin handled /\ reactor'.msg = h.msg
      /\ UNCHANGED <<pending, drain, delivered>>
  BY <1>1 DEF ProcessTurnStartRequested, FirstHandled, history
<1>4. ASSUME NEW n \in Messages, n # h.msg \/ reactor' = reactor
      PROVE  Once(n)'
  <2>1. NoNewPlace(n)
    BY <1>2, <1>3, <1>4, FewerEvents DEF NoNewPlace
  <2>2. QED BY <2>1, KeepsOnce DEF OneStart
<1>5. ASSUME h.id \notin handled, reactor'.msg = h.msg
      PROVE  Once(h.msg)'
  <2>1. h \in Starts(h.msg) /\ Once(h.msg)
    BY <1>2 DEF Starts, OneStart
  <2>2. ~Waits(h.msg) /\ h.msg \notin Elems(pending) /\ ~Held(h.msg) /\ ~Begun(h.msg)
    BY <1>5, <2>1 DEF Once
  <2>3. ~Waits(h.msg)' /\ Starts(h.msg)' \subseteq Starts(h.msg)
    BY <1>2, <2>2, FewerEvents
  <2>4. h.msg \notin Elems(pending)' /\ ~Held(h.msg)'
    BY <1>3, <2>2 DEF Held
  <2>5. \A e \in Starts(h.msg)' : e.id = h.id
    BY <2>1, <2>3 DEF Once
  <2>6. \A d \in Elems(delivered)' : d.msg # h.msg
    BY <1>3, <2>2 DEF Begun
  <2>7. h.id \in handled'
    BY <1>3
  <2>8. QED BY <2>3, <2>4, <2>5, <2>6, <2>7 DEF Once, Held
<1>6. QED BY <1>2, <1>3, <1>4, <1>5 DEF OneStart, StartedOnce, Distinct

\* The provider takes the message in the worker's hands.
LEMMA SendOnce ==
  ASSUME Typed, OneStart, SendTurn
  PROVE  OneStart'
<1> DEFINE D == [msg : Messages, promoted : BOOLEAN]
<1>1. PICK m, d : m = reactor.msg /\ d = [msg |-> m, promoted |-> reactor.promoted]
  OBVIOUS
<1>2. m \in Messages /\ d \in D /\ d.msg = m /\ delivered \in Seq(D) /\ m # NoMessage
  BY <1>1, TurnQueueAssumption DEF SendTurn, Typed, TypeOK, Known, TurnQueueAssumption
<1>3. /\ delivered' = Append(delivered, d) /\ reactor'.msg = NoMessage
      /\ UNCHANGED <<events, handled, pending, drain>>
  BY <1>1 DEF SendTurn, Resting
<1>4. Once(m) /\ \A e \in Elems(delivered) : e.msg # m
  BY <1>1, <1>2 DEF OneStart, Once
<1> HIDE DEF D
<1>5. /\ Elems(delivered)' = Elems(delivered) \cup {d}
      /\ Len(delivered') = Len(delivered) + 1 /\ Len(delivered) \in Nat
      /\ \A i \in 1..Len(delivered) : delivered'[i] = delivered[i]
      /\ delivered'[Len(delivered) + 1] = d
      /\ DOMAIN delivered' = 1..(Len(delivered) + 1) /\ DOMAIN delivered = 1..Len(delivered)
  <2>1. Elems(Append(delivered, d)) = Elems(delivered) \cup {d}
    BY <1>2, OnAppend
  <2>2. QED BY <1>2, <1>3, <2>1, AppendProperties, LenProperties
<1>6. StartedOnce'
  <2>1. \A i \in DOMAIN delivered : delivered[i].msg # m
    BY <1>4 DEF Elems
  <2>2. ASSUME NEW i \in DOMAIN delivered', NEW j \in DOMAIN delivered',
               delivered'[i].msg = delivered'[j].msg
        PROVE  i = j
    <3>1. \A k \in DOMAIN delivered' :
            \/ k \in DOMAIN delivered /\ delivered'[k] = delivered[k]
            \/ k = Len(delivered) + 1 /\ delivered'[k].msg = m
      BY <1>2, <1>5
    <3>2. StartedOnce
      BY DEF OneStart
    <3>3. QED BY <2>1, <2>2, <3>1, <3>2 DEF StartedOnce
  <2>3. QED BY <2>2 DEF StartedOnce
<1>7. ASSUME NEW n \in Messages, n # m
      PROVE  Once(n)'
  <2>1. NoNewPlace(n)
    <3>1. n # NoMessage
      BY TurnQueueAssumption DEF TurnQueueAssumption
    <3>2. QED BY <1>2, <1>3, <1>5, <1>7, <3>1, FewerEvents DEF NoNewPlace
  <2>2. QED BY <2>1, KeepsOnce DEF OneStart
<1>8. Once(m)'
  <2>1. Begun(m)
    BY <1>1 DEF Begun
  <2>2. ~Waits(m) /\ m \notin Elems(pending) /\ ~Held(m)
        /\ \A e \in Starts(m) : e.id \in handled
    BY <1>4, <2>1 DEF Once
  <2>3. ~Waits(m)' /\ Starts(m)' = Starts(m)
    BY <1>3, <2>2 DEF Waits, Starts
  <2>4. m \notin Elems(pending)' /\ ~Held(m)'
    BY <1>3, <2>2 DEF Held
  <2>5. reactor'.msg # m
    BY <1>2, <1>3
  <2>6. QED BY <1>3, <1>4, <2>2, <2>3, <2>4, <2>5 DEF Once, Held
<1>9. QED BY <1>3, <1>6, <1>7, <1>8 DEF OneStart, Distinct

\* The other steps of the worker: no message goes anywhere new.
LEMMA WorkerOnce ==
  ASSUME Typed, OneStart, Worker \/ SendTurnFails
  PROVE  OneStart'
<1>1. CASE ProcessTurnInterruptRequested \/ ProcessSessionStopRequested
  <2>1. Alone(events', Queueing) /\ Elems(events)' \subseteq Elems(events)
    BY <1>1, TakesAlone DEF ProcessTurnInterruptRequested, ProcessSessionStopRequested
  <2>2. /\ UNCHANGED <<handled, drain, delivered>>
        /\ \/ UNCHANGED <<pending, reactor>>
           \/ pending' = <<>> /\ reactor'.msg = NoMessage
    BY <1>1 DEF ProcessTurnInterruptRequested, ProcessSessionStopRequested, Resting, history
  <2>3. Elems(pending)' \subseteq Elems(pending) /\ Distinct(pending')
    BY <2>2 DEF OneStart, Elems, Distinct
  <2>4. ASSUME NEW n \in Messages
        PROVE  Once(n)'
    <3>1. n # NoMessage
      BY TurnQueueAssumption DEF TurnQueueAssumption
    <3>2. NoNewPlace(n)
      BY <2>1, <2>2, <2>3, <3>1, FewerEvents DEF NoNewPlace
    <3>3. QED BY <3>2, KeepsOnce DEF OneStart
  <2>5. QED BY <2>1, <2>2, <2>3, <2>4 DEF OneStart, StartedOnce
<1>2. CASE CloseOpenTurn \/ ResumeWorker \/ SetSessionStopped \/ SendTurnFails
  <2>1. /\ UNCHANGED <<events, handled, pending, delivered>>
        /\ reactor' = reactor \/ reactor'.msg = NoMessage
        /\ \/ drain' = drain
           \/ drain' = [drain EXCEPT !["worker"] = [pc |-> "begin", msg |-> NoMessage]]
    BY <1>2 DEF CloseOpenTurn, ResumeWorker, SetSessionStopped, SendTurnFails, Resting, NotDraining,
                history
  <2>2. \A f \in Fibers : drain'[f].msg \in {drain[f].msg, NoMessage}
    BY <2>1 DEF Typed, TypeOK, Fibers
  <2>3. ASSUME NEW n \in Messages
        PROVE  Once(n)'
    <3>1. n # NoMessage
      BY TurnQueueAssumption DEF TurnQueueAssumption
    <3>2. NoNewPlace(n)
      BY <2>1, <2>2, <3>1, FewerEvents DEF NoNewPlace
    <3>3. QED BY <3>2, KeepsOnce DEF OneStart
  <2>4. QED BY <2>1, <2>3 DEF OneStart, StartedOnce, Distinct, Alone
<1>3. QED BY <1>1, <1>2, QueuedOnce, StartOnce, SendOnce DEF Worker

\* A drain takes a message from the queue.
LEMMA DequeueOnce ==
  ASSUME Typed, OneStart, NEW f \in Fibers, Dequeue(f)
  PROVE  OneStart'
<1>1. UNCHANGED <<events, handled, reactor, delivered>>
  BY DEF Dequeue, history
<1>2. CASE pending = <<>>
  <2>1. pending' = pending /\ \A g \in Fibers : drain'[g].msg \in {drain[g].msg, NoMessage}
    <3>1. pending' = pending /\ drain' = [drain EXCEPT ![f] = [pc |-> "off", msg |-> NoMessage]]
      BY <1>2 DEF Dequeue, NotDraining
    <3>2. QED BY <3>1 DEF Typed, TypeOK
  <2>2. ASSUME NEW n \in Messages
        PROVE  Once(n)'
    <3>1. n # NoMessage
      BY TurnQueueAssumption DEF TurnQueueAssumption
    <3>2. NoNewPlace(n)
      BY <1>1, <2>1, <3>1, FewerEvents DEF NoNewPlace
    <3>3. QED BY <3>2, KeepsOnce DEF OneStart
  <2>3. QED BY <1>1, <2>1, <2>2 DEF OneStart, StartedOnce, Distinct, Alone
<1>3. CASE pending # <<>>
  <2>1. PICK m : m = Head(pending)
    OBVIOUS
  <2>2. /\ m \in Messages /\ Elems(pending) = Elems(Tail(pending)) \cup {m}
        /\ Distinct(Tail(pending)) /\ m \notin Elems(Tail(pending))
    <3>1. pending \in Seq(Messages) /\ Distinct(pending)
      BY DEF Typed, TypeOK, OneStart
    <3>2. QED BY <1>3, <2>1, <3>1, OnTail
  <2>3. /\ drain' = [drain EXCEPT ![f] = [pc |-> "dispatch", msg |-> m]]
        /\ pending' = Tail(pending)
    BY <1>3, <2>1 DEF Dequeue
  <2>4. \A g \in Fibers : drain'[g].msg = IF g = f THEN m ELSE drain[g].msg
    BY <2>3 DEF Typed, TypeOK
  <2>5. ASSUME NEW n \in Messages, n # m
        PROVE  Once(n)'
    <3>1. NoNewPlace(n)
      BY <1>1, <2>2, <2>3, <2>4, <2>5, FewerEvents DEF NoNewPlace
    <3>2. QED BY <3>1, KeepsOnce DEF OneStart
  <2>6. Once(m)'
    <3>1. m \in Elems(pending) /\ Once(m)
      BY <2>2 DEF OneStart
    <3>2. ~Waits(m) /\ ~Held(m) /\ Starts(m) = {} /\ ~Begun(m)
      BY <3>1 DEF Once
    <3>3. ~Waits(m)' /\ Starts(m)' = {} /\ ~Begun(m)' /\ m \notin Elems(pending)'
      BY <1>1, <2>2, <2>3, <3>2 DEF Waits, Starts, Begun
    <3>4. \A g \in Fibers : drain'[g].msg = m => g = f
      BY <2>4, <3>2 DEF Held
    <3>5. QED BY <3>3, <3>4 DEF Once, Begun
  <2>7. QED BY <1>1, <2>2, <2>3, <2>5, <2>6 DEF OneStart, StartedOnce, Alone
<1>4. QED BY <1>2, <1>3

\* The promotion of the message a drain holds is dispatched.
LEMMA DispatchOnce ==
  ASSUME Typed, OneStart, NEW f \in Fibers, DispatchQueued(f)
  PROVE  OneStart'
<1>1. PICK m, e : m = drain[f].msg /\ e = Event("start", m, TRUE, eventId + 1)
  OBVIOUS
<1>2. /\ events' = events \o <<e>> /\ UNCHANGED <<handled, pending, reactor, delivered>>
      /\ \A g \in Fibers : drain'[g].msg = IF g = f THEN NoMessage ELSE drain[g].msg
  BY <1>1 DEF DispatchQueued, Dispatched, NotDraining, history, Typed, TypeOK
<1>3. m \in Messages /\ m # NoMessage /\ eventId + 1 \in Nat /\ events \in Seq(DomainEvents)
  BY <1>1, TurnQueueAssumption DEF DispatchQueued, Typed, TypeOK, Known, TurnQueueAssumption
<1>4. e \in DomainEvents /\ e.type = "start" /\ e.msg = m
  BY <1>1, <1>3 DEF Event, DomainEvents, Turns
<1>5. Held(m) /\ Once(m) /\ \A g \in Fibers : drain[g].msg = m => g = f
  BY <1>1, <1>3 DEF Held, OneStart, Once
<1>6. Elems(events') = Elems(events) \cup {e}
  BY <1>2, <1>3, <1>4, AddsOne
<1>7. Alone(events', Queueing)
  <2>1. <<e>> \in Seq(DomainEvents) /\ Elems(<<e>>) = {e} /\ Alone(<<e>>, Queueing)
    BY <1>4, OneEvent
  <2>2. QED BY <1>2, <1>3, <1>4, <2>1, AloneConcat DEF OneStart, Queueing
<1>8. ASSUME NEW n \in Messages, n # m
      PROVE  Once(n)'
  <2>1. n # NoMessage
    BY TurnQueueAssumption DEF TurnQueueAssumption
  <2>2. NoNewPlace(n)
    BY <1>2, <1>4, <1>6, <1>8, <2>1, FewerEvents DEF NoNewPlace
  <2>3. QED BY <2>2, KeepsOnce DEF OneStart
<1>9. Once(m)'
  <2>1. ~Waits(m) /\ m \notin Elems(pending) /\ Starts(m) = {} /\ ~Begun(m)
    BY <1>5 DEF Once
  <2>2. ~Waits(m)' /\ Starts(m)' = {e}
    BY <1>4, <1>6, <2>1 DEF Waits, Starts
  <2>3. m \notin Elems(pending)' /\ ~Begun(m)'
    BY <1>2, <2>1 DEF Begun
  <2>4. \A g \in Fibers : drain'[g].msg # m
    BY <1>2, <1>3, <1>5
  <2>5. QED BY <2>2, <2>3, <2>4 DEF Once, Held, Begun
<1>10. QED BY <1>2, <1>7, <1>8, <1>9 DEF OneStart, StartedOnce, Distinct

\* The other steps of the drains, the provider and the ingestion.
LEMMA OtherOnce ==
  ASSUME Typed, OneStart, HearTurnEnded \/ (\E f \in Fibers : Drain(f) \/ DispatchQueuedFails(f))
                          \/ EndTurn \/ Ingestion
  PROVE  OneStart'
<1>1. ASSUME UNCHANGED <<events, handled, pending, delivered>>, reactor'.msg = reactor.msg,
             \A g \in Fibers : drain'[g].msg \in {drain[g].msg, NoMessage}
      PROVE  OneStart'
  <2>1. ASSUME NEW n \in Messages
        PROVE  Once(n)'
    <3>1. n # NoMessage
      BY TurnQueueAssumption DEF TurnQueueAssumption
    <3>2. NoNewPlace(n)
      BY <1>1, <3>1, FewerEvents DEF NoNewPlace
    <3>3. QED BY <3>2, KeepsOnce DEF OneStart
  <2>2. QED BY <1>1, <2>1 DEF OneStart, StartedOnce, Distinct, Alone
<1>2. CASE HearTurnEnded
  <2>1. /\ UNCHANGED <<events, handled, pending, reactor, delivered>>
        /\ \A g \in Fibers : drain'[g].msg \in {drain[g].msg, NoMessage}
    BY <1>2 DEF HearTurnEnded, history, Typed, TypeOK
  <2>2. QED BY <1>1, <2>1
<1>3. ASSUME NEW f \in Fibers, BeginDrain(f) \/ DispatchQueuedFails(f)
      PROVE  OneStart'
  <2>1. /\ UNCHANGED <<events, handled, pending, reactor, delivered>>
        /\ \A g \in Fibers : drain'[g].msg \in {drain[g].msg, NoMessage}
    <3>1. CASE BeginDrain(f)
      BY <3>1 DEF BeginDrain, history, Typed, TypeOK
    <3>2. CASE DispatchQueuedFails(f)
      BY <3>2 DEF DispatchQueuedFails, NotDraining, Typed, TypeOK
    <3>3. QED BY <1>3, <3>1, <3>2
  <2>2. QED BY <1>1, <2>1
<1>4. CASE EndTurn \/ Ingestion
  <2>1. UNCHANGED <<events, handled, pending, delivered, drain>> /\ reactor'.msg = reactor.msg
    BY <1>4, IngestionSpares
       DEF EndTurn, Ingestion, IngestRuntimeEvent, DispatchSessionSet, history, Typed, TypeOK,
           ReactorPlaces
  <2>2. QED BY <1>1, <2>1
<1>5. QED BY <1>2, <1>3, <1>4, DequeueOnce, DispatchOnce DEF Drain

\* A step keeps the invariant.
LEMMA StepOnce ==
  ASSUME Typed, OneStart, "queued" \notin Redelivered, [Next]_vars
  PROVE  OneStart'
<1>1. CASE UNCHANGED vars
  BY <1>1 DEF vars, history, OneStart, StartedOnce, Distinct, Alone, Once, Waits, Starts, Held,
              Begun, Elems
<1>2. CASE Next
  BY <1>2, UserOnce, WorkerOnce, OtherOnce DEF Next
<1>3. QED BY <1>1, <1>2

\* Initially no message is anywhere.
LEMMA InitOnce ==
  ASSUME Init
  PROVE  OneStart
<1>1. events = <<>> /\ pending = <<>> /\ delivered = <<>> /\ reactor.msg = NoMessage
      /\ \A f \in Fibers : drain[f].msg = NoMessage
  BY DEF Init, Resting, NotDraining
<1>2. Alone(events, Queueing) /\ Distinct(pending) /\ StartedOnce
  BY <1>1 DEF Alone, Distinct, StartedOnce
<1>3. Elems(events) = {} /\ Elems(pending) = {} /\ Elems(delivered) = {}
  BY <1>1 DEF Elems
<1>4. ASSUME NEW m \in Messages
      PROVE  Once(m)
  <2>1. m # NoMessage
    BY TurnQueueAssumption DEF TurnQueueAssumption
  <2>2. QED BY <1>1, <1>3, <2>1 DEF Once, Waits, Starts, Held, Begun
<1>5. QED BY <1>2, <1>4 DEF OneStart

\* A message becomes a provider turn at most once, however its start, a
\* drain, a stop and the ingestion interleave, and also when its start event
\* is published again: processTurnStartRequested looks the event up first.
\* A queue event that came twice would queue its message twice, which is why
\* it is excluded.
THEOREM AtMostOneStart ==
  ASSUME "queued" \notin Redelivered
  PROVE  Spec => []StartedOnce
<1>1. Init => Typed /\ OneStart
  BY InitTypes, InitOnce
<1>2. Typed /\ OneStart /\ [Next]_vars => Typed' /\ OneStart'
  BY StepTypes, StepOnce
<1>3. OneStart => StartedOnce
  BY DEF OneStart
<1>4. QED BY <1>1, <1>2, <1>3, PTL DEF Spec

-----------------------------------------------------------------------------
(* A message is in exactly one place                                       *)

\* A queue or start event carries it.
Carried(m) == \E e \in Elems(events) : e.type \in Moves /\ e.msg = m

\* The provider has accepted it.
Delivered(m) == \E d \in Elems(delivered) : d.msg = m

Stations == {"nowhere", "event", "pending", "drain", "reactor", "delivered", "failed", "dropped",
             "lost"}

\* The message is at the station k and at no other.
At(m, k) ==
  /\ Carried(m) <=> k = "event"
  /\ m \in Elems(pending) <=> k = "pending"
  /\ Held(m) <=> k = "drain"
  /\ reactor.msg = m <=> k = "reactor"
  /\ Delivered(m) <=> k = "delivered"
  /\ m \in failed <=> k = "failed"
  /\ m \in dropped <=> k = "dropped"
  /\ m \in lost <=> k = "lost"

\* Only a message that was not sent is nowhere.
Placed(m) == \E k \in Stations : At(m, k) /\ (m \in sent <=> k # "nowhere")

\* A station holds it once.
Single ==
  /\ Alone(events, Moves) /\ Distinct(pending) /\ StartedOnce
  /\ \A m \in Messages : \A f, g \in Fibers : drain[f].msg = m /\ drain[g].msg = m => f = g

\* A start event on its way has not been handled, and is its message's own.
Unhandled ==
  /\ \A e \in Elems(events) : e.id <= eventId /\ (e.type = "start" => e.id \notin handled)
  /\ \A h \in handled : h <= eventId
  /\ \A d, e \in Elems(events) :
       d.type = "start" /\ e.type = "start" /\ d.id = e.id => d.msg = e.msg

\* The worker's own drain runs only while the worker waits for it.
WorkerDrains == drain["worker"].pc # "off" => reactor.pc = "draining"

\* The inductive invariant.
InPlace ==
  /\ Single /\ Unhandled /\ WorkerDrains
  /\ \A m \in Messages : Placed(m)

\* The step neither moves the message nor sends it.
Stays(m) ==
  /\ Carried(m)' <=> Carried(m)
  /\ m \in Elems(pending)' <=> m \in Elems(pending)
  /\ Held(m)' <=> Held(m)
  /\ reactor'.msg = m <=> reactor.msg = m
  /\ Delivered(m)' <=> Delivered(m)
  /\ m \in failed' <=> m \in failed
  /\ m \in dropped' <=> m \in dropped
  /\ m \in lost' <=> m \in lost
  /\ m \in sent' <=> m \in sent

-----------------------------------------------------------------------------
(* Lemmas                                                                  *)

\* A message that stays is where it was.
LEMMA StaysPlaced ==
  ASSUME NEW m \in Messages, Placed(m), Stays(m)
  PROVE  Placed(m)'
<1>1. PICK k \in Stations : At(m, k) /\ (m \in sent <=> k # "nowhere")
  BY DEF Placed
<1>2. At(m, k)' /\ (m \in sent' <=> k # "nowhere")
  BY <1>1 DEF At, Stays
<1>3. QED BY <1>2 DEF Placed

\* A message that was sent and is at one station.
LEMMA MovesPlaced ==
  ASSUME NEW m \in Messages, NEW k \in Stations \ {"nowhere"}, At(m, k)', m \in sent'
  PROVE  Placed(m)'
BY DEF Placed

\* The message at a station is at that one only.
LEMMA AtThis ==
  ASSUME NEW m \in Messages, Placed(m)
  PROVE  /\ Carried(m) => At(m, "event")
         /\ m \in Elems(pending) => At(m, "pending")
         /\ Held(m) => At(m, "drain")
         /\ reactor.msg = m => At(m, "reactor")
         /\ m \notin sent => At(m, "nowhere")
<1>1. PICK k \in Stations : At(m, k) /\ (m \in sent <=> k # "nowhere")
  BY DEF Placed
<1>2. /\ Carried(m) => k = "event"
      /\ m \in Elems(pending) => k = "pending"
      /\ Held(m) => k = "drain"
      /\ reactor.msg = m => k = "reactor"
      /\ m \notin sent => k = "nowhere"
  BY <1>1 DEF At
<1>3. QED BY <1>1, <1>2

\* A step that touches no place.
LEMMA Idle ==
  ASSUME InPlace, WorkerDrains',
         UNCHANGED <<sent, events, eventId, handled, pending, delivered, failed, dropped, lost>>,
         reactor'.msg = reactor.msg, \A f \in Fibers : drain'[f].msg = drain[f].msg
  PROVE  InPlace'
<1>1. ASSUME NEW m \in Messages
      PROVE  Placed(m)'
  <2>1. Stays(m)
    BY DEF Stays, Carried, Held, Delivered
  <2>2. QED BY <2>1, StaysPlaced DEF InPlace
<1>2. Single'
  BY DEF InPlace, Single, Alone, Distinct, StartedOnce
<1>3. Unhandled'
  BY DEF InPlace, Unhandled
<1>4. QED BY <1>1, <1>2, <1>3 DEF InPlace

\* The worker takes an event: the others stay.
LEMMA TakesOne ==
  ASSUME Typed, InPlace, NEW type, NextEvent(type), NEW h, h = Head(events)
  PROVE  /\ Alone(events', Moves) /\ Elems(events) = Elems(events)' \cup {h}
         /\ type \in Moves => \A e \in Elems(events)' : e.type \in Moves => e.msg # h.msg
         /\ h \in DomainEvents /\ h.type = type
         /\ type \in Moves => h.msg \in sent /\ h.msg \in Messages
         /\ reactor.msg = NoMessage /\ drain["worker"].pc = "off"
<1>1. events \in Seq(DomainEvents) /\ events # <<>> /\ events' = Tail(events)
      /\ h.type = type /\ Alone(events, Moves) /\ reactor.msg = NoMessage
      /\ drain["worker"].pc = "off"
  BY DEF Typed, TypeOK, Known, NextEvent, InPlace, Single, WorkerDrains
<1>2. Elems(events) = Elems(Tail(events)) \cup {h} /\ h \in DomainEvents
  BY <1>1, OnTail
<1>3. /\ Alone(Tail(events), Moves)
      /\ h.type \in Moves => \A e \in Elems(Tail(events)) : e.type \in Moves => e.msg # h.msg
  BY <1>1, AloneTail
<1>4. type \in Moves => h.msg \in sent /\ h.msg \in Messages
  BY TakesEvent
<1>5. QED BY <1>1, <1>2, <1>3, <1>4

\* What is handled and on its way, when an event is taken that is no start.
LEMMA TakesUnhandled ==
  ASSUME Unhandled, Elems(events)' \subseteq Elems(events), UNCHANGED <<eventId, handled>>
  PROVE  Unhandled'
BY DEF Unhandled

\* Events join the others: of those that move a message each is alone.
LEMMA JoinsUnhandled ==
  ASSUME Typed, Unhandled, NEW e \in DomainEvents, e.id = eventId + 1,
         NEW c \in DomainEvents, c.id = eventId + 1, c.type # "start" \/ c = e,
         Elems(events)' = Elems(events) \cup {e, c},
         eventId' = eventId + 1, UNCHANGED handled
  PROVE  Unhandled'
<1>1. eventId \in Nat /\ handled \subseteq Nat /\ \A x \in Elems(events) : x.id \in Nat
  <2>1. eventId \in Nat /\ handled \subseteq Nat /\ events \in Seq(DomainEvents)
    BY DEF Typed, TypeOK
  <2>2. Elems(events) \subseteq DomainEvents
    BY <2>1 DEF Elems
  <2>3. QED BY <2>1, <2>2 DEF DomainEvents
<1>2. \A x \in Elems(events)' : x.id <= eventId' /\ (x.type = "start" => x.id \notin handled')
  BY <1>1 DEF Unhandled
<1>3. \A h \in handled' : h <= eventId'
  BY <1>1 DEF Unhandled
<1>4. \A x \in Elems(events) : x.id # eventId + 1
  BY <1>1 DEF Unhandled
<1>5. \A x, y \in Elems(events)' :
        x.type = "start" /\ y.type = "start" /\ x.id = y.id => x.msg = y.msg
  BY <1>4 DEF Unhandled
<1>6. QED BY <1>2, <1>3, <1>5 DEF Unhandled

-----------------------------------------------------------------------------
(* The steps                                                               *)

\* A message is sent: it is in an event.
LEMMA SendPlaced ==
  ASSUME Typed, InPlace, NEW m \in Messages, SendMessage(m)
  PROVE  InPlace'
<1> DEFINE a == Event("start", m, FALSE, eventId + 1)
           b == Event("queued", m, FALSE, eventId + 1)
           c == Event("interrupt", m, FALSE, eventId + 1)
<1>1. events \in Seq(DomainEvents) /\ eventId + 1 \in Nat /\ Alone(events, Moves)
  BY DEF Typed, TypeOK, InPlace, Single
<1>2. /\ a \in DomainEvents /\ b \in DomainEvents /\ c \in DomainEvents
      /\ a.msg = m /\ b.msg = m /\ c.msg = m
      /\ a.type = "start" /\ b.type = "queued" /\ c.type = "interrupt"
      /\ a.id = eventId + 1 /\ b.id = eventId + 1 /\ c.id = eventId + 1
  BY <1>1 DEF Event, DomainEvents, Turns
<1>3. /\ events' \in {events \o <<a>>, events \o <<b>>, events \o <<b, c>>}
      /\ eventId' = eventId + 1 /\ m \notin sent /\ sent' = sent \cup {m}
      /\ UNCHANGED <<handled, pending, drain, reactor, delivered, failed, dropped, lost>>
  BY DEF SendMessage, Dispatched, history
<1> HIDE DEF a, b, c
<1>4. At(m, "nowhere")
  BY <1>3, AtThis DEF InPlace
<1>5. \A e \in Elems(events) : e.type \in Moves => e.msg # m
  BY <1>4 DEF At, Carried
<1>6. PICK t \in {<<a>>, <<b>>, <<b, c>>} : events' = events \o t
  BY <1>3
<1>7. /\ t \in Seq(DomainEvents) /\ Alone(t, Moves) /\ \A e \in Elems(t) : e.msg = m
      /\ Elems(t) \in {{a}, {b}, {b, c}}
  <2>1. <<a>> \in Seq(DomainEvents) /\ Elems(<<a>>) = {a} /\ Alone(<<a>>, Moves)
    BY <1>2, OneEvent
  <2>2. <<b>> \in Seq(DomainEvents) /\ Elems(<<b>>) = {b} /\ Alone(<<b>>, Moves)
    BY <1>2, OneEvent
  <2>3. <<b, c>> \in Seq(DomainEvents) /\ Elems(<<b, c>>) = {b, c} /\ Alone(<<b, c>>, Moves)
    BY <1>2, TwoEvents DEF Moves
  <2>4. QED BY <1>2, <2>1, <2>2, <2>3
<1>8. Elems(events') = Elems(events) \cup Elems(t) /\ Alone(events', Moves)
  BY <1>1, <1>5, <1>6, <1>7, OnConcat, AloneConcat
<1>9. Unhandled'
  <2>1. Unhandled
    BY DEF InPlace
  <2>2. CASE Elems(t) = {a}
    BY <1>2, <1>3, <1>8, <2>1, <2>2, JoinsUnhandled
  <2>3. CASE Elems(t) = {b}
    BY <1>2, <1>3, <1>8, <2>1, <2>3, JoinsUnhandled
  <2>4. CASE Elems(t) = {b, c}
    BY <1>2, <1>3, <1>8, <2>1, <2>4, JoinsUnhandled
  <2>5. QED BY <1>7, <2>2, <2>3, <2>4
<1>10. ASSUME NEW n \in Messages, n # m
       PROVE  Placed(n)'
  <2>1. Carried(n)' <=> Carried(n)
    BY <1>7, <1>8, <1>10 DEF Carried
  <2>2. Stays(n)
    BY <1>3, <1>10, <2>1 DEF Stays, Held, Delivered
  <2>3. QED BY <2>2, StaysPlaced DEF InPlace
<1>11. Placed(m)'
  <2>1. Carried(m)'
    BY <1>2, <1>7, <1>8 DEF Carried, Moves
  <2>2. At(m, "event")'
    BY <1>3, <1>4, <2>1 DEF At, Held, Delivered
  <2>3. QED BY <1>3, <2>2, MovesPlaced DEF Stations
<1>12. Single' /\ WorkerDrains'
  BY <1>3, <1>8 DEF InPlace, Single, WorkerDrains, Distinct, StartedOnce
<1>13. QED BY <1>9, <1>10, <1>11, <1>12 DEF InPlace

\* A stop event, or an event that moves no message, joins the others.
LEMMA JoinsPlaced ==
  ASSUME Typed, InPlace, NEW e \in DomainEvents, e.type \notin Moves, events' = events \o <<e>>,
         Unhandled',
         UNCHANGED <<sent, handled, pending, drain, reactor, delivered, failed, dropped, lost>>
  PROVE  InPlace'
<1>1. events \in Seq(DomainEvents) /\ Alone(events, Moves)
  BY DEF Typed, TypeOK, InPlace, Single
<1>2. <<e>> \in Seq(DomainEvents) /\ Elems(<<e>>) = {e} /\ Alone(<<e>>, Moves)
  BY OneEvent
<1>3. Elems(events') = Elems(events) \cup {e} /\ Alone(events', Moves)
  <2>1. Alone(events \o <<e>>, Moves)
    BY <1>1, <1>2, AloneConcat
  <2>2. Elems(events \o <<e>>) = Elems(events) \cup {e}
    BY <1>1, AddsOne
  <2>3. QED BY <2>1, <2>2
<1>4. ASSUME NEW n \in Messages
      PROVE  Placed(n)'
  <2>1. Stays(n)
    BY <1>3 DEF Stays, Carried, Held, Delivered
  <2>2. QED BY <2>1, StaysPlaced DEF InPlace
<1>5. Single' /\ WorkerDrains'
  BY <1>3 DEF InPlace, Single, WorkerDrains, Distinct, StartedOnce
<1>6. QED BY <1>4, <1>5 DEF InPlace

\* The commands of the user and the redelivery of an event.
LEMMA UserPlaced ==
  ASSUME Typed, InPlace, Redelivered \cap Moves = {},
         (\E m \in Messages : SendMessage(m)) \/ StopSession \/ Redeliver
  PROVE  InPlace'
<1>1. events \in Seq(DomainEvents) /\ eventId + 1 \in Nat /\ Unhandled
  BY DEF Typed, TypeOK, InPlace
<1>2. CASE StopSession
  <2>1. PICK e : e = Event("stop", NoMessage, FALSE, eventId + 1)
    OBVIOUS
  <2>2. /\ e \in DomainEvents /\ e.type \notin Moves /\ e.type # "start" /\ e.id = eventId + 1
        /\ events' = events \o <<e>> /\ eventId' = eventId + 1
        /\ UNCHANGED <<sent, handled, pending, drain, reactor, delivered, failed, dropped, lost>>
    BY <1>1, <1>2, <2>1
       DEF StopSession, Dispatched, Event, DomainEvents, Turns, Moves, history
  <2>3. Elems(events') = Elems(events) \cup {e, e}
    BY <1>1, <2>2, AddsOne
  <2>4. Unhandled'
    BY <1>1, <2>2, <2>3, JoinsUnhandled
  <2>5. QED BY <2>2, <2>4, JoinsPlaced
<1>3. CASE Redeliver
  <2>1. PICK e : e = events[Len(events)]
    OBVIOUS
  <2>2. /\ e \in DomainEvents /\ events' = Append(events, e) /\ e \in Elems(events)
        /\ e.type \notin Moves
        /\ UNCHANGED <<sent, eventId, handled, pending, drain, reactor, delivered, failed, dropped,
                       lost>>
    BY <1>1, <1>3, <2>1, LenProperties, EmptySeq DEF Redeliver, Elems, history
  <2>3. events' = events \o <<e>> /\ Elems(events') = Elems(events) \cup {e}
    <3>1. Append(events, e) = events \o <<e>>
      BY <1>1, <2>2, AppendIsConcat
    <3>2. Elems(events \o <<e>>) = Elems(events) \cup {e}
      BY <1>1, <2>2, AddsOne
    <3>3. QED BY <2>2, <3>1, <3>2
  <2>4. Unhandled'
    BY <1>1, <2>2, <2>3, TakesUnhandled
  <2>5. QED BY <2>2, <2>3, <2>4, JoinsPlaced
<1>4. QED BY <1>2, <1>3, SendPlaced

\* A message joins the queue.
LEMMA QueuedPlaced ==
  ASSUME Typed, InPlace, ProcessTurnQueued
  PROVE  InPlace'
<1>1. PICK h : h = Head(events)
  OBVIOUS
<1>2. /\ Alone(events', Moves) /\ Elems(events) = Elems(events)' \cup {h}
      /\ \A e \in Elems(events)' : e.type \in Moves => e.msg # h.msg
      /\ h.type = "queued" /\ h.msg \in sent /\ h.msg \in Messages
  BY <1>1, TakesOne DEF ProcessTurnQueued, Moves
<1>3. /\ pending' = Enqueue(h.msg)
      /\ UNCHANGED <<sent, eventId, handled, drain, reactor, delivered, failed, dropped, lost>>
  BY <1>1 DEF ProcessTurnQueued
<1>4. Carried(h.msg) /\ At(h.msg, "event")
  <2>1. Carried(h.msg)
    BY <1>2 DEF Carried, Moves
  <2>2. QED BY <1>2, <2>1, AtThis DEF InPlace
<1>5. Elems(pending)' = Elems(pending) \cup {h.msg} /\ Distinct(pending')
  BY <1>2, <1>3, <1>4, Enqueues DEF At, InPlace, Single
<1>6. ASSUME NEW n \in Messages, n # h.msg
      PROVE  Placed(n)'
  <2>1. Carried(n)' <=> Carried(n)
    BY <1>2, <1>6 DEF Carried
  <2>2. Stays(n)
    BY <1>3, <1>5, <1>6, <2>1 DEF Stays, Held, Delivered
  <2>3. QED BY <2>2, StaysPlaced DEF InPlace
<1>7. Placed(h.msg)'
  <2>1. At(h.msg, "pending")'
    BY <1>2, <1>3, <1>4, <1>5 DEF At, Carried, Held, Delivered
  <2>2. QED BY <1>2, <1>3, <2>1, MovesPlaced DEF Stations
<1>8. Single' /\ WorkerDrains'
  BY <1>2, <1>3, <1>5 DEF InPlace, Single, WorkerDrains, StartedOnce
<1>9. Unhandled'
  BY <1>2, <1>3, TakesUnhandled DEF InPlace
<1>10. QED BY <1>6, <1>7, <1>8, <1>9 DEF InPlace

\* A start event comes to the worker's hands.
LEMMA StartPlaced ==
  ASSUME Typed, InPlace, ProcessTurnStartRequested
  PROVE  InPlace'
<1>1. PICK h : h = Head(events)
  OBVIOUS
<1>2. /\ Alone(events', Moves) /\ Elems(events) = Elems(events)' \cup {h}
      /\ \A e \in Elems(events)' : e.type \in Moves => e.msg # h.msg
      /\ h \in DomainEvents /\ h.type = "start" /\ h.msg \in sent /\ h.msg \in Messages
      /\ reactor.msg = NoMessage /\ drain["worker"].pc = "off"
  BY <1>1, TakesOne DEF ProcessTurnStartRequested, Moves
<1>3. /\ handled' = handled \cup {h.id}
      /\ h.id \in handled \/ reactor'.msg = h.msg
      /\ UNCHANGED <<sent, eventId, pending, drain, delivered, failed, dropped, lost>>
  BY <1>1 DEF ProcessTurnStartRequested, FirstHandled, history
<1>4. h.id \notin handled /\ h.id <= eventId /\ Unhandled
  BY <1>2 DEF InPlace, Unhandled
<1>5. reactor'.msg = h.msg
  BY <1>3, <1>4
<1>6. At(h.msg, "event")
  <2>1. Carried(h.msg)
    BY <1>2 DEF Carried, Moves
  <2>2. QED BY <1>2, <2>1, AtThis DEF InPlace
<1>7. ASSUME NEW n \in Messages, n # h.msg
      PROVE  Placed(n)'
  <2>1. Carried(n)' <=> Carried(n)
    BY <1>2, <1>7 DEF Carried
  <2>2. n # NoMessage
    BY TurnQueueAssumption DEF TurnQueueAssumption
  <2>3. Stays(n)
    BY <1>2, <1>3, <1>5, <1>7, <2>1, <2>2 DEF Stays, Held, Delivered
  <2>4. QED BY <2>3, StaysPlaced DEF InPlace
<1>8. Placed(h.msg)'
  <2>1. ~Carried(h.msg)'
    BY <1>2 DEF Carried
  <2>2. At(h.msg, "reactor")'
    BY <1>3, <1>5, <1>6, <2>1 DEF At, Held, Delivered
  <2>3. QED BY <1>2, <1>3, <2>2, MovesPlaced DEF Stations
<1>9. Single' /\ WorkerDrains'
  BY <1>2, <1>3 DEF InPlace, Single, WorkerDrains, StartedOnce, Distinct
<1>10. Unhandled'
  <2>1. \A e \in Elems(events)' : e.type = "start" => e.id # h.id
    BY <1>2, <1>4 DEF Unhandled, Moves
  <2>2. /\ \A e \in Elems(events)' : e.id <= eventId' /\ (e.type = "start" => e.id \notin handled')
        /\ \A i \in handled' : i <= eventId'
    BY <1>2, <1>3, <1>4, <2>1 DEF Unhandled
  <2>3. \A d, e \in Elems(events)' :
          d.type = "start" /\ e.type = "start" /\ d.id = e.id => d.msg = e.msg
    BY <1>2, <1>4 DEF Unhandled
  <2>4. QED BY <2>2, <2>3 DEF Unhandled
<1>11. QED BY <1>7, <1>8, <1>9, <1>10 DEF InPlace

\* The provider takes the message in the worker's hands.
LEMMA DeliverPlaced ==
  ASSUME Typed, InPlace, SendTurn
  PROVE  InPlace'
<1> DEFINE D == [msg : Messages, promoted : BOOLEAN]
<1>1. PICK m, d : m = reactor.msg /\ d = [msg |-> m, promoted |-> reactor.promoted]
  OBVIOUS
<1>2. /\ m \in Messages /\ m \in sent /\ m # NoMessage
      /\ d \in D /\ d.msg = m /\ delivered \in Seq(D)
      /\ reactor.pc = "sending"
  BY <1>1, TurnQueueAssumption DEF SendTurn, Typed, TypeOK, Known, TurnQueueAssumption
<1>3. /\ delivered' = Append(delivered, d) /\ reactor'.msg = NoMessage
      /\ UNCHANGED <<sent, events, eventId, handled, pending, drain, failed, dropped, lost>>
  BY <1>1 DEF SendTurn, Resting
<1>4. At(m, "reactor") /\ \A e \in Elems(delivered) : e.msg # m
  <2>1. At(m, "reactor")
    BY <1>1, <1>2, AtThis DEF InPlace
  <2>2. QED BY <2>1 DEF At, Delivered
<1> HIDE DEF D
<1>5. /\ Elems(delivered)' = Elems(delivered) \cup {d}
      /\ Len(delivered') = Len(delivered) + 1 /\ Len(delivered) \in Nat
      /\ \A i \in 1..Len(delivered) : delivered'[i] = delivered[i]
      /\ delivered'[Len(delivered) + 1] = d
      /\ DOMAIN delivered' = 1..(Len(delivered) + 1) /\ DOMAIN delivered = 1..Len(delivered)
  <2>1. Elems(Append(delivered, d)) = Elems(delivered) \cup {d}
    BY <1>2, OnAppend
  <2>2. QED BY <1>2, <1>3, <2>1, AppendProperties, LenProperties
<1>6. StartedOnce'
  <2>1. \A i \in DOMAIN delivered : delivered[i].msg # m
    BY <1>4 DEF Elems
  <2>2. StartedOnce
    BY DEF InPlace, Single
  <2>3. ASSUME NEW i \in DOMAIN delivered', NEW j \in DOMAIN delivered',
               delivered'[i].msg = delivered'[j].msg
        PROVE  i = j
    <3>1. \A k \in DOMAIN delivered' :
            \/ k \in DOMAIN delivered /\ delivered'[k] = delivered[k]
            \/ k = Len(delivered) + 1 /\ delivered'[k].msg = m
      BY <1>2, <1>5
    <3>2. QED BY <2>1, <2>2, <2>3, <3>1 DEF StartedOnce
  <2>4. QED BY <2>3 DEF StartedOnce
<1>7. ASSUME NEW n \in Messages, n # m
      PROVE  Placed(n)'
  <2>1. n # NoMessage
    BY TurnQueueAssumption DEF TurnQueueAssumption
  <2>2. Delivered(n)' <=> Delivered(n)
    BY <1>2, <1>5, <1>7 DEF Delivered
  <2>3. Stays(n)
    BY <1>1, <1>3, <1>7, <2>1, <2>2 DEF Stays, Carried, Held
  <2>4. QED BY <2>3, StaysPlaced DEF InPlace
<1>8. Placed(m)'
  <2>1. Delivered(m)' /\ reactor'.msg # m
    BY <1>2, <1>3, <1>5 DEF Delivered
  <2>2. At(m, "delivered")'
    BY <1>3, <1>4, <2>1 DEF At, Carried, Held
  <2>3. QED BY <1>2, <1>3, <2>2, MovesPlaced DEF Stations
<1>9. drain["worker"].pc = "off"
  BY <1>2 DEF InPlace, WorkerDrains
<1>10. Single' /\ WorkerDrains' /\ Unhandled'
  BY <1>3, <1>6, <1>9 DEF InPlace, Single, WorkerDrains, Unhandled, Distinct, Alone
<1>11. QED BY <1>7, <1>8, <1>10 DEF InPlace

\* The provider refuses it.
LEMMA RefusePlaced ==
  ASSUME Typed, InPlace, SendTurnFails
  PROVE  InPlace'
<1>1. PICK m : m = reactor.msg
  OBVIOUS
<1>2. m \in Messages /\ m \in sent /\ m # NoMessage /\ drain["worker"].msg = NoMessage
  <2>1. reactor.pc = "sending" /\ m \in Messages /\ m \in sent
    BY <1>1 DEF SendTurnFails, Typed, TypeOK, Known
  <2>2. drain["worker"].pc = "off" /\ "worker" \in Fibers
    BY <2>1 DEF InPlace, WorkerDrains, Fibers
  <2>3. QED BY <2>1, <2>2, TurnQueueAssumption DEF Typed, Known, TurnQueueAssumption
<1>3. /\ failed' = failed \cup {m} /\ reactor'.msg = NoMessage /\ reactor'.pc = "draining"
      /\ drain' = [drain EXCEPT !["worker"] = [pc |-> "begin", msg |-> NoMessage]]
      /\ UNCHANGED <<sent, events, eventId, handled, pending, delivered, dropped, lost>>
  <2>1. /\ reactor' = [Resting EXCEPT !.pc = "draining"]
        /\ drain' = [drain EXCEPT !["worker"] = [NotDraining EXCEPT !.pc = "begin"]]
        /\ failed' = failed \cup {m}
        /\ UNCHANGED <<sent, events, eventId, handled, pending, delivered, dropped, lost>>
    BY <1>1 DEF SendTurnFails
  <2>2. /\ [Resting EXCEPT !.pc = "draining"].msg = NoMessage
        /\ [Resting EXCEPT !.pc = "draining"].pc = "draining"
    BY DEF Resting
  <2>3. [NotDraining EXCEPT !.pc = "begin"] = [pc |-> "begin", msg |-> NoMessage]
    BY DEF NotDraining
  <2>4. QED BY <2>1, <2>2, <2>3
<1>4. \A f \in Fibers : drain'[f].msg = drain[f].msg
  BY <1>2, <1>3 DEF Typed, TypeOK
<1>5. At(m, "reactor")
  BY <1>1, <1>2, AtThis DEF InPlace
<1>6. ASSUME NEW n \in Messages, n # m
      PROVE  Placed(n)'
  <2>1. n # NoMessage
    BY TurnQueueAssumption DEF TurnQueueAssumption
  <2>2. Stays(n)
    BY <1>1, <1>3, <1>4, <1>6, <2>1 DEF Stays, Carried, Held, Delivered
  <2>3. QED BY <2>2, StaysPlaced DEF InPlace
<1>7. Placed(m)'
  <2>1. At(m, "failed")'
    BY <1>2, <1>3, <1>4, <1>5 DEF At, Carried, Held, Delivered
  <2>2. QED BY <1>2, <1>3, <2>1, MovesPlaced DEF Stations
<1>8. Single' /\ WorkerDrains' /\ Unhandled'
  BY <1>3, <1>4 DEF InPlace, Single, WorkerDrains, Unhandled, Distinct, Alone, StartedOnce
<1>9. QED BY <1>6, <1>7, <1>8 DEF InPlace

\* A stop drops what is queued.
LEMMA StopPlaced ==
  ASSUME Typed, InPlace, ProcessSessionStopRequested
  PROVE  InPlace'
<1>1. PICK h : h = Head(events)
  OBVIOUS
<1>2. /\ Alone(events', Moves) /\ Elems(events) = Elems(events)' \cup {h}
      /\ h.type = "stop" /\ reactor.msg = NoMessage /\ drain["worker"].pc = "off"
  BY <1>1, TakesOne DEF ProcessSessionStopRequested
<1>3. /\ pending' = <<>> /\ dropped' = dropped \cup Elems(pending) /\ reactor'.msg = NoMessage
      /\ UNCHANGED <<sent, eventId, handled, drain, delivered, failed, lost>>
  BY DEF ProcessSessionStopRequested, Elems, Resting
<1>4. Elems(pending)' = {} /\ Distinct(pending')
  BY <1>3 DEF Elems, Distinct
<1>5. ASSUME NEW n \in Messages
      PROVE  Placed(n)'
  <2>1. Carried(n)' <=> Carried(n)
    BY <1>2 DEF Carried, Moves
  <2>2. CASE n \notin Elems(pending)
    <3>1. Stays(n)
      BY <1>2, <1>3, <1>4, <2>1, <2>2 DEF Stays, Held, Delivered
    <3>2. QED BY <3>1, StaysPlaced DEF InPlace
  <2>3. CASE n \in Elems(pending)
    <3>1. At(n, "pending") /\ n \in sent
      BY <2>3, AtThis DEF InPlace, Typed, Known
    <3>2. At(n, "dropped")'
      BY <1>2, <1>3, <1>4, <2>1, <2>3, <3>1 DEF At, Held, Delivered
    <3>3. QED BY <1>3, <3>1, <3>2, MovesPlaced DEF Stations
  <2>4. QED BY <2>2, <2>3
<1>6. Single' /\ WorkerDrains'
  BY <1>2, <1>3, <1>4 DEF InPlace, Single, WorkerDrains, StartedOnce
<1>7. Unhandled'
  BY <1>2, <1>3, TakesUnhandled DEF InPlace
<1>8. QED BY <1>5, <1>6, <1>7 DEF InPlace

\* An interrupt is handled: it moves no message.
LEMMA InterruptPlaced ==
  ASSUME Typed, InPlace, ProcessTurnInterruptRequested
  PROVE  InPlace'
<1>1. PICK h : h = Head(events)
  OBVIOUS
<1>2. /\ Alone(events', Moves) /\ Elems(events) = Elems(events)' \cup {h} /\ h.type = "interrupt"
  BY <1>1, TakesOne DEF ProcessTurnInterruptRequested
<1>3. UNCHANGED <<sent, eventId, handled, pending, drain, reactor, delivered, failed, dropped,
                  lost>>
  BY DEF ProcessTurnInterruptRequested, history
<1>4. ASSUME NEW n \in Messages
      PROVE  Placed(n)'
  <2>1. Carried(n)' <=> Carried(n)
    BY <1>2 DEF Carried, Moves
  <2>2. Stays(n)
    BY <1>3, <2>1 DEF Stays, Held, Delivered
  <2>3. QED BY <2>2, StaysPlaced DEF InPlace
<1>5. Single' /\ WorkerDrains'
  BY <1>2, <1>3 DEF InPlace, Single, WorkerDrains, StartedOnce, Distinct
<1>6. Unhandled'
  BY <1>2, <1>3, TakesUnhandled DEF InPlace
<1>7. QED BY <1>4, <1>5, <1>6 DEF InPlace

\* The worker.
LEMMA WorkerPlaced ==
  ASSUME Typed, InPlace, Worker \/ SendTurnFails
  PROVE  InPlace'
<1>1. CASE CloseOpenTurn \/ ResumeWorker \/ SetSessionStopped
  <2>1. /\ UNCHANGED <<sent, events, eventId, handled, pending, drain, delivered, failed, dropped,
                       lost>>
        /\ reactor'.msg = reactor.msg
        /\ reactor' = reactor \/ reactor.pc \in {"stopping", "setting"} \/ drain["worker"].pc = "off"
    BY <1>1 DEF CloseOpenTurn, ResumeWorker, SetSessionStopped, Resting, history, Typed, Known
  <2>2. WorkerDrains'
    BY <2>1 DEF InPlace, WorkerDrains
  <2>3. QED BY <2>1, <2>2, Idle
<1>2. QED BY <1>1, QueuedPlaced, StartPlaced, DeliverPlaced, RefusePlaced, StopPlaced,
             InterruptPlaced DEF Worker

\* A drain takes a message from the queue.
LEMMA DequeuePlaced ==
  ASSUME Typed, InPlace, NEW f \in Fibers, Dequeue(f)
  PROVE  InPlace'
<1>1. /\ UNCHANGED <<sent, events, eventId, handled, reactor, delivered, failed, dropped, lost>>
      /\ drain[f].pc = "dequeue" /\ drain[f].msg = NoMessage
  BY DEF Dequeue, history, Typed, Known
<1>2. \A d : drain' = [drain EXCEPT ![f] = d] => WorkerDrains'
  BY <1>1 DEF InPlace, WorkerDrains, Typed, TypeOK
<1>3. CASE pending = <<>>
  <2>1. pending' = pending /\ drain' = [drain EXCEPT ![f] = [pc |-> "off", msg |-> NoMessage]]
    BY <1>3 DEF Dequeue, NotDraining
  <2>2. \A g \in Fibers : drain'[g].msg = drain[g].msg
    BY <1>1, <2>1 DEF Typed, TypeOK
  <2>3. WorkerDrains'
    BY <1>2, <2>1
  <2>4. QED BY <1>1, <2>1, <2>2, <2>3, Idle
<1>4. CASE pending # <<>>
  <2>1. PICK m : m = Head(pending)
    OBVIOUS
  <2>2. /\ m \in Messages /\ m \in sent /\ Elems(pending) = Elems(Tail(pending)) \cup {m}
        /\ Distinct(Tail(pending)) /\ m \notin Elems(Tail(pending))
    <3>1. pending \in Seq(Messages) /\ Distinct(pending) /\ Elems(pending) \subseteq sent
      BY DEF Typed, TypeOK, Known, InPlace, Single
    <3>2. QED BY <1>4, <2>1, <3>1, OnTail
  <2>3. /\ drain' = [drain EXCEPT ![f] = [pc |-> "dispatch", msg |-> m]]
        /\ pending' = Tail(pending)
    BY <1>4, <2>1 DEF Dequeue
  <2>4. \A g \in Fibers : drain'[g].msg = IF g = f THEN m ELSE drain[g].msg
    BY <2>3 DEF Typed, TypeOK
  <2>5. At(m, "pending")
    BY <2>2, AtThis DEF InPlace
  <2>6. ASSUME NEW n \in Messages, n # m
        PROVE  Placed(n)'
    <3>1. n # NoMessage
      BY TurnQueueAssumption DEF TurnQueueAssumption
    <3>2. Held(n)' <=> Held(n)
      BY <1>1, <2>4, <2>6, <3>1 DEF Held
    <3>3. Stays(n)
      BY <1>1, <2>2, <2>3, <2>6, <3>2 DEF Stays, Carried, Delivered
    <3>4. QED BY <3>3, StaysPlaced DEF InPlace
  <2>7. Placed(m)'
    <3>1. Held(m)' /\ m \notin Elems(pending)'
      BY <2>2, <2>3, <2>4 DEF Held
    <3>2. At(m, "drain")'
      BY <1>1, <2>5, <3>1 DEF At, Carried, Delivered
    <3>3. QED BY <1>1, <2>2, <3>2, MovesPlaced DEF Stations
  <2>8. Single'
    <3>1. \A g \in Fibers : drain[g].msg # m
      BY <2>5 DEF At, Held
    <3>2. \A n \in Messages : \A g, i \in Fibers : drain'[g].msg = n /\ drain'[i].msg = n => g = i
      BY <2>4, <3>1 DEF InPlace, Single
    <3>3. QED BY <1>1, <2>2, <2>3, <3>2 DEF InPlace, Single, Alone, StartedOnce
  <2>9. WorkerDrains' /\ Unhandled'
    BY <1>1, <1>2, <2>3 DEF InPlace, Unhandled
  <2>10. QED BY <2>6, <2>7, <2>8, <2>9 DEF InPlace
<1>5. QED BY <1>3, <1>4

\* A promotion is dispatched.
LEMMA PromotePlaced ==
  ASSUME Typed, InPlace, NEW f \in Fibers, DispatchQueued(f)
  PROVE  InPlace'
<1>1. PICK m, e : m = drain[f].msg /\ e = Event("start", m, TRUE, eventId + 1)
  OBVIOUS
<1>2. /\ events' = events \o <<e>> /\ eventId' = eventId + 1
      /\ drain' = [drain EXCEPT ![f] = [pc |-> "off", msg |-> NoMessage]]
      /\ UNCHANGED <<sent, handled, pending, reactor, delivered, failed, dropped, lost>>
  BY <1>1 DEF DispatchQueued, Dispatched, NotDraining, history
<1>3. /\ m \in Messages /\ m \in sent /\ m # NoMessage /\ eventId + 1 \in Nat
      /\ events \in Seq(DomainEvents)
  BY <1>1, TurnQueueAssumption DEF DispatchQueued, Typed, TypeOK, Known, TurnQueueAssumption
<1>4. e \in DomainEvents /\ e.type = "start" /\ e.msg = m /\ e.id = eventId + 1
  BY <1>1, <1>3 DEF Event, DomainEvents, Turns
<1>5. \A g \in Fibers : drain'[g].msg = IF g = f THEN NoMessage ELSE drain[g].msg
  BY <1>2 DEF Typed, TypeOK
<1>6. At(m, "drain") /\ \A g \in Fibers : drain[g].msg = m => g = f
  <2>1. Held(m)
    BY <1>1 DEF Held
  <2>2. QED BY <1>1, <1>3, <2>1, AtThis DEF InPlace, Single
<1>7. Elems(events') = Elems(events) \cup {e, e} /\ Alone(events', Moves)
  <2>1. <<e>> \in Seq(DomainEvents) /\ Elems(<<e>>) = {e} /\ Alone(<<e>>, Moves)
    BY <1>4, OneEvent
  <2>2. \A d \in Elems(events) : d.type \in Moves => d.msg # m
    BY <1>6 DEF At, Carried
  <2>3. Alone(events \o <<e>>, Moves)
    BY <1>3, <1>4, <2>1, <2>2, AloneConcat DEF InPlace, Single
  <2>4. Elems(events \o <<e>>) = Elems(events) \cup {e}
    BY <1>3, <1>4, AddsOne
  <2>5. QED BY <1>2, <2>3, <2>4
<1>8. ASSUME NEW n \in Messages, n # m
      PROVE  Placed(n)'
  <2>1. n # NoMessage
    BY TurnQueueAssumption DEF TurnQueueAssumption
  <2>2. (Held(n)' <=> Held(n)) /\ (Carried(n)' <=> Carried(n))
    BY <1>1, <1>4, <1>5, <1>7, <1>8, <2>1 DEF Held, Carried
  <2>3. Stays(n)
    BY <1>2, <2>2 DEF Stays, Delivered
  <2>4. QED BY <2>3, StaysPlaced DEF InPlace
<1>9. Placed(m)'
  <2>1. ~Held(m)' /\ Carried(m)'
    BY <1>3, <1>4, <1>5, <1>6, <1>7 DEF Held, Carried, Moves
  <2>2. At(m, "event")'
    BY <1>2, <1>6, <2>1 DEF At, Delivered
  <2>3. QED BY <1>2, <1>3, <2>2, MovesPlaced DEF Stations
<1>10. Single'
  <2>1. \A n \in Messages : \A g, i \in Fibers : drain'[g].msg = n /\ drain'[i].msg = n => g = i
    BY <1>5, TurnQueueAssumption DEF InPlace, Single, TurnQueueAssumption
  <2>2. QED BY <1>2, <1>7, <2>1 DEF InPlace, Single, Distinct, StartedOnce
<1>11. WorkerDrains'
  BY <1>2 DEF InPlace, WorkerDrains, Typed, TypeOK
<1>12. Unhandled'
  BY <1>2, <1>4, <1>7, JoinsUnhandled DEF InPlace
<1>13. QED BY <1>8, <1>9, <1>10, <1>11, <1>12 DEF InPlace

\* A promotion fails.
LEMMA LosePlaced ==
  ASSUME Typed, InPlace, NEW f \in Fibers, DispatchQueuedFails(f)
  PROVE  InPlace'
<1>1. PICK m : m = drain[f].msg
  OBVIOUS
<1>2. /\ lost' = lost \cup {m}
      /\ drain' = [drain EXCEPT ![f] = [pc |-> "off", msg |-> NoMessage]]
      /\ UNCHANGED <<sent, events, eventId, handled, pending, reactor, delivered, failed, dropped>>
  BY <1>1 DEF DispatchQueuedFails, NotDraining
<1>3. m \in Messages /\ m \in sent /\ m # NoMessage
  BY <1>1, TurnQueueAssumption DEF DispatchQueuedFails, Typed, TypeOK, Known, TurnQueueAssumption
<1>4. \A g \in Fibers : drain'[g].msg = IF g = f THEN NoMessage ELSE drain[g].msg
  BY <1>2 DEF Typed, TypeOK
<1>5. At(m, "drain") /\ \A g \in Fibers : drain[g].msg = m => g = f
  <2>1. Held(m)
    BY <1>1 DEF Held
  <2>2. QED BY <1>1, <1>3, <2>1, AtThis DEF InPlace, Single
<1>6. ASSUME NEW n \in Messages, n # m
      PROVE  Placed(n)'
  <2>1. n # NoMessage
    BY TurnQueueAssumption DEF TurnQueueAssumption
  <2>2. Held(n)' <=> Held(n)
    BY <1>1, <1>4, <1>6, <2>1 DEF Held
  <2>3. Stays(n)
    BY <1>2, <1>6, <2>2 DEF Stays, Carried, Delivered
  <2>4. QED BY <2>3, StaysPlaced DEF InPlace
<1>7. Placed(m)'
  <2>1. ~Held(m)'
    BY <1>3, <1>4, <1>5 DEF Held
  <2>2. At(m, "lost")'
    BY <1>2, <1>5, <2>1 DEF At, Carried, Delivered
  <2>3. QED BY <1>2, <1>3, <2>2, MovesPlaced DEF Stations
<1>8. Single'
  <2>1. \A n \in Messages : \A g, i \in Fibers : drain'[g].msg = n /\ drain'[i].msg = n => g = i
    BY <1>4, TurnQueueAssumption DEF InPlace, Single, TurnQueueAssumption
  <2>2. QED BY <1>2, <2>1 DEF InPlace, Single, Distinct, StartedOnce, Alone
<1>9. WorkerDrains' /\ Unhandled'
  BY <1>2 DEF InPlace, WorkerDrains, Unhandled, Typed, TypeOK
<1>10. QED BY <1>6, <1>7, <1>8, <1>9 DEF InPlace

\* The drains, the provider and the ingestion.
LEMMA OtherPlaced ==
  ASSUME Typed, InPlace, HearTurnEnded \/ (\E f \in Fibers : Drain(f) \/ DispatchQueuedFails(f))
                         \/ EndTurn \/ Ingestion
  PROVE  InPlace'
<1>1. CASE HearTurnEnded
  <2>1. /\ UNCHANGED <<sent, events, eventId, handled, pending, reactor, delivered, failed, dropped,
                       lost>>
        /\ drain' = [drain EXCEPT !["stream"].pc = "begin"]
    BY <1>1 DEF HearTurnEnded, history
  <2>2. WorkerDrains' /\ \A g \in Fibers : drain'[g].msg = drain[g].msg
    BY <2>1 DEF Typed, TypeOK, Fibers, InPlace, WorkerDrains
  <2>3. QED BY <2>1, <2>2, Idle
<1>2. ASSUME NEW f \in Fibers, BeginDrain(f)
      PROVE  InPlace'
  <2>1. /\ UNCHANGED <<sent, events, eventId, handled, pending, reactor, delivered, failed, dropped,
                       lost>>
        /\ drain[f].pc = "begin"
        /\ drain' = [drain EXCEPT ![f].pc = IF draining THEN "off" ELSE "dequeue"]
    BY <1>2 DEF BeginDrain, history
  <2>2. WorkerDrains' /\ \A g \in Fibers : drain'[g].msg = drain[g].msg
    BY <2>1 DEF Typed, TypeOK, InPlace, WorkerDrains
  <2>3. QED BY <2>1, <2>2, Idle
<1>3. CASE EndTurn \/ Ingestion
  <2>1. /\ UNCHANGED <<sent, events, eventId, handled, pending, delivered, failed, dropped, lost,
                       drain>>
        /\ reactor'.msg = reactor.msg
        /\ reactor' = reactor \/ reactor.pc = "waiting"
    BY <1>3, IngestionSpares
       DEF EndTurn, Ingestion, IngestRuntimeEvent, DispatchSessionSet, history, Typed, TypeOK,
           ReactorPlaces
  <2>2. WorkerDrains'
    BY <2>1 DEF InPlace, WorkerDrains
  <2>3. QED BY <2>1, <2>2, Idle
<1>4. QED BY <1>1, <1>2, <1>3, DequeuePlaced, PromotePlaced, LosePlaced DEF Drain

\* A step keeps the invariant.
LEMMA StepPlaced ==
  ASSUME Typed, InPlace, Redelivered \cap Moves = {}, [Next]_vars
  PROVE  InPlace'
<1>1. CASE UNCHANGED vars
  <2>1. UNCHANGED <<sent, events, eventId, handled, pending, reactor, delivered, failed, dropped,
                    lost, drain>>
    BY <1>1 DEF vars, history
  <2>2. WorkerDrains'
    BY <2>1 DEF InPlace, WorkerDrains
  <2>3. QED BY <2>1, <2>2, Idle
<1>2. CASE Next
  BY <1>2, UserPlaced, WorkerPlaced, OtherPlaced DEF Next
<1>3. QED BY <1>1, <1>2

\* Initially no message was sent.
LEMMA InitPlaced ==
  ASSUME Init
  PROVE  InPlace
<1>1. /\ events = <<>> /\ pending = <<>> /\ delivered = <<>> /\ reactor.msg = NoMessage
      /\ sent = {} /\ handled = {} /\ failed = {} /\ dropped = {} /\ lost = {}
      /\ \A f \in Fibers : drain[f].msg = NoMessage /\ drain[f].pc = "off"
  BY DEF Init, Resting, NotDraining
<1>2. Elems(events) = {} /\ Elems(pending) = {} /\ Elems(delivered) = {}
  BY <1>1 DEF Elems
<1>3. ASSUME NEW m \in Messages
      PROVE  m # NoMessage
  BY TurnQueueAssumption DEF TurnQueueAssumption
<1>4. Single
  BY <1>1, <1>3 DEF Single, Alone, Distinct, StartedOnce
<1>5. Unhandled /\ WorkerDrains
  BY <1>1, <1>2 DEF Unhandled, WorkerDrains, Fibers
<1>6. ASSUME NEW m \in Messages
      PROVE  Placed(m)
  <2>1. At(m, "nowhere")
    BY <1>1, <1>2, <1>3 DEF At, Carried, Held, Delivered
  <2>2. QED BY <1>1, <2>1 DEF Placed, Stations
<1>7. QED BY <1>4, <1>5, <1>6 DEF InPlace

-----------------------------------------------------------------------------
(* What the invariant says of InOnePlace                                   *)

\* Each part of Places holds one element when the message is at its station
\* and none otherwise.
LEMMA Parts ==
  ASSUME InPlace, NEW m \in Messages
  PROVE  /\ \/ Carried(m) /\ \E p : {<<"event", i>> : i \in {j \in DOMAIN events :
                    events[j].msg = m /\ events[j].type \in {"queued", "start"}}} = {p}
            \/ ~Carried(m) /\ {<<"event", i>> : i \in {j \in DOMAIN events :
                    events[j].msg = m /\ events[j].type \in {"queued", "start"}}} = {}
         /\ \/ /\ m \in Elems(pending)
               /\ \E p : {<<"pending", i>> : i \in {j \in DOMAIN pending : pending[j] = m}} = {p}
            \/ /\ m \notin Elems(pending)
               /\ {<<"pending", i>> : i \in {j \in DOMAIN pending : pending[j] = m}} = {}
         /\ \/ /\ Held(m)
               /\ \E p : {<<"drain", f>> : f \in {g \in Fibers : drain[g].msg = m}} = {p}
            \/ /\ ~Held(m)
               /\ {<<"drain", f>> : f \in {g \in Fibers : drain[g].msg = m}} = {}
         /\ \/ /\ Delivered(m)
               /\ \E p : {<<"delivered", i>> : i \in {j \in DOMAIN delivered :
                                                        delivered[j].msg = m}} = {p}
            \/ /\ ~Delivered(m)
               /\ {<<"delivered", i>> : i \in {j \in DOMAIN delivered :
                                                  delivered[j].msg = m}} = {}
<1>1. Single
  BY DEF InPlace
<1>2. ASSUME Carried(m)
      PROVE  \E p : {<<"event", i>> : i \in {j \in DOMAIN events :
                        events[j].msg = m /\ events[j].type \in {"queued", "start"}}} = {p}
  <2>1. PICK k \in DOMAIN events : events[k].msg = m /\ events[k].type \in Moves
    BY <1>2 DEF Carried, Elems
  <2>2. {j \in DOMAIN events : events[j].msg = m /\ events[j].type \in {"queued", "start"}} = {k}
    BY <1>1, <2>1 DEF Single, Alone, Moves
  <2>3. {<<"event", i>> : i \in {j \in DOMAIN events :
          events[j].msg = m /\ events[j].type \in {"queued", "start"}}} = {<<"event", k>>}
    BY <2>2
  <2>4. QED BY <2>3
<1>3. ASSUME ~Carried(m)
      PROVE  {j \in DOMAIN events :
                events[j].msg = m /\ events[j].type \in {"queued", "start"}} = {}
  BY <1>3 DEF Carried, Elems, Moves
<1>4. ASSUME m \in Elems(pending)
      PROVE  \E p : {<<"pending", i>> : i \in {j \in DOMAIN pending : pending[j] = m}} = {p}
  <2>1. PICK k \in DOMAIN pending : pending[k] = m
    BY <1>4 DEF Elems
  <2>2. {j \in DOMAIN pending : pending[j] = m} = {k}
    BY <1>1, <2>1 DEF Single, Distinct
  <2>3. {<<"pending", i>> : i \in {j \in DOMAIN pending : pending[j] = m}} = {<<"pending", k>>}
    BY <2>2
  <2>4. QED BY <2>3
<1>5. ASSUME m \notin Elems(pending)
      PROVE  {j \in DOMAIN pending : pending[j] = m} = {}
  BY <1>5 DEF Elems
<1>6. ASSUME Held(m)
      PROVE  \E p : {<<"drain", f>> : f \in {g \in Fibers : drain[g].msg = m}} = {p}
  <2>1. PICK k \in Fibers : drain[k].msg = m
    BY <1>6 DEF Held
  <2>2. {g \in Fibers : drain[g].msg = m} = {k}
    BY <1>1, <2>1 DEF Single
  <2>3. {<<"drain", i>> : i \in {g \in Fibers : drain[g].msg = m}} = {<<"drain", k>>}
    BY <2>2
  <2>4. QED BY <2>3
<1>7. ASSUME ~Held(m)
      PROVE  {g \in Fibers : drain[g].msg = m} = {}
  BY <1>7 DEF Held
<1>8. ASSUME Delivered(m)
      PROVE  \E p : {<<"delivered", i>> : i \in {j \in DOMAIN delivered :
                                                   delivered[j].msg = m}} = {p}
  <2>1. PICK k \in DOMAIN delivered : delivered[k].msg = m
    BY <1>8 DEF Delivered, Elems
  <2>2. {j \in DOMAIN delivered : delivered[j].msg = m} = {k}
    BY <1>1, <2>1 DEF Single, StartedOnce
  <2>3. {<<"delivered", i>> : i \in {j \in DOMAIN delivered : delivered[j].msg = m}}
          = {<<"delivered", k>>}
    BY <2>2
  <2>4. QED BY <2>3
<1>9. ASSUME ~Delivered(m)
      PROVE  {j \in DOMAIN delivered : delivered[j].msg = m} = {}
  BY <1>9 DEF Delivered, Elems
<1>10. QED BY <1>2, <1>3, <1>4, <1>5, <1>6, <1>7, <1>8, <1>9

\* A message at one station is in one place.
LEMMA CountsOne ==
  ASSUME InPlace, NEW m \in Messages, m \in sent
  PROVE  Cardinality(Places(m)) = 1
<1> DEFINE E == {<<"event", i>> : i \in {j \in DOMAIN events :
                   events[j].msg = m /\ events[j].type \in {"queued", "start"}}}
           P == {<<"pending", i>> : i \in {j \in DOMAIN pending : pending[j] = m}}
           H == {<<"drain", f>> : f \in {g \in Fibers : drain[g].msg = m}}
           R == {<<"reactor", 0>> : x \in {y \in {0} : reactor.msg = m}}
           D == {<<"delivered", i>> : i \in {j \in DOMAIN delivered : delivered[j].msg = m}}
           F == {<<"failed", 0>> : x \in {y \in {0} : m \in failed}}
           X == {<<"dropped", 0>> : x \in {y \in {0} : m \in dropped}}
           L == {<<"lost", 0>> : x \in {y \in {0} : m \in lost}}
<1>1. Places(m) = E \cup P \cup H \cup R \cup D \cup F \cup X \cup L
  BY DEF Places
<1>2. /\ IF Carried(m) THEN \E p : E = {p} ELSE E = {}
      /\ IF m \in Elems(pending) THEN \E p : P = {p} ELSE P = {}
      /\ IF Held(m) THEN \E p : H = {p} ELSE H = {}
      /\ IF Delivered(m) THEN \E p : D = {p} ELSE D = {}
  BY Parts
<1>3. /\ IF reactor.msg = m THEN \E p : R = {p} ELSE R = {}
      /\ IF m \in failed THEN \E p : F = {p} ELSE F = {}
      /\ IF m \in dropped THEN \E p : X = {p} ELSE X = {}
      /\ IF m \in lost THEN \E p : L = {p} ELSE L = {}
  OBVIOUS
<1>4. PICK k \in Stations \ {"nowhere"} : At(m, k)
  BY DEF InPlace, Placed
<1> HIDE DEF E, P, H, R, D, F, X, L
<1>5. \E p : Places(m) = {p}
  <2>1. CASE k = "event"
    BY <1>1, <1>2, <1>3, <1>4, <2>1 DEF At
  <2>2. CASE k = "pending"
    BY <1>1, <1>2, <1>3, <1>4, <2>2 DEF At
  <2>3. CASE k = "drain"
    BY <1>1, <1>2, <1>3, <1>4, <2>3 DEF At
  <2>4. CASE k = "reactor"
    BY <1>1, <1>2, <1>3, <1>4, <2>4 DEF At
  <2>5. CASE k = "delivered"
    BY <1>1, <1>2, <1>3, <1>4, <2>5 DEF At
  <2>6. CASE k = "failed"
    BY <1>1, <1>2, <1>3, <1>4, <2>6 DEF At
  <2>7. CASE k = "dropped"
    BY <1>1, <1>2, <1>3, <1>4, <2>7 DEF At
  <2>8. CASE k = "lost"
    BY <1>1, <1>2, <1>3, <1>4, <2>8 DEF At
  <2>9. QED BY <1>4, <2>1, <2>2, <2>3, <2>4, <2>5, <2>6, <2>7, <2>8 DEF Stations
<1>6. QED BY <1>5, FS_Singleton

\* No interleaving of the two drains, the worker, a stop and the commands of
\* the user loses a message or copies one, whatever the engine and the
\* provider refuse: it is on its way, in the queue, in somebody's hands or
\* done with.
THEOREM NothingLost ==
  ASSUME Redelivered \cap Moves = {}
  PROVE  Spec => []InOnePlace
<1>1. Init => Typed /\ InPlace
  BY InitTypes, InitPlaced
<1>2. Typed /\ InPlace /\ [Next]_vars => Typed' /\ InPlace'
  BY StepTypes, StepPlaced
<1>3. Typed /\ InPlace => InOnePlace
  BY CountsOne DEF InOnePlace, Typed, TypeOK
<1>4. QED BY <1>1, <1>2, <1>3, PTL DEF Spec

-----------------------------------------------------------------------------
(* Queued messages are promoted in order                                   *)

\* Elements of a sequence are related to those behind them.
Ranked(s, R) == \A i, j \in DOMAIN s : i < j => <<s[i], s[j]>> \in R

\* One message joined the queue before another.
Precedes(x, y) == \E k, l \in DOMAIN arrived : k < l /\ arrived[k] = x /\ arrived[l] = y

\* A start that a promotion requests and that has not been handled.
Fresh(e) == e.type = "start" /\ e.promoted /\ e.id \notin handled

\* The way of a queued message that was not steered, from its end: accepted
\* by the provider, in the worker's hands, its start requested, in a drain's
\* hands, in the queue.
Stages == 1..5

\* The message is at this stage.
On(x, k) ==
  /\ x \notin Steered
  /\ \/ k = 1 /\ \E d \in Elems(delivered) : d.promoted /\ d.msg = x
     \/ k = 2 /\ reactor.pc = "sending" /\ reactor.promoted /\ reactor.msg = x
     \/ k = 3 /\ \E e \in Elems(events) : Fresh(e) /\ e.msg = x
     \/ k = 4 /\ \E f \in Fibers : drain[f].pc = "dispatch" /\ drain[f].msg = x
     \/ k = 5 /\ x \in Elems(pending)

\* Only one fiber drains, and while it does the thread is marked.
OneDrain ==
  /\ \A f, g \in Fibers : Promoting(f) /\ Promoting(g) => f = g
  /\ (\E f \in Fibers : Promoting(f)) => draining

\* What is further on its way joined the queue earlier.
InLine ==
  /\ \A k \in Stages : \A x \in Messages : On(x, k) => x \in Elems(arrived)
  /\ \A k, l \in Stages : k < l =>
       \A x, y \in Messages : On(x, k) /\ On(y, l) => Precedes(x, y)

\* The order of two messages that are queued, of two starts that are
\* requested, and of two deliveries.
QueueOrder ==
  {p \in Messages \X Messages : p[1] \notin Steered /\ p[2] \notin Steered => Precedes(p[1], p[2])}

StartOrder ==
  {p \in DomainEvents \X DomainEvents :
     /\ Fresh(p[1]) /\ Fresh(p[2]) /\ p[1].id # p[2].id
     /\ p[1].msg \notin Steered /\ p[2].msg \notin Steered
     => Precedes(p[1].msg, p[2].msg)}

Deliveries == [msg : Messages, promoted : BOOLEAN]

DeliveryOrder ==
  {p \in Deliveries \X Deliveries :
     /\ p[1].promoted /\ p[2].promoted
     /\ p[1].msg \notin Steered /\ p[2].msg \notin Steered
     => Precedes(p[1].msg, p[2].msg)}

\* The inductive invariant: at each stage, and from stage to stage, messages
\* are in the order in which they joined the queue.
Ordered ==
  ~unmarked => /\ OneDrain /\ InLine /\ Ranked(pending, QueueOrder)
               /\ Ranked(events, StartOrder) /\ Ranked(delivered, DeliveryOrder)

\* A wider relation.
LEMMA RankedMore ==
  ASSUME NEW s, NEW R, NEW Q, Ranked(s, R), R \subseteq Q
  PROVE  Ranked(s, Q)
BY DEF Ranked

\* A sequence of one element.
LEMMA RankedOne ==
  ASSUME NEW x, NEW R
  PROVE  Ranked(<<x>>, R)
<1>1. DOMAIN <<x>> = {1}
  OBVIOUS
<1>2. QED BY <1>1 DEF Ranked

\* One sequence follows another.
LEMMA RankedConcat ==
  ASSUME NEW S, NEW R, NEW s \in Seq(S), NEW t \in Seq(S), Ranked(s, R), Ranked(t, R),
         \A x \in Elems(s), y \in Elems(t) : <<x, y>> \in R
  PROVE  Ranked(s \o t, R)
<1> DEFINE u == s \o t
<1>1. /\ Len(u) = Len(s) + Len(t) /\ Len(s) \in Nat /\ Len(t) \in Nat
      /\ \A i \in 1..(Len(s) + Len(t)) : u[i] = IF i <= Len(s) THEN s[i] ELSE t[i - Len(s)]
      /\ DOMAIN u = 1..(Len(s) + Len(t)) /\ DOMAIN s = 1..Len(s) /\ DOMAIN t = 1..Len(t)
  BY ConcatProperties, LenProperties
<1> HIDE DEF u
<1>2. ASSUME NEW i \in DOMAIN u, NEW j \in DOMAIN u, i < j
      PROVE  <<u[i], u[j]>> \in R
  <2>1. CASE j <= Len(s)
    <3>1. i \in DOMAIN s /\ j \in DOMAIN s /\ u[i] = s[i] /\ u[j] = s[j]
      BY <1>1, <1>2, <2>1
    <3>2. QED BY <1>2, <3>1 DEF Ranked
  <2>2. CASE i <= Len(s) /\ ~(j <= Len(s))
    <3>1. i \in DOMAIN s /\ u[i] = s[i] /\ j - Len(s) \in DOMAIN t /\ u[j] = t[j - Len(s)]
      BY <1>1, <1>2, <2>2
    <3>2. u[i] \in Elems(s) /\ u[j] \in Elems(t)
      BY <3>1 DEF Elems
    <3>3. QED BY <3>2
  <2>3. CASE ~(i <= Len(s))
    <3>1. /\ i - Len(s) \in DOMAIN t /\ u[i] = t[i - Len(s)]
          /\ j - Len(s) \in DOMAIN t /\ u[j] = t[j - Len(s)]
          /\ i - Len(s) < j - Len(s)
      BY <1>1, <1>2, <2>3
    <3>2. QED BY <3>1 DEF Ranked
  <2>4. QED BY <1>1, <1>2, <2>1, <2>2, <2>3
<1>3. QED BY <1>2 DEF Ranked, u

\* The head leaves a sequence.
LEMMA RankedTail ==
  ASSUME NEW S, NEW R, NEW s \in Seq(S), s # <<>>, Ranked(s, R)
  PROVE  Ranked(Tail(s), R) /\ \A y \in Elems(Tail(s)) : <<Head(s), y>> \in R
<1> DEFINE t == Tail(s)
<1>1. /\ Head(s) = s[1] /\ Len(t) = Len(s) - 1 /\ Len(s) \in Nat
      /\ Len(s) # 0 /\ \A i \in 1..Len(t) : t[i] = s[i + 1]
      /\ DOMAIN t = 1..(Len(s) - 1) /\ DOMAIN s = 1..Len(s)
  BY HeadTailProperties, LenProperties, EmptySeq
<1> HIDE DEF t
<1>2. \A i \in DOMAIN t : t[i] = s[i + 1] /\ i + 1 \in DOMAIN s /\ 1 < i + 1 /\ 1 \in DOMAIN s
  BY <1>1
<1>3. Ranked(t, R)
  <2>1. ASSUME NEW i \in DOMAIN t, NEW j \in DOMAIN t, i < j
        PROVE  <<t[i], t[j]>> \in R
    <3>1. i + 1 < j + 1
      BY <1>1, <2>1
    <3>2. QED BY <1>2, <3>1 DEF Ranked
  <2>2. QED BY <2>1 DEF Ranked
<1>4. ASSUME NEW y \in Elems(t)
      PROVE  <<s[1], y>> \in R
  <2>1. PICK i \in DOMAIN t : y = t[i]
    BY DEF Elems
  <2>2. QED BY <1>2, <2>1 DEF Ranked
<1>5. QED BY <1>1, <1>3, <1>4 DEF t

\* The orders only grow while nothing joins the queue and starts are handled.
LEMMA OrdersKept ==
  ASSUME UNCHANGED arrived, handled \subseteq handled'
  PROVE  QueueOrder' = QueueOrder /\ StartOrder \subseteq StartOrder'
         /\ DeliveryOrder' = DeliveryOrder
<1>1. \A x, y : Precedes(x, y)' <=> Precedes(x, y)
  BY DEF Precedes
<1>2. \A e : Fresh(e)' => Fresh(e)
  BY DEF Fresh
<1>3. QueueOrder' = QueueOrder /\ DeliveryOrder' = DeliveryOrder
  BY <1>1 DEF QueueOrder, DeliveryOrder
<1>4. StartOrder \subseteq StartOrder'
  BY <1>1, <1>2 DEF StartOrder
<1>5. QED BY <1>3, <1>4

\* No message moves, or messages vanish from where they were.
LEMMA StaysInLine ==
  ASSUME InLine, UNCHANGED arrived,
         \A k \in Stages : \A x \in Messages : On(x, k)' => On(x, k)
  PROVE  InLine'
BY DEF InLine, Precedes

\* A message that goes one stage on, ahead of those it leaves behind.
LEMMA MovesInLine ==
  ASSUME InLine, UNCHANGED arrived, NEW k \in 1..4, NEW m \in Messages, On(m, k + 1),
         \A l \in Stages : \A x \in Messages : On(x, l)' => On(x, l) \/ (l = k /\ x = m),
         \A y \in Messages : On(y, k + 1)' => Precedes(m, y)
  PROVE  InLine'
<1>1. k \in Stages /\ k + 1 \in Stages
  BY DEF Stages
<1>2. \A x, y : Precedes(x, y)' <=> Precedes(x, y)
  BY DEF Precedes
<1>3. ASSUME NEW l \in Stages, NEW x \in Messages, On(x, l)'
      PROVE  x \in Elems(arrived)'
  <2>1. On(x, l) \/ On(x, k + 1)
    BY <1>3
  <2>2. QED BY <1>1, <2>1 DEF InLine
<1>4. ASSUME NEW a \in Stages, NEW b \in Stages, a < b, NEW x \in Messages, NEW y \in Messages,
             On(x, a)', On(y, b)'
      PROVE  Precedes(x, y)'
  <2>1. CASE a = k /\ x = m
    <3>1. CASE b = k + 1
      BY <1>2, <1>4, <2>1, <3>1
    <3>2. CASE b # k + 1
      <4>1. k + 1 < b /\ On(y, b)
        BY <1>4, <2>1, <3>2 DEF Stages
      <4>2. QED BY <1>1, <1>2, <2>1, <4>1 DEF InLine
    <3>3. QED BY <3>1, <3>2
  <2>2. CASE ~(a = k /\ x = m)
    <3>1. On(x, a)
      BY <1>4, <2>2
    <3>2. CASE b = k /\ y = m
      <4>1. a < k + 1
        BY <1>4, <3>2 DEF Stages
      <4>2. QED BY <1>1, <1>2, <3>1, <3>2, <4>1 DEF InLine
    <3>3. CASE ~(b = k /\ y = m)
      <4>1. On(y, b)
        BY <1>4, <3>3
      <4>2. QED BY <1>2, <1>4, <3>1, <4>1 DEF InLine
    <3>4. QED BY <3>2, <3>3
  <2>3. QED BY <2>1, <2>2
<1>5. QED BY <1>3, <1>4 DEF InLine

\* Steps in which no message moves on and none joins the queue.
LEMMA NoMove ==
  ASSUME Ordered, UNCHANGED <<arrived, pending, delivered, unmarked>>, handled \subseteq handled',
         \/ reactor' = reactor
         \/ reactor'.pc # "sending"
         \/ ~reactor'.promoted,
         \A e \in Elems(events') : Fresh(e)' => e \in Elems(events),
         \A f \in Fibers : drain'[f].pc = "dispatch" => drain'[f] = drain[f],
         OneDrain => OneDrain',
         Ranked(events, StartOrder) => Ranked(events', StartOrder)
  PROVE  Ordered'
<1> SUFFICES ASSUME ~unmarked'
             PROVE  /\ OneDrain' /\ InLine' /\ Ranked(pending, QueueOrder)'
                    /\ Ranked(events, StartOrder)' /\ Ranked(delivered, DeliveryOrder)'
  BY DEF Ordered
<1>1. /\ OneDrain /\ InLine /\ Ranked(pending, QueueOrder)
      /\ Ranked(events, StartOrder) /\ Ranked(delivered, DeliveryOrder)
  BY DEF Ordered
<1>2. QueueOrder' = QueueOrder /\ StartOrder \subseteq StartOrder' /\ DeliveryOrder' = DeliveryOrder
  BY OrdersKept
<1>3. ASSUME NEW k \in Stages, NEW x \in Messages, On(x, k)'
      PROVE  On(x, k)
  <2>1. \A e : Fresh(e)' => Fresh(e)
    BY DEF Fresh
  <2>2. QED BY <1>3, <2>1 DEF On
<1>4. InLine'
  BY <1>1, <1>3, StaysInLine
<1>5. Ranked(events', StartOrder')
  BY <1>1, <1>2, RankedMore
<1>6. QED BY <1>1, <1>2, <1>4, <1>5

\* Events that are no promotions are published.
LEMMA PlainEvents ==
  ASSUME Typed, Ranked(events, StartOrder), UNCHANGED handled,
         NEW t \in Seq(DomainEvents), \A e \in Elems(t) : ~e.promoted, events' = events \o t
  PROVE  /\ Ranked(events', StartOrder)
         /\ \A e \in Elems(events') : Fresh(e)' => e \in Elems(events)
<1>1. events \in Seq(DomainEvents)
  BY DEF Typed, TypeOK
<1>2. \A s \in Seq(DomainEvents) : \A e \in Elems(s) : e \in DomainEvents
  BY DEF Elems
<1>3. \A x \in DomainEvents, y \in Elems(t) : <<x, y>> \in StartOrder
  BY <1>2 DEF StartOrder, Fresh
<1>4. Ranked(t, StartOrder)
  <2>1. \A i \in DOMAIN t : t[i] \in Elems(t) /\ t[i] \in DomainEvents
    BY <1>2 DEF Elems
  <2>2. QED BY <1>3, <2>1 DEF Ranked
<1>5. Ranked(events \o t, StartOrder)
  BY <1>1, <1>2, <1>3, <1>4, RankedConcat
<1>6. Elems(events') = Elems(events) \cup Elems(t)
  BY <1>1, OnConcat
<1>7. QED BY <1>5, <1>6 DEF Fresh

\* The worker takes an event.
LEMMA TakesInLine ==
  ASSUME Typed, NEW type, NextEvent(type)
  PROVE  /\ Elems(events') \subseteq Elems(events) /\ Head(events) \in Elems(events)
         /\ Ranked(events, StartOrder) =>
              /\ Ranked(events', StartOrder)
              /\ \A e \in Elems(events') : <<Head(events), e>> \in StartOrder
<1>1. events \in Seq(DomainEvents) /\ events # <<>> /\ events' = Tail(events)
  BY DEF Typed, TypeOK, NextEvent
<1>2. QED BY <1>1, RankedTail, TakesEvent

\* The commands of the user and the redelivery of an event.
LEMMA UserInLine ==
  ASSUME Typed, Ordered, (\E m \in Messages : SendMessage(m)) \/ StopSession \/ Redeliver
  PROVE  Ordered'
<1>1. events \in Seq(DomainEvents) /\ eventId + 1 \in Nat
  BY DEF Typed, TypeOK
<1>2. UNCHANGED <<arrived, pending, delivered, unmarked, handled, reactor, drain, draining>>
  BY DEF SendMessage, StopSession, Redeliver, history
<1>3. OneDrain => OneDrain'
  BY <1>2 DEF OneDrain, Promoting
<1>4. ASSUME NEW t \in Seq(DomainEvents), \A e \in Elems(t) : ~e.promoted, events' = events \o t
      PROVE  Ordered'
  <2>1. Ranked(events, StartOrder) => Ranked(events', StartOrder)
    BY <1>2, <1>4, PlainEvents
  <2>2. \A e \in Elems(events') : Fresh(e)' => e \in Elems(events)
    <3>1. Elems(events') = Elems(events) \cup Elems(t)
      BY <1>1, <1>4, OnConcat
    <3>2. QED BY <1>4, <3>1 DEF Fresh
  <2>3. QED BY <1>2, <1>3, <2>1, <2>2, NoMove
<1>5. ASSUME NEW m \in Messages, SendMessage(m)
      PROVE  Ordered'
  <2> DEFINE a == Event("start", m, FALSE, eventId + 1)
             b == Event("queued", m, FALSE, eventId + 1)
             c == Event("interrupt", m, FALSE, eventId + 1)
  <2>1. /\ a \in DomainEvents /\ b \in DomainEvents /\ c \in DomainEvents
        /\ ~a.promoted /\ ~b.promoted /\ ~c.promoted
    BY <1>1 DEF Event, DomainEvents, Turns
  <2>2. events' \in {events \o <<a>>, events \o <<b>>, events \o <<b, c>>}
    BY <1>5 DEF SendMessage, Dispatched
  <2> HIDE DEF a, b, c
  <2>3. \A t \in {<<a>>, <<b>>, <<b, c>>} :
          t \in Seq(DomainEvents) /\ \A e \in Elems(t) : e \in {a, b, c}
    <3>1. /\ <<a>> \in Seq(DomainEvents) /\ Elems(<<a>>) = {a}
          /\ <<b>> \in Seq(DomainEvents) /\ Elems(<<b>>) = {b}
      BY <2>1, OneEvent
    <3>2. <<b, c>> \in Seq(DomainEvents) /\ Elems(<<b, c>>) = {b, c}
      BY <2>1, TwoEvents, c.type \notin {}
    <3>3. QED BY <3>1, <3>2
  <2>4. PICK t \in {<<a>>, <<b>>, <<b, c>>} : events' = events \o t
    BY <2>2
  <2>5. t \in Seq(DomainEvents) /\ \A e \in Elems(t) : ~e.promoted
    BY <2>1, <2>3, <2>4
  <2>6. QED BY <1>4, <2>4, <2>5
<1>6. CASE StopSession
  <2>1. PICK e : e = Event("stop", NoMessage, FALSE, eventId + 1)
    OBVIOUS
  <2>2. e \in DomainEvents /\ ~e.promoted /\ events' = events \o <<e>>
    BY <1>1, <1>6, <2>1 DEF StopSession, Dispatched, Event, DomainEvents, Turns
  <2>3. <<e>> \in Seq(DomainEvents) /\ Elems(<<e>>) = {e}
    BY <2>2, OneEvent
  <2>4. QED BY <1>4, <2>2, <2>3
<1>7. CASE Redeliver
  <2>1. PICK e : e = events[Len(events)]
    OBVIOUS
  <2>2. /\ e \in DomainEvents /\ events' = Append(events, e) /\ e \in Elems(events)
        /\ Len(events) \in DOMAIN events /\ Len(events) \in Nat /\ DOMAIN events = 1..Len(events)
    BY <1>1, <1>7, <2>1, LenProperties, EmptySeq DEF Redeliver, Elems
  <2>3. <<e>> \in Seq(DomainEvents) /\ Elems(<<e>>) = {e} /\ events' = events \o <<e>>
    BY <1>1, <2>2, OneEvent, AppendIsConcat
  <2>4. ASSUME Ranked(events, StartOrder)
        PROVE  Ranked(events', StartOrder)
    <3>1. ASSUME NEW x \in Elems(events)
          PROVE  <<x, e>> \in StartOrder
      <4>1. PICK i \in DOMAIN events : x = events[i]
        BY DEF Elems
      <4>2. CASE i = Len(events)
        <5>1. x.id = e.id /\ x \in DomainEvents
          BY <2>1, <2>2, <4>1, <4>2
        <5>2. QED BY <2>2, <5>1 DEF StartOrder
      <4>3. CASE i # Len(events)
        <5>1. i < Len(events)
          BY <2>2, <4>1, <4>3
        <5>2. QED BY <2>1, <2>2, <2>4, <4>1, <5>1 DEF Ranked
      <4>4. QED BY <4>2, <4>3
    <3>2. Ranked(<<e>>, StartOrder)
      BY RankedOne
    <3>3. \A x \in Elems(events), y \in Elems(<<e>>) : <<x, y>> \in StartOrder
      BY <2>3, <3>1
    <3>4. QED BY <1>1, <2>3, <2>4, <3>2, <3>3, RankedConcat
  <2>5. Elems(events') = Elems(events)
    <3>1. Elems(events \o <<e>>) = Elems(events) \cup {e}
      BY <1>1, <2>2, AddsOne
    <3>2. QED BY <2>2, <2>3, <3>1
  <2>6. \A x \in Elems(events') : Fresh(x)' => x \in Elems(events)
    BY <2>5
  <2>7. Ranked(events, StartOrder) => Ranked(events', StartOrder)
    BY <2>4
  <2>8. QED BY <1>2, <1>3, <2>6, <2>7, NoMove
<1>8. QED BY <1>5, <1>6, <1>7

\* A queued message joins the queue, behind all that joined it before; a
\* steered one overtakes them.
LEMMA QueuedInLine ==
  ASSUME Typed, Ordered, ProcessTurnQueued
  PROVE  Ordered'
<1> SUFFICES ASSUME ~unmarked'
             PROVE  /\ OneDrain' /\ InLine' /\ Ranked(pending, QueueOrder)'
                    /\ Ranked(events, StartOrder)' /\ Ranked(delivered, DeliveryOrder)'
  BY DEF Ordered
<1>1. PICK m : m = Head(events).msg
  OBVIOUS
<1>2. /\ pending' = Enqueue(m) /\ arrived' = Append(arrived, m) /\ NextEvent("queued")
      /\ UNCHANGED <<handled, reactor, delivered, drain, draining, unmarked>>
  BY <1>1 DEF ProcessTurnQueued
<1>3. /\ OneDrain /\ InLine /\ Ranked(pending, QueueOrder)
      /\ Ranked(events, StartOrder) /\ Ranked(delivered, DeliveryOrder)
  BY <1>2 DEF Ordered
<1>4. m \in Messages /\ pending \in Seq(Messages) /\ arrived \in Seq(Messages)
  BY <1>1, <1>2, TakesEvent DEF Moves, Typed, TypeOK
<1>5. /\ Elems(events') \subseteq Elems(events) /\ Ranked(events', StartOrder)
      /\ Elems(pending') = Elems(pending) \cup {m}
  BY <1>2, <1>3, <1>4, TakesInLine, Enqueues
<1>6. /\ Elems(arrived') = Elems(arrived) \cup {m}
      /\ \A x, y : Precedes(x, y) => Precedes(x, y)'
      /\ \A x \in Elems(arrived) : Precedes(x, m)'
  <2>1. /\ Len(arrived') = Len(arrived) + 1 /\ Len(arrived) \in Nat
        /\ \A i \in 1..Len(arrived) : arrived'[i] = arrived[i]
        /\ arrived'[Len(arrived) + 1] = m
        /\ DOMAIN arrived' = 1..(Len(arrived) + 1) /\ DOMAIN arrived = 1..Len(arrived)
    BY <1>2, <1>4, AppendProperties, LenProperties
  <2>2. \A i \in DOMAIN arrived : /\ i \in DOMAIN arrived' /\ arrived'[i] = arrived[i]
                                  /\ Len(arrived) + 1 \in DOMAIN arrived' /\ i < Len(arrived) + 1
    BY <2>1
  <2>3. Elems(arrived') = Elems(arrived) \cup {m}
    BY <1>2, <1>4, OnAppend
  <2>4. \A x, y : Precedes(x, y) => Precedes(x, y)'
    BY <2>2 DEF Precedes
  <2>5. \A x \in Elems(arrived) : Precedes(x, m)'
    BY <2>1, <2>2 DEF Precedes, Elems
  <2>6. QED BY <2>3, <2>4, <2>5
<1>7. QueueOrder \subseteq QueueOrder' /\ StartOrder \subseteq StartOrder'
      /\ DeliveryOrder \subseteq DeliveryOrder'
  <2>1. \A e : Fresh(e)' <=> Fresh(e)
    BY <1>2 DEF Fresh
  <2>2. QED BY <1>6, <2>1 DEF QueueOrder, StartOrder, DeliveryOrder
<1>8. ASSUME NEW k \in Stages, NEW x \in Messages, On(x, k)'
      PROVE  x \notin Steered /\ (On(x, k) \/ (k = 5 /\ x = m))
  <2>1. \A e : Fresh(e)' <=> Fresh(e)
    BY <1>2 DEF Fresh
  <2>2. QED BY <1>2, <1>5, <1>8, <2>1 DEF On
<1>9. InLine'
  <2>1. ASSUME NEW k \in Stages, NEW x \in Messages, On(x, k)'
        PROVE  x \in Elems(arrived)'
    BY <1>3, <1>6, <1>8, <2>1 DEF InLine
  <2>2. ASSUME NEW k \in Stages, NEW l \in Stages, k < l, NEW x \in Messages, NEW y \in Messages,
               On(x, k)', On(y, l)'
        PROVE  Precedes(x, y)'
    <3>1. On(x, k)
      BY <1>8, <2>2 DEF Stages
    <3>2. CASE On(y, l)
      BY <1>3, <1>6, <2>2, <3>1, <3>2 DEF InLine
    <3>3. CASE y = m
      BY <1>3, <1>6, <3>1, <3>3 DEF InLine
    <3>4. QED BY <1>8, <2>2, <3>2, <3>3
  <2>3. QED BY <2>1, <2>2 DEF InLine
<1>10. Ranked(pending', QueueOrder')
  <2>1. Ranked(pending, QueueOrder') /\ Ranked(<<m>>, QueueOrder') /\ <<m>> \in Seq(Messages)
        /\ Elems(<<m>>) = {m}
    BY <1>3, <1>4, <1>7, RankedMore, RankedOne DEF Elems
  <2>2. \A x \in Elems(pending) : x \in Messages /\ (x \notin Steered => On(x, 5))
    BY <1>4 DEF On, Elems
  <2>3. \A x \in Elems(pending) : x \notin Steered => x \in Elems(arrived)
    BY <1>3, <2>2 DEF InLine, Stages
  <2>4. CASE m \in Steered
    <3>1. \A x \in Elems(<<m>>), y \in Elems(pending) : <<x, y>> \in QueueOrder'
      BY <1>4, <2>1, <2>2, <2>4 DEF QueueOrder
    <3>2. QED BY <1>2, <1>4, <2>1, <2>4, <3>1, RankedConcat DEF Enqueue
  <2>5. CASE m \notin Steered
    <3>1. \A x \in Elems(pending), y \in Elems(<<m>>) : <<x, y>> \in QueueOrder'
      BY <1>4, <1>6, <2>1, <2>2, <2>3 DEF QueueOrder
    <3>2. pending' = pending \o <<m>>
      BY <1>2, <1>4, <2>5, AppendIsConcat DEF Enqueue
    <3>3. QED BY <1>4, <2>1, <3>1, <3>2, RankedConcat
  <2>6. QED BY <2>4, <2>5
<1>11. Ranked(events', StartOrder') /\ Ranked(delivered', DeliveryOrder')
  BY <1>2, <1>3, <1>5, <1>7, RankedMore
<1>12. OneDrain'
  BY <1>2, <1>3 DEF OneDrain, Promoting
<1>13. QED BY <1>9, <1>10, <1>11, <1>12

\* A start is handled: that of a promotion puts its message in the worker's
\* hands, where there was none.
LEMMA StartInLine ==
  ASSUME Typed, Ordered, ProcessTurnStartRequested
  PROVE  Ordered'
<1>1. PICK h : h = Head(events)
  OBVIOUS
<1>2. /\ NextEvent("start") /\ handled' = handled \cup {h.id}
      /\ \/ reactor' = reactor
         \/ /\ h.id \notin handled
            /\ reactor' = [pc |-> "sending", msg |-> h.msg, promoted |-> h.promoted]
      /\ UNCHANGED <<arrived, pending, delivered, unmarked, drain, draining>>
  BY <1>1 DEF ProcessTurnStartRequested, FirstHandled, history
<1>3. /\ Elems(events') \subseteq Elems(events) /\ h \in Elems(events)
      /\ h \in DomainEvents /\ h.type = "start" /\ h.msg \in Messages
      /\ Ranked(events, StartOrder) =>
           /\ Ranked(events', StartOrder)
           /\ \A e \in Elems(events') : <<h, e>> \in StartOrder
  BY <1>1, <1>2, TakesInLine, TakesEvent DEF Moves
<1>4. handled \subseteq handled' /\ (OneDrain => OneDrain')
      /\ (Ranked(events, StartOrder) => Ranked(events', StartOrder))
      /\ \A e \in Elems(events') : Fresh(e)' => e \in Elems(events)
  BY <1>2, <1>3 DEF OneDrain, Promoting
<1>5. CASE reactor' = reactor \/ ~h.promoted
  <2>1. reactor' = reactor \/ ~reactor'.promoted
    BY <1>2, <1>5
  <2>2. QED BY <1>2, <1>4, <2>1, NoMove
<1>6. CASE h.promoted /\ h.id \notin handled
           /\ reactor' = [pc |-> "sending", msg |-> h.msg, promoted |-> h.promoted]
  <2> SUFFICES ASSUME ~unmarked'
               PROVE  /\ OneDrain' /\ InLine' /\ Ranked(pending, QueueOrder)'
                      /\ Ranked(events, StartOrder)' /\ Ranked(delivered, DeliveryOrder)'
    BY DEF Ordered
  <2>1. /\ OneDrain /\ InLine /\ Ranked(pending, QueueOrder)
        /\ Ranked(events, StartOrder) /\ Ranked(delivered, DeliveryOrder)
    BY <1>2 DEF Ordered
  <2>2. /\ QueueOrder' = QueueOrder /\ StartOrder \subseteq StartOrder'
        /\ DeliveryOrder' = DeliveryOrder
    BY <1>2, <1>4, OrdersKept
  <2>3. Ranked(events', StartOrder')
    BY <1>4, <2>1, <2>2, RankedMore
  <2>4. \A e : Fresh(e)' => Fresh(e) /\ e.id # h.id
    BY <1>2 DEF Fresh
  <2>5. ASSUME NEW k \in Stages, NEW x \in Messages, On(x, k)'
        PROVE  On(x, k) \/ (k = 2 /\ x = h.msg /\ h.msg \notin Steered)
    BY <1>2, <1>3, <1>6, <2>4, <2>5 DEF On
  <2>6. InLine'
    <3>1. CASE h.msg \in Steered
      <4>1. \A k \in Stages : \A x \in Messages : On(x, k)' => On(x, k)
        BY <2>5, <3>1
      <4>2. QED BY <1>2, <2>1, <4>1, StaysInLine
    <3>2. CASE h.msg \notin Steered
      <4>1. On(h.msg, 3)
        BY <1>3, <1>6, <3>2 DEF On, Fresh
      <4>2. ASSUME NEW y \in Messages, On(y, 3)'
            PROVE  Precedes(h.msg, y)
        <5>1. PICK e \in Elems(events') : Fresh(e)' /\ e.msg = y /\ y \notin Steered
          BY <4>2 DEF On
        <5>2. <<h, e>> \in StartOrder /\ Fresh(h) /\ Fresh(e) /\ h.id # e.id
          BY <1>3, <1>6, <2>1, <2>4, <5>1 DEF Fresh
        <5>3. QED BY <3>2, <5>1, <5>2 DEF StartOrder
      <4>3. \A l \in Stages : \A x \in Messages : On(x, l)' => On(x, l) \/ (l = 2 /\ x = h.msg)
        BY <2>5
      <4>4. 2 \in 1..4 /\ 2 + 1 = 3
        OBVIOUS
      <4>5. On(h.msg, 2 + 1) /\ \A y \in Messages : On(y, 2 + 1)' => Precedes(h.msg, y)
        BY <4>1, <4>2, <4>4
      <4>6. QED BY <1>2, <1>3, <2>1, <4>3, <4>4, <4>5, MovesInLine
    <3>3. QED BY <3>1, <3>2
  <2>7. QED BY <1>2, <1>4, <2>1, <2>2, <2>3, <2>6
<1>7. QED BY <1>2, <1>5, <1>6

\* The provider takes the message.
LEMMA SendInLine ==
  ASSUME Typed, Ordered, SendTurn
  PROVE  Ordered'
<1> SUFFICES ASSUME ~unmarked'
             PROVE  /\ OneDrain' /\ InLine' /\ Ranked(pending, QueueOrder)'
                    /\ Ranked(events, StartOrder)' /\ Ranked(delivered, DeliveryOrder)'
  BY DEF Ordered
<1>1. PICK m, d : m = reactor.msg /\ d = [msg |-> m, promoted |-> reactor.promoted]
  OBVIOUS
<1>2. /\ delivered' = Append(delivered, d) /\ reactor.pc = "sending" /\ reactor'.pc = "idle"
      /\ UNCHANGED <<arrived, pending, events, handled, unmarked, drain, draining>>
  BY <1>1 DEF SendTurn, Resting
<1>3. /\ m \in Messages /\ d \in Deliveries /\ d.msg = m /\ d.promoted = reactor.promoted
      /\ delivered \in Seq(Deliveries)
  BY <1>1, <1>2 DEF Typed, TypeOK, Known, Deliveries
<1>4. /\ OneDrain /\ InLine /\ Ranked(pending, QueueOrder)
      /\ Ranked(events, StartOrder) /\ Ranked(delivered, DeliveryOrder)
  BY <1>2 DEF Ordered
<1>5. QueueOrder' = QueueOrder /\ StartOrder \subseteq StartOrder' /\ DeliveryOrder' = DeliveryOrder
  BY <1>2, OrdersKept
<1>6. Elems(delivered') = Elems(delivered) \cup {d}
  BY <1>2, <1>3, OnAppend
<1>7. Ranked(delivered', DeliveryOrder)
  <2>1. <<d>> \in Seq(Deliveries) /\ Elems(<<d>>) = {d} /\ delivered' = delivered \o <<d>>
    BY <1>2, <1>3, AppendIsConcat DEF Elems
  <2>2. ASSUME NEW x \in Elems(delivered)
        PROVE  <<x, d>> \in DeliveryOrder
    <3>1. x \in Deliveries
      BY <1>3 DEF Elems
    <3>2. CASE x.promoted /\ d.promoted /\ x.msg \notin Steered /\ m \notin Steered
      <4>1. On(x.msg, 1) /\ On(m, 2) /\ x.msg \in Messages
        BY <1>1, <1>2, <1>3, <3>1, <3>2 DEF On, Deliveries
      <4>2. 1 \in Stages /\ 2 \in Stages /\ 1 < 2
        BY DEF Stages
      <4>3. Precedes(x.msg, m)
        BY <1>3, <1>4, <4>1, <4>2 DEF InLine
      <4>4. QED BY <1>3, <3>1, <4>3 DEF DeliveryOrder
    <3>3. CASE ~(x.promoted /\ d.promoted /\ x.msg \notin Steered /\ m \notin Steered)
      BY <1>3, <3>1, <3>3 DEF DeliveryOrder
    <3>4. QED BY <3>2, <3>3
  <2>3. Ranked(<<d>>, DeliveryOrder)
    BY RankedOne
  <2>4. \A x \in Elems(delivered), y \in Elems(<<d>>) : <<x, y>> \in DeliveryOrder
    BY <2>1, <2>2
  <2>5. QED BY <1>3, <1>4, <2>1, <2>3, <2>4, RankedConcat
<1>8. ASSUME NEW k \in Stages, NEW x \in Messages, On(x, k)'
      PROVE  (On(x, k) /\ k # 2) \/ (k = 1 /\ x = m /\ On(m, 2))
  <2>1. \A e : Fresh(e)' <=> Fresh(e)
    BY <1>2 DEF Fresh
  <2>2. QED BY <1>1, <1>2, <1>3, <1>6, <1>8, <2>1 DEF On
<1>9. InLine'
  <2>1. CASE On(m, 2)
    <3>1. 1 \in 1..4 /\ 1 + 1 = 2 /\ 2 \in Stages
      BY DEF Stages
    <3>2. \A l \in Stages : \A x \in Messages : On(x, l)' => On(x, l) \/ (l = 1 /\ x = m)
      BY <1>8
    <3>3. \A y \in Messages : On(y, 2)' => Precedes(m, y)
      BY <1>8, <3>1
    <3>4. On(m, 1 + 1) /\ \A y \in Messages : On(y, 1 + 1)' => Precedes(m, y)
      BY <2>1, <3>1, <3>3
    <3>5. QED BY <1>2, <1>3, <1>4, <3>1, <3>2, <3>4, MovesInLine
  <2>2. CASE ~On(m, 2)
    <3>1. \A l \in Stages : \A x \in Messages : On(x, l)' => On(x, l)
      BY <1>8, <2>2
    <3>2. QED BY <1>2, <1>4, <3>1, StaysInLine
  <2>3. QED BY <2>1, <2>2
<1>10. OneDrain'
  BY <1>2, <1>4 DEF OneDrain, Promoting
<1>11. Ranked(events', StartOrder')
  BY <1>2, <1>4, <1>5, RankedMore
<1>12. QED BY <1>2, <1>4, <1>5, <1>7, <1>9, <1>10, <1>11

\* A stop drops the queue; a drain that is running ends the order.
LEMMA StopInLine ==
  ASSUME Typed, Ordered, ProcessSessionStopRequested
  PROVE  Ordered'
<1> SUFFICES ASSUME ~unmarked'
             PROVE  /\ OneDrain' /\ InLine' /\ Ranked(pending, QueueOrder)'
                    /\ Ranked(events, StartOrder)' /\ Ranked(delivered, DeliveryOrder)'
  BY DEF Ordered
<1>1. /\ NextEvent("stop") /\ pending' = <<>> /\ reactor'.pc # "sending"
      /\ unmarked' = (unmarked \/ \E f \in Fibers : Promoting(f))
      /\ UNCHANGED <<arrived, delivered, handled, drain>>
  BY StopsAt DEF ProcessSessionStopRequested
<1>2. /\ OneDrain /\ InLine /\ Ranked(pending, QueueOrder)
      /\ Ranked(events, StartOrder) /\ Ranked(delivered, DeliveryOrder)
  BY <1>1 DEF Ordered
<1>3. QueueOrder' = QueueOrder /\ StartOrder \subseteq StartOrder' /\ DeliveryOrder' = DeliveryOrder
  BY <1>1, OrdersKept
<1>4. Elems(events') \subseteq Elems(events) /\ Ranked(events', StartOrder)
  BY <1>1, <1>2, TakesInLine
<1>5. Elems(pending') = {} /\ Ranked(pending', QueueOrder)
  BY <1>1 DEF Elems, Ranked
<1>6. ASSUME NEW k \in Stages, NEW x \in Messages, On(x, k)'
      PROVE  On(x, k)
  <2>1. \A e : Fresh(e)' <=> Fresh(e)
    BY <1>1 DEF Fresh
  <2>2. QED BY <1>1, <1>4, <1>5, <1>6, <2>1 DEF On
<1>7. InLine'
  BY <1>1, <1>2, <1>6, StaysInLine
<1>8. OneDrain'
  BY <1>1 DEF OneDrain, Promoting
<1>9. Ranked(events', StartOrder')
  BY <1>3, <1>4, RankedMore
<1>10. QED BY <1>1, <1>2, <1>3, <1>5, <1>7, <1>8, <1>9

\* The worker's handlers.
LEMMA WorkerInLine ==
  ASSUME Typed, Ordered, Worker \/ SendTurnFails
  PROVE  Ordered'
<1>1. CASE ProcessTurnInterruptRequested
  <2>1. UNCHANGED <<arrived, pending, delivered, unmarked, handled, reactor, drain, draining>>
        /\ NextEvent("interrupt")
    BY <1>1 DEF ProcessTurnInterruptRequested, history
  <2>2. OneDrain => OneDrain'
    BY <2>1 DEF OneDrain, Promoting
  <2>3. /\ \A e \in Elems(events') : Fresh(e)' => e \in Elems(events)
        /\ Ranked(events, StartOrder) => Ranked(events', StartOrder)
    BY <2>1, TakesInLine
  <2>4. QED BY <2>1, <2>2, <2>3, NoMove
<1>2. CASE CloseOpenTurn \/ ResumeWorker \/ SetSessionStopped \/ SendTurnFails
  <2>1. /\ UNCHANGED <<arrived, events, handled, pending, delivered, draining, unmarked>>
        /\ reactor' = reactor \/ reactor'.pc # "sending"
        /\ \/ drain' = drain
           \/ drain' = [drain EXCEPT !["worker"] = [pc |-> "begin", msg |-> NoMessage]]
    BY <1>2 DEF CloseOpenTurn, ResumeWorker, SetSessionStopped, SendTurnFails, Resting, NotDraining,
                history
  <2>2. \A f \in Fibers : drain'[f] = drain[f] \/ drain'[f].pc = "begin"
    BY <2>1 DEF Typed, TypeOK
  <2>3. OneDrain => OneDrain'
    BY <2>1, <2>2 DEF OneDrain, Promoting
  <2>4. \A f \in Fibers : drain'[f].pc = "dispatch" => drain'[f] = drain[f]
    BY <2>2
  <2>5. Ranked(events, StartOrder) => Ranked(events', StartOrder)
    BY <2>1
  <2>6. \A e \in Elems(events') : Fresh(e)' => e \in Elems(events)
    BY <2>1
  <2>7. QED BY <2>1, <2>3, <2>4, <2>5, <2>6, NoMove
<1>3. QED BY <1>1, <1>2, QueuedInLine, StartInLine, SendInLine, StopInLine DEF Worker

\* A drain takes the first of the queue, and no other drain has one.
LEMMA DequeueInLine ==
  ASSUME Typed, Ordered, NEW f \in Fibers, Dequeue(f)
  PROVE  Ordered'
<1>1. /\ UNCHANGED <<arrived, events, handled, reactor, delivered, unmarked>>
      /\ drain[f].pc = "dequeue"
  BY DEF Dequeue, history
<1>2. \A e : Fresh(e)' <=> Fresh(e)
  BY <1>1 DEF Fresh
<1>3. CASE pending = <<>>
  <2>1. pending' = pending /\ draining' = FALSE
        /\ drain' = [drain EXCEPT ![f] = [pc |-> "off", msg |-> NoMessage]]
    BY <1>3 DEF Dequeue, NotDraining
  <2>2. \A g \in Fibers : drain'[g] = IF g = f THEN [pc |-> "off", msg |-> NoMessage] ELSE drain[g]
    BY <2>1 DEF Typed, TypeOK
  <2>3. OneDrain => OneDrain'
    BY <1>1, <2>1, <2>2 DEF OneDrain, Promoting
  <2>4. \A g \in Fibers : drain'[g].pc = "dispatch" => drain'[g] = drain[g]
    BY <2>2
  <2>5. /\ \A e \in Elems(events') : Fresh(e)' => e \in Elems(events)
        /\ Ranked(events, StartOrder) => Ranked(events', StartOrder)
    BY <1>1
  <2>6. QED BY <1>1, <2>1, <2>3, <2>4, <2>5, NoMove
<1>4. CASE pending # <<>>
  <2> SUFFICES ASSUME ~unmarked'
               PROVE  /\ OneDrain' /\ InLine' /\ Ranked(pending, QueueOrder)'
                      /\ Ranked(events, StartOrder)' /\ Ranked(delivered, DeliveryOrder)'
    BY DEF Ordered
  <2>1. PICK m : m = Head(pending)
    OBVIOUS
  <2>2. /\ pending' = Tail(pending) /\ draining' = draining
        /\ drain' = [drain EXCEPT ![f] = [pc |-> "dispatch", msg |-> m]]
    BY <1>4, <2>1 DEF Dequeue
  <2>3. \A g \in Fibers : drain'[g] = IF g = f THEN [pc |-> "dispatch", msg |-> m] ELSE drain[g]
    BY <2>2 DEF Typed, TypeOK
  <2>4. /\ OneDrain /\ InLine /\ Ranked(pending, QueueOrder)
        /\ Ranked(events, StartOrder) /\ Ranked(delivered, DeliveryOrder)
    BY <1>1 DEF Ordered
  <2>5. /\ QueueOrder' = QueueOrder /\ StartOrder \subseteq StartOrder'
        /\ DeliveryOrder' = DeliveryOrder
    BY <1>1, OrdersKept
  <2>6. pending \in Seq(Messages)
    BY DEF Typed, TypeOK
  <2>7. /\ m \in Messages /\ Elems(pending) = Elems(pending') \cup {m}
        /\ Ranked(pending', QueueOrder) /\ \A y \in Elems(pending') : <<m, y>> \in QueueOrder
    BY <1>4, <2>1, <2>2, <2>4, <2>6, OnTail, RankedTail
  <2>8. \A g \in Fibers : drain[g].pc # "dispatch"
    <3>1. \A g \in Fibers : Promoting(g) => g = f
      BY <1>1, <2>4 DEF OneDrain, Promoting
    <3>2. QED BY <1>1, <3>1 DEF Promoting
  <2>9. ASSUME NEW k \in Stages, NEW x \in Messages, On(x, k)'
        PROVE  On(x, k) \/ (k = 4 /\ x = m /\ m \notin Steered)
    BY <1>1, <1>2, <2>3, <2>7, <2>9 DEF On
  <2>10. InLine'
    <3>1. CASE m \in Steered
      <4>1. \A k \in Stages : \A x \in Messages : On(x, k)' => On(x, k)
        BY <2>9, <3>1
      <4>2. QED BY <1>1, <2>4, <4>1, StaysInLine
    <3>2. CASE m \notin Steered
      <4>1. On(m, 5)
        BY <2>7, <3>2 DEF On
      <4>2. \A y \in Messages : On(y, 5)' => Precedes(m, y)
        <5>1. \A y \in Messages : On(y, 5)' => y \in Elems(pending') /\ y \notin Steered
          BY DEF On
        <5>2. \A y \in Messages : <<m, y>> \in QueueOrder /\ y \notin Steered => Precedes(m, y)
          BY <3>2 DEF QueueOrder
        <5>3. QED BY <2>7, <5>1, <5>2
      <4>3. \A l \in Stages : \A x \in Messages : On(x, l)' => On(x, l) \/ (l = 4 /\ x = m)
        BY <2>9
      <4>4. 4 \in 1..4 /\ 4 + 1 = 5
        OBVIOUS
      <4>5. On(m, 4 + 1) /\ \A y \in Messages : On(y, 4 + 1)' => Precedes(m, y)
        BY <4>1, <4>2, <4>4
      <4>6. QED BY <1>1, <2>4, <2>7, <4>3, <4>4, <4>5, MovesInLine
    <3>3. QED BY <3>1, <3>2
  <2>11. OneDrain'
    BY <1>1, <2>2, <2>3, <2>4 DEF OneDrain, Promoting
  <2>12. Ranked(events', StartOrder')
    BY <1>1, <2>4, <2>5, RankedMore
  <2>13. QED BY <1>1, <2>4, <2>5, <2>7, <2>10, <2>11, <2>12
<1>5. QED BY <1>3, <1>4

\* A promotion is dispatched: its start is requested behind the others.
LEMMA PromoteInLine ==
  ASSUME Typed, Ordered, NEW f \in Fibers, DispatchQueued(f)
  PROVE  Ordered'
<1> SUFFICES ASSUME ~unmarked'
             PROVE  /\ OneDrain' /\ InLine' /\ Ranked(pending, QueueOrder)'
                    /\ Ranked(events, StartOrder)' /\ Ranked(delivered, DeliveryOrder)'
  BY DEF Ordered
<1>1. PICK m, e : m = drain[f].msg /\ e = Event("start", m, TRUE, eventId + 1)
  OBVIOUS
<1>2. /\ events' = events \o <<e>> /\ drain[f].pc = "dispatch" /\ draining' = FALSE
      /\ drain' = [drain EXCEPT ![f] = [pc |-> "off", msg |-> NoMessage]]
      /\ UNCHANGED <<arrived, handled, pending, reactor, delivered, unmarked>>
  BY <1>1 DEF DispatchQueued, Dispatched, NotDraining, history
<1>3. \A g \in Fibers : drain'[g] = IF g = f THEN [pc |-> "off", msg |-> NoMessage] ELSE drain[g]
  BY <1>2 DEF Typed, TypeOK
<1>4. m \in Messages /\ eventId + 1 \in Nat /\ events \in Seq(DomainEvents)
  BY <1>1, <1>2 DEF Typed, TypeOK, Known
<1>5. e \in DomainEvents /\ e.msg = m
  BY <1>1, <1>4 DEF Event, DomainEvents, Turns
<1>6. /\ OneDrain /\ InLine /\ Ranked(pending, QueueOrder)
      /\ Ranked(events, StartOrder) /\ Ranked(delivered, DeliveryOrder)
  BY <1>2 DEF Ordered
<1>7. QueueOrder' = QueueOrder /\ StartOrder \subseteq StartOrder' /\ DeliveryOrder' = DeliveryOrder
  BY <1>2, OrdersKept
<1>8. Elems(events') = Elems(events) \cup {e}
  BY <1>2, <1>4, <1>5, AddsOne
<1>9. \A g \in Fibers : drain'[g].pc # "dispatch"
  <2>1. \A g \in Fibers : Promoting(g) => g = f
    BY <1>2, <1>6 DEF OneDrain, Promoting
  <2>2. QED BY <1>3, <2>1 DEF Promoting
<1>10. \A x : Fresh(x)' <=> Fresh(x)
  BY <1>2 DEF Fresh
<1>11. ASSUME NEW k \in Stages, NEW x \in Messages, On(x, k)'
       PROVE  On(x, k) \/ (k = 3 /\ x = m /\ m \notin Steered)
  BY <1>2, <1>5, <1>8, <1>9, <1>10, <1>11 DEF On
<1>12. InLine'
  <2>1. CASE m \in Steered
    <3>1. \A k \in Stages : \A x \in Messages : On(x, k)' => On(x, k)
      BY <1>11, <2>1
    <3>2. QED BY <1>2, <1>6, <3>1, StaysInLine
  <2>2. CASE m \notin Steered
    <3>1. On(m, 4)
      BY <1>1, <1>2, <2>2 DEF On
    <3>2. \A y \in Messages : On(y, 4)' => Precedes(m, y)
      BY <1>9 DEF On
    <3>3. \A l \in Stages : \A x \in Messages : On(x, l)' => On(x, l) \/ (l = 3 /\ x = m)
      BY <1>11
    <3>4. 3 \in 1..4 /\ 3 + 1 = 4
      OBVIOUS
    <3>5. On(m, 3 + 1) /\ \A y \in Messages : On(y, 3 + 1)' => Precedes(m, y)
      BY <3>1, <3>2, <3>4
    <3>6. QED BY <1>2, <1>4, <1>6, <3>3, <3>4, <3>5, MovesInLine
  <2>3. QED BY <2>1, <2>2
<1>13. Ranked(events', StartOrder)
  <2>1. <<e>> \in Seq(DomainEvents) /\ Elems(<<e>>) = {e}
    BY <1>5, OneEvent
  <2>2. ASSUME NEW x \in Elems(events)
        PROVE  <<x, e>> \in StartOrder
    <3>1. x \in DomainEvents
      BY <1>4 DEF Elems
    <3>2. CASE Fresh(x) /\ x.msg \notin Steered /\ m \notin Steered /\ x.msg \in Messages
      <4>1. On(x.msg, 3) /\ On(m, 4)
        BY <1>1, <1>2, <3>2 DEF On
      <4>2. 3 \in Stages /\ 4 \in Stages /\ 3 < 4
        BY DEF Stages
      <4>3. Precedes(x.msg, m)
        BY <1>4, <1>6, <3>2, <4>1, <4>2 DEF InLine
      <4>4. QED BY <1>5, <3>1, <4>3 DEF StartOrder
    <3>3. CASE ~(Fresh(x) /\ x.msg \notin Steered /\ m \notin Steered)
      BY <1>5, <3>1, <3>3 DEF StartOrder
    <3>4. Fresh(x) => x.msg \in Messages
      BY DEF Fresh, Typed, TypeOK, Known, Moves
    <3>5. QED BY <3>2, <3>3, <3>4
  <2>3. Ranked(<<e>>, StartOrder)
    BY RankedOne
  <2>4. \A x \in Elems(events), y \in Elems(<<e>>) : <<x, y>> \in StartOrder
    BY <2>1, <2>2
  <2>5. QED BY <1>2, <1>4, <1>6, <2>1, <2>3, <2>4, RankedConcat
<1>14. OneDrain'
  <2>1. \A g \in Fibers : ~Promoting(g)'
    <3>1. \A g \in Fibers : Promoting(g) => g = f
      BY <1>2, <1>6 DEF OneDrain, Promoting
    <3>2. QED BY <1>3, <3>1 DEF Promoting
  <2>2. QED BY <2>1 DEF OneDrain
<1>15. Ranked(events', StartOrder')
  BY <1>7, <1>13, RankedMore
<1>16. QED BY <1>2, <1>6, <1>7, <1>12, <1>14, <1>15

\* The drains, the provider and the ingestion.
LEMMA OtherInLine ==
  ASSUME Typed, Ordered, HearTurnEnded \/ (\E f \in Fibers : Drain(f) \/ DispatchQueuedFails(f))
                         \/ EndTurn \/ Ingestion \/ UNCHANGED vars
  PROVE  Ordered'
<1>1. ASSUME UNCHANGED <<arrived, events, handled, pending, delivered, unmarked>>,
             reactor' = reactor \/ reactor'.pc # "sending",
             \A g \in Fibers : drain'[g].pc = "dispatch" => drain'[g] = drain[g],
             OneDrain => OneDrain'
      PROVE  Ordered'
  <2>1. Ranked(events, StartOrder) => Ranked(events', StartOrder)
    BY <1>1
  <2>2. \A e \in Elems(events') : Fresh(e)' => e \in Elems(events)
    BY <1>1
  <2>3. QED BY <1>1, <2>1, <2>2, NoMove
<1>2. CASE HearTurnEnded
  <2>1. /\ UNCHANGED <<arrived, events, handled, pending, reactor, delivered, unmarked, draining>>
        /\ drain' = [drain EXCEPT !["stream"].pc = "begin"]
    BY <1>2 DEF HearTurnEnded, history
  <2>2. \A g \in Fibers : drain'[g] = drain[g] \/ drain'[g].pc = "begin"
    BY <2>1 DEF Typed, TypeOK
  <2>3. OneDrain => OneDrain'
    BY <2>1, <2>2 DEF OneDrain, Promoting
  <2>4. QED BY <1>1, <2>1, <2>2, <2>3
<1>3. ASSUME NEW f \in Fibers, BeginDrain(f)
      PROVE  Ordered'
  <2>1. /\ UNCHANGED <<arrived, events, handled, pending, reactor, delivered, unmarked>>
        /\ draining' = TRUE /\ drain[f].pc = "begin"
        /\ drain' = [drain EXCEPT ![f].pc = IF draining THEN "off" ELSE "dequeue"]
    BY <1>3 DEF BeginDrain, history
  <2>2. /\ \A g \in Fibers : g # f => drain'[g] = drain[g]
        /\ drain'[f].pc = IF draining THEN "off" ELSE "dequeue"
    BY <2>1 DEF Typed, TypeOK
  <2>3. OneDrain => OneDrain'
    BY <2>1, <2>2 DEF OneDrain, Promoting
  <2>4. \A g \in Fibers : drain'[g].pc = "dispatch" => drain'[g] = drain[g]
    BY <2>2
  <2>5. QED BY <1>1, <2>1, <2>3, <2>4
<1>4. ASSUME NEW f \in Fibers, DispatchQueuedFails(f)
      PROVE  Ordered'
  <2>1. /\ UNCHANGED <<arrived, events, handled, pending, reactor, delivered, unmarked, draining>>
        /\ drain' = [drain EXCEPT ![f] = [pc |-> "off", msg |-> NoMessage]]
    BY <1>4 DEF DispatchQueuedFails, NotDraining
  <2>2. \A g \in Fibers : drain'[g] = drain[g] \/ drain'[g].pc = "off"
    BY <2>1 DEF Typed, TypeOK
  <2>3. OneDrain => OneDrain'
    BY <2>1, <2>2 DEF OneDrain, Promoting
  <2>4. QED BY <1>1, <2>1, <2>2, <2>3
<1>5. CASE EndTurn \/ Ingestion \/ UNCHANGED vars
  <2>1. /\ UNCHANGED <<arrived, events, handled, pending, delivered, unmarked, draining, drain>>
        /\ reactor' = reactor \/ reactor'.pc # "sending"
    BY <1>5, IngestionSpares
       DEF EndTurn, Ingestion, IngestRuntimeEvent, DispatchSessionSet, history, vars, Typed, TypeOK,
           ReactorPlaces
  <2>2. OneDrain => OneDrain'
    BY <2>1 DEF OneDrain, Promoting
  <2>3. QED BY <1>1, <2>1, <2>2
<1>6. QED BY <1>2, <1>3, <1>4, <1>5, DequeueInLine, PromoteInLine DEF Drain

\* Initially nothing is on its way.
LEMMA InitInLine ==
  ASSUME Init
  PROVE  Ordered
<1>1. /\ events = <<>> /\ pending = <<>> /\ delivered = <<>> /\ reactor.pc = "idle"
      /\ \A f \in Fibers : drain[f].pc = "off"
  BY DEF Init, Resting, NotDraining
<1>2. Elems(events) = {} /\ Elems(pending) = {} /\ Elems(delivered) = {}
  BY <1>1 DEF Elems
<1>3. \A k \in Stages : \A x \in Messages : ~On(x, k)
  BY <1>1, <1>2 DEF On
<1>4. InLine
  BY <1>3 DEF InLine
<1>5. OneDrain
  BY <1>1 DEF OneDrain, Promoting
<1>6. Ranked(pending, QueueOrder) /\ Ranked(events, StartOrder) /\ Ranked(delivered, DeliveryOrder)
  BY <1>1 DEF Ranked
<1>7. QED BY <1>4, <1>5, <1>6 DEF Ordered

\* The queue is first in, first out, through both drains, the worker and the
\* provider, whatever is refused, fails or is published again, as long as no
\* stop takes the mark from a drain that is running.
THEOREM FirstInFirstOut == Spec => []PromotedInOrder
<1>1. Init => Typed /\ Ordered
  BY InitTypes, InitInLine
<1>2. Typed /\ Ordered /\ [Next]_vars => Typed' /\ Ordered'
  BY StepTypes, UserInLine, WorkerInLine, OtherInLine DEF Next
<1>3. Typed /\ Ordered => PromotedInOrder
  <2> SUFFICES ASSUME Typed, Ordered, ~unmarked, NEW i \in DOMAIN delivered,
                      NEW j \in DOMAIN delivered, i < j,
                      delivered[i].promoted, delivered[j].promoted,
                      {delivered[i].msg, delivered[j].msg} \cap Steered = {}
               PROVE  Precedes(delivered[i].msg, delivered[j].msg)
    BY DEF PromotedInOrder, Precedes
  <2>1. <<delivered[i], delivered[j]>> \in DeliveryOrder
    BY DEF Ordered, Ranked
  <2>2. QED BY <2>1 DEF DeliveryOrder
<1>4. QED BY <1>1, <1>2, <1>3, PTL DEF Spec

-----------------------------------------------------------------------------
(* What the decider is shown of the provider's turn                        *)

\* The turn the thread shows once what the ingestion has decided is dispatched.
Believed == IF ingest # NoSession THEN ingest.turn ELSE session.turn

\* The provider's turn was t before it sent e, and is u then.
Turning(t, e, u) ==
  \/ e.type = "turn.started" /\ t = NoTurn /\ u = e.turn
  \/ e.type = "turn.completed" /\ t = e.turn /\ u = NoTurn
  \/ e.type = "session.exited" /\ t = NoTurn /\ u = NoTurn
  \/ e.type = "session.started" /\ u = t

\* The turns the provider had while it sent the events of q.
Had(turns, q, now) ==
  /\ turns[Len(q) + 1] = now
  /\ \A i \in 1..Len(q) : Turning(turns[i], q[i], turns[i + 1])

Turned(q) == \E i \in 1..Len(q) : q[i].type # "session.started"

\* Who believes in turn b, or in none before its time, will be told by q what
\* the provider's turn is now.
Tells(q, now, b) ==
  \E turns \in [Nat -> Turns] :
    Had(turns, q, now) /\ (b = turns[1] \/ (b = NoTurn /\ (now = NoTurn \/ Turned(q))))

\* The events on their way tell the ingestion the provider's turn.
Follows == \E b \in Turns : Tells(runtime, active, b) /\ (~overtaken => b = Believed)

\* A session that is not there has no turn, for either side.
Vacant ==
  /\ session.status \in {"none", "stopped"} => session.turn = NoTurn
  /\ ingest.status \in {"none", "stopped"} => ingest.turn = NoTurn
  /\ ~connected => active = NoTurn
  /\ reactor.pc = "sending" => connected
  /\ reactor.pc = "stopping" => ~connected
  /\ reactor.pc = "waiting" => ingest # NoSession
  /\ reactor.pc = "waiting" /\ ~overtaken => ~connected \/ ingest.turn = NoTurn
  /\ reactor.pc = "setting" /\ ~overtaken => ~connected \/ session.turn = NoTurn

\* The thread is marked while one of the fibers promotes, and the worker's own
\* drain runs only while the worker waits for it.
Marked ==
  /\ WorkerDrains
  /\ draining => lost # {} \/ \E f \in Fibers : Promoting(f)

Settling == Follows /\ Vacant /\ Marked

-----------------------------------------------------------------------------
(* Lemmas                                                                  *)

\* One event more.
LEMMA TellsMore ==
  ASSUME NEW q \in Seq(RuntimeEvents), NEW t \in Turns, NEW u \in Turns, NEW b \in Turns,
         Tells(q, t, b), NEW e \in RuntimeEvents, Turning(t, e, u)
  PROVE  Tells(q \o <<e>>, u, b)
<1>1. PICK turns \in [Nat -> Turns] :
        Had(turns, q, t) /\ (b = turns[1] \/ (b = NoTurn /\ (t = NoTurn \/ Turned(q))))
  BY DEF Tells
<1> DEFINE r == q \o <<e>>
           more == [turns EXCEPT ![Len(q) + 2] = u]
<1>2. /\ Len(r) = Len(q) + 1 /\ Len(q) \in Nat /\ r[Len(q) + 1] = e
      /\ \A i \in 1..Len(q) : r[i] = q[i]
  <2>1. <<e>> \in Seq(RuntimeEvents) /\ Len(<<e>>) = 1 /\ <<e>>[1] = e
    OBVIOUS
  <2>2. /\ Len(r) = Len(q) + 1 /\ Len(q) \in Nat
        /\ \A i \in 1..(Len(q) + 1) : r[i] = IF i <= Len(q) THEN q[i] ELSE <<e>>[i - Len(q)]
    BY <2>1, ConcatProperties, LenProperties
  <2>3. r[Len(q) + 1] = e
    <3>1. Len(q) + 1 \in 1..(Len(q) + 1) /\ ~(Len(q) + 1 <= Len(q)) /\ Len(q) + 1 - Len(q) = 1
      BY <2>2
    <3>2. QED BY <2>1, <2>2, <3>1
  <2>4. ASSUME NEW i \in 1..Len(q) PROVE r[i] = q[i]
    BY <2>2
  <2>5. QED BY <2>2, <2>3, <2>4
<1> HIDE DEF r
<1>3. /\ more \in [Nat -> Turns] /\ more[Len(q) + 2] = u
      /\ \A i \in 1..(Len(q) + 1) : more[i] = turns[i]
  BY <1>2
<1> HIDE DEF more
<1>4. turns[Len(q) + 1] = t /\ \A i \in 1..Len(q) : Turning(turns[i], q[i], turns[i + 1])
  BY <1>1 DEF Had
<1>5. ASSUME NEW i \in 1..Len(r)
      PROVE  Turning(more[i], r[i], more[i + 1])
  <2>1. CASE i = Len(q) + 1
    <3>1. /\ r[i] = e /\ i \in 1..(Len(q) + 1) /\ i = Len(q) + 1 /\ i + 1 = Len(q) + 2
      BY <1>2, <2>1
    <3>2. more[i] = t /\ more[i + 1] = u
      BY <1>3, <1>4, <3>1
    <3>3. QED BY <3>1, <3>2
  <2>2. CASE i # Len(q) + 1
    <3>1. i \in 1..Len(q) /\ i \in 1..(Len(q) + 1) /\ i + 1 \in 1..(Len(q) + 1)
      BY <1>2, <2>2
    <3>2. QED BY <1>2, <1>3, <1>4, <3>1
  <2>3. QED BY <2>1, <2>2
<1>6. Had(more, r, u)
  <2>1. (Len(q) + 1) + 1 = Len(q) + 2
    BY <1>2
  <2>2. QED BY <1>2, <1>3, <1>5, <2>1 DEF Had
<1>7. more[1] = turns[1]
  BY <1>2, <1>3
<1>8. Turned(q) => Turned(r)
  <2>1. \A i \in 1..Len(q) : i \in 1..Len(r) /\ r[i] = q[i]
    BY <1>2
  <2>2. QED BY <2>1 DEF Turned
<1>9. u = NoTurn \/ t # NoTurn \/ Turned(r)
  <2>1. Len(q) + 1 \in 1..Len(r)
    BY <1>2
  <2>2. e.type # "session.started" => Turned(r)
    BY <1>2, <2>1 DEF Turned
  <2>3. QED BY <2>2 DEF Turning
<1>10. QED BY <1>1, <1>3, <1>6, <1>7, <1>8, <1>9 DEF Tells, r

\* One event less: what the ingestion makes of it.
LEMMA TellsRest ==
  ASSUME NEW q \in Seq(RuntimeEvents), q # <<>>, NEW now \in Turns, NEW b \in Turns,
         Tells(q, now, b)
  PROVE  LET e == Head(q)
         IN  \E c \in Turns :
               /\ Tells(Tail(q), now, c)
               /\ e.type = "turn.started" => b = NoTurn /\ c = e.turn
               /\ e.type = "turn.completed" => b \in {NoTurn, e.turn} /\ c = NoTurn
               /\ e.type = "session.exited" => c = NoTurn
               /\ e.type = "session.started" => c = b
<1>1. PICK turns \in [Nat -> Turns] :
        Had(turns, q, now) /\ (b = turns[1] \/ (b = NoTurn /\ (now = NoTurn \/ Turned(q))))
  BY DEF Tells
<1>2. PICK e, r : e = Head(q) /\ r = Tail(q)
  OBVIOUS
<1>3. /\ e = q[1] /\ e \in RuntimeEvents /\ Len(r) = Len(q) - 1 /\ Len(q) \in Nat /\ Len(q) # 0
      /\ \A i \in 1..Len(r) : r[i] = q[i + 1]
  BY <1>2, HeadTailProperties, LenProperties, EmptySeq
<1> DEFINE rest == [i \in Nat |-> turns[i + 1]]
<1>4. rest \in [Nat -> Turns] /\ rest[1] = turns[2] /\ \A i \in Nat : rest[i] = turns[i + 1]
  OBVIOUS
<1> HIDE DEF rest
<1>5. turns[Len(q) + 1] = now /\ \A i \in 1..Len(q) : Turning(turns[i], q[i], turns[i + 1])
  BY <1>1 DEF Had
<1>6. Turning(turns[1], e, turns[2])
  BY <1>3, <1>5
<1>7. Had(rest, r, now)
  <2>1. rest[Len(r) + 1] = now
    BY <1>3, <1>4, <1>5
  <2>2. ASSUME NEW i \in 1..Len(r)
        PROVE  Turning(rest[i], r[i], rest[i + 1])
    <3>1. i + 1 \in 1..Len(q) /\ i \in Nat /\ i + 1 \in Nat /\ (i + 1) + 1 = i + 2
      BY <1>3
    <3>2. QED BY <1>3, <1>4, <1>5, <3>1
  <2>3. QED BY <2>1, <2>2 DEF Had
<1>8. NoTurn \in Turns /\ turns[1] \in Turns /\ turns[2] \in Turns
  BY DEF Turns, NoTurn
<1>9. CASE e.type # "session.started"
  <2>1. Tells(r, now, turns[2])
    BY <1>4, <1>7 DEF Tells
  <2>2. QED BY <1>1, <1>2, <1>6, <1>8, <1>9, <2>1 DEF Turning
<1>10. CASE e.type = "session.started"
  <2>1. turns[2] = turns[1]
    BY <1>6, <1>10 DEF Turning
  <2>2. Turned(q) => Turned(r)
    <3> SUFFICES ASSUME Turned(q) PROVE Turned(r)
      OBVIOUS
    <3>1. PICK i \in 1..Len(q) : q[i].type # "session.started"
      BY DEF Turned
    <3>2. i # 1
      BY <1>3, <1>10, <3>1
    <3>3. PICK j : j = i - 1
      OBVIOUS
    <3>4. j \in 1..Len(r) /\ j + 1 = i
      BY <1>3, <3>2, <3>3
    <3>5. QED BY <1>3, <3>1, <3>4 DEF Turned
  <2>3. Tells(r, now, b)
    BY <1>1, <1>4, <1>7, <2>1, <2>2 DEF Tells
  <2>4. QED BY <1>2, <1>10, <2>3
<1>11. QED BY <1>9, <1>10

\* Without a turn, nothing is missed by believing in none.
LEMMA TellsNone ==
  ASSUME NEW q, NEW b, Tells(q, NoTurn, b)
  PROVE  Tells(q, NoTurn, NoTurn)
BY DEF Tells

\* The provider sends an event.
LEMMA FollowsEvent ==
  ASSUME Typed, Typed', Follows, NEW e \in RuntimeEvents, Turning(active, e, active'),
         runtime' = runtime \o <<e>>, UNCHANGED <<session, ingest>>, ~overtaken' => ~overtaken
  PROVE  Follows'
<1>1. PICK b \in Turns : Tells(runtime, active, b) /\ (~overtaken => b = Believed)
  BY DEF Follows
<1>2. runtime \in Seq(RuntimeEvents) /\ active \in Turns /\ active' \in Turns
  BY DEF Typed, TypeOK
<1>3. Tells(runtime', active', b)
  BY <1>1, <1>2, TellsMore
<1>4. Believed' = Believed
  BY DEF Believed
<1>5. QED BY <1>1, <1>3, <1>4 DEF Follows

\* Neither side changes.
LEMMA FollowsAlone ==
  ASSUME Follows, UNCHANGED <<runtime, active, session, ingest>>, ~overtaken' => ~overtaken
  PROVE  Follows'
<1>1. PICK b \in Turns : Tells(runtime, active, b) /\ (~overtaken => b = Believed)
  BY DEF Follows
<1>2. Believed' = Believed /\ runtime' = runtime /\ active' = active
  BY DEF Believed
<1>3. QED BY <1>1, <1>2 DEF Follows

\* The turn that is open ends.
LEMMA FollowsClosing ==
  ASSUME Typed, Typed', Follows, active # NoTurn, active' = NoTurn,
         runtime' = runtime \o Closing, UNCHANGED <<session, ingest>>, ~overtaken' => ~overtaken
  PROVE  Follows'
<1>1. PICK e : e = Terminal(active)
  OBVIOUS
<1>2. e \in RuntimeEvents /\ Turning(active, e, active')
  BY <1>1 DEF Typed, TypeOK, Terminal, RuntimeEvents, Turning
<1>3. runtime' = runtime \o <<e>>
  BY <1>1 DEF Closing
<1>4. QED BY <1>2, <1>3, FollowsEvent

\* The reactor shows that there is no turn when there is none, or shows no
\* other turn than the one that was shown.
LEMMA FollowsShown ==
  ASSUME Typed, Follows, UNCHANGED <<runtime, active, ingest>>, ~overtaken' => ~overtaken,
         session'.turn = session.turn \/ (session'.turn = NoTurn /\ (~overtaken => active = NoTurn))
  PROVE  Follows'
<1>1. PICK b \in Turns : Tells(runtime, active, b) /\ (~overtaken => b = Believed)
  BY DEF Follows
<1>2. CASE Believed' = Believed
  BY <1>1, <1>2 DEF Follows
<1>3. CASE Believed' # Believed
  <2>1. Believed' = NoTurn /\ (~overtaken => active = NoTurn)
    BY <1>3 DEF Believed
  <2>2. CASE overtaken
    <3>1. overtaken'
      BY <2>2
    <3>2. QED BY <1>1, <3>1 DEF Follows
  <2>3. CASE ~overtaken
    <3>1. Tells(runtime, NoTurn, NoTurn)
      BY <1>1, <2>1, <2>3, TellsNone
    <3>2. NoTurn \in Turns
      BY DEF Turns, NoTurn
    <3>3. QED BY <2>1, <2>3, <3>1, <3>2 DEF Follows
  <2>4. QED BY <2>2, <2>3
<1>4. QED BY <1>2, <1>3

-----------------------------------------------------------------------------
(* The steps                                                               *)

\* A session is started when one side has none.
LEMMA EnsureFollows ==
  ASSUME Typed, Typed', Settling, EnsureSession, UNCHANGED <<active, ingest, overtaken>>
  PROVE  /\ Follows' /\ connected'
         /\ session'.status \in {"none", "stopped"} => session'.turn = NoTurn
<1>1. CASE session.status \notin {"none", "stopped"} /\ connected
  <2>1. UNCHANGED <<session, connected, runtime>>
    BY <1>1 DEF EnsureSession
  <2>2. Follows'
    BY <2>1, FollowsAlone DEF Settling
  <2>3. QED BY <1>1, <2>1, <2>2
<1>2. CASE ~(session.status \notin {"none", "stopped"} /\ connected)
  <2>1. PICK e : e = [type |-> "session.started", turn |-> NoTurn]
    OBVIOUS
  <2>2. /\ connected' = TRUE /\ runtime' = runtime \o <<e>>
        /\ session' = [status |-> "ready", turn |-> NoTurn]
    BY <1>2, <2>1 DEF EnsureSession, Emit, Session
  <2>3. session.turn = NoTurn \/ active = NoTurn
    BY <1>2 DEF Settling, Vacant
  <2>4. PICK b \in Turns : Tells(runtime, active, b) /\ (~overtaken => b = Believed)
    BY DEF Settling, Follows
  <2>5. PICK c \in Turns : Tells(runtime, active, c) /\ (~overtaken' => c = Believed')
    <3>1. CASE Believed' = Believed
      BY <2>4, <3>1
    <3>2. CASE Believed' # Believed
      <4>1. Believed' = NoTurn /\ active = NoTurn
        BY <2>2, <2>3, <3>2 DEF Believed
      <4>2. Tells(runtime, active, NoTurn) /\ NoTurn \in Turns
        BY <2>4, <4>1, TellsNone DEF Turns, NoTurn
      <4>3. QED BY <4>1, <4>2
    <3>3. QED BY <3>1, <3>2
  <2>6. e \in RuntimeEvents /\ Turning(active, e, active)
    BY <2>1 DEF RuntimeEvents, Turns, NoTurn, Turning
  <2>7. Tells(runtime', active', c)
    <3>1. runtime \in Seq(RuntimeEvents) /\ active \in Turns
      BY DEF Typed, TypeOK
    <3>2. QED BY <2>2, <2>5, <2>6, <3>1, TellsMore
  <2>8. Follows'
    BY <2>5, <2>7 DEF Follows
  <2>9. QED BY <2>2, <2>8
<1>3. QED BY <1>1, <1>2

\* The user's commands and the redelivery of events.
LEMMA UserSettling ==
  ASSUME Typed, Settling, (\E m \in Messages : SendMessage(m)) \/ StopSession \/ Redeliver
  PROVE  Settling'
<1>1. /\ UNCHANGED <<session, ingest, connected, active, runtime, reactor, overtaken>>
      /\ UNCHANGED <<draining, drain, lost>>
  BY DEF SendMessage, StopSession, Redeliver, provider, history
<1>2. Follows'
  BY <1>1, FollowsAlone DEF Settling
<1>3. Vacant' /\ Marked'
  BY <1>1 DEF Settling, Vacant, Marked, WorkerDrains, Promoting
<1>4. QED BY <1>2, <1>3 DEF Settling

LEMMA StartSettling ==
  ASSUME Typed, Typed', Settling, ProcessTurnStartRequested
  PROVE  Settling'
<1>1. UNCHANGED <<active, ingest, overtaken, draining, drain, lost>> /\ reactor.pc = "idle"
  BY DEF ProcessTurnStartRequested, NextEvent, history
<1>5. \/ UNCHANGED <<reactor, session, connected, runtime>>
      \/ reactor'.pc = "sending" /\ EnsureSession
  BY DEF ProcessTurnStartRequested
<1>2. Marked'
  BY <1>1, <1>5 DEF Settling, Marked, WorkerDrains, Promoting
<1>3. CASE UNCHANGED <<reactor, session, connected, runtime>>
  <2>1. Follows'
    BY <1>1, <1>3, FollowsAlone DEF Settling
  <2>2. Vacant'
    BY <1>1, <1>3 DEF Settling, Vacant
  <2>3. QED BY <1>2, <2>1, <2>2 DEF Settling
<1>4. CASE reactor'.pc = "sending" /\ EnsureSession
  <2>1. /\ Follows' /\ connected'
        /\ session'.status \in {"none", "stopped"} => session'.turn = NoTurn
    BY <1>1, <1>4, EnsureFollows
  <2>2. Vacant'
    BY <1>1, <1>4, <2>1 DEF Settling, Vacant
  <2>3. QED BY <1>2, <2>1, <2>2 DEF Settling
<1>6. QED BY <1>3, <1>4, <1>5

\* The open turn is closed, by a send or because it is over.
LEMMA CloseSettling ==
  ASSUME Typed, Typed', Settling, CloseOpenTurn \/ EndTurn
  PROVE  Settling'
<1>1. /\ active # NoTurn /\ active' = NoTurn /\ runtime' = runtime \o Closing
      /\ UNCHANGED <<session, ingest, connected, reactor, overtaken, draining, drain, lost>>
  BY DEF CloseOpenTurn, EndTurn, Emit, history
<1>2. Follows'
  BY <1>1, FollowsClosing DEF Settling
<1>3. Vacant' /\ Marked'
  BY <1>1 DEF Settling, Vacant, Marked, WorkerDrains, Promoting
<1>4. QED BY <1>2, <1>3 DEF Settling

LEMMA SendSettling ==
  ASSUME Typed, Typed', Settling, SendTurn
  PROVE  Settling'
<1>1. PICK e : e = [type |-> "turn.started", turn |-> reactor.msg]
  OBVIOUS
<1>2. /\ reactor.pc = "sending" /\ active = NoTurn /\ active' = reactor.msg
      /\ runtime' = runtime \o <<e>> /\ reactor' = Resting
      /\ UNCHANGED <<session, ingest, connected, overtaken, draining, drain, lost>>
  BY <1>1 DEF SendTurn, Emit
<1>3. e \in RuntimeEvents /\ Turning(active, e, active')
  BY <1>1, <1>2 DEF Typed, TypeOK, RuntimeEvents, Turning
<1>4. Follows'
  BY <1>2, <1>3, FollowsEvent DEF Settling
<1>5. Vacant' /\ Marked'
  BY <1>2 DEF Settling, Vacant, Marked, WorkerDrains, Promoting, Resting
<1>6. QED BY <1>4, <1>5 DEF Settling

\* A stop closes the turn and the session, or leaves both alone.
LEMMA StopSettling ==
  ASSUME Typed, Typed', Settling, ProcessSessionStopRequested
  PROVE  Settling'
<1> DEFINE stopping == session.status \notin {"none", "stopped"} /\ connected
<1>7. UNCHANGED <<session, ingest, drain, lost>> /\ draining' = FALSE /\ reactor.pc = "idle"
  BY DEF ProcessSessionStopRequested, NextEvent
<1>8. ~overtaken' => ~overtaken
  BY DEF ProcessSessionStopRequested, Typed, TypeOK
<1>1. /\ UNCHANGED <<session, ingest, drain, lost>> /\ draining' = FALSE
      /\ reactor.pc = "idle" /\ (~overtaken' => ~overtaken)
  BY <1>7, <1>8
<1>2. Marked'
  BY <1>1 DEF Settling, Marked, WorkerDrains
<1>6. reactor'.pc = IF session.status \notin {"none", "stopped"} THEN "stopping" ELSE reactor'.pc
  BY DEF ProcessSessionStopRequested, Resting
<1>3. CASE stopping
  <2>1. PICK x : x = [type |-> "session.exited", turn |-> NoTurn]
    OBVIOUS
  <2>2. /\ runtime' = runtime \o (Closing \o <<x>>) /\ active' = NoTurn /\ connected' = FALSE
    BY <1>3, <2>1 DEF ProcessSessionStopRequested, Emit
  <2>3. x \in RuntimeEvents /\ Turning(NoTurn, x, NoTurn) /\ NoTurn \in Turns
    BY <2>1 DEF RuntimeEvents, Turning, Turns, NoTurn
  <2>4. PICK b \in Turns : Tells(runtime, active, b) /\ (~overtaken => b = Believed)
    BY DEF Settling, Follows
  <2>5. runtime \in Seq(RuntimeEvents) /\ active \in Turns
    BY DEF Typed, TypeOK
  <2>6. Tells(runtime', NoTurn, b)
    <3>1. CASE active = NoTurn
      <4>1. runtime' = runtime \o <<x>>
        BY <2>2, <3>1 DEF Closing
      <4>2. QED BY <2>3, <2>4, <2>5, <3>1, <4>1, TellsMore
    <3>2. CASE active # NoTurn
      <4>1. PICK e : e = Terminal(active)
        OBVIOUS
      <4>2. e \in RuntimeEvents /\ Turning(active, e, NoTurn)
        BY <2>5, <4>1 DEF Terminal, RuntimeEvents, Turning
      <4>3. PICK more : more = runtime \o <<e>>
        OBVIOUS
      <4>4. more \in Seq(RuntimeEvents) /\ Tells(more, NoTurn, b)
        BY <2>3, <2>4, <2>5, <4>2, <4>3, TellsMore, AddsOne
      <4>5. runtime' = more \o <<x>>
        <5>1. Closing = <<e>>
          BY <3>2, <4>1 DEF Closing
        <5>2. <<e>> \in Seq(RuntimeEvents) /\ <<x>> \in Seq(RuntimeEvents)
          BY <2>3, <4>2
        <5>3. runtime \o (<<e>> \o <<x>>) = (runtime \o <<e>>) \o <<x>>
          BY <2>5, <5>2, ConcatAssociative
        <5>4. QED BY <2>2, <4>3, <5>1, <5>3
      <4>6. QED BY <2>3, <4>4, <4>5, TellsMore
    <3>3. QED BY <3>1, <3>2
  <2>7. Follows'
    <3>1. Believed' = Believed
      BY <1>1 DEF Believed
    <3>2. QED BY <1>1, <2>2, <2>4, <2>6, <3>1 DEF Follows
  <2>8. Vacant'
    BY <1>1, <1>3, <1>6, <2>2 DEF Settling, Vacant
  <2>9. QED BY <1>2, <2>7, <2>8 DEF Settling
<1>4. CASE ~stopping
  <2>1. UNCHANGED <<connected, active, runtime>>
    BY <1>4 DEF ProcessSessionStopRequested, provider
  <2>2. Follows'
    BY <1>1, <2>1, FollowsAlone DEF Settling
  <2>5. \/ reactor'.pc = "stopping" /\ ~connected
        \/ reactor'.pc = "setting" /\ session.status \in {"none", "stopped"}
        \/ /\ reactor'.pc = "waiting" /\ ingest # NoSession
           /\ ~overtaken' => ~connected \/ ingest.turn = NoTurn
    BY <1>4 DEF ProcessSessionStopRequested, Resting
  <2>3. Vacant'
    BY <1>1, <2>1, <2>5 DEF Settling, Vacant
  <2>4. QED BY <1>2, <2>2, <2>3 DEF Settling
<1>5. QED BY <1>3, <1>4

LEMMA WorkerSettling ==
  ASSUME Typed, Typed', Settling, Worker \/ SendTurnFails
  PROVE  Settling'
<1>1. CASE ProcessTurnStartRequested
  BY <1>1, StartSettling
<1>2. CASE CloseOpenTurn
  BY <1>2, CloseSettling
<1>3. CASE SendTurn
  BY <1>3, SendSettling
<1>4. CASE ProcessSessionStopRequested
  BY <1>4, StopSettling
<1>5. CASE SetSessionStopped
  <2>1. /\ reactor.pc \in {"stopping", "setting"} /\ reactor' = Resting
        /\ session' = [status |-> "stopped", turn |-> NoTurn]
        /\ UNCHANGED <<runtime, active, connected, ingest, overtaken, draining, drain, lost>>
    BY <1>5 DEF SetSessionStopped, Session, provider, history
  <2>2. session.turn = NoTurn \/ (~overtaken => active = NoTurn)
    BY <2>1 DEF Settling, Vacant
  <2>3. Follows'
    BY <2>1, <2>2, FollowsShown DEF Settling
  <2>4. Vacant' /\ Marked'
    BY <2>1 DEF Settling, Vacant, Marked, WorkerDrains, Promoting, Resting
  <2>5. QED BY <2>3, <2>4 DEF Settling
<1>6. CASE ProcessTurnQueued \/ ResumeWorker \/ ProcessTurnInterruptRequested
  <2>1. /\ UNCHANGED <<session, ingest, connected, active, runtime, overtaken, draining, drain, lost>>
        /\ reactor' = reactor \/ (reactor'.pc = "idle" /\ drain["worker"].pc = "off")
    BY <1>6 DEF ProcessTurnQueued, ResumeWorker, ProcessTurnInterruptRequested, provider, history,
                Resting
  <2>2. Follows'
    BY <2>1, FollowsAlone DEF Settling
  <2>3. Vacant' /\ Marked'
    BY <2>1 DEF Settling, Vacant, Marked, WorkerDrains, Promoting
  <2>4. QED BY <2>2, <2>3 DEF Settling
<1>7. CASE SendTurnFails
  <2>1. /\ UNCHANGED <<session, ingest, connected, active, runtime, overtaken, draining, lost>>
        /\ reactor.pc = "sending" /\ reactor'.pc = "draining"
        /\ drain'["stream"] = drain["stream"]
    BY <1>7 DEF SendTurnFails, provider, history, Typed, TypeOK, Fibers
  <2>2. Follows'
    BY <2>1, FollowsAlone DEF Settling
  <2>3. Vacant'
    BY <2>1 DEF Settling, Vacant
  <2>4. Marked'
    <3>1. ~Promoting("worker")
      BY <2>1 DEF Settling, Marked, WorkerDrains, Promoting
    <3>2. Fibers = {"worker", "stream"} /\ (Promoting("stream") => Promoting("stream")')
      BY <2>1 DEF Fibers, Promoting
    <3>3. QED BY <2>1, <3>1, <3>2 DEF Settling, Marked, WorkerDrains
  <2>5. QED BY <2>2, <2>3, <2>4 DEF Settling
<1>8. QED BY <1>1, <1>2, <1>3, <1>4, <1>5, <1>6, <1>7 DEF Worker

\* The fibers and the provider's terminal events.
LEMMA DrainSettling ==
  ASSUME Typed, Settling,
         HearTurnEnded \/ \E f \in Fibers : Drain(f) \/ DispatchQueuedFails(f)
  PROVE  Settling'
<1>1. drain \in [Fibers -> [pc : {"off", "begin", "dequeue", "dispatch"}, msg : Turns]]
  BY DEF Typed, TypeOK
<1>2. /\ UNCHANGED <<session, ingest, connected, active, runtime, reactor, overtaken>>
  BY DEF HearTurnEnded, Drain, BeginDrain, Dequeue, DispatchQueued, DispatchQueuedFails,
         provider, history
<1>3. Follows'
  BY <1>2, FollowsAlone DEF Settling
<1>4. Vacant'
  BY <1>2 DEF Settling, Vacant
<1>5. CASE HearTurnEnded
  <2>1. /\ UNCHANGED <<draining, lost>> /\ drain["stream"].pc = "off"
        /\ drain' = [drain EXCEPT !["stream"].pc = "begin"]
    BY <1>5 DEF HearTurnEnded, history
  <2>2. drain'["worker"] = drain["worker"] /\ ~Promoting("stream")
    BY <1>1, <2>1 DEF Fibers, Promoting
  <2>3. Fibers = {"worker", "stream"} /\ (Promoting("worker") => Promoting("worker")')
    BY <2>2 DEF Fibers, Promoting
  <2>4. Marked'
    BY <1>2, <2>1, <2>2, <2>3 DEF Settling, Marked, WorkerDrains
  <2>5. QED BY <1>3, <1>4, <2>4 DEF Settling
<1>6. ASSUME NEW f \in Fibers, Drain(f) \/ DispatchQueuedFails(f)
      PROVE  Settling'
  <2>1. /\ drain[f].pc # "off" /\ \A g \in Fibers : g # f => drain'[g] = drain[g]
    BY <1>1, <1>6 DEF Drain, BeginDrain, Dequeue, DispatchQueued, DispatchQueuedFails
  <2>2. WorkerDrains'
    <3>1. CASE f = "worker"
      BY <1>2, <2>1, <3>1 DEF Settling, Marked, WorkerDrains
    <3>2. CASE f # "worker"
      <4>1. drain'["worker"] = drain["worker"]
        BY <2>1, <3>2 DEF Fibers
      <4>2. QED BY <1>2, <4>1 DEF Settling, Marked, WorkerDrains
    <3>3. QED BY <3>1, <3>2
  <2>3. ASSUME draining'
        PROVE  lost' # {} \/ \E g \in Fibers : Promoting(g)'
    <3>1. CASE BeginDrain(f)
      <4>1. /\ UNCHANGED lost /\ drain[f].pc = "begin"
            /\ drain' = [drain EXCEPT ![f].pc = IF draining THEN "off" ELSE "dequeue"]
        BY <3>1 DEF BeginDrain, history
      <4>2. CASE draining
        <5>1. ~Promoting(f) /\ \A g \in Fibers : g # f /\ Promoting(g) => Promoting(g)'
          BY <2>1, <4>1 DEF Promoting
        <5>2. QED BY <4>1, <4>2, <5>1 DEF Settling, Marked
      <4>3. CASE ~draining
        <5>1. drain'[f].pc = "dequeue"
          BY <1>1, <4>1, <4>3
        <5>2. QED BY <5>1 DEF Promoting
      <4>4. QED BY <4>2, <4>3
    <3>2. CASE Dequeue(f)
      <4>1. drain'[f].pc = "dispatch"
        BY <1>1, <2>3, <3>2 DEF Dequeue
      <4>2. QED BY <4>1 DEF Promoting
    <3>3. CASE DispatchQueued(f)
      BY <2>3, <3>3 DEF DispatchQueued
    <3>4. CASE DispatchQueuedFails(f)
      BY <3>4 DEF DispatchQueuedFails
    <3>5. QED BY <1>6, <3>1, <3>2, <3>3, <3>4 DEF Drain
  <2>4. Marked'
    BY <2>2, <2>3 DEF Marked
  <2>5. QED BY <1>3, <1>4, <2>4 DEF Settling
<1>7. QED BY <1>5, <1>6

\* The ingestion takes the next event, and comes to believe what the events
\* after it go on from.
LEMMA IngestSettling ==
  ASSUME Typed, Typed', Settling, IngestRuntimeEvent
  PROVE  Settling'
<1>1. PICK e : e = Head(runtime)
  OBVIOUS
<1>2. /\ runtime # <<>> /\ ingest = NoSession /\ runtime' = Tail(runtime)
      /\ ingest' = IF ~Believes(e) THEN NoSession
                   ELSE CASE e.type = "turn.started"   -> Session("running", e.turn)
                          [] e.type = "turn.completed" -> Session("ready", NoTurn)
                          [] e.type = "session.exited" -> Session("stopped", NoTurn)
                          [] e.type = "session.started" ->
                               Session(IF session.turn = NoTurn THEN "ready" ELSE "running",
                                       session.turn)
      /\ UNCHANGED <<session, connected, active, reactor, overtaken, draining, drain, lost>>
  BY <1>1 DEF IngestRuntimeEvent, history
<1>3. runtime \in Seq(RuntimeEvents) /\ active \in Turns /\ session \in Sessions
  BY DEF Typed, TypeOK
<1>4. e \in RuntimeEvents
  BY <1>1, <1>2, <1>3, HeadTailProperties
<1>5. e.type \in {"turn.started", "turn.completed", "session.started", "session.exited"}
  BY <1>4 DEF RuntimeEvents
<1>6. Believed = session.turn
  BY <1>2 DEF Believed
<1>7. PICK b \in Turns : Tells(runtime, active, b) /\ (~overtaken => b = session.turn)
  BY <1>6 DEF Settling, Follows
<1>8. PICK c \in Turns :
        /\ Tells(runtime', active, c)
        /\ e.type = "turn.started" => b = NoTurn /\ c = e.turn
        /\ e.type = "turn.completed" => b \in {NoTurn, e.turn} /\ c = NoTurn
        /\ e.type = "session.exited" => c = NoTurn
        /\ e.type = "session.started" => c = b
  BY <1>1, <1>2, <1>3, <1>7, TellsRest
<1>9. ASSUME ~overtaken PROVE c = Believed'
  <2>1. b = session.turn /\ Believes(e)
    BY <1>5, <1>7, <1>8, <1>9 DEF Believes
  <2>2. CASE e.type = "turn.started"
    <3>1. ingest' = [status |-> "running", turn |-> e.turn]
      BY <1>2, <2>1, <2>2 DEF Session
    <3>2. QED BY <1>8, <2>2, <3>1 DEF Believed, NoSession
  <2>3. CASE e.type = "turn.completed"
    <3>1. ingest' = [status |-> "ready", turn |-> NoTurn]
      BY <1>2, <2>1, <2>3 DEF Session
    <3>2. QED BY <1>8, <2>3, <3>1 DEF Believed, NoSession
  <2>4. CASE e.type = "session.exited"
    <3>1. ingest' = [status |-> "stopped", turn |-> NoTurn]
      BY <1>2, <2>1, <2>4 DEF Session
    <3>2. QED BY <1>8, <2>4, <3>1 DEF Believed, NoSession
  <2>5. CASE e.type = "session.started"
    <3>1. PICK s \in {"ready", "running"} : ingest' = [status |-> s, turn |-> session.turn]
      BY <1>2, <2>1, <2>5 DEF Session
    <3>2. QED BY <1>8, <2>1, <2>5, <3>1 DEF Believed, NoSession
  <2>6. QED BY <1>5, <2>2, <2>3, <2>4, <2>5
<1>10. Follows'
  BY <1>2, <1>8, <1>9 DEF Follows
<1>11. ingest'.status \in {"none", "stopped"} => ingest'.turn = NoTurn
  <2>1. CASE ~Believes(e)
    BY <1>2, <2>1 DEF NoSession
  <2>2. CASE Believes(e)
    BY <1>2, <1>5, <2>2 DEF Session
  <2>3. QED BY <2>1, <2>2
<1>12. Vacant'
  BY <1>2, <1>11 DEF Settling, Vacant
<1>13. Marked'
  BY <1>2 DEF Settling, Marked, WorkerDrains, Promoting
<1>14. QED BY <1>10, <1>12, <1>13 DEF Settling

\* What the ingestion has decided is dispatched.
LEMMA DispatchSettling ==
  ASSUME Typed, Settling, DispatchSessionSet
  PROVE  Settling'
<1>1. /\ ingest # NoSession /\ session' = ingest /\ ingest' = NoSession
      /\ UNCHANGED <<connected, active, runtime, overtaken, draining, drain, lost>>
      /\ reactor.pc # "setting"
  BY DEF DispatchSessionSet, provider, history
<1>7. \/ reactor' = reactor /\ reactor.pc # "waiting"
      \/ reactor.pc = "waiting" /\ reactor'.pc = "setting"
  BY DEF DispatchSessionSet, Typed, TypeOK
<1>2. Believed' = Believed
  BY <1>1 DEF Believed
<1>3. Follows'
  BY <1>1, <1>2 DEF Settling, Follows
<1>4. Vacant'
  <2>1. CASE reactor' = reactor /\ reactor.pc # "waiting"
    BY <1>1, <2>1 DEF Settling, Vacant, NoSession
  <2>2. CASE reactor.pc = "waiting" /\ reactor'.pc = "setting"
    BY <1>1, <2>2 DEF Settling, Vacant, NoSession
  <2>3. QED BY <1>7, <2>1, <2>2
<1>5. Marked'
  BY <1>1, <1>7 DEF Settling, Marked, WorkerDrains, Promoting
<1>6. QED BY <1>3, <1>4, <1>5 DEF Settling

LEMMA InitSettling == Init => Settling
<1> SUFFICES ASSUME Init PROVE Settling
  OBVIOUS
<1>1. /\ session = NoSession /\ ingest = NoSession /\ active = NoTurn /\ runtime = <<>>
      /\ reactor = Resting /\ draining = FALSE /\ drain = [f \in Fibers |-> NotDraining]
  BY DEF Init
<1>2. NoTurn \in Turns /\ Believed = NoTurn
  BY <1>1 DEF Turns, NoTurn, Believed, NoSession
<1>3. Tells(runtime, active, NoTurn)
  <2>1. PICK turns : turns = [n \in Nat |-> NoTurn]
    OBVIOUS
  <2>2. turns \in [Nat -> Turns] /\ turns[1] = NoTurn
    BY <1>2, <2>1
  <2>3. Had(turns, runtime, active)
    BY <1>1, <2>2 DEF Had
  <2>4. QED BY <2>2, <2>3 DEF Tells
<1>4. Follows
  BY <1>2, <1>3 DEF Follows
<1>5. Vacant
  BY <1>1 DEF Vacant, NoSession, Resting
<1>6. Marked
  BY <1>1 DEF Marked, WorkerDrains, NotDraining, Fibers
<1>7. QED BY <1>4, <1>5, <1>6 DEF Settling

LEMMA StepSettling ==
  ASSUME Typed, Typed', Settling, [Next]_vars
  PROVE  Settling'
<1>1. CASE (\E m \in Messages : SendMessage(m)) \/ StopSession \/ Redeliver
  BY <1>1, UserSettling
<1>2. CASE Worker \/ SendTurnFails
  BY <1>2, WorkerSettling
<1>3. CASE HearTurnEnded \/ \E f \in Fibers : Drain(f) \/ DispatchQueuedFails(f)
  BY <1>3, DrainSettling
<1>4. CASE EndTurn
  BY <1>4, CloseSettling
<1>5. CASE Ingestion
  BY <1>5, IngestSettling, DispatchSettling DEF Ingestion
<1>6. CASE UNCHANGED vars
  <2>1. /\ UNCHANGED <<session, ingest, connected, active, runtime, reactor, overtaken>>
        /\ UNCHANGED <<draining, drain, lost>>
    BY <1>6 DEF vars, provider, history
  <2>2. Follows'
    BY <2>1, FollowsAlone DEF Settling
  <2>3. Vacant' /\ Marked'
    BY <2>1 DEF Settling, Vacant, Marked, WorkerDrains, Promoting
  <2>4. QED BY <2>2, <2>3 DEF Settling
<1>7. QED BY <1>1, <1>2, <1>3, <1>4, <1>5, <1>6 DEF Next

\* With no event on its way, nothing is left to be told.
LEMMA SettledIsShown == Settling => SettlesWithProvider
<1> SUFFICES ASSUME Settling, Quiet
             PROVE  (~overtaken => session.turn = active) /\ (draining => lost # {})
  BY DEF SettlesWithProvider
<1>1. ASSUME ~overtaken PROVE session.turn = active
  <2>1. runtime = <<>> /\ Believed = session.turn
    BY DEF Quiet, Believed
  <2>2. Tells(<<>>, active, session.turn)
    BY <1>1, <2>1 DEF Settling, Follows
  <2>3. PICK turns \in [Nat -> Turns] :
          /\ Had(turns, <<>>, active)
          /\ \/ session.turn = turns[1]
             \/ session.turn = NoTurn /\ (active = NoTurn \/ Turned(<<>>))
    BY <2>2 DEF Tells
  <2>4. turns[1] = active /\ ~Turned(<<>>)
    BY <2>3 DEF Had, Turned
  <2>5. QED BY <2>3, <2>4
<1>2. ASSUME draining PROVE lost # {}
  BY <1>2 DEF Settling, Marked, Quiet, Promoting
<1>3. QED BY <1>1, <1>2

\* For any messages, stops, faults and repeated events: when everything has
\* been processed, the session the decider looks at shows the provider's
\* turn, whatever overtook what on the way, unless a stop that spared a live
\* session set the thread's right after its turn was announced; and the thread
\* is not left marked as draining unless the engine failed a promotion.
THEOREM ThreadSettles == Spec => []SettlesWithProvider
<1>1. Init => Typed
  BY InitTypes
<1>2. Typed /\ [Next]_vars => Typed'
  BY StepTypes
<1>3. Init => Settling
  BY InitSettling
<1>4. Typed /\ Typed' /\ Settling /\ [Next]_vars => Settling'
  BY StepSettling
<1>5. Settling => SettlesWithProvider
  BY SettledIsShown
<1>6. QED BY <1>1, <1>2, <1>3, <1>4, <1>5, PTL DEF Spec

=============================================================================
