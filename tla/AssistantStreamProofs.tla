------------------------- MODULE AssistantStreamProofs -------------------------
(***************************************************************************)
(* Proofs about AssistantStream: the text of a message stays in order, an  *)
(* ended turn is shown whole, and a message is completed once.             *)
(*                                                                         *)
(* The argument: the events of a turn and of an item come in line          *)
(* (TurnsInLine, ItemsInLine); the active turn is the one whose events the *)
(* worker is at (ActiveIsCurrent); so an event without an id is still given*)
(* to its own turn and message (AloneAtEnd), what is shown, kept and in    *)
(* hand is what was heard (Heard), who is not finished is known (Finished),*)
(* and who is finished is forgotten (Single).  The provider's steps keep   *)
(* this by adding to the line, the handlers by taking its first event and  *)
(* setting todo, each dispatch by doing what was owed.                     *)
(***************************************************************************)
EXTENDS AssistantStream, SequenceTheorems, FiniteSetTheorems, TLAPS

\* The first n pieces of an item.
Count(n) == [i \in 1..n |-> i]

-----------------------------------------------------------------------------
(* Types                                                                   *)

Types == {"turn.started", "content.delta", "item.completed", "turn.completed", "turn.aborted",
          "runtime.error", "session.exited"}

Texts == Seq(Nat)

\* An event of the provider: of a turn, but for an exit between two turns.
Events ==
  {e \in [type : Types, thread : Threads, turn : Turns \cup {None}, msg : Messages \cup {None},
          text : Texts, named : BOOLEAN] :
     /\ e.turn # None => ThreadOf[e.turn] = e.thread
     /\ e.turn = None => e.type = "session.exited"
     /\ e.type = "session.exited" => ~e.named
     /\ e.type \in {"content.delta", "item.completed"} <=> e.msg # None
     /\ e.msg # None => TurnOf[e.msg] = e.turn}

OfTurn == {"flush", "delta", "complete", "forget", "forgetTurn"}

OfMessage == {"flush", "delta", "complete", "forget"}

\* A step of a handler.
Ops ==
  {s \in [op : OfTurn \cup {"session", "clear"}, thread : Threads, turn : Turns \cup {None},
          msg : Messages \cup {None}, text : Texts] :
     /\ s.turn # None => ThreadOf[s.turn] = s.thread
     /\ s.op \in OfTurn => s.turn # None
     /\ s.op \in OfMessage <=> s.msg # None
     /\ s.msg # None => TurnOf[s.msg] = s.turn
     /\ s.text # <<>> => s.op \in {"flush", "delta"}}

Typed ==
  /\ provider \in [Turns -> {"new", "open", "over"}]
  /\ item \in [Messages -> {"new", "live", "done"}]
  /\ said \in [Messages -> Texts]
  /\ runtime \in Seq(Events)
  /\ domain \in Seq([thread : Threads, mode : {"buffered", "streaming"}])
  /\ active \in [Threads -> Turns \cup {None}]
  /\ \A t \in Threads : active[t] # None => ThreadOf[active[t]] = t
  /\ message \in [Messages -> [text : Texts, streaming : BOOLEAN]]
  /\ mode \in {"buffered", "streaming"}
  /\ known \in [Turns -> SUBSET Messages]
  /\ \A u \in Turns : IsFiniteSet(known[u]) /\ \A m \in known[u] : TurnOf[m] = u
  /\ buffer \in [Messages -> Texts]
  /\ todo \in Seq(Ops)
  /\ completions \in [Messages -> Nat]
  /\ disturbed \subseteq Turns

-----------------------------------------------------------------------------
(* The events on their way                                                 *)

Starts(e, u) == e.type = "turn.started" /\ e.turn = u

Ends(e, u) ==
  /\ e.turn = u
  /\ \/ e.type \in {"turn.completed", "turn.aborted", "session.exited"}
     \/ e.type = "runtime.error" /\ ~e.named

EndsItem(e, m) == e.type = "item.completed" /\ e.msg = m

\* Turn v is over before the i-th event, or begins after it.
Apart(v, i) ==
  \/ \E k \in DOMAIN runtime : k > i /\ Starts(runtime[k], v)
  \/ provider[v] = "over" /\ \A k \in DOMAIN runtime : k >= i => runtime[k].turn # v

\* The events of a turn come from its start to its end, and those of the turns
\* of a thread one turn after the other.
TurnInLine(u, i) ==
  /\ runtime[i].turn = u => provider[u] # "new"
  /\ runtime[i].turn = u /\ provider[u] = "over" =>
       \E k \in DOMAIN runtime : k >= i /\ Ends(runtime[k], u)
  /\ runtime[i].type = "runtime.error" /\ runtime[i].turn = u => u \in erred
  /\ Starts(runtime[i], u) => \A j \in DOMAIN runtime : j < i => runtime[j].turn # u
  /\ Ends(runtime[i], u) =>
       provider[u] = "over" /\ \A j \in DOMAIN runtime : j > i => runtime[j].turn # u
  /\ ThreadOf[u] = runtime[i].thread /\ runtime[i].turn # u /\ provider[u] # "new" => Apart(u, i)

TurnsInLine ==
  /\ \A u, v \in Turns :
       ThreadOf[u] = ThreadOf[v] /\ provider[u] = "open" /\ provider[v] = "open" => u = v
  /\ \A i \in DOMAIN runtime : \A u \in Turns : TurnInLine(u, i)

\* What is said of an item is numbered, and its end comes last.
ItemInLine(m, i) ==
  runtime[i].msg = m =>
    /\ item[m] # "new"
    /\ item[m] = "done" => \E k \in DOMAIN runtime : k >= i /\ EndsItem(runtime[k], m)
    /\ EndsItem(runtime[i], m) =>
         /\ item[m] = "done" /\ runtime[i].text = said[m]
         /\ \A j \in DOMAIN runtime : j > i => runtime[j].msg # m
    /\ runtime[i].type = "content.delta" =>
         /\ runtime[i].named
         /\ \E k \in 1..Len(said[m]) :
              /\ runtime[i].text = <<k>>
              /\ \A j \in DOMAIN runtime :
                   j < i /\ runtime[j].msg = m => \E l \in 1..(k - 1) : runtime[j].text = <<l>>

ItemsInLine ==
  /\ \A m \in Messages :
       /\ said[m] = Count(Len(said[m]))
       /\ item[m] = "new" <=> said[m] = <<>>
       /\ item[m] # "new" => provider[TurnOf[m]] # "new"
  /\ \A i \in DOMAIN runtime : \A m \in Messages : ItemInLine(m, i)

-----------------------------------------------------------------------------
(* What is left of a handler                                               *)

Has(op, m) == \E i \in DOMAIN todo : todo[i].op = op /\ todo[i].msg = m

\* A turn, or a message, will be forgotten.
ForgetsTurn(u) == \E i \in DOMAIN todo : todo[i].op = "forgetTurn" /\ todo[i].turn = u

ClearsThread(t) == \E i \in DOMAIN todo : todo[i].op = "clear" /\ todo[i].thread = t

Forgets(m) == Has("forget", m) \/ ForgetsTurn(TurnOf[m]) \/ ClearsThread(ThreadOfMessage(m))

Knows(m) == m \in known[TurnOf[m]]

\* Text is first, a flush comes before the completion, and the handler is
\* about one thread, and one turn of it.
InOrder(q) ==
  \A i, j \in DOMAIN q :
    /\ q[i].thread = q[j].thread
    /\ q[i].op \in OfTurn /\ q[j].op \in OfTurn => q[i].turn = q[j].turn
    /\ q[i].op = "session" /\ q[j].op = "session" => i = j
    /\ i < j /\ q[i].op = "complete" /\ q[j].op \in {"flush", "delta", "complete"} =>
         q[i].msg # q[j].msg
    /\ q[i].op = "delta" => i = j
    /\ i < j /\ q[i].op = "clear" => q[j].op # "flush"
    /\ q[i].text # <<>> => i = 1

Handling ==
  /\ InOrder(todo)
  /\ \A i \in DOMAIN todo : todo[i].op = "flush" =>
       \/ \E j \in DOMAIN todo : j > i /\ todo[j].op = "complete" /\ todo[j].msg = todo[i].msg
       \/ Knows(todo[i].msg) /\ ~Forgets(todo[i].msg)

-----------------------------------------------------------------------------
(* The turns                                                               *)

\* The worker has handled the start of the turn and not its end.
Current(u) ==
  /\ provider[u] # "new" /\ ~(\E i \in DOMAIN runtime : Starts(runtime[i], u))
  /\ provider[u] = "over" => \E i \in DOMAIN runtime : Ends(runtime[i], u)

\* The turn is active once the handler is done.
Becomes(t, u) ==
  \/ \E i \in DOMAIN todo : todo[i].op = "session" /\ todo[i].thread = t /\ todo[i].turn = u
  \/ active[t] = u /\ ~(\E i \in DOMAIN todo : todo[i].op = "session" /\ todo[i].thread = t)

\* The active turn is the current one.
ActiveIsCurrent ==
  \A u \in Turns \ disturbed : \A v \in Turns \cup {None} :
    Becomes(ThreadOf[u], v) =>
      /\ v # None => ThreadOf[v] = ThreadOf[u] /\ Current(v)
      /\ Current(u) => v = u

-----------------------------------------------------------------------------
(* The messages                                                            *)

Held(m) == message[m].text \o buffer[m]

\* What the handler has taken of it: text that is to be said, or is if nothing is kept.
Taking(q, kept, m) ==
  IF q # <<>> /\ Head(q).msg = m /\ (Head(q).op = "flush" => kept = <<>>)
    THEN Head(q).text ELSE <<>>

Owed(m) == Taking(todo, buffer[m], m)

\* What the worker has heard of the message.
Got(m) == Held(m) \o Owed(m)

\* The first n of l pieces have been heard, the others are on their way.
HeardUpTo(m, n, l) ==
  /\ Got(m) = Count(n)
  /\ \A i \in DOMAIN runtime :
       runtime[i].msg = m /\ runtime[i].type = "content.delta" =>
         ~(\E k \in 1..n : runtime[i].text = <<k>>)
  /\ \A k \in (n + 1)..l :
       \E i \in DOMAIN runtime :
         runtime[i].msg = m /\ runtime[i].named /\ runtime[i].text = <<k>>

\* The text is what has been heard, and nothing is kept that need not be.
Heard(m) ==
  /\ \E n \in 0..Len(said[m]) : HeardUpTo(m, n, Len(said[m]))
  /\ Has("delta", m) => buffer[m] = <<>> /\ Knows(m)
  /\ mode = "streaming" => buffer[m] = <<>> \/ Has("flush", m)

\* A message that is not finished, and will not be by the handler, is known.
Finishing(m) ==
  /\ buffer[m] = <<>> \/ Has("flush", m)
  /\ ~message[m].streaming \/ Has("complete", m)

EndComes(m) == \E i \in DOMAIN runtime : EndsItem(runtime[i], m)

Finished(m) ==
  /\ ~Finishing(m) => Knows(m) /\ ~Forgets(m)
  /\ Knows(m) => /\ Got(m) # <<>>
                 /\ \/ ForgetsTurn(TurnOf[m])
                    \/ /\ Current(TurnOf[m])
                       /\ item[m] = "live" \/ EndComes(m) \/ Has("forget", m)

\* No item but this one is live when an item ends without its id, or was not
\* heard of before its end.
NotLive(m, i) ==
  \/ item[m] = "done" /\ \A j \in DOMAIN runtime : j >= i => runtime[j].msg # m
  \/ Got(m) = <<>> /\ \A j \in DOMAIN runtime : j <= i => runtime[j].msg # m

Lonely(i) ==
  \/ ~runtime[i].named
  \/ Got(runtime[i].msg) = <<>>
     /\ \A j \in DOMAIN runtime : j < i => runtime[j].msg # runtime[i].msg

AloneAtEnd(u) ==
  \A i \in DOMAIN runtime :
    runtime[i].turn = u /\ runtime[i].type = "item.completed" /\ Lonely(i) =>
      \A m \in MessagesOf(u) : m # runtime[i].msg => NotLive(m, i)

\* Nothing is known that the turn has not come to.
Undisturbed(u) ==
  /\ \A m \in MessagesOf(u) : Heard(m) /\ Finished(m)
  /\ AloneAtEnd(u)

\* The worker has handled the end of the item, or of its turn.
Gone(m) == ~Current(TurnOf[m]) \/ (item[m] = "done" /\ ~EndComes(m))

Begun(u) == provider[u] # "new" /\ ~(\E i \in DOMAIN runtime : Starts(runtime[i], u))

\* Without an error a message is known until it is gone, and completed then.
Single(m) ==
  /\ Current(TurnOf[m]) /\ Got(m) # <<>> /\ ~Gone(m) => Knows(m)
  /\ Has("complete", m) => completions[m] = 0
  /\ Has("complete", m) \/ Forgets(m) \/ completions[m] > 0 => Gone(m)
  /\ completions[m] <= 1
  /\ (completions[m] > 0 \/ Has("complete", m)) /\ Knows(m) => Forgets(m)
  /\ Got(m) # <<>> \/ completions[m] > 0 \/ Has("complete", m) => Begun(TurnOf[m])

Streamed ==
  /\ TurnsInLine /\ ItemsInLine /\ Handling /\ ActiveIsCurrent
  /\ \A u \in Turns \ disturbed : Undisturbed(u)
  /\ \A u \in Turns \ (disturbed \cup erred) : \A m \in MessagesOf(u) : Single(m)

-----------------------------------------------------------------------------
(* Sequences                                                               *)

\* An element joins at the end ...
LEMMA AtEnd ==
  ASSUME NEW S, NEW s \in Seq(S), NEW x \in S, NEW r, r = Append(s, x)
  PROVE  /\ r \in Seq(S) /\ Len(s) \in Nat /\ DOMAIN s = 1..Len(s) /\ DOMAIN r = 1..(Len(s) + 1)
         /\ Len(r) = Len(s) + 1
         /\ \A i \in DOMAIN s : r[i] = s[i] /\ i \in DOMAIN r /\ i # Len(s) + 1
         /\ r[Len(s) + 1] = x /\ Len(s) + 1 \in DOMAIN r
         /\ \A i \in DOMAIN r : i \in DOMAIN s \/ i = Len(s) + 1
<1>1. /\ r \in Seq(S) /\ Len(r) = Len(s) + 1 /\ Len(s) \in Nat
      /\ \A i \in 1..Len(s) : r[i] = s[i]
      /\ r[Len(s) + 1] = x /\ DOMAIN r = 1..(Len(s) + 1) /\ DOMAIN s = 1..Len(s)
  BY AppendProperties, LenProperties
<1>2. QED BY <1>1

\* ... or leaves at the head ...
Shifts(s, e, r) ==
  /\ s[1] = e /\ 1 \in DOMAIN s
  /\ \A i \in DOMAIN r : i \in Nat /\ i + 1 \in DOMAIN s /\ s[i + 1] = r[i] /\ i + 1 > 1
  /\ \A i \in DOMAIN s : i = 1 \/ \E j \in DOMAIN r : i = j + 1

LEMMA AtHead ==
  ASSUME NEW S, NEW s \in Seq(S), s # <<>>, NEW e, e = Head(s), NEW r, r = Tail(s)
  PROVE  /\ e \in S /\ r \in Seq(S) /\ Len(s) \in Nat /\ Len(s) # 0 /\ Len(r) = Len(s) - 1
         /\ DOMAIN s = 1..Len(s) /\ DOMAIN r = 1..(Len(s) - 1)
         /\ Shifts(s, e, r)
<1>1. /\ e = s[1] /\ e \in S /\ r \in Seq(S) /\ Len(r) = Len(s) - 1 /\ Len(s) \in Nat
      /\ Len(s) # 0 /\ \A i \in 1..Len(r) : r[i] = s[i + 1]
      /\ DOMAIN r = 1..(Len(s) - 1) /\ DOMAIN s = 1..Len(s)
  BY HeadTailProperties, LenProperties, EmptySeq
<1>2. ASSUME NEW i \in DOMAIN s, i # 1
      PROVE  \E j \in DOMAIN r : i = j + 1
  <2>1. PICK j : j = i - 1
    OBVIOUS
  <2>2. j \in DOMAIN r /\ i = j + 1
    BY <1>1, <1>2, <2>1
  <2>3. QED BY <2>2
<1>3. QED BY <1>1, <1>2 DEF Shifts

\* ... or joins before the others.
LEMMA JoinsFront ==
  ASSUME NEW S, NEW s \in Seq(S), NEW x \in S
  PROVE  \E r \in Seq(S) :
           r = <<x>> \o s /\ Len(r) = Len(s) + 1 /\ r[1] = x /\ \A i \in 1..Len(s) : r[i + 1] = s[i]
<1>1. PICK p : p = <<x>>
  OBVIOUS
<1>2. p \in Seq(S) /\ Len(p) = 1 /\ p[1] = x
  BY <1>1
<1>3. PICK r : r = p \o s
  OBVIOUS
<1>4. /\ r \in Seq(S) /\ Len(r) = 1 + Len(s) /\ Len(s) \in Nat
      /\ \A i \in 1..(1 + Len(s)) : r[i] = IF i <= 1 THEN p[i] ELSE s[i - 1]
  <2>1. /\ p \o s \in Seq(S) /\ Len(p \o s) = Len(p) + Len(s)
        /\ \A i \in 1..(Len(p) + Len(s)) :
             (p \o s)[i] = IF i <= Len(p) THEN p[i] ELSE s[i - Len(p)]
    BY <1>2, ConcatProperties
  <2>2. r \in Seq(S) /\ Len(r) = 1 + Len(s) /\ Len(s) \in Nat
    BY <1>2, <1>3, <2>1
  <2>3. \A i \in 1..(1 + Len(s)) : r[i] = IF i <= 1 THEN p[i] ELSE s[i - 1]
    BY <1>2, <1>3, <2>1
  <2>4. QED BY <2>2, <2>3
<1>5. r[1] = x
  BY ONLY <1>2, <1>4
<1>6. \A i \in 1..Len(s) : r[i + 1] = s[i]
  BY ONLY <1>4
<1>7. r = <<x>> \o s
  BY <1>1, <1>3
<1>8. Len(r) = Len(s) + 1
  BY ONLY <1>4
<1>9. r \in Seq(S)
  BY <1>4
<1>10. QED BY ONLY <1>5, <1>6, <1>7, <1>8, <1>9, Zenon

\* A joined element at the end, by concatenation.
LEMMA JoinsOne ==
  ASSUME NEW S, NEW s \in Seq(S), NEW x \in S
  PROVE  s \o <<x>> = Append(s, x)
BY AppendIsConcat

\* What the order of a set's elements is.
LEMMA OrderOfSet ==
  ASSUME NEW S, IsFiniteSet(S), NEW ids, ids = SetToSeq(S)
  PROVE  /\ ids \in Seq(S) /\ Len(ids) \in Nat /\ DOMAIN ids = 1..Len(ids)
         /\ \A x \in S : \E i \in 1..Len(ids) : ids[i] = x
         /\ \A i, j \in 1..Len(ids) : ids[i] = ids[j] => i = j
<1>1. PICK n : n = Cardinality(S)
  OBVIOUS
<1>2. n \in Nat /\ ExistsBijection(1..n, S)
  BY <1>1, FS_CardinalityType
<1>3. PICK f \in [1..n -> S] : IsInjective(f)
  <2>1. PICK f \in Bijection(1..n, S) : TRUE
    BY <1>2 DEF ExistsBijection
  <2>2. QED BY <2>1 DEF Bijection, Injection
<1>4. ids \in [1..n -> S] /\ IsInjective(ids)
  BY <1>1, <1>3 DEF SetToSeq
<1>5. \A i, j \in 1..n : ids[i] = ids[j] => i = j
  BY <1>4 DEF IsInjective
<1>6. ids \in Seq(S) /\ Len(ids) = n /\ DOMAIN ids = 1..n
  BY <1>2, <1>4, SeqDef
<1>7. ids \in Surjection(1..n, S)
  <2>1. IsFiniteSet(1..n) /\ Cardinality(1..n) = n
    BY <1>2, FS_Interval
  <2>2. ids \in Injection(1..n, S)
    BY <1>4 DEF Injection
  <2>3. QED BY <1>1, <2>1, <2>2, FS_Injection
<1>8. \A x \in S : \E i \in 1..n : ids[i] = x
  BY <1>7 DEF Surjection
<1>9. QED BY <1>2, <1>5, <1>6, <1>8

-----------------------------------------------------------------------------
(* The steps of handlers                                                   *)

\* What the steps are.
LEMMA StepsAre ==
  ASSUME NEW m \in Messages, NEW text \in Texts, NEW u \in Turns
  PROVE  /\ \A s \in {Flush(m, text), Say(m, text), Complete(m), Forget(m)} :
              s \in Ops /\ s.msg = m /\ s.turn = TurnOf[m] /\ s.thread = ThreadOf[TurnOf[m]]
         /\ Flush(m, text).op = "flush" /\ Flush(m, text).text = text
         /\ Say(m, text).op = "delta" /\ Say(m, text).text = text
         /\ Complete(m).op = "complete" /\ Complete(m).text = <<>>
         /\ Forget(m).op = "forget" /\ Forget(m).text = <<>>
         /\ ForgetTurn(u) \in Ops /\ ForgetTurn(u).op = "forgetTurn" /\ ForgetTurn(u).turn = u
         /\ ForgetTurn(u).thread = ThreadOf[u] /\ ForgetTurn(u).text = <<>>
         /\ ForgetTurn(u).msg = None
<1>1. /\ TurnOf[m] \in Turns /\ ThreadOf[TurnOf[m]] \in Threads /\ ThreadOf[u] \in Threads
      /\ None \notin Turns /\ None \notin Messages /\ m # None /\ u # None /\ <<>> \in Texts
  BY AssistantAssumption DEF Texts
<1>2. /\ Say(m, text) = [op |-> "delta", thread |-> ThreadOf[TurnOf[m]], turn |-> TurnOf[m],
                         msg |-> m, text |-> text]
      /\ Say(m, <<>>) = [op |-> "delta", thread |-> ThreadOf[TurnOf[m]], turn |-> TurnOf[m],
                         msg |-> m, text |-> <<>>]
  BY DEF Say, ThreadOfMessage
<1>3. /\ Flush(m, text) = [op |-> "flush", thread |-> ThreadOf[TurnOf[m]], turn |-> TurnOf[m],
                           msg |-> m, text |-> text]
      /\ Complete(m) = [op |-> "complete", thread |-> ThreadOf[TurnOf[m]], turn |-> TurnOf[m],
                        msg |-> m, text |-> <<>>]
      /\ Forget(m) = [op |-> "forget", thread |-> ThreadOf[TurnOf[m]], turn |-> TurnOf[m],
                      msg |-> m, text |-> <<>>]
  BY <1>2 DEF Flush, Complete, Forget
<1>4. ForgetTurn(u) = [op |-> "forgetTurn", thread |-> ThreadOf[u], turn |-> u, msg |-> None,
                       text |-> <<>>]
  BY DEF ForgetTurn, SetSession
<1>5. \A s \in {Flush(m, text), Say(m, text), Complete(m), Forget(m)} : s \in Ops
  BY <1>1, <1>2, <1>3 DEF Ops, OfTurn, OfMessage
<1>6. ForgetTurn(u) \in Ops
  BY <1>1, <1>4 DEF Ops, OfTurn, OfMessage
<1>7. QED BY <1>2, <1>3, <1>4, <1>5, <1>6

LEMMA ThreadStepsAre ==
  ASSUME NEW t \in Threads, NEW u \in Turns \cup {None}, u # None => ThreadOf[u] = t
  PROVE  /\ \A s \in {SetSession(t, u), ClearThread(t)} :
              s \in Ops /\ s.thread = t /\ s.text = <<>> /\ s.msg = None
         /\ SetSession(t, u).op = "session" /\ SetSession(t, u).turn = u
         /\ ClearThread(t).op = "clear"
<1>1. /\ SetSession(t, u) = [op |-> "session", thread |-> t, turn |-> u, msg |-> None,
                             text |-> <<>>]
      /\ ClearThread(t) = [op |-> "clear", thread |-> t, turn |-> None, msg |-> None,
                           text |-> <<>>]
  BY DEF SetSession, ClearThread
<1>2. <<>> \in Texts
  BY DEF Texts
<1>3. QED BY <1>1, <1>2 DEF Ops, OfTurn, OfMessage

\* The steps of q finish what is known of turn u.
Finishes(q, t, u) ==
  /\ q \in Seq(Ops)
  /\ \A i \in DOMAIN q :
       /\ q[i].thread = t /\ q[i].text = <<>>
       /\ q[i].op \in {"session", "clear", "flush", "complete", "forgetTurn"}
       /\ q[i].op \in OfTurn => u # None /\ q[i].turn = u
       /\ q[i].op \in OfMessage => q[i].msg \in known[u]
       /\ q[i].op = "flush" =>
            \E j \in DOMAIN q : j > i /\ q[j].op = "complete" /\ q[j].msg = q[i].msg
       /\ q[i].op = "complete" =>
            \A j \in DOMAIN q :
              j > i /\ q[j].op \in {"flush", "complete"} => q[j].msg # q[i].msg
       /\ q[i].op = "clear" => \A j \in DOMAIN q : j > i => q[j].op # "flush"
  /\ u # None =>
       /\ \E i \in DOMAIN q : q[i].op = "forgetTurn"
       /\ \A m \in known[u] :
            /\ \E i \in DOMAIN q : q[i].op = "flush" /\ q[i].msg = m
            /\ \E i \in DOMAIN q : q[i].op = "complete" /\ q[i].msg = m

Sets(q) == {i \in DOMAIN q : q[i].op = "session"}

Clears(q) == {i \in DOMAIN q : q[i].op = "clear"}

\* The steps at which the messages of a turn are finished, two each.
LEMMA PairsAre ==
  ASSUME NEW ids \in Seq(Messages), NEW p,
         p = [i \in 1..(2 * Len(ids)) |->
                IF i % 2 = 1 THEN Flush(ids[(i + 1) \div 2], <<>>) ELSE Complete(ids[i \div 2])]
  PROVE  /\ p \in Seq(Ops) /\ DOMAIN p = 1..(2 * Len(ids)) /\ Len(p) = 2 * Len(ids)
         /\ \A k \in 1..Len(ids) :
              /\ k \in Nat /\ 2 * k - 1 \in DOMAIN p /\ 2 * k \in DOMAIN p
              /\ p[2 * k - 1] = Flush(ids[k], <<>>) /\ p[2 * k] = Complete(ids[k])
         /\ \A i \in DOMAIN p : \E k \in 1..Len(ids) : i = 2 * k - 1 \/ i = 2 * k
<1>1. Len(ids) \in Nat /\ 2 * Len(ids) \in Nat
  OBVIOUS
<1>2. ASSUME NEW k \in 1..Len(ids)
      PROVE  /\ k \in Nat /\ 2 * k - 1 \in 1..(2 * Len(ids)) /\ 2 * k \in 1..(2 * Len(ids))
             /\ (2 * k - 1) % 2 = 1 /\ ((2 * k - 1) + 1) \div 2 = k
             /\ (2 * k) % 2 = 0 /\ (2 * k) \div 2 = k
  BY <1>1
<1>3. ASSUME NEW i \in 1..(2 * Len(ids))
      PROVE  \E k \in 1..Len(ids) : i = 2 * k - 1 \/ i = 2 * k
  <2>1. PICK k : k = (i + 1) \div 2
    OBVIOUS
  <2>2. k \in 1..Len(ids) /\ (i = 2 * k - 1 \/ i = 2 * k)
    BY <1>1, <2>1
  <2>3. QED BY <2>2
<1>4. ASSUME NEW k \in 1..Len(ids)
      PROVE  p[2 * k - 1] = Flush(ids[k], <<>>) /\ p[2 * k] = Complete(ids[k])
  <2>1. p[2 * k - 1] = Flush(ids[((2 * k - 1) + 1) \div 2], <<>>)
    BY <1>2
  <2>2. p[2 * k] = Complete(ids[(2 * k) \div 2])
    BY <1>2
  <2>3. QED BY <1>2, <2>1, <2>2
<1>5. DOMAIN p = 1..(2 * Len(ids))
  OBVIOUS
<1>6. p \in [1..(2 * Len(ids)) -> Ops]
  <2>1. ASSUME NEW i \in 1..(2 * Len(ids))
        PROVE  p[i] \in Ops
    <3>1. PICK k \in 1..Len(ids) : i = 2 * k - 1 \/ i = 2 * k
      BY <1>3
    <3>2. ids[k] \in Messages /\ <<>> \in Texts
      BY DEF Texts
    <3>3. Flush(ids[k], <<>>) \in Ops /\ Complete(ids[k]) \in Ops
      <4>1. TurnOf[ids[k]] \in Turns
        BY <3>2, AssistantAssumption
      <4>2. QED BY <3>2, <4>1, StepsAre
    <3>4. QED BY <1>4, <3>1, <3>3
  <2>2. QED BY <2>1
<1>7. p \in Seq(Ops) /\ Len(p) = 2 * Len(ids)
  BY <1>1, <1>5, <1>6, SeqDef
<1>8. QED BY <1>2, <1>3, <1>4, <1>5, <1>7

LEMMA FinalizeTurnIs ==
  ASSUME Typed, NEW u \in Turns, NEW q, q = FinalizeTurn(u)
  PROVE  Finishes(q, ThreadOf[u], u) /\ Sets(q) = {} /\ Clears(q) = {}
<1>1. PICK ids : ids = SetToSeq(known[u])
  OBVIOUS
<1>2. /\ IsFiniteSet(known[u]) /\ known[u] \subseteq Messages /\ \A m \in known[u] : TurnOf[m] = u
      /\ u # None
  BY AssistantAssumption DEF Typed
<1>3. /\ ids \in Seq(known[u]) /\ Len(ids) \in Nat
      /\ \A x \in known[u] : \E i \in 1..Len(ids) : ids[i] = x
      /\ \A i, j \in 1..Len(ids) : ids[i] = ids[j] => i = j
  BY <1>1, <1>2, OrderOfSet
<1>4. ids \in Seq(Messages)
  BY <1>2, <1>3, SeqMonotonic
<1>5. PICK p : p = [i \in 1..(2 * Len(ids)) |->
                IF i % 2 = 1 THEN Flush(ids[(i + 1) \div 2], <<>>) ELSE Complete(ids[i \div 2])]
  OBVIOUS
<1>6. /\ p \in Seq(Ops) /\ DOMAIN p = 1..(2 * Len(ids)) /\ Len(p) = 2 * Len(ids)
      /\ \A k \in 1..Len(ids) :
              /\ k \in Nat /\ 2 * k - 1 \in DOMAIN p /\ 2 * k \in DOMAIN p
              /\ p[2 * k - 1] = Flush(ids[k], <<>>) /\ p[2 * k] = Complete(ids[k])
      /\ \A i \in DOMAIN p : \E k \in 1..Len(ids) : i = 2 * k - 1 \/ i = 2 * k
  BY ONLY <1>4, <1>5, PairsAre, Zenon
<1>7. PICK f : f = ForgetTurn(u)
  OBVIOUS
<1>8. /\ f \in Ops /\ f.op = "forgetTurn" /\ f.turn = u /\ f.thread = ThreadOf[u] /\ f.text = <<>>
  <2>1. CASE Messages = {}
    <3>1. f = [op |-> "forgetTurn", thread |-> ThreadOf[u], turn |-> u, msg |-> None,
                       text |-> <<>>]
      BY <1>7 DEF ForgetTurn, SetSession
    <3>2. ThreadOf[u] \in Threads /\ <<>> \in Texts
      BY AssistantAssumption DEF Texts
    <3>3. QED BY <1>2, <3>1, <3>2 DEF Ops, OfTurn, OfMessage
  <2>2. CASE Messages # {}
    <3>1. PICK m \in Messages : TRUE
      BY <2>2
    <3>2. <<>> \in Texts
      BY DEF Texts
    <3>3. QED BY <1>7, <3>1, <3>2, StepsAre
  <2>3. QED BY <2>1, <2>2
<1>9. q = Append(p, f)
  <2>1. q = p \o <<f>>
    BY <1>1, <1>5, <1>7 DEF FinalizeTurn
  <2>2. QED BY <1>6, <1>8, <2>1, JoinsOne
<1>10. ASSUME NEW k \in 1..Len(ids)
      PROVE  /\ ids[k] \in known[u] /\ ids[k] \in Messages
             /\ p[2 * k - 1].op = "flush" /\ p[2 * k].op = "complete"
             /\ \A s \in {p[2 * k - 1], p[2 * k]} :
                  s.msg = ids[k] /\ s.turn = u /\ s.thread = ThreadOf[u] /\ s.text = <<>>
  <2>1. ids[k] \in known[u] /\ ids[k] \in Messages /\ TurnOf[ids[k]] = u /\ <<>> \in Texts
    BY <1>2, <1>3 DEF Texts
  <2>2. p[2 * k - 1] = Flush(ids[k], <<>>) /\ p[2 * k] = Complete(ids[k])
    BY <1>6
  <2>3. QED BY <2>1, <2>2, StepsAre
<1>11. PICK n : n = 2 * Len(ids) + 1
  OBVIOUS
<1>12. /\ q \in Seq(Ops) /\ DOMAIN q = 1..n /\ q[n] = f /\ n \in DOMAIN q
       /\ \A i \in DOMAIN p : q[i] = p[i] /\ i \in DOMAIN q /\ i # n
       /\ \A i \in DOMAIN q : i \in DOMAIN p \/ i = n
  BY <1>6, <1>8, <1>9, <1>11, AtEnd
<1>13. ASSUME NEW i \in DOMAIN q
      PROVE  \/ i = n /\ q[i] = f
             \/ \E k \in 1..Len(ids) : i = 2 * k - 1 /\ q[i] = p[2 * k - 1]
             \/ \E k \in 1..Len(ids) : i = 2 * k /\ q[i] = p[2 * k]
  BY <1>6, <1>12
<1>14. ASSUME NEW i \in DOMAIN q
      PROVE  /\ q[i].thread = ThreadOf[u] /\ q[i].text = <<>>
             /\ q[i].op \in {"flush", "complete", "forgetTurn"}
             /\ q[i].turn = u
             /\ q[i].op \in OfMessage => q[i].msg \in known[u]
  BY <1>8, <1>10, <1>13 DEF OfMessage
<1>15. ASSUME NEW i \in DOMAIN q, q[i].op = "flush"
      PROVE  \E j \in DOMAIN q : j > i /\ q[j].op = "complete" /\ q[j].msg = q[i].msg
  <2>1. PICK k \in 1..Len(ids) : i = 2 * k - 1 /\ q[i] = p[2 * k - 1]
    BY <1>8, <1>10, <1>13, <1>15
  <2>2. 2 * k \in DOMAIN p /\ k \in Nat
    BY <1>6
  <2>3. 2 * k \in DOMAIN q /\ q[2 * k] = p[2 * k]
    BY <1>12, <2>2
  <2>4. 2 * k > i
    BY <2>1, <2>2
  <2>5. q[2 * k].op = "complete" /\ q[2 * k].msg = q[i].msg
    BY <1>10, <2>1, <2>3
  <2>6. QED BY <2>3, <2>4, <2>5
<1>16. ASSUME NEW i \in DOMAIN q, q[i].op = "complete", NEW j \in DOMAIN q, j > i,
              q[j].op \in {"flush", "complete"}
      PROVE  q[j].msg # q[i].msg
  <2>1. PICK k \in 1..Len(ids) : i = 2 * k /\ q[i] = p[2 * k]
    BY <1>8, <1>10, <1>13, <1>16
  <2>2. PICK l \in 1..Len(ids) :
           (j = 2 * l - 1 /\ q[j] = p[2 * l - 1]) \/ (j = 2 * l /\ q[j] = p[2 * l])
    BY <1>8, <1>13, <1>16
  <2>3. k \in Nat /\ l \in Nat /\ k # l
    BY <1>6, <1>16, <2>1, <2>2
  <2>4. q[i].msg = ids[k] /\ q[j].msg = ids[l]
    BY <1>10, <2>1, <2>2
  <2>5. QED BY <1>3, <2>3, <2>4
<1>17. ASSUME NEW m \in known[u]
      PROVE  /\ \E i \in DOMAIN q : q[i].op = "flush" /\ q[i].msg = m
             /\ \E i \in DOMAIN q : q[i].op = "complete" /\ q[i].msg = m
  <2>1. PICK k \in 1..Len(ids) : ids[k] = m
    BY <1>3
  <2>2. /\ 2 * k - 1 \in DOMAIN q /\ q[2 * k - 1] = p[2 * k - 1]
        /\ 2 * k \in DOMAIN q /\ q[2 * k] = p[2 * k]
    BY <1>6, <1>12
  <2>3. QED BY <1>10, <2>1, <2>2
<1>18. Finishes(q, ThreadOf[u], u)
  BY <1>2, <1>8, <1>12, <1>14, <1>15, <1>16, <1>17 DEF Finishes
<1>19. QED BY <1>14, <1>18 DEF Sets, Clears

\* Sequence r is q and one element more.
Joins(q, x, r) ==
  \E n \in DOMAIN r :
    /\ r[n] = x
    /\ \A j \in DOMAIN q : \E i \in DOMAIN r : i # n /\ r[i] = q[j]
    /\ \A i \in DOMAIN r : i # n => \E j \in DOMAIN q : r[i] = q[j]
    /\ \A i, j \in DOMAIN r : i # n /\ j # n /\ i # j =>
         \E k, l \in DOMAIN q : k # l /\ r[i] = q[k] /\ r[j] = q[l]

\* A step for the thread comes before the others ...
LEMMA FinishesAfter ==
  ASSUME Typed, NEW t, NEW u, NEW q, Finishes(q, t, u), NEW x \in Ops, x.thread = t,
         x.text = <<>>, x.op = "session",
         NEW r \in Seq(Ops), Len(r) = Len(q) + 1, r[1] = x, \A i \in 1..Len(q) : r[i + 1] = q[i]
  PROVE  Finishes(r, t, u) /\ Joins(q, x, r)
<1>1. q \in Seq(Ops)
  BY DEF Finishes
<1>2. /\ r \in Seq(Ops) /\ r[1] = x /\ 1 \in DOMAIN r
      /\ \A i \in DOMAIN q : i \in Nat /\ i + 1 \in DOMAIN r /\ r[i + 1] = q[i] /\ i + 1 > 1
      /\ \A i \in DOMAIN r : i = 1 \/ \E j \in DOMAIN q : i = j + 1
  <2>1. PICK m : m = Len(q)
    OBVIOUS
  <2>2. /\ m \in Nat /\ DOMAIN q = 1..m /\ DOMAIN r = 1..(m + 1)
        /\ \A i \in 1..m : r[i + 1] = q[i]
    BY <1>1, <2>1, LenProperties
  <2>3. ASSUME NEW i \in DOMAIN r, i # 1
        PROVE  \E j \in DOMAIN q : i = j + 1
    <3>1. PICK j : j = i - 1
      OBVIOUS
    <3>2. j \in DOMAIN q /\ i = j + 1
      BY ONLY <2>2, <2>3, <3>1
    <3>3. QED BY <3>2
  <2>4. 1 \in DOMAIN r
    BY ONLY <2>2
  <2>5. \A i \in DOMAIN q : i \in Nat /\ i + 1 \in DOMAIN r /\ r[i + 1] = q[i] /\ i + 1 > 1
    BY ONLY <2>2
  <2>6. QED BY <2>3, <2>4, <2>5
<1>3. x.op \notin OfTurn /\ x.op \notin OfMessage
  BY DEF OfTurn, OfMessage
<1>4. ASSUME NEW i \in DOMAIN r
      PROVE  /\ r[i].thread = t /\ r[i].text = <<>>
             /\ r[i].op \in {"session", "clear", "flush", "complete", "forgetTurn"}
             /\ r[i].op \in OfTurn => u # None /\ r[i].turn = u
             /\ r[i].op \in OfMessage => r[i].msg \in known[u]
             /\ r[i].op = "flush" =>
                  \E j \in DOMAIN r : j > i /\ r[j].op = "complete" /\ r[j].msg = r[i].msg
             /\ r[i].op = "complete" =>
                  \A j \in DOMAIN r :
                    j > i /\ r[j].op \in {"flush", "complete"} => r[j].msg # r[i].msg
             /\ r[i].op = "clear" => \A j \in DOMAIN r : j > i => r[j].op # "flush"
  <2>1. CASE i = 1
    BY <1>2, <1>3, <2>1
  <2>2. CASE i # 1
    <3>1. PICK k \in DOMAIN q : i = k + 1 /\ r[i] = q[k] /\ k \in Nat
      BY <1>2, <2>2
    <3>2. /\ q[k].thread = t /\ q[k].text = <<>>
          /\ q[k].op \in {"session", "clear", "flush", "complete", "forgetTurn"}
          /\ q[k].op \in OfTurn => u # None /\ q[k].turn = u
          /\ q[k].op \in OfMessage => q[k].msg \in known[u]
      BY DEF Finishes
    <3>3. ASSUME q[k].op = "flush"
          PROVE  \E j \in DOMAIN r : j > i /\ r[j].op = "complete" /\ r[j].msg = r[i].msg
      <4>1. PICK j \in DOMAIN q : j > k /\ q[j].op = "complete" /\ q[j].msg = q[k].msg
        BY <3>3 DEF Finishes
      <4>2. j + 1 \in DOMAIN r /\ r[j + 1] = q[j] /\ j \in Nat
        BY <1>2
      <4>3. j + 1 > i
        BY <3>1, <4>1, <4>2
      <4>4. QED BY <3>1, <4>1, <4>2, <4>3
    <3>4. ASSUME q[k].op = "complete", NEW j \in DOMAIN r, j > i,
                 r[j].op \in {"flush", "complete"}
          PROVE  r[j].msg # r[i].msg
      <4>1. j # 1
        BY <3>1, <3>4
      <4>2. PICK l \in DOMAIN q : j = l + 1 /\ r[j] = q[l] /\ l \in Nat
        BY <1>2, <4>1
      <4>3. l > k
        BY <3>1, <3>4, <4>2
      <4>4. q[l].msg # q[k].msg
        BY <3>4, <4>2, <4>3 DEF Finishes
      <4>5. QED BY <3>1, <4>2, <4>4
    <3>5. ASSUME q[k].op = "clear", NEW j \in DOMAIN r, j > i
          PROVE  r[j].op # "flush"
      <4>1. j # 1
        BY <3>1, <3>5
      <4>2. PICK l \in DOMAIN q : j = l + 1 /\ r[j] = q[l] /\ l \in Nat
        BY <1>2, <4>1
      <4>3. l > k
        BY <3>1, <3>5, <4>2
      <4>4. QED BY <3>5, <4>2, <4>3 DEF Finishes
    <3>6. QED BY <3>1, <3>2, <3>3, <3>4, <3>5
  <2>3. QED BY <2>1, <2>2
<1>5. ASSUME u # None
      PROVE  /\ \E i \in DOMAIN r : r[i].op = "forgetTurn"
             /\ \A m \in known[u] :
                  /\ \E i \in DOMAIN r : r[i].op = "flush" /\ r[i].msg = m
                  /\ \E i \in DOMAIN r : r[i].op = "complete" /\ r[i].msg = m
  <2>1. \A j \in DOMAIN q : \E i \in DOMAIN r : r[i] = q[j]
    BY <1>2
  <2>2. \E j \in DOMAIN q : q[j].op = "forgetTurn"
    BY <1>5 DEF Finishes
  <2>3. ASSUME NEW m \in known[u]
        PROVE  /\ \E j \in DOMAIN q : q[j].op = "flush" /\ q[j].msg = m
               /\ \E j \in DOMAIN q : q[j].op = "complete" /\ q[j].msg = m
    BY <1>5 DEF Finishes
  <2>4. QED BY ONLY <2>1, <2>2, <2>3
<1>6. Finishes(r, t, u)
  BY <1>2, <1>4, <1>5 DEF Finishes
<1>7. Joins(q, x, r)
  <2>1. \A j \in DOMAIN q : j + 1 # 1
    BY <1>2
  <2>2. \A i \in DOMAIN r : i # 1 => \E j \in DOMAIN q : r[i] = q[j] /\ i = j + 1
    BY <1>2
  <2>3. \A i, j \in DOMAIN r : i # 1 /\ j # 1 /\ i # j =>
          \E k, l \in DOMAIN q : k # l /\ r[i] = q[k] /\ r[j] = q[l]
    BY <2>2
  <2>4. \A j \in DOMAIN q : \E i \in DOMAIN r : i # 1 /\ r[i] = q[j]
    BY <1>2, <2>1
  <2>5. QED BY ONLY <1>2, <2>2, <2>3, <2>4 DEF Joins
<1>8. QED BY <1>6, <1>7

\* ... or after them.
LEMMA FinishesBefore ==
  ASSUME Typed, NEW t, NEW u, NEW q, Finishes(q, t, u), NEW x \in Ops, x.thread = t,
         x.text = <<>>, x.op \in {"session", "clear"}, NEW r, r = q \o <<x>>
  PROVE  Finishes(r, t, u) /\ Joins(q, x, r)
<1>1. q \in Seq(Ops)
  BY DEF Finishes
<1>2. PICK n : n = Len(q) + 1
  OBVIOUS
<1>3. /\ r \in Seq(Ops) /\ r[n] = x /\ n \in DOMAIN r /\ n \in Nat
      /\ \A i \in DOMAIN q : i \in Nat /\ i \in DOMAIN r /\ r[i] = q[i] /\ i < n
      /\ \A i \in DOMAIN r : i = n \/ i \in DOMAIN q
  <2>1. r = Append(q, x)
    BY <1>1, JoinsOne
  <2>2. /\ r \in Seq(Ops) /\ Len(q) \in Nat /\ DOMAIN q = 1..Len(q)
        /\ \A i \in DOMAIN q : r[i] = q[i] /\ i \in DOMAIN r /\ i # n
        /\ r[n] = x /\ n \in DOMAIN r
        /\ \A i \in DOMAIN r : i \in DOMAIN q \/ i = n
    BY <1>1, <1>2, <2>1, AtEnd
  <2>3. QED BY <1>2, <2>2
<1>4. x.op \notin OfTurn /\ x.op \notin OfMessage
  BY DEF OfTurn, OfMessage
<1>5. ASSUME NEW i \in DOMAIN r
      PROVE  /\ r[i].thread = t /\ r[i].text = <<>>
             /\ r[i].op \in {"session", "clear", "flush", "complete", "forgetTurn"}
             /\ r[i].op \in OfTurn => u # None /\ r[i].turn = u
             /\ r[i].op \in OfMessage => r[i].msg \in known[u]
             /\ r[i].op = "flush" =>
                  \E j \in DOMAIN r : j > i /\ r[j].op = "complete" /\ r[j].msg = r[i].msg
             /\ r[i].op = "complete" =>
                  \A j \in DOMAIN r :
                    j > i /\ r[j].op \in {"flush", "complete"} => r[j].msg # r[i].msg
             /\ r[i].op = "clear" => \A j \in DOMAIN r : j > i => r[j].op # "flush"
  <2>1. CASE i = n
    <3>1. r[i] = x /\ \A j \in DOMAIN r : j <= i
      BY <1>3, <2>1
    <3>2. QED BY <1>4, <3>1
  <2>2. CASE i # n
    <3>1. i \in DOMAIN q /\ r[i] = q[i]
      BY <1>3, <2>2
    <3>2. /\ q[i].thread = t /\ q[i].text = <<>>
          /\ q[i].op \in {"session", "clear", "flush", "complete", "forgetTurn"}
          /\ q[i].op \in OfTurn => u # None /\ q[i].turn = u
          /\ q[i].op \in OfMessage => q[i].msg \in known[u]
      BY <3>1 DEF Finishes
    <3>3. ASSUME q[i].op = "flush"
          PROVE  \E j \in DOMAIN r : j > i /\ r[j].op = "complete" /\ r[j].msg = r[i].msg
      <4>1. PICK j \in DOMAIN q : j > i /\ q[j].op = "complete" /\ q[j].msg = q[i].msg
        BY <3>1, <3>3 DEF Finishes
      <4>2. j \in DOMAIN r /\ r[j] = q[j]
        BY <1>3
      <4>3. QED BY <3>1, <4>1, <4>2
    <3>4. ASSUME q[i].op = "complete", NEW j \in DOMAIN r, j > i,
                 r[j].op \in {"flush", "complete"}
          PROVE  r[j].msg # r[i].msg
      <4>1. j # n
        BY <1>3, <3>4
      <4>2. j \in DOMAIN q /\ r[j] = q[j]
        BY <1>3, <4>1
      <4>3. q[j].msg # q[i].msg
        BY <3>1, <3>4, <4>2 DEF Finishes
      <4>4. QED BY <3>1, <4>2, <4>3
    <3>5. ASSUME q[i].op = "clear", NEW j \in DOMAIN r, j > i
          PROVE  r[j].op # "flush"
      <4>1. CASE j = n
        BY <1>3, <4>1
      <4>2. CASE j # n
        <5>1. j \in DOMAIN q /\ r[j] = q[j]
          BY <1>3, <4>2
        <5>2. QED BY <3>1, <3>5, <5>1 DEF Finishes
      <4>3. QED BY <4>1, <4>2
    <3>6. QED BY <3>1, <3>2, <3>3, <3>4, <3>5
  <2>3. QED BY <2>1, <2>2
<1>6. ASSUME u # None
      PROVE  /\ \E i \in DOMAIN r : r[i].op = "forgetTurn"
             /\ \A m \in known[u] :
                  /\ \E i \in DOMAIN r : r[i].op = "flush" /\ r[i].msg = m
                  /\ \E i \in DOMAIN r : r[i].op = "complete" /\ r[i].msg = m
  <2>1. \A j \in DOMAIN q : \E i \in DOMAIN r : r[i] = q[j]
    BY <1>3
  <2>2. \E j \in DOMAIN q : q[j].op = "forgetTurn"
    BY <1>6 DEF Finishes
  <2>3. ASSUME NEW m \in known[u]
        PROVE  /\ \E j \in DOMAIN q : q[j].op = "flush" /\ q[j].msg = m
               /\ \E j \in DOMAIN q : q[j].op = "complete" /\ q[j].msg = m
    BY <1>6 DEF Finishes
  <2>4. QED BY ONLY <2>1, <2>2, <2>3
<1>7. Finishes(r, t, u)
  BY <1>3, <1>5, <1>6 DEF Finishes
<1>8. Joins(q, x, r)
  BY <1>3 DEF Joins
<1>9. QED BY <1>7, <1>8

\* The steps of q close turn u: they finish it, set the session of its thread
\* once or never - to the one element of set - and clear it or not.
Closes(q, t, u, set, clear) ==
  /\ Finishes(q, t, u)
  /\ \A i, j \in DOMAIN q : q[i].op = "session" /\ q[j].op = "session" => i = j
  /\ \A i \in DOMAIN q : q[i].op = "session" => q[i].turn \in set
  /\ set # {} => \E i \in DOMAIN q : q[i].op = "session"
  /\ clear <=> \E i \in DOMAIN q : q[i].op = "clear"

LEMMA FinalizeIfAnyIs ==
  ASSUME Typed, NEW t \in Threads, NEW u \in Turns \cup {None}, u # None => ThreadOf[u] = t,
         NEW q, q = FinalizeIfAny(u)
  PROVE  Closes(q, t, u, {}, FALSE)
<1>1. CASE u = None
  <2>1. q = <<>> /\ q \in Seq(Ops) /\ DOMAIN q = {}
    BY <1>1 DEF FinalizeIfAny
  <2>2. QED BY <1>1, <2>1 DEF Finishes, Closes
<1>2. CASE u # None
  <2>1. Finishes(q, t, u) /\ Sets(q) = {} /\ Clears(q) = {}
    BY <1>2, FinalizeTurnIs DEF FinalizeIfAny
  <2>2. QED BY <2>1 DEF Closes, Sets, Clears
<1>3. QED BY <1>1, <1>2

LEMMA ClosesWithSession ==
  ASSUME NEW t, NEW u, NEW q, NEW clear, Closes(q, t, u, {}, clear), NEW x, x.op = "session",
         NEW r, Joins(q, x, r), Finishes(r, t, u)
  PROVE  Closes(r, t, u, {x.turn}, clear)
<1>1. PICK n \in DOMAIN r :
        /\ r[n] = x
        /\ \A j \in DOMAIN q : \E i \in DOMAIN r : i # n /\ r[i] = q[j]
        /\ \A i \in DOMAIN r : i # n => \E j \in DOMAIN q : r[i] = q[j]
  BY DEF Joins
<1>2. \A i \in DOMAIN r : r[i].op = "session" => i = n
  BY <1>1 DEF Closes
<1>3. clear <=> \E i \in DOMAIN r : r[i].op = "clear"
  BY <1>1 DEF Closes
<1>4. QED BY <1>1, <1>2, <1>3 DEF Closes

LEMMA ClosesWithClear ==
  ASSUME NEW t, NEW u, NEW q, NEW set, Closes(q, t, u, set, FALSE), NEW x, x.op = "clear",
         NEW r, Joins(q, x, r), Finishes(r, t, u)
  PROVE  Closes(r, t, u, set, TRUE)
<1>1. PICK n \in DOMAIN r :
        /\ r[n] = x
        /\ \A j \in DOMAIN q : \E i \in DOMAIN r : i # n /\ r[i] = q[j]
        /\ \A i \in DOMAIN r : i # n => \E j \in DOMAIN q : r[i] = q[j]
        /\ \A i, j \in DOMAIN r : i # n /\ j # n /\ i # j =>
             \E k, l \in DOMAIN q : k # l /\ r[i] = q[k] /\ r[j] = q[l]
  BY DEF Joins
<1>2. \A i, j \in DOMAIN r : r[i].op = "session" /\ r[j].op = "session" => i = j
  <2>1. SUFFICES ASSUME NEW i \in DOMAIN r, NEW j \in DOMAIN r, r[i].op = "session",
                        r[j].op = "session", i # j
                 PROVE  FALSE
    OBVIOUS
  <2>2. i # n /\ j # n
    BY <1>1, <2>1
  <2>3. PICK k, l \in DOMAIN q : k # l /\ r[i] = q[k] /\ r[j] = q[l]
    BY <1>1, <2>1, <2>2
  <2>4. QED BY <2>1, <2>3 DEF Closes
<1>3. \A i \in DOMAIN r : r[i].op = "session" => r[i].turn \in set
  BY <1>1 DEF Closes
<1>4. set # {} => \E i \in DOMAIN r : r[i].op = "session"
  BY <1>1 DEF Closes
<1>5. QED BY <1>1, <1>2, <1>3, <1>4 DEF Closes

\* What the handlers of the ends of turns leave to be done.
EndsTurn(e) == HandleTurnEnded(e) \/ HandleSessionExited(e) \/ HandleRuntimeError(e)

\* To what such an end sets the session.
SetAtEnd(e) ==
  IF \/ e.type = "session.exited" \/ (e.type = "runtime.error" /\ ~e.named)
     \/ active[e.thread] \in {None, TurnOrActive(e)}
  THEN {IF e.type = "runtime.error" /\ e.named THEN e.turn ELSE None} ELSE {}

LEMMA EndsTurnIs ==
  ASSUME Typed, NEW e \in Events, EndsTurn(e), NEW u, u = TurnOrActive(e),
         u # None => ThreadOf[u] = e.thread
  PROVE  /\ u \in Turns \cup {None} /\ UNCHANGED <<known, buffer>>
         /\ Closes(todo', e.thread, u, SetAtEnd(e), e.type = "session.exited")
         /\ e.type \in {"turn.completed", "turn.aborted", "session.exited", "runtime.error"}
<1>1. PICK t, q, set : t = e.thread /\ q = todo' /\ set = SetAtEnd(e)
  OBVIOUS
<1>2. /\ t \in Threads /\ e.turn \in Turns \cup {None}
      /\ e.turn # None => ThreadOf[e.turn] = t
      /\ e.type = "session.exited" => ~e.named
      /\ active[t] \in Turns \cup {None}
      /\ e.named \in BOOLEAN
  BY <1>1 DEF Events, Typed
<1>3. u \in Turns \cup {None}
  BY <1>1, <1>2 DEF TurnOrActive
<1>4. PICK f : f = FinalizeIfAny(u)
  OBVIOUS
<1>5. Closes(f, t, u, {}, FALSE)
  BY <1>1, <1>2, <1>3, <1>4, FinalizeIfAnyIs
<1>6. UNCHANGED <<known, buffer>>
  BY DEF EndsTurn, HandleTurnEnded, HandleSessionExited, HandleRuntimeError, Same
<1>7. PICK s, c : s = SetSession(t, None) /\ c = ClearThread(t)
  OBVIOUS
<1>8. /\ s \in Ops /\ s.thread = t /\ s.text = <<>> /\ s.op = "session" /\ s.turn = None
      /\ c \in Ops /\ c.thread = t /\ c.text = <<>> /\ c.op = "clear"
  BY <1>2, <1>7, ThreadStepsAre
<1>9. Finishes(f, t, u) /\ f \in Seq(Ops)
  BY <1>5 DEF Closes, Finishes
<1>10. PICK g \in Seq(Ops) :
         g = <<s>> \o f /\ Len(g) = Len(f) + 1 /\ g[1] = s /\ \A i \in 1..Len(f) : g[i + 1] = f[i]
  <2>1. PICK p : p = <<s>>
    OBVIOUS
  <2>2. PICK g : g = p \o f
    OBVIOUS
  <2>3. g = <<s>> \o f
    BY <2>1, <2>2
  <2>4. s \in Ops /\ f \in Seq(Ops)
    BY <1>8, <1>9
  <2>5. g \in Seq(Ops)
    BY ONLY <2>3, <2>4, JoinsFront
  <2>6. Len(g) = Len(f) + 1
    BY ONLY <2>3, <2>4, JoinsFront
  <2>7. g[1] = s
    BY ONLY <2>3, <2>4, JoinsFront
  <2>8. \A i \in 1..Len(f) : g[i + 1] = f[i]
    BY ONLY <2>3, <2>4, JoinsFront
  <2>9. QED BY ONLY <2>3, <2>5, <2>6, <2>7, <2>8, Zenon
<1>11. Finishes(g, t, u) /\ Closes(g, t, u, {None}, FALSE)
  <2>1. Finishes(g, t, u) /\ Joins(f, s, g)
    BY <1>8, <1>9, <1>10, FinishesAfter
  <2>2. QED BY <1>5, <1>8, <2>1, ClosesWithSession
<1>12. ASSUME NEW x \in Ops, x.thread = t, x.text = <<>>, x.op = "session", q = f \o <<x>>
       PROVE  Closes(q, t, u, {x.turn}, FALSE)
  <2>1. Finishes(q, t, u) /\ Joins(f, x, q)
    BY <1>9, <1>12, FinishesBefore
  <2>2. QED BY <1>5, <1>12, <2>1, ClosesWithSession
<1>13. CASE HandleTurnEnded(e)
  <2>1. e.type \in {"turn.completed", "turn.aborted"}
    BY <1>13 DEF HandleTurnEnded
  <2>2. CASE active[t] \in {None, u}
    <3>1. q = g /\ set = {None}
      BY <1>1, <1>4, <1>7, <1>10, <1>13, <2>1, <2>2 DEF HandleTurnEnded, SetAtEnd
    <3>2. QED BY <1>1, <1>3, <1>6, <1>11, <2>1, <3>1
  <2>3. CASE active[t] \notin {None, u}
    <3>1. q = <<>> \o f /\ set = {}
      BY <1>1, <1>4, <1>13, <2>1, <2>3 DEF HandleTurnEnded, SetAtEnd
    <3>2. q = f
      BY <1>9, <3>1, ConcatEmptySeq
    <3>3. QED BY <1>1, <1>3, <1>5, <1>6, <2>1, <3>1, <3>2
  <2>4. QED BY <2>2, <2>3
<1>14. CASE HandleSessionExited(e)
  <2>1. e.type = "session.exited" /\ q = g \o <<c>> /\ set = {None}
    BY <1>1, <1>2, <1>4, <1>7, <1>10, <1>14 DEF HandleSessionExited, SetAtEnd
  <2>2. Finishes(q, t, u) /\ Joins(g, c, q)
    BY <1>8, <1>11, <2>1, FinishesBefore
  <2>3. Closes(q, t, u, {None}, TRUE)
    BY <1>8, <1>11, <2>2, ClosesWithClear
  <2>4. QED BY <1>1, <1>3, <1>6, <2>1, <2>3
<1>15. CASE HandleRuntimeError(e)
  <2>1. e.type = "runtime.error"
    BY <1>15 DEF HandleRuntimeError
  <2>2. CASE ~e.named
    <3>1. q = f \o <<s>> /\ set = {None}
      BY <1>1, <1>4, <1>7, <1>15, <2>1, <2>2 DEF HandleRuntimeError, SetAtEnd
    <3>2. QED BY <1>1, <1>3, <1>6, <1>8, <1>12, <2>1, <3>1
  <2>3. CASE e.named /\ active[t] \in {None, e.turn}
    <3>1. PICK x : x = SetSession(t, e.turn)
      OBVIOUS
    <3>2. x \in Ops /\ x.thread = t /\ x.text = <<>> /\ x.op = "session" /\ x.turn = e.turn
      BY <1>2, <3>1, ThreadStepsAre
    <3>3. q = f \o <<x>>
      BY <1>1, <1>4, <1>15, <2>3, <3>1 DEF HandleRuntimeError
    <3>4. set = {e.turn}
      BY <1>1, <2>1, <2>3 DEF SetAtEnd, TurnOrActive
    <3>5. QED BY <1>1, <1>3, <1>6, <1>12, <2>1, <3>2, <3>3, <3>4
  <2>4. CASE e.named /\ active[t] \notin {None, e.turn}
    <3>1. q = f \o <<>> /\ set = {}
      BY <1>1, <1>4, <1>15, <2>1, <2>4 DEF HandleRuntimeError, SetAtEnd, TurnOrActive
    <3>2. q = f
      BY <1>9, <3>1, ConcatEmptySeq
    <3>3. QED BY <1>1, <1>3, <1>5, <1>6, <2>1, <3>1, <3>2
  <2>5. QED BY <2>2, <2>3, <2>4
<1>16. QED BY <1>13, <1>14, <1>15 DEF EndsTurn

-----------------------------------------------------------------------------
(* Types                                                                   *)

LEMMA InitTyped == Init => Typed
<1>1. <<>> \in Texts /\ <<>> \in Seq(Events) /\ <<>> \in Seq(Ops)
  BY DEF Texts
<1>2. IsFiniteSet({})
  BY FS_EmptySet
<1>3. QED BY <1>1, <1>2 DEF Init, Typed

-----------------------------------------------------------------------------
(* The provider                                                            *)

\* The provider sends event e.
Sends(e) ==
  /\ e \in Events /\ runtime' = Append(runtime, e)
  /\ UNCHANGED <<domain, active, message, mode, known, buffer, todo, completions, disturbed>>
  /\ provider' \in [Turns -> {"new", "open", "over"}]
  /\ \A v \in Turns : v # e.turn => provider'[v] = provider[v]
  /\ e.turn # None =>
       /\ provider[e.turn] = IF e.type = "turn.started" THEN "new" ELSE "open"
       /\ provider'[e.turn] = IF Ends(e, e.turn) THEN "over" ELSE "open"
  /\ e.type = "turn.started" \/ e.turn = None =>
       \A v \in Turns : ThreadOf[v] = e.thread => provider[v] # "open"
  /\ item' \in [Messages -> {"new", "live", "done"}] /\ said' \in [Messages -> Texts]
  /\ \A m \in Messages : m # e.msg => item'[m] = item[m] /\ said'[m] = said[m]
  /\ e.type = "content.delta" =>
       /\ item[e.msg] # "done" /\ item'[e.msg] = "live" /\ e.named
       /\ said'[e.msg] = Append(said[e.msg], Len(said[e.msg]) + 1)
       /\ e.text = <<Len(said[e.msg]) + 1>>
  /\ e.type = "item.completed" =>
       /\ item[e.msg] # "done" /\ item'[e.msg] = "done" /\ e.text = said'[e.msg]
       /\ \/ /\ item[e.msg] = "live" /\ said' = said
             /\ ~e.named =>
                  \A m \in Messages : TurnOf[m] = e.turn /\ item[m] = "live" => m = e.msg
          \/ /\ item[e.msg] = "new" /\ said'[e.msg] = <<1>> /\ e.named
             /\ \A m \in Messages : TurnOf[m] = e.turn => item[m] # "live"
  /\ erred \subseteq erred'
  /\ e.type = "runtime.error" => e.turn \in erred'

LEMMA StartTurnSends ==
  ASSUME Typed, NEW u \in Turns, StartTurn(u)
  PROVE  \E e : Sends(e)
<1>1. PICK t : t = ThreadOf[u]
  OBVIOUS
<1>2. PICK e : e = [NoEvent EXCEPT !.type = "turn.started", !.thread = t, !.turn = u]
  OBVIOUS
<1>3. e = [type |-> "turn.started", thread |-> t, turn |-> u, msg |-> None,
     text |-> <<>>, named |-> TRUE]
  BY <1>2 DEF NoEvent
<1>4. t = ThreadOf[u]
  BY <1>1
<1>5. /\ e \in Events /\ e.type = "turn.started" /\ e.turn = u /\ e.thread = ThreadOf[u]
      /\ e.msg = None /\ u # None
  BY <1>4, <1>3, AssistantAssumption DEF Events, Types, Texts
<1>6. runtime' = Append(runtime, e)
  BY <1>2, <1>1 DEF StartTurn, Emit
<1>7. /\ UNCHANGED <<domain, active, message, mode, known, buffer, todo, completions, disturbed>>
      /\ UNCHANGED <<item, said, erred>>
  BY DEF StartTurn, store, cache, history
<1>8. /\ provider' \in [Turns -> {"new", "open", "over"}]
      /\ \A v \in Turns : v # u => provider'[v] = provider[v]
      /\ provider[u] = "new" /\ provider'[u] = "open"
      /\ \A v \in Turns : ThreadOf[v] = ThreadOf[u] => provider[v] # "open"
  BY DEF StartTurn, Typed, OpenTurns
<1>9. Sends(e)
  BY <1>5, <1>6, <1>7, <1>8 DEF Sends, Ends, Typed
<1>10. QED BY <1>9

LEMMA EndTurnSends ==
  ASSUME Typed, NEW u \in Turns, EndTurn(u)
  PROVE  \E e : Sends(e)
<1>1. PICK named \in BOOLEAN :
        Emit([NoEvent EXCEPT !.type = IF named THEN "turn.completed" ELSE "turn.aborted",
                             !.thread = ThreadOf[u], !.turn = u, !.named = named])
  BY DEF EndTurn
<1>2. PICK type : type = IF named THEN "turn.completed" ELSE "turn.aborted"
  OBVIOUS
<1>3. PICK t : t = ThreadOf[u]
  OBVIOUS
<1>4. PICK e : e = [NoEvent EXCEPT !.type = type, !.thread = t, !.turn = u, !.named = named]
  OBVIOUS
<1>5. e = [type |-> type, thread |-> t, turn |-> u, msg |-> None,
     text |-> <<>>, named |-> named]
  BY <1>4 DEF NoEvent
<1>6. t = ThreadOf[u]
  BY <1>3
<1>7. /\ e \in Events /\ e.type \in {"turn.completed", "turn.aborted"} /\ e.turn = u
      /\ e.thread = ThreadOf[u] /\ e.msg = None /\ u # None
  BY <1>6, <1>5, <1>2, AssistantAssumption DEF Events, Types, Texts
<1>8. runtime' = Append(runtime, e)
  BY <1>1, <1>2, <1>4, <1>3 DEF Emit
<1>9. /\ UNCHANGED <<domain, active, message, mode, known, buffer, todo, completions, disturbed>>
      /\ UNCHANGED <<item, said, erred>>
  BY DEF EndTurn, store, cache, history
<1>10. /\ provider' \in [Turns -> {"new", "open", "over"}]
       /\ \A v \in Turns : v # u => provider'[v] = provider[v]
       /\ provider[u] = "open" /\ provider'[u] = "over"
  BY DEF EndTurn, Typed
<1>11. Ends(e, u)
  BY <1>7 DEF Ends
<1>12. Sends(e)
  BY <1>7, <1>8, <1>9, <1>10, <1>11 DEF Sends, Typed
<1>13. QED BY <1>12

LEMMA RuntimeErrorSends ==
  ASSUME Typed, NEW u \in Turns, RuntimeError(u)
  PROVE  \E e : Sends(e)
<1>1. PICK named \in BOOLEAN :
        /\ Emit([NoEvent EXCEPT !.type = "runtime.error", !.thread = ThreadOf[u], !.turn = u,
                                !.named = named])
        /\ provider' = [provider EXCEPT ![u] = IF named THEN @ ELSE "over"]
  BY DEF RuntimeError
<1>2. PICK t : t = ThreadOf[u]
  OBVIOUS
<1>3. PICK e : e = [NoEvent EXCEPT !.type = "runtime.error", !.thread = t,
                                   !.turn = u, !.named = named]
  OBVIOUS
<1>4. e = [type |-> "runtime.error", thread |-> t, turn |-> u, msg |-> None,
     text |-> <<>>, named |-> named]
  BY <1>3 DEF NoEvent
<1>5. t = ThreadOf[u]
  BY <1>2
<1>6. /\ e \in Events /\ e.type = "runtime.error" /\ e.turn = u /\ e.named = named
      /\ e.thread = ThreadOf[u] /\ e.msg = None /\ u # None
  BY <1>5, <1>4, AssistantAssumption DEF Events, Types, Texts
<1>7. runtime' = Append(runtime, e)
  BY <1>1, <1>3, <1>2 DEF Emit
<1>8. /\ UNCHANGED <<domain, active, message, mode, known, buffer, todo, completions, disturbed>>
      /\ UNCHANGED <<item, said>> /\ erred' = erred \cup {u}
  BY DEF RuntimeError, store, cache, history
<1>9. /\ provider' \in [Turns -> {"new", "open", "over"}]
      /\ \A v \in Turns : v # u => provider'[v] = provider[v]
      /\ provider[u] = "open" /\ provider'[u] = IF named THEN "open" ELSE "over"
  BY <1>1 DEF RuntimeError, Typed
<1>10. Ends(e, u) <=> ~named
  BY <1>6 DEF Ends
<1>11. Sends(e)
  BY <1>6, <1>7, <1>8, <1>9, <1>10 DEF Sends, Typed
<1>12. QED BY <1>11

\* At most one turn of the thread is open when its session ends.
LEMMA ExitSends ==
  ASSUME Typed, TurnsInLine, NEW t \in Threads, Exit(t)
  PROVE  \E e : Sends(e)
<1>1. PICK u \in IF OpenTurns(t) = {} THEN {None} ELSE OpenTurns(t) :
        Emit([NoEvent EXCEPT !.type = "session.exited", !.thread = t, !.turn = u,
                             !.named = FALSE])
  BY DEF Exit
<1>2. PICK e : e = [NoEvent EXCEPT !.type = "session.exited", !.thread = t, !.turn = u,
                                   !.named = FALSE]
  OBVIOUS
<1>3. e = [type |-> "session.exited", thread |-> t, turn |-> u, msg |-> None, text |-> <<>>,
           named |-> FALSE]
  BY <1>2 DEF NoEvent
<1>4. /\ u = None => \A v \in Turns : ThreadOf[v] = t => provider[v] # "open"
      /\ u # None => u \in Turns /\ ThreadOf[u] = t /\ provider[u] = "open"
  BY <1>1, AssistantAssumption DEF OpenTurns
<1>5. e \in Events
  BY <1>3, <1>4 DEF Events, Types, Texts
<1>6. runtime' = Append(runtime, e)
  BY <1>1, <1>2 DEF Emit
<1>7. /\ UNCHANGED <<domain, active, message, mode, known, buffer, todo, completions, disturbed>>
      /\ UNCHANGED <<item, said, erred>>
  BY DEF Exit, store, cache, history
<1>8. \A v \in Turns : v \in OpenTurns(t) <=> v = u
  BY <1>1, <1>4, AssistantAssumption DEF TurnsInLine, OpenTurns
<1>9. /\ provider' \in [Turns -> {"new", "open", "over"}]
      /\ \A v \in Turns : v # u => provider'[v] = provider[v]
      /\ u # None => provider'[u] = "over"
  BY <1>4, <1>8 DEF Exit, Typed
<1>10. Ends(e, u)
  BY <1>3 DEF Ends
<1>11. Sends(e)
  BY <1>3, <1>4, <1>5, <1>6, <1>7, <1>9, <1>10 DEF Sends, Typed
<1>12. QED BY <1>11

LEMMA SpeakSends ==
  ASSUME Typed, NEW m \in Messages, Speak(m)
  PROVE  \E e : Sends(e)
<1>1. PICK u, t, piece : u = TurnOf[m] /\ t = ThreadOf[u] /\ piece = Len(said[m]) + 1
  OBVIOUS
<1>2. /\ u \in Turns /\ t \in Threads /\ u # None /\ m # None /\ said[m] \in Texts
      /\ piece \in Nat /\ <<piece>> \in Texts
  <2>1. u \in Turns /\ t \in Threads /\ u # None /\ m # None
    BY <1>1, AssistantAssumption
  <2>2. said[m] \in Texts
    BY DEF Typed
  <2>3. piece \in Nat
    BY <1>1, <2>2 DEF Texts
  <2>4. QED BY <2>1, <2>2, <2>3 DEF Texts
<1>3. PICK e : e = [NoEvent EXCEPT !.thread = t, !.turn = u, !.msg = m, !.text = <<piece>>]
  OBVIOUS
<1>4. e = [type |-> "content.delta", thread |-> t, turn |-> u, msg |-> m, text |-> <<piece>>,
           named |-> TRUE]
  BY <1>3 DEF NoEvent
<1>5. e \in Events
  BY <1>1, <1>2, <1>4 DEF Events, Types
<1>6. runtime' = Append(runtime, e)
  BY <1>1, <1>3 DEF Speak, Emit, ThreadOfMessage
<1>7. /\ UNCHANGED <<domain, active, message, mode, known, buffer, todo, completions, disturbed>>
      /\ UNCHANGED <<provider, erred>>
  BY DEF Speak, store, cache, history
<1>8. /\ item' \in [Messages -> {"new", "live", "done"}] /\ item'[m] = "live"
      /\ \A x \in Messages : x # m => item'[x] = item[x]
      /\ item[m] # "done" /\ provider[u] = "open"
  BY <1>1 DEF Speak, Typed
<1>9. said' = [said EXCEPT ![m] = Append(@, piece)]
  BY <1>1 DEF Speak
<1>10. PICK text : text = Append(said[m], piece)
  OBVIOUS
<1>11. text \in Texts
  BY <1>2, <1>10, AppendProperties DEF Texts
<1>12. /\ said' \in [Messages -> Texts] /\ said'[m] = text
       /\ \A x \in Messages : x # m => said'[x] = said[x]
  BY <1>9, <1>10, <1>11 DEF Typed
<1>13. ~Ends(e, u)
  BY <1>4 DEF Ends
<1>14. /\ e.type = "content.delta" /\ e.turn = u /\ e.msg = m /\ e.named
       /\ e.text = <<Len(said[m]) + 1>> /\ said'[m] = Append(said[m], Len(said[m]) + 1)
  BY <1>1, <1>4, <1>10, <1>12
<1>15. Sends(e)
  BY <1>2, <1>5, <1>6, <1>7, <1>8, <1>12, <1>13, <1>14 DEF Sends, Typed
<1>16. QED BY <1>15

\* The end of an item: an event with the text of the item.
LEMMA CompletedIs ==
  ASSUME Typed, NEW m \in Messages, NEW named \in BOOLEAN, said'[m] \in Texts,
         NEW e, e = Completed(m, named)
  PROVE  /\ e \in Events /\ e.type = "item.completed" /\ e.turn = TurnOf[m] /\ e.msg = m
         /\ e.text = said'[m] /\ e.named = named /\ e.turn # None /\ e.turn \in Turns
<1>1. PICK u, t, text : u = TurnOf[m] /\ t = ThreadOf[u] /\ text = said'[m]
  OBVIOUS
<1>2. u \in Turns /\ t \in Threads /\ u # None /\ m # None /\ text \in Texts
  BY <1>1, AssistantAssumption
<1>3. e = [NoEvent EXCEPT !.type = "item.completed", !.thread = t, !.turn = u, !.msg = m,
                          !.text = text, !.named = named]
  BY <1>1 DEF Completed, ThreadOfMessage
<1>4. e = [type |-> "item.completed", thread |-> t, turn |-> u, msg |-> m, text |-> text,
           named |-> named]
  BY <1>3 DEF NoEvent
<1>5. ThreadOf[u] = t /\ TurnOf[m] = u
  BY <1>1
<1>6. e \in Events
  BY ONLY <1>2, <1>4, <1>5 DEF Events, Types
<1>7. QED BY <1>1, <1>2, <1>4, <1>6

LEMMA EndItemSends ==
  ASSUME Typed, NEW m \in Messages, EndItem(m)
  PROVE  \E e : Sends(e)
<1>1. PICK named \in BOOLEAN :
        (~named => Live(TurnOf[m]) = {m}) /\ Emit(Completed(m, named))
  BY DEF EndItem
<1>2. PICK e : e = Completed(m, named)
  OBVIOUS
<1>3. said' = said /\ said \in [Messages -> Texts]
  BY DEF EndItem, Typed
<1>4. /\ e \in Events /\ e.type = "item.completed" /\ e.turn = TurnOf[m] /\ e.msg = m
      /\ e.text = said'[m] /\ e.named = named /\ e.turn # None /\ e.turn \in Turns
  BY <1>2, <1>3, CompletedIs
<1>5. runtime' = Append(runtime, e)
  BY <1>1, <1>2 DEF Emit
<1>6. /\ UNCHANGED <<domain, active, message, mode, known, buffer, todo, completions, disturbed>>
      /\ UNCHANGED <<provider, erred>>
  BY DEF EndItem, store, cache, history
<1>7. /\ item' \in [Messages -> {"new", "live", "done"}] /\ item'[m] = "done"
      /\ \A x \in Messages : x # m => item'[x] = item[x]
      /\ item[m] = "live" /\ provider[TurnOf[m]] = "open"
  BY DEF EndItem, Typed
<1>8. ~named => \A x \in Messages : TurnOf[x] = TurnOf[m] /\ item[x] = "live" => x = m
  BY <1>1 DEF Live, MessagesOf
<1>9. ~Ends(e, e.turn)
  BY <1>4 DEF Ends
<1>10. Sends(e)
  BY <1>3, <1>4, <1>5, <1>6, <1>7, <1>8, <1>9 DEF Sends, Typed
<1>11. QED BY <1>10

LEMMA SayAtOnceSends ==
  ASSUME Typed, NEW m \in Messages, SayAtOnce(m)
  PROVE  \E e : Sends(e)
<1>1. PICK named \in BOOLEAN : named = TRUE
  OBVIOUS
<1>2. PICK e : e = Completed(m, named)
  OBVIOUS
<1>3. <<1>> \in Texts
  BY DEF Texts
<1>4. /\ said' \in [Messages -> Texts] /\ said'[m] = <<1>>
      /\ \A x \in Messages : x # m => said'[x] = said[x]
  BY <1>3 DEF SayAtOnce, Typed
<1>5. /\ e \in Events /\ e.type = "item.completed" /\ e.turn = TurnOf[m] /\ e.msg = m
      /\ e.text = said'[m] /\ e.named = named /\ e.turn # None /\ e.turn \in Turns
  BY <1>2, <1>4, CompletedIs
<1>6. runtime' = Append(runtime, e)
  BY <1>1, <1>2 DEF SayAtOnce, Emit
<1>7. /\ UNCHANGED <<domain, active, message, mode, known, buffer, todo, completions, disturbed>>
      /\ UNCHANGED <<provider, erred>>
  BY DEF SayAtOnce, store, cache, history
<1>8. /\ item' \in [Messages -> {"new", "live", "done"}] /\ item'[m] = "done"
      /\ \A x \in Messages : x # m => item'[x] = item[x]
      /\ item[m] = "new" /\ provider[TurnOf[m]] = "open"
  BY DEF SayAtOnce, Typed
<1>9. \A x \in Messages : TurnOf[x] = TurnOf[m] => item[x] # "live"
  BY DEF SayAtOnce, Live, MessagesOf
<1>10. ~Ends(e, e.turn)
  BY <1>5 DEF Ends
<1>11. Sends(e)
  BY <1>1, <1>4, <1>5, <1>6, <1>7, <1>8, <1>9, <1>10 DEF Sends, Typed
<1>12. QED BY <1>11

LEMMA SendsTyped ==
  ASSUME Typed, NEW e, Sends(e)
  PROVE  Typed'
<1>1. runtime' \in Seq(Events)
  BY AppendProperties DEF Typed, Sends
<1>2. QED BY <1>1 DEF Typed, Sends

\* Where the events are once the provider has sent one.
LEMMA SendsAtEnd ==
  ASSUME Typed, NEW e, Sends(e), NEW r, r = runtime', NEW n, n = Len(runtime) + 1
  PROVE  /\ n \in DOMAIN r /\ n \in Nat /\ r[n] = e /\ n \notin DOMAIN runtime
         /\ \A i \in DOMAIN runtime : i \in DOMAIN r /\ i \in Nat /\ r[i] = runtime[i] /\ i < n
         /\ \A i \in DOMAIN r : i \in DOMAIN runtime \/ i = n
         /\ \A i \in DOMAIN runtime : runtime[i] \in Events
<1>1. runtime \in Seq(Events) /\ e \in Events /\ r = Append(runtime, e)
  BY DEF Typed, Sends
<1>2. /\ Len(runtime) \in Nat /\ DOMAIN runtime = 1..Len(runtime)
      /\ DOMAIN r = 1..(Len(runtime) + 1)
      /\ \A i \in DOMAIN runtime : r[i] = runtime[i] /\ i \in DOMAIN r /\ i # Len(runtime) + 1
      /\ r[Len(runtime) + 1] = e /\ Len(runtime) + 1 \in DOMAIN r
      /\ \A i \in DOMAIN r : i \in DOMAIN runtime \/ i = Len(runtime) + 1
  BY <1>1, AtEnd
<1>3. \A i \in DOMAIN runtime : runtime[i] \in Events
  BY <1>1, ElementOfSeq
<1>4. QED BY <1>2, <1>3

\* Which turns were open, and which are.
LEMMA SendsTurns ==
  ASSUME Typed, NEW e, Sends(e), NEW u \in Turns
  PROVE  /\ provider[u] # "new" => provider'[u] # "new"
         /\ provider[u] = "over" => provider'[u] = "over" /\ e.turn # u
         /\ provider'[u] # provider[u] => e.turn = u
         /\ e.turn = u => provider'[u] # "new"
         /\ provider[u] = "new" /\ provider'[u] # "new" => Starts(e, u)
         /\ provider[u] # "over" /\ provider'[u] = "over" => Ends(e, u)
         /\ Starts(e, u) => provider[u] = "new"
         /\ Ends(e, u) => provider'[u] = "over" /\ provider[u] = "open"
         /\ e.turn = u => ThreadOf[u] = e.thread
<1>1. /\ u # None
      /\ e.turn = u => ThreadOf[u] = e.thread
      /\ provider[u] \in {"new", "open", "over"} /\ provider'[u] \in {"new", "open", "over"}
  BY AssistantAssumption DEF Sends, Typed, Events
<1>2. CASE e.turn = u
  <2>1. e.turn # None =>
          /\ provider[e.turn] = IF e.type = "turn.started" THEN "new" ELSE "open"
          /\ provider'[e.turn] = IF Ends(e, e.turn) THEN "over" ELSE "open"
    BY DEF Sends
  <2>2. PICK p : p = provider'
    OBVIOUS
  <2>3. /\ provider[u] = IF e.type = "turn.started" THEN "new" ELSE "open"
        /\ p[u] = IF Ends(e, u) THEN "over" ELSE "open"
    BY <1>1, <1>2, <2>1, <2>2
  <2>4. Ends(e, u) => e.type # "turn.started"
    BY DEF Ends
  <2>5. QED BY <1>1, <1>2, <2>3, <2>4, <2>2 DEF Starts
<1>3. CASE e.turn # u
  <2>1. provider'[u] = provider[u]
    BY <1>3 DEF Sends
  <2>2. ~Ends(e, u) /\ ~Starts(e, u)
    BY <1>3 DEF Ends, Starts
  <2>3. QED BY <1>1, <1>3, <2>1, <2>2
<1>4. QED BY <1>2, <1>3

LEMMA SendsTurnInLine ==
  ASSUME Typed, TurnsInLine, NEW e, Sends(e), NEW i \in DOMAIN runtime', NEW u \in Turns
  PROVE  TurnInLine(u, i)'
<1>1. PICK r, n, p, f : r = runtime' /\ n = Len(runtime) + 1 /\ p = provider' /\ f = erred'
  OBVIOUS
<1>2. /\ n \in DOMAIN r /\ n \in Nat /\ r[n] = e /\ n \notin DOMAIN runtime
      /\ \A k \in DOMAIN runtime : k \in DOMAIN r /\ k \in Nat /\ r[k] = runtime[k] /\ k < n
      /\ \A k \in DOMAIN r : k \in DOMAIN runtime \/ k = n
  BY <1>1, SendsAtEnd
<1>3. \A k \in DOMAIN runtime : TurnInLine(u, k)
  BY DEF TurnsInLine
<1>4. /\ provider[u] # "new" => p[u] # "new"
      /\ provider[u] = "over" => p[u] = "over" /\ e.turn # u
      /\ p[u] # provider[u] => e.turn = u
      /\ e.turn = u => p[u] # "new"
      /\ provider[u] = "new" /\ p[u] # "new" => Starts(e, u)
      /\ provider[u] # "over" /\ p[u] = "over" => Ends(e, u)
      /\ Starts(e, u) => provider[u] = "new"
      /\ Ends(e, u) => p[u] = "over" /\ provider[u] = "open"
      /\ e.turn = u => ThreadOf[u] = e.thread
  BY <1>1, SendsTurns
<1>5. r[i].turn = u => p[u] # "new"
  <2>1. CASE i = n
    BY <1>2, <1>4, <2>1
  <2>2. CASE i \in DOMAIN runtime
    BY <1>2, <1>3, <1>4, <2>2 DEF TurnInLine
  <2>3. QED BY <1>1, <1>2, <2>1, <2>2
<1>6. ASSUME r[i].turn = u, p[u] = "over"
      PROVE  \E k \in DOMAIN r : k >= i /\ Ends(r[k], u)
  <2>1. CASE Ends(e, u)
    <3>1. i <= n
      BY <1>1, <1>2
    <3>2. QED BY <1>2, <2>1, <3>1
  <2>2. CASE ~Ends(e, u)
    <3>1. provider[u] = "over"
      BY <1>4, <1>6, <2>2
    <3>2. i \in DOMAIN runtime
      BY <1>1, <1>2, <1>4, <1>6, <3>1
    <3>3. PICK k \in DOMAIN runtime : k >= i /\ Ends(runtime[k], u)
      BY <1>2, <1>3, <1>6, <3>1, <3>2 DEF TurnInLine
    <3>4. QED BY <1>2, <3>3
  <2>3. QED BY <2>1, <2>2
<1>7. r[i].type = "runtime.error" /\ r[i].turn = u => u \in f
  <2>1. erred \subseteq f /\ (e.type = "runtime.error" => e.turn \in f)
    BY <1>1 DEF Sends
  <2>2. QED BY <1>1, <1>2, <1>3, <2>1 DEF TurnInLine
<1>8. ASSUME Starts(r[i], u), NEW j \in DOMAIN r, j < i
      PROVE  r[j].turn # u
  <2>1. j \in DOMAIN runtime /\ r[j] = runtime[j]
    BY <1>1, <1>2, <1>8
  <2>2. CASE i = n
    <3>1. provider[u] = "new"
      BY <1>2, <1>4, <1>8, <2>2
    <3>2. QED BY <1>3, <2>1, <3>1 DEF TurnInLine
  <2>3. CASE i \in DOMAIN runtime
    BY <1>2, <1>3, <1>8, <2>1, <2>3 DEF TurnInLine
  <2>4. QED BY <1>1, <1>2, <2>2, <2>3
<1>9. ASSUME Ends(r[i], u)
      PROVE  p[u] = "over" /\ \A j \in DOMAIN r : j > i => r[j].turn # u
  <2>1. CASE i = n
    BY <1>2, <1>4, <1>9, <2>1
  <2>2. CASE i \in DOMAIN runtime
    <3>1. provider[u] = "over" /\ \A j \in DOMAIN runtime : j > i => runtime[j].turn # u
      BY <1>2, <1>3, <1>9, <2>2 DEF TurnInLine
    <3>2. QED BY <1>2, <1>4, <3>1
  <2>3. QED BY <1>1, <1>2, <2>1, <2>2
<1>10. ASSUME ThreadOf[u] = r[i].thread, r[i].turn # u, p[u] # "new"
       PROVE  \/ \E k \in DOMAIN r : k > i /\ Starts(r[k], u)
              \/ p[u] = "over" /\ \A k \in DOMAIN r : k >= i => r[k].turn # u
  <2>1. CASE i = n
    <3>1. provider[u] # "new" /\ ~Ends(e, u)
      BY <1>2, <1>4, <1>10, <2>1 DEF Starts, Ends
    <3>2. p[u] = provider[u]
      BY <1>2, <1>4, <1>10, <2>1
    <3>3. provider[u] # "open"
      <4>1. CASE e.type = "turn.started" \/ e.turn = None
        BY <1>2, <1>10, <2>1, <4>1 DEF Sends
      <4>2. CASE e.type # "turn.started" /\ e.turn # None
        <5>1. e.turn \in Turns /\ ThreadOf[e.turn] = e.thread /\ provider[e.turn] = "open"
          BY <4>2 DEF Sends, Events
        <5>2. QED BY <1>2, <1>10, <2>1, <5>1 DEF TurnsInLine
      <4>3. QED BY <4>1, <4>2
    <3>4. p[u] = "over"
      BY <3>1, <3>2, <3>3 DEF Typed
    <3>5. QED BY <1>2, <1>10, <2>1, <3>4
  <2>2. CASE i \in DOMAIN runtime
    <3>1. CASE provider[u] = "new"
      BY <1>2, <1>4, <1>10, <2>2, <3>1
    <3>2. CASE provider[u] # "new"
      <4>1. Apart(u, i)
        BY <1>2, <1>3, <1>10, <2>2, <3>2 DEF TurnInLine
      <4>2. CASE \E k \in DOMAIN runtime : k > i /\ Starts(runtime[k], u)
        BY <1>2, <4>2
      <4>3. CASE provider[u] = "over" /\ \A k \in DOMAIN runtime : k >= i => runtime[k].turn # u
        BY <1>2, <1>4, <4>3
      <4>4. QED BY <4>1, <4>2, <4>3 DEF Apart
    <3>3. QED BY <3>1, <3>2
  <2>3. QED BY <1>1, <1>2, <2>1, <2>2
<1>11. QED BY <1>1, <1>5, <1>6, <1>7, <1>8, <1>9, <1>10 DEF TurnInLine, Apart

LEMMA SendsTurnsInLine ==
  ASSUME Typed, TurnsInLine, NEW e, Sends(e)
  PROVE  TurnsInLine'
<1>1. ASSUME NEW u \in Turns, NEW v \in Turns, ThreadOf[u] = ThreadOf[v],
             provider'[u] = "open", provider'[v] = "open"
      PROVE  u = v
  <2>1. ASSUME NEW x \in Turns, NEW y \in Turns, ThreadOf[x] = ThreadOf[y],
               provider'[x] = "open", provider'[y] = "open", provider[x] = "new"
        PROVE  x = y
    <3>1. Starts(e, x)
      BY <2>1, SendsTurns
    <3>2. e.type = "turn.started" /\ e.turn = x /\ ThreadOf[x] = e.thread
      BY <2>1, <3>1, SendsTurns DEF Starts
    <3>3. provider[y] # "open"
      <4>1. \A z \in Turns : ThreadOf[z] = e.thread => provider[z] # "open"
        BY <3>2 DEF Sends
      <4>2. QED BY <2>1, <3>2, <4>1
    <3>4. provider'[y] # provider[y]
      BY <2>1, <3>3
    <3>5. QED BY <3>2, <3>4, SendsTurns
  <2>2. ASSUME NEW x \in Turns, provider'[x] = "open", provider[x] # "new"
        PROVE  provider[x] = "open"
    BY <2>2, SendsTurns DEF Typed
  <2>3. CASE provider[u] = "new" \/ provider[v] = "new"
    BY <1>1, <2>1, <2>3
  <2>4. CASE provider[u] # "new" /\ provider[v] # "new"
    BY <1>1, <2>2, <2>4 DEF TurnsInLine
  <2>5. QED BY <2>3, <2>4
<1>2. \A i \in DOMAIN runtime' : \A u \in Turns : TurnInLine(u, i)'
  BY SendsTurnInLine
<1>3. QED BY <1>1, <1>2 DEF TurnsInLine

\* Numbered texts.
LEMMA CountIs ==
  ASSUME NEW n \in Nat
  PROVE  /\ Count(n) \in Texts /\ Len(Count(n)) = n /\ DOMAIN Count(n) = 1..n
         /\ \A i \in 1..n : Count(n)[i] = i
         /\ Count(n) = <<>> <=> n = 0
<1>1. PICK c : c = Count(n)
  OBVIOUS
<1>2. c = [i \in 1..n |-> i]
  BY <1>1 DEF Count
<1>3. c \in [1..n -> Nat] /\ DOMAIN c = 1..n /\ \A i \in 1..n : c[i] = i
  BY <1>2
<1>4. c \in Seq(Nat)
  BY <1>3, SeqDef
<1>5. Len(c) = n
  BY <1>3, <1>4, LenProperties
<1>6. c = <<>> <=> n = 0
  BY <1>4, <1>5, EmptySeq
<1>7. QED BY <1>1, <1>3, <1>4, <1>5, <1>6 DEF Texts

LEMMA CountGrows ==
  ASSUME NEW n \in Nat, NEW c, c = Count(n)
  PROVE  Append(c, n + 1) = Count(n + 1)
<1>1. c \in Seq(Nat) /\ Len(c) = n /\ \A i \in 1..n : c[i] = i
  BY CountIs DEF Texts
<1>2. PICK a : a = Append(c, n + 1)
  OBVIOUS
<1>3. /\ a \in Seq(Nat) /\ Len(a) = n + 1 /\ a[n + 1] = n + 1
      /\ \A i \in 1..n : a[i] = c[i]
  BY <1>1, <1>2, AppendProperties
<1>4. PICK b : b = Count(n + 1)
  OBVIOUS
<1>5. b \in Seq(Nat) /\ Len(b) = n + 1 /\ \A i \in 1..(n + 1) : b[i] = i
  BY <1>4, CountIs DEF Texts
<1>6. \A i \in 1..(n + 1) : a[i] = b[i]
  BY <1>1, <1>3, <1>5
<1>7. a = b
  BY ONLY <1>3, <1>5, <1>6, SeqEqual
<1>8. QED BY <1>2, <1>4, <1>7

LEMMA CountOne == <<1>> = Count(1)
<1>1. PICK a, b : a = <<1>> /\ b = Count(1)
  OBVIOUS
<1>2. a \in Seq(Nat) /\ Len(a) = 1 /\ \A i \in 1..1 : a[i] = i
  BY <1>1
<1>3. b \in Seq(Nat) /\ Len(b) = 1 /\ \A i \in 1..1 : b[i] = i
  BY <1>1, CountIs DEF Texts
<1>4. a = b
  BY ONLY <1>2, <1>3, SeqEqual
<1>5. QED BY <1>1, <1>4

\* How many pieces of an item were said, and are.
Said(e, m, l, k) ==
  /\ l = Len(said[m]) /\ k = Len(said'[m])
  /\ l \in Nat /\ k \in Nat /\ l <= k
  /\ said[m] = Count(l) /\ said'[m] = Count(k)
  /\ e.msg # m => item'[m] = item[m] /\ said'[m] = said[m] /\ k = l
  /\ e.msg = m =>
       /\ item[m] # "done" /\ item'[m] # "new" /\ TurnOf[m] = e.turn /\ k # 0
       /\ item'[m] = "done" <=> EndsItem(e, m)
       /\ e.type = "content.delta" <=> ~EndsItem(e, m)
  /\ e.msg = m /\ e.type = "content.delta" =>
       k = l + 1 /\ e.text = <<k>> /\ e.named /\ item'[m] = "live"
  /\ EndsItem(e, m) =>
       /\ e.text = said'[m]
       /\ \/ item[m] = "live" /\ k = l
          \/ item[m] = "new" /\ l = 0 /\ k = 1 /\ e.text = <<1>> /\ e.named
  /\ item[m] = "new" <=> l = 0

LEMMA SendsItems ==
  ASSUME Typed, ItemsInLine, NEW e, Sends(e), NEW m \in Messages, NEW l, l = Len(said[m]),
         NEW k, k = Len(said'[m])
  PROVE  Said(e, m, l, k)
<1>1. /\ said[m] \in Texts /\ said'[m] \in Texts /\ l \in Nat /\ k \in Nat /\ said[m] = Count(l)
  <2>1. said[m] \in Texts /\ said'[m] \in Texts
    BY DEF Typed, Sends
  <2>2. l \in Nat /\ k \in Nat
    BY <2>1, LenProperties DEF Texts
  <2>3. QED BY <2>1, <2>2 DEF ItemsInLine
<1>2. item[m] = "new" <=> l = 0
  BY <1>1, CountIs DEF ItemsInLine
<1>3. l = Len(said[m]) /\ k = Len(said'[m])
  OBVIOUS
<1>4. CASE e.msg # m
  <2>1. item'[m] = item[m] /\ said'[m] = said[m]
    BY <1>4 DEF Sends
  <2>2. ~EndsItem(e, m)
    BY <1>4 DEF EndsItem
  <2>3. QED BY <1>1, <1>2, <1>4, <2>1, <2>2 DEF Said
<1>5. CASE e.msg = m
  <2>1. m # None /\ e \in Events
    BY AssistantAssumption DEF Sends
  <2>2. TurnOf[m] = e.turn /\ e.type \in {"content.delta", "item.completed"}
    BY <1>5, <2>1 DEF Events
  <2>3. CASE e.type = "content.delta"
    <3>1. /\ item[m] # "done" /\ item'[m] = "live" /\ e.named
          /\ said'[m] = Append(said[m], l + 1) /\ e.text = <<l + 1>>
      BY <1>5, <2>3 DEF Sends
    <3>2. said'[m] = Count(l + 1)
      BY <1>1, <3>1, CountGrows
    <3>3. k = l + 1
      BY <1>1, <3>2, CountIs
    <3>4. ~EndsItem(e, m)
      BY <2>3 DEF EndsItem
    <3>5. e.text = <<l + 1>>
      BY <3>1
    <3>6. e.text = <<k>>
      BY ONLY <3>3, <3>5
    <3>7. l <= k /\ k # 0
      BY ONLY <1>1, <3>3
    <3>8. said'[m] = Count(k)
      BY ONLY <3>2, <3>3
    <3>9. said'[m] = Count(k) /\ e.text = <<k>> /\ l <= k /\ k # 0
      BY <3>6, <3>7, <3>8
    <3>10. item[m] # "done" /\ item'[m] = "live" /\ e.named
      BY <3>1
    <3>11. QED BY ONLY <1>1, <1>2, <1>5, <1>3, <2>2, <2>3, <3>3, <3>4, <3>9, <3>10 DEF Said
  <2>4. CASE e.type = "item.completed"
    <3>1. /\ item[m] # "done" /\ item'[m] = "done" /\ e.text = said'[m]
          /\ \/ item[m] = "live" /\ said' = said
             \/ item[m] = "new" /\ said'[m] = <<1>> /\ e.named
      BY <1>5, <2>4 DEF Sends
    <3>2. EndsItem(e, m)
      BY <1>5, <2>4 DEF EndsItem
    <3>3. CASE item[m] = "live" /\ said' = said
      <4>1. k = l /\ k # 0 /\ said'[m] = said[m]
        BY <1>2, <3>3
      <4>2. QED BY <1>1, <1>2, <1>5, <2>2, <2>4, <3>1, <3>2, <3>3, <4>1 DEF Said
    <3>4. CASE item[m] = "new" /\ said'[m] = <<1>> /\ e.named
      <4>1. said'[m] = Count(1)
        BY <3>4, CountOne
      <4>2. k = 1 /\ l = 0
        BY <1>2, <3>4, <4>1, CountIs
      <4>3. QED BY <1>1, <1>2, <1>5, <2>2, <2>4, <3>1, <3>2, <3>4, <4>1, <4>2 DEF Said
    <3>5. QED BY <3>1, <3>3, <3>4
  <2>5. QED BY <2>2, <2>3, <2>4
<1>6. QED BY <1>4, <1>5

LEMMA SendsItemInLine ==
  ASSUME Typed, ItemsInLine, NEW e, Sends(e), NEW i \in DOMAIN runtime', NEW m \in Messages
  PROVE  ItemInLine(m, i)'
<1>1. PICK r, n, s, t : r = runtime' /\ n = Len(runtime) + 1 /\ s = said' /\ t = item'
  OBVIOUS
<1>2. /\ n \in DOMAIN r /\ n \in Nat /\ r[n] = e /\ n \notin DOMAIN runtime
      /\ \A k \in DOMAIN runtime : k \in DOMAIN r /\ k \in Nat /\ r[k] = runtime[k] /\ k < n
      /\ \A k \in DOMAIN r : k \in DOMAIN runtime \/ k = n
      /\ \A k \in DOMAIN runtime : runtime[k] \in Events
  BY <1>1, SendsAtEnd
<1>3. \A k \in DOMAIN runtime : ItemInLine(m, k)
  BY DEF ItemsInLine
<1>4. PICK l, k : l = Len(said[m]) /\ k = Len(s[m])
  OBVIOUS
<1>5. /\ l \in Nat /\ k \in Nat /\ l <= k
      /\ e.msg # m => t[m] = item[m] /\ s[m] = said[m] /\ k = l
      /\ e.msg = m =>
           /\ item[m] # "done" /\ t[m] # "new"
           /\ t[m] = "done" <=> EndsItem(e, m)
           /\ e.type = "content.delta" <=> ~EndsItem(e, m)
      /\ e.msg = m /\ e.type = "content.delta" => k = l + 1 /\ e.text = <<k>> /\ e.named
      /\ EndsItem(e, m) => e.text = s[m]
  <2>1. Said(e, m, l, k)
    BY <1>1, <1>4, SendsItems
  <2>2. QED BY ONLY <1>1, <1>4, <2>1 DEF Said
<1>6. SUFFICES ASSUME r[i].msg = m
               PROVE  ItemInLine(m, i)'
  BY <1>1 DEF ItemInLine
<1>7. m # None
  BY AssistantAssumption
<1>8. CASE i \in DOMAIN runtime
  <2>1. /\ r[i] = runtime[i] /\ i < n /\ i \in Nat
    BY <1>2, <1>8
  <2>2. /\ item[m] # "new"
        /\ item[m] = "done" => \E j \in DOMAIN runtime : j >= i /\ EndsItem(runtime[j], m)
        /\ EndsItem(runtime[i], m) =>
             /\ item[m] = "done" /\ runtime[i].text = said[m]
             /\ \A j \in DOMAIN runtime : j > i => runtime[j].msg # m
        /\ runtime[i].type = "content.delta" =>
             /\ runtime[i].named
             /\ \E x \in 1..l :
                  /\ runtime[i].text = <<x>>
                  /\ \A j \in DOMAIN runtime :
                       j < i /\ runtime[j].msg = m => \E y \in 1..(x - 1) : runtime[j].text = <<y>>
    BY <1>3, <1>4, <1>6, <1>8, <2>1 DEF ItemInLine
  <2>3. t[m] # "new"
    BY <1>5, <2>2
  <2>4. ASSUME t[m] = "done"
        PROVE  \E j \in DOMAIN r : j >= i /\ EndsItem(r[j], m)
    <3>1. CASE EndsItem(e, m)
      <4>1. n >= i
        BY <1>2, <2>1
      <4>2. QED BY <1>2, <3>1, <4>1
    <3>2. CASE ~EndsItem(e, m)
      <4>1. item[m] = "done"
        BY <1>5, <2>4, <3>2
      <4>2. PICK j \in DOMAIN runtime : j >= i /\ EndsItem(runtime[j], m)
        BY <2>2, <4>1
      <4>3. QED BY <1>2, <4>2
    <3>3. QED BY <3>1, <3>2
  <2>5. ASSUME EndsItem(r[i], m)
        PROVE  /\ t[m] = "done" /\ r[i].text = s[m]
               /\ \A j \in DOMAIN r : j > i => r[j].msg # m
    <3>1. /\ item[m] = "done" /\ runtime[i].text = said[m]
          /\ \A j \in DOMAIN runtime : j > i => runtime[j].msg # m
      BY <2>1, <2>2, <2>5
    <3>2. e.msg # m
      BY <1>5, <3>1
    <3>3. QED BY <1>2, <1>5, <2>1, <3>1, <3>2
  <2>6. ASSUME r[i].type = "content.delta"
        PROVE  /\ r[i].named
               /\ \E x \in 1..k :
                    /\ r[i].text = <<x>>
                    /\ \A j \in DOMAIN r :
                         j < i /\ r[j].msg = m => \E y \in 1..(x - 1) : r[j].text = <<y>>
    <3>1. PICK x \in 1..l :
            /\ runtime[i].text = <<x>>
            /\ \A j \in DOMAIN runtime :
                 j < i /\ runtime[j].msg = m => \E y \in 1..(x - 1) : runtime[j].text = <<y>>
      BY <2>1, <2>2, <2>6
    <3>2. ASSUME NEW j \in DOMAIN r, j < i, r[j].msg = m
          PROVE  \E y \in 1..(x - 1) : r[j].text = <<y>>
      <4>1. j \in DOMAIN runtime /\ r[j] = runtime[j]
        BY <1>2, <2>1, <3>2
      <4>2. QED BY <3>1, <3>2, <4>1
    <3>3. x \in 1..k
      BY <1>5
    <3>4. r[i].named /\ r[i].text = <<x>>
      BY <2>1, <2>2, <2>6, <3>1
    <3>5. QED BY <3>2, <3>3, <3>4
  <2>7. QED BY <1>1, <1>4, <2>3, <2>4, <2>5, <2>6 DEF ItemInLine
<1>9. CASE i = n
  <2>1. e.msg = m /\ r[i] = e
    BY <1>2, <1>6, <1>9
  <2>2. t[m] # "new"
    BY <1>5, <2>1
  <2>3. t[m] = "done" => \E j \in DOMAIN r : j >= i /\ EndsItem(r[j], m)
    BY <1>2, <1>5, <1>9, <2>1
  <2>4. EndsItem(e, m) =>
          /\ t[m] = "done" /\ e.text = s[m]
          /\ \A j \in DOMAIN r : j > i => r[j].msg # m
    BY <1>2, <1>5, <1>9, <2>1
  <2>5. ASSUME e.type = "content.delta"
        PROVE  /\ e.named
               /\ \E x \in 1..k :
                    /\ e.text = <<x>>
                    /\ \A j \in DOMAIN r :
                         j < i /\ r[j].msg = m => \E y \in 1..(x - 1) : r[j].text = <<y>>
    <3>1. k = l + 1 /\ e.text = <<k>> /\ e.named /\ item[m] # "done"
      BY <1>5, <2>1, <2>5
    <3>2. ASSUME NEW j \in DOMAIN r, j < i, r[j].msg = m
          PROVE  \E y \in 1..(k - 1) : r[j].text = <<y>>
      <4>1. j \in DOMAIN runtime /\ r[j] = runtime[j] /\ runtime[j] \in Events
        BY <1>2, <1>9, <3>2
      <4>2. ~EndsItem(runtime[j], m)
        BY <1>3, <3>1, <3>2, <4>1 DEF ItemInLine
      <4>3. runtime[j].type = "content.delta"
        BY <1>7, <3>2, <4>1, <4>2 DEF Events, EndsItem
      <4>4. PICK x \in 1..l : runtime[j].text = <<x>>
        BY <1>3, <1>4, <3>2, <4>1, <4>3 DEF ItemInLine
      <4>5. x \in 1..(k - 1)
        BY <1>5, <3>1
      <4>6. QED BY <4>1, <4>4, <4>5
    <3>3. k \in 1..k
      BY <1>5, <3>1
    <3>4. QED BY <3>1, <3>2, <3>3
  <2>6. QED BY <1>1, <1>4, <2>1, <2>2, <2>3, <2>4, <2>5 DEF ItemInLine
<1>10. QED BY <1>1, <1>2, <1>8, <1>9

LEMMA SendsItemsInLine ==
  ASSUME Typed, TurnsInLine, ItemsInLine, NEW e, Sends(e)
  PROVE  ItemsInLine'
<1>1. ASSUME NEW m \in Messages
      PROVE  /\ said'[m] = Count(Len(said'[m]))
             /\ item'[m] = "new" <=> said'[m] = <<>>
             /\ item'[m] # "new" => provider'[TurnOf[m]] # "new"
  <2>1. PICK l, k : l = Len(said[m]) /\ k = Len(said'[m])
    OBVIOUS
  <2>2. /\ l \in Nat /\ k \in Nat
        /\ said'[m] = Count(k)
        /\ e.msg # m => item'[m] = item[m] /\ k = l
        /\ e.msg = m => item'[m] # "new" /\ TurnOf[m] = e.turn /\ k # 0
        /\ item[m] = "new" <=> l = 0
    <3>1. Said(e, m, l, k)
      BY <2>1, SendsItems
    <3>2. QED BY ONLY <2>1, <3>1 DEF Said
  <2>3. Count(k) = <<>> <=> k = 0
    BY <2>2, CountIs
  <2>4. TurnOf[m] \in Turns
    BY AssistantAssumption
  <2>5. item[m] # "new" => provider[TurnOf[m]] # "new"
    BY DEF ItemsInLine
  <2>6. e.turn = TurnOf[m] \/ provider[TurnOf[m]] # "new" => provider'[TurnOf[m]] # "new"
    BY <2>4, SendsTurns
  <2>7. QED BY <2>1, <2>2, <2>3, <2>5, <2>6
<1>2. \A i \in DOMAIN runtime' : \A m \in Messages : ItemInLine(m, i)'
  BY SendsItemInLine
<1>3. QED BY <1>1, <1>2 DEF ItemsInLine

-----------------------------------------------------------------------------
(* The worker takes an event                                               *)

Takes(e) ==
  /\ todo = <<>> /\ runtime # <<>> /\ e = Head(runtime) /\ runtime' = Tail(runtime)
  /\ UNCHANGED <<provider, item, said, domain, active, message, mode, completions, disturbed,
                 erred>>

LEMMA TakesAtHead ==
  ASSUME Typed, NEW e, Takes(e), NEW r, r = runtime'
  PROVE  /\ e \in Events /\ 1 \in DOMAIN runtime /\ runtime[1] = e /\ r \in Seq(Events)
         /\ \A i \in DOMAIN runtime : i \in Nat /\ i >= 1 /\ runtime[i] \in Events
         /\ \A i \in DOMAIN r :
              i \in Nat /\ i + 1 \in DOMAIN runtime /\ runtime[i + 1] = r[i] /\ i + 1 > 1
         /\ \A i \in DOMAIN runtime : i = 1 \/ \E j \in DOMAIN r : i = j + 1 /\ r[j] = runtime[i]
<1>1. runtime \in Seq(Events) /\ runtime # <<>> /\ e = Head(runtime) /\ r = Tail(runtime)
  BY DEF Typed, Takes
<1>2. /\ e \in Events /\ r \in Seq(Events) /\ Len(runtime) \in Nat
      /\ DOMAIN runtime = 1..Len(runtime)
      /\ runtime[1] = e /\ 1 \in DOMAIN runtime
      /\ \A i \in DOMAIN r :
           i \in Nat /\ i + 1 \in DOMAIN runtime /\ runtime[i + 1] = r[i] /\ i + 1 > 1
      /\ \A i \in DOMAIN runtime : i = 1 \/ \E j \in DOMAIN r : i = j + 1
  <2>1. PICK s : s = runtime
    OBVIOUS
  <2>2. s \in Seq(Events) /\ s # <<>> /\ e = Head(s) /\ r = Tail(s)
    BY <1>1, <2>1
  <2>3. /\ e \in Events /\ r \in Seq(Events) /\ Len(s) \in Nat /\ DOMAIN s = 1..Len(s)
        /\ Shifts(s, e, r)
    BY ONLY <2>2, AtHead
  <2>4. QED BY <2>1, <2>3 DEF Shifts
<1>3. \A i \in DOMAIN runtime : i \in Nat /\ i >= 1
  BY <1>2
<1>4. \A i \in DOMAIN runtime : runtime[i] \in Events
  BY <1>1, ElementOfSeq
<1>5. QED BY <1>2, <1>3, <1>4

LEMMA TakesTurnInLine ==
  ASSUME Typed, TurnsInLine, NEW e, Takes(e), NEW i \in DOMAIN runtime', NEW u \in Turns
  PROVE  TurnInLine(u, i)'
<1>1. PICK r : r = runtime'
  OBVIOUS
<1>2. /\ \A k \in DOMAIN r :
           k \in Nat /\ k + 1 \in DOMAIN runtime /\ runtime[k + 1] = r[k] /\ k + 1 > 1
      /\ \A k \in DOMAIN runtime : k = 1 \/ \E j \in DOMAIN r : k = j + 1 /\ r[j] = runtime[k]
  BY <1>1, TakesAtHead
<1>3. provider' = provider /\ erred' = erred
  BY DEF Takes
<1>4. PICK h : h = i + 1
  OBVIOUS
<1>5. i \in DOMAIN r /\ h \in DOMAIN runtime /\ runtime[h] = r[i] /\ i \in Nat /\ h > 1
  BY <1>1, <1>2, <1>4
<1>6. TurnInLine(u, h)
  BY <1>5 DEF TurnsInLine
<1>7. ASSUME NEW j \in DOMAIN r
      PROVE  \E k \in DOMAIN runtime : runtime[k] = r[j] /\ (j < i <=> k < h) /\ (j > i <=> k > h)
                                       /\ (j >= i <=> k >= h)
  <2>1. j \in Nat /\ j + 1 \in DOMAIN runtime /\ runtime[j + 1] = r[j]
    BY <1>2
  <2>2. (j < i <=> j + 1 < h) /\ (j > i <=> j + 1 > h) /\ (j >= i <=> j + 1 >= h)
    BY <1>4, <1>5, <2>1
  <2>3. QED BY <2>1, <2>2
<1>8. ASSUME NEW k \in DOMAIN runtime, k >= h
      PROVE  \E j \in DOMAIN r : r[j] = runtime[k] /\ j >= i /\ (k > h => j > i)
  <2>1. k # 1
    BY <1>4, <1>5, <1>8
  <2>2. PICK j \in DOMAIN r : k = j + 1 /\ r[j] = runtime[k]
    BY <1>2, <2>1
  <2>3. j \in Nat
    BY <1>2
  <2>4. j >= i /\ (k > h => j > i)
    BY <1>4, <1>5, <1>8, <2>2, <2>3
  <2>5. QED BY <2>2, <2>4
<1>9. r[i].turn = u => provider[u] # "new"
  BY <1>5, <1>6 DEF TurnInLine
<1>10. ASSUME r[i].turn = u, provider[u] = "over"
       PROVE  \E j \in DOMAIN r : j >= i /\ Ends(r[j], u)
  <2>1. PICK k \in DOMAIN runtime : k >= h /\ Ends(runtime[k], u)
    BY <1>5, <1>6, <1>10 DEF TurnInLine
  <2>2. QED BY <1>8, <2>1
<1>11. r[i].type = "runtime.error" /\ r[i].turn = u => u \in erred
  BY <1>5, <1>6 DEF TurnInLine
<1>12. ASSUME Starts(r[i], u), NEW j \in DOMAIN r, j < i
       PROVE  r[j].turn # u
  <2>1. \A k \in DOMAIN runtime : k < h => runtime[k].turn # u
    BY <1>5, <1>6, <1>12 DEF TurnInLine
  <2>2. QED BY <1>7, <1>12, <2>1
<1>13. ASSUME Ends(r[i], u)
       PROVE  provider[u] = "over" /\ \A j \in DOMAIN r : j > i => r[j].turn # u
  <2>1. provider[u] = "over" /\ \A k \in DOMAIN runtime : k > h => runtime[k].turn # u
    BY <1>5, <1>6, <1>13 DEF TurnInLine
  <2>2. QED BY <1>7, <2>1
<1>14. ASSUME ThreadOf[u] = r[i].thread, r[i].turn # u, provider[u] # "new"
       PROVE  \/ \E j \in DOMAIN r : j > i /\ Starts(r[j], u)
              \/ provider[u] = "over" /\ \A j \in DOMAIN r : j >= i => r[j].turn # u
  <2>1. Apart(u, h)
    BY <1>5, <1>6, <1>14 DEF TurnInLine
  <2>2. CASE \E k \in DOMAIN runtime : k > h /\ Starts(runtime[k], u)
    <3>1. PICK k \in DOMAIN runtime : k > h /\ Starts(runtime[k], u)
      BY <2>2
    <3>2. k \in Nat /\ h \in Nat
      BY <1>4, <1>5, TakesAtHead
    <3>3. k >= h
      BY <3>1, <3>2
    <3>4. QED BY <1>8, <3>1, <3>3
  <2>3. CASE provider[u] = "over" /\ \A k \in DOMAIN runtime : k >= h => runtime[k].turn # u
    BY <1>7, <2>3
  <2>4. QED BY <2>1, <2>2, <2>3 DEF Apart
<1>15. QED BY <1>1, <1>3, <1>9, <1>10, <1>11, <1>12, <1>13, <1>14 DEF TurnInLine, Apart

LEMMA TakesTurnsInLine ==
  ASSUME Typed, TurnsInLine, NEW e, Takes(e)
  PROVE  TurnsInLine'
<1>1. provider' = provider
  BY DEF Takes
<1>2. \A i \in DOMAIN runtime' : \A u \in Turns : TurnInLine(u, i)'
  BY TakesTurnInLine
<1>3. QED BY <1>1, <1>2 DEF TurnsInLine

LEMMA TakesItemInLine ==
  ASSUME Typed, ItemsInLine, NEW e, Takes(e), NEW i \in DOMAIN runtime', NEW m \in Messages
  PROVE  ItemInLine(m, i)'
<1>1. PICK r : r = runtime'
  OBVIOUS
<1>2. /\ \A k \in DOMAIN r :
           k \in Nat /\ k + 1 \in DOMAIN runtime /\ runtime[k + 1] = r[k] /\ k + 1 > 1
      /\ \A k \in DOMAIN runtime : k = 1 \/ \E j \in DOMAIN r : k = j + 1 /\ r[j] = runtime[k]
  BY <1>1, TakesAtHead
<1>3. item' = item /\ said' = said
  BY DEF Takes
<1>4. PICK h : h = i + 1
  OBVIOUS
<1>5. i \in DOMAIN r /\ h \in DOMAIN runtime /\ runtime[h] = r[i] /\ i \in Nat /\ h > 1
  BY <1>1, <1>2, <1>4
<1>6. ItemInLine(m, h)
  BY <1>5 DEF ItemsInLine
<1>7. SUFFICES ASSUME r[i].msg = m
               PROVE  ItemInLine(m, i)'
  BY <1>1 DEF ItemInLine
<1>8. PICK l : l = Len(said[m])
  OBVIOUS
<1>9. /\ item[m] # "new"
      /\ item[m] = "done" => \E k \in DOMAIN runtime : k >= h /\ EndsItem(runtime[k], m)
      /\ EndsItem(runtime[h], m) =>
           /\ item[m] = "done" /\ runtime[h].text = said[m]
           /\ \A j \in DOMAIN runtime : j > h => runtime[j].msg # m
      /\ runtime[h].type = "content.delta" =>
           /\ runtime[h].named
           /\ \E k \in 1..l :
                /\ runtime[h].text = <<k>>
                /\ \A j \in DOMAIN runtime :
                     j < h /\ runtime[j].msg = m => \E x \in 1..(k - 1) : runtime[j].text = <<x>>
  BY <1>5, <1>6, <1>7, <1>8 DEF ItemInLine
<1>10. ASSUME NEW j \in DOMAIN r
       PROVE  j \in Nat /\ j + 1 \in DOMAIN runtime /\ runtime[j + 1] = r[j]
              /\ (j < i => j + 1 < h) /\ (j > i => j + 1 > h)
  <2>1. j \in Nat /\ j + 1 \in DOMAIN runtime /\ runtime[j + 1] = r[j]
    BY <1>2
  <2>2. QED BY <1>4, <1>5, <2>1
<1>11. ASSUME item[m] = "done"
       PROVE  \E j \in DOMAIN r : j >= i /\ EndsItem(r[j], m)
  <2>1. PICK k \in DOMAIN runtime : k >= h /\ EndsItem(runtime[k], m)
    BY <1>9, <1>11
  <2>2. k # 1
    BY <1>4, <1>5, <2>1
  <2>3. PICK j \in DOMAIN r : k = j + 1 /\ r[j] = runtime[k]
    BY <1>2, <2>2
  <2>4. j >= i
    BY <1>4, <1>5, <1>10, <2>1, <2>3
  <2>5. QED BY <2>1, <2>3, <2>4
<1>12. ASSUME EndsItem(r[i], m)
       PROVE  /\ item[m] = "done" /\ r[i].text = said[m]
              /\ \A j \in DOMAIN r : j > i => r[j].msg # m
  <2>1. /\ item[m] = "done" /\ runtime[h].text = said[m]
        /\ \A j \in DOMAIN runtime : j > h => runtime[j].msg # m
    BY <1>5, <1>9, <1>12
  <2>2. ASSUME NEW j \in DOMAIN r, j > i
        PROVE  r[j].msg # m
    <3>1. j + 1 \in DOMAIN runtime /\ runtime[j + 1] = r[j] /\ j + 1 > h
      BY <1>10, <2>2
    <3>2. QED BY <2>1, <3>1
  <2>3. QED BY <1>5, <2>1, <2>2
<1>13. ASSUME r[i].type = "content.delta"
       PROVE  /\ r[i].named
              /\ \E k \in 1..l :
                   /\ r[i].text = <<k>>
                   /\ \A j \in DOMAIN r :
                        j < i /\ r[j].msg = m => \E x \in 1..(k - 1) : r[j].text = <<x>>
  <2>1. PICK k \in 1..l :
          /\ runtime[h].text = <<k>>
          /\ \A j \in DOMAIN runtime :
               j < h /\ runtime[j].msg = m => \E x \in 1..(k - 1) : runtime[j].text = <<x>>
    BY <1>5, <1>9, <1>13
  <2>2. ASSUME NEW j \in DOMAIN r, j < i, r[j].msg = m
        PROVE  \E x \in 1..(k - 1) : r[j].text = <<x>>
    <3>1. PICK q : q = j + 1
      OBVIOUS
    <3>2. q \in DOMAIN runtime /\ runtime[q] = r[j] /\ q < h
      BY <1>10, <2>2, <3>1
    <3>3. QED BY <2>1, <2>2, <3>2
  <2>3. r[i].named /\ r[i].text = <<k>>
    BY <1>5, <1>9, <1>13, <2>1
  <2>4. QED BY <2>2, <2>3
<1>14. QED BY <1>1, <1>3, <1>8, <1>9, <1>11, <1>12, <1>13 DEF ItemInLine

LEMMA TakesItemsInLine ==
  ASSUME Typed, ItemsInLine, NEW e, Takes(e)
  PROVE  ItemsInLine'
<1>1. provider' = provider /\ item' = item /\ said' = said
  BY DEF Takes
<1>2. \A i \in DOMAIN runtime' : \A m \in Messages : ItemInLine(m, i)'
  BY TakesItemInLine
<1>3. QED BY <1>1, <1>2 DEF ItemsInLine

\* Of whom the event is, is the current turn.
LEMMA TakesTurns ==
  ASSUME Typed, TurnsInLine, NEW e, Takes(e), NEW u \in Turns
  PROVE  /\ e.turn # u => (Current(u)' <=> Current(u))
         /\ e.turn = u /\ ~Starts(e, u) => Current(u)
         /\ e.turn = u /\ ~Ends(e, u) => Current(u)'
         /\ Ends(e, u) => ~Current(u)'
         /\ ThreadOf[u] = e.thread /\ e.turn # u => ~Current(u)
         /\ Starts(e, u) => ~Current(u)
<1>1. PICK r : r = runtime'
  OBVIOUS
<1>2. /\ 1 \in DOMAIN runtime /\ runtime[1] = e
      /\ \A i \in DOMAIN runtime : i \in Nat /\ i >= 1 /\ runtime[i] \in Events
      /\ \A k \in DOMAIN r :
           k \in Nat /\ k + 1 \in DOMAIN runtime /\ runtime[k + 1] = r[k] /\ k + 1 > 1
      /\ \A k \in DOMAIN runtime : k = 1 \/ \E j \in DOMAIN r : k = j + 1 /\ r[j] = runtime[k]
  BY <1>1, TakesAtHead
<1>3. provider' = provider
  BY DEF Takes
<1>4. \A k \in DOMAIN runtime : TurnInLine(u, k)
  BY DEF TurnsInLine
<1>5. /\ \A k \in DOMAIN r : \E j \in DOMAIN runtime : runtime[j] = r[k]
      /\ \A k \in DOMAIN runtime : runtime[k] = e \/ \E j \in DOMAIN r : r[j] = runtime[k]
  BY <1>2
<1>6. Current(u)' <=> /\ provider[u] # "new" /\ ~(\E i \in DOMAIN r : Starts(r[i], u))
                      /\ provider[u] = "over" => \E i \in DOMAIN r : Ends(r[i], u)
  BY <1>1, <1>3 DEF Current
<1>7. ASSUME e.turn # u
      PROVE  Current(u)' <=> Current(u)
  <2>1. ~Starts(e, u) /\ ~Ends(e, u)
    BY <1>7 DEF Starts, Ends
  <2>2. (\E i \in DOMAIN r : Starts(r[i], u)) <=> \E i \in DOMAIN runtime : Starts(runtime[i], u)
    BY <1>5, <2>1
  <2>3. (\E i \in DOMAIN r : Ends(r[i], u)) <=> \E i \in DOMAIN runtime : Ends(runtime[i], u)
    BY <1>5, <2>1
  <2>4. QED BY <1>6, <2>2, <2>3 DEF Current
<1>8. ASSUME e.turn = u
      PROVE  /\ provider[u] # "new"
             /\ provider[u] = "over" => \E k \in DOMAIN runtime : Ends(runtime[k], u)
             /\ \A i \in DOMAIN runtime : Starts(runtime[i], u) => i = 1
  <2>1. provider[u] # "new"
        /\ (provider[u] = "over" => \E k \in DOMAIN runtime : Ends(runtime[k], u))
    BY <1>2, <1>4, <1>8 DEF TurnInLine
  <2>2. ASSUME NEW i \in DOMAIN runtime, Starts(runtime[i], u), i # 1
        PROVE  FALSE
    <3>1. 1 < i
      BY <1>2, <2>2
    <3>2. runtime[1].turn # u
      BY <1>2, <1>4, <2>2, <3>1 DEF TurnInLine
    <3>3. QED BY <1>2, <1>8, <3>2
  <2>3. QED BY <2>1, <2>2
<1>9. ASSUME e.turn = u, ~Starts(e, u)
      PROVE  Current(u)
  <2>1. ~(\E i \in DOMAIN runtime : Starts(runtime[i], u))
    BY <1>2, <1>8, <1>9
  <2>2. QED BY <1>8, <1>9, <2>1 DEF Current
<1>10. ASSUME e.turn = u, ~Ends(e, u)
       PROVE  Current(u)'
  <2>1. ASSUME NEW i \in DOMAIN r
        PROVE  ~Starts(r[i], u)
    <3>1. i + 1 \in DOMAIN runtime /\ runtime[i + 1] = r[i] /\ i + 1 # 1
      BY <1>2
    <3>2. QED BY <1>8, <1>10, <3>1
  <2>2. provider[u] = "over" => \E i \in DOMAIN r : Ends(r[i], u)
    BY <1>5, <1>8, <1>10
  <2>3. QED BY <1>6, <1>8, <1>10, <2>1, <2>2
<1>11. ASSUME Ends(e, u)
       PROVE  ~Current(u)'
  <2>1. provider[u] = "over" /\ \A j \in DOMAIN runtime : j > 1 => runtime[j].turn # u
    BY <1>2, <1>4, <1>11 DEF TurnInLine
  <2>2. ASSUME NEW i \in DOMAIN r
        PROVE  ~Ends(r[i], u)
    <3>1. r[i].turn # u
      BY <1>2, <2>1
    <3>2. QED BY <3>1 DEF Ends
  <2>3. QED BY <1>6, <2>1, <2>2
<1>12. ASSUME ThreadOf[u] = e.thread, e.turn # u
       PROVE  ~Current(u)
  <2>1. CASE provider[u] = "new"
    BY <2>1 DEF Current
  <2>2. CASE provider[u] # "new"
    <3>1. Apart(u, 1)
      BY <1>2, <1>4, <1>12, <2>2 DEF TurnInLine
    <3>2. CASE \E k \in DOMAIN runtime : k > 1 /\ Starts(runtime[k], u)
      BY <3>2 DEF Current
    <3>3. CASE provider[u] = "over" /\ \A k \in DOMAIN runtime : k >= 1 => runtime[k].turn # u
      BY <1>2, <3>3 DEF Current, Ends
    <3>4. QED BY <3>1, <3>2, <3>3 DEF Apart
  <2>3. QED BY <2>1, <2>2
<1>13. Starts(e, u) => ~Current(u)
  BY <1>2 DEF Current
<1>14. QED BY <1>7, <1>9, <1>10, <1>11, <1>12, <1>13

-----------------------------------------------------------------------------
(* What the handlers leave to be done, in order                            *)

LEMMA EmptyInOrder ==
  ASSUME NEW q, q = <<>>
  PROVE  q \in Seq(Ops) /\ DOMAIN q = {} /\ InOrder(q)
BY DEF InOrder

LEMMA OneInOrder ==
  ASSUME NEW x \in Ops, NEW q, q = <<x>>
  PROVE  q \in Seq(Ops) /\ DOMAIN q = {1} /\ q[1] = x /\ 1 \in DOMAIN q /\ q # <<>> /\ Head(q) = x
         /\ InOrder(q)
<1>1. q \in Seq(Ops) /\ DOMAIN q = {1} /\ q[1] = x /\ q # <<>> /\ Head(q) = x
  OBVIOUS
<1>2. InOrder(q)
  BY ONLY <1>1 DEF InOrder
<1>3. QED BY <1>1, <1>2

LEMMA ClosesInOrder ==
  ASSUME NEW q, NEW t, NEW u, NEW set, NEW clear, Closes(q, t, u, set, clear)
  PROVE  /\ q \in Seq(Ops) /\ InOrder(q)
         /\ \A i \in DOMAIN q : q[i].op = "flush" =>
              \E j \in DOMAIN q : j > i /\ q[j].op = "complete" /\ q[j].msg = q[i].msg
<1>1. Finishes(q, t, u)
  BY DEF Closes
<1>2. /\ q \in Seq(Ops)
      /\ \A i \in DOMAIN q :
           /\ i \in Nat /\ q[i].thread = t /\ q[i].text = <<>>
           /\ q[i].op \in {"session", "clear", "flush", "complete", "forgetTurn"}
           /\ q[i].op \in OfTurn => q[i].turn = u
           /\ q[i].op = "complete" =>
                \A j \in DOMAIN q :
                  j > i /\ q[j].op \in {"flush", "complete"} => q[j].msg # q[i].msg
           /\ q[i].op = "clear" => \A j \in DOMAIN q : j > i => q[j].op # "flush"
  <2>1. q \in Seq(Ops)
    BY <1>1 DEF Finishes
  <2>2. DOMAIN q \subseteq Nat
    BY <2>1, LenProperties
  <2>3. QED BY <1>1, <2>1, <2>2 DEF Finishes
<1>3. \A i, j \in DOMAIN q : q[i].op = "session" /\ q[j].op = "session" => i = j
  BY DEF Closes
<1>4. \A i, j \in DOMAIN q : i < j <=> j > i
  BY <1>2
<1>5. \A i, j \in DOMAIN q :
        i < j /\ q[i].op = "complete" /\ q[j].op \in {"flush", "delta", "complete"} =>
          q[i].msg # q[j].msg
  BY <1>2, <1>4
<1>6. InOrder(q)
  BY <1>2, <1>3, <1>4, <1>5 DEF InOrder
<1>7. \A i \in DOMAIN q : q[i].op = "flush" =>
        \E j \in DOMAIN q : j > i /\ q[j].op = "complete" /\ q[j].msg = q[i].msg
  BY <1>1 DEF Finishes
<1>8. QED BY <1>2, <1>6, <1>7

\* The steps of q finish message m: what is left of it, or else the fallback, is
\* flushed, and the message forgotten.
FinishesItem(q, m, fallback) ==
  /\ q \in Seq(Ops) /\ DOMAIN q = 1..3 /\ InOrder(q) /\ q # <<>> /\ Head(q) = q[1]
  /\ \A i \in 1..3 : q[i].msg = m /\ q[i].turn = TurnOf[m] /\ q[i].thread = ThreadOf[TurnOf[m]]
  /\ q[1].op = "flush" /\ q[1].text = fallback
  /\ q[2].op = "complete" /\ q[2].text = <<>>
  /\ q[3].op = "forget" /\ q[3].text = <<>>

LEMMA TripleIs ==
  ASSUME NEW m \in Messages, NEW fallback \in Texts,
         NEW q, q = Finalize(m, fallback) \o <<Forget(m)>>
  PROVE  FinishesItem(q, m, fallback)
<1>1. PICK f, c, g : f = Flush(m, fallback) /\ c = Complete(m) /\ g = Forget(m)
  OBVIOUS
<1>2. PICK p : p = <<f, c>>
  OBVIOUS
<1>3. \A s \in {f, c, g} :
        s \in Ops /\ s.msg = m /\ s.turn = TurnOf[m] /\ s.thread = ThreadOf[TurnOf[m]]
  <2>1. TurnOf[m] \in Turns
    BY AssistantAssumption
  <2>2. QED BY <1>1, <2>1, StepsAre
<1>4. /\ f.op = "flush" /\ f.text = fallback /\ c.op = "complete" /\ c.text = <<>>
      /\ g.op = "forget" /\ g.text = <<>>
  <2>1. TurnOf[m] \in Turns
    BY AssistantAssumption
  <2>2. QED BY <1>1, <2>1, StepsAre
<1>5. q \in Seq(Ops) /\ DOMAIN q = 1..3 /\ q[1] = f /\ q[2] = c /\ q[3] = g /\ q # <<>>
      /\ Head(q) = f
  <2>1. q = p \o <<g>>
    BY <1>1, <1>2 DEF Finalize
  <2>2. p \in Seq(Ops) /\ Len(p) = 2 /\ DOMAIN p = 1..2 /\ p[1] = f /\ p[2] = c
    BY <1>2, <1>3
  <2>3. q = Append(p, g)
    <3>1. g \in Ops /\ p \in Seq(Ops)
      BY ONLY <1>3, <2>2
    <3>2. QED BY ONLY <2>1, <3>1, JoinsOne
  <2>4. /\ q \in Seq(Ops) /\ DOMAIN q = 1..3 /\ Len(q) = 3
        /\ \A i \in DOMAIN p : q[i] = p[i]
        /\ q[3] = g
    <3>1. g \in Ops /\ p \in Seq(Ops)
      BY ONLY <1>3, <2>2
    <3>2. PICK n : n = Len(p)
      OBVIOUS
    <3>3. /\ q \in Seq(Ops) /\ DOMAIN p = 1..n /\ DOMAIN q = 1..(n + 1)
          /\ Len(q) = n + 1 /\ q[n + 1] = g
          /\ \A i \in DOMAIN p : q[i] = p[i]
      BY ONLY <2>3, <3>1, <3>2, AtEnd
    <3>4. QED BY ONLY <2>2, <3>2, <3>3
  <2>5. q[1] = f /\ q[2] = c
    BY ONLY <2>2, <2>4
  <2>6. q # <<>>
    BY ONLY <2>4
  <2>7. Head(q) = q[1]
    <3>1. PICK h, r : h = Head(q) /\ r = Tail(q)
      OBVIOUS
    <3>2. Shifts(q, h, r)
      BY ONLY <2>4, <2>6, <3>1, AtHead
    <3>3. QED BY <3>1, <3>2 DEF Shifts
  <2>8. QED BY <2>4, <2>5, <2>6, <2>7
<1>6. \A i \in 1..3 : i = 1 \/ i = 2 \/ i = 3
  OBVIOUS
<1>7. \A i \in 1..3 : q[i] \in {f, c, g}
  BY ONLY <1>5, <1>6
<1>8. ASSUME NEW i \in DOMAIN q, NEW j \in DOMAIN q
      PROVE  /\ q[i].thread = q[j].thread /\ q[i].turn = q[j].turn
             /\ q[i].op # "session" /\ q[i].op # "delta" /\ q[i].op # "clear"
             /\ i < j /\ q[i].op = "complete" => j = 3 /\ q[j].op = "forget"
             /\ q[i].text # <<>> => i = 1
  <2>1. i \in 1..3 /\ j \in 1..3
    BY <1>5
  <2>2. q[i].thread = q[j].thread /\ q[i].turn = q[j].turn
    BY ONLY <1>3, <1>7, <2>1
  <2>3. q[i].op # "session" /\ q[i].op # "delta" /\ q[i].op # "clear"
    BY ONLY <1>4, <1>7, <2>1
  <2>4. q[i].op = "complete" => i = 2
    BY ONLY <1>4, <1>5, <1>6, <2>1
  <2>5. i = 2 /\ i < j => j = 3
    BY ONLY <1>6, <2>1
  <2>6. q[i].text # <<>> => i = 1
    BY ONLY <1>4, <1>5, <1>6, <2>1
  <2>7. QED BY ONLY <1>4, <1>5, <2>2, <2>3, <2>4, <2>5, <2>6
<1>9. InOrder(q)
  BY ONLY <1>8 DEF InOrder
<1>10. QED BY <1>3, <1>4, <1>5, <1>7, <1>9 DEF FinishesItem

\* The steps of q flush what is known of turn v.
Flushes(q, v) ==
  /\ q \in Seq(Ops) /\ InOrder(q)
  /\ \A i \in DOMAIN q :
       /\ q[i].op = "flush" /\ q[i].text = <<>> /\ v # None /\ q[i].turn = v
       /\ q[i].msg \in known[v]
  /\ v # None => \A m \in known[v] : \E i \in DOMAIN q : q[i].msg = m

LEMMA FlushedIs ==
  ASSUME Typed, NEW t \in Threads, NEW e, e.thread = t, NEW q, q = FlushedForStreaming(e)
  PROVE  /\ e.mode # "streaming" => q = <<>>
         /\ e.mode = "streaming" => Flushes(q, active[t])
         /\ q \in Seq(Ops) /\ InOrder(q)
         /\ \A i \in DOMAIN q :
              /\ q[i].op = "flush" /\ q[i].text = <<>> /\ active[t] # None /\ q[i].turn = active[t]
              /\ q[i].msg \in known[active[t]]
<1>1. PICK v : v = active[t]
  OBVIOUS
<1>2. v \in Turns \cup {None}
  BY <1>1 DEF Typed
<1>3. CASE e.mode # "streaming"
  <2>1. q = <<>>
    BY <1>3 DEF FlushedForStreaming
  <2>2. QED BY <1>3, <2>1, EmptyInOrder
<1>4. CASE e.mode = "streaming" /\ v = None
  <2>1. q = <<>>
    BY <1>1, <1>4 DEF FlushedForStreaming
  <2>2. q \in Seq(Ops) /\ DOMAIN q = {} /\ InOrder(q)
    BY <2>1, EmptyInOrder
  <2>3. QED BY <1>1, <1>4, <2>2 DEF Flushes
<1>5. CASE e.mode = "streaming" /\ v # None
  <2>1. PICK ids : ids = SetToSeq(known[v])
    OBVIOUS
  <2>2. v \in Turns
    BY <1>2, <1>5
  <2>3. IsFiniteSet(known[v]) /\ known[v] \subseteq Messages /\ \A m \in known[v] : TurnOf[m] = v
    BY <2>2 DEF Typed
  <2>4. /\ ids \in Seq(known[v]) /\ Len(ids) \in Nat /\ DOMAIN ids = 1..Len(ids)
        /\ \A x \in known[v] : \E i \in 1..Len(ids) : ids[i] = x
        /\ \A i, j \in 1..Len(ids) : ids[i] = ids[j] => i = j
    BY <2>1, <2>3, OrderOfSet
  <2>5. q = [i \in DOMAIN ids |-> Flush(ids[i], <<>>)]
    BY <1>1, <1>5, <2>1 DEF FlushedForStreaming
  <2>6. ASSUME NEW i \in DOMAIN ids
        PROVE  /\ ids[i] \in known[v] /\ q[i] \in Ops /\ q[i].op = "flush" /\ q[i].text = <<>>
               /\ q[i].msg = ids[i] /\ q[i].turn = v /\ q[i].thread = ThreadOf[v]
    <3>1. ids[i] \in known[v]
      BY <2>4
    <3>2. ids[i] \in Messages /\ TurnOf[ids[i]] = v /\ <<>> \in Texts
      BY <2>3, <3>1 DEF Texts
    <3>3. q[i] = Flush(ids[i], <<>>)
      BY <2>5
    <3>4. QED BY <2>2, <3>1, <3>2, <3>3, StepsAre
  <2>7. DOMAIN q = DOMAIN ids /\ q \in [DOMAIN ids -> Ops]
    BY <2>5, <2>6
  <2>8. q \in Seq(Ops)
    BY <2>4, <2>7, SeqDef
  <2>9. ASSUME NEW i \in DOMAIN q, NEW j \in DOMAIN q
        PROVE  q[i].op = "flush" /\ q[j].op = "flush" /\ q[i].thread = q[j].thread
               /\ q[i].turn = q[j].turn /\ q[i].text = <<>>
    BY <2>6, <2>7
  <2>10. InOrder(q)
    BY ONLY <2>9 DEF InOrder
  <2>11. \A m \in known[v] : \E i \in DOMAIN q : q[i].msg = m
    BY <2>4, <2>6, <2>7
  <2>12. Flushes(q, v)
    BY <1>5, <2>6, <2>7, <2>8, <2>10, <2>11 DEF Flushes
  <2>13. QED BY <1>1, <1>5, <2>6, <2>7, <2>8, <2>10, <2>12
<1>6. QED BY <1>3, <1>4, <1>5

LEMMA TailInOrder ==
  ASSUME NEW q, InOrder(q), NEW s, NEW r, Shifts(q, s, r)
  PROVE  InOrder(r) /\ \A i \in DOMAIN r : r[i].text = <<>>
<1>1. \A i \in DOMAIN r : i \in Nat /\ i + 1 \in DOMAIN q /\ q[i + 1] = r[i] /\ i + 1 > 1
  BY DEF Shifts
<1>2. ASSUME NEW i \in DOMAIN r, NEW j \in DOMAIN r
      PROVE  /\ r[i].thread = r[j].thread
             /\ r[i].op \in OfTurn /\ r[j].op \in OfTurn => r[i].turn = r[j].turn
             /\ r[i].op = "session" /\ r[j].op = "session" => i = j
             /\ i < j /\ r[i].op = "complete" /\ r[j].op \in {"flush", "delta", "complete"} =>
                  r[i].msg # r[j].msg
             /\ r[i].op = "delta" => i = j
             /\ i < j /\ r[i].op = "clear" => r[j].op # "flush"
             /\ r[i].text = <<>>
  <2>1. PICK k, l : k = i + 1 /\ l = j + 1
    OBVIOUS
  <2>2. /\ k \in DOMAIN q /\ l \in DOMAIN q /\ q[k] = r[i] /\ q[l] = r[j] /\ k # 1
        /\ (i < j <=> k < l) /\ (i = j <=> k = l)
    BY <1>1, <2>1
  <2>3. /\ q[k].thread = q[l].thread
        /\ q[k].op \in OfTurn /\ q[l].op \in OfTurn => q[k].turn = q[l].turn
        /\ q[k].op = "session" /\ q[l].op = "session" => k = l
        /\ k < l /\ q[k].op = "complete" /\ q[l].op \in {"flush", "delta", "complete"} =>
             q[k].msg # q[l].msg
        /\ q[k].op = "delta" => k = l
        /\ k < l /\ q[k].op = "clear" => q[l].op # "flush"
        /\ q[k].text # <<>> => k = 1
    BY ONLY InOrder(q), <2>2 DEF InOrder
  <2>4. QED BY ONLY <2>2, <2>3
<1>3. InOrder(r)
  BY ONLY <1>2 DEF InOrder
<1>4. QED BY <1>2, <1>3

-----------------------------------------------------------------------------
(* The handlers                                                            *)

\* The caches and what is left to be done have their types.
CachesTyped ==
  /\ known \in [Turns -> SUBSET Messages]
  /\ \A u \in Turns : IsFiniteSet(known[u]) /\ \A m \in known[u] : TurnOf[m] = u
  /\ buffer \in [Messages -> Texts]
  /\ todo \in Seq(Ops)

LEMMA TakesTyped ==
  ASSUME Typed, NEW e, Takes(e), CachesTyped'
  PROVE  Typed'
<1>1. runtime' \in Seq(Events)
  BY TakesAtHead
<1>2. UNCHANGED <<provider, item, said, domain, active, message, mode, completions, disturbed>>
  BY DEF Takes
<1>3. QED BY <1>1, <1>2 DEF Typed, CachesTyped

Handled(e) ==
  HandleTurnStarted(e) \/ HandleDelta(e) \/ HandleItemCompleted(e) \/ EndsTurn(e)

LEMMA ProcessTakes ==
  ASSUME ProcessRuntimeEvent
  PROVE  \E e : Takes(e) /\ Handled(e) /\ mode' = mode
<1>1. PICK e : e = Head(runtime)
  OBVIOUS
<1>2. Takes(e)
  BY <1>1 DEF ProcessRuntimeEvent, Takes, agent, store, history
<1>3. Handled(e)
  BY <1>1 DEF ProcessRuntimeEvent, Handled, EndsTurn
<1>4. QED BY <1>2, <1>3 DEF ProcessRuntimeEvent

LEMMA TurnStartedIs ==
  ASSUME Typed, NEW e \in Events, HandleTurnStarted(e), NEW u, u = e.turn
  PROVE  /\ u \in Turns /\ u # None /\ ThreadOf[u] = e.thread /\ Starts(e, u) /\ e.msg = None
         /\ UNCHANGED <<known, buffer>>
         /\ \/ active[e.thread] \notin {None, u} /\ todo' = <<>>
            \/ /\ active[e.thread] \in {None, u}
               /\ DOMAIN todo' = {1} /\ todo'[1].op = "session" /\ todo'[1].turn = u
               /\ todo'[1].thread = e.thread /\ todo'[1].msg = None /\ todo' # <<>>
               /\ Head(todo') = todo'[1]
         /\ todo' \in Seq(Ops) /\ InOrder(todo')
<1>1. /\ e.type = "turn.started" /\ UNCHANGED <<known, buffer>>
      /\ todo' = IF active[e.thread] \in {None, u} THEN <<SetSession(e.thread, u)>> ELSE <<>>
  BY DEF HandleTurnStarted, Same
<1>2. /\ u \in Turns /\ u # None /\ ThreadOf[u] = e.thread /\ Starts(e, u) /\ e.msg = None
      /\ e.thread \in Threads
  BY <1>1, AssistantAssumption DEF Events, Starts
<1>3. CASE active[e.thread] \in {None, u}
  <2>1. PICK x : x = SetSession(e.thread, u)
    OBVIOUS
  <2>2. x \in Ops /\ x.thread = e.thread /\ x.msg = None /\ x.op = "session" /\ x.turn = u
    BY <1>2, <2>1, ThreadStepsAre
  <2>3. PICK q : q = todo'
    OBVIOUS
  <2>4. q = <<x>>
    BY <1>1, <1>3, <2>1, <2>3
  <2>5. q \in Seq(Ops) /\ DOMAIN q = {1} /\ q[1] = x /\ q # <<>> /\ Head(q) = x /\ InOrder(q)
    BY <2>2, <2>4, OneInOrder
  <2>6. QED BY <1>1, <1>2, <1>3, <2>2, <2>3, <2>5
<1>4. CASE active[e.thread] \notin {None, u}
  <2>1. todo' = <<>>
    BY <1>1, <1>4
  <2>2. QED BY <1>1, <1>2, <1>4, <2>1, EmptyInOrder
<1>5. QED BY <1>3, <1>4

\* What the handler of a delta does.
KeepsDelta(e, m, u, kept) ==
  /\ m \in Messages /\ m # None /\ u \in Turns /\ u # None /\ TurnOf[m] = u
  /\ ThreadOf[u] = e.thread /\ e.type = "content.delta" /\ e.text \in Texts
  /\ kept \in Texts
  /\ CachesTyped'
  /\ known'[u] = known[u] \cup {m} /\ \A v \in Turns : v # u => known'[v] = known[v]
  /\ \A x \in Messages : x # m => buffer'[x] = buffer[x]
  /\ \/ mode = "buffered" /\ buffer'[m] = kept /\ todo' = <<>>
     \/ /\ \/ mode = "buffered" /\ buffer'[m] = <<>> /\ todo'[1].text = kept
           \/ mode = "streaming" /\ buffer'[m] = buffer[m] /\ todo'[1].text = e.text
        /\ DOMAIN todo' = {1} /\ todo'[1].op = "delta" /\ todo'[1].msg = m
        /\ todo'[1].thread = e.thread /\ todo'[1].turn = u /\ todo' # <<>>
        /\ Head(todo') = todo'[1]
  /\ InOrder(todo')

LEMMA DeltaIs ==
  ASSUME Typed, NEW e \in Events, HandleDelta(e), NEW m, m = e.msg, NEW u, u = e.turn,
         NEW kept, kept = buffer[m] \o e.text
  PROVE  KeepsDelta(e, m, u, kept)
<1>1. e.type = "content.delta"
  BY DEF HandleDelta
<1>2. /\ m \in Messages /\ m # None /\ u \in Turns /\ u # None /\ TurnOf[m] = u
      /\ ThreadOf[u] = e.thread /\ e.text \in Texts
  BY <1>1, AssistantAssumption DEF Events
<1>3. buffer[m] \in Texts /\ mode \in {"buffered", "streaming"}
  BY <1>2 DEF Typed
<1>4. kept \in Texts /\ <<>> \in Texts
  BY <1>2, <1>3, ConcatProperties DEF Texts
<1>5. /\ known' \in [Turns -> SUBSET Messages]
      /\ known'[u] = known[u] \cup {m} /\ \A v \in Turns : v # u => known'[v] = known[v]
  BY <1>2 DEF HandleDelta, Remember, Typed
<1>6. \A v \in Turns : IsFiniteSet(known'[v]) /\ \A x \in known'[v] : TurnOf[x] = v
  <2>1. IsFiniteSet(known[u])
    BY <1>2 DEF Typed
  <2>2. IsFiniteSet(known[u] \cup {m})
    BY ONLY <2>1, FS_AddElement
  <2>3. QED BY <1>2, <1>5, <2>2 DEF Typed
<1>7. ASSUME NEW text \in Texts, NEW q, q = <<Say(m, text)>>
      PROVE  /\ q \in Seq(Ops) /\ InOrder(q) /\ q[1].text = text
             /\ DOMAIN q = {1} /\ q[1].op = "delta" /\ q[1].msg = m
             /\ q[1].thread = e.thread /\ q[1].turn = u /\ q # <<>> /\ Head(q) = q[1]
  <2>1. PICK x : x = Say(m, text)
    OBVIOUS
  <2>2. x \in Ops /\ x.msg = m /\ x.turn = u /\ x.thread = e.thread /\ x.op = "delta"
        /\ x.text = text
    BY <1>2, <2>1, StepsAre
  <2>3. q = <<x>>
    BY <1>7, <2>1
  <2>4. q \in Seq(Ops) /\ DOMAIN q = {1} /\ q[1] = x /\ q # <<>> /\ Head(q) = x /\ InOrder(q)
    BY ONLY <2>2, <2>3, OneInOrder
  <2>5. QED BY ONLY <2>2, <2>4
<1>8. PICK q, b : q = todo' /\ b = buffer'
  OBVIOUS
<1>9. CASE mode = "buffered" /\ b = [buffer EXCEPT ![m] = kept] /\ q = <<>>
  <2>1. /\ b \in [Messages -> Texts] /\ b[m] = kept
        /\ \A x \in Messages : x # m => b[x] = buffer[x]
    BY <1>2, <1>4, <1>9 DEF Typed
  <2>2. q \in Seq(Ops) /\ InOrder(q)
    BY <1>9, EmptyInOrder
  <2>3. QED BY <1>1, <1>2, <1>4, <1>5, <1>6, <1>8, <1>9, <2>1, <2>2 DEF CachesTyped, KeepsDelta
<1>10. CASE mode = "buffered" /\ b = [buffer EXCEPT ![m] = <<>>] /\ q = <<Say(m, kept)>>
  <2>1. /\ b \in [Messages -> Texts] /\ b[m] = <<>>
        /\ \A x \in Messages : x # m => b[x] = buffer[x]
    BY <1>2, <1>4, <1>10 DEF Typed
  <2>2. q = <<Say(m, kept)>>
    BY <1>10
  <2>3. /\ q \in Seq(Ops) /\ InOrder(q) /\ q[1].text = kept
        /\ DOMAIN q = {1} /\ q[1].op = "delta" /\ q[1].msg = m
        /\ q[1].thread = e.thread /\ q[1].turn = u /\ q # <<>> /\ Head(q) = q[1]
    BY ONLY <1>4, <1>7, <2>2
  <2>4. mode = "buffered"
    BY <1>10
  <2>5. QED BY ONLY <1>1, <1>2, <1>4, <1>5, <1>6, <1>8, <2>1, <2>3, <2>4 DEF CachesTyped, KeepsDelta
<1>11. CASE mode = "streaming" /\ b = buffer /\ q = <<Say(m, e.text)>>
  <2>1. b \in [Messages -> Texts]
    BY <1>11 DEF Typed
  <2>2. /\ q \in Seq(Ops) /\ InOrder(q) /\ q[1].text = e.text
        /\ DOMAIN q = {1} /\ q[1].op = "delta" /\ q[1].msg = m
        /\ q[1].thread = e.thread /\ q[1].turn = u /\ q # <<>> /\ Head(q) = q[1]
    BY <1>2, <1>7, <1>11
  <2>3. mode = "streaming" /\ b = buffer
    BY <1>11
  <2>4. QED BY ONLY <1>1, <1>2, <1>4, <1>5, <1>6, <1>8, <2>1, <2>2, <2>3 DEF CachesTyped, KeepsDelta
<1>12. \/ mode = "buffered" /\ b = [buffer EXCEPT ![m] = kept] /\ q = <<>>
       \/ mode = "buffered" /\ b = [buffer EXCEPT ![m] = <<>>] /\ q = <<Say(m, kept)>>
       \/ mode = "streaming" /\ b = buffer /\ q = <<Say(m, e.text)>>
  BY <1>8 DEF HandleDelta
<1>13. QED BY <1>9, <1>10, <1>11, <1>12

LEMMA DeltaLeaves ==
  ASSUME Typed, NEW e \in Events, HandleDelta(e)
  PROVE  /\ e.type = "content.delta" /\ CachesTyped' /\ InOrder(todo')
         /\ todo' = <<>> \/ (DOMAIN todo' = {1} /\ todo'[1].op = "delta" /\ todo'[1].msg = e.msg)
<1>1. PICK m, u, kept : m = e.msg /\ u = e.turn /\ kept = buffer[m] \o e.text
  OBVIOUS
<1>2. KeepsDelta(e, m, u, kept)
  BY <1>1, DeltaIs
<1>3. m = e.msg
  BY <1>1
<1>4. QED BY ONLY <1>2, <1>3 DEF KeepsDelta

\* To whom the end of an item goes.
LEMMA ResolvedIs ==
  ASSUME Typed, NEW e \in Events, e.type = "item.completed", NEW m, m = e.msg, NEW u, u = e.turn
  PROVE  /\ m \in Messages /\ m # None /\ u \in Turns /\ u # None /\ TurnOf[m] = u
         /\ ThreadOf[u] = e.thread /\ e.text \in Texts
         /\ \/ Resolved(e) = {} /\ ~e.named
            \/ \E x \in Messages :
                 /\ Resolved(e) = {x} /\ TurnOf[x] = u
                 /\ x \in known[u] \/ (x = m /\ e.named)
         /\ e.named /\ m \in known[u] => Resolved(e) = {m}
         /\ known[u] = {m} => Resolved(e) = {m}
         /\ known[u] = {} /\ e.named => Resolved(e) = {m}
<1>1. /\ m \in Messages /\ m # None /\ u \in Turns /\ u # None /\ TurnOf[m] = u
      /\ ThreadOf[u] = e.thread /\ e.text \in Texts
  BY AssistantAssumption DEF Events
<1>2. IsFiniteSet(known[u]) /\ known[u] \subseteq Messages /\ \A x \in known[u] : TurnOf[x] = u
  BY <1>1 DEF Typed
<1>3. Cardinality(known[u]) = 1 <=> \E x \in known[u] : known[u] = {x}
  <2>1. Cardinality(known[u]) = 1 <=> \E x : known[u] = {x}
    BY <1>2, FS_Singleton
  <2>2. QED BY <2>1
<1>4. Resolved(e) = IF e.named /\ m \in known[u] THEN {m}
                    ELSE IF Cardinality(known[u]) = 1 THEN known[u]
                    ELSE IF e.named THEN {m} ELSE {}
  BY DEF Resolved
<1>5. QED BY <1>1, <1>2, <1>3, <1>4

LEMMA ItemCompletedIs ==
  ASSUME Typed, NEW e \in Events, HandleItemCompleted(e), NEW u, u = e.turn
  PROVE  /\ e.type = "item.completed" /\ buffer' = buffer /\ CachesTyped' /\ InOrder(todo')
         /\ known'[u] = known[u] \cup Resolved(e)
         /\ \A v \in Turns : v # u => known'[v] = known[v]
         /\ Resolved(e) = {} => todo' = <<>>
         /\ \A x \in Messages : Resolved(e) = {x} =>
              /\ DOMAIN todo' = 1..3 /\ todo' # <<>> /\ Head(todo') = todo'[1]
              /\ \A i \in 1..3 :
                   todo'[i].msg = x /\ todo'[i].turn = u /\ todo'[i].thread = e.thread
              /\ todo'[1].op = "flush"
              /\ todo'[1].text = IF message[x].text = <<>> THEN e.text ELSE <<>>
              /\ todo'[2].op = "complete" /\ todo'[2].text = <<>>
              /\ todo'[3].op = "forget" /\ todo'[3].text = <<>>
<1>1. e.type = "item.completed" /\ buffer' = buffer
  BY DEF HandleItemCompleted
<1>2. PICK m : m = e.msg
  OBVIOUS
<1>3. /\ u \in Turns /\ ThreadOf[u] = e.thread /\ e.text \in Texts
      /\ \/ Resolved(e) = {}
         \/ \E x \in Messages : Resolved(e) = {x} /\ TurnOf[x] = u
  BY <1>1, <1>2, ResolvedIs
<1>4. /\ known' \in [Turns -> SUBSET Messages] /\ known'[u] = known[u] \cup Resolved(e)
      /\ \A v \in Turns : v # u => known'[v] = known[v]
  BY <1>3 DEF HandleItemCompleted, Typed
<1>5. \A v \in Turns : IsFiniteSet(known'[v]) /\ \A x \in known'[v] : TurnOf[x] = v
  <2>1. IsFiniteSet(known[u]) /\ \A x \in known[u] : TurnOf[x] = u
    BY <1>3 DEF Typed
  <2>2. IsFiniteSet(known[u] \cup Resolved(e)) /\ \A x \in known[u] \cup Resolved(e) : TurnOf[x] = u
    BY <1>3, <2>1, FS_AddElement
  <2>3. QED BY <1>3, <1>4, <2>2 DEF Typed
<1>6. CASE Resolved(e) = {}
  <2>1. todo' = <<>>
    BY <1>6 DEF HandleItemCompleted
  <2>2. todo' \in Seq(Ops) /\ InOrder(todo')
    BY <2>1, EmptyInOrder
  <2>3. buffer' \in [Messages -> Texts]
    BY <1>1 DEF Typed
  <2>4. QED BY <1>1, <1>4, <1>5, <1>6, <2>1, <2>2, <2>3 DEF CachesTyped
<1>7. CASE Resolved(e) # {}
  <2>1. PICK x \in Messages : Resolved(e) = {x} /\ TurnOf[x] = u
    BY <1>3, <1>7
  <2>2. PICK f : f = IF message[x].text = <<>> THEN e.text ELSE <<>>
    OBVIOUS
  <2>3. f \in Texts
    BY <1>3, <2>2 DEF Texts
  <2>4. todo' = Finalize(x, f) \o <<Forget(x)>>
    BY <1>7, <2>1, <2>2 DEF HandleItemCompleted
  <2>5. PICK q : q = todo'
    OBVIOUS
  <2>6. FinishesItem(q, x, f)
    BY <2>3, <2>4, <2>5, TripleIs
  <2>7. /\ q \in Seq(Ops) /\ DOMAIN q = 1..3 /\ InOrder(q) /\ q # <<>> /\ Head(q) = q[1]
        /\ \A i \in 1..3 : q[i].msg = x /\ q[i].turn = TurnOf[x]
                           /\ q[i].thread = ThreadOf[TurnOf[x]]
        /\ q[1].op = "flush" /\ q[1].text = f
        /\ q[2].op = "complete" /\ q[2].text = <<>>
        /\ q[3].op = "forget" /\ q[3].text = <<>>
    BY ONLY <2>6 DEF FinishesItem
  <2>8. buffer' \in [Messages -> Texts]
    BY <1>1 DEF Typed
  <2>9. CachesTyped'
    BY <1>4, <1>5, <2>5, <2>7, <2>8 DEF CachesTyped
  <2>10. \A y \in Messages : Resolved(e) = {y} => y = x
    BY <2>1
  <2>11. QED BY ONLY <1>1, <1>3, <1>4, <1>7, <2>1, <2>2, <2>5, <2>7, <2>9, <2>10
<1>8. QED BY <1>6, <1>7

-----------------------------------------------------------------------------
(* The other steps of the worker, and its types                            *)

LEMMA EndsTurnOf ==
  ASSUME Typed, NEW e \in Events, EndsTurn(e), NEW u, u = TurnOrActive(e)
  PROVE  /\ u \in Turns \cup {None} /\ (u # None => ThreadOf[u] = e.thread)
         /\ UNCHANGED <<known, buffer>>
         /\ Closes(todo', e.thread, u, SetAtEnd(e), e.type = "session.exited")
         /\ e.type \in {"turn.completed", "turn.aborted", "session.exited", "runtime.error"}
         /\ todo' \in Seq(Ops) /\ InOrder(todo') /\ CachesTyped'
<1>1. /\ e.thread \in Threads
      /\ e.turn # None => ThreadOf[e.turn] = e.thread
  BY DEF Events
<1>2. u # None => ThreadOf[u] = e.thread
  BY <1>1 DEF TurnOrActive, Typed
<1>3. /\ u \in Turns \cup {None} /\ UNCHANGED <<known, buffer>>
      /\ Closes(todo', e.thread, u, SetAtEnd(e), e.type = "session.exited")
      /\ e.type \in {"turn.completed", "turn.aborted", "session.exited", "runtime.error"}
  BY <1>2, EndsTurnIs
<1>4. todo' \in Seq(Ops) /\ InOrder(todo')
  BY <1>3, ClosesInOrder
<1>5. CachesTyped'
  BY <1>3, <1>4 DEF Typed, CachesTyped
<1>6. QED BY <1>2, <1>3, <1>4, <1>5

LEMMA HandledTyped ==
  ASSUME Typed, NEW e \in Events, Handled(e)
  PROVE  CachesTyped' /\ InOrder(todo')
<1>1. CASE HandleTurnStarted(e)
  <2>1. UNCHANGED <<known, buffer>> /\ todo' \in Seq(Ops) /\ InOrder(todo')
    BY <1>1, TurnStartedIs
  <2>2. QED BY <2>1 DEF Typed, CachesTyped
<1>2. CASE HandleDelta(e)
  <2>1. CachesTyped'
    BY <1>2, DeltaLeaves
  <2>2. InOrder(todo')
    BY <1>2, DeltaLeaves
  <2>3. QED BY <2>1, <2>2
<1>3. CASE HandleItemCompleted(e)
  BY <1>3, ItemCompletedIs
<1>4. CASE EndsTurn(e)
  BY <1>4, EndsTurnOf
<1>5. QED BY <1>1, <1>2, <1>3, <1>4 DEF Handled

LEMMA ProcessTyped ==
  ASSUME Typed, ProcessRuntimeEvent
  PROVE  Typed' /\ InOrder(todo')
<1>1. PICK e : Takes(e) /\ Handled(e)
  BY ProcessTakes
<1>2. e \in Events
  BY <1>1, TakesAtHead
<1>3. CachesTyped' /\ InOrder(todo')
  BY <1>1, <1>2, HandledTyped
<1>4. QED BY <1>1, <1>3, TakesTyped

\* The worker takes a request for a turn.
Switches(e) ==
  /\ todo = <<>> /\ e.thread \in Threads /\ e.mode \in {"buffered", "streaming"}
  /\ mode' = e.mode
  /\ todo' \in Seq(Ops) /\ InOrder(todo')
  /\ e.mode # "streaming" => todo' = <<>>
  /\ e.mode = "streaming" => Flushes(todo', active[e.thread])
  /\ disturbed' \subseteq Turns /\ disturbed \subseteq disturbed'
  /\ \A m \in Messages :
       e.mode = "streaming" /\ buffer[m] # <<>> /\ TurnOf[m] # active[e.thread] =>
         TurnOf[m] \in disturbed'
  /\ UNCHANGED <<provider, item, said, runtime, active, message, known, buffer, completions,
                 erred>>
  /\ domain' \in Seq([thread : Threads, mode : {"buffered", "streaming"}])

LEMMA DomainSwitches ==
  ASSUME Typed, ProcessDomainEvent
  PROVE  \E e : Switches(e)
<1>1. PICK e : e = Head(domain)
  OBVIOUS
<1>2. /\ todo = <<>> /\ domain # <<>> /\ mode' = e.mode /\ todo' = FlushedForStreaming(e)
      /\ disturbed' = disturbed \cup
           IF e.mode = "streaming"
           THEN {TurnOf[m] : m \in {x \in Buffered : TurnOf[x] # active[e.thread]}} ELSE {}
      /\ domain' = Tail(domain)
      /\ UNCHANGED <<provider, item, said, runtime, active, message, known, buffer, completions,
                     erred>>
  BY <1>1 DEF ProcessDomainEvent, agent, store
<1>3. /\ e \in [thread : Threads, mode : {"buffered", "streaming"}]
      /\ domain' \in Seq([thread : Threads, mode : {"buffered", "streaming"}])
  <2>1. domain \in Seq([thread : Threads, mode : {"buffered", "streaming"}])
    BY DEF Typed
  <2>2. QED BY <1>1, <1>2, <2>1, AtHead
<1>4. e.thread \in Threads /\ e.mode \in {"buffered", "streaming"}
  BY <1>3
<1>5. /\ todo' \in Seq(Ops) /\ InOrder(todo')
      /\ e.mode # "streaming" => todo' = <<>>
      /\ e.mode = "streaming" => Flushes(todo', active[e.thread])
  BY <1>2, <1>4, FlushedIs
<1>6. /\ disturbed' \subseteq Turns /\ disturbed \subseteq disturbed'
      /\ \A m \in Messages :
           e.mode = "streaming" /\ buffer[m] # <<>> /\ TurnOf[m] # active[e.thread] =>
             TurnOf[m] \in disturbed'
  BY <1>2, AssistantAssumption DEF Typed, Buffered
<1>7. QED BY <1>2, <1>3, <1>4, <1>5, <1>6 DEF Switches

LEMMA SwitchesTyped ==
  ASSUME Typed, NEW e, Switches(e)
  PROVE  Typed'
BY DEF Switches, Typed

\* The handler does step s.
Does(s) ==
  /\ todo # <<>> /\ s \in Ops /\ s = Head(todo) /\ todo' \in Seq(Ops) /\ Shifts(todo, s, todo')
  /\ UNCHANGED <<provider, item, said, runtime, domain, mode, disturbed, erred>>
  /\ \/ /\ s.op = "session"
        /\ active' = [active EXCEPT ![s.thread] = s.turn]
        /\ UNCHANGED <<message, known, buffer, completions>>
     \/ /\ s.op = "delta"
        /\ message' = Appended(s.msg, s.text)
        /\ UNCHANGED <<active, known, buffer, completions>>
     \/ /\ s.op = "flush"
        /\ message' = IF Taken(s) = <<>> THEN message ELSE Appended(s.msg, Taken(s))
        /\ buffer' = [buffer EXCEPT ![s.msg] = <<>>]
        /\ UNCHANGED <<active, known, completions>>
     \/ /\ s.op = "complete"
        /\ message' = [message EXCEPT ![s.msg].streaming = FALSE]
        /\ completions' = [completions EXCEPT ![s.msg] = @ + 1]
        /\ UNCHANGED <<active, known, buffer>>
     \/ /\ s.op = "forget" /\ known' = [known EXCEPT ![s.turn] = @ \ {s.msg}]
        /\ UNCHANGED <<active, message, buffer, completions>>
     \/ /\ s.op = "forgetTurn" /\ known' = [known EXCEPT ![s.turn] = {}]
        /\ UNCHANGED <<active, message, buffer, completions>>
     \/ /\ s.op = "clear"
        /\ known' = [turn \in Turns |-> IF ThreadOf[turn] = s.thread THEN {} ELSE known[turn]]
        /\ buffer' = [m \in Messages |->
             IF \E turn \in Turns : ThreadOf[turn] = s.thread /\ m \in known[turn]
             THEN <<>> ELSE buffer[m]]
        /\ UNCHANGED <<active, message, completions>>

LEMMA StepDoes ==
  ASSUME Typed, Step
  PROVE  \E s : Does(s)
<1>1. PICK s : s = Head(todo)
  OBVIOUS
<1>2. PICK q, r : q = todo /\ r = todo'
  OBVIOUS
<1>3. q # <<>> /\ r = Tail(q) /\ s = Head(q) /\ q \in Seq(Ops)
  BY <1>1, <1>2 DEF Step, Typed
<1>4. s \in Ops /\ r \in Seq(Ops) /\ Shifts(q, s, r)
  BY ONLY <1>3, AtHead
<1>5. UNCHANGED <<provider, item, said, runtime, domain, mode, disturbed, erred>>
  BY DEF Step, agent
<1>6. Does(s)
  BY <1>1, <1>2, <1>3, <1>4, <1>5 DEF Step, Does, ForgetMessage
<1>7. QED BY <1>6

\* What the step is of, and about.
LEMMA OpIs ==
  ASSUME NEW s \in Ops
  PROVE  /\ s.thread \in Threads /\ s.turn \in Turns \cup {None} /\ s.text \in Texts
         /\ s.turn # None => ThreadOf[s.turn] = s.thread
         /\ s.op \in {"session", "delta", "flush", "complete", "forget", "forgetTurn", "clear"}
         /\ s.op \in {"delta", "flush", "complete", "forget"} =>
              s.msg \in Messages /\ s.turn \in Turns /\ TurnOf[s.msg] = s.turn
         /\ s.op \notin {"delta", "flush", "complete", "forget"} => s.msg = None
         /\ s.op = "forgetTurn" => s.turn \in Turns
         /\ s.op \notin {"delta", "flush"} => s.text = <<>>
BY AssistantAssumption DEF Ops, OfTurn, OfMessage

LEMMA DoesTyped ==
  ASSUME Typed, NEW s, Does(s)
  PROVE  Typed'
<1>1. s \in Ops
  BY DEF Does
<1>2. /\ s.thread \in Threads /\ s.turn \in Turns \cup {None} /\ s.text \in Texts
      /\ s.turn # None => ThreadOf[s.turn] = s.thread
      /\ s.op \in {"delta", "flush", "complete", "forget"} =>
           s.msg \in Messages /\ s.turn \in Turns /\ TurnOf[s.msg] = s.turn
      /\ s.op = "forgetTurn" => s.turn \in Turns
  BY <1>1, OpIs
<1>3. /\ todo' \in Seq(Ops)
      /\ UNCHANGED <<provider, item, said, runtime, domain, mode, disturbed>>
  BY DEF Does
<1>4. <<>> \in Texts
  BY DEF Texts
<1>5. ASSUME NEW m \in Messages, NEW text \in Texts
      PROVE  Appended(m, text) \in [Messages -> [text : Texts, streaming : BOOLEAN]]
  <2>1. message[m].text \in Texts /\ message \in [Messages -> [text : Texts, streaming : BOOLEAN]]
    BY DEF Typed
  <2>2. message[m].text \o text \in Texts
    BY <1>5, <2>1, ConcatProperties DEF Texts
  <2>3. QED BY <2>1, <2>2 DEF Appended
<1>6. CASE s.op = "session"
  <2>1. active' = [active EXCEPT ![s.thread] = s.turn]
        /\ UNCHANGED <<message, known, buffer, completions>>
    BY <1>6 DEF Does
  <2>2. /\ active' \in [Threads -> Turns \cup {None}]
        /\ \A t \in Threads : active'[t] # None => ThreadOf[active'[t]] = t
    BY <1>2, <2>1 DEF Typed
  <2>3. QED BY <1>3, <2>1, <2>2 DEF Typed
<1>7. CASE s.op = "delta"
  <2>1. message' = Appended(s.msg, s.text) /\ UNCHANGED <<active, known, buffer, completions>>
    BY <1>7 DEF Does
  <2>2. QED BY <1>2, <1>3, <1>5, <1>7, <2>1 DEF Typed
<1>8. CASE s.op = "flush"
  <2>1. /\ message' = IF Taken(s) = <<>> THEN message ELSE Appended(s.msg, Taken(s))
        /\ buffer' = [buffer EXCEPT ![s.msg] = <<>>] /\ UNCHANGED <<active, known, completions>>
    BY <1>8 DEF Does
  <2>2. Taken(s) \in Texts
    BY <1>2, <1>8 DEF Taken, Typed
  <2>3. /\ message' \in [Messages -> [text : Texts, streaming : BOOLEAN]]
        /\ buffer' \in [Messages -> Texts]
    BY <1>2, <1>4, <1>5, <1>8, <2>1, <2>2 DEF Typed
  <2>4. QED BY <1>3, <2>1, <2>3 DEF Typed
<1>9. CASE s.op = "complete"
  <2>1. /\ message' = [message EXCEPT ![s.msg].streaming = FALSE]
        /\ completions' = [completions EXCEPT ![s.msg] = @ + 1]
        /\ UNCHANGED <<active, known, buffer>>
    BY <1>9 DEF Does
  <2>2. completions' \in [Messages -> Nat]
    BY <1>2, <1>9, <2>1 DEF Typed
  <2>3. /\ message \in [Messages -> [text : Texts, streaming : BOOLEAN]]
        /\ message[s.msg] \in [text : Texts, streaming : BOOLEAN]
    BY <1>2, <1>9 DEF Typed
  <2>4. [message[s.msg] EXCEPT !.streaming = FALSE] \in [text : Texts, streaming : BOOLEAN]
    BY ONLY <2>3
  <2>5. message' = [message EXCEPT ![s.msg] = [message[s.msg] EXCEPT !.streaming = FALSE]]
    BY <2>1
  <2>6. message' \in [Messages -> [text : Texts, streaming : BOOLEAN]]
    BY ONLY <2>3, <2>4, <2>5
  <2>7. QED BY <1>3, <2>1, <2>2, <2>6 DEF Typed
<1>10. CASE s.op = "forget"
  <2>1. /\ known' = [known EXCEPT ![s.turn] = @ \ {s.msg}]
        /\ UNCHANGED <<active, message, buffer, completions>>
    BY <1>10 DEF Does
  <2>2. known' \in [Turns -> SUBSET Messages]
        /\ \A u \in Turns : IsFiniteSet(known'[u]) /\ \A m \in known'[u] : TurnOf[m] = u
    <3>1. /\ known \in [Turns -> SUBSET Messages] /\ s.turn \in Turns
          /\ \A u \in Turns : IsFiniteSet(known[u]) /\ \A m \in known[u] : TurnOf[m] = u
      BY <1>2, <1>10 DEF Typed
    <3>2. IsFiniteSet(known[s.turn] \ {s.msg})
      BY <3>1, FS_RemoveElement
    <3>3. QED BY <2>1, <3>1, <3>2
  <2>3. QED BY <1>3, <2>1, <2>2 DEF Typed
<1>11. CASE s.op = "forgetTurn"
  <2>1. /\ known' = [known EXCEPT ![s.turn] = {}]
        /\ UNCHANGED <<active, message, buffer, completions>>
    BY <1>11 DEF Does
  <2>2. IsFiniteSet({})
    BY FS_EmptySet
  <2>3. known' \in [Turns -> SUBSET Messages]
        /\ \A u \in Turns : IsFiniteSet(known'[u]) /\ \A m \in known'[u] : TurnOf[m] = u
    BY <1>2, <1>11, <2>1, <2>2 DEF Typed
  <2>4. QED BY <1>3, <2>1, <2>3 DEF Typed
<1>12. CASE s.op = "clear"
  <2>1. /\ known' = [turn \in Turns |-> IF ThreadOf[turn] = s.thread THEN {} ELSE known[turn]]
        /\ buffer' = [m \in Messages |->
             IF \E turn \in Turns : ThreadOf[turn] = s.thread /\ m \in known[turn]
             THEN <<>> ELSE buffer[m]]
        /\ UNCHANGED <<active, message, completions>>
    BY <1>12 DEF Does
  <2>2. IsFiniteSet({})
    BY FS_EmptySet
  <2>3. known' \in [Turns -> SUBSET Messages]
        /\ \A u \in Turns : IsFiniteSet(known'[u]) /\ \A m \in known'[u] : TurnOf[m] = u
    BY <2>1, <2>2 DEF Typed
  <2>4. buffer' \in [Messages -> Texts]
    BY <1>4, <2>1 DEF Typed
  <2>5. QED BY <1>3, <2>1, <2>3, <2>4 DEF Typed
<1>13. QED BY <1>6, <1>7, <1>8, <1>9, <1>10, <1>11, <1>12 DEF Does

\* A dispatch fails.
Fails(s) ==
  /\ todo # <<>> /\ s \in Ops /\ s = Head(todo) /\ todo[1] = s /\ 1 \in DOMAIN todo /\ todo' = <<>>
  /\ s.op \in {"session", "delta", "complete", "flush"}
  /\ \A m \in Messages : ~(s.op = "flush" /\ s.msg = m) => buffer'[m] = buffer[m]
  /\ disturbed \subseteq disturbed'
  /\ s.turn \in Turns => s.turn \in disturbed'
  /\ \A i \in DOMAIN todo : todo[i].op = "session" =>
       \A u \in Turns : ThreadOf[u] = s.thread => u \in disturbed'
  /\ UNCHANGED <<provider, item, said, runtime, domain, active, message, mode, known, completions,
                 erred>>

LEMMA FailFails ==
  ASSUME Typed, InOrder(todo), FailStep
  PROVE  Typed' /\ \E s : Fails(s)
<1>1. PICK s : s = Head(todo)
  OBVIOUS
<1>2. /\ todo # <<>> /\ Dispatches(s) /\ todo' = <<>>
      /\ buffer' = IF s.op = "flush" THEN [buffer EXCEPT ![s.msg] = <<>>] ELSE buffer
      /\ disturbed' = disturbed \cup
           IF \E i \in DOMAIN todo : todo[i].op = "session"
           THEN {turn \in Turns : ThreadOf[turn] = s.thread} ELSE {s.turn}
      /\ UNCHANGED <<provider, item, said, runtime, domain, active, message, mode, known,
                     completions, erred>>
  BY <1>1 DEF FailStep, agent, store
<1>3. s \in Ops /\ todo[1] = s /\ 1 \in DOMAIN todo
  BY <1>1, <1>2, AtHead DEF Typed, Shifts
<1>4. s.op \in {"session", "delta", "complete", "flush"}
  BY <1>2 DEF Dispatches
<1>5. /\ s.op \in {"delta", "flush", "complete", "forget"} =>
           s.msg \in Messages /\ s.turn \in Turns /\ TurnOf[s.msg] = s.turn
      /\ s.turn \in Turns \cup {None} /\ (s.turn # None => ThreadOf[s.turn] = s.thread)
  BY <1>3, OpIs
<1>6. <<>> \in Texts /\ <<>> \in Seq(Ops)
  BY DEF Texts
<1>7. /\ buffer' \in [Messages -> Texts]
      /\ \A m \in Messages : ~(s.op = "flush" /\ s.msg = m) => buffer'[m] = buffer[m]
  BY <1>2, <1>5, <1>6 DEF Typed
<1>8. CASE \E i \in DOMAIN todo : todo[i].op = "session"
  <2>1. disturbed' = disturbed \cup {turn \in Turns : ThreadOf[turn] = s.thread}
    BY <1>2, <1>8
  <2>2. Typed'
    BY <1>2, <1>6, <1>7, <2>1 DEF Typed
  <2>3. Fails(s)
    BY <1>1, <1>2, <1>3, <1>4, <1>5, <1>7, <2>1, AssistantAssumption DEF Fails
  <2>4. QED BY <2>2, <2>3
<1>9. CASE ~(\E i \in DOMAIN todo : todo[i].op = "session")
  <2>1. disturbed' = disturbed \cup {s.turn}
    BY <1>2, <1>9
  <2>2. s.turn \in Turns
    BY <1>3, <1>4, <1>5, <1>9
  <2>3. Typed'
    BY <1>2, <1>6, <1>7, <2>1, <2>2 DEF Typed
  <2>4. Fails(s)
    BY <1>1, <1>2, <1>3, <1>4, <1>5, <1>7, <1>9, <2>1 DEF Fails
  <2>5. QED BY <2>3, <2>4
<1>10. QED BY <1>8, <1>9

\* The reactor sets the session of thread t to stopped.
Stops(t) ==
  /\ t \in Threads /\ disturbed \subseteq disturbed'
  /\ active' = [active EXCEPT ![t] = None]
  /\ \A u \in Turns : ThreadOf[u] = t /\ provider[u] # "new"
                      /\ (provider[u] = "open" \/ Behind(t)) =>
       u \in disturbed'
  /\ UNCHANGED <<provider, item, said, runtime, domain, message, mode, known, buffer, todo,
                 completions, erred>>

LEMMA SetStoppedStops ==
  ASSUME Typed, NEW t \in Threads, SetStopped(t)
  PROVE  Typed' /\ Stops(t)
<1>1. Stops(t)
  BY DEF SetStopped, Stops, agent, cache
<1>2. disturbed' \subseteq Turns
  BY DEF SetStopped, Typed
<1>3. /\ active' \in [Threads -> Turns \cup {None}]
      /\ \A x \in Threads : active'[x] # None => ThreadOf[active'[x]] = x
  BY <1>1 DEF Stops, Typed
<1>4. QED BY <1>1, <1>2, <1>3 DEF Typed, Stops

LEMMA RequestTyped ==
  ASSUME Typed, NEW t \in Threads, NEW m \in {"buffered", "streaming"}, RequestTurn(t, m)
  PROVE  Typed'
<1>1. PICK d : d = [thread |-> t, mode |-> m]
  OBVIOUS
<1>2. domain' = Append(domain, d)
  BY <1>1 DEF RequestTurn
<1>3. d \in [thread : Threads, mode : {"buffered", "streaming"}]
  BY <1>1
<1>4. domain' \in Seq([thread : Threads, mode : {"buffered", "streaming"}])
  BY <1>2, <1>3, AtEnd DEF Typed
<1>5. UNCHANGED <<provider, item, said, runtime, active, message, mode, known, buffer, todo,
                  completions, disturbed>>
  BY DEF RequestTurn, agent, store, cache
<1>6. QED BY <1>4, <1>5 DEF Typed

-----------------------------------------------------------------------------
(* What is left of a handler                                               *)

\* Step s forgets message m.
Drops(s, m) ==
  \/ s.op = "forget" /\ s.msg = m
  \/ s.op = "forgetTurn" /\ s.turn = TurnOf[m]
  \/ s.op = "clear" /\ s.thread = ThreadOfMessage(m)

LEMMA DoesKnows ==
  ASSUME Typed, NEW s, Does(s), NEW m \in Messages
  PROVE  Knows(m)' <=> Knows(m) /\ ~Drops(s, m)
<1>1. s \in Ops
  BY DEF Does
<1>2. /\ s.thread \in Threads
      /\ s.op \in {"delta", "flush", "complete", "forget"} =>
           s.msg \in Messages /\ s.turn \in Turns /\ TurnOf[s.msg] = s.turn
      /\ s.op = "forgetTurn" => s.turn \in Turns
  BY <1>1, OpIs
<1>3. TurnOf[m] \in Turns /\ known \in [Turns -> SUBSET Messages]
  BY AssistantAssumption DEF Typed
<1>4. CASE s.op \in {"session", "delta", "flush", "complete"}
  <2>1. known' = known
    BY <1>4 DEF Does
  <2>2. QED BY <1>4, <2>1 DEF Knows, Drops
<1>5. CASE s.op = "forget"
  <2>1. known' = [known EXCEPT ![s.turn] = @ \ {s.msg}]
    BY <1>5 DEF Does
  <2>2. QED BY <1>2, <1>3, <1>5, <2>1 DEF Knows, Drops
<1>6. CASE s.op = "forgetTurn"
  <2>1. known' = [known EXCEPT ![s.turn] = {}]
    BY <1>6 DEF Does
  <2>2. QED BY <1>2, <1>3, <1>6, <2>1 DEF Knows, Drops
<1>7. CASE s.op = "clear"
  <2>1. known' = [turn \in Turns |-> IF ThreadOf[turn] = s.thread THEN {} ELSE known[turn]]
    BY <1>7 DEF Does
  <2>2. QED BY <1>2, <1>3, <1>7, <2>1 DEF Knows, Drops, ThreadOfMessage
<1>8. QED BY <1>4, <1>5, <1>6, <1>7 DEF Does

\* A step leaves todo, the others stay.
LEMMA DoesTodo ==
  ASSUME Typed, NEW s, Does(s)
  PROVE  /\ 1 \in DOMAIN todo /\ todo[1] = s
         /\ \A i \in DOMAIN todo' :
              i \in Nat /\ i + 1 \in DOMAIN todo /\ todo[i + 1] = todo'[i] /\ i + 1 > 1
         /\ \A i \in DOMAIN todo : i = 1 \/ \E j \in DOMAIN todo' : i = j + 1 /\ todo'[j] = todo[i]
<1>1. PICK r : r = todo'
  OBVIOUS
<1>2. Shifts(todo, s, r)
  BY <1>1 DEF Does
<1>3. QED BY <1>1, <1>2 DEF Shifts

LEMMA DoesHas ==
  ASSUME Typed, NEW s, Does(s), NEW m \in Messages
  PROVE  /\ \A op \in {"flush", "delta", "complete", "forget"} :
              /\ Has(op, m)' => Has(op, m)
              /\ Has(op, m) => Has(op, m)' \/ (s.op = op /\ s.msg = m)
         /\ Forgets(m)' => Forgets(m)
         /\ Forgets(m) => Forgets(m)' \/ Drops(s, m)
         /\ \A u \in Turns :
              /\ ForgetsTurn(u)' => ForgetsTurn(u)
              /\ ForgetsTurn(u) => ForgetsTurn(u)' \/ (s.op = "forgetTurn" /\ s.turn = u)
<1>1. PICK r : r = todo'
  OBVIOUS
<1>2. /\ 1 \in DOMAIN todo /\ todo[1] = s
      /\ \A i \in DOMAIN r : \E j \in DOMAIN todo : todo[j] = r[i]
      /\ \A i \in DOMAIN todo : todo[i] = s \/ \E j \in DOMAIN r : r[j] = todo[i]
  BY <1>1, DoesTodo
<1>3. ASSUME NEW op
      PROVE  /\ Has(op, m)' => Has(op, m)
             /\ Has(op, m) => Has(op, m)' \/ (s.op = op /\ s.msg = m)
  BY <1>1, <1>2 DEF Has
<1>4. ASSUME NEW u
      PROVE  /\ ForgetsTurn(u)' => ForgetsTurn(u)
             /\ ForgetsTurn(u) => ForgetsTurn(u)' \/ (s.op = "forgetTurn" /\ s.turn = u)
  BY <1>1, <1>2 DEF ForgetsTurn
<1>5. ASSUME NEW t
      PROVE  /\ ClearsThread(t)' => ClearsThread(t)
             /\ ClearsThread(t) => ClearsThread(t)' \/ (s.op = "clear" /\ s.thread = t)
  BY <1>1, <1>2 DEF ClearsThread
<1>6. /\ Forgets(m)' => Forgets(m)
      /\ Forgets(m) => Forgets(m)' \/ Drops(s, m)
  BY <1>3, <1>4, <1>5 DEF Forgets, Drops, ThreadOfMessage
<1>7. QED BY <1>3, <1>4, <1>6

LEMMA SendsHandling ==
  ASSUME Handling, NEW e, Sends(e)
  PROVE  Handling'
<1>1. todo' = todo /\ known' = known
  BY DEF Sends
<1>2. QED BY <1>1 DEF Handling, InOrder, Knows, Forgets, Has, ForgetsTurn, ClearsThread

LEMMA StopsHandling ==
  ASSUME Handling, NEW t, Stops(t)
  PROVE  Handling'
<1>1. todo' = todo /\ known' = known
  BY DEF Stops
<1>2. QED BY <1>1 DEF Handling, InOrder, Knows, Forgets, Has, ForgetsTurn, ClearsThread

LEMMA HandledHandling ==
  ASSUME Typed, NEW e \in Events, Handled(e)
  PROVE  Handling'
<1>1. InOrder(todo')
  BY HandledTyped
<1>2. PICK q : q = todo'
  OBVIOUS
<1>3. ASSUME NEW i \in DOMAIN q, q[i].op = "flush"
      PROVE  \E j \in DOMAIN q : j > i /\ q[j].op = "complete" /\ q[j].msg = q[i].msg
  <2>1. CASE HandleTurnStarted(e)
    <3>1. q = <<>> \/ (DOMAIN q = {1} /\ q[1].op = "session")
      BY <1>2, <2>1, TurnStartedIs
    <3>2. QED BY <1>3, <3>1
  <2>2. CASE HandleDelta(e)
    <3>1. q = <<>> \/ (DOMAIN q = {1} /\ q[1].op = "delta")
      BY <1>2, <2>2, DeltaLeaves
    <3>2. QED BY <1>3, <3>1
  <2>3. CASE HandleItemCompleted(e)
    <3>1. e.type = "item.completed"
      BY <2>3, ItemCompletedIs
    <3>2. CASE Resolved(e) = {}
      <4>1. q = <<>>
        BY <1>2, <2>3, <3>2, ItemCompletedIs
      <4>2. QED BY <1>3, <4>1
    <3>3. CASE Resolved(e) # {}
      <4>1. PICK x \in Messages : Resolved(e) = {x}
        BY <3>1, <3>3, ResolvedIs
      <4>2. /\ DOMAIN q = 1..3 /\ \A k \in 1..3 : q[k].msg = x
            /\ q[2].op = "complete" /\ q[3].op = "forget"
        BY <1>2, <2>3, <4>1, ItemCompletedIs
      <4>3. i = 1 \/ i = 2 \/ i = 3
        BY <1>3, <4>2
      <4>4. i = 1
        BY <1>3, <4>2, <4>3
      <4>5. 2 \in DOMAIN q /\ 2 > i /\ q[2].msg = q[i].msg
        BY <4>2, <4>4
      <4>6. QED BY <4>2, <4>5
    <3>4. QED BY <3>2, <3>3
  <2>4. CASE EndsTurn(e)
    <3>1. Closes(q, e.thread, TurnOrActive(e), SetAtEnd(e), e.type = "session.exited")
      BY <1>2, <2>4, EndsTurnOf
    <3>2. QED BY <1>3, <3>1, ClosesInOrder
  <2>5. QED BY <2>1, <2>2, <2>3, <2>4 DEF Handled
<1>4. QED BY <1>1, <1>2, <1>3 DEF Handling

LEMMA SwitchesHandling ==
  ASSUME Typed, NEW e, Switches(e)
  PROVE  Handling'
<1>1. PICK q, v : q = todo' /\ v = active[e.thread]
  OBVIOUS
<1>2. /\ InOrder(q) /\ known' = known /\ v \in Turns \cup {None}
      /\ \A i \in DOMAIN q :
           q[i].op = "flush" /\ q[i].turn = v /\ v # None /\ q[i].msg \in known[v]
  <2>1. CASE e.mode # "streaming"
    <3>1. q = <<>>
      BY <1>1, <2>1 DEF Switches
    <3>2. QED BY <1>1, <3>1 DEF Switches, Typed
  <2>2. CASE e.mode = "streaming"
    BY <1>1, <2>2 DEF Switches, Flushes, Typed
  <2>3. QED BY <2>1, <2>2
<1>3. ASSUME NEW i \in DOMAIN q
      PROVE  Knows(q[i].msg)' /\ ~Forgets(q[i].msg)'
  <2>1. q[i].msg \in known[v] /\ v \in Turns
    BY <1>2
  <2>2. TurnOf[q[i].msg] = v
    BY <2>1 DEF Typed
  <2>3. Knows(q[i].msg)'
    BY <1>2, <2>1, <2>2 DEF Knows
  <2>4. ~Forgets(q[i].msg)'
    BY <1>1, <1>2 DEF Forgets, Has, ForgetsTurn, ClearsThread
  <2>5. QED BY <2>3, <2>4
<1>4. QED BY <1>1, <1>2, <1>3 DEF Handling

LEMMA FailsHandling ==
  ASSUME NEW s, Fails(s)
  PROVE  Handling'
BY DEF Fails, Handling, InOrder

LEMMA DoesHandling ==
  ASSUME Typed, Handling, NEW s, Does(s)
  PROVE  Handling' /\ \A i \in DOMAIN todo' : todo'[i].text = <<>>
<1>1. PICK q, r : q = todo /\ r = todo'
  OBVIOUS
<1>2. InOrder(r) /\ \A i \in DOMAIN r : r[i].text = <<>>
  <2>1. InOrder(q) /\ Shifts(q, s, r)
    BY <1>1 DEF Handling, Does
  <2>2. QED BY ONLY <2>1, TailInOrder
<1>3. /\ \A i \in DOMAIN r : i \in Nat /\ i + 1 \in DOMAIN q /\ q[i + 1] = r[i]
      /\ \A i \in DOMAIN q : i = 1 \/ \E j \in DOMAIN r : i = j + 1 /\ r[j] = q[i]
  BY <1>1, DoesTodo
<1>4. ASSUME NEW i \in DOMAIN r, r[i].op = "flush"
      PROVE  \/ \E j \in DOMAIN r : j > i /\ r[j].op = "complete" /\ r[j].msg = r[i].msg
             \/ Knows(r[i].msg)' /\ ~Forgets(r[i].msg)'
  <2>1. PICK k : k = i + 1
    OBVIOUS
  <2>2. k \in DOMAIN q /\ q[k] = r[i] /\ i \in Nat
    BY <1>3, <2>1
  <2>3. CASE \E j \in DOMAIN q : j > k /\ q[j].op = "complete" /\ q[j].msg = q[k].msg
    <3>1. PICK j \in DOMAIN q : j > k /\ q[j].op = "complete" /\ q[j].msg = q[k].msg
      BY <2>3
    <3>2. j # 1
      BY <2>1, <2>2, <3>1
    <3>3. PICK l \in DOMAIN r : j = l + 1 /\ r[l] = q[j]
      BY <1>3, <3>2
    <3>4. l \in Nat
      BY <1>3
    <3>5. l > i
      BY <2>1, <2>2, <3>1, <3>3, <3>4
    <3>6. QED BY <2>2, <3>1, <3>3, <3>5
  <2>4. CASE Knows(q[k].msg) /\ ~Forgets(q[k].msg)
    <3>1. r[i].msg \in Messages
      <4>1. r[i] \in Ops
        BY <1>1, ElementOfSeq DEF Does
      <4>2. QED BY <1>4, <4>1, OpIs
    <3>2. PICK m \in Messages : m = r[i].msg
      BY <3>1
    <3>3. Knows(m) /\ ~Forgets(m)
      BY <2>2, <2>4, <3>2
    <3>4. ~Forgets(m)'
      BY <3>3, DoesHas
    <3>5. Drops(s, m) => Forgets(m)
      <4>1. 1 \in DOMAIN todo /\ todo[1] = s
        BY DoesTodo
      <4>2. QED BY <4>1 DEF Drops, Forgets, Has, ForgetsTurn, ClearsThread
    <3>6. Knows(m)'
      BY <3>3, <3>5, DoesKnows
    <3>7. QED BY <3>2, <3>4, <3>6
  <2>5. (\E j \in DOMAIN q : j > k /\ q[j].op = "complete" /\ q[j].msg = q[k].msg)
        \/ (Knows(q[k].msg) /\ ~Forgets(q[k].msg))
    BY <1>1, <1>4, <2>2 DEF Handling
  <2>6. QED BY <2>3, <2>4, <2>5
<1>5. QED BY <1>1, <1>2, <1>4 DEF Handling

-----------------------------------------------------------------------------
(* The active turn is the current one                                      *)

LEMMA SendsCurrent ==
  ASSUME Typed, NEW e, Sends(e), NEW u \in Turns
  PROVE  Current(u)' <=> Current(u)
<1>1. PICK r, n : r = runtime' /\ n = Len(runtime) + 1
  OBVIOUS
<1>2. /\ \A i \in DOMAIN runtime : \E j \in DOMAIN r : r[j] = runtime[i]
      /\ \A i \in DOMAIN r : (\E j \in DOMAIN runtime : runtime[j] = r[i]) \/ r[i] = e
      /\ \E i \in DOMAIN r : r[i] = e
  BY <1>1, SendsAtEnd
<1>3. Current(u)' <=> /\ provider'[u] # "new" /\ ~(\E i \in DOMAIN r : Starts(r[i], u))
                      /\ provider'[u] = "over" => \E i \in DOMAIN r : Ends(r[i], u)
  BY <1>1 DEF Current
<1>4. /\ provider[u] # "new" => provider'[u] # "new"
      /\ provider[u] = "over" => provider'[u] = "over" /\ e.turn # u
      /\ provider[u] = "new" /\ provider'[u] # "new" => Starts(e, u)
      /\ provider[u] # "over" /\ provider'[u] = "over" => Ends(e, u)
      /\ Starts(e, u) => provider[u] = "new"
  BY SendsTurns
<1>5. CASE provider[u] = "new"
  BY <1>2, <1>3, <1>4, <1>5 DEF Current
<1>6. CASE provider[u] # "new"
  <2>1. (\E i \in DOMAIN r : Starts(r[i], u)) <=> \E i \in DOMAIN runtime : Starts(runtime[i], u)
    BY <1>2, <1>4, <1>6
  <2>2. CASE provider[u] = "over"
    <3>1. ~Ends(e, u)
      BY <1>4, <2>2 DEF Ends
    <3>2. (\E i \in DOMAIN r : Ends(r[i], u)) <=> \E i \in DOMAIN runtime : Ends(runtime[i], u)
      BY <1>2, <3>1
    <3>3. QED BY <1>3, <1>4, <1>6, <2>1, <2>2, <3>2 DEF Current
  <2>3. CASE provider[u] # "over"
    <3>1. provider'[u] = "over" => \E i \in DOMAIN r : Ends(r[i], u)
      BY <1>2, <1>4, <2>3
    <3>2. QED BY <1>3, <1>4, <1>6, <2>1, <2>3, <3>1 DEF Current
  <2>4. QED BY <2>2, <2>3
<1>7. QED BY <1>5, <1>6

\* What the invariant says of a thread.
AsCurrent(u) ==
  \A v \in Turns \cup {None} :
    Becomes(ThreadOf[u], v) =>
      /\ v # None => ThreadOf[v] = ThreadOf[u] /\ Current(v)
      /\ Current(u) => v = u

LEMMA ActiveAsCurrent ==
  ActiveIsCurrent <=> \A u \in Turns \ disturbed : AsCurrent(u)
BY DEF ActiveIsCurrent, AsCurrent

\* If nothing changes about the turns of the thread ...
LEMMA AsCurrentStays ==
  ASSUME NEW u \in Turns, AsCurrent(u),
         \A v \in Turns \cup {None} : Becomes(ThreadOf[u], v)' => Becomes(ThreadOf[u], v),
         \A v \in Turns : ThreadOf[v] = ThreadOf[u] => (Current(v)' <=> Current(v))
  PROVE  AsCurrent(u)'
<1>1. PICK t : t = ThreadOf[u]
  OBVIOUS
<1>2. ASSUME NEW v \in Turns \cup {None}, Becomes(t, v)'
      PROVE  /\ v # None => ThreadOf[v] = t /\ Current(v)'
             /\ Current(u)' => v = u
  <2>1. Becomes(t, v)
    BY <1>1, <1>2
  <2>2. /\ v # None => ThreadOf[v] = t /\ Current(v)
        /\ Current(u) => v = u
    BY <1>1, <2>1 DEF AsCurrent
  <2>3. QED BY <1>1, <1>2, <2>2
<1>3. QED BY <1>1, <1>2 DEF AsCurrent

LEMMA SameTurns ==
  ASSUME runtime' = runtime, provider' = provider
  PROVE  \A v \in Turns : Current(v)' <=> Current(v)
BY DEF Current

LEMMA SendsActive ==
  ASSUME Typed, ActiveIsCurrent, NEW e, Sends(e)
  PROVE  ActiveIsCurrent'
<1>1. todo' = todo /\ active' = active /\ disturbed' = disturbed
  BY DEF Sends
<1>2. \A t : \A v : Becomes(t, v)' <=> Becomes(t, v)
  BY <1>1 DEF Becomes
<1>3. \A v \in Turns : Current(v)' <=> Current(v)
  BY SendsCurrent
<1>4. \A u \in Turns \ disturbed : AsCurrent(u)'
  BY <1>2, <1>3, ActiveAsCurrent, AsCurrentStays
<1>5. QED BY <1>1, <1>4 DEF ActiveIsCurrent, AsCurrent

LEMMA StopsActive ==
  ASSUME Typed, TurnsInLine, ActiveIsCurrent, NEW t, Stops(t)
  PROVE  ActiveIsCurrent'
<1>1. /\ t \in Threads /\ disturbed \subseteq disturbed' /\ active' = [active EXCEPT ![t] = None]
      /\ provider' = provider /\ runtime' = runtime /\ todo' = todo
      /\ \A u \in Turns :
           ThreadOf[u] = t /\ provider[u] # "new" /\ (provider[u] = "open" \/ Behind(t)) =>
             u \in disturbed'
  BY DEF Stops
<1>2. \A v \in Turns : Current(v)' <=> Current(v)
  BY <1>1, SameTurns
<1>3. SUFFICES ASSUME NEW u \in Turns, u \notin disturbed'
               PROVE  AsCurrent(u)'
  BY ActiveAsCurrent DEF ActiveIsCurrent, AsCurrent
<1>4. AsCurrent(u)
  BY <1>1, <1>3, ActiveAsCurrent
<1>5. CASE ThreadOf[u] # t
  <2>1. ThreadOf[u] \in Threads
    BY AssistantAssumption
  <2>2. active'[ThreadOf[u]] = active[ThreadOf[u]]
    BY <1>1, <1>5, <2>1 DEF Typed
  <2>3. \A v : Becomes(ThreadOf[u], v)' <=> Becomes(ThreadOf[u], v)
    BY <1>1, <2>2 DEF Becomes
  <2>4. QED BY <1>2, <1>4, <2>3, AsCurrentStays
<1>6. CASE ThreadOf[u] = t
  <2>1. ~Current(u)
    <3>1. CASE provider[u] = "new"
      BY <3>1 DEF Current
    <3>2. CASE provider[u] # "new"
      <4>1. provider[u] = "over" /\ ~Behind(t)
        BY <1>1, <1>3, <1>6, <3>2 DEF Typed
      <4>2. ASSUME NEW i \in DOMAIN runtime
            PROVE  runtime[i].turn # u
        <5>1. runtime[i] \in Events
          BY ElementOfSeq DEF Typed
        <5>2. runtime[i].turn = u => runtime[i].thread = t
          BY <1>6, <5>1, AssistantAssumption DEF Events
        <5>3. QED BY <4>1, <5>2 DEF Behind
      <4>3. QED BY <4>1, <4>2 DEF Current, Ends
    <3>3. QED BY <3>1, <3>2
  <2>2. ASSUME NEW v \in Turns \cup {None}, Becomes(t, v)'
        PROVE  /\ v # None => ThreadOf[v] = t /\ Current(v)
               /\ ~Current(u)
    <3>1. active'[t] = None
      BY <1>1 DEF Typed
    <3>2. Becomes(t, v) \/ v = None
      BY <1>1, <2>2, <3>1 DEF Becomes
    <3>3. QED BY <1>4, <1>6, <2>1, <3>2 DEF AsCurrent
  <2>3. QED BY <1>2, <1>6, <2>2 DEF AsCurrent
<1>7. QED BY <1>5, <1>6

LEMMA SwitchesActive ==
  ASSUME Typed, ActiveIsCurrent, NEW e, Switches(e)
  PROVE  ActiveIsCurrent'
<1>1. todo = <<>> /\ active' = active /\ disturbed \subseteq disturbed'
      /\ runtime' = runtime /\ provider' = provider
  BY DEF Switches
<1>2. \A i \in DOMAIN todo' : todo'[i].op # "session"
  <2>1. CASE e.mode # "streaming"
    <3>1. todo' = <<>>
      BY <2>1 DEF Switches
    <3>2. QED BY <3>1
  <2>2. CASE e.mode = "streaming"
    BY <2>2 DEF Switches, Flushes
  <2>3. QED BY <2>1, <2>2
<1>3. \A t, v : Becomes(t, v)' => Becomes(t, v)
  BY <1>1, <1>2 DEF Becomes
<1>4. \A v \in Turns : Current(v)' <=> Current(v)
  BY <1>1, SameTurns
<1>5. \A u \in Turns \ disturbed : AsCurrent(u)'
  BY <1>3, <1>4, ActiveAsCurrent, AsCurrentStays
<1>6. QED BY <1>1, <1>5 DEF ActiveIsCurrent, AsCurrent

LEMMA DoesBecomes ==
  ASSUME Typed, Handling, NEW s, Does(s), NEW t \in Threads, NEW v
  PROVE  Becomes(t, v)' <=> Becomes(t, v)
<1>1. PICK q, r : q = todo /\ r = todo'
  OBVIOUS
<1>2. /\ 1 \in DOMAIN q /\ q[1] = s
      /\ \A i \in DOMAIN r : i \in Nat /\ i + 1 \in DOMAIN q /\ q[i + 1] = r[i] /\ i + 1 > 1
      /\ \A i \in DOMAIN q : i = 1 \/ \E j \in DOMAIN r : i = j + 1 /\ r[j] = q[i]
  BY <1>1, DoesTodo
<1>3. \A i, j \in DOMAIN q : q[i].op = "session" /\ q[j].op = "session" => i = j
  BY <1>1 DEF Handling, InOrder
<1>4. Becomes(t, v)' <=>
        \/ \E i \in DOMAIN r : r[i].op = "session" /\ r[i].thread = t /\ r[i].turn = v
        \/ active'[t] = v /\ ~(\E i \in DOMAIN r : r[i].op = "session" /\ r[i].thread = t)
  BY <1>1 DEF Becomes
<1>5. CASE s.op = "session"
  <2>1. active' = [active EXCEPT ![s.thread] = s.turn]
    BY <1>5 DEF Does
  <2>2. ASSUME NEW i \in DOMAIN r
        PROVE  r[i].op # "session"
    <3>1. PICK k : k = i + 1
      OBVIOUS
    <3>2. k \in DOMAIN q /\ q[k] = r[i] /\ k # 1
      BY <1>2, <3>1
    <3>3. QED BY <1>2, <1>3, <1>5, <3>2
  <2>3. s.thread = t => active'[t] = s.turn
    BY <2>1 DEF Typed
  <2>4. s.thread # t => active'[t] = active[t]
    BY <2>1 DEF Typed
  <2>5. \A i \in DOMAIN q : q[i].op = "session" => i = 1
    BY <1>2, <1>3, <1>5
  <2>6. QED BY <1>1, <1>2, <1>4, <1>5, <2>2, <2>3, <2>4, <2>5 DEF Becomes
<1>6. CASE s.op # "session"
  <2>1. active' = active
    BY <1>6 DEF Does
  <2>2. /\ \A i \in DOMAIN r : \E j \in DOMAIN q : q[j] = r[i]
        /\ \A i \in DOMAIN q : q[i].op = "session" => \E j \in DOMAIN r : r[j] = q[i]
    BY <1>2, <1>6
  <2>3. QED BY <1>1, <1>4, <2>1, <2>2 DEF Becomes
<1>7. QED BY <1>5, <1>6

LEMMA DoesActive ==
  ASSUME Typed, Handling, ActiveIsCurrent, NEW s, Does(s)
  PROVE  ActiveIsCurrent'
<1>1. disturbed' = disturbed /\ runtime' = runtime /\ provider' = provider
  BY DEF Does
<1>2. \A v \in Turns : Current(v)' <=> Current(v)
  BY <1>1, SameTurns
<1>3. ASSUME NEW u \in Turns, u \notin disturbed
      PROVE  AsCurrent(u)'
  <2>1. AsCurrent(u)
    BY <1>3, ActiveAsCurrent
  <2>2. ThreadOf[u] \in Threads
    BY AssistantAssumption
  <2>3. \A v : Becomes(ThreadOf[u], v)' <=> Becomes(ThreadOf[u], v)
    BY <2>2, DoesBecomes
  <2>4. QED BY <1>2, <2>1, <2>3, AsCurrentStays
<1>4. QED BY <1>1, <1>3 DEF ActiveIsCurrent, AsCurrent

LEMMA FailsActive ==
  ASSUME Typed, Handling, ActiveIsCurrent, NEW s, Fails(s)
  PROVE  ActiveIsCurrent'
<1>1. /\ disturbed \subseteq disturbed' /\ runtime' = runtime /\ provider' = provider
      /\ todo' = <<>> /\ active' = active /\ 1 \in DOMAIN todo /\ todo[1] = s
      /\ \A i \in DOMAIN todo : todo[i].op = "session" =>
           \A u \in Turns : ThreadOf[u] = s.thread => u \in disturbed'
  BY DEF Fails
<1>2. \A v \in Turns : Current(v)' <=> Current(v)
  BY <1>1, SameTurns
<1>3. ASSUME NEW u \in Turns, u \notin disturbed'
      PROVE  AsCurrent(u)'
  <2>1. AsCurrent(u)
    BY <1>1, <1>3, ActiveAsCurrent
  <2>2. \A i \in DOMAIN todo : todo[i].thread = s.thread
    BY <1>1 DEF Handling, InOrder
  <2>3. ~(\E i \in DOMAIN todo : todo[i].op = "session" /\ todo[i].thread = ThreadOf[u])
    BY <1>1, <1>3, <2>2
  <2>4. \A v : Becomes(ThreadOf[u], v)' => Becomes(ThreadOf[u], v)
    BY <1>1, <2>3 DEF Becomes
  <2>5. QED BY <1>2, <2>1, <2>4, AsCurrentStays
<1>4. QED BY <1>3 DEF ActiveIsCurrent, AsCurrent

\* What the handler of an event leaves of the session of a thread.
LEMMA TakesAway ==
  ASSUME Typed, NEW e, Takes(e), NEW t, NEW v
  PROVE  /\ Becomes(t, v) <=> active[t] = v
         /\ (\A i \in DOMAIN todo' : todo'[i].op = "session" => todo'[i].thread # t) =>
              (Becomes(t, v)' <=> active[t] = v)
         /\ Becomes(t, v)' =>
              \/ \E i \in DOMAIN todo' : todo'[i].op = "session" /\ todo'[i].turn = v
              \/ active[t] = v
         /\ Becomes(t, v)'
            /\ (\E i \in DOMAIN todo' : todo'[i].op = "session" /\ todo'[i].thread = t) =>
              \E i \in DOMAIN todo' : todo'[i].op = "session" /\ todo'[i].turn = v
<1>1. todo = <<>> /\ active' = active
  BY DEF Takes
<1>2. QED BY <1>1 DEF Becomes

LEMMA HandledActive ==
  ASSUME Typed, TurnsInLine, ActiveIsCurrent, NEW e, Takes(e), Handled(e)
  PROVE  ActiveIsCurrent'
<1>1. PICK t, q : t = e.thread /\ q = todo'
  OBVIOUS
<1>2. /\ e \in Events /\ t \in Threads /\ e.turn \in Turns \cup {None} /\ None \notin Turns
      /\ e.turn # None => ThreadOf[e.turn] = t
  BY <1>1, TakesAtHead, AssistantAssumption DEF Events
<1>3. disturbed' = disturbed
  BY DEF Takes
<1>4. SUFFICES ASSUME NEW u \in Turns, u \notin disturbed
               PROVE  AsCurrent(u)'
  BY <1>3 DEF ActiveIsCurrent, AsCurrent
<1>5. AsCurrent(u)
  BY <1>4, ActiveAsCurrent
<1>6. \A i \in DOMAIN q : q[i].op = "session" => q[i].thread = t
  <2>1. CASE HandleTurnStarted(e)
    BY <1>1, <1>2, <2>1, TurnStartedIs
  <2>2. CASE HandleDelta(e)
    <3>1. q = <<>> \/ (DOMAIN q = {1} /\ q[1].op = "delta")
      BY <1>1, <1>2, <2>2, DeltaLeaves
    <3>2. QED BY <3>1
  <2>3. CASE HandleItemCompleted(e)
    <3>1. e.type = "item.completed"
      BY <1>2, <2>3, ItemCompletedIs
    <3>2. CASE Resolved(e) = {}
      <4>1. q = <<>>
        BY <1>1, <1>2, <2>3, <3>2, ItemCompletedIs
      <4>2. QED BY <4>1
    <3>3. CASE Resolved(e) # {}
      <4>1. PICK x \in Messages : Resolved(e) = {x}
        BY <1>2, <3>1, <3>3, ResolvedIs
      <4>2. DOMAIN q = 1..3 /\ \A i \in 1..3 : q[i].thread = t
        BY <1>1, <1>2, <2>3, <4>1, ItemCompletedIs
      <4>3. QED BY <4>2
    <3>4. QED BY <3>2, <3>3
  <2>4. CASE EndsTurn(e)
    <3>1. Closes(q, t, TurnOrActive(e), SetAtEnd(e), e.type = "session.exited")
      BY <1>1, <1>2, <2>4, EndsTurnOf
    <3>2. QED BY <3>1 DEF Closes, Finishes
  <2>5. QED BY <2>1, <2>2, <2>3, <2>4 DEF Handled
<1>7. CASE ThreadOf[u] # t
  <2>1. \A v : Becomes(ThreadOf[u], v)' <=> Becomes(ThreadOf[u], v)
    BY <1>1, <1>6, <1>7, TakesAway
  <2>2. \A v \in Turns : ThreadOf[v] = ThreadOf[u] => (Current(v)' <=> Current(v))
    BY <1>2, <1>7, TakesTurns
  <2>3. QED BY <1>5, <2>1, <2>2, AsCurrentStays
<1>8. CASE ThreadOf[u] = t
  <2>1. PICK a : a = active[t]
    OBVIOUS
  <2>2. /\ a \in Turns \cup {None} /\ (a # None => ThreadOf[a] = t)
        /\ a # None => Current(a)
        /\ Current(u) => a = u
    <3>1. a \in Turns \cup {None} /\ (a # None => ThreadOf[a] = t)
      BY <1>2, <2>1 DEF Typed
    <3>2. Becomes(t, a)
      BY <2>1, TakesAway
    <3>3. QED BY <1>5, <1>8, <3>1, <3>2 DEF AsCurrent
  <2>3. \A v \in Turns : ThreadOf[v] = t /\ e.turn # v => ~Current(v) /\ ~Current(v)'
    BY <1>1, TakesTurns
  <2>4. a # None => a = e.turn
    BY <2>2, <2>3
  <2>5. ASSUME NEW w \in Turns \cup {None}, w # None => ThreadOf[w] = t /\ Current(w)',
               Current(u)' => w = u,
               \A i \in DOMAIN q : q[i].op = "session" => q[i].turn = w,
               a = w \/ \E i \in DOMAIN q : q[i].op = "session"
        PROVE  AsCurrent(u)'
    <3>1. ASSUME NEW v \in Turns \cup {None}, Becomes(t, v)'
          PROVE  v = w
      <4>1. CASE \E i \in DOMAIN q : q[i].op = "session"
        <5>1. \E i \in DOMAIN q : q[i].op = "session" /\ q[i].thread = t
          BY <1>6, <4>1
        <5>2. \E i \in DOMAIN q : q[i].op = "session" /\ q[i].turn = v
          BY <1>1, <3>1, <5>1, TakesAway
        <5>3. QED BY <2>5, <5>2
      <4>2. CASE ~(\E i \in DOMAIN q : q[i].op = "session")
        BY <1>1, <2>1, <2>5, <3>1, <4>2, TakesAway
      <4>3. QED BY <4>1, <4>2
    <3>2. QED BY <1>8, <2>5, <3>1 DEF AsCurrent
  <2>6. ASSUME a # None => Current(a)', Current(u)' => a = u,
               \A i \in DOMAIN q : q[i].op # "session"
        PROVE  AsCurrent(u)'
    BY <2>2, <2>5, <2>6
  <2>7. CASE HandleTurnStarted(e)
    <3>1. PICK w : w = e.turn
      OBVIOUS
    <3>2. /\ w \in Turns /\ ThreadOf[w] = t /\ Starts(e, w)
          /\ \/ a \notin {None, w} /\ q = <<>>
             \/ DOMAIN q = {1} /\ q[1].op = "session" /\ q[1].turn = w
      BY <1>1, <1>2, <2>1, <2>7, <3>1, TurnStartedIs
    <3>3. ~Current(w)
      BY <3>2, TakesTurns
    <3>4. a = None
      BY <2>2, <2>4, <3>1, <3>3
    <3>5. DOMAIN q = {1} /\ q[1].op = "session" /\ q[1].turn = w
      BY <3>2, <3>4
    <3>6. Current(w)'
      <4>1. ~Ends(e, w)
        BY <3>2 DEF Starts, Ends
      <4>2. QED BY <3>1, <3>2, <4>1, TakesTurns
    <3>7. Current(u)' => w = u
      BY <1>8, <2>3, <3>1
    <3>8. QED BY <2>5, <3>2, <3>5, <3>6, <3>7
  <2>8. ASSUME e.type \in {"content.delta", "item.completed"},
               \A i \in DOMAIN q : q[i].op # "session"
        PROVE  AsCurrent(u)'
    <3>1. ~Ends(e, e.turn) /\ ~Starts(e, e.turn)
      BY <2>8 DEF Ends, Starts
    <3>2. a # None => Current(a)'
      BY <2>2, <2>4, <3>1, TakesTurns
    <3>3. Current(u)' => a = u
      <4>1. CASE e.turn = u
        <5>1. Current(u)
          BY <3>1, <4>1, TakesTurns
        <5>2. QED BY <2>2, <5>1
      <4>2. CASE e.turn # u
        BY <1>8, <2>3, <4>2
      <4>3. QED BY <4>1, <4>2
    <3>4. QED BY <2>6, <2>8, <3>2, <3>3
  <2>9. CASE HandleDelta(e)
    <3>1. e.type = "content.delta" /\ (q = <<>> \/ (DOMAIN q = {1} /\ q[1].op = "delta"))
      BY <1>1, <1>2, <2>9, DeltaLeaves
    <3>2. \A i \in DOMAIN q : q[i].op # "session"
      BY <3>1
    <3>3. QED BY <2>8, <3>1, <3>2
  <2>10. CASE HandleItemCompleted(e)
    <3>1. e.type = "item.completed"
      BY <1>2, <2>10, ItemCompletedIs
    <3>2. \A i \in DOMAIN q : q[i].op # "session"
      <4>1. CASE Resolved(e) = {}
        <5>1. q = <<>>
          BY <1>1, <1>2, <2>10, <4>1, ItemCompletedIs
        <5>2. QED BY <5>1
      <4>2. CASE Resolved(e) # {}
        <5>1. PICK x \in Messages : Resolved(e) = {x}
          BY <1>2, <3>1, <4>2, ResolvedIs
        <5>2. DOMAIN q = 1..3 /\ q[1].op = "flush" /\ q[2].op = "complete" /\ q[3].op = "forget"
          BY <1>1, <1>2, <2>10, <5>1, ItemCompletedIs
        <5>3. \A i \in 1..3 : i = 1 \/ i = 2 \/ i = 3
          OBVIOUS
        <5>4. QED BY <5>2, <5>3
      <4>3. QED BY <4>1, <4>2
    <3>3. QED BY <2>8, <3>1, <3>2
  <2>11. CASE EndsTurn(e)
    <3>1. /\ Closes(q, t, TurnOrActive(e), SetAtEnd(e), e.type = "session.exited")
          /\ e.type \in {"turn.completed", "turn.aborted", "session.exited", "runtime.error"}
      BY <1>1, <1>2, <2>11, EndsTurnOf
    <3>2. a \in {None, e.turn}
      BY <2>4
    <3>3. PICK w : w = IF e.type = "runtime.error" /\ e.named THEN e.turn ELSE None
      OBVIOUS
    <3>4. SetAtEnd(e) = {w}
      BY <1>1, <2>1, <3>2, <3>3 DEF SetAtEnd, TurnOrActive
    <3>5. /\ \E i \in DOMAIN q : q[i].op = "session"
          /\ \A i \in DOMAIN q : q[i].op = "session" => q[i].turn = w
      BY <3>1, <3>4 DEF Closes
    <3>6. CASE e.type = "runtime.error" /\ e.named
      <4>1. w = e.turn /\ w \in Turns
        BY <1>2, <3>3, <3>6 DEF Events
      <4>2. ~Ends(e, w)
        BY <3>6 DEF Ends
      <4>3. Current(w)'
        BY <4>1, <4>2, TakesTurns
      <4>4. Current(u)' => w = u
        BY <1>8, <2>3, <4>1
      <4>5. ThreadOf[w] = t
        BY <1>2, <4>1
      <4>6. QED BY <2>5, <3>5, <4>1, <4>3, <4>4, <4>5
    <3>7. CASE ~(e.type = "runtime.error" /\ e.named)
      <4>1. w = None
        BY <3>3, <3>7
      <4>2. ~Current(u)'
        <5>1. CASE e.turn = u
          <6>1. Ends(e, u)
            BY <3>1, <3>7, <5>1 DEF Ends
          <6>2. QED BY <6>1, TakesTurns
        <5>2. CASE e.turn # u
          BY <1>8, <2>3, <5>2
        <5>3. QED BY <5>1, <5>2
      <4>3. QED BY <2>5, <3>5, <4>1, <4>2
    <3>8. QED BY <3>6, <3>7
  <2>12. QED BY <2>7, <2>9, <2>10, <2>11 DEF Handled
<1>9. QED BY <1>7, <1>8

-----------------------------------------------------------------------------
(* What has been heard of a message                                        *)

LEMMA NothingMore ==
  ASSUME NEW s \in Texts
  PROVE  s \o <<>> = s /\ <<>> \o s = s
BY ConcatEmptySeq DEF Texts

LEMMA TakingNothing ==
  ASSUME NEW q \in Seq(Ops), NEW kept, NEW m,
         \A i \in DOMAIN q : q[i].msg = m => q[i].text = <<>>
  PROVE  Taking(q, kept, m) = <<>>
<1>1. CASE q = <<>>
  BY <1>1 DEF Taking
<1>2. CASE q # <<>>
  <2>1. PICK s, r : s = Head(q) /\ r = Tail(q)
    OBVIOUS
  <2>2. Shifts(q, s, r)
    BY ONLY <1>2, <2>1, AtHead, q \in Seq(Ops)
  <2>3. 1 \in DOMAIN q /\ q[1] = s
    BY <2>2 DEF Shifts
  <2>4. QED BY <2>1, <2>3 DEF Taking
<1>3. QED BY <1>1, <1>2

LEMMA GotIs ==
  ASSUME Typed, NEW m \in Messages
  PROVE  /\ message[m].text \in Texts /\ buffer[m] \in Texts /\ Held(m) \in Texts
         /\ Owed(m) = <<>> => Got(m) = Held(m)
<1>1. message[m].text \in Texts /\ buffer[m] \in Texts
  BY DEF Typed
<1>2. Held(m) \in Texts
  BY <1>1, ConcatProperties DEF Held, Texts
<1>3. QED BY <1>1, <1>2, NothingMore DEF Got

LEMMA GotIsNext ==
  ASSUME Typed', NEW m \in Messages
  PROVE  /\ message'[m].text \in Texts /\ buffer'[m] \in Texts /\ Held(m)' \in Texts
         /\ Held(m)' = message'[m].text \o buffer'[m]
         /\ Owed(m)' = Taking(todo', buffer'[m], m)
         /\ Owed(m)' = <<>> => Got(m)' = Held(m)'
         /\ Got(m)' = Held(m)' \o Owed(m)'
<1>1. message'[m].text \in Texts /\ buffer'[m] \in Texts
  BY DEF Typed
<1>2. Held(m)' \in Texts
  BY <1>1, ConcatProperties DEF Held, Texts
<1>3. Owed(m)' = <<>> => Got(m)' = Held(m)'
  BY <1>2, NothingMore DEF Got
<1>4. QED BY <1>1, <1>2, <1>3 DEF Held, Owed, Got

\* Between two handlers nothing is taken.
LEMMA AtRest ==
  ASSUME Typed, todo = <<>>, NEW m \in Messages
  PROVE  /\ Owed(m) = <<>> /\ Got(m) = Held(m)
         /\ \A op : ~Has(op, m)
         /\ ~Forgets(m) /\ ~ForgetsTurn(TurnOf[m])
         /\ Finishing(m) <=> buffer[m] = <<>> /\ ~message[m].streaming
<1>1. Owed(m) = <<>>
  BY DEF Owed, Taking
<1>2. /\ \A op : ~Has(op, m)
      /\ ~ForgetsTurn(TurnOf[m]) /\ ~Forgets(m)
  BY DEF Has, Forgets, ForgetsTurn, ClearsThread
<1>3. QED BY <1>1, <1>2, GotIs DEF Finishing

\* What is in the state of a message that the steps which do not concern it leave alone.
LEMMA UndisturbedStays ==
  ASSUME NEW u \in Turns, Undisturbed(u),
         UNCHANGED <<provider, item, said, runtime, message, mode, known, buffer, todo>>
  PROVE  Undisturbed(u)'
<1>1. \A m : /\ Got(m)' = Got(m) /\ (Knows(m)' <=> Knows(m)) /\ (Forgets(m)' <=> Forgets(m))
             /\ \A op : Has(op, m)' <=> Has(op, m)
             /\ EndComes(m)' <=> EndComes(m)
  BY DEF Got, Held, Owed, Knows, Forgets, ForgetsTurn, ClearsThread, Has, EndComes
<1>2. Current(u)' <=> Current(u)
  BY DEF Current
<1>3. ASSUME NEW m \in MessagesOf(u)
      PROVE  Heard(m)' /\ Finished(m)'
  <2>1. Heard(m) /\ Finished(m) /\ TurnOf[m] = u
    BY DEF Undisturbed, MessagesOf
  <2>2. ForgetsTurn(u)' <=> ForgetsTurn(u)
    BY DEF ForgetsTurn
  <2>3. Heard(m)'
    BY <1>1, <2>1 DEF Heard, HeardUpTo
  <2>4. Finished(m)'
    BY <1>1, <1>2, <2>1, <2>2 DEF Finished, Finishing
  <2>5. QED BY <2>3, <2>4
<1>4. AloneAtEnd(u)'
  BY <1>1 DEF Undisturbed, AloneAtEnd, Lonely, NotLive
<1>5. QED BY <1>3, <1>4 DEF Undisturbed

-----------------------------------------------------------------------------
(* The provider leaves a turn undisturbed                                  *)

LEMMA SendsSame ==
  ASSUME NEW e, Sends(e)
  PROVE  \A m : /\ Got(m)' = Got(m) /\ (Knows(m)' <=> Knows(m)) /\ (Forgets(m)' <=> Forgets(m))
                /\ \A op : Has(op, m)' <=> Has(op, m)
                /\ Finishing(m)' <=> Finishing(m)
                /\ \A u : ForgetsTurn(u)' <=> ForgetsTurn(u)
<1>1. UNCHANGED <<message, known, buffer, todo>>
  BY DEF Sends
<1>2. QED
  BY <1>1 DEF Got, Held, Owed, Knows, Forgets, ForgetsTurn, ClearsThread, Has, Finishing

LEMMA SendsHeard ==
  ASSUME Typed, ItemsInLine, NEW e, Sends(e), NEW m \in Messages, Heard(m)
  PROVE  Heard(m)'
<1>1. PICK r, c : r = runtime' /\ c = Len(runtime) + 1
  OBVIOUS
<1>2. /\ c \in DOMAIN r /\ r[c] = e
      /\ \A i \in DOMAIN runtime : i \in DOMAIN r /\ r[i] = runtime[i]
      /\ \A i \in DOMAIN r : i \in DOMAIN runtime \/ i = c
  BY <1>1, SendsAtEnd
<1>3. PICK l, k : l = Len(said[m]) /\ k = Len(said'[m])
  OBVIOUS
<1>4. /\ l \in Nat /\ k \in Nat /\ l <= k
      /\ e.msg # m => k = l
      /\ e.msg = m => (e.type = "content.delta" <=> ~EndsItem(e, m))
      /\ e.msg = m /\ e.type = "content.delta" => k = l + 1 /\ e.text = <<k>> /\ e.named
      /\ EndsItem(e, m) => \/ k = l
                           \/ l = 0 /\ k = 1 /\ e.text = <<1>> /\ e.named
  <2>1. Said(e, m, l, k)
    BY <1>3, SendsItems
  <2>2. QED BY ONLY <2>1 DEF Said
<1>5. PICK n \in 0..l :
        /\ Got(m) = Count(n)
        /\ \A i \in DOMAIN runtime :
             runtime[i].msg = m /\ runtime[i].type = "content.delta" =>
               ~(\E x \in 1..n : runtime[i].text = <<x>>)
        /\ \A x \in (n + 1)..l :
             \E i \in DOMAIN runtime :
               runtime[i].msg = m /\ runtime[i].named /\ runtime[i].text = <<x>>
  BY <1>3 DEF Heard, HeardUpTo
<1>6. n \in Nat /\ n <= l
  BY <1>4
<1>7. ASSUME NEW i \in DOMAIN r, r[i].msg = m, r[i].type = "content.delta"
      PROVE  ~(\E x \in 1..n : r[i].text = <<x>>)
  <2>1. CASE i \in DOMAIN runtime
    BY <1>2, <1>5, <1>7, <2>1
  <2>2. CASE i = c
    <3>1. k = l + 1 /\ r[i].text = <<k>>
      BY <1>2, <1>4, <1>7, <2>2
    <3>2. ASSUME NEW x \in 1..n, r[i].text = <<x>>
          PROVE  FALSE
      <4>1. x = k
        BY <3>1, <3>2
      <4>2. QED BY <1>4, <1>6, <3>1, <4>1
    <3>3. QED BY <3>2
  <2>3. QED BY <1>2, <2>1, <2>2
<1>8. ASSUME NEW x \in (n + 1)..k
      PROVE  \E i \in DOMAIN r : r[i].msg = m /\ r[i].named /\ r[i].text = <<x>>
  <2>1. CASE x \in (n + 1)..l
    <3>1. PICK i \in DOMAIN runtime :
            runtime[i].msg = m /\ runtime[i].named /\ runtime[i].text = <<x>>
      BY <1>5, <2>1
    <3>2. QED BY <1>2, <3>1
  <2>2. CASE x \notin (n + 1)..l
    <3>1. x > l /\ k # l
      BY <1>4, <1>6, <1>8, <2>2
    <3>2. e.msg = m
      BY <1>4, <3>1
    <3>3. CASE e.type = "content.delta"
      <4>1. x = k
        BY <1>4, <1>6, <1>8, <3>1, <3>2, <3>3
      <4>2. QED BY <1>2, <1>4, <3>2, <3>3, <4>1
    <3>4. CASE EndsItem(e, m)
      <4>1. l = 0 /\ k = 1 /\ e.text = <<1>> /\ e.named
        BY <1>4, <3>1, <3>4
      <4>2. x = 1
        BY <1>6, <1>8, <3>1, <4>1
      <4>3. QED BY <1>2, <3>2, <4>1, <4>2
    <3>5. QED BY <1>4, <3>2, <3>3, <3>4
  <2>3. QED BY <2>1, <2>2
<1>9. n \in 0..k
  BY <1>4, <1>6
<1>10. mode' = mode /\ buffer' = buffer /\ Got(m)' = Got(m) /\ (Knows(m)' <=> Knows(m))
       /\ \A op : Has(op, m)' <=> Has(op, m)
  <2>1. mode' = mode /\ buffer' = buffer
    BY DEF Sends
  <2>2. \A x : /\ Got(x)' = Got(x) /\ (Knows(x)' <=> Knows(x))
               /\ \A op : Has(op, x)' <=> Has(op, x)
    BY SendsSame
  <2>3. QED BY <2>1, <2>2
<1>11. /\ Has("delta", m)' => buffer'[m] = <<>> /\ Knows(m)'
       /\ mode' = "streaming" => buffer'[m] = <<>> \/ Has("flush", m)'
  BY <1>10 DEF Heard, HeardUpTo
<1>12. Got(m)' = Count(n)
  BY <1>5, <1>10
<1>13. \E x \in 0..k :
         /\ Got(m)' = Count(x)
         /\ \A i \in DOMAIN r :
              r[i].msg = m /\ r[i].type = "content.delta" => ~(\E y \in 1..x : r[i].text = <<y>>)
         /\ \A y \in (x + 1)..k :
              \E i \in DOMAIN r : r[i].msg = m /\ r[i].named /\ r[i].text = <<y>>
  BY <1>7, <1>8, <1>9, <1>12
<1>14. QED BY <1>1, <1>3, <1>11, <1>13 DEF Heard, HeardUpTo

LEMMA SendsFinished ==
  ASSUME Typed, ItemsInLine, NEW e, Sends(e), NEW m \in Messages, Finished(m)
  PROVE  Finished(m)'
<1>1. PICK r, c : r = runtime' /\ c = Len(runtime) + 1
  OBVIOUS
<1>2. /\ c \in DOMAIN r /\ r[c] = e
      /\ \A i \in DOMAIN runtime : i \in DOMAIN r /\ r[i] = runtime[i]
  BY <1>1, SendsAtEnd
<1>3. EndComes(m) => EndComes(m)'
  BY <1>1, <1>2 DEF EndComes
<1>4. item[m] = "live" => item'[m] = "live" \/ EndComes(m)'
  <2>1. PICK l, k : l = Len(said[m]) /\ k = Len(said'[m])
    OBVIOUS
  <2>2. Said(e, m, l, k)
    BY <2>1, SendsItems
  <2>3. CASE e.msg # m
    BY <2>3, <2>2 DEF Said
  <2>4. CASE e.msg = m
    <3>1. (e.type = "content.delta" <=> ~EndsItem(e, m))
          /\ (e.type = "content.delta" => item'[m] = "live")
      BY <2>4, <2>2 DEF Said
    <3>2. EndsItem(e, m) => EndComes(m)'
      BY <1>1, <1>2 DEF EndComes
    <3>3. QED BY <3>1, <3>2
  <2>5. QED BY <2>3, <2>4
<1>5. Current(TurnOf[m])' <=> Current(TurnOf[m])
  BY SendsCurrent, AssistantAssumption
<1>6. /\ Got(m)' = Got(m) /\ (Knows(m)' <=> Knows(m)) /\ (Forgets(m)' <=> Forgets(m))
      /\ \A op : Has(op, m)' <=> Has(op, m)
      /\ Finishing(m)' <=> Finishing(m)
      /\ ForgetsTurn(TurnOf[m])' <=> ForgetsTurn(TurnOf[m])
  BY SendsSame
<1>7. QED BY <1>3, <1>4, <1>5, <1>6 DEF Finished

LEMMA SendsAlone ==
  ASSUME Typed, ItemsInLine, NEW e, Sends(e), NEW u \in Turns, Undisturbed(u)
  PROVE  AloneAtEnd(u)'
<1>1. PICK r, c : r = runtime' /\ c = Len(runtime) + 1
  OBVIOUS
<1>2. /\ c \in DOMAIN r /\ c \in Nat /\ r[c] = e /\ c \notin DOMAIN runtime
      /\ \A i \in DOMAIN runtime : i \in DOMAIN r /\ i \in Nat /\ r[i] = runtime[i] /\ i < c
      /\ \A i \in DOMAIN r : i \in DOMAIN runtime \/ i = c
  BY <1>1, SendsAtEnd
<1>3. \A m : Got(m)' = Got(m)
  BY SendsSame
<1>4. SUFFICES ASSUME NEW i \in DOMAIN r, r[i].turn = u, r[i].type = "item.completed", Lonely(i)',
                      NEW m \in MessagesOf(u), m # r[i].msg
               PROVE  NotLive(m, i)'
  BY <1>1 DEF AloneAtEnd, MessagesOf
<1>5. m \in Messages /\ TurnOf[m] = u
  BY DEF MessagesOf
<1>6. /\ e.msg # m => item'[m] = item[m]
      /\ e.msg = m => item[m] # "done"
  <2>1. PICK l, k : l = Len(said[m]) /\ k = Len(said'[m])
    OBVIOUS
  <2>2. Said(e, m, l, k)
    BY <1>5, <2>1, SendsItems
  <2>3. QED BY <2>2 DEF Said
<1>7. CASE i \in DOMAIN runtime
  <2>1. Lonely(i)
    <3>1. CASE ~r[i].named
      BY <1>2, <1>7, <3>1 DEF Lonely
    <3>2. CASE r[i].named
      <4>1. Got(r[i].msg) = <<>> /\ \A j \in DOMAIN r : j < i => r[j].msg # r[i].msg
        BY <1>1, <1>3, <1>4, <3>2 DEF Lonely
      <4>2. QED BY <1>2, <1>7, <4>1 DEF Lonely
    <3>3. QED BY <3>1, <3>2
  <2>2. NotLive(m, i)
    BY <1>2, <1>4, <1>7, <2>1 DEF Undisturbed, AloneAtEnd
  <2>3. CASE item[m] = "done" /\ \A j \in DOMAIN runtime : j >= i => runtime[j].msg # m
    <3>1. item'[m] = "done" /\ e.msg # m
      BY <1>6, <2>3
    <3>2. \A j \in DOMAIN r : j >= i => r[j].msg # m
      BY <1>2, <2>3, <3>1
    <3>3. QED BY <1>1, <3>1, <3>2 DEF NotLive
  <2>4. CASE Got(m) = <<>> /\ \A j \in DOMAIN runtime : j <= i => runtime[j].msg # m
    <3>1. \A j \in DOMAIN r : j <= i => r[j].msg # m
      BY <1>2, <1>7, <2>4
    <3>2. QED BY <1>1, <1>3, <2>4, <3>1 DEF NotLive
  <2>5. QED BY <2>2, <2>3, <2>4 DEF NotLive
<1>8. CASE i = c
  <2>1. e.turn = u /\ e.type = "item.completed" /\ e.msg # m
    BY <1>2, <1>4, <1>8
  <2>2. e \in Events
    BY DEF Sends
  <2>3. PICK x : x = e.msg
    OBVIOUS
  <2>4. x \in Messages /\ TurnOf[x] = u
    BY <2>1, <2>2, <2>3, AssistantAssumption DEF Events
  <2>5. Heard(m) /\ Heard(x)
    BY <1>4, <2>4 DEF Undisturbed, MessagesOf
  <2>6. item[m] # "live"
    <3>1. /\ \/ item[x] = "live"
                /\ (~e.named => \A y \in Messages : TurnOf[y] = u /\ item[y] = "live" => y = x)
             \/ item[x] = "new" /\ \A y \in Messages : TurnOf[y] = u => item[y] # "live"
      BY <2>1, <2>3 DEF Sends
    <3>2. CASE ~e.named
      BY <1>5, <2>1, <2>3, <3>1, <3>2
    <3>3. CASE e.named
      <4>1. Got(x) = <<>> /\ \A j \in DOMAIN r : j < c => r[j].msg # x
        BY <1>1, <1>2, <1>3, <1>4, <1>8, <2>3, <3>3 DEF Lonely
      <4>2. PICK l, n : /\ l = Len(said[x]) /\ n \in 0..l /\ Got(x) = Count(n)
                        /\ \A k \in (n + 1)..l :
                             \E j \in DOMAIN runtime :
                               runtime[j].msg = x /\ runtime[j].named /\ runtime[j].text = <<k>>
        BY <2>5 DEF Heard, HeardUpTo
      <4>3. l \in Nat /\ (item[x] = "new" <=> l = 0)
        <5>1. PICK k : k = Len(said'[x])
          OBVIOUS
        <5>2. Said(e, x, l, k)
          BY <2>4, <4>2, <5>1, SendsItems
        <5>3. QED BY ONLY <5>2 DEF Said
      <4>4. n = 0
        BY <4>1, <4>2, <4>3, CountIs
      <4>5. l = 0
        <5>1. SUFFICES ASSUME l # 0
                       PROVE  FALSE
          OBVIOUS
        <5>2. 1 \in (n + 1)..l
          BY <4>3, <4>4, <5>1
        <5>3. PICK j \in DOMAIN runtime : runtime[j].msg = x
          BY <4>2, <5>2
        <5>4. QED BY <1>2, <4>1, <5>3
      <4>6. QED BY <1>5, <3>1, <4>3, <4>5
    <3>4. QED BY <3>2, <3>3
  <2>7. CASE item[m] = "done"
    <3>1. item'[m] = "done"
      BY <1>6, <2>1, <2>7
    <3>2. \A j \in DOMAIN r : j >= i => r[j].msg # m
      BY <1>2, <1>8, <2>1
    <3>3. QED BY <1>1, <3>1, <3>2 DEF NotLive
  <2>8. CASE item[m] = "new"
    <3>1. \A j \in DOMAIN runtime : runtime[j].msg # m
      BY <1>5, <2>8 DEF ItemsInLine, ItemInLine
    <3>2. \A j \in DOMAIN r : r[j].msg # m
      BY <1>2, <2>1, <3>1
    <3>3. Got(m) = <<>>
      <4>1. PICK l : l = Len(said[m])
        OBVIOUS
      <4>2. l = 0
        <5>1. PICK k : k = Len(said'[m])
          OBVIOUS
        <5>2. Said(e, m, l, k)
          BY <1>5, <4>1, <5>1, SendsItems
        <5>3. QED BY <2>8, <5>2 DEF Said
      <4>3. PICK n : n \in 0..l /\ Got(m) = Count(n)
        BY <2>5, <4>1 DEF Heard, HeardUpTo
      <4>4. n = 0
        BY <4>2, <4>3
      <4>5. QED BY <4>3, <4>4, CountIs
    <3>4. QED BY <1>1, <1>3, <3>2, <3>3 DEF NotLive
  <2>9. QED BY <1>5, <2>6, <2>7, <2>8 DEF Typed
<1>9. QED BY <1>2, <1>7, <1>8

LEMMA SendsUndisturbed ==
  ASSUME Typed, ItemsInLine, NEW e, Sends(e), NEW u \in Turns, Undisturbed(u)
  PROVE  Undisturbed(u)'
<1>1. AloneAtEnd(u)'
  BY SendsAlone
<1>2. \A m \in MessagesOf(u) : Heard(m)' /\ Finished(m)'
  BY SendsHeard, SendsFinished DEF Undisturbed, MessagesOf
<1>3. QED BY <1>1, <1>2 DEF Undisturbed, MessagesOf

-----------------------------------------------------------------------------
(* The handlers leave a turn undisturbed                                   *)

LEMMA TakesEvents ==
  ASSUME Typed, NEW e, Takes(e), NEW r, r = runtime'
  PROVE  /\ 1 \in DOMAIN runtime /\ runtime[1] = e
         /\ \A i \in DOMAIN r :
              i \in Nat /\ i >= 1 /\ i + 1 \in DOMAIN runtime /\ runtime[i + 1] = r[i]
         /\ \A i \in DOMAIN runtime :
              i \in Nat /\ (i = 1 \/ \E j \in DOMAIN r : i = j + 1 /\ r[j] = runtime[i])
<1>1. /\ 1 \in DOMAIN runtime /\ runtime[1] = e
      /\ \A i \in DOMAIN runtime : i \in Nat
      /\ \A i \in DOMAIN r : i \in Nat /\ i + 1 \in DOMAIN runtime
                             /\ runtime[i + 1] = r[i] /\ i + 1 > 1
      /\ \A i \in DOMAIN runtime : i = 1 \/ \E j \in DOMAIN r : i = j + 1 /\ r[j] = runtime[i]
  BY TakesAtHead
<1>2. QED BY <1>1

LEMMA TakesEndComes ==
  ASSUME Typed, NEW e, Takes(e), NEW m, EndComes(m), e.type = "item.completed" => e.msg # m
  PROVE  EndComes(m)'
<1>1. PICK r : r = runtime'
  OBVIOUS
<1>2. PICK i \in DOMAIN runtime : EndsItem(runtime[i], m)
  BY DEF EndComes
<1>3. /\ runtime[1] = e
      /\ i = 1 \/ \E j \in DOMAIN r : r[j] = runtime[i]
  BY <1>1, TakesEvents
<1>4. i # 1
  BY <1>2, <1>3 DEF EndsItem
<1>5. QED BY <1>1, <1>2, <1>3, <1>4 DEF EndComes

\* A message of which the event says nothing, and no text is taken.
LEMMA TakesHeard ==
  ASSUME Typed, Typed', NEW e, Takes(e), NEW m \in Messages, Heard(m), e.msg # m,
         buffer'[m] = buffer[m],
         Taking(todo', buffer'[m], m) = <<>>,
         \A i \in DOMAIN todo' : todo'[i].msg = m => todo'[i].op # "delta"
  PROVE  Heard(m)' /\ Got(m)' = Got(m)
<1>1. PICK r : r = runtime'
  OBVIOUS
<1>2. /\ runtime[1] = e
      /\ \A i \in DOMAIN r : i + 1 \in DOMAIN runtime /\ runtime[i + 1] = r[i]
      /\ \A i \in DOMAIN runtime : i = 1 \/ \E j \in DOMAIN r : r[j] = runtime[i]
  BY <1>1, TakesEvents
<1>3. UNCHANGED <<said, message, mode>> /\ todo = <<>>
  BY DEF Takes
<1>4. Got(m) = Held(m) /\ \A op : ~Has(op, m)
  BY <1>3, AtRest
<1>5. ~Has("delta", m)'
  BY DEF Has
<1>6. Got(m)' = Got(m)
  <2>1. Got(m)' = Held(m)'
    BY GotIsNext
  <2>2. Held(m)' = Held(m)
    BY <1>3 DEF Held
  <2>3. QED BY <1>4, <2>1, <2>2
<1>7. PICK l : l = Len(said[m])
  OBVIOUS
<1>8. PICK n \in 0..l :
        /\ Got(m) = Count(n)
        /\ \A i \in DOMAIN runtime :
             runtime[i].msg = m /\ runtime[i].type = "content.delta" =>
               ~(\E x \in 1..n : runtime[i].text = <<x>>)
        /\ \A x \in (n + 1)..l :
             \E i \in DOMAIN runtime :
               runtime[i].msg = m /\ runtime[i].named /\ runtime[i].text = <<x>>
  BY <1>7 DEF Heard, HeardUpTo
<1>9. /\ \A i \in DOMAIN r :
           r[i].msg = m /\ r[i].type = "content.delta" => ~(\E x \in 1..n : r[i].text = <<x>>)
      /\ \A x \in (n + 1)..l :
           \E i \in DOMAIN r : r[i].msg = m /\ r[i].named /\ r[i].text = <<x>>
  <2>1. ASSUME NEW x \in (n + 1)..l
        PROVE  \E i \in DOMAIN r : r[i].msg = m /\ r[i].named /\ r[i].text = <<x>>
    <3>1. PICK i \in DOMAIN runtime :
            runtime[i].msg = m /\ runtime[i].named /\ runtime[i].text = <<x>>
      BY <1>8
    <3>2. i # 1
      BY <1>2, <3>1
    <3>3. QED BY <1>2, <3>1, <3>2
  <2>2. ASSUME NEW i \in DOMAIN r, r[i].msg = m, r[i].type = "content.delta"
        PROVE  ~(\E x \in 1..n : r[i].text = <<x>>)
    BY <1>2, <1>8, <2>2
  <2>3. QED BY <2>1, <2>2
<1>10. mode' = "streaming" => buffer'[m] = <<>>
  BY <1>3, <1>4 DEF Heard, HeardUpTo
<1>11. HeardUpTo(m, n, l)'
  BY ONLY <1>1, <1>6, <1>8, <1>9 DEF HeardUpTo
<1>12. (\E k \in 0..Len(said[m]) : HeardUpTo(m, k, Len(said[m])))'
  BY ONLY <1>3, <1>7, <1>8, <1>11
<1>13. Heard(m)'
  BY ONLY <1>5, <1>10, <1>12 DEF Heard
<1>14. QED BY <1>6, <1>13

\* A message the event does not concern.
LEMMA TakesAside ==
  ASSUME Typed, Typed', NEW e, Takes(e), NEW m \in Messages, Heard(m), Finished(m), e.msg # m,
         buffer'[m] = buffer[m], Knows(m)' <=> Knows(m),
         \A i \in DOMAIN todo' : todo'[i].msg # m,
         Knows(m) => ~Forgets(m)' /\ Current(TurnOf[m])'
  PROVE  Heard(m)' /\ Finished(m)' /\ Got(m)' = Got(m)
<1>1. UNCHANGED <<item, message>> /\ todo = <<>>
  BY DEF Takes
<1>2. /\ \A op : ~Has(op, m)
      /\ ~ForgetsTurn(TurnOf[m])
      /\ Finishing(m) <=> buffer[m] = <<>> /\ ~message[m].streaming
  BY <1>1, AtRest
<1>3. \A op : ~Has(op, m)'
  BY DEF Has
<1>4. Heard(m)' /\ Got(m)' = Got(m)
  <2>1. todo' \in Seq(Ops)
    BY DEF Typed
  <2>2. Taking(todo', buffer'[m], m) = <<>>
    BY <2>1, TakingNothing
  <2>3. QED BY <2>2, TakesHeard
<1>5. ~Finishing(m)' => ~Finishing(m)
  BY <1>1, <1>2, <1>3 DEF Finishing
<1>6. Knows(m) => item'[m] = "live" \/ EndComes(m)'
  <2>1. Knows(m) => item[m] = "live" \/ EndComes(m)
    BY <1>2 DEF Finished
  <2>2. EndComes(m) => EndComes(m)'
    BY TakesEndComes
  <2>3. QED BY <1>1, <2>1, <2>2
<1>7. Finished(m)'
  BY <1>4, <1>5, <1>6 DEF Finished
<1>8. QED BY <1>4, <1>7

LEMMA TakesAlone ==
  ASSUME Typed, NEW e, Takes(e), NEW u \in Turns, AloneAtEnd(u),
         \A m \in MessagesOf(u) : Got(m)' = <<>> <=> Got(m) = <<>> /\ e.msg # m
  PROVE  AloneAtEnd(u)'
<1>1. PICK r : r = runtime'
  OBVIOUS
<1>2. /\ runtime[1] = e
      /\ \A i \in DOMAIN r :
           i \in Nat /\ i >= 1 /\ i + 1 \in DOMAIN runtime /\ runtime[i + 1] = r[i]
      /\ \A i \in DOMAIN runtime :
           i \in Nat /\ (i = 1 \/ \E j \in DOMAIN r : i = j + 1 /\ r[j] = runtime[i])
  BY <1>1, TakesEvents
<1>3. item' = item
  BY DEF Takes
<1>4. SUFFICES ASSUME NEW i \in DOMAIN r, r[i].turn = u, r[i].type = "item.completed", Lonely(i)',
                      NEW m \in MessagesOf(u), m # r[i].msg
               PROVE  NotLive(m, i)'
  BY <1>1 DEF AloneAtEnd, MessagesOf
<1>5. PICK h, x : h = i + 1 /\ x = r[i].msg
  OBVIOUS
<1>6. h \in DOMAIN runtime /\ runtime[h] = r[i] /\ i \in Nat
  BY <1>2, <1>5
<1>7. x \in MessagesOf(u)
  <2>1. runtime[h] \in Events
    BY <1>6, ElementOfSeq DEF Typed
  <2>2. QED BY <1>4, <1>5, <1>6, <2>1, AssistantAssumption DEF Events, MessagesOf
<1>8. Lonely(h)
  <2>1. CASE ~r[i].named
    BY <1>6, <2>1 DEF Lonely
  <2>2. CASE r[i].named
    <3>1. Got(x)' = <<>> /\ \A j \in DOMAIN r : j < i => r[j].msg # x
      BY <1>1, <1>4, <1>5, <2>2 DEF Lonely
    <3>2. Got(x) = <<>> /\ e.msg # x
      BY <1>7, <3>1
    <3>3. ASSUME NEW j \in DOMAIN runtime, j < h
          PROVE  runtime[j].msg # x
      <4>1. CASE j = 1
        BY <1>2, <3>2, <4>1
      <4>2. CASE j # 1
        <5>1. PICK k \in DOMAIN r : j = k + 1 /\ r[k] = runtime[j]
          BY <1>2, <4>2
        <5>2. k < i
          BY <1>2, <1>5, <1>6, <3>3, <5>1
        <5>3. QED BY <3>1, <5>1, <5>2
      <4>3. QED BY <4>1, <4>2
    <3>4. QED BY <1>5, <1>6, <3>2, <3>3 DEF Lonely
  <2>3. QED BY <2>1, <2>2
<1>9. NotLive(m, h)
  BY <1>4, <1>6, <1>8 DEF AloneAtEnd
<1>10. CASE item[m] = "done" /\ \A j \in DOMAIN runtime : j >= h => runtime[j].msg # m
  <2>1. ASSUME NEW j \in DOMAIN r, j >= i
        PROVE  r[j].msg # m
    <3>1. j + 1 \in DOMAIN runtime /\ runtime[j + 1] = r[j] /\ j \in Nat
      BY <1>2
    <3>2. j + 1 >= h
      BY <1>5, <1>6, <2>1, <3>1
    <3>3. QED BY <1>10, <3>1, <3>2
  <2>2. QED BY <1>1, <1>3, <1>10, <2>1 DEF NotLive
<1>11. CASE Got(m) = <<>> /\ \A j \in DOMAIN runtime : j <= h => runtime[j].msg # m
  <2>1. e.msg # m
    <3>1. 1 <= h /\ 1 \in DOMAIN runtime
      BY <1>2, <1>5, <1>6, TakesEvents
    <3>2. QED BY <1>2, <1>11, <3>1
  <2>2. Got(m)' = <<>>
    BY <1>4, <1>11, <2>1
  <2>3. ASSUME NEW j \in DOMAIN r, j <= i
        PROVE  r[j].msg # m
    <3>1. j + 1 \in DOMAIN runtime /\ runtime[j + 1] = r[j] /\ j \in Nat
      BY <1>2
    <3>2. j + 1 <= h
      BY <1>5, <1>6, <2>3, <3>1
    <3>3. QED BY <1>11, <3>1, <3>2
  <2>4. QED BY <1>1, <2>2, <2>3 DEF NotLive
<1>12. QED BY <1>9, <1>10, <1>11 DEF NotLive

\* The handler of the event has nothing to do with the message.
Aside(e, m) ==
  /\ e.msg # m /\ buffer'[m] = buffer[m] /\ (Knows(m)' <=> Knows(m))
  /\ \A i \in DOMAIN todo' : todo'[i].msg # m
  /\ Forgets(m)' => ThreadOfMessage(m) = e.thread

\* The turn that ends is the one that is finished.
LEMMA EndsWhom ==
  ASSUME Typed, TurnsInLine, ActiveIsCurrent, NEW e, Takes(e), EndsTurn(e),
         NEW u \in Turns, u \notin disturbed
  PROVE  TurnOrActive(e) = u <=> e.turn = u
<1>1. PICK t, w, a : t = e.thread /\ w = TurnOrActive(e) /\ a = active[t]
  OBVIOUS
<1>2. e \in Events /\ t \in Threads /\ (e.turn # None => ThreadOf[e.turn] = t) /\ u # None
  BY <1>1, TakesAtHead, AssistantAssumption DEF Events
<1>3. /\ w \in Turns \cup {None} /\ (w # None => ThreadOf[w] = t)
      /\ e.type \in {"turn.completed", "turn.aborted", "session.exited", "runtime.error"}
  BY <1>1, <1>2, EndsTurnOf
<1>4. w = IF e.named THEN e.turn ELSE a
  BY <1>1 DEF TurnOrActive
<1>5. CASE ThreadOf[u] # t
  BY <1>1, <1>2, <1>3, <1>5
<1>6. CASE ThreadOf[u] = t
  <2>1. Becomes(t, a)
    BY <1>1, TakesAway
  <2>2. a \in Turns \cup {None}
    BY <1>1, <1>2 DEF Typed
  <2>3. (a # None => ThreadOf[a] = t /\ Current(a)) /\ (Current(u) => a = u)
    BY <1>6, <2>1, <2>2 DEF ActiveIsCurrent
  <2>4. CASE e.turn = u
    <3>1. ~Starts(e, u)
      BY <1>3 DEF Starts
    <3>2. Current(u)
      BY <2>4, <3>1, TakesTurns
    <3>3. QED BY <1>1, <1>4, <2>3, <2>4, <3>2
  <2>5. CASE e.turn # u
    <3>1. ~Current(u)
      BY <1>1, <1>6, <2>5, TakesTurns
    <3>2. a # u
      BY <1>2, <2>3, <3>1
    <3>3. QED BY <1>1, <1>4, <2>5, <3>2
  <2>6. QED BY <2>4, <2>5
<1>7. QED BY <1>5, <1>6

LEMMA EndsAside ==
  ASSUME Typed, NEW e \in Events, EndsTurn(e), NEW m \in Messages, TurnOrActive(e) # TurnOf[m]
  PROVE  Aside(e, m)
<1>1. PICK w, q : w = TurnOrActive(e) /\ q = todo'
  OBVIOUS
<1>2. /\ Closes(q, e.thread, w, SetAtEnd(e), e.type = "session.exited") /\ q \in Seq(Ops)
      /\ UNCHANGED <<known, buffer>>
      /\ e.type \in {"turn.completed", "turn.aborted", "session.exited", "runtime.error"}
  BY <1>1, EndsTurnOf
<1>3. m # None /\ TurnOf[m] \in Turns
  BY AssistantAssumption
<1>4. e.msg # m
  BY <1>2, <1>3 DEF Events
<1>5. ASSUME NEW i \in DOMAIN q
      PROVE  /\ q[i].msg # m /\ q[i].op # "forget" /\ q[i].thread = e.thread
             /\ q[i].op = "forgetTurn" => q[i].turn # TurnOf[m]
  <2>1. q[i] \in Ops
    BY <1>2, ElementOfSeq
  <2>2. /\ q[i].op \in OfTurn => q[i].turn = w
        /\ q[i].thread = e.thread
        /\ q[i].op \in {"session", "clear", "flush", "complete", "forgetTurn"}
    BY <1>2 DEF Closes, Finishes
  <2>3. q[i].msg = m => q[i].op \in OfTurn /\ q[i].turn = TurnOf[m]
    BY <1>3, <2>1 DEF Ops, OfMessage, OfTurn
  <2>4. QED BY <1>1, <2>2, <2>3 DEF OfTurn
<1>6. Forgets(m)' => ThreadOfMessage(m) = e.thread
  BY <1>1, <1>5 DEF Forgets, Has, ForgetsTurn, ClearsThread
<1>7. Knows(m)' <=> Knows(m)
  BY <1>2 DEF Knows
<1>8. QED BY <1>1, <1>2, <1>4, <1>5, <1>6, <1>7 DEF Aside

LEMMA StartedAside ==
  ASSUME Typed, NEW e \in Events, HandleTurnStarted(e), NEW m \in Messages
  PROVE  Aside(e, m) /\ ~Forgets(m)'
<1>1. PICK q : q = todo'
  OBVIOUS
<1>2. /\ UNCHANGED <<known, buffer>> /\ e.msg = None
      /\ q = <<>> \/ (DOMAIN q = {1} /\ q[1].op = "session" /\ q[1].msg = None)
  BY <1>1, TurnStartedIs
<1>3. m # None
  BY AssistantAssumption
<1>4. \A i \in DOMAIN q : q[i].op = "session" /\ q[i].msg = None
  BY <1>2
<1>5. ~Forgets(m)'
  BY <1>1, <1>4 DEF Forgets, Has, ForgetsTurn, ClearsThread
<1>6. QED BY <1>1, <1>2, <1>3, <1>4, <1>5 DEF Aside, Knows

LEMMA DeltaAside ==
  ASSUME Typed, NEW e \in Events, HandleDelta(e), NEW m \in Messages, e.msg # m
  PROVE  Aside(e, m) /\ ~Forgets(m)'
<1>1. PICK q, x, u, kept : q = todo' /\ x = e.msg /\ u = e.turn /\ kept = buffer[x] \o e.text
  OBVIOUS
<1>2. /\ buffer'[m] = buffer[m] /\ u \in Turns /\ TurnOf[x] = u
      /\ known'[u] = known[u] \cup {x} /\ \A v \in Turns : v # u => known'[v] = known[v]
      /\ q = <<>> \/ (DOMAIN q = {1} /\ q[1].op = "delta" /\ q[1].msg = x)
  <2>1. KeepsDelta(e, x, u, kept)
    BY <1>1, DeltaIs
  <2>2. m \in Messages /\ m # x /\ q = todo'
    BY <1>1
  <2>3. QED BY ONLY <2>1, <2>2 DEF KeepsDelta
<1>3. \A i \in DOMAIN q : q[i].op = "delta" /\ q[i].msg = x
  BY <1>2
<1>4. ~Forgets(m)'
  BY <1>1, <1>3 DEF Forgets, Has, ForgetsTurn, ClearsThread
<1>5. Knows(m)' <=> Knows(m)
  BY <1>1, <1>2, AssistantAssumption DEF Knows
<1>6. QED BY <1>1, <1>2, <1>3, <1>4, <1>5 DEF Aside

LEMMA ItemCompletedAside ==
  ASSUME Typed, NEW e \in Events, HandleItemCompleted(e), NEW m \in Messages, e.msg # m,
         m \notin Resolved(e)
  PROVE  Aside(e, m) /\ ~Forgets(m)'
<1>1. PICK q, u : q = todo' /\ u = e.turn
  OBVIOUS
<1>2. /\ e.type = "item.completed" /\ buffer' = buffer
      /\ known'[u] = known[u] \cup Resolved(e)
      /\ \A v \in Turns : v # u => known'[v] = known[v]
  BY <1>1, ItemCompletedIs
<1>3. ASSUME NEW i \in DOMAIN q
      PROVE  q[i].msg # m /\ q[i].op \notin {"forgetTurn", "clear"}
  <2>1. CASE Resolved(e) = {}
    <3>1. q = <<>>
      BY <1>1, <2>1, ItemCompletedIs
    <3>2. QED BY <1>3, <3>1
  <2>2. CASE Resolved(e) # {}
    <3>1. PICK x \in Messages : Resolved(e) = {x}
      BY <1>2, <2>2, ResolvedIs
    <3>2. /\ DOMAIN q = 1..3 /\ \A k \in 1..3 : q[k].msg = x
          /\ q[1].op = "flush" /\ q[2].op = "complete" /\ q[3].op = "forget"
      BY <1>1, <3>1, ItemCompletedIs
    <3>3. i = 1 \/ i = 2 \/ i = 3
      BY <1>3, <3>2
    <3>4. QED BY <3>1, <3>2, <3>3
  <2>3. QED BY <2>1, <2>2
<1>4. ~Forgets(m)'
  BY <1>1, <1>3 DEF Forgets, Has, ForgetsTurn, ClearsThread
<1>5. Knows(m)' <=> Knows(m)
  BY <1>1, <1>2, AssistantAssumption DEF Knows
<1>6. QED BY <1>1, <1>2, <1>3, <1>4, <1>5 DEF Aside

\* Handlers of the events of other turns.
LEMMA HandledAside ==
  ASSUME Typed, TurnsInLine, ActiveIsCurrent, NEW e, Takes(e), Handled(e),
         NEW u \in Turns, u \notin disturbed, e.turn # u, NEW m \in MessagesOf(u)
  PROVE  Aside(e, m)
<1>1. e \in Events
  BY TakesAtHead
<1>2. m \in Messages /\ TurnOf[m] = u /\ m # None
  BY AssistantAssumption DEF MessagesOf
<1>3. e.msg # m
  BY <1>1, <1>2 DEF Events
<1>4. CASE HandleTurnStarted(e)
  BY <1>1, <1>2, <1>4, StartedAside
<1>5. CASE HandleDelta(e)
  BY <1>1, <1>2, <1>3, <1>5, DeltaAside
<1>6. CASE HandleItemCompleted(e)
  <2>1. e.type = "item.completed"
    BY <1>1, <1>6, ItemCompletedIs
  <2>2. Resolved(e) = {} \/ \E x \in Messages : Resolved(e) = {x} /\ TurnOf[x] = e.turn
    BY <1>1, <2>1, ResolvedIs
  <2>3. m \notin Resolved(e)
    BY <1>2, <2>2
  <2>4. QED BY <1>1, <1>2, <1>3, <1>6, <2>3, ItemCompletedAside
<1>7. CASE EndsTurn(e)
  <2>1. TurnOrActive(e) # u
    BY <1>7, EndsWhom
  <2>2. QED BY <1>1, <1>2, <1>7, <2>1, EndsAside
<1>8. QED BY <1>4, <1>5, <1>6, <1>7 DEF Handled

\* A message the worker knows is of the current turn.
LEMMA AtRestKnows ==
  ASSUME Typed, todo = <<>>, NEW m \in Messages, Finished(m)
  PROVE  /\ Knows(m) => Got(m) # <<>> /\ Current(TurnOf[m]) /\ (item[m] = "live" \/ EndComes(m))
         /\ ~Knows(m) => buffer[m] = <<>> /\ ~message[m].streaming
<1>1. /\ \A op : ~Has(op, m)
      /\ ~ForgetsTurn(TurnOf[m])
      /\ Finishing(m) <=> buffer[m] = <<>> /\ ~message[m].streaming
  BY AtRest
<1>2. QED BY <1>1 DEF Finished

LEMMA AsideStays ==
  ASSUME Typed, Typed', TurnsInLine, NEW e, Takes(e), NEW m \in Messages, Heard(m), Finished(m),
         Aside(e, m), e.turn = TurnOf[m] => Current(TurnOf[m])' /\ ~Forgets(m)'
  PROVE  Heard(m)' /\ Finished(m)' /\ Got(m)' = Got(m)
<1>1. TurnOf[m] \in Turns /\ todo = <<>>
  BY AssistantAssumption DEF Takes
<1>2. Knows(m) => Current(TurnOf[m])
  BY <1>1, AtRestKnows
<1>3. ASSUME Knows(m)
      PROVE  ~Forgets(m)' /\ Current(TurnOf[m])'
  <2>1. CASE e.turn = TurnOf[m]
    BY <2>1
  <2>2. CASE e.turn # TurnOf[m]
    <3>1. ThreadOf[TurnOf[m]] # e.thread /\ Current(TurnOf[m])'
      BY <1>1, <1>2, <1>3, <2>2, TakesTurns
    <3>2. QED BY <3>1 DEF Aside, ThreadOfMessage
  <2>3. QED BY <2>1, <2>2
<1>4. QED BY <1>3, TakesAside DEF Aside

LEMMA Joined ==
  ASSUME NEW a \in Texts, NEW b \in Texts, NEW c \in Texts, NEW d, d = b \o c, NEW f, f = a \o b
  PROVE  a \o d = f \o c
<1>1. PICK S : S = Nat
  OBVIOUS
<1>2. a \in Seq(S) /\ b \in Seq(S) /\ c \in Seq(S)
  BY <1>1 DEF Texts
<1>3. (a \o b) \o c = a \o (b \o c)
  BY ONLY <1>2, ConcatAssociative
<1>4. QED BY <1>3

LEMMA CountJoins ==
  ASSUME NEW n \in Nat
  PROVE  Count(n) \o <<n + 1>> = Count(n + 1)
<1>1. PICK c, k : c = Count(n) /\ k = n + 1
  OBVIOUS
<1>2. c \in Seq(Nat) /\ k \in Nat
  BY <1>1, CountIs DEF Texts
<1>3. c \o <<k>> = Append(c, k)
  BY <1>2, JoinsOne
<1>4. Append(c, k) = Count(k)
  BY <1>1, CountGrows
<1>5. QED BY <1>1, <1>3, <1>4

\* The first piece that is still on its way is the one that arrives.
LEMMA NextPiece ==
  ASSUME Typed, ItemsInLine, NEW e, Takes(e), e.type = "content.delta",
         NEW m \in Messages, m = e.msg,
         NEW l, l = Len(said[m]), NEW n \in 0..l,
         HeardUpTo(m, n, l)
  PROVE  l \in Nat /\ n \in Nat /\ n + 1 <= l /\ e.text = <<n + 1>>
<1>1. /\ 1 \in DOMAIN runtime /\ runtime[1] = e
      /\ \A i \in DOMAIN runtime : i \in Nat /\ i >= 1 /\ runtime[i] \in Events
  BY TakesAtHead
<1>2. l \in Nat /\ said[m] = Count(l) /\ said[m] \in Texts /\ m # None
  <2>1. said[m] \in Texts
    BY DEF Typed
  <2>2. QED BY <2>1, LenProperties, AssistantAssumption DEF ItemsInLine, Texts
<1>3. \A i \in DOMAIN runtime : ItemInLine(m, i)
  BY DEF ItemsInLine
<1>4. PICK k \in 1..l : e.text = <<k>>
  BY <1>1, <1>3 DEF ItemInLine
<1>5. n \in Nat /\ k \in Nat /\ k > n /\ n + 1 \in (n + 1)..l
  <2>1. k \notin 1..n
    BY <1>1, <1>4 DEF HeardUpTo
  <2>2. QED BY <1>2, <1>4, <2>1
<1>6. PICK j \in DOMAIN runtime : runtime[j].msg = m /\ runtime[j].named
                                  /\ runtime[j].text = <<n + 1>>
  BY <1>5 DEF HeardUpTo
<1>7. CASE j = 1
  BY <1>1, <1>2, <1>4, <1>5, <1>6, <1>7
<1>8. CASE j # 1 /\ runtime[j].type = "content.delta"
  <2>1. 1 < j
    BY <1>1, <1>8
  <2>2. PICK y \in 1..l :
          /\ runtime[j].text = <<y>>
          /\ \A i \in DOMAIN runtime :
               i < j /\ runtime[i].msg = m => \E x \in 1..(y - 1) : runtime[i].text = <<x>>
    BY <1>3, <1>6, <1>8 DEF ItemInLine
  <2>3. y = n + 1
    BY <1>6, <2>2
  <2>4. PICK x \in 1..(y - 1) : e.text = <<x>>
    BY <1>1, <2>1, <2>2
  <2>5. x = k
    BY <1>4, <2>4
  <2>6. QED BY <1>5, <2>3, <2>4, <2>5
<1>9. CASE j # 1 /\ runtime[j].type # "content.delta"
  <2>1. EndsItem(runtime[j], m)
    BY <1>1, <1>2, <1>6, <1>9 DEF Events, EndsItem
  <2>2. runtime[j].text = Count(l)
    BY <1>2, <1>3, <1>6, <2>1 DEF ItemInLine
  <2>3. Len(Count(l)) = l
    BY <1>2, CountIs
  <2>4. Len(<<n + 1>>) = 1
    OBVIOUS
  <2>5. l = 1
    BY <1>6, <2>2, <2>3, <2>4
  <2>6. k = 1 /\ n = 0
    BY <1>4, <1>5, <2>5
  <2>7. QED BY <1>4, <2>5, <2>6
<1>10. QED BY <1>7, <1>8, <1>9

\* A delta is heard once, and in order.
LEMMA DeltaHeard ==
  ASSUME Typed, Typed', ItemsInLine, NEW e, Takes(e), HandleDelta(e), NEW m \in Messages,
         m = e.msg, Heard(m)
  PROVE  Heard(m)' /\ Got(m)' # <<>>
<1>1. PICK r, l, u, kept, f :
        r = runtime' /\ l = Len(said[m]) /\ u = e.turn /\ kept = buffer[m] \o e.text
        /\ f = message[m].text
  OBVIOUS
<1>2. PICK n \in 0..l : HeardUpTo(m, n, l)
  BY <1>1 DEF Heard
<1>3. e \in Events
  BY TakesAtHead
<1>4. KeepsDelta(e, m, u, kept)
  BY <1>1, <1>3, DeltaIs
<1>5. e.type = "content.delta" /\ e.text \in Texts /\ kept \in Texts
  BY <1>4 DEF KeepsDelta
<1>6. l \in Nat /\ n \in Nat /\ n + 1 <= l /\ e.text = <<n + 1>>
  BY <1>1, <1>2, <1>5, NextPiece
<1>7. UNCHANGED <<said, message, mode>> /\ todo = <<>>
  BY DEF Takes
<1>8. Got(m) = Held(m) /\ \A op : ~Has(op, m)
  BY <1>7, AtRest
<1>9. mode = "streaming" => buffer[m] = <<>>
  BY <1>8 DEF Heard, HeardUpTo
<1>10. f \in Texts /\ buffer[m] \in Texts /\ f \o buffer[m] = Count(n)
  BY <1>1, <1>2, <1>8, GotIs DEF Held, HeardUpTo
<1>11. Count(n) \o e.text = Count(n + 1)
  BY <1>6, CountJoins
<1>12. f \o kept = Count(n + 1)
  <2>1. PICK b, t, c : b = buffer[m] /\ t = e.text /\ c = Count(n)
    OBVIOUS
  <2>2. f \in Texts /\ b \in Texts /\ t \in Texts
    BY <1>5, <1>10, <2>1
  <2>3. kept = b \o t
    BY <1>1, <2>1
  <2>4. c = f \o b
    BY <1>10, <2>1
  <2>5. f \o kept = c \o t
    BY ONLY <2>2, <2>3, <2>4, Joined
  <2>6. QED BY <1>11, <2>1, <2>5
<1>13. PICK q, b : q = todo' /\ b = buffer'[m]
  OBVIOUS
<1>14. /\ Got(m)' = (f \o b) \o Taking(q, b, m)
       /\ f \o b \in Texts
  BY <1>1, <1>7, <1>13, GotIsNext
<1>15. /\ \/ mode = "buffered" /\ b = kept /\ q = <<>>
          \/ /\ \/ mode = "buffered" /\ b = <<>> /\ q[1].text = kept
                \/ mode = "streaming" /\ b = buffer[m] /\ q[1].text = e.text
             /\ q[1].op = "delta" /\ q[1].msg = m /\ q # <<>> /\ Head(q) = q[1]
       /\ m \in known'[u] /\ TurnOf[m] = u
  BY <1>4, <1>13 DEF KeepsDelta
<1>16. Got(m)' = Count(n + 1)
  <2>1. CASE mode = "buffered" /\ b = kept /\ q = <<>>
    <3>1. Taking(q, b, m) = <<>>
      BY <2>1 DEF Taking
    <3>2. QED BY <1>12, <1>14, <2>1, <3>1, NothingMore
  <2>2. CASE b = <<>> /\ q[1].text = kept /\ q[1].op = "delta" /\ q[1].msg = m
             /\ q # <<>> /\ Head(q) = q[1]
    <3>1. Taking(q, b, m) = kept
      BY <2>2 DEF Taking
    <3>2. f \o b = f
      BY <1>10, <2>2, NothingMore
    <3>3. QED BY <1>12, <1>14, <3>1, <3>2
  <2>3. CASE /\ mode = "streaming" /\ b = buffer[m] /\ q[1].text = e.text
             /\ q[1].op = "delta" /\ q[1].msg = m /\ q # <<>> /\ Head(q) = q[1]
    <3>1. Taking(q, b, m) = e.text
      BY <2>3 DEF Taking
    <3>2. QED BY <1>10, <1>11, <1>14, <2>3, <3>1
  <2>4. QED BY <1>15, <2>1, <2>2, <2>3
<1>17. PICK c : c = n + 1
  OBVIOUS
<1>18. c \in 0..l /\ c \in Nat /\ c # 0
  BY <1>6, <1>17
<1>19. /\ runtime[1] = e
       /\ \A i \in DOMAIN r : i \in Nat /\ i >= 1 /\ i + 1 \in DOMAIN runtime
                              /\ runtime[i + 1] = r[i]
       /\ \A i \in DOMAIN runtime : i = 1 \/ \E j \in DOMAIN r : r[j] = runtime[i]
       /\ 1 \in DOMAIN runtime
  BY <1>1, TakesEvents
<1>20. ASSUME NEW i \in DOMAIN r, r[i].msg = m, r[i].type = "content.delta",
              NEW y \in 1..c, r[i].text = <<y>>
       PROVE  FALSE
  <2>1. PICK h : h = i + 1
    OBVIOUS
  <2>2. h \in DOMAIN runtime /\ runtime[h] = r[i] /\ 1 < h
    BY <1>19, <2>1
  <2>3. ItemInLine(m, h)
    BY <2>2 DEF ItemsInLine
  <2>4. PICK k \in 1..l :
          /\ runtime[h].text = <<k>>
          /\ \A j \in DOMAIN runtime :
               j < h /\ runtime[j].msg = m => \E x \in 1..(k - 1) : runtime[j].text = <<x>>
    BY <1>1, <1>20, <2>2, <2>3 DEF ItemInLine
  <2>5. k = y
    BY <1>20, <2>2, <2>4
  <2>6. PICK x \in 1..(k - 1) : e.text = <<x>>
    BY <1>19, <2>2, <2>4
  <2>7. x = c
    BY <1>6, <1>17, <2>6
  <2>8. QED BY <1>18, <1>20, <2>5, <2>6, <2>7
<1>21. ASSUME NEW y \in (c + 1)..l
       PROVE  \E i \in DOMAIN r : r[i].msg = m /\ r[i].named /\ r[i].text = <<y>>
  <2>1. y \in (n + 1)..l /\ y # c
    BY <1>6, <1>17, <1>21
  <2>2. PICK i \in DOMAIN runtime :
          runtime[i].msg = m /\ runtime[i].named /\ runtime[i].text = <<y>>
    BY <1>2, <2>1 DEF HeardUpTo
  <2>3. i # 1
    BY <1>6, <1>17, <1>19, <2>1, <2>2
  <2>4. QED BY <1>19, <2>2, <2>3
<1>22. Got(m)' = Count(c) /\ Got(m)' # <<>>
  BY <1>16, <1>17, <1>18, CountIs
<1>23. Has("delta", m)' => buffer'[m] = <<>> /\ Knows(m)'
  <2>1. Knows(m)'
    BY <1>15 DEF Knows
  <2>2. Has("delta", m)' => q # <<>>
    BY <1>13 DEF Has
  <2>3. q # <<>> => b = <<>>
    BY <1>9, <1>15
  <2>4. QED BY <1>13, <2>1, <2>2, <2>3
<1>24. mode' = "streaming" => buffer'[m] = <<>>
  BY <1>7, <1>9, <1>13, <1>15
<1>25. QED BY <1>1, <1>7, <1>18, <1>20, <1>21, <1>22, <1>23, <1>24 DEF Heard, HeardUpTo

\* The worker takes an event that has nothing to do with the turn's messages.
LEMMA AsideUndisturbed ==
  ASSUME Typed, Typed', TurnsInLine, NEW e, Takes(e), NEW u \in Turns, Undisturbed(u),
         \A m \in MessagesOf(u) : Aside(e, m) /\ (e.turn = u => Current(u)' /\ ~Forgets(m)')
  PROVE  Undisturbed(u)'
<1>1. ASSUME NEW m \in MessagesOf(u)
      PROVE  Heard(m)' /\ Finished(m)' /\ Got(m)' = Got(m) /\ e.msg # m
  <2>1. m \in Messages /\ TurnOf[m] = u /\ Heard(m) /\ Finished(m)
    BY DEF Undisturbed, MessagesOf
  <2>2. Aside(e, m) /\ (e.turn = TurnOf[m] => Current(TurnOf[m])' /\ ~Forgets(m)')
    BY <2>1
  <2>3. QED BY <2>1, <2>2, AsideStays DEF Aside
<1>2. AloneAtEnd(u)'
  <2>1. AloneAtEnd(u)
    BY DEF Undisturbed
  <2>2. QED BY <1>1, <2>1, TakesAlone
<1>3. QED BY <1>1, <1>2 DEF Undisturbed

LEMMA OtherUndisturbed ==
  ASSUME Typed, Typed', TurnsInLine, ActiveIsCurrent, NEW e, Takes(e), Handled(e),
         NEW u \in Turns, u \notin disturbed, e.turn # u, Undisturbed(u)
  PROVE  Undisturbed(u)'
<1>1. \A m \in MessagesOf(u) : Aside(e, m)
  BY HandledAside
<1>2. QED BY <1>1, AsideUndisturbed

LEMMA StartedUndisturbed ==
  ASSUME Typed, Typed', TurnsInLine, NEW e, Takes(e), HandleTurnStarted(e),
         NEW u \in Turns, u = e.turn, Undisturbed(u)
  PROVE  Undisturbed(u)'
<1>1. e \in Events /\ e.type = "turn.started"
  BY TakesAtHead DEF HandleTurnStarted
<1>2. Current(u)'
  BY <1>1, TakesTurns DEF Ends
<1>3. \A m \in MessagesOf(u) : Aside(e, m) /\ ~Forgets(m)'
  BY <1>1, StartedAside DEF MessagesOf
<1>4. QED BY <1>2, <1>3, AsideUndisturbed

\* The message of a delta is one to be finished.
LEMMA DeltaFinished ==
  ASSUME Typed, TurnsInLine, ItemsInLine, NEW e, Takes(e), HandleDelta(e), NEW m \in Messages,
         m = e.msg, Got(m)' # <<>>
  PROVE  Finished(m)'
<1>1. PICK q, u, kept : q = todo' /\ u = e.turn /\ kept = buffer[m] \o e.text
  OBVIOUS
<1>2. /\ u \in Turns /\ TurnOf[m] = u /\ e.type = "content.delta" /\ m \in known'[u]
      /\ q = <<>> \/ (DOMAIN q = {1} /\ q[1].op = "delta")
  <2>1. KeepsDelta(e, m, u, kept)
    BY <1>1, DeltaIs, TakesAtHead
  <2>2. QED BY <1>1, <2>1 DEF KeepsDelta
<1>3. \A i \in DOMAIN q : q[i].op = "delta"
  BY <1>2
<1>4. ~Forgets(m)' /\ Knows(m)'
  BY <1>1, <1>2, <1>3 DEF Forgets, Has, ForgetsTurn, ClearsThread, Knows
<1>5. Current(TurnOf[m])'
  BY <1>1, <1>2, TakesTurns DEF Ends
<1>6. 1 \in DOMAIN runtime /\ runtime[1] = e
  BY TakesAtHead
<1>7. item[m] = "live" \/ EndComes(m)
  <2>1. item[m] # "new" /\ (item[m] = "done" => EndComes(m))
    BY <1>6 DEF ItemsInLine, ItemInLine, EndComes
  <2>2. QED BY <2>1 DEF Typed
<1>8. (item[m] = "live")' \/ EndComes(m)'
  BY <1>2, <1>7, TakesEndComes DEF Takes
<1>9. QED BY <1>4, <1>5, <1>8 DEF Finished

LEMMA DeltaUndisturbed ==
  ASSUME Typed, Typed', TurnsInLine, ItemsInLine, NEW e, Takes(e), HandleDelta(e),
         NEW u \in Turns, u = e.turn, Undisturbed(u)
  PROVE  Undisturbed(u)'
<1>1. e \in Events /\ e.type = "content.delta"
  BY TakesAtHead DEF HandleDelta
<1>2. Current(u)'
  BY <1>1, TakesTurns DEF Ends
<1>3. ASSUME NEW m \in MessagesOf(u)
      PROVE  /\ Heard(m)' /\ Finished(m)'
             /\ Got(m)' = <<>> <=> Got(m) = <<>> /\ e.msg # m
  <2>1. m \in Messages /\ TurnOf[m] = u /\ Heard(m) /\ Finished(m)
    BY DEF Undisturbed, MessagesOf
  <2>2. CASE e.msg = m
    BY <2>1, <2>2, DeltaHeard, DeltaFinished
  <2>3. CASE e.msg # m
    <3>1. Aside(e, m) /\ ~Forgets(m)'
      BY <1>1, <2>1, <2>3, DeltaAside
    <3>2. QED BY <1>2, <2>1, <2>3, <3>1, AsideStays
  <2>4. QED BY <2>2, <2>3
<1>4. AloneAtEnd(u)'
  <2>1. AloneAtEnd(u)
    BY DEF Undisturbed
  <2>2. QED BY <1>3, <2>1, TakesAlone
<1>5. QED BY <1>3, <1>4 DEF Undisturbed

\* An end of the turn finishes all that is known of it.
LEMMA EndsUndisturbed ==
  ASSUME Typed, Typed', TurnsInLine, ActiveIsCurrent, NEW e, Takes(e), EndsTurn(e),
         NEW u \in Turns, u \notin disturbed, u = e.turn, Undisturbed(u)
  PROVE  Undisturbed(u)'
<1>1. PICK q : q = todo'
  OBVIOUS
<1>2. TurnOrActive(e) = u /\ e \in Events /\ u # None
  BY EndsWhom, TakesAtHead, AssistantAssumption
<1>3. /\ UNCHANGED <<known, buffer>>
      /\ Closes(q, e.thread, u, SetAtEnd(e), e.type = "session.exited")
      /\ e.type \in {"turn.completed", "turn.aborted", "session.exited", "runtime.error"}
  BY <1>1, <1>2, EndsTurnOf
<1>4. /\ \A i \in DOMAIN q : q[i].text = <<>> /\ q[i].op # "delta"
      /\ \E i \in DOMAIN q : q[i].op = "forgetTurn" /\ q[i].turn = u
      /\ \A m \in known[u] :
           /\ \E i \in DOMAIN q : q[i].op = "flush" /\ q[i].msg = m
           /\ \E i \in DOMAIN q : q[i].op = "complete" /\ q[i].msg = m
  BY <1>2, <1>3 DEF Closes, Finishes, OfTurn
<1>5. ASSUME NEW m \in MessagesOf(u)
      PROVE  Heard(m)' /\ Finished(m)' /\ Got(m)' = Got(m) /\ e.msg # m
  <2>1. m \in Messages /\ TurnOf[m] = u /\ Heard(m) /\ Finished(m) /\ m # None /\ todo = <<>>
    BY AssistantAssumption DEF Undisturbed, MessagesOf, Takes
  <2>2. e.msg # m
    BY <1>2, <1>3, <2>1 DEF Events
  <2>3. Heard(m)' /\ Got(m)' = Got(m)
    <3>1. q \in Seq(Ops)
      BY <1>3 DEF Closes, Finishes
    <3>2. Taking(q, buffer'[m], m) = <<>>
      BY <1>4, <3>1, TakingNothing
    <3>3. QED BY <1>1, <1>3, <1>4, <2>1, <2>2, <3>2, TakesHeard
  <2>4. ForgetsTurn(u)' /\ (Knows(m)' <=> Knows(m)) /\ message' = message
    BY <1>1, <1>3, <1>4 DEF ForgetsTurn, Knows, Takes
  <2>5. Finishing(m)'
    <3>1. CASE Knows(m)
      <4>1. Has("flush", m)' /\ Has("complete", m)'
        BY <1>1, <1>4, <2>1, <3>1 DEF Knows, Has
      <4>2. QED BY <4>1 DEF Finishing
    <3>2. CASE ~Knows(m)
      <4>1. buffer[m] = <<>> /\ ~message[m].streaming
        BY <2>1, <3>2, AtRestKnows
      <4>2. QED BY <1>3, <2>4, <4>1 DEF Finishing
    <3>3. QED BY <3>1, <3>2
  <2>6. Knows(m)' => Got(m)' # <<>>
    BY <2>1, <2>3, <2>4, AtRestKnows
  <2>7. QED BY <2>1, <2>2, <2>3, <2>4, <2>5, <2>6 DEF Finished
<1>6. AloneAtEnd(u)'
  <2>1. AloneAtEnd(u)
    BY DEF Undisturbed
  <2>2. QED BY <1>5, <2>1, TakesAlone
<1>7. QED BY <1>5, <1>6 DEF Undisturbed

LEMMA BothEmpty ==
  ASSUME NEW s \in Texts, NEW t \in Texts, s \o t = <<>>
  PROVE  s = <<>> /\ t = <<>>
<1>1. Len(s \o t) = Len(s) + Len(t) /\ Len(s) \in Nat /\ Len(t) \in Nat
  BY ConcatProperties, LenProperties DEF Texts
<1>2. Len(s \o t) = 0
  OBVIOUS
<1>3. QED BY <1>1, <1>2, EmptySeq DEF Texts

\* The end of an item: all of it has been heard, or nothing.
LEMMA ItemEnds ==
  ASSUME Typed, ItemsInLine, NEW e, Takes(e), e.type = "item.completed", NEW m \in Messages,
         m = e.msg, Heard(m)
  PROVE  /\ e.text = said[m] /\ said[m] # <<>>
         /\ \A i \in DOMAIN runtime' : runtime'[i].msg # m
         /\ Got(m) = said[m] \/ (Got(m) = <<>> /\ e.named)
<1>1. PICK r, l : r = runtime' /\ l = Len(said[m])
  OBVIOUS
<1>2. /\ runtime[1] = e /\ 1 \in DOMAIN runtime
      /\ \A i \in DOMAIN r :
           i \in Nat /\ i >= 1 /\ i + 1 \in DOMAIN runtime /\ runtime[i + 1] = r[i]
      /\ \A i \in DOMAIN runtime :
           i \in Nat /\ (i = 1 \/ \E j \in DOMAIN r : i = j + 1 /\ r[j] = runtime[i])
  BY <1>1, TakesEvents
<1>3. ItemInLine(m, 1) /\ said[m] = Count(l) /\ (item[m] = "new" <=> said[m] = <<>>) /\ l \in Nat
  <2>1. said[m] \in Texts
    BY DEF Typed
  <2>2. l \in Nat
    BY <1>1, <2>1, LenProperties DEF Texts
  <2>3. QED BY <1>1, <1>2, <2>2 DEF ItemsInLine
<1>4. /\ item[m] = "done" /\ e.text = said[m]
      /\ \A j \in DOMAIN runtime : j > 1 => runtime[j].msg # m
  BY <1>2, <1>3 DEF ItemInLine, EndsItem
<1>5. \A i \in DOMAIN r : r[i].msg # m
  <2>1. ASSUME NEW i \in DOMAIN r
        PROVE  r[i].msg # m
    <3>1. i + 1 \in DOMAIN runtime /\ i + 1 > 1 /\ runtime[i + 1] = r[i]
      BY <1>2
    <3>2. QED BY <1>4, <3>1
  <2>2. QED BY <2>1
<1>6. PICK n \in 0..l : HeardUpTo(m, n, l)
  BY <1>1 DEF Heard
<1>7. CASE n = l
  <2>1. Got(m) = Count(n)
    BY <1>6 DEF HeardUpTo
  <2>2. QED BY <1>1, <1>3, <1>4, <1>5, <1>7, <2>1
<1>8. CASE n # l
  <2>1. l \in (n + 1)..l /\ n + 1 \in (n + 1)..l
    BY <1>3, <1>8
  <2>2. \A k \in (n + 1)..l : e.named /\ e.text = <<k>>
    <3>1. ASSUME NEW k \in (n + 1)..l
          PROVE  e.named /\ e.text = <<k>>
      <4>1. PICK i \in DOMAIN runtime : runtime[i].msg = m /\ runtime[i].named
                                        /\ runtime[i].text = <<k>>
        BY <1>6 DEF HeardUpTo
      <4>2. i = 1
        BY <1>2, <1>5, <4>1
      <4>3. QED BY <1>2, <4>1, <4>2
    <3>2. QED BY <3>1
  <2>3. e.text = <<l>> /\ e.named
    BY <2>1, <2>2
  <2>4. Len(<<l>>) = 1
    OBVIOUS
  <2>5. l = 1 /\ n = 0
    BY <1>1, <1>3, <1>4, <1>8, <2>3, <2>4
  <2>6. Got(m) = <<>>
    BY <1>6, <2>5, CountIs DEF HeardUpTo
  <2>7. QED BY <1>1, <1>3, <1>4, <1>5, <2>3, <2>6
<1>9. QED BY <1>7, <1>8

\* Without its id, or with the whole of its text, only the item's own message is known.
KnowsAtMost(e, m, u) ==
  ~e.named \/ Got(m) = <<>> => known[u] \subseteq {m} /\ (Got(m) = <<>> => known[u] = {})

LEMMA LonelyKnows ==
  ASSUME Typed, NEW e, Takes(e), e.type = "item.completed", NEW m \in Messages, m = e.msg,
         NEW u \in Turns, u = e.turn, Undisturbed(u)
  PROVE  KnowsAtMost(e, m, u)
<1> SUFFICES ASSUME ~e.named \/ Got(m) = <<>>
             PROVE  known[u] \subseteq {m} /\ (Got(m) = <<>> => known[u] = {})
  BY DEF KnowsAtMost
<1>1. /\ runtime[1] = e /\ 1 \in DOMAIN runtime
      /\ \A i \in DOMAIN runtime : i \in Nat /\ i >= 1
  BY TakesAtHead
<1>2. Lonely(1)
  BY <1>1 DEF Lonely
<1>3. ASSUME NEW x \in known[u]
      PROVE  x = m /\ Got(m) # <<>>
  <2>1. x \in MessagesOf(u) /\ x \in Messages /\ TurnOf[x] = u /\ Knows(x) /\ todo = <<>>
    BY DEF Typed, MessagesOf, Knows, Takes
  <2>2. Got(x) # <<>> /\ (item[x] = "live" \/ EndComes(x))
    BY <2>1, AtRestKnows DEF Undisturbed
  <2>3. EndComes(x) => \E j \in DOMAIN runtime : j >= 1 /\ runtime[j].msg = x
    BY <1>1 DEF EndComes, EndsItem
  <2>4. ~NotLive(x, 1)
    BY <1>1, <2>2, <2>3 DEF NotLive
  <2>5. x = m
    BY <1>1, <1>2, <2>1, <2>4 DEF Undisturbed, AloneAtEnd
  <2>6. QED BY <2>2, <2>5
<1>4. QED BY <1>3

\* What an ended item hands on is what is still missing.
LEMMA FallbackAdds ==
  ASSUME Typed, NEW m \in Messages, NEW b, b = buffer[m], NEW f, f = message[m].text,
         NEW t \in Texts, NEW text, text = (IF f = <<>> THEN t ELSE <<>>),
         NEW q, q # <<>>, Head(q).msg = m, Head(q).op = "flush", Head(q).text = text
  PROVE  Taking(q, b, m) = IF f \o b = <<>> THEN t ELSE <<>>
<1>1. f \in Texts /\ b \in Texts /\ <<>> \in Texts
  BY GotIs DEF Texts
<1>2. Taking(q, b, m) = IF b = <<>> THEN text ELSE <<>>
  BY DEF Taking
<1>3. CASE b = <<>>
  <2>1. f \o b = f
    BY <1>1, <1>3, NothingMore
  <2>2. QED BY <1>2, <1>3, <2>1
<1>4. CASE b # <<>>
  <2>1. f \o b # <<>>
    BY <1>1, <1>4, BothEmpty
  <2>2. QED BY <1>2, <1>4, <2>1
<1>5. QED BY <1>3, <1>4

\* The three steps that finish a message.
FinishesNext(x) ==
  /\ Has("flush", x)' /\ Has("complete", x)' /\ Has("forget", x)'
  /\ \A i \in DOMAIN todo' : todo'[i].op # "delta"
  /\ Taking(todo', buffer'[x], x) =
       IF message[x].text \o buffer[x] = <<>> THEN Head(runtime).text ELSE <<>>

LEMMA ResolvedFinishes ==
  ASSUME Typed, NEW e, Takes(e), HandleItemCompleted(e), NEW x \in Messages, Resolved(e) = {x}
  PROVE  FinishesNext(x)
<1>1. PICK q, u, f, b : q = todo' /\ u = e.turn /\ f = message[x].text /\ b = buffer[x]
  OBVIOUS
<1>2. e \in Events /\ e = Head(runtime)
  BY TakesAtHead DEF Takes
<1>3. /\ buffer' = buffer
      /\ DOMAIN q = 1..3 /\ q # <<>> /\ Head(q) = q[1]
      /\ \A i \in 1..3 : q[i].msg = x
      /\ q[1].op = "flush" /\ q[2].op = "complete" /\ q[3].op = "forget"
      /\ q[1].text = IF f = <<>> THEN e.text ELSE <<>>
  BY <1>1, <1>2, ItemCompletedIs
<1>4. 1 \in DOMAIN q /\ 2 \in DOMAIN q /\ 3 \in DOMAIN q
  BY <1>3
<1>5. Has("flush", x)' /\ Has("complete", x)' /\ Has("forget", x)'
  BY <1>1, <1>3, <1>4 DEF Has
<1>6. \A i \in DOMAIN q : q[i].op # "delta"
  <2>1. \A i \in DOMAIN q : i = 1 \/ i = 2 \/ i = 3
    BY <1>3
  <2>2. QED BY <1>3, <2>1
<1>7. e.text \in Texts
  BY <1>2 DEF Events
<1>8. Head(q).msg = x /\ Head(q).op = "flush" /\ Head(q).text = IF f = <<>> THEN e.text ELSE <<>>
  BY <1>3, <1>4
<1>9. PICK t, text : t = e.text /\ text = IF f = <<>> THEN t ELSE <<>>
  OBVIOUS
<1>10. Taking(q, b, x) = IF f \o b = <<>> THEN t ELSE <<>>
  BY <1>1, <1>3, <1>7, <1>8, <1>9, FallbackAdds
<1>11. b = buffer'[x]
  BY <1>1, <1>3
<1>12. QED BY <1>1, <1>2, <1>5, <1>6, <1>9, <1>10, <1>11 DEF FinishesNext

\* The item that ends.
LEMMA EndedHeard ==
  ASSUME Typed, Typed', ItemsInLine, NEW e, Takes(e), HandleItemCompleted(e), NEW m \in Messages,
         m = e.msg, NEW u \in Turns, u = e.turn, Undisturbed(u)
  PROVE  Heard(m)' /\ Got(m)' = said[m] /\ Got(m)' # <<>> /\ (Resolved(e) # {m} => ~Knows(m))
<1>1. PICK q, r, l : q = todo' /\ r = runtime' /\ l = Len(said[m])
  OBVIOUS
<1>2. e \in Events /\ e.type = "item.completed" /\ e = Head(runtime)
  BY TakesAtHead DEF HandleItemCompleted, Takes
<1>3. TurnOf[m] = u /\ m # None /\ m \in MessagesOf(u) /\ Heard(m) /\ Finished(m) /\ todo = <<>>
  BY <1>2, AssistantAssumption DEF Events, Undisturbed, MessagesOf, Takes
<1>4. /\ e.text = said[m] /\ said[m] # <<>> /\ \A i \in DOMAIN r : r[i].msg # m
      /\ Got(m) = said[m] \/ (Got(m) = <<>> /\ e.named)
  BY <1>1, <1>2, <1>3, ItemEnds
<1>5. ~e.named \/ Got(m) = <<>> => known[u] \subseteq {m} /\ (Got(m) = <<>> => known[u] = {})
  <2>1. e.type = "item.completed"
    BY <1>2
  <2>2. KnowsAtMost(e, m, u)
    BY <2>1, LonelyKnows
  <2>3. QED BY ONLY <2>2 DEF KnowsAtMost
<1>6. /\ e.named /\ m \in known[u] => Resolved(e) = {m}
      /\ known[u] = {m} => Resolved(e) = {m}
      /\ known[u] = {} /\ e.named => Resolved(e) = {m}
      /\ Resolved(e) = {} \/ \E x \in Messages : Resolved(e) = {x}
  BY <1>2, ResolvedIs
<1>7. Resolved(e) # {m} => ~Knows(m) /\ Got(m) = said[m]
  BY <1>3, <1>4, <1>5, <1>6 DEF Knows
<1>8. buffer' = buffer /\ UNCHANGED <<said, message, mode>>
  BY <1>2, ItemCompletedIs DEF Takes
<1>9. Got(m) = Held(m) /\ (\A op : ~Has(op, m)) /\ Held(m)' = Held(m)
  BY <1>3, <1>8, AtRest DEF Held
<1>10. Held(m) \in Texts /\ said[m] \in Texts
  BY GotIs DEF Typed
<1>11. Got(m)' = Held(m)' \o Taking(q, buffer'[m], m)
  BY <1>1, GotIsNext
<1>12. Got(m)' = said[m] /\ ~Has("delta", m)'
  <2>1. CASE Resolved(e) = {m}
    <3>1. FinishesNext(m)
      BY <2>1, ResolvedFinishes
    <3>2. /\ Taking(q, buffer'[m], m) = IF Held(m) = <<>> THEN e.text ELSE <<>>
          /\ ~Has("delta", m)'
      BY <1>1, <1>2, <3>1 DEF FinishesNext, Held, Has
    <3>3. CASE Held(m) = <<>>
      <4>1. Got(m)' = <<>> \o said[m]
        BY <1>4, <1>9, <1>11, <3>2, <3>3
      <4>2. QED BY <1>10, <3>2, <4>1, NothingMore
    <3>4. CASE Held(m) # <<>>
      <4>1. Got(m)' = said[m] \o <<>>
        BY <1>4, <1>9, <1>11, <3>2, <3>4
      <4>2. QED BY <1>10, <3>2, <4>1, NothingMore
    <3>5. QED BY <3>3, <3>4
  <2>2. CASE Resolved(e) # {m}
    <3>1. \A i \in DOMAIN q : q[i].msg # m
      <4>1. CASE Resolved(e) = {}
        BY <1>1, <1>2, <4>1, ItemCompletedIs
      <4>2. CASE Resolved(e) # {}
        <5>1. PICK x \in Messages : Resolved(e) = {x}
          BY <1>6, <4>2
        <5>2. DOMAIN q = 1..3 /\ \A i \in 1..3 : q[i].msg = x
          BY <1>1, <1>2, <5>1, ItemCompletedIs
        <5>3. QED BY <2>2, <5>1, <5>2
      <4>3. QED BY <4>1, <4>2
    <3>2. q \in Seq(Ops)
      BY <1>1 DEF Typed
    <3>3. Taking(q, buffer'[m], m) = <<>>
      BY <3>1, <3>2, TakingNothing
    <3>4. Got(m)' = said[m] \o <<>>
      BY <1>7, <1>9, <1>11, <2>2, <3>3
    <3>5. ~Has("delta", m)'
      BY <1>1, <3>1 DEF Has
    <3>6. QED BY <1>10, <3>4, <3>5, NothingMore
  <2>3. QED BY <2>1, <2>2
<1>13. l \in Nat /\ said[m] = Count(l)
  <2>1. l \in Nat
    BY <1>1, <1>10, LenProperties DEF Texts
  <2>2. QED BY <1>1, <2>1 DEF ItemsInLine
<1>14. HeardUpTo(m, l, l)'
  BY <1>1, <1>4, <1>12, <1>13 DEF HeardUpTo
<1>15. mode' = "streaming" => buffer'[m] = <<>>
  BY <1>3, <1>8, <1>9 DEF Heard
<1>16. Heard(m)'
  BY <1>1, <1>8, <1>12, <1>13, <1>14, <1>15 DEF Heard
<1>17. QED BY <1>4, <1>7, <1>12, <1>16

\* The message an end goes to is finished by it.
LEMMA ResolvedFinished ==
  ASSUME Typed, TurnsInLine, NEW e, Takes(e), HandleItemCompleted(e), NEW x \in Messages,
         Resolved(e) = {x}, NEW u \in Turns, u = e.turn, TurnOf[x] = u, Got(x)' # <<>>
  PROVE  Finished(x)'
<1>1. FinishesNext(x)
  BY ResolvedFinishes
<1>2. Finishing(x)' /\ Has("forget", x)'
  BY <1>1 DEF FinishesNext, Finishing
<1>3. ~Ends(e, u)
  BY DEF HandleItemCompleted, Ends
<1>4. Current(u)'
  BY <1>3, TakesTurns
<1>5. QED BY <1>2, <1>4 DEF Finished

\* Another message is finished in the place of the one that was already.
LEMMA OtherResolved ==
  ASSUME Typed, Typed', TurnsInLine, NEW e, Takes(e), HandleItemCompleted(e), NEW x \in Messages,
         Resolved(e) = {x}, x # e.msg, Heard(x), Finished(x)
  PROVE  Heard(x)' /\ Finished(x)' /\ Got(x)' = Got(x)
<1>1. PICK u : u = e.turn
  OBVIOUS
<1>2. e \in Events /\ e.type = "item.completed" /\ buffer' = buffer /\ todo = <<>>
  BY TakesAtHead, ItemCompletedIs DEF HandleItemCompleted, Takes
<1>3. u \in Turns /\ TurnOf[x] = u /\ x \in known[u]
  BY <1>1, <1>2, ResolvedIs
<1>4. Got(x) # <<>> /\ Got(x) = message[x].text \o buffer[x]
  BY <1>2, <1>3, AtRest, AtRestKnows DEF Knows, Held
<1>5. FinishesNext(x)
  BY ResolvedFinishes
<1>6. Taking(todo', buffer'[x], x) = <<>> /\ \A i \in DOMAIN todo' : todo'[i].op # "delta"
  BY <1>4, <1>5 DEF FinishesNext
<1>7. Heard(x)' /\ Got(x)' = Got(x)
  BY <1>2, <1>6, TakesHeard
<1>8. Finished(x)'
  BY <1>1, <1>3, <1>4, <1>7, ResolvedFinished
<1>9. QED BY <1>7, <1>8

LEMMA EndedFinished ==
  ASSUME Typed, Typed', TurnsInLine, ItemsInLine, NEW e, Takes(e), HandleItemCompleted(e),
         NEW m \in Messages, m = e.msg, NEW u \in Turns, u = e.turn, Undisturbed(u)
  PROVE  Finished(m)'
<1>1. e \in Events /\ e.type = "item.completed" /\ UNCHANGED <<buffer, message>> /\ todo = <<>>
  BY TakesAtHead, ItemCompletedIs DEF HandleItemCompleted, Takes
<1>2. TurnOf[m] = u /\ m \in MessagesOf(u) /\ Finished(m)
  BY <1>1, AssistantAssumption DEF Events, Undisturbed, MessagesOf
<1>3. Got(m)' # <<>> /\ (Resolved(e) # {m} => ~Knows(m))
  BY EndedHeard
<1>4. CASE Resolved(e) = {m}
  BY <1>2, <1>3, <1>4, ResolvedFinished
<1>5. CASE Resolved(e) # {m}
  <2>1. buffer[m] = <<>> /\ ~message[m].streaming
    BY <1>1, <1>2, <1>3, <1>5, AtRestKnows
  <2>2. known'[u] = known[u] \cup Resolved(e)
    BY <1>1, ItemCompletedIs
  <2>3. m \notin Resolved(e)
    BY <1>1, <1>5, ResolvedIs
  <2>4. ~Knows(m)'
    BY <1>2, <1>3, <1>5, <2>2, <2>3 DEF Knows
  <2>5. QED BY <1>1, <2>1, <2>4 DEF Finished, Finishing
<1>6. QED BY <1>4, <1>5

LEMMA ItemCompletedUndisturbed ==
  ASSUME Typed, Typed', TurnsInLine, ItemsInLine, NEW e, Takes(e), HandleItemCompleted(e),
         NEW u \in Turns, u = e.turn, Undisturbed(u)
  PROVE  Undisturbed(u)'
<1>1. e \in Events /\ e.type = "item.completed"
  BY TakesAtHead DEF HandleItemCompleted
<1>2. Current(u)'
  BY <1>1, TakesTurns DEF Ends
<1>3. ASSUME NEW m \in MessagesOf(u)
      PROVE  /\ Heard(m)' /\ Finished(m)'
             /\ Got(m)' = <<>> <=> Got(m) = <<>> /\ e.msg # m
  <2>1. m \in Messages /\ TurnOf[m] = u /\ Heard(m) /\ Finished(m)
    BY DEF Undisturbed, MessagesOf
  <2>2. CASE e.msg = m
    BY <2>1, <2>2, EndedHeard, EndedFinished
  <2>3. CASE e.msg # m /\ m \in Resolved(e)
    <3>1. Resolved(e) = {m}
      BY <1>1, <2>3, ResolvedIs
    <3>2. QED BY <2>1, <2>3, <3>1, OtherResolved
  <2>4. CASE e.msg # m /\ m \notin Resolved(e)
    <3>1. Aside(e, m) /\ ~Forgets(m)'
      BY <1>1, <2>1, <2>4, ItemCompletedAside
    <3>2. QED BY <1>2, <2>1, <2>4, <3>1, AsideStays
  <2>5. QED BY <2>2, <2>3, <2>4
<1>4. AloneAtEnd(u)'
  <2>1. AloneAtEnd(u)
    BY DEF Undisturbed
  <2>2. QED BY <1>3, <2>1, TakesAlone
<1>5. QED BY <1>3, <1>4 DEF Undisturbed

LEMMA HandledUndisturbed ==
  ASSUME Typed, Typed', TurnsInLine, ItemsInLine, ActiveIsCurrent, NEW e, Takes(e), Handled(e),
         NEW u \in Turns, u \notin disturbed, Undisturbed(u)
  PROVE  Undisturbed(u)'
<1>1. CASE e.turn # u
  BY <1>1, OtherUndisturbed
<1>2. CASE e.turn = u
  <2>1. CASE HandleTurnStarted(e)
    BY <1>2, <2>1, StartedUndisturbed
  <2>2. CASE HandleDelta(e)
    BY <1>2, <2>2, DeltaUndisturbed
  <2>3. CASE HandleItemCompleted(e)
    BY <1>2, <2>3, ItemCompletedUndisturbed
  <2>4. CASE EndsTurn(e)
    BY <1>2, <2>4, EndsUndisturbed
  <2>5. QED BY <2>1, <2>2, <2>3, <2>4 DEF Handled
<1>3. QED BY <1>1, <1>2

\* What is said of the ends of items rests on what has been heard.
LEMMA AloneStays ==
  ASSUME Typed, NEW u \in Turns, AloneAtEnd(u), UNCHANGED <<runtime, item>>,
         \A m \in MessagesOf(u) : Got(m)' = <<>> <=> Got(m) = <<>>
  PROVE  AloneAtEnd(u)'
<1>1. SUFFICES ASSUME NEW i \in DOMAIN runtime, runtime[i].turn = u,
                      runtime[i].type = "item.completed", Lonely(i)',
                      NEW m \in MessagesOf(u), m # runtime[i].msg
               PROVE  NotLive(m, i)'
  BY DEF AloneAtEnd, MessagesOf
<1>2. runtime[i].msg \in MessagesOf(u)
  <2>1. runtime[i] \in Events
    BY ElementOfSeq DEF Typed
  <2>2. QED BY <1>1, <2>1, AssistantAssumption DEF Events, MessagesOf
<1>3. Lonely(i)
  BY <1>1, <1>2 DEF Lonely
<1>4. NotLive(m, i)
  BY <1>1, <1>3 DEF AloneAtEnd
<1>5. QED BY <1>1, <1>4 DEF NotLive

\* Heard stays so when the text is the same and no delta is being handled.
LEMMA HeardStays ==
  ASSUME NEW m \in Messages, Heard(m), UNCHANGED <<said, runtime>>, Got(m)' = Got(m),
         ~Has("delta", m)', mode' = "streaming" => buffer'[m] = <<>> \/ Has("flush", m)'
  PROVE  Heard(m)'
<1>1. PICK l : l = Len(said[m])
  OBVIOUS
<1>2. PICK n \in 0..l : HeardUpTo(m, n, l)
  BY <1>1 DEF Heard
<1>3. HeardUpTo(m, n, l)'
  BY <1>2 DEF HeardUpTo
<1>4. QED BY <1>1, <1>3 DEF Heard

LEMMA SwitchesGot ==
  ASSUME Typed, Typed', NEW e, Switches(e), NEW m \in Messages
  PROVE  /\ Got(m)' = Got(m) /\ ~Forgets(m)' /\ \A op : op # "flush" => ~Has(op, m)'
         /\ \A i \in DOMAIN todo' : todo'[i].op = "flush"
<1>1. PICK q, a : q = todo' /\ a = active[e.thread]
  OBVIOUS
<1>2. /\ todo = <<>>
      /\ e.mode # "streaming" => q = <<>>
      /\ e.mode = "streaming" => Flushes(q, a)
      /\ UNCHANGED <<message, buffer>>
  BY <1>1 DEF Switches
<1>3. \A i \in DOMAIN q : q[i].op = "flush" /\ q[i].text = <<>>
  <2>1. CASE e.mode = "streaming"
    BY <1>2, <2>1 DEF Flushes
  <2>2. CASE e.mode # "streaming"
    BY <1>2, <2>2
  <2>3. QED BY <2>1, <2>2
<1>4. q \in Seq(Ops)
  BY <1>1 DEF Typed
<1>5. Taking(q, buffer'[m], m) = <<>>
  BY <1>3, <1>4, TakingNothing
<1>6. Got(m)' = Held(m)'
  BY <1>1, <1>5, GotIsNext
<1>7. Held(m)' = Held(m)
  BY <1>2 DEF Held
<1>8. Got(m)' = Got(m)
  BY <1>2, <1>6, <1>7, AtRest
<1>9. ~Forgets(m)' /\ \A op : op # "flush" => ~Has(op, m)'
  BY <1>1, <1>3 DEF Has, Forgets, ForgetsTurn, ClearsThread
<1>10. QED BY <1>1, <1>3, <1>8, <1>9

\* A new mode: what is kept of the active turn will be flushed.
LEMMA SwitchesUndisturbed ==
  ASSUME Typed, Typed', NEW e, Switches(e), NEW u \in Turns, u \notin disturbed', Undisturbed(u)
  PROVE  Undisturbed(u)'
<1>1. PICK q, a : q = todo' /\ a = active[e.thread]
  OBVIOUS
<1>2. /\ todo = <<>> /\ mode' = e.mode
      /\ e.mode # "streaming" => q = <<>>
      /\ e.mode = "streaming" => Flushes(q, a)
      /\ \A m \in Messages : e.mode = "streaming" /\ buffer[m] # <<>> /\ TurnOf[m] # a =>
           TurnOf[m] \in disturbed'
      /\ UNCHANGED <<provider, item, said, runtime, message, known, buffer>>
  BY <1>1 DEF Switches
<1>3. \A i \in DOMAIN q : q[i].op = "flush"
  <2>1. CASE MessagesOf(u) = {}
    BY <1>1, <1>2, <2>1 DEF Flushes
  <2>2. CASE MessagesOf(u) # {}
    BY <1>1, <2>2, SwitchesGot DEF MessagesOf
  <2>3. QED BY <2>1, <2>2
<1>4. ASSUME NEW m \in MessagesOf(u)
      PROVE  Heard(m)' /\ Finished(m)' /\ Got(m)' = Got(m)
  <2>1. m \in Messages /\ TurnOf[m] = u /\ Heard(m) /\ Finished(m)
    BY DEF Undisturbed, MessagesOf
  <2>2. Got(m)' = Got(m)
    BY <2>1, SwitchesGot
  <2>3. ~Has("delta", m)' /\ ~Forgets(m)'
    BY <2>1, SwitchesGot
  <2>4. /\ \A op : ~Has(op, m)
        /\ ~ForgetsTurn(TurnOf[m])
        /\ Finishing(m) <=> buffer[m] = <<>> /\ ~message[m].streaming
        /\ ~Knows(m) => buffer[m] = <<>>
    BY <1>2, <2>1, AtRest, AtRestKnows
  <2>5. mode' = "streaming" => buffer'[m] = <<>> \/ Has("flush", m)'
    <3>1. SUFFICES ASSUME e.mode = "streaming", buffer[m] # <<>>
                   PROVE  Has("flush", m)'
      BY <1>2
    <3>2. u = a /\ u # None /\ m \in known[a]
      BY <1>2, <2>1, <2>4, <3>1, AssistantAssumption DEF Knows
    <3>3. PICK i \in DOMAIN q : q[i].msg = m
      BY <1>2, <3>1, <3>2 DEF Flushes
    <3>4. QED BY <1>1, <1>3, <3>3 DEF Has
  <2>6. Heard(m)'
    BY <1>2, <2>1, <2>2, <2>3, <2>5, HeardStays
  <2>7. ~Finishing(m)' => ~Finishing(m)
    BY <1>2, <2>4 DEF Finishing
  <2>8. /\ Knows(m)' <=> Knows(m)
        /\ EndComes(m)' <=> EndComes(m)
        /\ Current(u)' <=> Current(u)
    BY <1>2 DEF Knows, EndComes, Current
  <2>9. Finished(m)'
    BY <1>2, <2>1, <2>2, <2>3, <2>4, <2>7, <2>8 DEF Finished
  <2>10. QED BY <2>2, <2>6, <2>9
<1>5. AloneAtEnd(u)'
  <2>1. AloneAtEnd(u)
    BY DEF Undisturbed
  <2>2. QED BY <1>2, <1>4, <2>1, AloneStays
<1>6. QED BY <1>4, <1>5 DEF Undisturbed

\* A dispatch that fails for another turn.
LEMMA FailsGot ==
  ASSUME Typed, Handling, NEW s, Fails(s), NEW u \in Turns, u \notin disturbed',
         NEW m \in MessagesOf(u)
  PROVE  /\ Got(m)' = Got(m) /\ buffer'[m] = buffer[m]
         /\ (\A op : ~Has(op, m)) /\ ~ForgetsTurn(u)
<1>1. /\ todo # <<>> /\ s \in Ops /\ s = Head(todo) /\ todo[1] = s
      /\ 1 \in DOMAIN todo /\ todo' = <<>>
      /\ s.op \in {"session", "delta", "complete", "flush"}
      /\ \A x \in Messages : ~(s.op = "flush" /\ s.msg = x) => buffer'[x] = buffer[x]
      /\ s.turn # u
      /\ \A i \in DOMAIN todo : todo[i].op = "session" => ThreadOf[u] # s.thread
      /\ message' = message
  BY DEF Fails
<1>2. m \in Messages /\ TurnOf[m] = u /\ m # None /\ u # None
  BY AssistantAssumption DEF MessagesOf
<1>3. ASSUME NEW i \in DOMAIN todo, todo[i].op \in OfTurn, todo[i].turn = u
      PROVE  FALSE
  <2>1. todo[i] \in Ops
    BY ElementOfSeq DEF Typed
  <2>2. /\ todo[i].thread = s.thread /\ ThreadOf[u] = todo[i].thread
        /\ s.op \in OfTurn => s.turn = todo[i].turn
    BY <1>1, <1>2, <1>3, <2>1 DEF Handling, InOrder, Ops
  <2>3. s.op \in OfTurn \/ s.op = "session"
    BY <1>1 DEF OfTurn
  <2>4. QED BY <1>1, <1>3, <2>2, <2>3
<1>4. ASSUME NEW i \in DOMAIN todo, todo[i].msg = m
      PROVE  FALSE
  <2>1. todo[i] \in Ops
    BY ElementOfSeq DEF Typed
  <2>2. todo[i].op \in OfTurn /\ todo[i].turn = u
    BY <1>2, <1>4, <2>1 DEF Ops, OfMessage, OfTurn
  <2>3. QED BY <1>3, <2>2
<1>5. (\A op : ~Has(op, m)) /\ ~ForgetsTurn(u) /\ s.msg # m
  BY <1>1, <1>3, <1>4 DEF Has, ForgetsTurn, OfTurn
<1>6. buffer'[m] = buffer[m]
  BY <1>1, <1>2, <1>5
<1>7. Owed(m) = <<>> /\ Owed(m)' = <<>>
  BY <1>1, <1>5 DEF Owed, Taking
<1>8. Held(m)' = Held(m)
  BY <1>1, <1>6 DEF Held
<1>9. QED BY <1>5, <1>6, <1>7, <1>8 DEF Got

LEMMA FailsUndisturbed ==
  ASSUME Typed, Handling, NEW s, Fails(s), NEW u \in Turns, u \notin disturbed', Undisturbed(u)
  PROVE  Undisturbed(u)'
<1>1. todo' = <<>> /\ UNCHANGED <<provider, item, said, runtime, message, mode, known>>
  BY DEF Fails
<1>2. ASSUME NEW m \in MessagesOf(u)
      PROVE  Heard(m)' /\ Finished(m)' /\ Got(m)' = Got(m)
  <2>1. m \in Messages /\ TurnOf[m] = u /\ Heard(m) /\ Finished(m)
    BY DEF Undisturbed, MessagesOf
  <2>2. /\ Got(m)' = Got(m) /\ buffer'[m] = buffer[m]
        /\ (\A op : ~Has(op, m)) /\ ~ForgetsTurn(u)
    BY FailsGot
  <2>3. (\A op : ~Has(op, m)') /\ ~Forgets(m)'
    BY <1>1 DEF Has, Forgets, ForgetsTurn, ClearsThread
  <2>4. mode' = "streaming" => buffer'[m] = <<>>
    BY <1>1, <2>1, <2>2 DEF Heard
  <2>5. Heard(m)'
    BY <1>1, <2>1, <2>2, <2>3, <2>4, HeardStays
  <2>6. Finishing(m)' <=> Finishing(m)
    BY <1>1, <2>2, <2>3 DEF Finishing
  <2>7. /\ Knows(m)' <=> Knows(m)
        /\ EndComes(m)' <=> EndComes(m)
        /\ Current(u)' <=> Current(u)
    BY <1>1 DEF Knows, EndComes, Current
  <2>8. Finished(m)'
    BY <1>1, <2>1, <2>2, <2>3, <2>6, <2>7 DEF Finished
  <2>9. QED BY <2>2, <2>5, <2>8
<1>3. AloneAtEnd(u)'
  <2>1. AloneAtEnd(u)
    BY DEF Undisturbed
  <2>2. QED BY <1>1, <1>2, <2>1, AloneStays
<1>4. QED BY <1>2, <1>3 DEF Undisturbed

\* What a step leaves of the text of a message.
Leaves(s, m) ==
  \/ /\ s.op = "delta" /\ s.msg = m
     /\ message'[m].text = message[m].text \o s.text /\ buffer'[m] = buffer[m]
  \/ /\ s.op = "flush" /\ s.msg = m /\ buffer'[m] = <<>>
     /\ message'[m].text = message[m].text \o (IF buffer[m] # <<>> THEN buffer[m] ELSE s.text)
  \/ /\ s.op = "complete" /\ s.msg = m
     /\ message'[m] = [text |-> message[m].text, streaming |-> FALSE] /\ buffer'[m] = buffer[m]
  \/ /\ s.op = "clear" /\ s.thread = ThreadOfMessage(m)
     /\ message'[m] = message[m] /\ (buffer'[m] = buffer[m] \/ buffer'[m] = <<>>)
  \/ /\ s.op \in {"delta", "flush", "complete"} => s.msg # m
     /\ s.op = "clear" => s.thread # ThreadOfMessage(m)
     /\ message'[m] = message[m] /\ buffer'[m] = buffer[m]

LEMMA DoesLeaves ==
  ASSUME Typed, NEW s, Does(s), NEW m \in Messages
  PROVE  Leaves(s, m)
<1>1. s \in Ops
  BY DEF Does
<1>2. /\ s.op \in {"session", "delta", "flush", "complete", "forget", "forgetTurn", "clear"}
      /\ s.op \in {"delta", "flush", "complete", "forget"} => s.msg \in Messages
      /\ s.text \in Texts
  BY <1>1, OpIs
<1>3. /\ message[m] \in [text : Texts, streaming : BOOLEAN] /\ buffer[m] \in Texts
      /\ message \in [Messages -> [text : Texts, streaming : BOOLEAN]]
      /\ buffer \in [Messages -> Texts]
  BY DEF Typed
<1>4. CASE s.op \in {"session", "forget", "forgetTurn"}
  <2>1. UNCHANGED <<message, buffer>>
    BY <1>4 DEF Does
  <2>2. QED BY <1>4, <2>1 DEF Leaves
<1>5. CASE s.op = "delta"
  <2>1. message' = Appended(s.msg, s.text) /\ buffer' = buffer
    BY <1>5 DEF Does
  <2>2. CASE s.msg = m
    BY <1>2, <1>3, <1>5, <2>1, <2>2 DEF Appended, Leaves
  <2>3. CASE s.msg # m
    BY <1>2, <1>3, <1>5, <2>1, <2>3 DEF Appended, Leaves
  <2>4. QED BY <2>2, <2>3
<1>6. CASE s.op = "flush"
  <2>1. /\ message' = IF Taken(s) = <<>> THEN message ELSE Appended(s.msg, Taken(s))
        /\ buffer' = [buffer EXCEPT ![s.msg] = <<>>]
    BY <1>6 DEF Does
  <2>2. CASE s.msg = m
    <3>1. PICK t, f : t = Taken(s) /\ f = message[m].text
      OBVIOUS
    <3>2. t = (IF buffer[m] # <<>> THEN buffer[m] ELSE s.text) /\ buffer'[m] = <<>> /\ f \in Texts
      BY <1>3, <2>1, <2>2, <3>1 DEF Taken
    <3>3. message'[m].text = IF t = <<>> THEN f ELSE f \o t
      BY <1>3, <2>1, <2>2, <3>1 DEF Appended
    <3>4. f \o <<>> = f
      BY <3>2, NothingMore
    <3>5. message'[m].text = f \o t
      BY <3>3, <3>4
    <3>6. QED BY <1>6, <2>2, <3>1, <3>2, <3>5 DEF Leaves
  <2>3. CASE s.msg # m
    <3>1. message'[m] = message[m] /\ buffer'[m] = buffer[m]
      BY <1>2, <1>3, <1>6, <2>1, <2>3 DEF Appended
    <3>2. QED BY <1>6, <2>3, <3>1 DEF Leaves
  <2>4. QED BY <2>2, <2>3
<1>7. CASE s.op = "complete"
  <2>1. message' = [message EXCEPT ![s.msg].streaming = FALSE] /\ buffer' = buffer
    BY <1>7 DEF Does
  <2>2. CASE s.msg = m
    <3>1. message'[m] = [message[m] EXCEPT !.streaming = FALSE]
      BY <1>3, <2>1, <2>2
    <3>2. message'[m] = [text |-> message[m].text, streaming |-> FALSE]
      BY <1>3, <3>1
    <3>3. QED BY <1>7, <2>1, <2>2, <3>2 DEF Leaves
  <2>3. CASE s.msg # m
    <3>1. message'[m] = message[m]
      BY <1>3, <2>1, <2>3
    <3>2. QED BY <1>7, <2>1, <2>3, <3>1 DEF Leaves
  <2>4. QED BY <2>2, <2>3
<1>8. CASE s.op = "clear"
  <2>1. /\ buffer' = [x \in Messages |->
             IF \E turn \in Turns : ThreadOf[turn] = s.thread /\ x \in known[turn]
             THEN <<>> ELSE buffer[x]]
        /\ message' = message
    BY <1>8 DEF Does
  <2>2. CASE s.thread = ThreadOfMessage(m)
    BY <1>8, <2>1, <2>2 DEF Leaves
  <2>3. CASE s.thread # ThreadOfMessage(m)
    <3>1. \A turn \in Turns : m \in known[turn] => TurnOf[m] = turn
      BY DEF Typed
    <3>2. buffer'[m] = buffer[m]
      BY <2>1, <2>3, <3>1 DEF ThreadOfMessage
    <3>3. QED BY <1>8, <2>1, <2>3, <3>2 DEF Leaves
  <2>4. QED BY <2>2, <2>3
<1>9. QED BY <1>2, <1>4, <1>5, <1>6, <1>7, <1>8

\* A step of the handler changes nothing of what has been heard.
LEMMA DoesGot ==
  ASSUME Typed, Typed', Handling, NEW s, Does(s), NEW m \in Messages, Heard(m), Finished(m)
  PROVE  /\ Got(m)' = Got(m)
         /\ buffer'[m] = buffer[m] \/ buffer'[m] = <<>>
<1>1. PICK f, b, w, g, q :
        f = message[m].text /\ b = buffer[m] /\ w = Owed(m) /\ g = message'[m].text /\ q = todo'
  OBVIOUS
<1>2. f \in Texts /\ b \in Texts /\ g \in Texts /\ s \in Ops /\ s.text \in Texts /\ q \in Seq(Ops)
  <2>1. s \in Ops
    BY DEF Does
  <2>2. s.text \in Texts
    BY <2>1, OpIs
  <2>3. QED BY <1>1, <2>1, <2>2, GotIs, GotIsNext DEF Typed
<1>3. todo # <<>> /\ s = Head(todo) /\ 1 \in DOMAIN todo /\ todo[1] = s
  BY DoesTodo DEF Does
<1>4. w = IF s.msg = m /\ (s.op = "flush" => b = <<>>) THEN s.text ELSE <<>>
  BY <1>1, <1>3 DEF Owed, Taking
<1>5. Got(m) = (f \o b) \o w
  BY <1>1 DEF Got, Held
<1>6. Got(m)' = g \o buffer'[m]
  <2>1. \A i \in DOMAIN q : q[i].text = <<>>
    BY <1>1, DoesHandling
  <2>2. Taking(q, buffer'[m], m) = <<>>
    BY <1>2, <2>1, TakingNothing
  <2>3. QED BY <1>1, <2>2, GotIsNext
<1>7. Leaves(s, m)
  BY DoesLeaves
<1>8. m # None
  BY AssistantAssumption
<1>9. CASE s.op = "delta" /\ s.msg = m /\ g = f \o s.text /\ buffer'[m] = buffer[m]
  <2>1. b = <<>>
    BY <1>1, <1>3, <1>9 DEF Heard, Has
  <2>2. PICK t : t = s.text
    OBVIOUS
  <2>3. f \o b = f /\ w = t
    BY <1>2, <1>4, <1>9, <2>1, <2>2, NothingMore
  <2>4. Got(m) = f \o t /\ Got(m)' = (f \o t) \o <<>> /\ t \in Texts
    BY <1>1, <1>2, <1>5, <1>6, <1>9, <2>1, <2>2, <2>3
  <2>5. f \o t \in Texts
    BY <1>2, <2>4, ConcatProperties DEF Texts
  <2>6. (f \o t) \o <<>> = f \o t
    BY ONLY <2>5, NothingMore
  <2>7. QED BY <1>9, <2>4, <2>6
<1>10. CASE /\ s.op = "flush" /\ s.msg = m /\ buffer'[m] = <<>>
            /\ g = f \o (IF b # <<>> THEN b ELSE s.text)
  <2>1. PICK t : t = s.text
    OBVIOUS
  <2>2. Got(m)' = g
    BY <1>2, <1>6, <1>10, NothingMore
  <2>3. CASE b # <<>>
    <3>1. g = f \o b /\ w = <<>>
      BY <1>4, <1>10, <2>3
    <3>2. g \o <<>> = g
      BY <1>2, NothingMore
    <3>3. QED BY <1>5, <1>10, <2>2, <3>1, <3>2
  <2>4. CASE b = <<>>
    <3>1. g = f \o t /\ w = t
      BY <1>4, <1>10, <2>1, <2>4
    <3>2. f \o b = f
      BY <1>2, <2>4, NothingMore
    <3>3. QED BY <1>5, <1>10, <2>2, <3>1, <3>2
  <2>5. QED BY <2>3, <2>4
<1>11. CASE g = f /\ buffer'[m] = b /\ (s.msg # m \/ s.op = "complete")
  <2>1. s.op = "complete" => s.text = <<>>
    BY <1>2, OpIs
  <2>2. w = <<>>
    BY <1>4, <1>11, <2>1
  <2>3. f \o b \in Texts
    BY <1>2, ConcatProperties DEF Texts
  <2>4. (f \o b) \o <<>> = f \o b
    BY ONLY <2>3, NothingMore
  <2>5. QED BY <1>1, <1>5, <1>6, <1>11, <2>2, <2>4
<1>12. CASE s.op = "forget" /\ g = f /\ buffer'[m] = b
  <2>1. s.text = <<>>
    BY <1>2, <1>12, OpIs
  <2>2. w = <<>>
    BY <1>4, <2>1
  <2>3. f \o b \in Texts
    BY <1>2, ConcatProperties DEF Texts
  <2>4. (f \o b) \o <<>> = f \o b
    BY ONLY <2>3, NothingMore
  <2>5. QED BY <1>1, <1>5, <1>6, <1>12, <2>2, <2>4
<1>13. CASE /\ s.op = "clear" /\ s.thread = ThreadOfMessage(m) /\ g = f
            /\ buffer'[m] = b \/ buffer'[m] = <<>>
  <2>1. ClearsThread(ThreadOfMessage(m))
    BY <1>3, <1>13 DEF ClearsThread
  <2>2. Finishing(m)
    BY <2>1 DEF Finished, Forgets
  <2>3. ~Has("flush", m)
    <3>1. ASSUME NEW j \in DOMAIN todo, todo[j].op = "flush"
          PROVE  FALSE
      <4>1. j \in Nat /\ j >= 1
        BY DEF Typed
      <4>2. j # 1
        BY <1>3, <1>13, <3>1
      <4>3. QED BY <1>3, <1>13, <3>1, <4>1, <4>2 DEF Handling, InOrder
    <3>2. QED BY <3>1 DEF Has
  <2>4. b = <<>> /\ buffer'[m] = b
    BY <1>1, <1>13, <2>2, <2>3 DEF Finishing
  <2>5. s.msg # m
    BY <1>2, <1>8, <1>13, OpIs
  <2>6. QED BY <1>11, <1>13, <2>4, <2>5
<1>14. s.op \notin {"delta", "flush", "complete", "forget"} => s.msg # m
  BY <1>2, <1>8, OpIs
<1>15. CASE /\ s.op = "complete" /\ s.msg = m
            /\ message'[m] = [text |-> message[m].text, streaming |-> FALSE] /\ buffer'[m] = b
  <2>1. g = f
    BY <1>1, <1>15
  <2>2. QED BY <1>11, <1>15, <2>1
<1>16. CASE /\ s.op \in {"delta", "flush", "complete"} => s.msg # m
            /\ message'[m] = message[m] /\ buffer'[m] = b
  <2>1. g = f
    BY <1>1, <1>16
  <2>2. CASE s.op = "forget"
    BY <1>12, <1>16, <2>1, <2>2
  <2>3. CASE s.op # "forget"
    <3>1. s.msg # m
      BY <1>14, <1>16, <2>3
    <3>2. QED BY <1>11, <1>16, <2>1, <3>1
  <2>4. QED BY <2>2, <2>3
<1>17. CASE /\ s.op = "clear" /\ s.thread = ThreadOfMessage(m)
            /\ message'[m] = message[m] /\ (buffer'[m] = b \/ buffer'[m] = <<>>)
  <2>1. g = f
    BY <1>1, <1>17
  <2>2. QED BY <1>13, <1>17, <2>1
<1>18. /\ message[m].text = f /\ buffer[m] = b /\ message'[m].text = g
  BY <1>1
<1>19. QED BY ONLY <1>7, <1>9, <1>10, <1>15, <1>16, <1>17, <1>18 DEF Leaves

\* What was to be flushed is flushed.
LEMMA DoesKept ==
  ASSUME Typed, Typed', Handling, NEW s, Does(s), NEW m \in Messages, Heard(m), Finished(m),
         buffer[m] = <<>> \/ Has("flush", m)
  PROVE  buffer'[m] = <<>> \/ Has("flush", m)'
<1>1. buffer'[m] = buffer[m] \/ buffer'[m] = <<>>
  BY DoesGot
<1>2. CASE buffer[m] = <<>>
  BY <1>1, <1>2
<1>3. CASE Has("flush", m)
  <2>1. Has("flush", m)' \/ (s.op = "flush" /\ s.msg = m)
    BY <1>3, DoesHas
  <2>2. s.op = "flush" /\ s.msg = m => buffer'[m] = <<>>
    BY DoesLeaves DEF Leaves
  <2>3. QED BY <2>1, <2>2
<1>4. QED BY <1>2, <1>3

LEMMA DoesHeard ==
  ASSUME Typed, Typed', Handling, NEW s, Does(s), NEW m \in Messages, Heard(m), Finished(m)
  PROVE  Heard(m)'
<1>1. Got(m)' = Got(m)
  BY DoesGot
<1>2. UNCHANGED <<said, runtime, mode>>
  BY DEF Does
<1>3. ~Has("delta", m)'
  <2>1. ASSUME NEW i \in DOMAIN todo', todo'[i].op = "delta"
        PROVE  FALSE
    <3>1. PICK k, q : k = i + 1 /\ q = todo
      OBVIOUS
    <3>2. k \in DOMAIN q /\ q[k].op = "delta" /\ 1 \in DOMAIN q /\ k > 1
      BY <2>1, <3>1, DoesTodo
    <3>3. QED BY <3>1, <3>2 DEF Handling, InOrder
  <2>2. QED BY <2>1 DEF Has
<1>4. mode' = "streaming" => buffer'[m] = <<>> \/ Has("flush", m)'
  BY <1>2, DoesKept DEF Heard
<1>5. QED BY <1>1, <1>2, <1>3, <1>4, HeardStays

\* A message that is not finished stays known.
LEMMA DoesFinishing ==
  ASSUME Typed, Typed', Handling, NEW s, Does(s), NEW m \in Messages, Heard(m), Finished(m),
         ~Finishing(m)'
  PROVE  Knows(m)' /\ ~Forgets(m)'
<1>1. s \in Ops /\ 1 \in DOMAIN todo /\ todo[1] = s
  BY DoesTodo DEF Does
<1>2. CASE Knows(m) /\ ~Forgets(m)
  <2>1. ~Drops(s, m)
    BY <1>1, <1>2 DEF Drops, Forgets, Has, ForgetsTurn, ClearsThread
  <2>2. QED BY <1>2, <2>1, DoesKnows, DoesHas
<1>3. CASE Finishing(m)
  <2>1. buffer'[m] = <<>> \/ Has("flush", m)'
    BY <1>3, DoesKept DEF Finishing
  <2>2. message'[m].streaming /\ ~Has("complete", m)'
    BY <2>1 DEF Finishing
  <2>3. ~message[m].streaming \/ Has("complete", m)
    BY <1>3 DEF Finishing
  <2>4. Has("complete", m) => Has("complete", m)' \/ (s.op = "complete" /\ s.msg = m)
    BY DoesHas
  <2>5. Leaves(s, m)
    BY DoesLeaves
  <2>6. s.op \in {"delta", "flush"} /\ s.msg = m
    <3>1. CASE message'[m] = message[m]
      <4>1. s.op = "complete" /\ s.msg = m
        BY <2>2, <2>3, <2>4, <3>1
      <4>2. message'[m].streaming = FALSE
        BY <2>5, <4>1 DEF Leaves
      <4>3. QED BY <2>2, <4>2
    <3>2. CASE message'[m] = [text |-> message[m].text, streaming |-> FALSE]
      <4>1. message'[m].streaming = FALSE
        BY <3>2
      <4>2. QED BY <2>2, <4>1
    <3>3. QED BY <2>5, <3>1, <3>2 DEF Leaves
  <2>7. CASE s.op = "delta"
    <3>1. Knows(m)
      BY <1>1, <2>6, <2>7 DEF Heard, Has
    <3>2. \A i \in DOMAIN todo : i = 1
      BY <1>1, <2>7 DEF Handling, InOrder
    <3>3. ~Forgets(m)
      BY <1>1, <2>7, <3>2 DEF Forgets, Has, ForgetsTurn, ClearsThread
    <3>4. QED BY <1>2, <3>1, <3>3
  <2>8. CASE s.op = "flush"
    <3>1. ~(\E j \in DOMAIN todo : j > 1 /\ todo[j].op = "complete" /\ todo[j].msg = m)
      <4>1. SUFFICES ASSUME NEW j \in DOMAIN todo, todo[j].op = "complete", todo[j].msg = m
                     PROVE  FALSE
        OBVIOUS
      <4>2. Has("complete", m)
        BY <4>1 DEF Has
      <4>3. QED BY <2>2, <2>4, <2>8, <4>2
    <3>2. Knows(m) /\ ~Forgets(m)
      BY <1>1, <2>6, <2>8, <3>1 DEF Handling
    <3>3. QED BY <1>2, <3>2
  <2>9. QED BY <2>6, <2>7, <2>8
<1>4. QED BY <1>2, <1>3 DEF Finished

LEMMA DoesFinished ==
  ASSUME Typed, Typed', Handling, NEW s, Does(s), NEW m \in Messages, Heard(m), Finished(m)
  PROVE  Finished(m)'
<1>1. Got(m)' = Got(m)
  BY DoesGot
<1>2. ~Finishing(m)' => Knows(m)' /\ ~Forgets(m)'
  BY DoesFinishing
<1>3. TurnOf[m] \in Turns
  BY AssistantAssumption
<1>4. UNCHANGED <<provider, item, runtime>>
  BY DEF Does
<1>5. /\ EndComes(m)' <=> EndComes(m)
      /\ Current(TurnOf[m])' <=> Current(TurnOf[m])
  BY <1>4 DEF EndComes, Current
<1>6. /\ Knows(m)' <=> Knows(m) /\ ~Drops(s, m)
      /\ Has("forget", m) => Has("forget", m)' \/ (s.op = "forget" /\ s.msg = m)
      /\ ForgetsTurn(TurnOf[m]) => ForgetsTurn(TurnOf[m])'
                                   \/ (s.op = "forgetTurn" /\ s.turn = TurnOf[m])
  BY <1>3, DoesKnows, DoesHas
<1>7. QED BY <1>1, <1>2, <1>4, <1>5, <1>6 DEF Finished, Drops

LEMMA DoesUndisturbed ==
  ASSUME Typed, Typed', Handling, NEW s, Does(s), NEW u \in Turns, Undisturbed(u)
  PROVE  Undisturbed(u)'
<1>1. ASSUME NEW m \in MessagesOf(u)
      PROVE  Heard(m)' /\ Finished(m)' /\ Got(m)' = Got(m)
  <2>1. m \in Messages /\ Heard(m) /\ Finished(m)
    BY DEF Undisturbed, MessagesOf
  <2>2. QED BY <2>1, DoesHeard, DoesFinished, DoesGot
<1>2. AloneAtEnd(u)'
  <2>1. AloneAtEnd(u) /\ UNCHANGED <<runtime, item>>
    BY DEF Undisturbed, Does
  <2>2. QED BY <1>1, <2>1, AloneStays
<1>3. QED BY <1>1, <1>2 DEF Undisturbed

-----------------------------------------------------------------------------
(* Completed once                                                          *)

LEMMA SendsBegun ==
  ASSUME Typed, NEW e, Sends(e), NEW u \in Turns, Begun(u)
  PROVE  Begun(u)'
<1>1. PICK r, c : r = runtime' /\ c = Len(runtime) + 1
  OBVIOUS
<1>2. /\ r[c] = e
      /\ \A i \in DOMAIN runtime : i \in DOMAIN r /\ r[i] = runtime[i]
      /\ \A i \in DOMAIN r : i \in DOMAIN runtime \/ i = c
  BY <1>1, SendsAtEnd
<1>3. provider'[u] # "new" /\ ~Starts(e, u)
  BY SendsTurns DEF Begun
<1>4. QED BY <1>1, <1>2, <1>3 DEF Begun

LEMMA SendsGone ==
  ASSUME Typed, ItemsInLine, NEW e, Sends(e), NEW m \in Messages, Gone(m)
  PROVE  Gone(m)'
<1>1. TurnOf[m] \in Turns
  BY AssistantAssumption
<1>2. CASE ~Current(TurnOf[m])
  BY <1>1, <1>2, SendsCurrent DEF Gone
<1>3. CASE item[m] = "done" /\ ~EndComes(m)
  <2>1. PICK r, c, l, k : r = runtime' /\ c = Len(runtime) + 1
                          /\ l = Len(said[m]) /\ k = Len(said'[m])
    OBVIOUS
  <2>2. /\ r[c] = e
        /\ \A i \in DOMAIN runtime : i \in DOMAIN r /\ r[i] = runtime[i]
        /\ \A i \in DOMAIN r : i \in DOMAIN runtime \/ i = c
    BY <2>1, SendsAtEnd
  <2>3. Said(e, m, l, k)
    BY <2>1, SendsItems
  <2>4. e.msg # m /\ item'[m] = item[m]
    BY ONLY <1>3, <2>3 DEF Said
  <2>5. ~EndComes(m)'
    BY <1>3, <2>1, <2>2, <2>4 DEF EndComes, EndsItem
  <2>6. QED BY <1>3, <2>4, <2>5 DEF Gone
<1>4. QED BY <1>2, <1>3 DEF Gone

LEMMA SendsSingle ==
  ASSUME Typed, ItemsInLine, NEW e, Sends(e), NEW m \in Messages, Single(m)
  PROVE  Single(m)'
<1>1. TurnOf[m] \in Turns
  BY AssistantAssumption
<1>2. /\ Got(m)' = Got(m) /\ (Knows(m)' <=> Knows(m)) /\ (Forgets(m)' <=> Forgets(m))
      /\ Has("complete", m)' <=> Has("complete", m)
      /\ completions' = completions
  <2>1. completions' = completions
    BY DEF Sends
  <2>2. QED BY <2>1, SendsSame
<1>3. Current(TurnOf[m])' <=> Current(TurnOf[m])
  BY <1>1, SendsCurrent
<1>4. Gone(m) => Gone(m)'
  BY SendsGone
<1>5. Begun(TurnOf[m]) => Begun(TurnOf[m])'
  BY <1>1, SendsBegun
<1>6. QED BY <1>2, <1>3, <1>4, <1>5 DEF Single

\* The worker takes an event.
LEMMA TakesBegun ==
  ASSUME Typed, NEW e, Takes(e), NEW u \in Turns, Begun(u)
  PROVE  Begun(u)' /\ ~Starts(e, u)
<1>1. PICK r : r = runtime'
  OBVIOUS
<1>2. /\ 1 \in DOMAIN runtime /\ runtime[1] = e
      /\ \A i \in DOMAIN r : i + 1 \in DOMAIN runtime /\ runtime[i + 1] = r[i]
  BY <1>1, TakesEvents
<1>3. provider' = provider
  BY DEF Takes
<1>4. QED BY <1>1, <1>2, <1>3 DEF Begun

LEMMA TakesGone ==
  ASSUME Typed, TurnsInLine, NEW e, Takes(e), NEW m \in Messages, ~Starts(e, TurnOf[m])
  PROVE  /\ Gone(m) => Gone(m)'
         /\ Current(TurnOf[m])' => Current(TurnOf[m])
<1>1. PICK u, r : u = TurnOf[m] /\ r = runtime'
  OBVIOUS
<1>2. u \in Turns
  BY <1>1, AssistantAssumption
<1>3. Current(u)' => Current(u)
  <2>1. CASE e.turn = u
    BY <1>1, <1>2, <2>1, TakesTurns
  <2>2. CASE e.turn # u
    BY <1>2, <2>2, TakesTurns
  <2>3. QED BY <2>1, <2>2
<1>4. EndComes(m)' => EndComes(m)
  <2>1. \A i \in DOMAIN r : i + 1 \in DOMAIN runtime /\ runtime[i + 1] = r[i]
    BY <1>1, TakesEvents
  <2>2. QED BY <1>1, <2>1 DEF EndComes
<1>5. item' = item
  BY DEF Takes
<1>6. QED BY <1>1, <1>3, <1>4, <1>5 DEF Gone

\* Between two handlers a message that has been completed is not known.
LEMMA AtRestSingle ==
  ASSUME Typed, todo = <<>>, NEW m \in Messages, Single(m)
  PROVE  /\ completions[m] > 0 => ~Knows(m) /\ Gone(m) /\ Begun(TurnOf[m])
         /\ completions[m] \in Nat /\ completions[m] <= 1
         /\ Got(m) # <<>> => Begun(TurnOf[m])
<1>1. ~Forgets(m)
  BY AtRest
<1>2. completions[m] \in Nat
  BY DEF Typed
<1>3. QED BY <1>1, <1>2 DEF Single

LEMMA AsideSingle ==
  ASSUME Typed, Typed', TurnsInLine, NEW e, Takes(e), NEW m \in Messages, Single(m),
         Aside(e, m), Got(m)' = Got(m), e.turn = TurnOf[m] => ~Forgets(m)'
  PROVE  Single(m)'
<1>1. PICK u : u = TurnOf[m]
  OBVIOUS
<1>2. u \in Turns /\ todo = <<>> /\ completions' = completions
  BY <1>1, AssistantAssumption DEF Takes
<1>3. ~Has("complete", m)' /\ (Knows(m)' <=> Knows(m))
  BY DEF Aside, Has
<1>4. /\ completions[m] > 0 => ~Knows(m) /\ Gone(m) /\ Begun(u)
      /\ completions[m] \in Nat /\ completions[m] <= 1
      /\ Got(m) # <<>> => Begun(u)
  BY <1>1, <1>2, AtRestSingle
<1>5. Begun(u) => Begun(u)' /\ ~Starts(e, u)
  BY <1>2, TakesBegun
<1>6. ~Starts(e, u) => (Gone(m) => Gone(m)') /\ (Current(u)' => Current(u))
  BY <1>1, TakesGone
<1>7. Current(u)' /\ Got(m)' # <<>> /\ ~Gone(m)' => Knows(m)'
  BY <1>1, <1>3, <1>4, <1>5, <1>6 DEF Single
<1>8. Forgets(m)' => Gone(m)'
  <2>1. SUFFICES ASSUME Forgets(m)'
                 PROVE  Gone(m)'
    OBVIOUS
  <2>2. e.turn # u /\ ThreadOf[u] = e.thread
    BY <1>1, <2>1 DEF Aside, ThreadOfMessage
  <2>3. ~Current(u)'
    BY <1>2, <2>2, TakesTurns
  <2>4. QED BY <1>1, <2>3 DEF Gone
<1>9. completions[m] > 0 => Gone(m)'
  BY <1>4, <1>5, <1>6
<1>10. Got(m)' # <<>> \/ completions[m] > 0 => Begun(u)'
  BY <1>4, <1>5
<1>11. QED BY <1>1, <1>2, <1>3, <1>4, <1>7, <1>8, <1>9, <1>10 DEF Single

\* An item whose end is on its way is not gone while its turn is current.
LEMMA NotGone ==
  ASSUME Typed, TurnsInLine, ItemsInLine, NEW e, Takes(e), NEW m \in Messages, m = e.msg,
         NEW u \in Turns, u = e.turn, TurnOf[m] = u
  PROVE  ~Gone(m) /\ Current(u)
<1>1. /\ 1 \in DOMAIN runtime /\ runtime[1] = e /\ e \in Events
  BY TakesAtHead
<1>2. m # None
  BY AssistantAssumption
<1>3. e.type \in {"content.delta", "item.completed"}
  BY <1>1, <1>2 DEF Events
<1>4. Current(u)
  BY <1>3, TakesTurns DEF Starts
<1>5. item[m] = "done" => EndComes(m)
  BY <1>1 DEF ItemsInLine, ItemInLine, EndComes
<1>6. QED BY <1>4, <1>5 DEF Gone

LEMMA DeltaSingle ==
  ASSUME Typed, TurnsInLine, ItemsInLine, NEW e, Takes(e), HandleDelta(e), NEW m \in Messages,
         m = e.msg, Single(m)
  PROVE  Single(m)'
<1>1. PICK q, u, kept : q = todo' /\ u = e.turn /\ kept = buffer[m] \o e.text
  OBVIOUS
<1>2. /\ u \in Turns /\ TurnOf[m] = u /\ e.type = "content.delta" /\ m \in known'[u]
      /\ q = <<>> \/ (DOMAIN q = {1} /\ q[1].op = "delta")
  <2>1. KeepsDelta(e, m, u, kept)
    BY <1>1, DeltaIs, TakesAtHead
  <2>2. QED BY <1>1, <2>1 DEF KeepsDelta
<1>3. \A i \in DOMAIN q : q[i].op = "delta"
  BY <1>2
<1>4. ~Forgets(m)' /\ Knows(m)' /\ ~Has("complete", m)'
  BY <1>1, <1>2, <1>3 DEF Forgets, Has, ForgetsTurn, ClearsThread, Knows
<1>5. completions[m] \in Nat /\ ~Gone(m) /\ completions' = completions
  BY <1>1, <1>2, NotGone DEF Typed, Takes
<1>6. completions'[m] = 0
  BY <1>5 DEF Single
<1>7. Current(u)'
  BY <1>1, <1>2, TakesTurns DEF Ends
<1>8. Begun(u)'
  BY <1>7 DEF Begun, Current
<1>9. QED BY <1>2, <1>4, <1>6, <1>8 DEF Single

\* Without an error the end of an item goes to its own message.
LEMMA ResolvesOwn ==
  ASSUME Typed, TurnsInLine, ItemsInLine, NEW e, Takes(e), e.type = "item.completed",
         NEW m \in Messages, m = e.msg, NEW u \in Turns, u = e.turn, Undisturbed(u), Single(m)
  PROVE  Resolved(e) = {m}
<1>1. e \in Events
  BY TakesAtHead
<1>2. TurnOf[m] = u /\ m # None /\ m \in MessagesOf(u) /\ Heard(m)
  BY <1>1, AssistantAssumption DEF Events, Undisturbed, MessagesOf
<1>3. ~Gone(m) /\ Current(u)
  BY <1>2, NotGone
<1>4. Got(m) # <<>> => m \in known[u]
  BY <1>2, <1>3 DEF Single, Knows
<1>5. /\ e.named /\ m \in known[u] => Resolved(e) = {m}
      /\ known[u] = {m} => Resolved(e) = {m}
      /\ known[u] = {} /\ e.named => Resolved(e) = {m}
  BY <1>1, ResolvedIs
<1>6. ~e.named \/ Got(m) = <<>> => known[u] \subseteq {m} /\ (Got(m) = <<>> => known[u] = {})
  <2>1. KnowsAtMost(e, m, u)
    BY LonelyKnows
  <2>2. QED BY ONLY <2>1 DEF KnowsAtMost
<1>7. Got(m) = <<>> => e.named
  <2>1. Got(m) = said[m] \/ (Got(m) = <<>> /\ e.named)
    BY <1>2, ItemEnds
  <2>2. said[m] # <<>>
    BY <1>2, ItemEnds
  <2>3. QED BY <2>1, <2>2
<1>8. CASE Got(m) = <<>>
  BY <1>5, <1>6, <1>7, <1>8
<1>9. CASE Got(m) # <<>> /\ e.named
  BY <1>4, <1>5, <1>9
<1>10. CASE Got(m) # <<>> /\ ~e.named
  BY <1>4, <1>5, <1>6, <1>10
<1>11. QED BY <1>8, <1>9, <1>10

LEMMA EndedSingle ==
  ASSUME Typed, TurnsInLine, ItemsInLine, NEW e, Takes(e), HandleItemCompleted(e),
         NEW m \in Messages, m = e.msg, NEW u \in Turns, u = e.turn, Undisturbed(u), Single(m)
  PROVE  Single(m)'
<1>1. e \in Events /\ e.type = "item.completed"
  BY TakesAtHead DEF HandleItemCompleted
<1>2. TurnOf[m] = u /\ m \in MessagesOf(u) /\ Heard(m)
  BY <1>1, AssistantAssumption DEF Events, Undisturbed, MessagesOf
<1>3. completions[m] \in Nat /\ ~Gone(m) /\ completions' = completions
  BY <1>2, NotGone DEF Typed, Takes
<1>4. completions'[m] = 0
  BY <1>3 DEF Single
<1>5. Resolved(e) = {m}
  BY <1>1, ResolvesOwn
<1>6. Forgets(m)'
  BY <1>5, ResolvedFinishes DEF FinishesNext, Forgets
<1>7. Gone(m)'
  <2>1. PICK r : r = runtime'
    OBVIOUS
  <2>2. \A i \in DOMAIN r : r[i].msg # m
    BY <1>1, <1>2, <2>1, ItemEnds
  <2>3. item'[m] = "done"
    <3>1. 1 \in DOMAIN runtime /\ runtime[1] = e
      BY TakesAtHead
    <3>2. item[m] = "done"
      BY <1>1, <3>1 DEF ItemsInLine, ItemInLine, EndsItem
    <3>3. QED BY <3>2 DEF Takes
  <2>4. QED BY <2>1, <2>2, <2>3 DEF Gone, EndComes, EndsItem
<1>8. Current(u)'
  BY <1>1, TakesTurns DEF Ends
<1>9. Begun(u)'
  BY <1>8 DEF Begun, Current
<1>10. QED BY <1>2, <1>4, <1>6, <1>7, <1>9 DEF Single

LEMMA EndsSingle ==
  ASSUME Typed, TurnsInLine, ActiveIsCurrent, NEW e, Takes(e), EndsTurn(e),
         NEW u \in Turns, u \notin disturbed, u \notin erred, u = e.turn,
         NEW m \in MessagesOf(u), Finished(m), Single(m), Got(m)' = Got(m)
  PROVE  Single(m)'
<1>1. PICK q : q = todo'
  OBVIOUS
<1>2. /\ TurnOrActive(e) = u /\ e \in Events /\ u # None
      /\ m \in Messages /\ TurnOf[m] = u /\ m # None
  BY EndsWhom, TakesAtHead, AssistantAssumption DEF MessagesOf
<1>3. /\ UNCHANGED <<known, buffer>>
      /\ Closes(q, e.thread, u, SetAtEnd(e), e.type = "session.exited")
      /\ e.type \in {"turn.completed", "turn.aborted", "session.exited", "runtime.error"}
  BY <1>1, <1>2, EndsTurnOf
<1>4. \E i \in DOMAIN q : q[i].op = "forgetTurn" /\ q[i].turn = u
  BY <1>2, <1>3 DEF Closes, Finishes, OfTurn
<1>5. Has("complete", m)' => Knows(m)
  <2>1. ASSUME NEW i \in DOMAIN q, q[i].op = "complete", q[i].msg = m
        PROVE  m \in known[u]
    BY <1>3, <2>1 DEF Closes, Finishes, OfMessage
  <2>2. QED BY <1>1, <1>2, <2>1 DEF Has, Knows
<1>6. Forgets(m)'
  BY <1>1, <1>2, <1>4 DEF Forgets, ForgetsTurn
<1>7. Gone(m)'
  <2>1. 1 \in DOMAIN runtime /\ runtime[1] = e
    BY TakesAtHead
  <2>2. e.type # "runtime.error"
    BY <2>1 DEF TurnsInLine, TurnInLine
  <2>3. Ends(e, u)
    BY <1>3, <2>2 DEF Ends
  <2>4. ~Current(u)'
    BY <2>3, TakesTurns
  <2>5. QED BY <1>2, <2>4 DEF Gone
<1>8. todo = <<>> /\ completions' = completions
  BY DEF Takes
<1>9. /\ completions[m] > 0 => ~Knows(m) /\ Begun(u)
      /\ completions[m] \in Nat /\ completions[m] <= 1
      /\ Got(m) # <<>> => Begun(u)
      /\ Knows(m) => Got(m) # <<>>
  BY <1>2, <1>8, AtRestSingle, AtRestKnows
<1>10. Begun(u) => Begun(u)'
  BY TakesBegun
<1>11. QED BY <1>2, <1>5, <1>6, <1>7, <1>8, <1>9, <1>10 DEF Single

LEMMA HandledSingle ==
  ASSUME Typed, Typed', TurnsInLine, ItemsInLine, ActiveIsCurrent, NEW e, Takes(e), Handled(e),
         NEW u \in Turns, u \notin disturbed, u \notin erred, Undisturbed(u), Undisturbed(u)',
         \A x \in MessagesOf(u) : Single(x), NEW m \in MessagesOf(u)
  PROVE  Single(m)'
<1>1. /\ e \in Events /\ m \in Messages /\ TurnOf[m] = u /\ Heard(m) /\ Finished(m) /\ m # None
      /\ Single(m)
  BY TakesAtHead, AssistantAssumption DEF Undisturbed, MessagesOf
<1>2. CASE e.turn # u
  <2>1. Aside(e, m)
    BY <1>2, HandledAside
  <2>2. Got(m)' = Got(m)
    BY <1>1, <1>2, <2>1, AsideStays
  <2>3. QED BY <1>1, <1>2, <2>1, <2>2, AsideSingle
<1>3. ASSUME e.turn = u, Aside(e, m), ~Forgets(m)', Current(u)'
      PROVE  Single(m)'
  <2>1. Got(m)' = Got(m)
    BY <1>1, <1>3, AsideStays
  <2>2. QED BY <1>1, <1>3, <2>1, AsideSingle
<1>4. CASE e.turn = u /\ HandleTurnStarted(e)
  <2>1. Aside(e, m) /\ ~Forgets(m)'
    BY <1>1, <1>4, StartedAside
  <2>2. Current(u)'
    BY <1>4, TakesTurns DEF HandleTurnStarted, Ends
  <2>3. QED BY <1>3, <1>4, <2>1, <2>2
<1>5. CASE e.turn = u /\ HandleDelta(e)
  <2>1. Current(u)'
    BY <1>5, TakesTurns DEF HandleDelta, Ends
  <2>2. CASE e.msg = m
    BY <1>1, <1>5, <2>2, DeltaSingle
  <2>3. CASE e.msg # m
    <3>1. Aside(e, m) /\ ~Forgets(m)'
      BY <1>1, <1>5, <2>3, DeltaAside
    <3>2. QED BY <1>3, <1>5, <2>1, <3>1
  <2>4. QED BY <2>2, <2>3
<1>6. CASE e.turn = u /\ HandleItemCompleted(e)
  <2>1. Current(u)' /\ e.type = "item.completed"
    BY <1>6, TakesTurns DEF HandleItemCompleted, Ends
  <2>2. CASE e.msg = m
    BY <1>1, <1>6, <2>2, EndedSingle
  <2>3. CASE e.msg # m /\ m \notin Resolved(e)
    <3>1. Aside(e, m) /\ ~Forgets(m)'
      BY <1>1, <1>6, <2>3, ItemCompletedAside
    <3>2. QED BY <1>3, <1>6, <2>1, <3>1
  <2>4. CASE e.msg # m /\ m \in Resolved(e)
    <3>1. PICK x : x = e.msg
      OBVIOUS
    <3>2. x \in Messages /\ TurnOf[x] = u
      BY <1>1, <1>6, <2>1, <3>1, ResolvedIs
    <3>3. Single(x)
      BY <3>2 DEF MessagesOf
    <3>4. Resolved(e) = {x}
      BY <1>6, <2>1, <3>1, <3>2, <3>3, ResolvesOwn
    <3>5. QED BY <2>4, <3>1, <3>4
  <2>5. QED BY <2>2, <2>3, <2>4
<1>7. CASE e.turn = u /\ EndsTurn(e)
  <2>1. PICK q : q = todo'
    OBVIOUS
  <2>2. TurnOrActive(e) = u /\ u # None
    BY <1>7, EndsWhom, AssistantAssumption
  <2>3. /\ UNCHANGED buffer
        /\ Closes(q, e.thread, u, SetAtEnd(e), e.type = "session.exited") /\ q \in Seq(Ops)
        /\ e.type \in {"turn.completed", "turn.aborted", "session.exited", "runtime.error"}
    BY <1>1, <1>7, <2>1, <2>2, EndsTurnOf
  <2>4. \A i \in DOMAIN q : q[i].text = <<>> /\ q[i].op # "delta"
    BY <2>3 DEF Closes, Finishes
  <2>5. Taking(q, buffer'[m], m) = <<>>
    BY <2>3, <2>4, TakingNothing
  <2>6. e.msg # m
    BY <1>1, <2>3 DEF Events
  <2>7. Got(m)' = Got(m)
    BY <1>1, <2>1, <2>3, <2>4, <2>5, <2>6, TakesHeard
  <2>8. QED BY <1>1, <1>7, <2>7, EndsSingle
<1>8. QED BY <1>2, <1>4, <1>5, <1>6, <1>7 DEF Handled

LEMMA SwitchesSingle ==
  ASSUME Typed, Typed', NEW e, Switches(e), NEW m \in Messages, Single(m)
  PROVE  Single(m)'
<1>1. Got(m)' = Got(m) /\ ~Forgets(m)' /\ ~Has("complete", m)'
  BY SwitchesGot
<1>2. UNCHANGED <<provider, item, runtime, known, completions>> /\ todo = <<>>
  BY DEF Switches
<1>3. ~Forgets(m) /\ ~Has("complete", m)
  BY <1>2, AtRest
<1>4. /\ Knows(m)' <=> Knows(m)
      /\ Current(TurnOf[m])' <=> Current(TurnOf[m])
      /\ Begun(TurnOf[m])' <=> Begun(TurnOf[m])
      /\ Gone(m)' <=> Gone(m)
  BY <1>2 DEF Knows, Current, Begun, Gone, EndComes
<1>5. QED BY <1>1, <1>2, <1>3, <1>4 DEF Single

LEMMA StopsSingle ==
  ASSUME NEW t, Stops(t), NEW m \in Messages, Single(m)
  PROVE  Single(m)'
<1>1. UNCHANGED <<provider, item, said, runtime, message, known, buffer, todo, completions>>
  BY DEF Stops
<1>2. /\ Got(m)' = Got(m) /\ (Knows(m)' <=> Knows(m)) /\ (Forgets(m)' <=> Forgets(m))
      /\ Has("complete", m)' <=> Has("complete", m)
  BY <1>1 DEF Got, Held, Owed, Taking, Knows, Forgets, Has, ForgetsTurn, ClearsThread
<1>3. /\ Current(TurnOf[m])' <=> Current(TurnOf[m])
      /\ Begun(TurnOf[m])' <=> Begun(TurnOf[m])
      /\ Gone(m)' <=> Gone(m)
  BY <1>1 DEF Current, Begun, Gone, EndComes
<1>4. QED BY <1>1, <1>2, <1>3 DEF Single

LEMMA DoesCompletions ==
  ASSUME Typed, NEW s, Does(s), NEW m \in Messages
  PROVE  completions'[m] = IF s.op = "complete" /\ s.msg = m THEN completions[m] + 1
                           ELSE completions[m]
<1>1. s \in Ops
  BY DEF Does
<1>2. /\ s.op \in {"session", "delta", "flush", "complete", "forget", "forgetTurn", "clear"}
      /\ s.op = "complete" => s.msg \in Messages
  BY <1>1, OpIs
<1>3. completions \in [Messages -> Nat]
  BY DEF Typed
<1>4. CASE s.op = "complete"
  <2>1. completions' = [completions EXCEPT ![s.msg] = @ + 1]
    BY <1>4 DEF Does
  <2>2. QED BY <1>2, <1>3, <1>4, <2>1
<1>5. CASE s.op # "complete"
  <2>1. completions' = completions
    BY <1>2, <1>5 DEF Does
  <2>2. QED BY <1>5, <2>1
<1>6. QED BY <1>4, <1>5

LEMMA DoesSingle ==
  ASSUME Typed, Typed', Handling, NEW s, Does(s), NEW m \in Messages,
         Heard(m), Finished(m), Single(m)
  PROVE  Single(m)'
<1>1. Got(m)' = Got(m) /\ TurnOf[m] \in Turns /\ completions[m] \in Nat
  BY DoesGot, AssistantAssumption DEF Typed
<1>2. UNCHANGED <<provider, item, runtime>>
  BY DEF Does
<1>3. /\ Current(TurnOf[m])' <=> Current(TurnOf[m])
      /\ Begun(TurnOf[m])' <=> Begun(TurnOf[m])
      /\ Gone(m)' <=> Gone(m)
  BY <1>2 DEF Current, Begun, Gone, EndComes
<1>4. 1 \in DOMAIN todo /\ todo[1] = s
  BY DoesTodo
<1>5. /\ Knows(m)' <=> Knows(m) /\ ~Drops(s, m)
      /\ Has("complete", m)' => Has("complete", m)
      /\ Forgets(m)' => Forgets(m)
      /\ Forgets(m) => Forgets(m)' \/ Drops(s, m)
  BY DoesKnows, DoesHas
<1>6. Drops(s, m) => Forgets(m)
  BY <1>4 DEF Drops, Forgets, Has, ForgetsTurn, ClearsThread
<1>7. CASE s.op = "complete" /\ s.msg = m
  <2>1. Has("complete", m)
    BY <1>4, <1>7 DEF Has
  <2>2. completions[m] = 0
    BY <2>1 DEF Single
  <2>3. completions'[m] = 1
    BY <1>7, <2>2, DoesCompletions
  <2>4. ~Has("complete", m)'
    <3>1. ASSUME NEW i \in DOMAIN todo', todo'[i].op = "complete", todo'[i].msg = m
          PROVE  FALSE
      <4>1. PICK k, q : k = i + 1 /\ q = todo
        OBVIOUS
      <4>2. k \in DOMAIN q /\ q[k].op = "complete" /\ q[k].msg = m /\ k > 1 /\ 1 \in DOMAIN q
            /\ q[1] = s
        BY <1>4, <3>1, <4>1, DoesTodo
      <4>3. QED BY <1>7, <4>1, <4>2 DEF Handling, InOrder
    <3>2. QED BY <3>1 DEF Has
  <2>5. QED BY <1>1, <1>3, <1>5, <1>6, <2>1, <2>2, <2>3, <2>4 DEF Single
<1>8. CASE ~(s.op = "complete" /\ s.msg = m)
  <2>1. completions'[m] = completions[m]
    BY <1>8, DoesCompletions
  <2>2. QED BY <1>1, <1>3, <1>5, <1>6, <2>1 DEF Single
<1>9. QED BY <1>7, <1>8

LEMMA FailsSingle ==
  ASSUME Typed, Typed', Handling, NEW s, Fails(s), NEW u \in Turns, u \notin disturbed',
         Undisturbed(u), NEW m \in MessagesOf(u), Single(m)
  PROVE  Single(m)'
<1>1. m \in Messages /\ TurnOf[m] = u /\ Finished(m)
  BY DEF Undisturbed, MessagesOf
<1>2. Got(m)' = Got(m) /\ ~ForgetsTurn(u) /\ ~Has("forget", m)
  BY FailsGot
<1>3. UNCHANGED <<provider, item, runtime, known, completions>> /\ todo' = <<>>
  BY DEF Fails
<1>4. ~Forgets(m)' /\ ~Has("complete", m)'
  BY <1>3 DEF Forgets, Has, ForgetsTurn, ClearsThread
<1>5. /\ Knows(m)' <=> Knows(m)
      /\ Current(u)' <=> Current(u)
      /\ Begun(u)' <=> Begun(u)
      /\ Gone(m)' <=> Gone(m)
  BY <1>3 DEF Knows, Current, Begun, Gone, EndComes
<1>6. Knows(m) => ~Gone(m)
  <2>1. Knows(m) => Current(u) /\ (item[m] = "live" \/ EndComes(m))
    BY <1>1, <1>2 DEF Finished
  <2>2. QED BY <1>1, <2>1 DEF Gone
<1>7. completions[m] > 0 => Gone(m)
  BY DEF Single
<1>8. QED BY <1>1, <1>2, <1>3, <1>4, <1>5, <1>6, <1>7 DEF Single

-----------------------------------------------------------------------------
(* The inductive invariant                                                 *)

IInv == Typed /\ Streamed

LEMMA InitIInv == Init => IInv
<1>1. SUFFICES ASSUME Init
               PROVE  IInv
  OBVIOUS
<1>2. Typed
  BY <1>1, InitTyped
<1>3. /\ runtime = <<>> /\ todo = <<>> /\ mode = "buffered"
      /\ DOMAIN runtime = {} /\ DOMAIN todo = {}
      /\ \A u \in Turns : provider[u] = "new" /\ known[u] = {}
      /\ \A t \in Threads : active[t] = None
      /\ \A m \in Messages : /\ item[m] = "new" /\ said[m] = <<>> /\ buffer[m] = <<>>
                             /\ message[m].text = <<>> /\ ~message[m].streaming
                             /\ completions[m] = 0
  BY <1>1 DEF Init
<1>4. \A m \in Messages : TurnOf[m] \in Turns /\ ThreadOf[TurnOf[m]] \in Threads
  BY AssistantAssumption
<1>5. TurnsInLine
  BY <1>3 DEF TurnsInLine
<1>6. Count(0) = <<>> /\ Len(<<>>) = 0
  BY CountIs
<1>7. ItemsInLine
  BY <1>3, <1>6 DEF ItemsInLine
<1>8. Handling
  BY <1>3 DEF Handling, InOrder
<1>9. ActiveIsCurrent
  <2>1. \A u \in Turns : ~Current(u) /\ active[ThreadOf[u]] = None
    BY <1>3, AssistantAssumption DEF Current
  <2>2. \A u \in Turns : \A v : Becomes(ThreadOf[u], v) => v = None
    BY <1>3, <2>1 DEF Becomes
  <2>3. QED BY <2>1, <2>2 DEF ActiveIsCurrent
<1>10. ASSUME NEW m \in Messages
       PROVE  Got(m) = <<>> /\ Heard(m) /\ Finished(m) /\ Single(m)
  <2>1. Got(m) = <<>> /\ (\A op : ~Has(op, m)) /\ ~Forgets(m)
    <3>1. <<>> \in Texts
      BY DEF Texts
    <3>2. <<>> \o <<>> = <<>>
      BY ONLY <3>1, NothingMore
    <3>3. Held(m) = <<>>
      BY <1>3, <3>2 DEF Held
    <3>4. QED BY <1>2, <1>3, <3>3, AtRest
  <2>2. HeardUpTo(m, 0, 0)
    BY <1>3, <1>6, <2>1 DEF HeardUpTo
  <2>3. Heard(m)
    BY <1>3, <1>6, <2>1, <2>2 DEF Heard
  <2>4. ~Knows(m) /\ Finishing(m)
    BY <1>3, <1>4 DEF Knows, Finishing
  <2>5. Finished(m)
    BY <2>4 DEF Finished
  <2>6. Single(m)
    BY <1>3, <2>1 DEF Single
  <2>7. QED BY <2>1, <2>3, <2>5, <2>6
<1>11. \A u \in Turns : AloneAtEnd(u)
  BY <1>3 DEF AloneAtEnd
<1>12. QED BY <1>2, <1>5, <1>7, <1>8, <1>9, <1>10, <1>11 DEF IInv, Streamed, Undisturbed, MessagesOf

\* The steps that leave the events alone.
LEMMA LinesStay ==
  ASSUME TurnsInLine, ItemsInLine, UNCHANGED <<provider, item, said, runtime, erred>>
  PROVE  TurnsInLine' /\ ItemsInLine'
<1>1. \A i \in DOMAIN runtime : \A u \in Turns : TurnInLine(u, i)'
  <2>1. SUFFICES ASSUME NEW i \in DOMAIN runtime, NEW u \in Turns
                 PROVE  TurnInLine(u, i)'
    OBVIOUS
  <2>2. TurnInLine(u, i)
    BY DEF TurnsInLine
  <2>3. QED BY <2>2 DEF TurnInLine, Apart
<1>2. \A i \in DOMAIN runtime : \A m \in Messages : ItemInLine(m, i)'
  <2>1. SUFFICES ASSUME NEW i \in DOMAIN runtime, NEW m \in Messages
                 PROVE  ItemInLine(m, i)'
    OBVIOUS
  <2>2. ItemInLine(m, i)
    BY DEF ItemsInLine
  <2>3. QED BY <2>2 DEF ItemInLine
<1>3. QED BY <1>1, <1>2 DEF TurnsInLine, ItemsInLine

\* It is enough to look at one turn at a time.
LEMMA TurnByTurn ==
  ASSUME Streamed, TurnsInLine', ItemsInLine', Handling', ActiveIsCurrent',
         disturbed \subseteq disturbed', erred \subseteq erred',
         ASSUME NEW u \in Turns, u \notin disturbed', Undisturbed(u), u \notin disturbed
         PROVE  Undisturbed(u)',
         ASSUME NEW u \in Turns, u \notin disturbed', u \notin erred', u \notin disturbed,
                u \notin erred, Undisturbed(u), Undisturbed(u)', \A m \in MessagesOf(u) : Single(m),
                NEW m \in MessagesOf(u)
         PROVE  Single(m)'
  PROVE  Streamed'
<1>1. ASSUME NEW u \in Turns, u \notin disturbed'
      PROVE  u \notin disturbed /\ Undisturbed(u) /\ Undisturbed(u)'
  BY <1>1 DEF Streamed
<1>2. ASSUME NEW u \in Turns, u \notin disturbed', u \notin erred', NEW m \in MessagesOf(u)
      PROVE  Single(m)'
  <2>1. u \notin disturbed /\ u \notin erred /\ Undisturbed(u) /\ Undisturbed(u)'
    BY <1>1, <1>2
  <2>2. \A x \in MessagesOf(u) : Single(x)
    BY <2>1 DEF Streamed
  <2>3. QED BY <1>2, <2>1, <2>2
<1>3. QED BY <1>1, <1>2 DEF Streamed, MessagesOf

LEMMA SendsStreamed ==
  ASSUME IInv, NEW e, Sends(e)
  PROVE  IInv'
<1>1. Typed /\ TurnsInLine /\ ItemsInLine /\ Handling /\ ActiveIsCurrent /\ Streamed
  BY DEF IInv, Streamed
<1>2. Typed' /\ TurnsInLine' /\ ItemsInLine' /\ Handling' /\ ActiveIsCurrent'
  BY <1>1, SendsTyped, SendsTurnsInLine, SendsItemsInLine, SendsHandling, SendsActive
<1>3. disturbed' = disturbed /\ erred \subseteq erred'
  BY DEF Sends
<1>4. ASSUME NEW u \in Turns, Undisturbed(u)
      PROVE  Undisturbed(u)'
  BY <1>1, <1>4, SendsUndisturbed
<1>5. ASSUME NEW u \in Turns, NEW m \in MessagesOf(u), Single(m)
      PROVE  Single(m)'
  BY <1>1, <1>5, SendsSingle DEF MessagesOf
<1>6. Streamed'
  BY <1>1, <1>2, <1>3, <1>4, <1>5, TurnByTurn
<1>7. QED BY <1>2, <1>6 DEF IInv

LEMMA ProcessStreamed ==
  ASSUME IInv, ProcessRuntimeEvent
  PROVE  IInv'
<1>1. Typed /\ TurnsInLine /\ ItemsInLine /\ Handling /\ ActiveIsCurrent /\ Streamed
  BY DEF IInv, Streamed
<1>2. PICK e : Takes(e) /\ Handled(e)
  BY ProcessTakes
<1>3. Typed' /\ e \in Events
  BY <1>1, <1>2, ProcessTyped, TakesAtHead
<1>4. TurnsInLine' /\ ItemsInLine' /\ Handling' /\ ActiveIsCurrent'
  BY <1>1, <1>2, <1>3, TakesTurnsInLine, TakesItemsInLine, HandledHandling, HandledActive
<1>5. disturbed' = disturbed /\ erred' = erred
  BY <1>2 DEF Takes
<1>6. ASSUME NEW u \in Turns, u \notin disturbed, Undisturbed(u)
      PROVE  Undisturbed(u)'
  BY <1>1, <1>2, <1>3, <1>6, HandledUndisturbed
<1>7. ASSUME NEW u \in Turns, u \notin disturbed, u \notin erred, Undisturbed(u), Undisturbed(u)',
             \A m \in MessagesOf(u) : Single(m), NEW m \in MessagesOf(u)
      PROVE  Single(m)'
  BY <1>1, <1>2, <1>3, <1>7, HandledSingle
<1>8. Streamed'
  BY <1>1, <1>4, <1>5, <1>6, <1>7, TurnByTurn
<1>9. QED BY <1>3, <1>8 DEF IInv

LEMMA SwitchesStreamed ==
  ASSUME IInv, ProcessDomainEvent
  PROVE  IInv'
<1>1. Typed /\ TurnsInLine /\ ItemsInLine /\ Handling /\ ActiveIsCurrent /\ Streamed
  BY DEF IInv, Streamed
<1>2. PICK e : Switches(e)
  BY <1>1, DomainSwitches
<1>3. Typed' /\ Handling' /\ ActiveIsCurrent'
  BY <1>1, <1>2, SwitchesTyped, SwitchesHandling, SwitchesActive
<1>4. UNCHANGED <<provider, item, said, runtime, erred>> /\ disturbed \subseteq disturbed'
  BY <1>2 DEF Switches
<1>5. TurnsInLine' /\ ItemsInLine'
  BY <1>1, <1>4, LinesStay
<1>6. ASSUME NEW u \in Turns, u \notin disturbed', Undisturbed(u)
      PROVE  Undisturbed(u)'
  BY <1>1, <1>2, <1>3, <1>6, SwitchesUndisturbed
<1>7. ASSUME NEW u \in Turns, NEW m \in MessagesOf(u), Single(m)
      PROVE  Single(m)'
  BY <1>1, <1>2, <1>3, <1>7, SwitchesSingle DEF MessagesOf
<1>8. Streamed'
  BY <1>1, <1>3, <1>4, <1>5, <1>6, <1>7, TurnByTurn
<1>9. QED BY <1>3, <1>8 DEF IInv

LEMMA StepStreamed ==
  ASSUME IInv, Step
  PROVE  IInv'
<1>1. Typed /\ TurnsInLine /\ ItemsInLine /\ Handling /\ ActiveIsCurrent /\ Streamed
  BY DEF IInv, Streamed
<1>2. PICK s : Does(s)
  BY <1>1, StepDoes
<1>3. Typed' /\ Handling' /\ ActiveIsCurrent'
  BY <1>1, <1>2, DoesTyped, DoesHandling, DoesActive
<1>4. UNCHANGED <<provider, item, said, runtime, erred>> /\ disturbed' = disturbed
  BY <1>2 DEF Does
<1>5. TurnsInLine' /\ ItemsInLine'
  BY <1>1, <1>4, LinesStay
<1>6. ASSUME NEW u \in Turns, Undisturbed(u)
      PROVE  Undisturbed(u)'
  BY <1>1, <1>2, <1>3, <1>6, DoesUndisturbed
<1>7. ASSUME NEW u \in Turns, Undisturbed(u), NEW m \in MessagesOf(u), Single(m)
      PROVE  Single(m)'
  <2>1. m \in Messages /\ Heard(m) /\ Finished(m)
    BY <1>7 DEF Undisturbed, MessagesOf
  <2>2. QED BY <1>1, <1>2, <1>3, <1>7, <2>1, DoesSingle
<1>8. Streamed'
  BY <1>1, <1>3, <1>4, <1>5, <1>6, <1>7, TurnByTurn
<1>9. QED BY <1>3, <1>8 DEF IInv

LEMMA FailStreamed ==
  ASSUME IInv, FailStep
  PROVE  IInv'
<1>1. Typed /\ TurnsInLine /\ ItemsInLine /\ Handling /\ ActiveIsCurrent /\ Streamed
  BY DEF IInv, Streamed
<1>2. InOrder(todo)
  BY <1>1 DEF Handling
<1>3. PICK s : Fails(s)
  BY <1>1, <1>2, FailFails
<1>4. Typed' /\ Handling' /\ ActiveIsCurrent'
  BY <1>1, <1>2, <1>3, FailFails, FailsHandling, FailsActive
<1>5. UNCHANGED <<provider, item, said, runtime, erred>> /\ disturbed \subseteq disturbed'
  BY <1>3 DEF Fails
<1>6. TurnsInLine' /\ ItemsInLine'
  BY <1>1, <1>5, LinesStay
<1>7. ASSUME NEW u \in Turns, u \notin disturbed', Undisturbed(u)
      PROVE  Undisturbed(u)'
  BY <1>1, <1>3, <1>7, FailsUndisturbed
<1>8. ASSUME NEW u \in Turns, u \notin disturbed', Undisturbed(u),
             NEW m \in MessagesOf(u), Single(m)
      PROVE  Single(m)'
  BY <1>1, <1>3, <1>4, <1>8, FailsSingle
<1>9. Streamed'
  BY <1>1, <1>4, <1>5, <1>6, <1>7, <1>8, TurnByTurn
<1>10. QED BY <1>4, <1>9 DEF IInv

LEMMA StopsStreamed ==
  ASSUME IInv, NEW t \in Threads, SetStopped(t)
  PROVE  IInv'
<1>1. Typed /\ TurnsInLine /\ ItemsInLine /\ Handling /\ ActiveIsCurrent /\ Streamed
  BY DEF IInv, Streamed
<1>2. Stops(t) /\ Typed'
  BY <1>1, SetStoppedStops
<1>3. Handling' /\ ActiveIsCurrent'
  BY <1>1, <1>2, StopsHandling, StopsActive
<1>4. /\ UNCHANGED <<provider, item, said, runtime, erred, message, mode, known, buffer, todo>>
      /\ disturbed \subseteq disturbed'
  BY <1>2 DEF Stops
<1>5. TurnsInLine' /\ ItemsInLine'
  BY <1>1, <1>4, LinesStay
<1>6. ASSUME NEW u \in Turns, Undisturbed(u)
      PROVE  Undisturbed(u)'
  BY <1>4, <1>6, UndisturbedStays
<1>7. ASSUME NEW u \in Turns, NEW m \in MessagesOf(u), Single(m)
      PROVE  Single(m)'
  BY <1>2, <1>7, StopsSingle DEF MessagesOf
<1>8. Streamed'
  BY <1>1, <1>3, <1>4, <1>5, <1>6, <1>7, TurnByTurn
<1>9. QED BY <1>2, <1>8 DEF IInv

\* The steps the messages do not notice.
LEMMA QuietStreamed ==
  ASSUME IInv, Typed',
         UNCHANGED <<provider, item, said, runtime, active, message, mode, known, buffer, todo,
                     completions, disturbed, erred>>
  PROVE  IInv'
<1>1. /\ TurnsInLine /\ ItemsInLine /\ Handling /\ ActiveIsCurrent
      /\ \A u \in Turns \ disturbed : Undisturbed(u)
      /\ \A u \in Turns \ (disturbed \cup erred) : \A m \in MessagesOf(u) : Single(m)
  BY DEF IInv, Streamed
<1>2. TurnsInLine' /\ ItemsInLine'
  BY <1>1, LinesStay
<1>3. /\ \A m : /\ Got(m)' = Got(m) /\ (Knows(m)' <=> Knows(m)) /\ (Forgets(m)' <=> Forgets(m))
                /\ \A op : Has(op, m)' <=> Has(op, m)
                /\ Gone(m)' <=> Gone(m)
      /\ \A u : (Current(u)' <=> Current(u)) /\ (Begun(u)' <=> Begun(u))
      /\ \A t, v : Becomes(t, v)' <=> Becomes(t, v)
  BY DEF Got, Held, Owed, Taking, Knows, Forgets, Has, ForgetsTurn, ClearsThread, Gone, EndComes,
         Current, Begun, Becomes
<1>4. Handling'
  BY <1>1, <1>3 DEF Handling
<1>5. ActiveIsCurrent'
  BY <1>1, <1>3 DEF ActiveIsCurrent
<1>6. \A u \in Turns \ disturbed' : Undisturbed(u)'
  BY <1>1, UndisturbedStays
<1>7. ASSUME NEW m, Single(m)
      PROVE  Single(m)'
  BY <1>3, <1>7 DEF Single
<1>8. \A u \in Turns \ (disturbed' \cup erred') : \A m \in MessagesOf(u) : Single(m)'
  BY <1>1, <1>7 DEF MessagesOf
<1>9. QED BY <1>2, <1>4, <1>5, <1>6, <1>8 DEF IInv, Streamed, MessagesOf

LEMMA NextIInv == IInv /\ [Next]_vars => IInv'
<1>1. SUFFICES ASSUME IInv, [Next]_vars
               PROVE  IInv'
  OBVIOUS
<1>2. Typed /\ TurnsInLine
  BY <1>1 DEF IInv, Streamed
<1>3. CASE \E u \in Turns : StartTurn(u) \/ EndTurn(u) \/ RuntimeError(u)
  BY <1>1, <1>2, <1>3, StartTurnSends, EndTurnSends, RuntimeErrorSends, SendsStreamed
<1>4. CASE \E m \in Messages : Speak(m) \/ EndItem(m) \/ SayAtOnce(m)
  BY <1>1, <1>2, <1>4, SpeakSends, EndItemSends, SayAtOnceSends, SendsStreamed
<1>5. CASE \E t \in Threads : Exit(t)
  BY <1>1, <1>2, <1>5, ExitSends, SendsStreamed
<1>6. CASE \E t \in Threads : SetStopped(t)
  BY <1>1, <1>6, StopsStreamed
<1>7. CASE \E t \in Threads, m \in {"buffered", "streaming"} : RequestTurn(t, m)
  <2>1. PICK t \in Threads, m \in {"buffered", "streaming"} : RequestTurn(t, m)
    BY <1>7
  <2>2. Typed'
    BY <1>2, <2>1, RequestTyped
  <2>3. UNCHANGED <<provider, item, said, runtime, active, message, mode, known, buffer, todo,
                    completions, disturbed, erred>>
    BY <2>1 DEF RequestTurn, agent, store, cache
  <2>4. QED BY <1>1, <2>2, <2>3, QuietStreamed
<1>8. CASE ProcessRuntimeEvent
  BY <1>1, <1>8, ProcessStreamed
<1>9. CASE ProcessDomainEvent
  BY <1>1, <1>9, SwitchesStreamed
<1>10. CASE Step
  BY <1>1, <1>10, StepStreamed
<1>11. CASE FailStep
  BY <1>1, <1>11, FailStreamed
<1>12. CASE UNCHANGED vars
  <2>1. UNCHANGED <<provider, item, said, runtime, domain, active, message, mode, known, buffer,
                    todo, completions, disturbed, erred>>
    BY <1>12 DEF vars, agent, store, cache, history
  <2>2. Typed'
    BY <1>2, <2>1 DEF Typed
  <2>3. QED BY <1>1, <2>1, <2>2, QuietStreamed
<1>13. QED BY <1>1, <1>3, <1>4, <1>5, <1>6, <1>7, <1>8, <1>9, <1>10, <1>11, <1>12 DEF Next

\* What comes before the end of a count counts too.
LEMMA CountsOn ==
  ASSUME NEW h \in Texts, NEW w \in Texts, NEW l \in Nat, NEW n \in 0..l, h \o w = Count(n)
  PROVE  IsPrefix(h, Count(l))
<1>1. PICK k, j, c : k = Len(h) /\ j = Len(w) /\ c = Count(l)
  OBVIOUS
<1>2. h \in Seq(Nat) /\ w \in Seq(Nat) /\ k \in Nat /\ j \in Nat
  BY <1>1, LenProperties DEF Texts
<1>3. Len(h \o w) = k + j /\ \A i \in 1..(k + j) : (h \o w)[i] = IF i <= k THEN h[i] ELSE w[i - k]
  BY <1>1, <1>2, ConcatProperties
<1>4. Len(Count(n)) = n /\ \A i \in 1..n : Count(n)[i] = i
  BY CountIs
<1>5. k <= n /\ n <= l
  BY <1>2, <1>3, <1>4
<1>6. \A i \in 1..k : h[i] = i
  <2>1. SUFFICES ASSUME NEW i \in 1..k
                 PROVE  h[i] = i
    OBVIOUS
  <2>2. i \in 1..n /\ i \in 1..(k + j) /\ i <= k
    BY <1>2, <1>5
  <2>3. QED BY <1>3, <1>4, <2>2
<1>7. c \in Texts /\ Len(c) = l /\ \A i \in 1..l : c[i] = i
  BY <1>1, CountIs
<1>8. ASSUME NEW s \in Seq(Nat), k <= Len(s), \A i \in 1..k : s[i] = i
      PROVE  /\ SubSeq(s, 1, k) \in Seq(Nat) /\ Len(SubSeq(s, 1, k)) = k
             /\ \A i \in 1..k : SubSeq(s, 1, k)[i] = i
  <2>1. \A i \in 1..k : s[i] \in Nat
    BY <1>2, <1>8
  <2>2. /\ SubSeq(s, 1, k) \in Seq(Nat)
        /\ Len(SubSeq(s, 1, k)) = IF 1 <= k THEN k - 1 + 1 ELSE 0
        /\ \A i \in 1..(k - 1 + 1) : SubSeq(s, 1, k)[i] = s[1 + i - 1]
    BY ONLY <1>2, <2>1, SubSeqProperties
  <2>3. k - 1 + 1 = k /\ (1 <= k \/ k = 0)
    BY <1>2
  <2>4. \A i \in 1..k : 1 + i - 1 = i
    BY <1>2
  <2>5. QED BY <1>2, <1>8, <2>2, <2>3, <2>4
<1>9. PICK a, b : a = SubSeq(h, 1, k) /\ b = SubSeq(c, 1, k)
  OBVIOUS
<1>10. /\ a \in Seq(Nat) /\ Len(a) = k /\ \A i \in 1..k : a[i] = i
       /\ b \in Seq(Nat) /\ Len(b) = k /\ \A i \in 1..k : b[i] = i
  <2>1. \A i \in 1..k : c[i] = i
    BY <1>2, <1>5, <1>7
  <2>2. c \in Seq(Nat)
    BY <1>7 DEF Texts
  <2>3. QED BY <1>1, <1>2, <1>5, <1>6, <1>7, <1>8, <1>9, <2>1, <2>2
<1>11. a = b
  BY ONLY <1>10, SeqEqual
<1>12. QED BY <1>1, <1>5, <1>7, <1>9, <1>11 DEF IsPrefix

LEMMA IInvTextInOrder == IInv => TextInOrder
<1>1. SUFFICES ASSUME IInv, NEW m \in Messages, TurnOf[m] \notin disturbed
               PROVE  IsPrefix(Held(m), said[m])
  BY DEF TextInOrder, Held
<1>2. Typed /\ Heard(m) /\ said[m] = Count(Len(said[m]))
  BY <1>1, AssistantAssumption DEF IInv, Streamed, Undisturbed, MessagesOf, ItemsInLine
<1>3. PICK h, w, l : h = Held(m) /\ w = Owed(m) /\ l = Len(said[m])
  OBVIOUS
<1>4. l \in Nat /\ h \in Texts /\ w \in Texts
  <2>1. said[m] \in Texts
    BY <1>2 DEF Typed
  <2>2. todo # <<>> => Head(todo) \in Ops
    BY <1>2 DEF Typed
  <2>3. \A s \in Ops : s.text \in Texts
    BY DEF Ops
  <2>4. Owed(m) \in Texts
    BY <2>2, <2>3 DEF Owed, Taking, Texts
  <2>5. QED BY <1>2, <1>3, <2>1, <2>4, GotIs, LenProperties DEF Texts
<1>5. PICK n \in 0..l : h \o w = Count(n)
  BY <1>2, <1>3 DEF Heard, HeardUpTo, Got
<1>6. IsPrefix(h, Count(l))
  BY <1>4, <1>5, CountsOn
<1>7. QED BY <1>2, <1>3, <1>6

LEMMA IInvCompletedOnce == IInv => CompletedOnce
<1>1. SUFFICES ASSUME IInv, NEW m \in Messages, TurnOf[m] \notin disturbed \cup erred
               PROVE  completions[m] <= 1
  BY DEF CompletedOnce
<1>2. Single(m)
  BY <1>1, AssistantAssumption DEF IInv, Streamed, MessagesOf
<1>3. QED BY <1>2 DEF Single

LEMMA IInvEndedTurnShown == IInv => EndedTurnShown
<1>1. SUFFICES ASSUME IInv, NEW u \in Turns, u \notin disturbed, Settled(u)
               PROVE  (\A m \in MessagesOf(u) : Shown(m)) /\ known[u] = {}
  BY DEF EndedTurnShown
<1>2. /\ Typed /\ Undisturbed(u) /\ provider[u] = "over" /\ u # None
      /\ \A i \in DOMAIN runtime : runtime[i].thread # ThreadOf[u] /\ runtime[i] \in Events
      /\ \A i \in DOMAIN todo : todo[i].thread # ThreadOf[u] /\ todo[i] \in Ops
  <2>1. Typed /\ Undisturbed(u) /\ u # None
    BY <1>1, AssistantAssumption DEF IInv, Streamed
  <2>2. QED BY <1>1, <2>1, ElementOfSeq DEF Settled, Behind, Typed
<1>3. \A i \in DOMAIN runtime : runtime[i].turn # u
  BY <1>2 DEF Events
<1>4. \A i \in DOMAIN todo : todo[i].turn # u
  BY <1>2 DEF Ops
<1>5. ~Current(u) /\ ~ForgetsTurn(u)
  BY <1>2, <1>3, <1>4 DEF Current, Ends, ForgetsTurn
<1>6. ASSUME NEW m \in MessagesOf(u)
      PROVE  Shown(m) /\ ~Knows(m)
  <2>1. m \in Messages /\ TurnOf[m] = u /\ Heard(m) /\ Finished(m) /\ m # None
    BY <1>2, AssistantAssumption DEF Undisturbed, MessagesOf
  <2>2. \A i \in DOMAIN runtime : runtime[i].msg # m
    BY <1>2, <1>3, <2>1 DEF Events
  <2>3. \A i \in DOMAIN todo : todo[i].msg # m
    BY <1>2, <1>4, <2>1 DEF Ops
  <2>4. ~Knows(m)
    BY <1>5, <2>1 DEF Finished
  <2>5. buffer[m] = <<>> /\ ~message[m].streaming
    BY <2>1, <2>3, <2>4 DEF Finished, Finishing, Has
  <2>6. PICK l, f : l = Len(said[m]) /\ f = message[m].text
    OBVIOUS
  <2>7. l \in Nat /\ said[m] = Count(l)
    <3>1. said[m] \in Texts
      BY <1>2, <2>1 DEF Typed
    <3>2. l \in Nat
      BY <2>6, <3>1, LenProperties DEF Texts
    <3>3. QED BY <1>1, <2>1, <2>6, <3>2 DEF IInv, Streamed, ItemsInLine
  <2>8. PICK n \in 0..l : HeardUpTo(m, n, l)
    BY <2>1, <2>6 DEF Heard
  <2>9. n = l
    <3>1. n # l => l \in (n + 1)..l
      BY <2>7
    <3>2. QED BY <2>2, <2>8, <3>1 DEF HeardUpTo
  <2>10. Got(m) = said[m]
    BY <2>7, <2>8, <2>9 DEF HeardUpTo
  <2>11. Owed(m) = <<>>
    <3>1. todo \in Seq(Ops) /\ \A i \in DOMAIN todo : todo[i].msg = m => todo[i].text = <<>>
      BY <1>2, <2>3 DEF Typed
    <3>2. QED BY <3>1, TakingNothing DEF Owed
  <2>12. f \in Texts /\ Got(m) = f \o buffer[m]
    BY <1>2, <2>1, <2>6, <2>11, GotIs DEF Held
  <2>13. f = said[m]
    BY <2>5, <2>10, <2>12, NothingMore
  <2>14. message[m] = [text |-> said[m], streaming |-> FALSE]
    <3>1. message[m] \in [text : Texts, streaming : BOOLEAN]
      BY <1>2, <2>1 DEF Typed
    <3>2. QED BY <2>5, <2>6, <2>13, <3>1
  <2>15. QED BY <2>4, <2>5, <2>14 DEF Shown
<1>7. known[u] = {}
  <2>1. \A m \in known[u] : m \in MessagesOf(u) /\ Knows(m)
    BY <1>2 DEF Typed, MessagesOf, Knows
  <2>2. QED BY <1>6, <2>1
<1>8. QED BY <1>6, <1>7

LEMMA SpecIInv == Spec => []IInv
<1>1. Init => IInv
  BY InitIInv
<1>2. IInv /\ [Next]_vars => IInv'
  BY NextIInv
<1>3. QED BY <1>1, <1>2, PTL DEF Spec

\* What is shown of a message, with what is kept back, is always the beginning
\* of what the agent has said: no handler of the ingestion, in no order of
\* events and changes of mode, repeats, drops or reorders a piece.
THEOREM TextStaysInOrder == Spec => []TextInOrder
BY SpecIInv, IInvTextInOrder, PTL

\* Once a turn is over and its events are handled, all of its messages are
\* shown whole and finished, and nothing is kept in the caches of the turn.
THEOREM EndedTurnsAreShown == Spec => []EndedTurnShown
BY SpecIInv, IInvEndedTurnShown, PTL

\* In a turn without an error no message is completed twice, by the end of
\* its item and by the end of its turn or session.
THEOREM CompletedOnceOnly == Spec => []CompletedOnce
BY SpecIInv, IInvCompletedOnce, PTL
==============================================================================
