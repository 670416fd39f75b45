--------------------- MODULE OrchestrationEngineProofs ---------------------
(***************************************************************************)
(* Theorems about OrchestrationEngine, for any commands, dispatches,       *)
(* faults, crashes, repairs, page length and set of points where a timeout *)
(* strikes: its variables keep their types, a command's events are in the  *)
(* log once and whole, and no receipt and no answer is ever changed.       *)
(*                                                                         *)
(* All three follow from one inductive invariant, IInv. The properties     *)
(* themselves are not inductive: that Commit appends a command for the     *)
(* first time holds because the receipt read two steps before is still     *)
(* absent, and that Answer answers for the first time holds because the    *)
(* dispatch that the worker executes has left the queue in state "in-      *)
(* flight", which the caller's timer cannot abandon.                       *)
(*                                                                         *)
(* The first section is about the operators of ProjectionPipeline. Handled *)
(* is a recursive function, so what it returns is proved by induction,     *)
(* over a set instead of a predicate: one lemma serves for every use.      *)
(***************************************************************************)
EXTENDS OrchestrationEngine, SequenceTheorems, WellFoundedInduction, TLAPS

-----------------------------------------------------------------------------
(* What a projector handles of a log                                       *)

\* A non-empty set of numbers has a least element: the order of the naturals
\* is well-founded.
LEMMA LeastNatural == ASSUME NEW T, T \subseteq Nat, T # {}
  PROVE \E x \in T : \A y \in T : x <= y
<1> DEFINE R == {ss \in Nat \X Nat : ss[1] < ss[2]}
<1>1. IsWellFoundedOn(R, Nat)
  BY NatLessThanWellFounded DEF OpToRel
<1>2. \E x \in T : \A y \in T : ~ (<<y, x>> \in R)
  BY <1>1, WFMin
<1>3. ASSUME NEW x \in T, NEW y \in T, <<y, x>> \notin R
      PROVE  x <= y
  BY <1>3
<1>4. QED BY <1>2, <1>3

\* Induction over the naturals, with the set of the numbers the claim holds
\* of.
LEMMA Induction == ASSUME NEW Q, 0 \in Q, \A n \in Nat : n \in Q => n + 1 \in Q
  PROVE Nat \subseteq Q
<1> SUFFICES ASSUME Nat \ Q # {} PROVE FALSE
  OBVIOUS
<1>1. PICK x \in Nat \ Q : \A y \in Nat \ Q : x <= y
  BY LeastNatural
<1>2. x # 0 /\ x - 1 \in Nat /\ x - 1 \in Q
  BY <1>1
<1>3. QED BY <1>2

\* f is the function that the recursion in Handled defines.
UpTo(f, l, p, lo, hi) ==
  f = [n \in lo..hi |->
        IF n = lo THEN <<>>
        ELSE IF Handles(p, l[n].kind) THEN Append(f[n - 1], n) ELSE f[n - 1]]

\* The recursion in Handled defines a function: there is one with its
\* equation, and Handled is its last value.
LEMMA HandledDef ==
  ASSUME NEW l, NEW p, NEW lo \in Nat, NEW hi \in Nat, lo <= hi
  PROVE  \E f : UpTo(f, l, p, lo, hi) /\ Handled(l, p, lo, hi) = f[hi]
<1> DEFINE Q == {k \in Nat : \E f : UpTo(f, l, p, lo, lo + k)}
<1>1. 0 \in Q
  <2>1. UpTo([n \in lo..(lo + 0) |-> <<>>], l, p, lo, lo + 0)
    BY DEF UpTo
  <2> QED BY <2>1
<1>2. ASSUME NEW k \in Nat, k \in Q PROVE k + 1 \in Q
  <2>1. PICK f : UpTo(f, l, p, lo, lo + k)
    BY <1>2
  <2> DEFINE top == lo + k + 1
             last == IF Handles(p, l[top].kind) THEN Append(f[top - 1], top) ELSE f[top - 1]
             g == [n \in lo..top |-> IF n = top THEN last ELSE f[n]]
  <2>2. ASSUME NEW n \in lo..top
        PROVE  g[n] = IF n = lo THEN <<>>
                      ELSE IF Handles(p, l[n].kind) THEN Append(g[n - 1], n) ELSE g[n - 1]
    <3> HIDE DEF last
    <3>1. CASE n = top
      <4>1. n # lo /\ n - 1 \in lo..top /\ n - 1 # top /\ g[n - 1] = f[n - 1] /\ g[n] = last
        BY <3>1
      <4> QED BY <4>1, <3>1 DEF last
    <3>2. CASE n # top
      <4>1. n \in lo..(lo + k) /\ g[n] = f[n]
        BY <3>2
      <4>2. n # lo => n - 1 \in lo..top /\ n - 1 # top
        BY <3>2
      <4>3. n # lo => g[n - 1] = f[n - 1]
        BY <4>2
      <4>4. f[n] = IF n = lo THEN <<>>
                      ELSE IF Handles(p, l[n].kind) THEN Append(f[n - 1], n) ELSE f[n - 1]
        BY <2>1, <4>1 DEF UpTo
      <4> QED BY <4>1, <4>3, <4>4
    <3> QED BY <3>1, <3>2
  <2>3. UpTo(g, l, p, lo, top)
    BY <2>2 DEF UpTo
  <2>4. top = lo + (k + 1)
    OBVIOUS
  <2> QED BY <2>3, <2>4
<1>3. Nat \subseteq Q
  <2> HIDE DEF Q
  <2> QED BY <1>1, <1>2, Induction
<1>4. PICK f : UpTo(f, l, p, lo, hi)
  <2>1. hi - lo \in Nat /\ lo + (hi - lo) = hi
    OBVIOUS
  <2> QED BY <1>3, <2>1
<1>5. QED BY <1>4 DEF UpTo, Handled

\* Handled reads the log one event at a time: no event gives no row, and one
\* more event gives one more row if the projector handles it.
LEMMA HandledSteps ==
  ASSUME NEW l, NEW p, NEW lo \in Nat, NEW hi \in Nat, lo <= hi
  PROVE  /\ Handled(l, p, lo, lo) = <<>>
         /\ Handled(l, p, lo, hi + 1) =
              IF Handles(p, l[hi + 1].kind)
              THEN Append(Handled(l, p, lo, hi), hi + 1)
              ELSE Handled(l, p, lo, hi)
<1>1. PICK f : UpTo(f, l, p, lo, hi) /\ Handled(l, p, lo, hi) = f[hi]
  BY HandledDef
<1>2. PICK g : UpTo(g, l, p, lo, hi + 1) /\ Handled(l, p, lo, hi + 1) = g[hi + 1]
  BY HandledDef
<1>3. PICK e : UpTo(e, l, p, lo, lo) /\ Handled(l, p, lo, lo) = e[lo]
  BY HandledDef
<1>4. Handled(l, p, lo, lo) = <<>>
  BY <1>3 DEF UpTo
<1> DEFINE Q == {k \in Nat : lo + k <= hi => f[lo + k] = g[lo + k]}
<1>5. 0 \in Q
  <2>1. f[lo] = <<>> /\ g[lo] = <<>>
    BY <1>1, <1>2 DEF UpTo
  <2> QED BY <2>1
<1>6. ASSUME NEW k \in Nat, k \in Q PROVE k + 1 \in Q
  <2> SUFFICES ASSUME lo + (k + 1) <= hi PROVE f[lo + (k + 1)] = g[lo + (k + 1)]
    OBVIOUS
  <2> DEFINE n == lo + (k + 1)
  <2>1. n \in lo..hi /\ n \in lo..(hi + 1) /\ n # lo /\ n - 1 = lo + k
    OBVIOUS
  <2>2. f[n - 1] = g[n - 1]
    BY <1>6, <2>1
  <2>3. f[n] = IF Handles(p, l[n].kind) THEN Append(f[n - 1], n) ELSE f[n - 1]
    BY <1>1, <2>1 DEF UpTo
  <2>4. g[n] = IF Handles(p, l[n].kind) THEN Append(g[n - 1], n) ELSE g[n - 1]
    BY <1>2, <2>1 DEF UpTo
  <2> QED BY <2>2, <2>3, <2>4
<1>7. Nat \subseteq Q
  <2> HIDE DEF Q
  <2> QED BY <1>5, <1>6, Induction
<1>8. f[hi] = g[hi]
  <2>1. hi - lo \in Nat /\ lo + (hi - lo) = hi
    OBVIOUS
  <2> QED BY <1>7, <2>1
<1>9. g[hi + 1] = IF Handles(p, l[hi + 1].kind) THEN Append(g[hi], hi + 1) ELSE g[hi]
  <2>1. hi + 1 \in lo..(hi + 1) /\ hi + 1 # lo /\ (hi + 1) - 1 = hi
    OBVIOUS
  <2> QED BY <1>2, <2>1 DEF UpTo
<1>10. QED BY <1>1, <1>2, <1>4, <1>8, <1>9

\* A table is a sequence of event numbers.
LEMMA HandledType ==
  ASSUME NEW l, NEW p, NEW lo \in Nat, NEW hi \in Nat, lo <= hi
  PROVE  Handled(l, p, lo, hi) \in Seq(Nat)
<1> DEFINE Q == {k \in Nat : Handled(l, p, lo, lo + k) \in Seq(Nat)}
<1>1. 0 \in Q
  <2>1. Handled(l, p, lo, lo) = <<>>
    BY HandledSteps
  <2>2. lo + 0 = lo /\ <<>> \in Seq(Nat)
    OBVIOUS
  <2> QED BY <2>1, <2>2
<1>2. ASSUME NEW k \in Nat, k \in Q PROVE k + 1 \in Q
  <2>1. /\ lo + k \in Nat /\ lo <= lo + k /\ (lo + k) + 1 \in Nat
        /\ lo + (k + 1) = (lo + k) + 1
    OBVIOUS
  <2>2. Handled(l, p, lo, lo + k) \in Seq(Nat)
    BY <1>2
  <2>3. Append(Handled(l, p, lo, lo + k), (lo + k) + 1) \in Seq(Nat)
    BY <2>1, <2>2, AppendProperties
  <2>4. Handled(l, p, lo, (lo + k) + 1) \in Seq(Nat)
    BY <2>1, <2>2, <2>3, HandledSteps
  <2> QED BY <2>1, <2>4
<1>3. Nat \subseteq Q
  <2> HIDE DEF Q
  <2> QED BY <1>1, <1>2, Induction
<1>4. hi - lo \in Nat /\ lo + (hi - lo) = hi
  OBVIOUS
<1>5. QED BY <1>3, <1>4

\* A non-empty set of event numbers in an interval has a last one: the cursor
\* that the command transaction writes is defined.
LEMMA GreatestInInterval ==
  ASSUME NEW lo \in Nat, NEW hi \in Nat, NEW T, T \subseteq lo..hi, T # {}
  PROVE  \E n \in T : \A m \in T : m <= n
<1> DEFINE Below == {hi - n : n \in T}
<1>1. Below \subseteq Nat /\ Below # {}
  OBVIOUS
<1>2. PICK k \in Below : \A j \in Below : k <= j
  <2> HIDE DEF Below
  <2> QED BY <1>1, LeastNatural
<1>3. PICK n \in T : k = hi - n
  OBVIOUS
<1>4. ASSUME NEW m \in T PROVE m <= n
  <2>1. hi - n <= hi - m
    BY <1>2, <1>3
  <2> QED BY <2>1
<1>5. QED BY <1>4

\* projectMetadataEvent and projectHotEvent, run for any events that extend
\* the log, leave every table a sequence of event numbers and every cursor an
\* event number.
LEMMA ProjectInTransactionType ==
  ASSUME NEW newLog, newLog \in Seq(Events), log \in Seq(Events), Len(log) <= Len(newLog),
         rows \in [Projectors -> Seq(Nat)], cursor \in [Projectors -> Nat],
         ProjectInTransaction(newLog)
  PROVE  rows' \in [Projectors -> Seq(Nat)] /\ cursor' \in [Projectors -> Nat]
<1> DEFINE Moves(p) == {n \in (Len(log) + 1)..Len(newLog) : p \in Advanced(newLog[n].kind)}
           Last(p)  == CHOOSE n \in Moves(p) : \A m \in Moves(p) : m <= n
<1>1. Len(log) \in Nat /\ Len(newLog) \in Nat
  OBVIOUS
<1>2. ASSUME NEW p \in Projectors, Moves(p) # {} PROVE Last(p) \in Nat
  <2>1. Moves(p) \subseteq (Len(log) + 1)..Len(newLog) /\ Len(log) + 1 \in Nat
    BY <1>1
  <2>2. \E n \in Moves(p) : \A m \in Moves(p) : m <= n
    <3> HIDE DEF Moves
    <3> QED BY <1>1, <1>2, <2>1, GreatestInInterval
  <2>3. Last(p) \in Moves(p)
    <3> HIDE DEF Moves
    <3> QED BY <2>2
  <2> QED BY <1>1, <2>1, <2>3
<1>3. cursor' \in [Projectors -> Nat]
  <2>1. cursor' = [p \in Projectors |-> IF Moves(p) = {} THEN cursor[p] ELSE Last(p)]
    BY DEF ProjectInTransaction
  <2> HIDE DEF Moves, Last
  <2> QED BY <1>2, <2>1
<1>4. ASSUME NEW p \in Projectors
      PROVE  rows[p] \o Handled(newLog, p, Len(log), Len(newLog)) \in Seq(Nat)
  BY <1>1, HandledType, ConcatProperties
<1>5. rows' = [p \in Projectors |->
                 IF p \in Hot
                 THEN rows[p] \o Handled(newLog, p, Len(log), Len(newLog))
                 ELSE rows[p]]
  BY DEF ProjectInTransaction
<1>6. QED BY <1>3, <1>4, <1>5

-----------------------------------------------------------------------------
(* The worker                                                              *)

\* The worker states in which processEnvelope has marked the envelope in
\* flight.
Executing == {"receipt", "decide", "install", "deferred", "publish", "reconcile", "settle"}

\* The worker that has taken an envelope works for a dispatch, and the events
\* that it is about to install are a non-empty part of the log.
WorkerInv ==
  /\ worker.pc \in {"lock", "start"} \cup Executing => worker.d \in Dispatches
  /\ worker.pc = "install" => worker.first # 0 /\ worker.first <= worker.last

-----------------------------------------------------------------------------
(* Types                                                                   *)

\* There are four projectors.
LEMMA BootOrderLength == Len(BootOrder) = 4
BY DEF BootOrder

\* The events that reconciliation publishes are event numbers.
LEMMA NumbersType ==
  ASSUME NEW lo \in Nat, NEW hi \in Nat, lo <= hi
  PROVE  Numbers(lo, hi) \in Seq(Nat)
<1>1. hi - lo \in Nat /\ \A i \in 1..(hi - lo) : lo + i \in Nat
  OBVIOUS
<1>2. QED BY <1>1 DEF Numbers

\* A replay that is off, or has failed, is a replay state.
LEMMA NotBootingType == NotBooting \in Replays /\ [NotBooting EXCEPT !.pc = "failed"] \in Replays
BY BootOrderLength DEF NotBooting, Replays, BootStates

\* The snapshot sequence, the least of the snapshot cursors, is defined and
\* is a number.
LEMMA SnapshotMinimum ==
  ASSUME cursor \in [Projectors -> Nat]
  PROVE  (CHOOSE n \in {cursor[p] : p \in Snapshot} : \A p \in Snapshot : n <= cursor[p]) \in Nat
<1> DEFINE C == {cursor[p] : p \in Snapshot}
<1>1. "projects" \in Snapshot /\ "messages" \in Snapshot /\ Snapshot \subseteq Projectors
  BY DEF Snapshot, Projectors
<1>2. cursor["projects"] \in C /\ cursor["messages"] \in C /\ C \subseteq Nat
  BY <1>1
<1>3. C # {}
  BY <1>2
<1>4. \E n \in C : \A m \in C : n <= m
  <2> HIDE DEF C
  <2> QED BY <1>2, <1>3, LeastNatural
<1>5. \E n \in C : \A p \in Snapshot : n <= cursor[p]
  BY <1>4
<1>6. QED BY <1>2, <1>5

\* A replay that starts with, or moves to, any projector is a replay state.
LEMMA BootAtType ==
  ASSUME log \in Seq(Events), NEW c \in [Projectors -> Nat], NEW i \in 1..(Len(BootOrder) + 1)
  PROVE  BootAt(i, c) \in Replays
<1>1. Len(BootOrder) = 4
  BY BootOrderLength
<1>2. CASE i > Len(BootOrder)
  BY <1>1, <1>2 DEF BootAt, NotBooting, BootStates, Replays
<1>3. CASE i <= Len(BootOrder)
  <2>1. BootOrder[i] \in Projectors
    BY <1>1, <1>3 DEF BootOrder, Projectors
  <2>2. c[BootOrder[i]] \in Nat
    BY <2>1
  <2>3. EndOfPage(c[BootOrder[i]]) \in Nat
    BY <2>2, ReadLimitAssumption DEF EndOfPage
  <2> QED BY <1>1, <1>3, <2>2, <2>3 DEF BootAt, BootStates, Replays
<1>4. QED BY <1>1, <1>2, <1>3

\* The envelope that the worker has taken carries a command.
LEMMA CommandType ==
  ASSUME WorkerInv, worker.pc \in {"lock", "start"} \cup Executing
  PROVE  Command \in Commands
BY EngineAssumption DEF WorkerInv, Command

\* Appending the events of a command: the log stays a log, keeps what it held
\* and ends with the command's events in order.
LEMMA AppendedLog ==
  ASSUME log \in Seq(Events), NEW c \in Commands, NEW d \in Dispatches
  PROVE  LET newLog == log \o Block(c, d)
             end    == Len(log) + Len(EventsOf[c])
         IN  /\ newLog \in Seq(Events)
             /\ Len(newLog) = end /\ end \in Nat /\ Len(log) \in Nat /\ Len(log) <= end
             /\ EventsOf[c] # <<>> => Len(log) + 1 <= end
             /\ \A n \in 1..Len(log) : newLog[n] = log[n]
             /\ \A n \in (Len(log) + 1)..end :
                  /\ newLog[n].cmd = c /\ newLog[n].by = d
                  /\ newLog[n].kind = EventsOf[c][n - Len(log)]
<1> DEFINE kinds  == EventsOf[c]
           newLog == log \o Block(c, d)
           end    == Len(log) + Len(kinds)
<1>1. kinds \in Seq(EventKinds)
  BY EngineAssumption
<1>2. /\ Len(kinds) \in Nat /\ Len(log) \in Nat
      /\ kinds # <<>> => Len(kinds) # 0
  <2> HIDE DEF kinds
  <2> QED BY <1>1, EmptySeq
<1>3. \A i \in 1..Len(kinds) : kinds[i] \in EventKinds
  <2> HIDE DEF kinds
  <2> QED BY <1>1
<1>4. Block(c, d) = [i \in 1..Len(kinds) |-> [cmd |-> c, kind |-> kinds[i], by |-> d]]
  BY DEF Block
<1>5. Block(c, d) \in Seq(Events) /\ Len(Block(c, d)) = Len(kinds)
  <2> HIDE DEF kinds
  <2> QED BY <1>2, <1>3, <1>4 DEF Events
<1>6. \A i \in 1..Len(kinds) :
        Block(c, d)[i].cmd = c /\ Block(c, d)[i].by = d /\ Block(c, d)[i].kind = kinds[i]
  <2> HIDE DEF kinds
  <2> QED BY <1>4
<1>7. /\ newLog \in Seq(Events) /\ Len(newLog) = Len(log) + Len(kinds)
      /\ \A n \in 1..(Len(log) + Len(kinds)) :
           newLog[n] = IF n <= Len(log) THEN log[n] ELSE Block(c, d)[n - Len(log)]
  <2> HIDE DEF kinds
  <2>1. \A n \in 1..(Len(log) + Len(Block(c, d))) :
           newLog[n] = IF n <= Len(log) THEN log[n] ELSE Block(c, d)[n - Len(log)]
    BY <1>5, ConcatProperties
  <2>2. newLog \in Seq(Events) /\ Len(newLog) = Len(log) + Len(Block(c, d))
    BY <1>5, ConcatProperties
  <2> HIDE DEF newLog
  <2> QED BY <1>5, <2>1, <2>2
<1>8. \A n \in (Len(log) + 1)..end : n - Len(log) \in 1..Len(kinds) /\ ~ (n <= Len(log))
  BY <1>2
<1> HIDE DEF kinds, newLog
<1>9. \A n \in (Len(log) + 1)..end :
        newLog[n].cmd = c /\ newLog[n].by = d /\ newLog[n].kind = kinds[n - Len(log)]
  BY <1>2, <1>6, <1>7, <1>8
<1>10. QED BY <1>2, <1>7, <1>9 DEF kinds, newLog

\* Answering a caller keeps the types of all that it changes.
LEMMA AnswerType ==
  ASSUME TypeOK, NEW a \in Answers, Answer(a)
  PROVE  /\ answer' \in [Dispatches -> Answers]
         /\ worker' \in Workers
         /\ lock' \in Holders
BY DEF Answer, TypeOK, Idle, WorkerStates, Workers, Holders

\* A failure leaves the worker in a worker state.
LEMMA AbortType ==
  ASSUME TypeOK, NEW err \in {"timeout", "defect", "invariant", "failed"}, Abort(err)
  PROVE  worker' \in Workers
BY DEF Abort, TypeOK, WorkerStates, Workers

\* A fault leaves a budget.
LEMMA FaultType ==
  ASSUME TypeOK, NEW kind, Fault(kind)
  PROVE  budget' \in Budgets
BY DEF Fault, TypeOK, Budgets

\* Moving on leaves the worker in a worker state.
LEMMA GotoType ==
  ASSUME TypeOK, NEW pc \in WorkerStates, Goto(pc)
  PROVE  worker' \in Workers
BY DEF Goto, TypeOK, Workers

\* The updates of the worker's fields keep its type.
LEMMA WorkerUpdates ==
  ASSUME NEW w \in Workers, NEW n \in Nat
  PROVE  /\ [w EXCEPT !.next = n] \in Workers
         /\ \A m \in Nat :
              [w EXCEPT !.pc = "install", !.last = n, !.first = m, !.next = m] \in Workers
         /\ \A d \in Dispatches, late \in BOOLEAN :
              [w EXCEPT !.pc = "lock", !.d = d, !.start = n, !.late = late] \in Workers
BY DEF Workers, WorkerStates, TimedStates

\* The updates of the bounds keep their type.
LEMMA BudgetUpdates ==
  ASSUME NEW b \in Budgets
  PROVE  /\ b.crashes > 0 => [b EXCEPT !.crashes = @ - 1] \in Budgets
         /\ b.repairs > 0 => [b EXCEPT !.repairs = @ - 1] \in Budgets
BY DEF Budgets

\* Applying one event to a table keeps the tables' type.
LEMMA RowsUpdate ==
  ASSUME NEW r \in [Projectors -> Seq(Nat)], NEW p, NEW n \in Nat
  PROVE  [r EXCEPT ![p] = Append(@, n)] \in [Projectors -> Seq(Nat)]
<1>1. \A q \in Projectors : Append(r[q], n) \in Seq(Nat)
  BY AppendProperties
<1>2. QED BY <1>1

\* Writing a rejection keeps the receipts' type.
LEMMA RejectedType ==
  ASSUME NEW r \in [Commands -> Receipts], NEW c, NEW n \in Nat
  PROVE  [r EXCEPT ![c] = [status |-> "rejected", seq |-> n]] \in [Commands -> Receipts]
BY DEF Receipts

\* The worker's three initial states are worker states.
LEMMA StartedType == Idle \in Workers /\ Down \in Workers /\ Starting \in Workers
BY DEF Idle, Down, Starting, Workers, WorkerStates

\* The numbers that the worker holds are event numbers.
LEMMA WorkerFields ==
  ASSUME TypeOK
  PROVE  /\ worker.start \in Nat /\ worker.first \in Nat
         /\ worker.next \in Nat /\ worker.last \in Nat
BY DEF TypeOK, Workers

\* projectEvent over any part of the log yields a read model.
LEMMA ProjectInMemoryType ==
  ASSUME NEW m \in ReadModels, NEW l, NEW lo \in Nat, NEW hi \in Nat, lo <= hi
  PROVE  ProjectInMemory(m, l, lo, hi) \in ReadModels
<1>1. m.threads \o Handled(l, "messages", lo, hi) \in Seq(Nat)
  BY HandledType, ConcatProperties DEF ReadModels
<1>2. {n \in (lo + 1)..hi : l[n].kind = "project"} \subseteq Nat
  OBVIOUS
<1>3. QED BY <1>1, <1>2 DEF ReadModels, ProjectInMemory

\* Every step keeps every variable's type.
LEMMA TypeStep ==
  ASSUME TypeOK, WorkerInv, Next
  PROVE  TypeOK'
<1> USE DEF TypeOK, ProjectionTypeOK, projectionVars, storeVars,
    memoryVars, clientVars, Goto, Says, Accepted
<1>1. ASSUME NEW d \in Dispatches, Submit(d) PROVE TypeOK'
  BY <1>1 DEF Submit
<1>2. ASSUME NEW d \in Dispatches, DeadlinePasses(d) PROVE TypeOK'
  BY <1>2 DEF DeadlinePasses
<1>3. ASSUME NEW d \in Dispatches, Abandon(d) PROVE TypeOK'
  BY <1>3 DEF Abandon, Answers
<1>4. CASE Take
  <2>1. Head(queue) \in Dispatches /\ Tail(queue) \in Seq(Dispatches)
    BY <1>4, HeadTailProperties DEF Take
  <2>2. readModel.seq \in Nat /\ due[Head(queue)] \in BOOLEAN
    BY <2>1 DEF ReadModels
  <2>3. worker' \in Workers
    BY <1>4, <2>1, <2>2, WorkerUpdates DEF Take
  <2> QED BY <1>4, <2>1, <2>3 DEF Take
<1>5. CASE AcquireLock
  BY <1>5 DEF AcquireLock, Workers, WorkerStates, Holders
<1>6. CASE SkipAbandoned
  BY <1>6 DEF SkipAbandoned, Idle, Workers, WorkerStates, Holders
<1>7. CASE Start
  <2>1. worker' \in Workers
    BY <1>7, AbortType, GotoType DEF Start, WorkerStates, TimedStates
  <2> QED BY <1>7, <2>1 DEF Start
<1>8. CASE ReplayReceipt
  <2> DEFINE a == IF receipt[Command].status = "accepted"
                  THEN Accepted(receipt[Command].seq) ELSE Says("rejected")
  <2>1. a \in Answers
    BY <1>8, CommandType DEF ReplayReceipt, Executing, Receipts, Answers
  <2>2. Answer(a)
    BY <1>8 DEF ReplayReceipt
  <2> HIDE DEF a
  <2>3. /\ answer' \in [Dispatches -> Answers]
        /\ worker' \in Workers
        /\ lock' \in Holders
    BY <2>1, <2>2, AnswerType
  <2> QED BY <1>8, <2>3 DEF ReplayReceipt
<1>9. CASE NoReceiptYet
  BY <1>9 DEF NoReceiptYet, Workers, WorkerStates, TimedStates
<1>10. CASE RejectCommand
  BY <1>10 DEF RejectCommand, Abort, Workers, WorkerStates, TimedStates
<1>11. CASE Commit
  <2>1. Command \in Commands /\ worker.d \in Dispatches
    BY <1>11, CommandType DEF Commit, Executing, WorkerInv
  <2> DEFINE newLog == log \o Block(Command, worker.d)
  <2>2. newLog \in Seq(Events) /\ Len(newLog) \in Nat /\ Len(log) \in Nat /\ Len(log) <= Len(newLog)
    BY <2>1, AppendedLog
  <2>3. /\ log' = newLog
        /\ receipt' = [receipt EXCEPT ![Command] = [status |-> "accepted", seq |-> Len(newLog)]]
        /\ ProjectInTransaction(newLog)
        /\ worker' = [worker EXCEPT !.pc = "install", !.last = Len(newLog),
                                    !.first = Len(log) + 1, !.next = Len(log) + 1]
        /\ UNCHANGED <<boot, clientVars, memoryVars, lock, dirty, catchUp, repair, base, budget>>
    BY <1>11 DEF Commit
  <2> HIDE DEF newLog
  <2>4. rows' \in [Projectors -> Seq(Nat)] /\ cursor' \in [Projectors -> Nat]
    BY <2>2, <2>3, ProjectInTransactionType
  <2>5. receipt' \in [Commands -> Receipts]
    BY <2>2, <2>3 DEF Receipts
  <2>6. worker' \in Workers
    <3>1. worker \in Workers /\ Len(log) + 1 \in Nat
      BY <2>2
    <3> HIDE DEF TypeOK, ProjectionTypeOK
    <3> QED BY <2>2, <2>3, <3>1, WorkerUpdates
  <2> QED BY <2>2, <2>3, <2>4, <2>5, <2>6
<1>12. CASE RefuseEmptyCommand
  BY <1>12 DEF RefuseEmptyCommand, Abort, Workers, WorkerStates, TimedStates
<1>13. CASE InstallReadModel
  <2>1. readModel' \in ReadModels
    <3>1. worker.first - 1 \in Nat /\ worker.last \in Nat /\ worker.first - 1 <= worker.last
      BY <1>13, WorkerFields DEF InstallReadModel, WorkerInv
    <3> QED BY <1>13, <3>1, ProjectInMemoryType DEF InstallReadModel, ReadModels
  <2> QED BY <1>13, <2>1 DEF InstallReadModel, Workers, WorkerStates, TimedStates
<1>14. CASE ProjectNextDeferred
  <2>1. worker.next \in Nat
    BY WorkerFields
  <2>2. ProjectDeferred(worker.next) =>
          rows' \in [Projectors -> Seq(Nat)] /\ cursor' \in [Projectors -> Nat]
    <3>1. [rows EXCEPT !["shell"] = Append(@, worker.next)] \in [Projectors -> Seq(Nat)]
      BY <2>1, RowsUpdate
    <3>2. [cursor EXCEPT !["shell"] = worker.next] \in [Projectors -> Nat]
      BY <2>1
    <3> QED BY <3>1, <3>2 DEF ProjectDeferred
  <2>3. rows' \in [Projectors -> Seq(Nat)] /\ cursor' \in [Projectors -> Nat]
    BY <1>14, <2>2 DEF ProjectNextDeferred
  <2>4. dirty' \in BOOLEAN /\ catchUp' \in {"idle", "waiting", "running"}
    BY <1>14 DEF ProjectNextDeferred, ScheduleCatchUp
  <2>5. budget' \in Budgets
    BY <1>14, FaultType DEF ProjectNextDeferred
  <2>6. worker' = [worker EXCEPT !.next = worker.next + 1]
    BY <1>14 DEF ProjectNextDeferred
  <2>7. worker' \in Workers
    <3>1. worker.next + 1 \in Nat /\ worker.d \in Dispatches
      BY <1>14, <2>1 DEF ProjectNextDeferred, WorkerInv, Executing
    <3> QED BY <2>6, <3>1, WorkerUpdates
  <2> QED BY <1>14, <2>3, <2>4, <2>5, <2>7 DEF ProjectNextDeferred
<1>15. CASE DeferredDone
  BY <1>15 DEF DeferredDone, Workers, WorkerStates, TimedStates
<1>16. CASE PublishNext
  <2>1. worker.next \in Nat
    BY WorkerFields
  <2>2. worker' \in Workers
    <3>1. worker.next + 1 \in Nat /\ worker.d \in Dispatches
      BY <1>16, <2>1 DEF PublishNext, WorkerInv, Executing
    <3>2. worker' = [worker EXCEPT !.next = worker.next + 1]
      BY <1>16 DEF PublishNext
    <3> QED BY <3>1, <3>2, WorkerUpdates
  <2>3. published' \in Seq(Nat)
    BY <1>16, <2>1, AppendProperties DEF PublishNext
  <2> QED BY <1>16, <2>2, <2>3 DEF PublishNext
<1>17. CASE Succeed
  <2>1. Accepted(worker.last) \in Answers
    BY WorkerFields DEF Answers
  <2>2. /\ answer' \in [Dispatches -> Answers]
        /\ worker' \in Workers
        /\ lock' \in Holders
    BY <1>17, <2>1, AnswerType DEF Succeed
  <2> QED BY <1>17, <2>2 DEF Succeed
<1>18. CASE Reconcile
  <2>1. worker.start \in Nat /\ EndOfPage(worker.start) \in Nat
    BY ReadLimitAssumption, WorkerFields DEF EndOfPage
  <2>2. readModel' \in ReadModels
    <3>1. ASSUME EndOfPage(worker.start) > worker.start
          PROVE  ProjectInMemory(readModel, log, worker.start, EndOfPage(worker.start))
                   \in ReadModels
      BY <2>1, <3>1, ProjectInMemoryType
    <3> QED BY <1>18, <3>1 DEF Reconcile, ReadModels
  <2>3. published' \in Seq(Nat)
    <3>1. EndOfPage(worker.start) > worker.start =>
            Numbers(worker.start, EndOfPage(worker.start)) \in Seq(Nat)
      <4> SUFFICES ASSUME EndOfPage(worker.start) > worker.start
                   PROVE  Numbers(worker.start, EndOfPage(worker.start)) \in Seq(Nat)
        OBVIOUS
      <4>1. worker.start <= EndOfPage(worker.start)
        BY <2>1
      <4> HIDE DEF TypeOK, ProjectionTypeOK
      <4> QED BY <2>1, <4>1, NumbersType
    <3> DEFINE new == Numbers(worker.start, EndOfPage(worker.start))
    <3>2. (published' = published \o new /\ new \in Seq(Nat)) \/ published' = published
      BY <1>18, <3>1 DEF Reconcile
    <3> HIDE DEF new
    <3>3. published \o new \in Seq(Nat) \/ published' = published
      BY <3>2, ConcatProperties
    <3> QED BY <3>2, <3>3
  <2>4. budget' \in Budgets
    BY <1>18, FaultType DEF Reconcile
  <2>5. worker' \in Workers
    BY <1>18 DEF Reconcile, Workers, WorkerStates
  <2> QED BY <1>18, <2>2, <2>3, <2>4, <2>5 DEF Reconcile
<1>19. CASE SettleByReceipt
  <2> DEFINE unknown == Says(IF worker.err = "timeout" THEN "timeout" ELSE "failed")
             known == CASE receipt[Command].status = "accepted" -> Accepted(receipt[Command].seq)
                        [] receipt[Command].status = "rejected" -> Says("rejected")
                        [] OTHER -> unknown
  <2>1. receipt[Command] \in Receipts
    BY <1>19, CommandType DEF SettleByReceipt, Executing
  <2>2. unknown \in Answers /\ known \in Answers
    BY <2>1 DEF Receipts, Answers
  <2>3. \/ Answer(known) /\ UNCHANGED budget
        \/ Fault("outcomeRead") /\ Answer(unknown)
    BY <1>19 DEF SettleByReceipt
  <2> HIDE DEF unknown, known
  <2>4. /\ answer' \in [Dispatches -> Answers]
        /\ worker' \in Workers
        /\ lock' \in Holders
    BY <2>2, <2>3, AnswerType
  <2>5. budget' \in Budgets
    BY <2>3, FaultType
  <2> QED BY <1>19, <2>4, <2>5 DEF SettleByReceipt
<1>20. CASE SettleRejected
  <2>1. Says("invariant") \in Answers
    BY DEF Answers
  <2>2. /\ answer' \in [Dispatches -> Answers]
        /\ worker' \in Workers
        /\ lock' \in Holders
    BY <1>20, <2>1, AnswerType DEF SettleRejected
  <2>3. budget' \in Budgets
    BY <1>20, FaultType DEF SettleRejected
  <2>4. receipt' \in [Commands -> Receipts]
    <3>1. readModel.seq \in Nat
      BY DEF ReadModels
    <3>2. [receipt EXCEPT ![Command] = [status |-> "rejected", seq |-> readModel.seq]]
            \in [Commands -> Receipts]
      BY <3>1, RejectedType
    <3> QED BY <1>20, <3>2 DEF SettleRejected
  <2> QED BY <1>20, <2>2, <2>3, <2>4 DEF SettleRejected
<1>21. CASE SettleFailed
  <2>1. Says("failed") \in Answers
    BY DEF Answers
  <2>2. /\ answer' \in [Dispatches -> Answers]
        /\ worker' \in Workers
        /\ lock' \in Holders
    BY <1>21, <2>1, AnswerType DEF SettleFailed
  <2> QED BY <1>21, <2>2 DEF SettleFailed
<1>22. CASE FailBeforeCommit
  <2>1. worker' \in Workers
    BY <1>22, AbortType DEF FailBeforeCommit
  <2>2. budget' \in Budgets
    BY <1>22, FaultType DEF FailBeforeCommit
  <2> QED BY <1>22, <2>1, <2>2 DEF FailBeforeCommit
<1>23. CASE Interrupt
  BY <1>23 DEF Interrupt, Abort, Workers, WorkerStates, TimedStates
<1>24. CASE Replay
  <2>1. /\ rows' \in [Projectors -> Seq(Nat)] /\ cursor' \in [Projectors -> Nat]
        /\ boot' \in Replays
        /\ budget' \in Budgets
    <3>1. CASE BootReplayEvent /\ UNCHANGED budget
      <4>1. boot.next \in Nat
        BY DEF Replays
      <4>2. boot' \in Replays
        <5>1. [boot EXCEPT !.next = boot.next + 1] \in Replays
          <6> boot \in Replays
            OBVIOUS
          <6> HIDE DEF TypeOK, ProjectionTypeOK
          <6> QED BY <4>1 DEF Replays
        <5> QED BY <3>1, <5>1 DEF BootReplayEvent
      <4>3. cursor' \in [Projectors -> Nat]
        BY <3>1, <4>1 DEF BootReplayEvent
      <4> DEFINE p == BootOrder[boot.idx]
      <4>4. rows' = [rows EXCEPT ![p] = Append(@, boot.next)] \/ rows' = rows
        BY <3>1 DEF BootReplayEvent
      <4>5. rows' \in [Projectors -> Seq(Nat)]
        <5> HIDE DEF p
        <5>1. rows \in [Projectors -> Seq(Nat)]
          OBVIOUS
        <5> HIDE DEF TypeOK, ProjectionTypeOK
        <5>2. [rows EXCEPT ![p] = Append(@, boot.next)] \in [Projectors -> Seq(Nat)]
          BY <4>1, <5>1, RowsUpdate
        <5> QED BY <4>4, <5>1, <5>2
      <4> QED BY <3>1, <4>2, <4>3, <4>5
    <3>2. CASE BootNextProjector /\ UNCHANGED budget
      <4>2. boot.idx + 1 \in 1..(Len(BootOrder) + 1)
        BY BootOrderLength DEF Replays
      <4>3. boot' \in Replays
        BY <3>2, <4>2, BootAtType DEF BootNextProjector
      <4> QED BY <3>2, <4>3 DEF BootNextProjector
    <3>3. CASE BootFail /\ Fault("bootstrap")
      BY <3>3, FaultType, NotBootingType DEF BootFail
    <3> QED BY <1>24, <3>1, <3>2, <3>3 DEF Replay
  <2> QED BY <1>24, <2>1 DEF Replay
<1>25. CASE BeginCatchUp
  <2>1. boot' \in Replays
    BY <1>25, BootAtType, BootOrderLength DEF BeginCatchUp
  <2> QED BY <1>25, <2>1 DEF BeginCatchUp, Holders
<1>26. CASE EndCatchUp
  BY <1>26, NotBootingType DEF EndCatchUp, Holders
<1>27. CASE RequestRepair
  <2>1. budget' \in Budgets
    BY <1>27, BudgetUpdates DEF RequestRepair
  <2>2. repair' \in Repairs
    BY <1>27 DEF RequestRepair, Repairs
  <2> QED BY <1>27, <2>1, <2>2 DEF RequestRepair
<1>28. CASE ResetProjects
  <2>1. cursor' \in [Projectors -> Nat]
    BY <1>28 DEF ResetProjects
  <2>2. boot' \in Replays
    <3>1. 1 \in 1..(Len(BootOrder) + 1)
      BY BootOrderLength
    <3> DEFINE reset == [p \in Projectors |-> IF p \in Snapshot THEN 0 ELSE cursor[p]]
    <3>2. reset \in [Projectors -> Nat]
      OBVIOUS
    <3>3. boot' = BootAt(1, reset)
      BY <1>28 DEF ResetProjects
    <3> HIDE DEF reset
    <3> QED BY <3>1, <3>2, <3>3, BootAtType
  <2>3. rows["projects"] \in Seq(Nat) /\ rows' \in [Projectors -> Seq(Nat)]
    BY <1>28 DEF ResetProjects, Projectors
  <2>4. repair' \in Repairs
    BY <1>28, <2>3 DEF ResetProjects, Repairs
  <2> QED BY <1>28, <2>1, <2>2, <2>3, <2>4 DEF ResetProjects, Holders
<1>29. CASE FailRepair
  <2>1. budget' \in Budgets
    BY <1>29, FaultType DEF FailRepair
  <2>2. repair' \in Repairs
    BY <1>29 DEF FailRepair, NoRepair, Repairs
  <2> QED BY <1>29, <2>1, <2>2 DEF FailRepair
<1>30. ASSUME EndRepair
       PROVE  /\ repair' \in Repairs
              /\ boot' \in Replays
              /\ lock' \in Holders
  BY <1>30, NotBootingType DEF EndRepair, NoRepair, Repairs, Holders
<1>31. CASE RefreshReadModel
  <2>1. (CHOOSE n \in {cursor[p] : p \in Snapshot} : \A p \in Snapshot : n <= cursor[p]) \in Nat
    BY SnapshotMinimum
  <2>2. {rows["projects"][i] : i \in DOMAIN rows["projects"]} \subseteq Nat
    BY DEF Projectors
  <2>3. readModel' \in ReadModels /\ budget' \in Budgets
    BY <1>31, <2>1, <2>2, FaultType DEF RefreshReadModel, ReadModels
  <2> QED BY <1>31, <1>30, <2>3 DEF RefreshReadModel, EndRepair
<1>32. CASE RestoreBackup
  <2>1. rows' \in [Projectors -> Seq(Nat)] /\ cursor' \in [Projectors -> Nat]
        /\ budget' \in Budgets
    <3>1. repair.rows \in Seq(Nat) /\ repair.cursor \in [Projectors -> Nat]
      BY DEF Repairs
    <3> QED BY <1>32, <3>1, FaultType DEF RestoreBackup
  <2> QED BY <1>32, <1>30, <2>1 DEF RestoreBackup, EndRepair
<1>33. CASE Crash
  <2>1. answer' \in [Dispatches -> Answers]
    BY <1>33 DEF Crash, Answers
  <2>2. worker' \in Workers
    BY <1>33 DEF Crash, Down, Idle, Workers, WorkerStates
  <2>3. repair' \in Repairs
    BY <1>33 DEF Crash, NoRepair, Repairs
  <2>4. budget' \in Budgets
    BY <1>33, BudgetUpdates DEF Crash
  <2>5. boot' \in Replays
    BY <1>33, NotBootingType DEF Crash
  <2>6. readModel' \in ReadModels
    BY <1>33 DEF Crash, EmptyReadModel, ReadModels
  <2>7. queue' \in Seq(Dispatches) /\ published' \in Seq(Nat) /\ lock' \in Holders
    BY <1>33 DEF Crash, Holders
  <2>8. /\ due' \in [Dispatches -> BOOLEAN] /\ dirty' \in BOOLEAN
        /\ catchUp' \in {"idle", "waiting", "running"}
    BY <1>33 DEF Crash
  <2> QED BY <1>33, <2>1, <2>2, <2>3, <2>4, <2>5, <2>6, <2>7, <2>8 DEF Crash
<1>34. CASE Restart
  <2>1. boot' \in Replays
    BY <1>34, BootAtType, BootOrderLength DEF Restart
  <2>2. worker' \in Workers
    BY <1>34 DEF Restart, Starting, Idle, Workers, WorkerStates
  <2> QED BY <1>34, <2>1, <2>2 DEF Restart
<1>35. CASE FinishStart
  <2>1. readModel' \in ReadModels
    <3>1. EmptyReadModel \in ReadModels
      BY DEF EmptyReadModel, ReadModels
    <3>2. ProjectInMemory(EmptyReadModel, log, 0, Len(log)) \in ReadModels
      BY <3>1, ProjectInMemoryType
    <3> QED BY <1>35, <3>2 DEF FinishStart, ReadModels
  <2>2. worker' \in Workers /\ base' \in Nat
    BY <1>35, StartedType DEF FinishStart
  <2>3. boot' \in Replays
    BY <1>35, NotBootingType DEF FinishStart
  <2> QED BY <1>35, <2>1, <2>2, <2>3 DEF FinishStart
<1> HIDE DEF TypeOK
<1> QED BY <1>1, <1>2, <1>3, <1>4, <1>5, <1>6, <1>7, <1>8, <1>9, <1>10, <1>11,
           <1>12, <1>13, <1>14, <1>15, <1>16, <1>17, <1>18, <1>19, <1>20, <1>21,
           <1>22, <1>23, <1>24, <1>25, <1>26, <1>27, <1>28, <1>29, <1>31, <1>32,
           <1>33, <1>34, <1>35 DEF Next, Clients, WorkerStep

-----------------------------------------------------------------------------
(* The invariants that the receipts and the answers rest on                *)

\* What the invariants are about; the replay, the catch-up and repairState
\* touch none of it.
coreVars == <<worker, queue, exec, answer, receipt, log>>

\* The steps that do touch it.
LEMMA OtherSteps ==
  ASSUME Next
  PROVE  \/ UNCHANGED coreVars
         \/ \E d \in Dispatches : Submit(d) \/ Abandon(d)
         \/ Take \/ AcquireLock \/ WorkerStep \/ FailBeforeCommit \/ Interrupt
         \/ Crash \/ Restart \/ FinishStart
<1>1. ASSUME NEW d \in Dispatches, DeadlinePasses(d) PROVE UNCHANGED coreVars
  BY <1>1 DEF DeadlinePasses, coreVars, storeVars
<1>2. CASE Replay
  BY <1>2 DEF Replay, coreVars, storeVars, clientVars
<1>3. CASE BeginCatchUp \/ EndCatchUp
  BY <1>3 DEF BeginCatchUp, EndCatchUp, coreVars, storeVars, clientVars
<1>4. CASE RequestRepair \/ ResetProjects \/ FailRepair
  BY <1>4 DEF RequestRepair, ResetProjects, FailRepair, coreVars, storeVars, clientVars
<1>5. CASE RefreshReadModel \/ RestoreBackup
  BY <1>5 DEF RefreshReadModel, RestoreBackup, EndRepair, coreVars, storeVars, clientVars
<1>6. QED BY <1>1, <1>2, <1>3, <1>4, <1>5 DEF Next, Clients

\* Every step keeps WorkerInv.
LEMMA WorkerInvStep ==
  ASSUME TypeOK, WorkerInv, Next
  PROVE  WorkerInv'
<1>0. worker \in Workers
  BY DEF TypeOK
<1> USE DEF WorkerInv, Executing
<1>1. CASE UNCHANGED coreVars
  BY <1>1 DEF coreVars
<1>2. ASSUME NEW d \in Dispatches, Submit(d) \/ Abandon(d) PROVE WorkerInv'
  BY <1>2 DEF Submit, Abandon
<1>3. CASE Take
  <2>1. Head(queue) \in Dispatches
    BY <1>3, HeadTailProperties DEF Take, TypeOK
  <2>2. worker'.pc = "lock" /\ worker'.d = Head(queue)
    BY <1>0, <1>3 DEF Take, Workers
  <2> QED BY <2>1, <2>2
<1>4. CASE AcquireLock \/ Start \/ NoReceiptYet \/ InstallReadModel \/ DeferredDone \/ Reconcile
  BY <1>0, <1>4 DEF AcquireLock, Start, NoReceiptYet, InstallReadModel, DeferredDone, Reconcile,
                    Goto, Abort, Workers
<1>5. CASE RejectCommand \/ RefuseEmptyCommand \/ FailBeforeCommit \/ Interrupt
  <2>1. worker.pc \in TimedStates
    BY <1>5, EngineAssumption DEF RejectCommand, RefuseEmptyCommand, FailBeforeCommit, Interrupt,
                                  TimedStates
  <2>2. worker'.pc = "reconcile" /\ worker'.d = worker.d
    <3>1. PICK err : Abort(err)
      BY <1>5 DEF RejectCommand, RefuseEmptyCommand, FailBeforeCommit, Interrupt
    <3> QED BY <1>0, <3>1 DEF Abort, Workers
  <2> QED BY <2>1, <2>2 DEF TimedStates
<1>6. CASE ProjectNextDeferred \/ PublishNext
  BY <1>0, <1>6 DEF ProjectNextDeferred, PublishNext, Workers
<1>7. CASE Commit
  <2>1. worker.d \in Dispatches /\ Command \in Commands
    BY <1>7, CommandType DEF Commit
  <2>2. LET newLog == log \o Block(Command, worker.d)
        IN  /\ worker'.pc = "install" /\ worker'.d = worker.d
            /\ worker'.first = Len(log) + 1 /\ worker'.last = Len(newLog)
    BY <1>0, <1>7 DEF Commit, Workers
  <2>3. EventsOf[Command] # <<>> /\ log \in Seq(Events)
    BY <1>7 DEF Commit, TypeOK, ProjectionTypeOK
  <2>4. Len(log) \in Nat /\ Len(log) + 1 <= Len(log \o Block(Command, worker.d))
    BY <2>1, <2>3, AppendedLog
  <2> QED BY <2>1, <2>2, <2>4
<1>8. CASE SkipAbandoned \/ ReplayReceipt \/ Succeed \/ SettleByReceipt \/ SettleRejected
           \/ SettleFailed
  <2>1. worker' = Idle
    BY <1>8 DEF SkipAbandoned, ReplayReceipt, Succeed, SettleByReceipt, SettleRejected,
                SettleFailed, Answer
  <2> QED BY <2>1 DEF Idle
<1>9. CASE Crash \/ Restart \/ FinishStart
  <2>1. worker' \in {Down, Starting, Idle}
    BY <1>9 DEF Crash, Restart, FinishStart
  <2> QED BY <2>1 DEF Down, Starting, Idle
<1>10. QED
  BY OtherSteps, <1>1, <1>2, <1>3, <1>4, <1>5, <1>6, <1>7, <1>8, <1>9 DEF WorkerStep

\* An envelope that the caller may still abandon, or that is being executed,
\* is unanswered: the queue and the worker never hold the answered dispatch
\* of a live caller as queued.
EnvelopeInv ==
  /\ worker.pc \in Executing =>
       exec[worker.d] = "in-flight" /\ answer[worker.d] = Unanswered
  /\ worker.pc \in {"lock", "start"} =>
       (exec[worker.d] = "queued" => answer[worker.d] = Unanswered)
  /\ \A i \in 1..Len(queue) :
       exec[queue[i]] = "queued" => answer[queue[i]] = Unanswered

\* Between the receipt's lookup and the decision's receipt nobody else writes
\* one: the command that is decided, or that was refused, has none.
DecisionInv ==
  /\ worker.pc = "decide" => receipt[Command] = NoReceipt
  /\ worker.pc \in {"reconcile", "settle"} /\ worker.err = "invariant" =>
       receipt[Command] = NoReceipt

\* Every step keeps EnvelopeInv.
LEMMA EnvelopeInvStep ==
  ASSUME TypeOK, WorkerInv, EnvelopeInv, Next
  PROVE  EnvelopeInv'
<1>0. /\ worker \in Workers /\ queue \in Seq(Dispatches)
      /\ exec \in [Dispatches -> {"none", "queued", "in-flight", "abandoned"}]
      /\ answer \in [Dispatches -> Answers]
  BY DEF TypeOK
<1>q. \A i \in 1..Len(queue) : queue[i] \in Dispatches
  BY <1>0
<1> USE DEF EnvelopeInv, Executing
<1>1. CASE UNCHANGED coreVars
  BY <1>1 DEF coreVars
<1>2. ASSUME NEW d \in Dispatches, Submit(d) PROVE EnvelopeInv'
  <2>1. /\ Len(queue') = Len(queue) + 1
        /\ \A i \in 1..Len(queue) : queue'[i] = queue[i]
        /\ queue'[Len(queue) + 1] = d
    BY <1>0, <1>2, AppendProperties DEF Submit
  <2>2. exec[d] = "none" /\ answer[d] = Unanswered /\ answer' = answer /\ worker' = worker
    BY <1>2 DEF Submit
  <2>3. exec'[d] = "queued" /\ \A e \in Dispatches : e # d => exec'[e] = exec[e]
    BY <1>0, <1>2 DEF Submit
  <2>4. worker.pc \in {"lock", "start"} \cup Executing => worker.d \in Dispatches
    BY DEF WorkerInv
  <2>5. Len(queue) \in Nat
    BY <1>0
  <2> QED BY <1>q, <2>1, <2>2, <2>3, <2>4, <2>5
<1>3. ASSUME NEW d \in Dispatches, Abandon(d) PROVE EnvelopeInv'
  <2>1. exec'[d] = "abandoned" /\ \A e \in Dispatches : e # d => exec'[e] = exec[e]
    BY <1>0, <1>3 DEF Abandon
  <2>2. \A e \in Dispatches : e # d => answer'[e] = answer[e]
    BY <1>0, <1>3 DEF Abandon
  <2>3. exec[d] = "queued" /\ worker' = worker /\ queue' = queue
    BY <1>3 DEF Abandon
  <2>4. worker.pc \in {"lock", "start"} \cup Executing => worker.d \in Dispatches
    BY DEF WorkerInv
  <2> QED BY <1>q, <2>1, <2>2, <2>3, <2>4
<1>4. CASE Take
  <2>1. queue # <<>> /\ queue' = Tail(queue) /\ exec' = exec /\ answer' = answer
    BY <1>4 DEF Take
  <2>2. /\ Len(queue') = Len(queue) - 1 /\ Len(queue) \in Nat \ {0}
        /\ \A i \in 1..Len(queue') : queue'[i] = queue[i + 1]
    BY <1>0, <2>1, HeadTailProperties, EmptySeq
  <2>3. worker'.pc = "lock" /\ worker'.d = queue[1]
    BY <1>0, <1>4 DEF Take, Workers
  <2>4. \A i \in 1..Len(queue') : i + 1 \in 1..Len(queue)
    BY <2>2
  <2>5. 1 \in 1..Len(queue)
    BY <2>2
  <2> QED BY <2>1, <2>2, <2>3, <2>4, <2>5
<1>5. CASE AcquireLock \/ NoReceiptYet \/ InstallReadModel \/ DeferredDone \/ Reconcile
  <2>1. UNCHANGED clientVars /\ worker'.d = worker.d
    BY <1>0, <1>5 DEF AcquireLock, NoReceiptYet, InstallReadModel, DeferredDone, Reconcile,
                      Goto, Workers
  <2>2. \/ worker.pc = "lock" /\ worker'.pc = "start"
        \/ worker.pc \in Executing /\ worker'.pc \in Executing
    BY <1>0, <1>5 DEF AcquireLock, NoReceiptYet, InstallReadModel, DeferredDone, Reconcile,
                      Goto, Workers
  <2> QED BY <2>1, <2>2 DEF clientVars
<1>6. CASE RejectCommand \/ RefuseEmptyCommand \/ FailBeforeCommit \/ Interrupt
  <2>1. worker.pc \in TimedStates /\ UNCHANGED clientVars
    BY <1>6, EngineAssumption DEF RejectCommand, RefuseEmptyCommand, FailBeforeCommit, Interrupt,
                                  TimedStates
  <2>2. worker'.pc = "reconcile" /\ worker'.d = worker.d
    <3>1. PICK err : Abort(err)
      BY <1>6 DEF RejectCommand, RefuseEmptyCommand, FailBeforeCommit, Interrupt
    <3> QED BY <1>0, <3>1 DEF Abort, Workers
  <2> QED BY <2>1, <2>2 DEF TimedStates, clientVars
<1>7. CASE ProjectNextDeferred \/ PublishNext \/ Commit
  <2>1. UNCHANGED clientVars /\ worker'.d = worker.d
    BY <1>0, <1>7 DEF ProjectNextDeferred, PublishNext, Commit, Workers
  <2>2. worker.pc \in Executing /\ worker'.pc \in Executing
    BY <1>0, <1>7 DEF ProjectNextDeferred, PublishNext, Commit, Workers
  <2> QED BY <2>1, <2>2 DEF clientVars
<1>8. CASE Start
  <2>1. worker.pc = "start" /\ worker.d \in Dispatches /\ exec[worker.d] = "queued"
    BY <1>8 DEF Start, WorkerInv
  <2>2. answer' = answer /\ queue' = queue
    BY <1>8 DEF Start
  <2>3. exec'[worker.d] = "in-flight" /\ \A e \in Dispatches : e # worker.d => exec'[e] = exec[e]
    BY <1>0, <1>8, <2>1 DEF Start
  <2>4. worker'.d = worker.d /\ worker'.pc \in {"reconcile", "receipt"}
    BY <1>0, <1>8 DEF Start, Goto, Abort, Workers
  <2> QED BY <1>q, <2>1, <2>2, <2>3, <2>4
<1>9. CASE SkipAbandoned
  BY <1>9 DEF SkipAbandoned, Idle, clientVars
<1>10. CASE ReplayReceipt \/ Succeed \/ SettleByReceipt \/ SettleRejected \/ SettleFailed
  <2>1. worker.d \in Dispatches /\ exec[worker.d] = "in-flight" /\ queue' = queue /\ exec' = exec
    BY <1>10 DEF ReplayReceipt, Succeed, SettleByReceipt, SettleRejected, SettleFailed, WorkerInv
  <2>2. PICK a : Answer(a)
    BY <1>10 DEF ReplayReceipt, Succeed, SettleByReceipt, SettleRejected, SettleFailed
  <2>3. worker' = Idle /\ \A e \in Dispatches : e # worker.d => answer'[e] = answer[e]
    BY <1>0, <2>2 DEF Answer
  <2> QED BY <1>q, <2>1, <2>3 DEF Idle
<1>11. CASE Crash
  BY <1>11 DEF Crash, Down, Idle
<1>12. CASE Restart \/ FinishStart
  <2>1. worker' \in {Down, Starting, Idle} /\ UNCHANGED clientVars
    BY <1>12 DEF Restart, FinishStart
  <2> QED BY <2>1 DEF Down, Starting, Idle, clientVars
<1>13. QED
  BY OtherSteps, <1>1, <1>2, <1>3, <1>4, <1>5, <1>6, <1>7, <1>8, <1>9, <1>10, <1>11, <1>12
  DEF WorkerStep

\* Every step keeps DecisionInv.
LEMMA DecisionInvStep ==
  ASSUME TypeOK, WorkerInv, DecisionInv, Next
  PROVE  DecisionInv'
<1>0. worker \in Workers /\ receipt \in [Commands -> Receipts]
  BY DEF TypeOK
<1> USE DEF DecisionInv, Command
<1>1. CASE UNCHANGED coreVars
  BY <1>1 DEF coreVars
<1>2. ASSUME NEW d \in Dispatches, Submit(d) \/ Abandon(d) PROVE DecisionInv'
  BY <1>2 DEF Submit, Abandon, storeVars
<1>3. CASE Take \/ AcquireLock \/ NoReceiptYet \/ InstallReadModel \/ DeferredDone \/ Reconcile
  BY <1>0, <1>3 DEF Take, AcquireLock, NoReceiptYet, InstallReadModel, DeferredDone, Reconcile,
                    Goto, Workers, storeVars
<1>4. CASE Start
  BY <1>0, <1>4 DEF Start, Goto, Abort, Workers, storeVars
<1>5. CASE RefuseEmptyCommand \/ FailBeforeCommit \/ Interrupt
  <2>1. PICK err \in {"failed", "defect", "timeout"} : Abort(err)
    BY <1>5 DEF RefuseEmptyCommand, FailBeforeCommit, Interrupt
  <2>2. worker'.pc = "reconcile" /\ worker'.err # "invariant"
    BY <1>0, <2>1 DEF Abort, Workers
  <2> QED BY <2>2
<1>6. CASE RejectCommand
  <2>1. worker'.pc = "reconcile" /\ worker'.d = worker.d
    BY <1>0, <1>6 DEF RejectCommand, Abort, Workers
  <2> QED BY <1>6, <2>1 DEF RejectCommand, storeVars
<1>7. CASE ProjectNextDeferred \/ PublishNext \/ Commit
  BY <1>0, <1>7 DEF ProjectNextDeferred, PublishNext, Commit, Workers, storeVars
<1>8. CASE SkipAbandoned \/ ReplayReceipt \/ Succeed \/ SettleByReceipt \/ SettleRejected
           \/ SettleFailed
  <2>1. worker' = Idle
    BY <1>8 DEF SkipAbandoned, ReplayReceipt, Succeed, SettleByReceipt, SettleRejected,
                SettleFailed, Answer
  <2> QED BY <2>1 DEF Idle
<1>9. CASE Crash \/ Restart \/ FinishStart
  <2>1. worker' \in {Down, Starting, Idle}
    BY <1>9 DEF Crash, Restart, FinishStart
  <2> QED BY <2>1 DEF Down, Starting, Idle
<1>10. QED
  BY OtherSteps, <1>1, <1>2, <1>3, <1>4, <1>5, <1>6, <1>7, <1>8, <1>9 DEF WorkerStep

\* Only the commit and the receipt of a rejection write the log or the
\* receipts.
LEMMA StoreSteps ==
  ASSUME Next
  PROVE  UNCHANGED storeVars \/ Commit \/ SettleRejected
<1>1. ASSUME NEW d \in Dispatches, Submit(d) \/ Abandon(d) PROVE UNCHANGED storeVars
  BY <1>1 DEF Submit, Abandon
<1>2. CASE Take \/ AcquireLock \/ FailBeforeCommit \/ Interrupt
  BY <1>2 DEF Take, AcquireLock, FailBeforeCommit, Interrupt
<1>3. CASE WorkerStep
  BY <1>3 DEF WorkerStep, SkipAbandoned, Start, ReplayReceipt, NoReceiptYet, RejectCommand,
     RefuseEmptyCommand, InstallReadModel, ProjectNextDeferred, DeferredDone, PublishNext,
     Succeed, Reconcile, SettleByReceipt, SettleFailed
<1>4. CASE Crash \/ Restart \/ FinishStart
  BY <1>4 DEF Crash, Restart, FinishStart
<1>5. CASE UNCHANGED coreVars
  BY <1>5 DEF coreVars, storeVars
<1>6. QED BY OtherSteps, <1>1, <1>2, <1>3, <1>4, <1>5

-----------------------------------------------------------------------------
(* The log                                                                 *)

\* Every step keeps the log whole: Commit adds the events of a command that
\* had none, and a rejection is only written for a command without events.
LEMMA OnceAndWholeStep ==
  ASSUME TypeOK, WorkerInv, DecisionInv, OnceAndWhole, Next
  PROVE  OnceAndWhole'
<1> SUFFICES ASSUME NEW c \in Commands PROVE WholeOrAbsent(c)'
  BY DEF OnceAndWhole
<1>0. /\ log \in Seq(Events) /\ receipt \in [Commands -> Receipts]
      /\ Len(log) \in Nat /\ DOMAIN log = 1..Len(log)
      /\ WholeOrAbsent(c)
  BY DEF TypeOK, ProjectionTypeOK, OnceAndWhole
<1>1. CASE UNCHANGED storeVars
  BY <1>0, <1>1 DEF WholeOrAbsent, EventsBy, storeVars
<1>2. CASE Commit
  <2>1. PICK cmd \in Commands : cmd = Command
    BY <1>2, CommandType DEF Commit, Executing
  <2> DEFINE kinds == EventsOf[cmd]
             end == Len(log) + Len(kinds)
  <2>2. /\ log' = log \o Block(cmd, worker.d)
        /\ receipt' = [receipt EXCEPT ![cmd] = [status |-> "accepted", seq |-> Len(log')]]
        /\ worker.d \in Dispatches
    BY <1>2, <2>1 DEF Commit, WorkerInv, Executing
  <2>3. Len(kinds) \in Nat
    BY EngineAssumption
  <2>4. /\ log' \in Seq(Events) /\ Len(log') = end /\ end \in Nat /\ Len(log) <= end
        /\ \A n \in 1..Len(log) : log'[n] = log[n]
        /\ \A n \in (Len(log) + 1)..end :
             log'[n].cmd = cmd /\ log'[n].kind = kinds[n - Len(log)]
    BY <1>0, <2>2, AppendedLog
  <2>5. DOMAIN log' = 1..end
    <3> HIDE DEF end
    <3> QED BY <2>4
  <2>6. CASE c = cmd
    <3>1. \A n \in 1..Len(log) : log[n].cmd # c
      <4>1. EventsBy(c) = {}
        BY <1>0, <1>2, <2>1, <2>6 DEF Commit, DecisionInv, NoReceipt, WholeOrAbsent
      <4> QED BY <1>0, <4>1 DEF EventsBy
    <3>2. receipt'[c].status = "accepted" /\ receipt'[c].seq = end
      BY <1>0, <2>2, <2>4, <2>6
    <3>3. end - Len(kinds) + 1 = Len(log) + 1
      BY <1>0, <2>3
    <3>4. {n \in DOMAIN log' : log'[n].cmd = c} = (Len(log) + 1)..end
      <4> HIDE DEF kinds
      <4> QED BY <1>0, <2>4, <2>5, <2>6, <3>1
    <3>5. \A n \in (Len(log) + 1)..end : log'[n].kind = kinds[n - (Len(log) + 1) + 1]
      <4>1. \A n \in (Len(log) + 1)..end : n - (Len(log) + 1) + 1 = n - Len(log)
        BY <1>0, <2>3
      <4> QED BY <2>4, <4>1
    <3> QED BY <2>6, <3>2, <3>3, <3>4, <3>5 DEF WholeOrAbsent, EventsBy
  <2>7. CASE c # cmd
    <3>1. receipt'[c] = receipt[c]
      BY <2>2, <2>7
    <3>2. {n \in DOMAIN log' : log'[n].cmd = c} = EventsBy(c)
      <4> HIDE DEF kinds
      <4> QED BY <1>0, <2>4, <2>5, <2>7 DEF EventsBy
    <3>3. \A n \in EventsBy(c) : log'[n] = log[n]
      BY <1>0, <2>4 DEF EventsBy
    <3> QED BY <1>0, <3>1, <3>2, <3>3 DEF WholeOrAbsent, EventsBy
  <2> QED BY <2>6, <2>7
<1>3. CASE SettleRejected
  <2>1. log' = log
    BY <1>3 DEF SettleRejected
  <2>2. \/ receipt'[c] = receipt[c]
        \/ receipt[c] = NoReceipt /\ receipt'[c].status = "rejected"
    <3>1. receipt[Command] = NoReceipt
      BY <1>3 DEF SettleRejected, DecisionInv
    <3>2. CASE receipt' = receipt
      BY <3>2
    <3>3. CASE receipt' = [receipt EXCEPT ![Command] =
                              [status |-> "rejected", seq |-> readModel.seq]]
      BY <1>0, <3>1, <3>3
    <3> QED BY <1>3, <3>2, <3>3 DEF SettleRejected
  <2> QED BY <1>0, <2>1, <2>2 DEF WholeOrAbsent, EventsBy, NoReceipt
<1>4. QED BY StoreSteps, <1>1, <1>2, <1>3

-----------------------------------------------------------------------------
(* The theorems                                                            *)

\* The inductive invariant.
IInv == TypeOK /\ WorkerInv /\ EnvelopeInv /\ DecisionInv /\ OnceAndWhole

\* It holds when the process first starts.
LEMMA InitIInv ==
  ASSUME Init PROVE IInv
<1>1. TypeOK
  <2>1. ProjectionTypeOK /\ worker \in Workers
    BY StartedType, NotBootingType DEF Init, ProjectionTypeOK
  <2>2. receipt \in [Commands -> Receipts] /\ answer \in [Dispatches -> Answers]
    BY DEF Init, NoReceipt, Receipts, Unanswered, Answers
  <2>3. readModel \in ReadModels /\ repair \in Repairs /\ lock \in Holders
    BY DEF Init, EmptyReadModel, ReadModels, Holders, NoRepair, Repairs
  <2>4. budget \in Budgets
    BY EngineAssumption DEF Init, Budgets
  <2>5. /\ queue \in Seq(Dispatches) /\ published \in Seq(Nat) /\ base \in Nat
        /\ exec \in [Dispatches -> {"none", "queued", "in-flight", "abandoned"}]
        /\ catchUp \in {"idle", "waiting", "running"}
    BY DEF Init
  <2>6. due \in [Dispatches -> BOOLEAN] /\ dirty \in BOOLEAN
    BY DEF Init
  <2> QED BY <2>1, <2>2, <2>3, <2>4, <2>5, <2>6 DEF TypeOK
<1>2. WorkerInv /\ EnvelopeInv /\ DecisionInv
  BY DEF Init, Idle, WorkerInv, EnvelopeInv, DecisionInv, Executing
<1>3. OnceAndWhole
  BY DEF Init, OnceAndWhole, WholeOrAbsent, EventsBy, NoReceipt
<1>4. QED BY <1>1, <1>2, <1>3 DEF IInv

\* It depends on nothing but the variables.
LEMMA StutterIInv ==
  ASSUME IInv, UNCHANGED vars PROVE IInv'
BY DEF IInv, TypeOK, ProjectionTypeOK, WorkerInv, EnvelopeInv, DecisionInv, OnceAndWhole,
   WholeOrAbsent, EventsBy, Command, vars, projectionVars, storeVars, clientVars, memoryVars

\* It holds in every state of every behaviour.
THEOREM Invariance == Spec => []IInv
<1>1. IInv /\ [Next]_vars => IInv'
  BY StutterIInv, TypeStep, WorkerInvStep, EnvelopeInvStep, DecisionInvStep, OnceAndWholeStep
  DEF IInv
<1>2. QED BY InitIInv, <1>1, PTL DEF Spec

\* Every variable always holds a value of its type.
THEOREM TypeCorrect == Spec => []TypeOK
<1>1. IInv => TypeOK
  BY DEF IInv
<1>2. QED BY Invariance, <1>1, PTL

\* Commands are deduplicated by their receipts and committed atomically:
\* whatever is retried, rolled back, interrupted or lost in a crash, the log
\* holds the events of an accepted command once, together and in order,
\* ending at the sequence in the receipt, and none of any other command.
THEOREM CommandsOnceAndWhole == Spec => []OnceAndWhole
<1>1. IInv => OnceAndWhole
  BY DEF IInv
<1>2. QED BY Invariance, <1>1, PTL

\* Only the caller's timer, the end of the process and the worker's answer to
\* the dispatch it executes change an answer.
LEMMA AnswerSteps ==
  ASSUME Next
  PROVE  \/ answer' = answer
         \/ \E d \in Dispatches : Abandon(d)
         \/ Crash
         \/ (worker.pc \in Executing /\ \E a : Answer(a))
<1>1. ASSUME NEW d \in Dispatches, Submit(d) PROVE answer' = answer
  BY <1>1 DEF Submit
<1>2. CASE Take \/ AcquireLock \/ FailBeforeCommit \/ Interrupt \/ Restart \/ FinishStart
  BY <1>2 DEF Take, AcquireLock, FailBeforeCommit, Interrupt, Restart, FinishStart, clientVars
<1>3. CASE WorkerStep
  BY <1>3 DEF WorkerStep, SkipAbandoned, Start, ReplayReceipt, NoReceiptYet, RejectCommand, Commit,
     RefuseEmptyCommand, InstallReadModel, ProjectNextDeferred, DeferredDone, PublishNext,
     Succeed, Reconcile, SettleByReceipt, SettleRejected, SettleFailed, clientVars, Executing
<1>4. CASE UNCHANGED coreVars
  BY <1>4 DEF coreVars
<1>5. QED BY OtherSteps, <1>1, <1>2, <1>3, <1>4

\* A step that changes no receipt and no answer already given.
Kept ==
  /\ \A c \in Commands : receipt[c] # NoReceipt => receipt'[c] = receipt[c]
  /\ \A d \in Dispatches : answer[d] # Unanswered => answer'[d] = answer[d]

\* No step changes a receipt or an answer already given.
LEMMA KeptStep ==
  ASSUME IInv, Next PROVE Kept
<1>0. /\ receipt \in [Commands -> Receipts] /\ answer \in [Dispatches -> Answers]
      /\ WorkerInv /\ EnvelopeInv /\ DecisionInv
  BY DEF IInv, TypeOK
<1>1. ASSUME NEW c \in Commands, receipt[c] # NoReceipt PROVE receipt'[c] = receipt[c]
  <2>1. CASE UNCHANGED storeVars
    BY <2>1 DEF storeVars
  <2>2. CASE Commit
    <3>1. receipt[Command] = NoReceipt
      BY <1>0, <2>2 DEF Commit, DecisionInv
    <3> QED BY <1>0, <1>1, <2>2, <3>1 DEF Commit
  <2>3. CASE SettleRejected
    <3>1. receipt[Command] = NoReceipt
      BY <1>0, <2>3 DEF SettleRejected, DecisionInv
    <3> QED BY <1>0, <1>1, <2>3, <3>1 DEF SettleRejected
  <2> QED BY StoreSteps, <2>1, <2>2, <2>3
<1>2. ASSUME NEW d \in Dispatches, answer[d] # Unanswered PROVE answer'[d] = answer[d]
  <2>1. ASSUME NEW e \in Dispatches, Abandon(e) PROVE answer'[d] = answer[d]
    BY <1>0, <1>2, <2>1 DEF Abandon
  <2>2. CASE Crash
    BY <1>2, <2>2 DEF Crash
  <2>3. CASE worker.pc \in Executing /\ \E a : Answer(a)
    <3>1. answer[worker.d] = Unanswered
      BY <1>0, <2>3 DEF EnvelopeInv
    <3> QED BY <1>0, <1>2, <2>3, <3>1 DEF Answer
  <2> QED BY AnswerSteps, <2>1, <2>2, <2>3
<1>3. QED BY <1>1, <1>2 DEF Kept

\* What was decided stays decided: no retry, timeout, failure, repair or
\* restart changes the receipt of a command or the answer a caller was given.
THEOREM DecisionsFinal == Spec => DecidedOnce
<1>1. IInv /\ [Next]_vars => [Kept]_vars
  BY KeptStep
<1>2. DecidedOnce <=> [][Kept]_vars
  BY DEF DecidedOnce, Kept
<1>3. QED BY Invariance, <1>1, <1>2, PTL DEF Spec

=============================================================================
