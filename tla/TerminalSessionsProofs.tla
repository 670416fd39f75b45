----------------------- MODULE TerminalSessionsProofs -----------------------
(***************************************************************************)
(* Theorems about TerminalSessions, for any terminals, threads, requests,  *)
(* limits and crashes: no shell is left to itself (NoShellLeftAlone), none *)
(* survives a restart (NoneSurvives), few sessions are retained            *)
(* (FewStay), transcripts are kept (TranscriptsStay) and attaching finds no*)
(* mark (NoMarkFound).  One inductive invariant, IInv, carries all five.   *)
(***************************************************************************)
EXTENDS TerminalSessions, SequenceTheorems, FiniteSetTheorems, WellFoundedInduction, TLAPS

-----------------------------------------------------------------------------
(* Types                                                                   *)

Transcripts == Seq(1..MaxSpawns)

Statuses == {"starting", "running", "slept", "exited", "error"}

Objects == [key : Terminals, status : Statuses, shell : Shells \cup {None},
            transcript : Transcripts]

Writes == [content : Transcripts, by : Calls \cup {None}]

Files == [file : Transcripts \cup {None}, pending : Transcripts \cup {None},
          queue : Seq(Writes), strays : SUBSET (Seq(Writes) \ {<<>>})]

Stages == {"idle", "waiting", "flush", "persist", "spawn", "done"}

CallStates == [pc : Stages, kind : Kinds, key : Terminals \cup {None}, obj : Nat \cup {None}]

\* An order of sessions of S: a function to the later ones.
Order(ord, S) == ord = [x \in DOMAIN ord |-> ord[x]] /\ DOMAIN ord \subseteq S

\* Every variable holds a value of its type.
Typed ==
  /\ up \in BOOLEAN
  /\ object \in Seq(Objects) /\ Order(order, DOMAIN object)
  /\ call \in [Calls -> CallStates] /\ lock \in [Threads -> Seq(Calls)]
  /\ shell \in [Shells -> {"none", "live", "dead", "gone"}]
  /\ killing \subseteq Shells /\ tracked \subseteq Shells
  /\ persist \in [Terminals -> Files]
  /\ fresh \subseteq Terminals /\ last \in [Terminals -> Transcripts]
  /\ lost \subseteq DOMAIN object /\ harmed \subseteq Terminals

-----------------------------------------------------------------------------
(* The inductive invariant                                                 *)

\* The calls that start a shell.
Starts == {"open", "reopen", "restart"}

\* A call at work, as opposed to one that waits its turn.
AtWork(c) == call[c].pc \in {"flush", "persist", "spawn"}

\* The queue of a thread holds calls of that thread, none of them twice.
Queued ==
  \A t \in Threads :
    /\ \A i \in DOMAIN lock[t] :
         /\ call[lock[t][i]].pc \notin {"idle", "done"}
         /\ call[lock[t][i]].key \in Terminals /\ Thread(lock[t][i]) = t
    /\ \A i, j \in DOMAIN lock[t] : lock[t][i] = lock[t][j] => i = j

\* A call at work holds the lock of its thread, at a stage of its kind.
Exclusive ==
  \A c \in Calls :
    /\ AtWork(c) => call[c].key \in Terminals /\ Holds(c)
    /\ call[c].pc = "persist" => call[c].kind \in Starts \cup {"clear", "sleep"}
    /\ call[c].pc = "spawn" => call[c].kind \in Starts
    /\ call[c].pc = "flush" => call[c].kind \in Opens \cup Closes

\* A session without a shell that does not run.
Still(objects, o) == objects[o].shell = None /\ objects[o].status # "running"

\* A call and its session: there is none before the call is made; it has the
\* call's terminal; as long as the call works on it, it is in the map, unless
\* it was evicted meanwhile; it has no shell before it gets one; and while a
\* call waits for the writes of a terminal no session of that terminal is in
\* the map.
Serves(c) ==
  /\ call[c].pc = "idle" => call[c] = NoCall
  /\ call[c].obj # None =>
       call[c].obj \in DOMAIN object /\ object[call[c].obj].key = call[c].key
  /\ call[c].kind = "sleep" => call[c].obj # None
  /\ call[c].pc \in {"persist", "spawn"} =>
       /\ call[c].obj \in DOMAIN order \cup lost
       /\ call[c].kind \in Starts => Still(object, call[c].obj)
  /\ call[c].pc = "flush" /\ call[c].kind \in Opens =>
       \A o \in DOMAIN order : object[o].key # call[c].key
  /\ call[c].pc = "flush" /\ call[c].kind \in Closes =>
       \A o \in DOMAIN order : object[o].key \notin Closing(c)

\* A session that has a shell runs, and is in the map or was evicted while it
\* was worked on; a terminal has one session in the map.
Sessions(objects, ord) ==
  /\ \A o \in DOMAIN objects : objects[o].shell # None =>
       objects[o].status = "running" /\ o \in DOMAIN ord \cup lost
  /\ \A x, y \in DOMAIN ord : objects[x].key = objects[y].key => x = y

\* The sessions of the map are in one line by their last update.
Sorted(ord) ==
  /\ \A x \in DOMAIN ord : ord[x] \subseteq DOMAIN ord \ {x}
  /\ \A x, y \in DOMAIN ord : x # y => x \in ord[y] \/ y \in ord[x]
  /\ \A x, y \in DOMAIN ord : y \in ord[x] => ord[y] \subseteq ord[x]

\* What the next session of a terminal starts from.
Stored(file) == IF file.file = None THEN <<>> ELSE file.file

\* What the file will hold when the writes are done.
Coming(file) ==
  IF file.pending # None THEN file.pending
  ELSE IF file.queue # <<>> THEN file.queue[Len(file.queue)].content
  ELSE Stored(file)

\* Session and file agree with what the user has seen, for terminals that
\* were not harmed.
Agree(objects, ord, files, seen) ==
  \A k \in Terminals \ harmed :
    /\ \A o \in DOMAIN ord : objects[o].key = k => objects[o].transcript = seen[k]
    /\ files[k].strays = {}
    /\ Coming(files[k]) = seen[k]

\* The pid of every live shell is in the file of pids.
Tracked == \A p \in Shells : shell[p] = "live" => p \in tracked

\* Whose start is marked is being started.
Marked ==
  \A k \in fresh : \E c \in Calls :
    call[c].key = k /\ call[c].kind \in Opens /\ call[c].pc \in {"persist", "spawn"}

\* The inductive invariant.
IInv ==
  /\ Typed /\ Queued /\ Exclusive /\ \A c \in Calls : Serves(c)
  /\ Sessions(object, order) /\ Sorted(order)
  /\ \A o \in lost : object[o].key \in harmed
  /\ Agree(object, order, persist, last)
  /\ Tracked /\ Marked /\ FewRetained /\ NoStrayShell

-----------------------------------------------------------------------------
(* Sequences                                                               *)

\* What stands in the queue of a thread when a call joins it ...
LEMMA Joins ==
  ASSUME NEW S, NEW s \in Seq(S), NEW x \in S
  PROVE  /\ Append(s, x) \in Seq(S) /\ Append(s, x) # <<>>
         /\ DOMAIN Append(s, x) = 1..(Len(s) + 1) /\ DOMAIN s = 1..Len(s) /\ Len(s) \in Nat
         /\ \A i \in DOMAIN s : i \in DOMAIN Append(s, x) /\ Append(s, x)[i] = s[i]
         /\ Append(s, x)[Len(s) + 1] = x /\ Len(Append(s, x)) = Len(s) + 1
         /\ \A i \in DOMAIN Append(s, x) : i \in DOMAIN s \/ i = Len(s) + 1
         /\ Len(s) + 1 \notin DOMAIN s /\ (s = <<>> => Len(s) = 0)
<1>1. /\ Append(s, x) \in Seq(S) /\ Len(Append(s, x)) = Len(s) + 1 /\ Len(s) \in Nat
      /\ \A i \in 1..Len(s) : Append(s, x)[i] = s[i]
      /\ Append(s, x)[Len(s) + 1] = x
      /\ DOMAIN Append(s, x) = 1..(Len(s) + 1) /\ DOMAIN s = 1..Len(s)
  BY AppendProperties, LenProperties
<1>2. Append(s, x) # <<>> /\ (s = <<>> => Len(s) = 0)
  BY <1>1, EmptySeq
<1>3. QED BY <1>1, <1>2

\* ... and when the first leaves it.
LEMMA Leaves ==
  ASSUME NEW S, NEW s \in Seq(S), s # <<>>
  PROVE  /\ Head(s) = s[1] /\ Head(s) \in S /\ Tail(s) \in Seq(S) /\ 1 \in DOMAIN s
         /\ Len(s) \in Nat /\ DOMAIN s = 1..Len(s) /\ Len(Tail(s)) = Len(s) - 1
         /\ DOMAIN Tail(s) = 1..(Len(s) - 1)
         /\ \A i \in DOMAIN Tail(s) : i + 1 \in DOMAIN s /\ Tail(s)[i] = s[i + 1] /\ i + 1 # 1
                                      /\ i \in Nat
         /\ (Tail(s) # <<>> => Tail(s)[Len(Tail(s))] = s[Len(s)])
         /\ (Tail(s) = <<>> => Len(s) = 1)
<1> DEFINE t == Tail(s)
<1>1. /\ Head(s) = s[1] /\ Head(s) \in S /\ t \in Seq(S) /\ Len(t) = Len(s) - 1
      /\ Len(s) \in Nat /\ Len(s) # 0 /\ \A i \in 1..Len(t) : t[i] = s[i + 1]
      /\ DOMAIN t = 1..(Len(s) - 1) /\ DOMAIN s = 1..Len(s)
  BY HeadTailProperties, LenProperties, EmptySeq
<1> HIDE DEF t
<1>2. /\ 1 \in DOMAIN s
      /\ \A i \in DOMAIN t : i + 1 \in DOMAIN s /\ t[i] = s[i + 1] /\ i + 1 # 1 /\ i \in Nat
  BY <1>1
<1>3. t = <<>> <=> Len(t) = 0
  BY <1>1, EmptySeq
<1>4. t = <<>> => Len(s) = 1
  BY <1>1, <1>3
<1>5. t # <<>> => t[Len(t)] = s[Len(s)]
  <2>1. HAVE t # <<>>
  <2>2. Len(t) \in DOMAIN t /\ Len(t) + 1 = Len(s)
    BY <1>1, <1>3, <2>1
  <2>3. QED BY <1>2, <2>2
<1>6. QED BY <1>1, <1>2, <1>4, <1>5 DEF t

-----------------------------------------------------------------------------
(* Calls and locks                                                         *)

\* Of the calls of a thread only the one that holds the lock is at work.
LEMMA Alone ==
  ASSUME Exclusive, NEW c \in Calls, NEW d \in Calls, Holds(c), AtWork(d),
         ThreadOf[call[c].key] = ThreadOf[call[d].key]
  PROVE  c = d
BY DEF Exclusive, Holds, Thread

\* What is known of a call that takes a step.
LEMMA Facts ==
  ASSUME TerminalAssumption, Typed, NEW c \in Calls, NEW pc \in Stages, NEW K \in SUBSET Kinds,
         At(c, pc, K)
  PROVE  /\ up /\ Holds(c) /\ call[c].pc = pc /\ call[c].kind \in K
         /\ call[c].key \in Terminals /\ Thread(c) \in Threads
         /\ call[c] \in CallStates /\ lock[Thread(c)] \in Seq(Calls)
         /\ lock[Thread(c)] # <<>> /\ Head(lock[Thread(c)]) = c
<1>1. call[c] \in CallStates /\ call[c].key \in Terminals
  BY DEF Typed, At, Holds, CallStates
<1>2. Thread(c) \in Threads
  BY <1>1 DEF Thread, Threads
<1>3. QED BY <1>1, <1>2 DEF Typed, At, Holds

\* A call moves on to another stage.
LEMMA Advances ==
  ASSUME TerminalAssumption, Typed, Queued, Exclusive, NEW c \in Calls, NEW pc0 \in Stages,
         NEW K \in SUBSET Kinds, At(c, pc0, K), pc0 \notin {"idle", "done"},
         NEW pc \in {"flush", "persist", "spawn"}, NEW o \in Nat \cup {None},
         \/ pc = "flush" /\ call[c].kind \in Opens \cup Closes
         \/ pc = "persist" /\ call[c].kind \in Starts \cup {"clear", "sleep"}
         \/ pc = "spawn" /\ call[c].kind \in Starts,
         Advance(c, pc, o), lock' = lock
  PROVE  /\ call' \in [Calls -> CallStates] /\ Queued' /\ Exclusive'
         /\ call'[c].pc = pc /\ call'[c].obj = o
         /\ call'[c].kind = call[c].kind /\ call'[c].key = call[c].key
         /\ \A d \in Calls : d # c => call'[d] = call[d]
<1>1. /\ Holds(c) /\ call[c].pc = pc0 /\ call[c].key \in Terminals /\ call[c] \in CallStates
      /\ call \in [Calls -> CallStates]
  BY Facts DEF Typed
<1>2. /\ call' = [call EXCEPT ![c] = [call[c] EXCEPT !.pc = pc, !.obj = o]]
      /\ pc \in Stages
  BY <1>1 DEF Advance, Stages
<1>3. /\ call'[c].pc = pc /\ call'[c].obj = o /\ call'[c] \in CallStates
      /\ call'[c].kind = call[c].kind /\ call'[c].key = call[c].key
  BY <1>1, <1>2 DEF CallStates
<1>4. \A d \in Calls : d # c => call'[d] = call[d]
  BY <1>1, <1>2
<1>5. call' \in [Calls -> CallStates]
  BY <1>1, <1>2, <1>3
<1>6. \A d \in Calls : call'[d].key = call[d].key /\ Thread(d)' = Thread(d) /\ Holds(d)' = Holds(d)
  BY <1>3, <1>4 DEF Thread, Holds
<1>7. Queued'
  <2>1. ASSUME NEW t \in Threads, NEW i \in DOMAIN lock[t]
        PROVE  /\ lock[t][i] \in Calls /\ call'[lock[t][i]].pc \notin {"idle", "done"}
               /\ call'[lock[t][i]].key \in Terminals /\ Thread(lock[t][i])' = t
    <3>1. lock[t][i] \in Calls
      BY ElementOfSeq DEF Typed
    <3>2. QED BY <1>3, <1>4, <1>6, <2>1, <3>1 DEF Queued
  <2>2. QED BY <2>1 DEF Queued
<1>8. Exclusive'
  BY <1>1, <1>3, <1>4, <1>6 DEF Exclusive, AtWork, Opens, Closes, Starts
<1>9. QED BY <1>3, <1>4, <1>5, <1>7, <1>8

\* A call returns, and the next of its thread holds the lock.
LEMMA Returns ==
  ASSUME TerminalAssumption, Typed, Queued, Exclusive, NEW c \in Calls, NEW pc0 \in Stages,
         NEW K \in SUBSET Kinds, At(c, pc0, K), Return(c)
  PROVE  /\ call' \in [Calls -> CallStates] /\ lock' \in [Threads -> Seq(Calls)]
         /\ Queued' /\ Exclusive' /\ call'[c] = Done
         /\ \A d \in Calls : d # c => call'[d] = call[d]
<1> DEFINE t0 == Thread(c)
<1>1. /\ Holds(c) /\ call[c].key \in Terminals /\ t0 \in Threads
      /\ lock[t0] \in Seq(Calls) /\ lock[t0] # <<>> /\ Head(lock[t0]) = c
      /\ call \in [Calls -> CallStates]
  BY Facts DEF Typed
<1>2. call' = [call EXCEPT ![c] = Done] /\ lock' = [lock EXCEPT ![t0] = Tail(@)]
  BY DEF Return
<1>3. Done \in CallStates /\ Done.pc = "done" /\ Done.key = None
  BY DEF Done, NoCall, CallStates, Stages, Kinds
<1>4. /\ call' \in [Calls -> CallStates] /\ call'[c] = Done
      /\ \A d \in Calls : d # c => call'[d] = call[d]
  BY <1>1, <1>2, <1>3
<1>5. /\ Head(lock[t0]) = lock[t0][1] /\ Tail(lock[t0]) \in Seq(Calls) /\ 1 \in DOMAIN lock[t0]
      /\ \A i \in DOMAIN Tail(lock[t0]) : i + 1 \in DOMAIN lock[t0] /\ i + 1 # 1 /\ i \in Nat
                                           /\ Tail(lock[t0])[i] = lock[t0][i + 1]
  BY <1>1, Leaves
<1>6. /\ lock' \in [Threads -> Seq(Calls)] /\ lock'[t0] = Tail(lock[t0])
      /\ \A t \in Threads : t # t0 => lock'[t] = lock[t]
  BY <1>1, <1>2, <1>5 DEF Typed
<1> HIDE DEF t0
<1>7. Queued'
  <2>1. ASSUME NEW t \in Threads
        PROVE  /\ \A i \in DOMAIN lock'[t] : \E j \in DOMAIN lock[t] :
                    /\ lock'[t][i] = lock[t][j] /\ lock[t][j] # c
               /\ \A i, j \in DOMAIN lock'[t] : lock'[t][i] = lock'[t][j] => i = j
    <3>1. CASE t = t0
      <4>1. \A i \in DOMAIN lock'[t] : /\ i + 1 \in DOMAIN lock[t] /\ i + 1 # 1 /\ i \in Nat
                                       /\ lock'[t][i] = lock[t][i + 1]
        BY <1>5, <1>6, <3>1
      <4>2. \A i, j \in DOMAIN lock[t] : lock[t][i] = lock[t][j] => i = j
        BY DEF Queued
      <4>3. lock[t][1] = c /\ 1 \in DOMAIN lock[t]
        BY <1>1, <1>5, <3>1
      <4>4. \A i \in DOMAIN lock'[t] : lock[t][i + 1] # c
        BY <4>1, <4>2, <4>3
      <4>5. \A i, j \in DOMAIN lock'[t] :
              lock'[t][i] = lock'[t][j] => i + 1 = j + 1 /\ i \in Nat /\ j \in Nat
        BY <4>1, <4>2
      <4>6. QED BY <4>1, <4>4, <4>5
    <3>2. CASE t # t0
      <4>1. lock'[t] = lock[t]
        BY <1>6, <3>2
      <4>2. \A i \in DOMAIN lock[t] : lock[t][i] # c
        BY <3>2 DEF Queued, t0
      <4>3. QED BY <4>1, <4>2 DEF Queued
    <3>3. QED BY <3>1, <3>2
  <2>2. ASSUME NEW t \in Threads, NEW i \in DOMAIN lock'[t]
        PROVE  /\ call'[lock'[t][i]].pc \notin {"idle", "done"}
               /\ call'[lock'[t][i]].key \in Terminals
               /\ ThreadOf[call'[lock'[t][i]].key] = t
    <3>1. PICK j \in DOMAIN lock[t] : lock'[t][i] = lock[t][j] /\ lock[t][j] # c
      BY <2>1, <2>2
    <3>2. lock[t][j] \in Calls
      BY ElementOfSeq DEF Typed
    <3>3. call'[lock[t][j]] = call[lock[t][j]]
      BY <1>4, <3>1, <3>2
    <3>4. QED BY <3>1, <3>3 DEF Queued, Thread
  <2>3. QED BY <2>1, <2>2 DEF Queued, Thread
<1>8. Exclusive'
  <2>1. ASSUME NEW d \in Calls, AtWork(d)'
        PROVE  call'[d].key \in Terminals /\ Holds(d)'
    <3>1. d # c /\ call'[d] = call[d] /\ AtWork(d)
      BY <1>3, <1>4, <2>1 DEF AtWork
    <3>2. call[d].key \in Terminals /\ Holds(d) /\ Thread(d) \in Threads
      BY <3>1 DEF Exclusive, Thread, Threads
    <3>3. Thread(d) # t0
      BY <1>1, <3>1, <3>2, Alone DEF t0, Thread
    <3>4. lock'[Thread(d)] = lock[Thread(d)]
      BY <1>6, <3>2, <3>3
    <3>5. QED BY <3>1, <3>2, <3>4 DEF Holds, Thread
  <2>2. QED BY <1>3, <1>4, <2>1 DEF Exclusive, AtWork
<1>9. QED BY <1>4, <1>6, <1>7, <1>8

-----------------------------------------------------------------------------
(* The order of the sessions, and evictions                                *)

\* A session is, or becomes, the one updated last.
LEMMA LatestSorted ==
  ASSUME NEW S, NEW ord, Order(ord, S), Sorted(ord), NEW o, NEW T, S \cup {o} \subseteq T
  PROVE  /\ Order(Latest(ord, o), T) /\ Sorted(Latest(ord, o))
         /\ DOMAIN Latest(ord, o) = DOMAIN ord \cup {o} /\ Latest(ord, o)[o] = {}
BY DEF Order, Sorted, Latest

\* The same of an update: it leaves alone what is not in the map.
LEMMA TouchSorted ==
  ASSUME NEW S, NEW ord, Order(ord, S), Sorted(ord), NEW o
  PROVE  /\ Order(Touch(ord, o), S) /\ Sorted(Touch(ord, o))
         /\ DOMAIN Touch(ord, o) = DOMAIN ord
         /\ o \in DOMAIN ord => Touch(ord, o)[o] = {}
<1>1. CASE o \in DOMAIN ord
  <2>1. S \cup {o} \subseteq S /\ DOMAIN ord \cup {o} = DOMAIN ord
    BY <1>1 DEF Order
  <2>2. QED BY <1>1, <2>1, LatestSorted DEF Touch
<1>2. CASE o \notin DOMAIN ord
  BY <1>2 DEF Touch
<1>3. QED BY <1>1, <1>2

\* What stays when sessions leave the map is in line.
LEMMA WithoutSorted ==
  ASSUME NEW S, NEW ord, Order(ord, S), Sorted(ord), NEW R
  PROVE  /\ Order(Without(ord, R), S) /\ Sorted(Without(ord, R))
         /\ DOMAIN Without(ord, R) = DOMAIN ord \ R
BY DEF Order, Sorted, Without

\* A non-empty set of sessions of the map has an oldest.
LEMMA Oldest ==
  ASSUME NEW ord, Sorted(ord), NEW K, K \subseteq DOMAIN ord, IsFiniteSet(K), K # {}
  PROVE  \E x \in K : K \ {x} \subseteq ord[x]
<1> DEFINE T == {K \ ord[x] : x \in K}
<1>1. T \subseteq FiniteSubsetsOf(K) /\ T # {}
  <2>1. ASSUME NEW x \in K
        PROVE  K \ ord[x] \in FiniteSubsetsOf(K)
    <3>1. K \ ord[x] \in SUBSET K
      OBVIOUS
    <3>2. IsFiniteSet(K \ ord[x])
      BY <3>1, FS_Subset
    <3>3. QED BY <3>1, <3>2 DEF FiniteSubsetsOf
  <2>2. QED BY <2>1
<1>2. PICK U \in T : \A V \in T : ~ (<<V, U>> \in StrictSubsetOrdering(K))
  BY <1>1, FS_StrictSubsetOrderingWellFounded, WFMin
<1>3. PICK x \in K : U = K \ ord[x]
  BY <1>2
<1>4. ASSUME NEW y \in K, y # x, y \notin ord[x]
      PROVE  FALSE
  <2>1. x \in ord[y] /\ ord[x] \subseteq ord[y] /\ x \notin ord[x]
    BY <1>4 DEF Sorted
  <2>2. K \ ord[y] \in T /\ K \ ord[y] \subseteq K \ ord[x] /\ K \ ord[y] # K \ ord[x]
    BY <2>1
  <2>3. <<K \ ord[y], U>> \in StrictSubsetOrdering(K)
    BY <1>3, <2>2 DEF StrictSubsetOrdering
  <2>4. QED BY <1>2, <2>2, <2>3
<1>5. QED BY <1>4

\* A non-empty set of sessions has one that was made first.
LEMMA MadeFirst ==
  ASSUME NEW K \in SUBSET Nat, K # {}
  PROVE  Min(K) \in K
<1> DEFINE T == {1..x : x \in K}
<1>1. T \subseteq FiniteSubsetsOf(Nat) /\ T # {}
  <2>1. \A x \in K : 1..x \in SUBSET Nat /\ IsFiniteSet(1..x)
    BY FS_Interval
  <2>2. QED BY <2>1 DEF FiniteSubsetsOf
<1>2. PICK U \in T : \A V \in T : ~ (<<V, U>> \in StrictSubsetOrdering(Nat))
  BY <1>1, FS_StrictSubsetOrderingWellFounded, WFMin
<1>3. PICK x \in K : U = 1..x
  BY <1>2
<1>4. ASSUME NEW y \in K, y < x
      PROVE  FALSE
  <2>1. 1..y \in T /\ 1..y \subseteq 1..x /\ x \in 1..x /\ x \notin 1..y
    BY <1>4
  <2>2. <<1..y, U>> \in StrictSubsetOrdering(Nat)
    BY <1>3, <2>1 DEF StrictSubsetOrdering
  <2>3. QED BY <1>2, <2>1, <2>2
<1>5. \A y \in K : x <= y
  BY <1>4
<1>6. QED BY <1>5 DEF Min

\* What an eviction leaves is not more than the limit.
LEMMA EvictionSuffices ==
  ASSUME TerminalAssumption, NEW ord, NEW objects, Sorted(ord), IsFiniteSet(DOMAIN ord)
  PROVE  Cardinality(Inactive(objects, DOMAIN ord \ Evicted(objects, ord))) <= MaxRetained
<1> DEFINE K == Inactive(objects, DOMAIN ord \ Evicted(objects, ord))
<1>1. K \subseteq DOMAIN ord /\ IsFiniteSet(K) /\ Cardinality(K) \in Nat /\ MaxRetained \in Nat
  <2>1. K \in SUBSET DOMAIN ord /\ MaxRetained \in Nat
    BY DEF Inactive, TerminalAssumption
  <2>2. IsFiniteSet(K)
    BY <2>1, FS_Subset
  <2>3. QED BY <2>1, <2>2, FS_CardinalityType
<1>3. K \subseteq DOMAIN ord \ Evicted(objects, ord) /\ \A x \in K : objects[x].status # "running"
  BY DEF Inactive
<1> HIDE DEF K
<1>2. ASSUME Cardinality(K) > MaxRetained
      PROVE  FALSE
  <2>1. K # {}
    <3>1. Cardinality(K) # 0
      BY <1>1, <1>2
    <3>2. QED BY <3>1, FS_EmptySet
  <2>2. PICK x \in K : K \ {x} \subseteq ord[x]
    BY <1>1, <2>1, Oldest
  <2>3. /\ IsFiniteSet(K \ {x}) /\ Cardinality(K \ {x}) = Cardinality(K) - 1
    BY <1>1, FS_RemoveElement
  <2> DEFINE I == Inactive(objects, ord[x])
  <2>4. K \ {x} \subseteq I /\ I \subseteq DOMAIN ord
    BY <1>1, <1>3, <2>2 DEF Inactive, Sorted
  <2>5. IsFiniteSet(I) /\ Cardinality(I) \in Nat /\ Cardinality(K \ {x}) <= Cardinality(I)
    <3> HIDE DEF I
    <3>1. IsFiniteSet(I)
      BY <2>4, FS_Subset
    <3>2. QED BY <2>4, <3>1, FS_Subset, FS_CardinalityType
  <2>6. Cardinality(I) >= MaxRetained
    <3> HIDE DEF I
    <3>1. QED BY <1>1, <1>2, <2>3, <2>5
  <2>7. x \in Evicted(objects, ord)
    BY <1>1, <1>3, <2>2, <2>6 DEF Evicted, Inactive
  <2>8. QED BY <1>3, <2>2, <2>7
<1>4. QED BY <1>1, <1>2 DEF K

\* What is evicted does not run, and was not updated last.
LEMMA EvictedFacts ==
  ASSUME TerminalAssumption, NEW ord, NEW objects
  PROVE  /\ Evicted(objects, ord) \subseteq DOMAIN ord
         /\ \A x \in Evicted(objects, ord) : objects[x].status # "running" /\ ord[x] # {}
<1>1. ASSUME NEW x \in Evicted(objects, ord), ord[x] = {}
      PROVE  FALSE
  <2>1. Inactive(objects, ord[x]) = {}
    BY <1>1 DEF Inactive
  <2>2. Cardinality(Inactive(objects, ord[x])) = 0
    BY <2>1, FS_EmptySet
  <2>3. Cardinality(Inactive(objects, ord[x])) >= MaxRetained
    BY <1>1 DEF Evicted
  <2>4. MaxRetained \in Nat /\ MaxRetained # 0
    BY DEF TerminalAssumption
  <2>5. QED BY <2>2, <2>3, <2>4
<1>2. QED BY <1>1 DEF Evicted, Inactive

-----------------------------------------------------------------------------
(* What an operation leaves behind                                         *)

\* An operation has made the sessions objects, in the order ord, and the files
\* files: of those it keeps, but for evicted sessions, which did not run, are
\* remembered if a call works on them, and harm their terminal if they leave a
\* write or a call behind.
LeftAs(objects, ord, files) ==
  /\ object' = objects
  /\ Order(order', DOMAIN objects) /\ Sorted(order') /\ DOMAIN order' \subseteq DOMAIN ord
  /\ \A x \in DOMAIN ord \ DOMAIN order' :
       objects[x].status # "running" /\ (Working(x) => x \in lost')
  /\ lost \subseteq lost' /\ lost' \subseteq DOMAIN objects
  /\ harmed \subseteq harmed' /\ harmed' \subseteq Terminals
  /\ \A x \in lost' \ lost : objects[x].key \in harmed'
  /\ persist' \in [Terminals -> Files]
  /\ \A k \in Terminals \ harmed' : persist'[k] = files[k]

\* What is updated last is not evicted.
LastStays(ord) == \A x \in DOMAIN ord \ DOMAIN order' : ord[x] # {}

\* An operation that evicts nothing.
LEMMA LeftPlain ==
  ASSUME NEW objects, NEW ord, NEW files, Order(ord, DOMAIN objects), Sorted(ord),
         files \in [Terminals -> Files], lost \subseteq DOMAIN objects, harmed \subseteq Terminals,
         object' = objects, order' = ord, persist' = files, lost' = lost, harmed' = harmed
  PROVE  LeftAs(objects, ord, files) /\ LastStays(ord)
BY DEF LeftAs, LastStays

\* What an eviction forgets of the writes of a terminal is nothing if nothing
\* waits or is under way.
LEMMA ForgottenFacts ==
  ASSUME NEW file \in Files
  PROVE  Forgotten(file) \in Files /\ (Idle(file) => Forgotten(file) = file)
<1>1. /\ file.file \in Transcripts \cup {None} /\ file.queue \in Seq(Writes)
      /\ file.strays \subseteq Seq(Writes) \ {<<>>}
      /\ file = [file |-> file.file, pending |-> file.pending, queue |-> file.queue,
                 strays |-> file.strays]
  BY DEF Files
<1>2. Forgotten(file) =
        [file |-> file.file, pending |-> None, queue |-> <<>>,
         strays |-> IF file.queue = <<>> THEN file.strays ELSE file.strays \cup {file.queue}]
  <2> DEFINE S == IF file.queue = <<>> THEN file.strays ELSE file.strays \cup {file.queue}
  <2>1. Forgotten(file) = [file EXCEPT !.pending = None, !.queue = <<>>, !.strays = S]
    BY DEF Forgotten
  <2> HIDE DEF S
  <2>2. Forgotten(file) = [file |-> file.file, pending |-> None, queue |-> <<>>, strays |-> S]
    BY <1>1, <2>1
  <2>3. QED BY <2>2 DEF S
<1>3. <<>> \in Seq(Writes)
  OBVIOUS
<1>4. Forgotten(file) \in Files
  BY <1>1, <1>2, <1>3 DEF Files
<1>5. Idle(file) => Forgotten(file) = file
  BY <1>1, <1>2 DEF Idle
<1>6. QED BY <1>4, <1>5

\* What is left of the sessions' files and calls by an eviction.
LEMMA ForgetsFacts ==
  ASSUME NEW objects \in Seq(Objects), NEW files \in [Terminals -> Files],
         NEW gone, gone \subseteq DOMAIN objects, lost \subseteq DOMAIN objects,
         harmed \subseteq Terminals, Forgets(gone, objects, files)
  PROVE  /\ \A x \in gone : Working(x) => x \in lost'
         /\ lost \subseteq lost' /\ lost' \subseteq DOMAIN objects
         /\ harmed \subseteq harmed' /\ harmed' \subseteq Terminals
         /\ \A x \in lost' \ lost : objects[x].key \in harmed'
         /\ persist' \in [Terminals -> Files]
         /\ \A k \in Terminals \ harmed' : persist'[k] = files[k]
<1> DEFINE keys == {objects[o].key : o \in gone}
<1>1. /\ persist' = [k \in Terminals |-> IF k \in keys THEN Forgotten(files[k]) ELSE files[k]]
      /\ lost' = lost \cup {o \in gone : Working(o)}
      /\ harmed' = harmed \cup {objects[o].key : o \in {x \in gone :
                                   Working(x) \/ ~Idle(files[objects[x].key])}}
  BY DEF Forgets
<1>2. \A o \in gone : objects[o].key \in Terminals
  <2>1. \A o \in DOMAIN objects : objects[o] \in Objects
    BY ElementOfSeq
  <2>2. QED BY <2>1 DEF Objects
<1>3. persist' \in [Terminals -> Files]
  BY <1>1, ForgottenFacts
<1>4. ASSUME NEW k \in Terminals \ harmed'
      PROVE  persist'[k] = files[k]
  <2>1. CASE k \in keys
    <3>1. PICK o \in gone : k = objects[o].key
      BY <2>1
    <3>2. Idle(files[k])
      BY <1>1, <1>4, <3>1
    <3>3. QED BY <1>1, <1>4, <3>2, ForgottenFacts
  <2>2. CASE k \notin keys
    BY <1>1, <1>4, <2>2
  <2>3. QED BY <2>1, <2>2
<1>5. QED BY <1>1, <1>2, <1>3, <1>4

\* An operation that ends with evictInactiveSessionsIfNeeded: few are left.
LEMMA LeftRetained ==
  ASSUME TerminalAssumption, NEW objects, NEW ord, NEW files,
         objects \in Seq(Objects), Order(ord, DOMAIN objects), Sorted(ord),
         files \in [Terminals -> Files], lost \subseteq DOMAIN objects, harmed \subseteq Terminals,
         Retain(objects, ord, files)
  PROVE  LeftAs(objects, ord, files) /\ FewRetained' /\ LastStays(ord)
<1>1. PICK gone : gone = Evicted(objects, ord)
  OBVIOUS
<1>2. object' = objects /\ order' = Without(ord, gone) /\ Forgets(gone, objects, files)
  BY <1>1 DEF Retain
<1>3. /\ gone \subseteq DOMAIN ord
      /\ \A x \in gone : objects[x].status # "running" /\ ord[x] # {}
  BY <1>1, EvictedFacts
<1>4. DOMAIN ord \subseteq DOMAIN objects
  BY DEF Order
<1>5. /\ Order(order', DOMAIN objects) /\ Sorted(order') /\ DOMAIN order' = DOMAIN ord \ gone
  BY <1>2, WithoutSorted
<1>6. /\ \A x \in gone : Working(x) => x \in lost'
      /\ lost \subseteq lost' /\ lost' \subseteq DOMAIN objects
      /\ harmed \subseteq harmed' /\ harmed' \subseteq Terminals
      /\ \A x \in lost' \ lost : objects[x].key \in harmed'
      /\ persist' \in [Terminals -> Files]
      /\ \A k \in Terminals \ harmed' : persist'[k] = files[k]
  <2>1. gone \subseteq DOMAIN objects
    BY <1>3, <1>4
  <2>2. QED BY <1>2, <2>1, ForgetsFacts
<1>7. LeftAs(objects, ord, files)
  BY <1>2, <1>3, <1>5, <1>6 DEF LeftAs
<1>8. FewRetained'
  <2>1. Len(objects) \in Nat /\ DOMAIN objects = 1..Len(objects)
    BY LenProperties
  <2>2. IsFiniteSet(DOMAIN objects)
    BY <2>1, FS_Interval
  <2>3. IsFiniteSet(DOMAIN ord)
    BY <1>4, <2>2, FS_Subset
  <2>4. Cardinality(Inactive(objects, DOMAIN ord \ gone)) <= MaxRetained
    BY <1>1, <2>3, EvictionSuffices
  <2>5. QED BY <1>2, <1>5, <2>4 DEF FewRetained, Inactive
<1>9. QED BY <1>3, <1>5, <1>7, <1>8 DEF LastStays

\* Sessions keep their shape under what an operation leaves.
LEMMA LeftSessions ==
  ASSUME NEW objects, NEW ord, NEW files, LeftAs(objects, ord, files),
         Order(ord, DOMAIN objects), Sessions(objects, ord)
  PROVE  Sessions(object, order)'
BY DEF LeftAs, Sessions, Order

\* Sessions, files and what the user has seen still agree.
LEMMA LeftAgree ==
  ASSUME NEW objects, NEW ord, NEW files, NEW seen, LeftAs(objects, ord, files),
         Order(ord, DOMAIN objects), Agree(objects, ord, files, seen)
  PROVE  /\ \A k \in Terminals \ harmed' :
              /\ \A o \in DOMAIN order' : object'[o].key = k => object'[o].transcript = seen[k]
              /\ persist'[k].strays = {}
              /\ Coming(persist'[k]) = seen[k]
BY DEF LeftAs, Agree

\* Every live shell is attended to, after an operation too.
LEMMA LeftAttended ==
  ASSUME TerminalAssumption, NEW objects, NEW ord, NEW files, LeftAs(objects, ord, files),
         Order(ord, DOMAIN objects), Sessions(objects, ord),
         up' => \A p \in Shells : shell'[p] = "live" =>
           p \in killing' \/ \E o \in DOMAIN ord \cup lost : objects[o].shell = p
  PROVE  NoStrayShell'
<1>1. ASSUME up', NEW p \in Shells, shell'[p] = "live", p \notin killing'
      PROVE  \E o \in DOMAIN order' \cup lost' : object'[o].shell = p
  <2>1. PICK o \in DOMAIN ord \cup lost : objects[o].shell = p
    BY <1>1
  <2>2. p # None
    BY DEF TerminalAssumption, Shells
  <2>3. o \in DOMAIN objects /\ objects[o].status = "running"
    BY <2>1, <2>2 DEF Sessions, Order, LeftAs
  <2>4. o \in DOMAIN order' \cup lost'
    BY <2>1, <2>3 DEF LeftAs
  <2>5. QED BY <2>1, <2>4 DEF LeftAs
<1>2. QED BY <1>1 DEF NoStrayShell

\* The calls that an operation does not advance are served as before, if it
\* touches sessions of threads only in which none of them is at work, and
\* otherwise leaves still sessions still.
LEMMA OthersServed ==
  ASSUME TerminalAssumption, Typed, \A c \in Calls : Serves(c),
         NEW objects, NEW ord, NEW files, LeftAs(objects, ord, files), Order(ord, DOMAIN objects),
         NEW D \in SUBSET Calls, \A d \in D : call'[d] = call[d],
         NEW T, \A d \in D : AtWork(d) => ThreadOf[call[d].key] \notin T,
         DOMAIN object \subseteq DOMAIN objects,
         \A x \in DOMAIN object :
           /\ objects[x].key = object[x].key
           /\ Still(object, x) => Still(objects, x) \/ ThreadOf[object[x].key] \in T,
         \A x \in DOMAIN order \ DOMAIN ord : ThreadOf[object[x].key] \in T,
         \A x \in DOMAIN ord \ DOMAIN order : ThreadOf[objects[x].key] \in T
  PROVE  \A d \in D : Serves(d)'
<1> SUFFICES ASSUME NEW d \in D
             PROVE  Serves(d)'
  OBVIOUS
<1>1. Serves(d) /\ call'[d] = call[d] /\ (AtWork(d) => ThreadOf[call[d].key] \notin T)
  OBVIOUS
<1>2. object' = objects /\ DOMAIN order' \subseteq DOMAIN ord /\ lost \subseteq lost'
  BY DEF LeftAs
<1>3. call'[d].obj # None =>
        call'[d].obj \in DOMAIN object' /\ object'[call'[d].obj].key = call'[d].key
  BY <1>1, <1>2 DEF Serves
<1>4. call'[d].pc \in {"persist", "spawn"} =>
        /\ call'[d].obj \in DOMAIN order' \cup lost'
        /\ call'[d].kind \in Starts => Still(object', call'[d].obj)
  <2>1. HAVE call'[d].pc \in {"persist", "spawn"}
  <2> DEFINE o == call[d].obj
  <2>2. o \in DOMAIN order \cup lost /\ o \in DOMAIN object /\ AtWork(d) /\ Working(o)
    BY <1>1, <2>1 DEF Serves, AtWork, Typed, Order, Working
  <2>3. o # None
    BY <2>2, LenProperties DEF Typed, TerminalAssumption
  <2>4. object[o].key = call[d].key /\ ThreadOf[object[o].key] \notin T
    BY <1>1, <2>2, <2>3 DEF Serves
  <2>5. call[d].kind \in Starts => Still(objects, o)
    BY <1>1, <2>1, <2>2, <2>4 DEF Serves
  <2>6. o \in DOMAIN order' \cup lost'
    <3>1. o \in DOMAIN order => o \in DOMAIN ord
      BY <2>4
    <3>2. QED BY <2>2, <3>1 DEF LeftAs
  <2>7. QED BY <1>1, <1>2, <2>5, <2>6
<1>5. ASSUME AtWork(d), NEW o \in DOMAIN order', NEW k, ThreadOf[k] = ThreadOf[call[d].key],
             object'[o].key = k
      PROVE  o \in DOMAIN order /\ object[o].key = k
  <2>1. o \in DOMAIN ord /\ objects[o].key = k /\ ThreadOf[objects[o].key] \notin T
    BY <1>1, <1>2, <1>5
  <2>2. o \in DOMAIN order
    BY <2>1
  <2>3. o \in DOMAIN object
    BY <2>2 DEF Typed, Order
  <2>4. QED BY <2>1, <2>2, <2>3
<1>6. call'[d].pc = "flush" /\ call'[d].kind \in Opens =>
        \A o \in DOMAIN order' : object'[o].key # call'[d].key
  BY <1>1, <1>5 DEF Serves, AtWork
<1>7. call'[d].pc = "flush" /\ call'[d].kind \in Closes =>
        \A o \in DOMAIN order' : object'[o].key \notin Closing(d)
  <2>1. \A k \in Closing(d) : ThreadOf[k] = ThreadOf[call[d].key]
    BY DEF Closing, Thread
  <2>2. QED BY <1>1, <1>5, <2>1 DEF Serves, AtWork
<1>8. Closing(d)' = Closing(d)
  BY <1>1 DEF Closing, Thread
<1>9. QED BY <1>1, <1>3, <1>4, <1>6, <1>7, <1>8 DEF Serves

-----------------------------------------------------------------------------
(* What operations do to a session                                         *)

\* Sessions objects in an order ord have the shape the invariant wants.
Shape(objects, ord) ==
  /\ objects \in Seq(Objects) /\ Order(ord, DOMAIN objects) /\ Sorted(ord)
  /\ Sessions(objects, ord) /\ \A x \in lost : objects[x].key \in harmed

\* Session o becomes r, the others stay.
Rewritten(objects, o, r) ==
  /\ objects \in Seq(Objects) /\ DOMAIN objects = DOMAIN object
  /\ o \in DOMAIN object /\ objects[o] = r /\ r.key = object[o].key
  /\ \A x \in DOMAIN object : x # o => objects[x] = object[x]

\* Session o stays where it is in the line, or moves to its end.
InLine(ord, o) == ord = order \/ ord = Touch(order, o)

\* How the code writes it.
LEMMA RewrittenFacts ==
  ASSUME object \in Seq(Objects), NEW o \in DOMAIN object, NEW r \in Objects,
         r.key = object[o].key
  PROVE  Rewritten([object EXCEPT ![o] = r], o, r)
BY ExceptSeq DEF Rewritten

\* An operation rewrites one session, and may move it to the end of the line.
LEMMA Updates ==
  ASSUME TerminalAssumption, IInv, NEW objects, NEW o, NEW r, Rewritten(objects, o, r),
         r.shell # None => r.status = "running" /\ o \in DOMAIN order \cup lost,
         NEW ord, InLine(ord, o)
  PROVE  Shape(objects, ord) /\ DOMAIN ord = DOMAIN order
<1>1. object \in Seq(Objects) /\ lost \subseteq DOMAIN object
      /\ Order(order, DOMAIN object) /\ Sorted(order)
  BY DEF IInv, Typed
<1>2. /\ objects \in Seq(Objects) /\ DOMAIN objects = DOMAIN object /\ objects[o] = r
      /\ \A x \in DOMAIN object : x # o => objects[x] = object[x]
  BY DEF Rewritten
<1>3. \A x \in DOMAIN object : objects[x].key = object[x].key
  BY DEF Rewritten
<1>4. Order(ord, DOMAIN objects) /\ Sorted(ord) /\ DOMAIN ord = DOMAIN order
  BY <1>1, <1>2, TouchSorted DEF InLine
<1>5. Sessions(objects, ord)
  <2>1. Sessions(object, order) /\ DOMAIN order \subseteq DOMAIN object
    BY <1>1 DEF IInv, Order
  <2>2. QED BY <1>2, <1>3, <1>4, <2>1 DEF Sessions
<1>6. \A x \in lost : objects[x].key \in harmed
  BY <1>1, <1>3 DEF IInv
<1>7. QED BY <1>2, <1>4, <1>5, <1>6 DEF Shape

\* An operation that leaves transcripts and files alone.
LEMMA AgreeSame ==
  ASSUME IInv, NEW objects, NEW ord, DOMAIN ord \subseteq DOMAIN order,
         \A x \in DOMAIN ord : /\ objects[x].key = object[x].key
                               /\ objects[x].transcript = object[x].transcript
  PROVE  Agree(objects, ord, persist, last)
BY DEF IInv, Agree

\* One terminal has got the transcript T, which its file will hold.
Renewed(objects, ord, k, T, files, seen) ==
  /\ \A x \in DOMAIN ord :
       \/ objects[x].key = k /\ objects[x].transcript = T
       \/ /\ x \in DOMAIN order /\ objects[x].key # k
          /\ objects[x].key = object[x].key /\ objects[x].transcript = object[x].transcript
  /\ \A j \in Terminals : j # k => files[j] = persist[j] /\ seen[j] = last[j]
  /\ k \in Terminals \ harmed => files[k].strays = {} /\ Coming(files[k]) = T /\ seen[k] = T

\* An operation that gives one terminal a transcript, and sees to its file.
LEMMA AgreeNew ==
  ASSUME IInv, NEW objects, NEW ord, NEW k, NEW T, NEW files, NEW seen,
         Renewed(objects, ord, k, T, files, seen)
  PROVE  Agree(objects, ord, files, seen)
BY DEF IInv, Agree, Renewed

\* persistHistory: what is written is what will be in the file.
LEMMA WrittenFacts ==
  ASSUME TerminalAssumption, NEW file \in Files, NEW T \in Transcripts,
         NEW by \in Calls \cup {None}
  PROVE  /\ Written(file, T, by) \in Files /\ Written(file, T, by).strays = file.strays
         /\ Coming(Written(file, T, by)) = T
<1> DEFINE w == [content |-> T, by |-> by]
           q == Append(file.queue, w)
<1>1. w \in Writes /\ file.queue \in Seq(Writes)
  BY DEF Writes, Files
<1>2. q \in Seq(Writes) /\ q # <<>> /\ q[Len(q)] = w /\ w.content = T
  BY <1>1, Joins
<1> HIDE DEF q
<1>3. /\ file = [file |-> file.file, pending |-> file.pending, queue |-> file.queue,
                 strays |-> file.strays]
      /\ file.file \in Transcripts \cup {None} /\ file.strays \in SUBSET (Seq(Writes) \ {<<>>})
  BY DEF Files
<1>4. Written(file, T, by) = [file |-> file.file, pending |-> None, queue |-> q,
                              strays |-> file.strays]
  <2>1. Written(file, T, by) = [file EXCEPT !.pending = None, !.queue = q]
    BY DEF Written, q
  <2>2. QED BY <1>3, <2>1
<1>5. QED BY <1>2, <1>3, <1>4 DEF Files, Coming

-----------------------------------------------------------------------------
(* From the parts to the invariant                                         *)

\* What else a step does is of the right type, and in order.
InOrder ==
  /\ up' \in BOOLEAN /\ last' \in [Terminals -> Transcripts]
  /\ call' \in [Calls -> CallStates] /\ lock' \in [Threads -> Seq(Calls)]
  /\ shell' \in [Shells -> {"none", "live", "dead", "gone"}] /\ killing' \subseteq Shells
  /\ tracked' \subseteq Shells /\ fresh' \subseteq Terminals
  /\ Queued' /\ Exclusive' /\ Tracked' /\ Marked' /\ FewRetained'

\* Every shell that lives after a step is attended to: before evictions.
Attended(objects, ord) ==
  up' => \A p \in Shells : shell'[p] = "live" =>
    p \in killing' \/ \E o \in DOMAIN ord \cup lost : objects[o].shell = p

\* The invariant after a step, from what the step leaves behind.
LEMMA Concludes ==
  ASSUME TerminalAssumption, IInv, NEW objects, NEW ord, NEW files,
         LeftAs(objects, ord, files), Shape(objects, ord), Attended(objects, ord),
         Agree(objects, ord, files, last'), InOrder, \A c \in Calls : Serves(c)'
  PROVE  IInv'
<1>0. /\ objects \in Seq(Objects) /\ Order(ord, DOMAIN objects) /\ Sessions(objects, ord)
      /\ \A x \in lost : objects[x].key \in harmed
  BY DEF Shape
<1>1. NoStrayShell'
  BY <1>0, LeftAttended DEF Attended
<1>2. Sessions(object, order)'
  BY <1>0, LeftSessions
<1>3. Agree(object, order, persist, last)'
  BY <1>0, LeftAgree DEF Agree
<1>4. \A o \in lost' : object'[o].key \in harmed'
  BY <1>0 DEF LeftAs
<1>5. Typed' /\ Sorted(order)'
  BY <1>0 DEF Typed, LeftAs, InOrder
<1>6. QED BY <1>1, <1>2, <1>3, <1>4, <1>5 DEF IInv, InOrder

\* No more sessions that do not run than before are in the map.
LEMMA FewKept ==
  ASSUME TerminalAssumption, IInv, DOMAIN order' \subseteq DOMAIN order,
         \A x \in DOMAIN order' : object'[x].status # "running" => object[x].status # "running"
  PROVE  FewRetained'
<1> DEFINE I == Inactive(object, DOMAIN order)
           J == Inactive(object', DOMAIN order')
<1>1. J \subseteq I /\ I \subseteq DOMAIN object
  BY DEF Inactive, IInv, Typed, Order
<1>2. Cardinality(I) <= MaxRetained /\ MaxRetained \in Nat
  BY DEF IInv, FewRetained, TerminalAssumption
<1>3. Len(object) \in Nat /\ DOMAIN object = 1..Len(object)
  BY LenProperties DEF IInv, Typed
<1> HIDE DEF I, J
<1>4. IsFiniteSet(DOMAIN object)
  BY <1>3, FS_Interval
<1>5. IsFiniteSet(I)
  BY <1>1, <1>4, FS_Subset
<1>6. IsFiniteSet(J) /\ Cardinality(J) <= Cardinality(I)
  BY <1>1, <1>5, FS_Subset
<1>7. Cardinality(J) <= MaxRetained
  <2>1. Cardinality(I) \in Nat /\ Cardinality(J) \in Nat
    BY <1>5, <1>6, FS_CardinalityType
  <2>2. QED BY <1>2, <1>6, <2>1
<1>8. QED BY <1>7 DEF FewRetained, J

\* A call at work on its thread does not disturb the calls of others.
LEMMA OthersApart ==
  ASSUME TerminalAssumption, IInv, NEW c \in Calls, Holds(c),
         NEW objects, NEW ord, NEW files, LeftAs(objects, ord, files), Order(ord, DOMAIN objects),
         \A d \in Calls : d # c => call'[d] = call[d],
         DOMAIN object \subseteq DOMAIN objects,
         \A x \in DOMAIN object :
           /\ objects[x].key = object[x].key
           /\ Still(object, x) => Still(objects, x) \/ ThreadOf[object[x].key] = Thread(c),
         \A x \in DOMAIN order \ DOMAIN ord : ThreadOf[object[x].key] = Thread(c),
         \A x \in DOMAIN ord \ DOMAIN order : ThreadOf[objects[x].key] = Thread(c)
  PROVE  \A d \in Calls \ {c} : Serves(d)'
<1> DEFINE D == Calls \ {c}
           T == {Thread(c)}
<1>1. \A d \in D : AtWork(d) => ThreadOf[call[d].key] \notin T
  BY Alone DEF IInv, Thread
<1>2. D \in SUBSET Calls /\ (\A d \in D : call'[d] = call[d]) /\ Typed /\ \A d \in Calls : Serves(d)
  BY DEF IInv
<1>3. /\ \A x \in DOMAIN object :
           /\ objects[x].key = object[x].key
           /\ Still(object, x) => Still(objects, x) \/ ThreadOf[object[x].key] \in T
      /\ \A x \in DOMAIN order \ DOMAIN ord : ThreadOf[object[x].key] \in T
      /\ \A x \in DOMAIN ord \ DOMAIN order : ThreadOf[objects[x].key] \in T
  OBVIOUS
<1> HIDE DEF D, T
<1>4. \A d \in D : Serves(d)'
  BY <1>1, <1>2, <1>3, OthersServed
<1>5. QED BY <1>4 DEF D

\* A call rewrites the session of its terminal.
LEMMA Rewrites ==
  ASSUME TerminalAssumption, IInv, NEW c \in Calls, Holds(c),
         NEW objects, NEW o, NEW r, Rewritten(objects, o, r), object[o].key = call[c].key,
         r.shell # None => r.status = "running" /\ o \in DOMAIN order \cup lost,
         NEW ord, InLine(ord, o), NEW files, LeftAs(objects, ord, files),
         Agree(objects, ord, files, last'), Attended(objects, order), InOrder,
         \A d \in Calls : d # c => call'[d] = call[d], Serves(c)'
  PROVE  IInv'
<1>1. Shape(objects, ord) /\ DOMAIN ord = DOMAIN order
  BY Updates
<1>2. /\ DOMAIN objects = DOMAIN object /\ \A x \in DOMAIN object : x # o => objects[x] = object[x]
      /\ \A x \in DOMAIN object : objects[x].key = object[x].key
  BY DEF Rewritten
<1>3. ThreadOf[object[o].key] = Thread(c)
  BY DEF Thread
<1>4. /\ \A x \in DOMAIN object :
           /\ objects[x].key = object[x].key
           /\ Still(object, x) => Still(objects, x) \/ ThreadOf[object[x].key] = Thread(c)
      /\ \A x \in DOMAIN order \ DOMAIN ord : ThreadOf[object[x].key] = Thread(c)
      /\ \A x \in DOMAIN ord \ DOMAIN order : ThreadOf[objects[x].key] = Thread(c)
      /\ DOMAIN object \subseteq DOMAIN objects
  BY <1>1, <1>2, <1>3 DEF Still
<1>5. \A d \in Calls \ {c} : Serves(d)'
  BY <1>1, <1>4, OthersApart DEF Shape
<1>6. Attended(objects, ord)
  BY <1>1 DEF Attended
<1>7. QED BY <1>1, <1>5, <1>6, Concludes

\* The shells after a session was rewritten: it keeps its shell, or lets go of
\* it to be killed.
LEMMA ShellsRewritten ==
  ASSUME TerminalAssumption, IInv, up, NEW objects, NEW o, NEW r, Rewritten(objects, o, r),
         \/ r.shell = object[o].shell /\ killing' = killing
         \/ r.shell = None /\ killing' = killing \cup ShellsOf({o}),
         shell' = shell
  PROVE  killing' \subseteq Shells /\ Attended(objects, order)
<1>1. /\ o \in DOMAIN object /\ object[o] \in Objects /\ killing \subseteq Shells
      /\ DOMAIN order \subseteq DOMAIN object /\ lost \subseteq DOMAIN object
  BY ElementOfSeq DEF IInv, Typed, Order, Rewritten
<1>2. objects[o] = r /\ \A x \in DOMAIN object : x # o => objects[x] = object[x]
  BY DEF Rewritten
<1>3. ShellsOf({o}) = {object[o].shell} \ {None} /\ object[o].shell \in Shells \cup {None}
  BY <1>1 DEF ShellsOf, Objects
<1>4. killing' \subseteq Shells
  BY <1>1, <1>3
<1>5. ASSUME NEW p \in Shells, shell'[p] = "live", p \notin killing'
      PROVE  \E x \in DOMAIN order \cup lost : objects[x].shell = p
  <2>1. PICK x \in DOMAIN order \cup lost : object[x].shell = p
    BY <1>5 DEF IInv, NoStrayShell
  <2>2. p # None
    BY DEF TerminalAssumption, Shells
  <2>3. CASE x = o
    <3>1. r.shell = object[o].shell
      BY <1>3, <1>5, <2>1, <2>2, <2>3
    <3>2. QED BY <1>2, <2>1, <2>3, <3>1
  <2>4. CASE x # o
    BY <1>1, <1>2, <2>1, <2>4
  <2>5. QED BY <2>3, <2>4
<1>6. QED BY <1>4, <1>5 DEF Attended

\* stopProcess leaves a session without a shell, and still.
LEMMA StoppedFacts ==
  ASSUME NEW o \in DOMAIN object, object \in Seq(Objects)
  PROVE  /\ Stopped(o) \in Objects /\ Stopped(o).key = object[o].key
         /\ Stopped(o).shell = None /\ Stopped(o).status # "running"
         /\ Stopped(o).transcript = object[o].transcript
         /\ Stopped(o).status \in Statuses
<1>1. object[o] \in Objects
  BY ElementOfSeq
<1> DEFINE st == IF object[o].status = "running" THEN "exited" ELSE object[o].status
<1>2. st \in Statuses /\ st # "running"
  BY <1>1 DEF Objects, Statuses
<1>3. Stopped(o) = [object[o] EXCEPT !.status = st, !.shell = None]
  BY DEF Stopped
<1> HIDE DEF st
<1>4. /\ object[o] = [key |-> object[o].key, status |-> object[o].status,
                      shell |-> object[o].shell, transcript |-> object[o].transcript]
      /\ object[o].key \in Terminals /\ object[o].transcript \in Transcripts
  BY <1>1 DEF Objects
<1>5. Stopped(o) = [key |-> object[o].key, status |-> st, shell |-> None,
                    transcript |-> object[o].transcript]
  BY <1>3, <1>4
<1>6. QED BY <1>2, <1>4, <1>5 DEF Objects

\* A step of a call that touches neither shells nor pids.
LEMMA CallInOrder ==
  ASSUME IInv, call' \in [Calls -> CallStates], lock' \in [Threads -> Seq(Calls)],
         Queued', Exclusive', up' = up, last' \in [Terminals -> Transcripts],
         shell' = shell, tracked' = tracked, killing' \subseteq Shells, fresh' \subseteq Terminals,
         Marked', FewRetained'
  PROVE  InOrder
BY DEF InOrder, IInv, Typed, Tracked

\* The marks of other starts stay, and a call sets its own as it starts.
LEMMA MarksKept ==
  ASSUME IInv, NEW c \in Calls, \A d \in Calls : d # c => call'[d] = call[d],
         \A k \in fresh' :
           \/ /\ k \in fresh
              /\ \/ k # call[c].key \/ call[c].kind \notin Opens
                 \/ call[c].pc \notin {"persist", "spawn"}
           \/ /\ call'[c].key = k /\ call'[c].kind \in Opens
              /\ call'[c].pc \in {"persist", "spawn"}
  PROVE  Marked'
BY DEF IInv, Marked

\* A call is served as before when nothing it looks at changes.
LEMMA ServedSame ==
  ASSUME NEW c, Serves(c), call'[c] = call[c], object' = object, order' = order, lost' = lost
  PROVE  Serves(c)'
<1>1. Closing(c)' = Closing(c)
  BY DEF Closing, Thread
<1>2. QED BY <1>1 DEF Serves

\* A call that is done needs nothing.
LEMMA ServedDone ==
  ASSUME NEW c, call'[c] = Done
  PROVE  Serves(c)'
BY DEF Serves, Done, NoCall

\* A step that leaves the sessions alone.
LEMMA Unmoved ==
  ASSUME TerminalAssumption, IInv, object' = object, order' = order, lost' = lost,
         harmed' = harmed, persist' \in [Terminals -> Files],
         Agree(object, order, persist', last'), Attended(object, order), InOrder,
         \A c \in Calls : Serves(c)'
  PROVE  IInv'
<1>1. Shape(object, order) /\ harmed \subseteq Terminals
  BY DEF IInv, Typed, Shape
<1>2. LeftAs(object, order, persist')
  BY <1>1, LeftPlain DEF IInv, Typed
<1>3. QED BY <1>1, <1>2, Concludes

\* Who attends to the shells, when neither they nor the sessions change.
LEMMA StillAttended ==
  ASSUME IInv, up, shell' = shell, killing' = killing
  PROVE  killing' \subseteq Shells /\ Attended(object, order)
BY DEF IInv, Typed, NoStrayShell, Attended

-----------------------------------------------------------------------------
(* The steps of calls                                                      *)

\* A call that moves on without touching a session.
LEMMA BeginOpenStep ==
  ASSUME TerminalAssumption, IInv, NEW c \in Calls, BeginOpen(c)
  PROVE  IInv'
<1>1. At(c, "waiting", Opens) /\ Opens \subseteq Kinds /\ "waiting" \in Stages
  BY DEF BeginOpen, Opens, Kinds, Stages
<1>2. Holds(c) /\ call[c].pc = "waiting" /\ call[c].kind \in Opens /\ up /\ Typed
  BY <1>1 DEF At, IInv
<1>3. Advance(c, "flush", None) /\ InMap(call[c].key) = {}
      /\ UNCHANGED <<up, object, order, lock, shell, killing, tracked, persist, fresh, last, lost,
                     harmed>>
  BY DEF BeginOpen, history
<1>4. /\ call' \in [Calls -> CallStates] /\ Queued' /\ Exclusive'
      /\ call'[c].pc = "flush" /\ call'[c].obj = None
      /\ call'[c].kind = call[c].kind /\ call'[c].key = call[c].key
      /\ \A d \in Calls : d # c => call'[d] = call[d]
  BY <1>1, <1>2, <1>3, Advances DEF IInv
<1>5. Marked'
  BY <1>2, <1>3, <1>4, MarksKept DEF IInv, Typed
<1>6. FewRetained'
  BY <1>3 DEF IInv, FewRetained
<1>7. InOrder
  BY <1>3, <1>4, <1>5, <1>6, CallInOrder DEF IInv, Typed
<1>8. Serves(c)'
  BY <1>2, <1>3, <1>4 DEF Serves, InMap, Opens, Closes
<1>9. \A d \in Calls : Serves(d)'
  BY <1>3, <1>4, <1>8, ServedSame DEF IInv
<1>10. Attended(object, order)
  BY <1>2, <1>3, StillAttended
<1>11. Agree(object, order, persist', last') /\ persist' \in [Terminals -> Files]
  BY <1>3 DEF IInv, Typed
<1>12. QED BY <1>3, <1>7, <1>9, <1>10, <1>11, Unmoved

\* A call that returns without touching a session: its mark is consumed.
LEMMA ReturnStep ==
  ASSUME TerminalAssumption, IInv, NEW c \in Calls, NEW pc \in Stages, NEW K \in SUBSET Kinds,
         At(c, pc, K), Return(c), fresh' \subseteq fresh,
         call[c].kind \in Opens /\ pc \in {"persist", "spawn"} => call[c].key \notin fresh',
         UNCHANGED <<up, object, order, shell, killing, tracked, lost, harmed>>,
         last' \in [Terminals -> Transcripts], persist' \in [Terminals -> Files],
         Agree(object, order, persist', last')
  PROVE  IInv'
<1>1. call[c].pc = pc /\ up
  BY DEF At
<1>2. /\ call' \in [Calls -> CallStates] /\ lock' \in [Threads -> Seq(Calls)]
      /\ Queued' /\ Exclusive' /\ call'[c] = Done
      /\ \A d \in Calls : d # c => call'[d] = call[d]
  BY Returns DEF IInv
<1>3. Marked'
  BY <1>1, <1>2, MarksKept
<1>4. FewRetained' /\ fresh' \subseteq Terminals
  BY DEF IInv, FewRetained, Typed
<1>5. killing' \subseteq Shells /\ Attended(object, order)
  BY <1>1, StillAttended
<1>6. InOrder
  BY <1>2, <1>3, <1>4, <1>5, CallInOrder
<1>7. \A d \in Calls : Serves(d)'
  BY <1>2, ServedSame, ServedDone DEF IInv
<1>8. QED BY <1>5, <1>6, <1>7, Unmoved

\* open of a running session.
LEMMA AttachStep ==
  ASSUME TerminalAssumption, IInv, NEW c \in Calls, Attach(c)
  PROVE  IInv'
<1>1. At(c, "waiting", {"open"}) /\ {"open"} \in SUBSET Kinds /\ "waiting" \in Stages /\ Return(c)
  BY DEF Attach, Kinds, Stages
<1>2. fresh' \subseteq fresh
  BY DEF Attach, Consume
<1>3. UNCHANGED <<up, object, order, shell, killing, tracked, persist, last, lost, harmed>>
  BY DEF Attach, history
<1>4. Agree(object, order, persist', last') /\ persist' \in [Terminals -> Files]
      /\ last' \in [Terminals -> Transcripts]
  BY <1>3 DEF IInv, Typed
<1>5. QED BY <1>1, <1>2, <1>3, <1>4, ReturnStep

\* The files will hold, and the user has seen, the transcript T of terminal k;
\* of the others nothing changes.
Seen(k, T, files) ==
  /\ files \in [Terminals -> Files] /\ last' \in [Terminals -> Transcripts]
  /\ \A j \in Terminals : j # k => files[j] = persist[j] /\ last'[j] = last[j]
  /\ k \notin harmed => files[k].strays = {} /\ Coming(files[k]) = T /\ last'[k] = T

\* An open may mark its terminal, no other call marks any.
Marks(c) == \A k \in fresh' : k \in fresh \/ (k = call[c].key /\ call[c].kind \in Opens)

\* A new session o of terminal k, with transcript T, is the last in the line.
Made(objects, ord, o, k, T) ==
  /\ o = Len(object) + 1
  /\ objects = Append(object, NewObject(k, T)) /\ ord = Latest(order, o)

\* A call makes the session of its terminal: an open from the file, a restart
\* from nothing.
LEMMA NewStep ==
  ASSUME TerminalAssumption, IInv, NEW c \in Calls, NEW pc0 \in Stages \ {"idle", "done"},
         NEW K \in SUBSET Kinds, K \subseteq Starts, At(c, pc0, K), pc0 \notin {"persist", "spawn"},
         NEW o, NEW T \in Transcripts,
         NEW pc \in {"persist", "spawn"}, Advance(c, pc, o),
         InMap(call[c].key) = {}, NEW objects, NEW ord, Made(objects, ord, o, call[c].key, T),
         NEW files, Retain(objects, ord, files), Seen(call[c].key, T, files), Marks(c),
         UNCHANGED <<up, lock, shell, killing, tracked>>
  PROVE  IInv'
<1>1. /\ Holds(c) /\ call[c].pc = pc0 /\ call[c].kind \in Starts /\ up /\ Typed
      /\ pc0 \in Stages /\ pc0 \notin {"idle", "done"}
  BY Facts DEF IInv
<1>0. PICK k \in Terminals : k = call[c].key
  BY Facts DEF IInv
<1>2. /\ object \in Seq(Objects) /\ lost \subseteq DOMAIN object /\ harmed \subseteq Terminals
      /\ Order(order, DOMAIN object) /\ Sorted(order) /\ Sessions(object, order)
      /\ fresh \subseteq Terminals /\ DOMAIN order \subseteq DOMAIN object
  BY <1>1 DEF IInv, Typed, Order
<1>3. NewObject(k, T) \in Objects
  BY DEF NewObject, Objects, Statuses
<1>4. /\ objects \in Seq(Objects) /\ o \in DOMAIN objects /\ o \notin DOMAIN object
      /\ objects[o] = NewObject(k, T) /\ DOMAIN objects = DOMAIN object \cup {o} /\ o \in Nat
      /\ \A x \in DOMAIN object : objects[x] = object[x]
  BY <1>0, <1>2, <1>3, Joins DEF Made
<1>5. NewObject(k, T).key = k /\ NewObject(k, T).shell = None
      /\ NewObject(k, T).transcript = T /\ NewObject(k, T).status # "running"
  BY DEF NewObject
<1>6. /\ Order(ord, DOMAIN objects) /\ Sorted(ord) /\ DOMAIN ord = DOMAIN order \cup {o}
      /\ ord[o] = {}
  <2>1. PICK S, T2 : S = DOMAIN object /\ T2 = DOMAIN objects
    OBVIOUS
  <2>2. Order(order, S) /\ Sorted(order) /\ S \cup {o} \subseteq T2
    BY <1>2, <1>4, <2>1
  <2>3. ord = Latest(order, o)
    BY DEF Made
  <2>4. Order(ord, T2) /\ Sorted(ord) /\ DOMAIN ord = DOMAIN order \cup {o} /\ ord[o] = {}
    <3>1. /\ Order(Latest(order, o), T2) /\ Sorted(Latest(order, o))
          /\ DOMAIN Latest(order, o) = DOMAIN order \cup {o} /\ Latest(order, o)[o] = {}
      BY ONLY <2>2, LatestSorted
    <3>2. QED BY <2>3, <3>1
  <2>5. QED BY <2>1, <2>4
<1>7. Shape(objects, ord)
  <2>1. \A x \in DOMAIN objects : objects[x].shell # None =>
          objects[x].status = "running" /\ x \in DOMAIN ord \cup lost
    BY <1>2, <1>4, <1>5, <1>6 DEF Sessions
  <2>2. \A x, y \in DOMAIN ord : objects[x].key = objects[y].key => x = y
    <3>1. \A x \in DOMAIN order : object[x].key # k
      BY <1>0 DEF InMap
    <3>2. QED BY <1>2, <1>4, <1>5, <1>6, <3>1 DEF Sessions
  <2>3. \A x \in lost : objects[x].key \in harmed
    BY <1>2, <1>4 DEF IInv
  <2>4. QED BY <1>4, <1>6, <2>1, <2>2, <2>3 DEF Shape, Sessions
<1>8. LeftAs(objects, ord, files) /\ FewRetained' /\ LastStays(ord)
  <2>1. lost \subseteq DOMAIN objects
    BY <1>2, <1>4
  <2>2. files \in [Terminals -> Files]
    BY DEF Seen
  <2>3. QED BY <1>2, <1>4, <1>6, <2>1, <2>2, LeftRetained
<1>9. Agree(objects, ord, files, last')
  <2>1. \A x \in DOMAIN ord :
          \/ objects[x].key = k /\ objects[x].transcript = T
          \/ /\ x \in DOMAIN order /\ objects[x].key # k
             /\ objects[x].key = object[x].key /\ objects[x].transcript = object[x].transcript
    <3>1. \A x \in DOMAIN order : object[x].key # k
      BY <1>0 DEF InMap
    <3>2. QED BY <1>2, <1>4, <1>5, <1>6, <3>1
  <2>2. Renewed(objects, ord, k, T, files, last')
    BY <1>0, <2>1 DEF Renewed, Seen
  <2>3. QED BY <2>2, AgreeNew
<1>10. /\ call' \in [Calls -> CallStates] /\ Queued' /\ Exclusive'
       /\ call'[c].pc = pc /\ call'[c].obj = o
       /\ call'[c].kind = call[c].kind /\ call'[c].key = call[c].key
       /\ \A d \in Calls : d # c => call'[d] = call[d]
  <2>1. /\ Queued /\ Exclusive /\ lock' = lock /\ pc \in {"flush", "persist", "spawn"}
        /\ \/ pc = "persist" /\ call[c].kind \in Starts \cup {"clear", "sleep"}
           \/ pc = "spawn" /\ call[c].kind \in Starts
    BY <1>1 DEF IInv
  <2>2. o \in Nat \cup {None}
    BY <1>4
  <2>3. QED BY <1>1, <2>1, <2>2, Advances
<1>11. Serves(c)'
  <2>1. o \in DOMAIN order' /\ object' = objects
    BY <1>6, <1>8 DEF LeftAs, LastStays
  <2>2. QED BY <1>0, <1>1, <1>4, <1>5, <1>10, <2>1 DEF Serves, Still
<1>12. \A d \in Calls \ {c} : Serves(d)'
  <2>1. ThreadOf[k] = Thread(c)
    BY <1>0 DEF Thread
  <2>2. /\ \A x \in DOMAIN object :
           /\ objects[x].key = object[x].key
           /\ Still(object, x) => Still(objects, x) \/ ThreadOf[object[x].key] = Thread(c)
        /\ \A x \in DOMAIN order \ DOMAIN ord : ThreadOf[object[x].key] = Thread(c)
        /\ \A x \in DOMAIN ord \ DOMAIN order : ThreadOf[objects[x].key] = Thread(c)
        /\ DOMAIN object \subseteq DOMAIN objects
    BY <1>4, <1>5, <1>6, <2>1 DEF Still
  <2>3. QED BY <1>1, <1>6, <1>8, <1>10, <2>2, OthersApart
<1>13. Attended(objects, ord)
  BY <1>1, <1>2, <1>4, <1>6 DEF Attended, IInv, NoStrayShell
<1>14. Marked'
  <2>1. \A j \in fresh' :
           \/ /\ j \in fresh
              /\ \/ j # call[c].key \/ call[c].kind \notin Opens
                 \/ call[c].pc \notin {"persist", "spawn"}
           \/ /\ call'[c].key = j /\ call'[c].kind \in Opens
              /\ call'[c].pc \in {"persist", "spawn"}
    BY <1>1, <1>10 DEF Marks
  <2>2. QED BY <1>10, <2>1, MarksKept
<1>15. InOrder
  <2>1. fresh' \subseteq Terminals /\ lock' \in [Threads -> Seq(Calls)] /\ killing' \subseteq Shells
    <3>1. fresh' \subseteq Terminals
      BY <1>0, <1>2 DEF Marks
    <3>2. QED BY <1>1, <1>2, <3>1 DEF Typed
  <2>2. last' \in [Terminals -> Transcripts]
    BY DEF Seen
  <2>3. QED BY <1>8, <1>10, <1>14, <2>1, <2>2, CallInOrder DEF IInv
<1>16. \A d \in Calls : Serves(d)'
  BY <1>11, <1>12
<1>17. QED BY <1>7, <1>8, <1>9, <1>13, <1>15, <1>16, Concludes

\* The session of an open is made from the file.
LEMMA CreateStep ==
  ASSUME TerminalAssumption, IInv, NEW c \in Calls, Create(c)
  PROVE  IInv'
<1>1. At(c, "flush", Opens) /\ Opens \in SUBSET Kinds /\ "flush" \in Stages \ {"idle", "done"}
      /\ Opens \subseteq Starts
  BY DEF Create, Opens, Kinds, Stages, Starts
<1>2. call[c].pc = "flush" /\ call[c].kind \in Opens /\ Typed /\ call[c].key \in Terminals
  BY <1>1, Facts DEF At, IInv
<1>3. PICK k, o, T : k = call[c].key /\ o = Len(object) + 1 /\ T = Stored(persist[k])
  OBVIOUS
<1>4. PICK objects, ord : objects = Append(object, NewObject(k, T)) /\ ord = Latest(order, o)
  OBVIOUS
<1>5. /\ persist[k].pending = None /\ persist[k].queue = <<>> /\ Advance(c, "spawn", o)
      /\ fresh' = fresh \cup {k} /\ Retain(objects, ord, persist)
      /\ UNCHANGED <<up, lock, shell, killing, tracked, last>>
  BY <1>3, <1>4 DEF Create, Stored
<1>6. persist \in [Terminals -> Files] /\ last' \in [Terminals -> Transcripts]
  BY <1>2, <1>5 DEF Typed
<1>7. T \in Transcripts
  <2>1. <<>> \in Transcripts
    BY DEF Transcripts
  <2>2. QED BY <1>2, <1>3, <1>6, <2>1 DEF Stored, Files
<1>8. \A x \in DOMAIN order : object[x].key # k
  BY <1>2, <1>3 DEF IInv, Serves
<1>9. InMap(call[c].key) = {} /\ Made(objects, ord, o, call[c].key, T)
  BY <1>3, <1>4, <1>8 DEF InMap, Made
<1>10. Seen(call[c].key, T, persist)
  BY <1>2, <1>3, <1>5, <1>6 DEF IInv, Agree, Coming, Seen
<1>11. Marks(c)
  BY <1>2, <1>3, <1>5 DEF Marks
<1>12. QED BY <1>1, <1>5, <1>7, <1>9, <1>10, <1>11, NewStep

\* A session with another status, or another transcript.
LEMMA SetFacts ==
  ASSUME NEW x \in Objects, NEW st \in Statuses, NEW T \in Transcripts
  PROVE  /\ [x EXCEPT !.status = st] \in Objects /\ [x EXCEPT !.status = st].key = x.key
         /\ [x EXCEPT !.status = st].status = st /\ [x EXCEPT !.status = st].shell = x.shell
         /\ [x EXCEPT !.status = st].transcript = x.transcript
         /\ [x EXCEPT !.transcript = T] \in Objects /\ [x EXCEPT !.transcript = T].key = x.key
         /\ [x EXCEPT !.transcript = T].status = x.status
         /\ [x EXCEPT !.transcript = T].shell = x.shell
         /\ [x EXCEPT !.transcript = T].transcript = T
BY DEF Objects

\* Nothing is evicted.
Plain(objects, ord, files) ==
  /\ object' = objects /\ order' = ord /\ persist' = files
  /\ lost' = lost /\ harmed' = harmed

\* A session keeps its shell, or lets go of it to be killed.
LetsGo(o, r) ==
  \/ r.shell = object[o].shell /\ killing' = killing
  \/ r.shell = None /\ killing' = killing \cup ShellsOf({o})

\* A call gives the session of its terminal a transcript and waits until it is
\* written: it starts anew (Renew, BeginRestart), clears it or puts it to sleep.
LEMMA WriteStep ==
  ASSUME TerminalAssumption, IInv, NEW c \in Calls, NEW K \in SUBSET Kinds,
         K \subseteq Starts \cup {"clear", "sleep"}, At(c, "waiting", K),
         NEW o \in InMap(call[c].key), NEW r \in Objects,
         r.shell # None => r.status = "running",
         call[c].kind \in Starts => Still([x \in {o} |-> r], o),
         LetsGo(o, r), Advance(c, "persist", o),
         NEW objects, Rewritten(objects, o, r),
         NEW files, Seen(call[c].key, r.transcript, files),
         \/ Retain(objects, Touch(order, o), files)
         \/ Plain(objects, Touch(order, o), files) /\ r.status = object[o].status,
         Marks(c), UNCHANGED <<up, lock, shell, tracked>>
  PROVE  IInv'
<1>1. Holds(c) /\ call[c].pc = "waiting" /\ call[c].kind \in K /\ up /\ Typed
      /\ "waiting" \in Stages
  BY Facts DEF IInv, Stages
<1>2. PICK k \in Terminals : k = call[c].key
  BY <1>1, Facts
<1>3. /\ object \in Seq(Objects) /\ lost \subseteq DOMAIN object /\ harmed \subseteq Terminals
      /\ Order(order, DOMAIN object) /\ DOMAIN order \subseteq DOMAIN object
      /\ fresh \subseteq Terminals /\ Sorted(order)
  BY <1>1 DEF Typed, Order, IInv
<1>4. o \in DOMAIN order /\ o \in DOMAIN object /\ object[o].key = k /\ o \in Nat
  <2>1. Len(object) \in Nat /\ DOMAIN object = 1..Len(object)
    BY <1>3, LenProperties
  <2>2. QED BY <1>2, <1>3, <2>1 DEF InMap
<1>5. PICK ord : ord = Touch(order, o)
  OBVIOUS
<1>6. /\ InLine(ord, o) /\ Shape(objects, ord) /\ DOMAIN ord = DOMAIN order /\ ord[o] = {}
      /\ r.shell # None => r.status = "running" /\ o \in DOMAIN order \cup lost
  <2>1. InLine(ord, o) /\ ord[o] = {}
    BY <1>3, <1>4, <1>5, TouchSorted DEF InLine
  <2>2. r.shell # None => r.status = "running" /\ o \in DOMAIN order \cup lost
    BY <1>4
  <2>3. QED BY <2>1, <2>2, Updates
<1>7. LeftAs(objects, ord, files) /\ FewRetained' /\ LastStays(ord)
  <2>1. /\ objects \in Seq(Objects) /\ Order(ord, DOMAIN objects) /\ Sorted(ord)
        /\ DOMAIN objects = DOMAIN object /\ files \in [Terminals -> Files]
    BY <1>6 DEF Shape, Rewritten, Seen
  <2>2. CASE Retain(objects, Touch(order, o), files)
    BY <1>3, <1>5, <2>1, <2>2, LeftRetained
  <2>3. CASE Plain(objects, Touch(order, o), files) /\ r.status = object[o].status
    <3>1. LeftAs(objects, ord, files) /\ LastStays(ord)
      BY <1>3, <1>5, <2>1, <2>3, LeftPlain DEF Plain
    <3>2. object' = objects /\ order' = ord
      BY <1>5, <2>3 DEF Plain
    <3>3. \A x \in DOMAIN order' : object'[x].status = object[x].status
      BY <1>3, <1>6, <2>3, <3>2 DEF Rewritten
    <3>4. QED BY <1>6, <3>1, <3>2, <3>3, FewKept
  <2>4. QED BY <2>2, <2>3
<1>8. Agree(objects, ord, files, last')
  <2>1. \A x \in DOMAIN order : object[x].key = k => x = o
    BY <1>4 DEF IInv, Sessions
  <2>2. \A x \in DOMAIN ord :
          \/ objects[x].key = k /\ objects[x].transcript = r.transcript
          \/ /\ x \in DOMAIN order /\ objects[x].key # k
             /\ objects[x].key = object[x].key /\ objects[x].transcript = object[x].transcript
    BY <1>3, <1>4, <1>6, <2>1 DEF Rewritten
  <2>3. Renewed(objects, ord, k, r.transcript, files, last')
    BY <1>2, <2>2 DEF Renewed, Seen
  <2>4. QED BY <2>3, AgreeNew
<1>9. /\ call' \in [Calls -> CallStates] /\ Queued' /\ Exclusive'
      /\ call'[c].pc = "persist" /\ call'[c].obj = o
      /\ call'[c].kind = call[c].kind /\ call'[c].key = call[c].key
      /\ \A d \in Calls : d # c => call'[d] = call[d]
  <2>1. call[c].kind \in Starts \cup {"clear", "sleep"}
    BY <1>1
  <2>2. Queued /\ Exclusive /\ lock' = lock
    BY DEF IInv
  <2>3. QED BY <1>1, <1>4, <2>1, <2>2, Advances
<1>10. Marked'
  <2>1. \A j \in fresh' :
           \/ /\ j \in fresh
              /\ \/ j # call[c].key \/ call[c].kind \notin Opens
                 \/ call[c].pc \notin {"persist", "spawn"}
           \/ /\ call'[c].key = j /\ call'[c].kind \in Opens
              /\ call'[c].pc \in {"persist", "spawn"}
    BY <1>1, <1>9 DEF Marks
  <2>2. QED BY <1>9, <2>1, MarksKept
<1>11. killing' \subseteq Shells /\ Attended(objects, order)
  BY <1>1, ShellsRewritten DEF LetsGo
<1>12. InOrder
  <2>1. fresh' \subseteq Terminals /\ last' \in [Terminals -> Transcripts]
    BY <1>2, <1>3 DEF Seen, Marks
  <2>2. lock' \in [Threads -> Seq(Calls)]
    BY <1>1 DEF Typed
  <2>3. QED BY <1>7, <1>9, <1>10, <1>11, <2>1, <2>2, CallInOrder DEF IInv
<1>13. Serves(c)'
  <2>1. object'[o].key = call'[c].key /\ o \in DOMAIN object' /\ object'[o] = r
    BY <1>2, <1>4, <1>7, <1>9 DEF LeftAs, Rewritten
  <2>2. o \in DOMAIN order' \cup lost'
    <3>1. o \notin DOMAIN ord \ DOMAIN order'
      BY <1>6, <1>7 DEF LastStays
    <3>2. QED BY <1>4, <1>6, <3>1
  <2>3. call[c].kind \in Starts => Still(object', o)
    BY <2>1 DEF Still
  <2>4. o # None
    BY <1>4 DEF TerminalAssumption
  <2>5. QED BY <1>9, <2>1, <2>2, <2>3, <2>4 DEF Serves
<1>14. QED
  <2>1. object[o].key = call[c].key /\ \A d \in Calls : d # c => call'[d] = call[d]
    BY <1>2, <1>4, <1>9
  <2>2. QED BY <1>1, <1>6, <1>7, <1>8, <1>11, <1>12, <1>13, <2>1, Rewrites

\* persistHistory, for what the user has seen.
LEMMA WrittenSeen ==
  ASSUME TerminalAssumption, IInv, NEW k \in Terminals, NEW T \in Transcripts, NEW by \in Calls,
         NEW files, files = [persist EXCEPT ![k] = Written(@, T, by)],
         last' \in [Terminals -> Transcripts],
         \A j \in Terminals : j # k => last'[j] = last[j],
         k \notin harmed => last'[k] = T
  PROVE  Seen(k, T, files)
<1>1. persist \in [Terminals -> Files] /\ persist[k] \in Files
  BY DEF IInv, Typed
<1>2. /\ Written(persist[k], T, by) \in Files
      /\ Written(persist[k], T, by).strays = persist[k].strays
      /\ Coming(Written(persist[k], T, by)) = T
  BY <1>1, WrittenFacts
<1>3. /\ files \in [Terminals -> Files] /\ files[k] = Written(persist[k], T, by)
      /\ \A j \in Terminals : j # k => files[j] = persist[j]
  BY <1>1, <1>2
<1>4. k \notin harmed => persist[k].strays = {}
  BY DEF IInv, Agree
<1>5. QED BY <1>2, <1>3, <1>4 DEF Seen

\* A call starts a session anew: the shell is stopped, the transcript empty.
LEMMA AnewStep ==
  ASSUME TerminalAssumption, IInv, NEW c \in Calls, NEW K \in SUBSET Kinds,
         K \subseteq Starts, At(c, "waiting", K), NEW o \in InMap(call[c].key),
         Advance(c, "persist", o), killing' = killing \cup ShellsOf({o}),
         Retain([object EXCEPT ![o] = [Stopped(o) EXCEPT !.transcript = <<>>]], Touch(order, o),
                [persist EXCEPT ![call[c].key] = Written(@, <<>>, c)]),
         last' = [last EXCEPT ![call[c].key] = <<>>],
         Marks(c), UNCHANGED <<up, lock, shell, tracked>>
  PROVE  IInv'
<1>1. call[c].key \in Terminals /\ object \in Seq(Objects) /\ o \in DOMAIN object
      /\ last \in [Terminals -> Transcripts] /\ <<>> \in Transcripts
      /\ object[o].key = call[c].key
  <2>1. call[c].key \in Terminals /\ "waiting" \in Stages
    BY Facts DEF IInv, Stages
  <2>2. QED BY <2>1 DEF IInv, Typed, InMap, Order, Transcripts
<1>2. PICK r : r = [Stopped(o) EXCEPT !.transcript = <<>>]
  OBVIOUS
<1>3. PICK objects : objects = [object EXCEPT ![o] = r]
  OBVIOUS
<1>4. PICK files : files = [persist EXCEPT ![call[c].key] = Written(@, <<>>, c)]
  OBVIOUS
<1>5. r \in Objects /\ r.key = object[o].key /\ r.shell = None /\ r.status # "running"
      /\ r.transcript = <<>>
  <2>1. Stopped(o) \in Objects /\ Stopped(o).key = object[o].key /\ Stopped(o).shell = None
        /\ Stopped(o).status # "running" /\ <<>> \in Transcripts
    BY <1>1, StoppedFacts
  <2>2. PICK x : x = Stopped(o)
    OBVIOUS
  <2>3. r = [x EXCEPT !.transcript = <<>>] /\ x \in Objects
    BY <1>2, <2>1, <2>2
  <2>4. r \in Objects /\ r.key = x.key /\ r.shell = x.shell /\ r.status = x.status
        /\ r.transcript = <<>>
    BY <2>1, <2>3 DEF Objects
  <2>5. QED BY <2>1, <2>2, <2>4
<1>6. Rewritten(objects, o, r)
  BY <1>1, <1>3, <1>5, RewrittenFacts
<1>7. Seen(call[c].key, r.transcript, files)
  <2>1. /\ last' \in [Terminals -> Transcripts] /\ last'[call[c].key] = <<>>
        /\ \A j \in Terminals : j # call[c].key => last'[j] = last[j]
    BY <1>1
  <2>2. QED BY <1>1, <1>4, <1>5, <2>1, WrittenSeen
<1>8. Retain(objects, Touch(order, o), files)
  BY <1>2, <1>3, <1>4
<1>9. LetsGo(o, r) /\ Still([x \in {o} |-> r], o)
  BY <1>5 DEF LetsGo, Still
<1>10. r.shell # None => r.status = "running"
  BY <1>5
<1>11. K \subseteq Starts \cup {"clear", "sleep"}
  OBVIOUS
<1>12. QED BY <1>5, <1>6, <1>7, <1>8, <1>9, <1>10, <1>11, WriteStep

\* open of a session that has ended, or with another cwd.
LEMMA RenewStep ==
  ASSUME TerminalAssumption, IInv, NEW c \in Calls, Renew(c)
  PROVE  IInv'
<1>1. At(c, "waiting", Opens) /\ Opens \in SUBSET Kinds /\ Opens \subseteq Starts
  BY DEF Renew, At, Opens, Starts, Kinds
<1>2. PICK o \in InMap(call[c].key) :
        /\ Advance(c, "persist", o)
        /\ fresh' = fresh \cup IF object[o].status = "slept" THEN {call[c].key} ELSE {}
        /\ killing' = killing \cup ShellsOf({o})
        /\ Retain([object EXCEPT ![o] = [Stopped(o) EXCEPT !.transcript = <<>>]], Touch(order, o),
                  [persist EXCEPT ![call[c].key] = Written(@, <<>>, c)])
  BY DEF Renew
<1>3. last' = [last EXCEPT ![call[c].key] = <<>>] /\ UNCHANGED <<up, lock, shell, tracked>>
  BY DEF Renew
<1>4. Marks(c)
  BY <1>1, <1>2 DEF Marks, At
<1>5. QED BY <1>1, <1>2, <1>3, <1>4, AnewStep

\* restart, of a session or of none.
LEMMA BeginRestartStep ==
  ASSUME TerminalAssumption, IInv, NEW c \in Calls, BeginRestart(c)
  PROVE  IInv'
<1>1. At(c, "waiting", {"restart"}) /\ {"restart"} \in SUBSET Kinds /\ {"restart"} \subseteq Starts
      /\ "waiting" \in Stages \ {"idle", "done"}
  BY DEF BeginRestart, Starts, Kinds, Stages
<1>2. /\ last' = [last EXCEPT ![call[c].key] = <<>>]
      /\ UNCHANGED <<up, lock, shell, tracked, fresh>>
  BY DEF BeginRestart
<1>3. Marks(c)
  BY <1>2 DEF Marks
<1>4. CASE InMap(call[c].key) # {}
  <2>1. PICK o : o = CHOOSE x \in InMap(call[c].key) : TRUE
    OBVIOUS
  <2>2. o \in InMap(call[c].key)
    BY <1>4, <2>1
  <2>3. o \in DOMAIN order
    BY <2>2 DEF InMap
  <2>4. Latest(order, o) = Touch(order, o)
    BY <2>3 DEF Touch
  <2>5. /\ Advance(c, "persist", o) /\ killing' = killing \cup ShellsOf({o})
        /\ Retain([object EXCEPT ![o] = [Stopped(o) EXCEPT !.transcript = <<>>]], Touch(order, o),
                  [persist EXCEPT ![call[c].key] = Written(@, <<>>, c)])
    BY <1>4, <2>1, <2>4 DEF BeginRestart
  <2>6. UNCHANGED <<up, lock, shell, tracked>>
    BY <1>2
  <2>7. QED BY <1>1, <1>2, <1>3, <2>2, <2>5, <2>6, AnewStep
<1>5. CASE InMap(call[c].key) = {}
  <2>1. PICK k, o, T : k = call[c].key /\ o = Len(object) + 1 /\ T = <<>>
    OBVIOUS
  <2>2. PICK objects, ord, files :
          /\ objects = Append(object, NewObject(k, T)) /\ ord = Latest(order, o)
          /\ files = [persist EXCEPT ![k] = Written(@, T, c)]
    OBVIOUS
  <2>3. Made(objects, ord, o, call[c].key, T) /\ T \in Transcripts /\ k \in Terminals
        /\ last \in [Terminals -> Transcripts]
    BY <1>1, <2>1, <2>2, Facts DEF Made, Transcripts, Stages, IInv, Typed
  <2>4. Advance(c, "persist", o) /\ killing' = killing /\ Retain(objects, ord, files)
    BY <1>5, <2>1, <2>2 DEF BeginRestart
  <2>5. Seen(call[c].key, T, files)
    <3>1. /\ last' \in [Terminals -> Transcripts] /\ last'[k] = T
          /\ \A j \in Terminals : j # k => last'[j] = last[j]
      BY <1>2, <2>1, <2>3
    <3>2. QED BY <2>1, <2>2, <2>3, <3>1, WrittenSeen
  <2>6. UNCHANGED <<up, lock, shell, killing, tracked>>
    BY <1>2, <2>4
  <2>7. QED BY <1>1, <1>3, <1>5, <2>3, <2>4, <2>5, <2>6, NewStep
<1>6. QED BY <1>4, <1>5

\* clear.
LEMMA ClearStep ==
  ASSUME TerminalAssumption, IInv, NEW c \in Calls, Clear(c)
  PROVE  IInv'
<1>1. /\ At(c, "waiting", {"clear"}) /\ {"clear"} \in SUBSET Kinds
      /\ {"clear"} \subseteq Starts \cup {"clear", "sleep"} /\ "waiting" \in Stages
  BY DEF Clear, Starts, Kinds, Stages
<1>2. UNCHANGED <<up, shell, killing, tracked, fresh, lost, harmed>>
  BY DEF Clear
<1>3. CASE InMap(call[c].key) = {}
  <2>1. Return(c) /\ UNCHANGED <<object, order, persist, last>>
    BY <1>3 DEF Clear
  <2>2. /\ last' \in [Terminals -> Transcripts] /\ persist' \in [Terminals -> Files]
        /\ Agree(object, order, persist', last')
    BY <2>1 DEF IInv, Typed
  <2>3. fresh' \subseteq fresh
    BY <1>2
  <2>4. UNCHANGED <<up, object, order, shell, killing, tracked, lost, harmed>>
    BY <1>2, <2>1
  <2>5. QED BY <1>1, <2>1, <2>2, <2>3, <2>4, ReturnStep
<1>4. CASE InMap(call[c].key) # {}
  <2>1. PICK o \in InMap(call[c].key) :
          /\ Advance(c, "persist", o)
          /\ object' = [object EXCEPT ![o].transcript = <<>>]
          /\ order' = Touch(order, o)
          /\ persist' = [persist EXCEPT ![call[c].key] = Written(@, <<>>, c)]
          /\ last' = [last EXCEPT ![call[c].key] = <<>>]
          /\ UNCHANGED lock
    BY <1>4 DEF Clear
  <2>2. call[c].key \in Terminals /\ call[c].kind = "clear"
    BY <1>1, Facts DEF IInv
  <2>3. /\ object \in Seq(Objects) /\ o \in DOMAIN object /\ <<>> \in Transcripts
        /\ last \in [Terminals -> Transcripts] /\ object[o] \in Objects /\ o \in DOMAIN order
        /\ Sessions(object, order)
    BY ElementOfSeq DEF IInv, Typed, InMap, Order, Transcripts
  <2>4. PICK r, objects, files :
          /\ r = [object[o] EXCEPT !.transcript = <<>>] /\ objects = [object EXCEPT ![o] = r]
          /\ files = [persist EXCEPT ![call[c].key] = Written(@, <<>>, c)]
    OBVIOUS
  <2>5. r \in Objects /\ r.key = object[o].key /\ r.shell = object[o].shell
        /\ r.status = object[o].status /\ r.transcript = <<>>
    <3>1. PICK x : x = object[o]
      OBVIOUS
    <3>2. r = [x EXCEPT !.transcript = <<>>] /\ x \in Objects
      BY <2>3, <2>4, <3>1
    <3>3. r \in Objects /\ r.key = x.key /\ r.shell = x.shell /\ r.status = x.status
          /\ r.transcript = <<>>
      BY <2>3, <3>2 DEF Objects
    <3>4. QED BY <3>1, <3>3
  <2>6. Rewritten(objects, o, r)
    BY <2>3, <2>4, <2>5, RewrittenFacts
  <2>7. Seen(call[c].key, r.transcript, files)
    <3>1. /\ last' \in [Terminals -> Transcripts] /\ last'[call[c].key] = <<>>
          /\ \A j \in Terminals : j # call[c].key => last'[j] = last[j]
      BY <2>1, <2>2, <2>3
    <3>2. PICK T : T = <<>>
      OBVIOUS
    <3>3. Seen(call[c].key, T, files)
      BY <2>2, <2>3, <2>4, <3>1, <3>2, WrittenSeen
    <3>4. QED BY <2>5, <3>2, <3>3
  <2>8. LetsGo(o, r) /\ (r.shell # None => r.status = "running") /\ Marks(c)
        /\ (call[c].kind \in Starts => Still([x \in {o} |-> r], o))
    BY <1>2, <2>2, <2>3, <2>5 DEF LetsGo, Sessions, Marks, Starts
  <2>9. Plain(objects, Touch(order, o), files)
    BY <1>2, <2>1, <2>4 DEF Plain
  <2>10. UNCHANGED <<up, lock, shell, tracked>>
    BY <1>2, <2>1
  <2>11. QED BY <1>1, <2>1, <2>5, <2>6, <2>7, <2>8, <2>9, <2>10, WriteStep
<1>5. QED BY <1>3, <1>4

\* The sweep puts a session to sleep, unless it has ended meanwhile.
LEMMA SleepStep ==
  ASSUME TerminalAssumption, IInv, NEW c \in Calls, Sleep(c)
  PROVE  IInv'
<1>1. /\ At(c, "waiting", {"sleep"}) /\ {"sleep"} \in SUBSET Kinds
      /\ {"sleep"} \subseteq Starts \cup {"clear", "sleep"} /\ "waiting" \in Stages
  BY DEF Sleep, Starts, Kinds, Stages
<1>2. UNCHANGED <<up, shell, tracked, fresh, last>>
  BY DEF Sleep
<1>3. PICK o : o = call[c].obj
  OBVIOUS
<1>4. CASE Return(c) /\ UNCHANGED <<object, order, killing, persist, lost, harmed>>
  <2>1. /\ last' \in [Terminals -> Transcripts] /\ persist' \in [Terminals -> Files]
        /\ Agree(object, order, persist', last')
    BY <1>2, <1>4 DEF IInv, Typed
  <2>2. fresh' \subseteq fresh
    BY <1>2
  <2>3. UNCHANGED <<up, object, order, shell, killing, tracked, lost, harmed>>
    BY <1>2, <1>4
  <2>4. QED BY <1>1, <1>4, <2>1, <2>2, <2>3, ReturnStep
<1>5. CASE /\ o \in DOMAIN order /\ object[o].status = "running"
           /\ Advance(c, "persist", o) /\ killing' = killing \cup ShellsOf({o})
           /\ Retain([object EXCEPT ![o] = [Stopped(o) EXCEPT !.status = "slept"]],
                     Touch(order, o),
                     [persist EXCEPT ![call[c].key] = Written(@, object[o].transcript, c)])
           /\ UNCHANGED lock
  <2>1. call[c].key \in Terminals /\ call[c].kind = "sleep"
    BY <1>1, Facts DEF IInv
  <2>2. /\ object \in Seq(Objects) /\ o \in DOMAIN object
        /\ last \in [Terminals -> Transcripts] /\ object[o] \in Objects
        /\ object[o].transcript \in Transcripts /\ o # None
    <3>1. /\ object \in Seq(Objects) /\ o \in DOMAIN object /\ last \in [Terminals -> Transcripts]
      BY <1>5 DEF IInv, Typed, Order
    <3>2. Len(object) \in Nat /\ DOMAIN object = 1..Len(object) /\ object[o] \in Objects
      BY <3>1, LenProperties, ElementOfSeq
    <3>3. QED BY <3>1, <3>2 DEF Objects, TerminalAssumption
  <2>3. object[o].key = call[c].key
    BY <1>3, <2>2 DEF IInv, Serves
  <2>4. PICK r, objects, files :
          /\ r = [Stopped(o) EXCEPT !.status = "slept"] /\ objects = [object EXCEPT ![o] = r]
          /\ files = [persist EXCEPT ![call[c].key] = Written(@, object[o].transcript, c)]
    OBVIOUS
  <2>5. r \in Objects /\ r.key = object[o].key /\ r.shell = None
        /\ r.status = "slept" /\ r.transcript = object[o].transcript
    <3>1. Stopped(o) \in Objects /\ Stopped(o).key = object[o].key /\ Stopped(o).shell = None
          /\ Stopped(o).transcript = object[o].transcript
      BY <2>2, StoppedFacts
    <3>2. PICK x : x = Stopped(o)
      OBVIOUS
    <3>3. r = [x EXCEPT !.status = "slept"] /\ x \in Objects /\ "slept" \in Statuses
      BY <2>4, <3>1, <3>2 DEF Statuses
    <3>4. r \in Objects /\ r.key = x.key /\ r.shell = x.shell /\ r.status = "slept"
          /\ r.transcript = x.transcript
      BY <3>3 DEF Objects
    <3>5. QED BY <3>1, <3>2, <3>4
  <2>6. Rewritten(objects, o, r)
    BY <2>2, <2>4, <2>5, RewrittenFacts
  <2>7. Seen(call[c].key, r.transcript, files)
    <3>1. call[c].key \notin harmed => last[call[c].key] = object[o].transcript
      BY <1>5, <2>1, <2>3 DEF IInv, Agree
    <3>2. PICK T : T = object[o].transcript
      OBVIOUS
    <3>3. /\ last' \in [Terminals -> Transcripts] /\ T \in Transcripts
          /\ call[c].key \notin harmed => last'[call[c].key] = T
          /\ \A j \in Terminals : j # call[c].key => last'[j] = last[j]
          /\ files = [persist EXCEPT ![call[c].key] = Written(@, T, c)]
      BY <1>2, <2>2, <2>4, <3>1, <3>2
    <3>4. Seen(call[c].key, T, files)
      BY <2>1, <3>3, WrittenSeen
    <3>5. QED BY <2>5, <3>2, <3>4
  <2>8. LetsGo(o, r) /\ (r.shell # None => r.status = "running") /\ Marks(c)
        /\ (call[c].kind \in Starts => Still([x \in {o} |-> r], o))
    BY <1>2, <1>5, <2>1, <2>5 DEF LetsGo, Marks, Starts
  <2>9. Retain(objects, Touch(order, o), files)
    BY <1>5, <2>4
  <2>10. UNCHANGED <<up, lock, shell, tracked>> /\ o \in InMap(call[c].key)
         /\ Advance(c, "persist", o)
    BY <1>2, <1>5, <2>3 DEF InMap
  <2>11. QED BY <1>1, <2>5, <2>6, <2>7, <2>8, <2>9, <2>10, WriteStep
<1>6. QED BY <1>3, <1>4, <1>5 DEF Sleep

\* What a call works on at a late stage.
LEMMA WorkedOn ==
  ASSUME TerminalAssumption, IInv, NEW c \in Calls, NEW o, o = call[c].obj,
         call[c].pc \in {"persist", "spawn"}
  PROVE  /\ o \in DOMAIN object /\ o \in Nat /\ o \in DOMAIN order \cup lost
         /\ object[o].key = call[c].key /\ object[o] \in Objects /\ object \in Seq(Objects)
         /\ call[c].kind \in Starts => Still(object, o)
<1>1. o \in DOMAIN order \cup lost /\ (call[c].kind \in Starts => Still(object, o))
  BY DEF IInv, Serves
<1>2. o \in DOMAIN object /\ object \in Seq(Objects)
  BY <1>1 DEF IInv, Typed, Order
<1>3. o \in Nat /\ object[o] \in Objects
  BY <1>2, LenProperties, ElementOfSeq
<1>4. o # None
  BY <1>3 DEF TerminalAssumption
<1>5. object[o].key = call[c].key
  BY <1>4 DEF IInv, Serves
<1>6. QED BY <1>1, <1>2, <1>3, <1>5

\* An operation that gives a session a status, or a shell, and evicts nothing
\* or what is too much.
LEMMA StatusFacts ==
  ASSUME TerminalAssumption, IInv, NEW objects, NEW o, NEW r, Rewritten(objects, o, r),
         r.transcript = object[o].transcript,
         r.shell # None => r.status = "running" /\ o \in DOMAIN order \cup lost,
         \/ Retain(objects, Touch(order, o), persist)
         \/ /\ Plain(objects, Touch(order, o), persist)
            /\ r.status # "running" => object[o].status # "running",
         last' = last
  PROVE  /\ LeftAs(objects, Touch(order, o), persist) /\ FewRetained'
         /\ InLine(Touch(order, o), o) /\ Agree(objects, Touch(order, o), persist, last')
<1>1. PICK ord : ord = Touch(order, o)
  OBVIOUS
<1>2. /\ InLine(ord, o) /\ Shape(objects, ord) /\ DOMAIN ord = DOMAIN order
  <2>1. InLine(ord, o)
    BY <1>1 DEF InLine
  <2>2. QED BY <2>1, Updates
<1>3. /\ object \in Seq(Objects) /\ lost \subseteq DOMAIN object /\ harmed \subseteq Terminals
      /\ persist \in [Terminals -> Files] /\ DOMAIN order \subseteq DOMAIN object
  BY DEF Typed, Order, IInv
<1>4. /\ objects \in Seq(Objects) /\ Order(ord, DOMAIN objects) /\ Sorted(ord)
      /\ DOMAIN objects = DOMAIN object
  BY <1>2 DEF Shape, Rewritten
<1>5. LeftAs(objects, ord, persist) /\ FewRetained'
  <2>1. CASE Retain(objects, Touch(order, o), persist)
    BY <1>1, <1>3, <1>4, <2>1, LeftRetained
  <2>2. CASE /\ Plain(objects, Touch(order, o), persist)
             /\ r.status # "running" => object[o].status # "running"
    <3>1. LeftAs(objects, ord, persist)
      BY <1>1, <1>3, <1>4, <2>2, LeftPlain DEF Plain
    <3>2. object' = objects /\ order' = ord
      BY <1>1, <2>2 DEF Plain
    <3>3. \A x \in DOMAIN order' :
            object'[x].status # "running" => object[x].status # "running"
      BY <1>2, <1>3, <2>2, <3>2 DEF Rewritten
    <3>4. QED BY <1>2, <3>1, <3>2, <3>3, FewKept
  <2>3. QED BY <2>1, <2>2
<1>6. Agree(objects, ord, persist, last')
  <2>1. \A x \in DOMAIN ord : /\ objects[x].key = object[x].key
                              /\ objects[x].transcript = object[x].transcript
    BY <1>2, <1>3 DEF Rewritten
  <2>2. Agree(objects, ord, persist, last)
    BY <1>2, <2>1, AgreeSame
  <2>3. QED BY <2>2
<1>7. QED BY <1>1, <1>2, <1>5, <1>6

\* A call is about to start a shell: of a session that slept, or after a write.
LEMMA StartingStep ==
  ASSUME TerminalAssumption, IInv, NEW c \in Calls, NEW K \in SUBSET Kinds,
         K \subseteq Starts, NEW pc0 \in {"waiting", "persist"}, At(c, pc0, K),
         NEW o \in DOMAIN object, o \in DOMAIN order \cup lost, object[o].key = call[c].key,
         Still(object, o), Advance(c, "spawn", o),
         object' = [object EXCEPT ![o].status = "starting"], order' = Touch(order, o),
         Marks(c), UNCHANGED <<up, lock, shell, killing, tracked, persist, last, lost, harmed>>
  PROVE  IInv'
<1>1. Holds(c) /\ call[c].pc = pc0 /\ call[c].kind \in Starts /\ up /\ Typed
      /\ pc0 \in Stages /\ call[c].key \in Terminals
  <2>1. pc0 \in Stages
    BY DEF Stages
  <2>2. QED BY <2>1, Facts DEF IInv
<1>2. /\ object \in Seq(Objects) /\ fresh \subseteq Terminals /\ o \in Nat /\ object[o] \in Objects
      /\ o # None
  <2>1. object \in Seq(Objects) /\ fresh \subseteq Terminals
    BY <1>1 DEF Typed
  <2>2. o \in Nat /\ object[o] \in Objects
    BY <2>1, LenProperties, ElementOfSeq
  <2>3. QED BY <2>1, <2>2 DEF TerminalAssumption
<1>3. PICK r, objects : r = [object[o] EXCEPT !.status = "starting"]
                        /\ objects = [object EXCEPT ![o] = r]
  OBVIOUS
<1>4. r \in Objects /\ r.key = object[o].key /\ r.shell = None /\ r.status = "starting"
      /\ r.transcript = object[o].transcript
  <2>1. PICK x : x = object[o]
    OBVIOUS
  <2>2. r = [x EXCEPT !.status = "starting"] /\ x \in Objects /\ "starting" \in Statuses
    BY <1>2, <1>3, <2>1 DEF Statuses
  <2>3. r \in Objects /\ r.key = x.key /\ r.shell = x.shell /\ r.status = "starting"
        /\ r.transcript = x.transcript
    BY <2>2 DEF Objects
  <2>4. QED BY <2>1, <2>3 DEF Still
<1>5. Rewritten(objects, o, r)
  BY <1>2, <1>3, <1>4, RewrittenFacts
<1>6. /\ LeftAs(objects, Touch(order, o), persist) /\ FewRetained'
      /\ InLine(Touch(order, o), o) /\ Agree(objects, Touch(order, o), persist, last')
  <2>1. Plain(objects, Touch(order, o), persist)
    BY <1>3 DEF Plain
  <2>2. (r.shell # None => r.status = "running" /\ o \in DOMAIN order \cup lost)
        /\ (r.status # "running" => object[o].status # "running")
    BY <1>4 DEF Still
  <2>3. QED BY <1>4, <1>5, <2>1, <2>2, StatusFacts
<1>7. /\ call' \in [Calls -> CallStates] /\ Queued' /\ Exclusive'
      /\ call'[c].pc = "spawn" /\ call'[c].obj = o
      /\ call'[c].kind = call[c].kind /\ call'[c].key = call[c].key
      /\ \A d \in Calls : d # c => call'[d] = call[d]
  <2>1. Queued /\ Exclusive /\ lock' = lock /\ pc0 \notin {"idle", "done"}
    BY DEF IInv
  <2>2. QED BY <1>1, <1>2, <2>1, Advances
<1>8. Marked'
  <2>1. \A j \in fresh' :
           \/ /\ j \in fresh
              /\ \/ j # call[c].key \/ call[c].kind \notin Opens
                 \/ call[c].pc \notin {"persist", "spawn"}
           \/ /\ call'[c].key = j /\ call'[c].kind \in Opens
              /\ call'[c].pc \in {"persist", "spawn"}
    BY <1>1, <1>7 DEF Marks
  <2>2. QED BY <1>7, <2>1, MarksKept
<1>9. killing' \subseteq Shells /\ Attended(objects, order)
  <2>1. r.shell = object[o].shell /\ killing' = killing
    BY <1>4 DEF Still
  <2>2. QED BY <1>1, <1>5, <2>1, ShellsRewritten
<1>10. InOrder
  <2>1. fresh' \subseteq Terminals /\ last' \in [Terminals -> Transcripts]
        /\ lock' \in [Threads -> Seq(Calls)]
    BY <1>1, <1>2 DEF Marks, Typed
  <2>2. QED BY <1>6, <1>7, <1>8, <1>9, <2>1, CallInOrder DEF IInv
<1>11. Serves(c)'
  <2>1. /\ object'[o].key = call'[c].key /\ o \in DOMAIN object' /\ object'[o] = r
        /\ DOMAIN object' = DOMAIN object
    BY <1>3, <1>5, <1>7 DEF Rewritten
  <2>2. o \in DOMAIN order' \cup lost'
    <3>1. DOMAIN Touch(order, o) = DOMAIN order
      BY TouchSorted DEF IInv, Typed
    <3>2. QED BY <3>1
  <2>3. Still(object', o)
    BY <1>4, <2>1 DEF Still
  <2>4. call'[c].kind # "sleep"
    BY <1>1, <1>7 DEF Starts
  <2>5. QED BY <1>2, <1>7, <2>1, <2>2, <2>3, <2>4 DEF Serves
<1>12. QED
  <2>1. (r.shell # None => r.status = "running" /\ o \in DOMAIN order \cup lost)
        /\ \A d \in Calls : d # c => call'[d] = call[d]
    BY <1>4, <1>7
  <2>2. QED BY <1>1, <1>5, <1>6, <1>9, <1>10, <1>11, <2>1, Rewrites

\* open of a session that was put to sleep.
LEMMA WakeStep ==
  ASSUME TerminalAssumption, IInv, NEW c \in Calls, Wake(c)
  PROVE  IInv'
<1>1. At(c, "waiting", {"open"}) /\ {"open"} \in SUBSET Kinds /\ {"open"} \subseteq Starts
  BY DEF Wake, Kinds, Starts
<1>2. PICK o \in InMap(call[c].key) :
        /\ object[o].status = "slept" /\ Advance(c, "spawn", o)
        /\ object' = [object EXCEPT ![o].status = "starting"]
        /\ order' = Touch(order, o)
  BY DEF Wake
<1>3. /\ fresh' = fresh \cup {call[c].key}
      /\ UNCHANGED <<up, lock, shell, killing, tracked, persist, last, lost, harmed>>
  BY DEF Wake, history
<1>4. o \in DOMAIN order /\ o \in DOMAIN object /\ object[o].key = call[c].key
  BY DEF InMap, IInv, Typed, Order
<1>5. Still(object, o)
  BY <1>2, <1>4 DEF Still, IInv, Sessions
<1>6. Marks(c)
  BY <1>1, <1>3 DEF Marks, At, Opens
<1>7. QED BY <1>1, <1>2, <1>3, <1>4, <1>5, <1>6, StartingStep

\* The write a call waited for is done.
LEMMA PersistedStep ==
  ASSUME TerminalAssumption, IInv, NEW c \in Calls, Persisted(c)
  PROVE  IInv'
<1>1. At(c, "persist", Kinds) /\ "persist" \in Stages
  BY DEF Persisted, Stages
<1>2. UNCHANGED <<up, shell, killing, tracked, persist, fresh, last, lost, harmed>>
  BY DEF Persisted, history
<1>3. CASE call[c].kind \in {"clear", "sleep"}
  <2>1. Return(c) /\ UNCHANGED <<object, order>>
    BY <1>3 DEF Persisted
  <2>2. /\ last' \in [Terminals -> Transcripts] /\ persist' \in [Terminals -> Files]
        /\ Agree(object, order, persist', last')
    BY <1>2 DEF IInv, Typed
  <2>3. fresh' \subseteq fresh /\ call[c].kind \notin Opens
    BY <1>2, <1>3 DEF Opens
  <2>4. UNCHANGED <<up, object, order, shell, killing, tracked, lost, harmed>>
    BY <1>2, <2>1
  <2>5. Kinds \in SUBSET Kinds
    OBVIOUS
  <2>6. QED BY <1>1, <2>1, <2>2, <2>3, <2>4, <2>5, ReturnStep
<1>4. CASE call[c].kind \notin {"clear", "sleep"}
  <2>1. PICK o : o = call[c].obj
    OBVIOUS
  <2>2. call[c].pc = "persist" /\ call[c].kind \in Starts
    BY <1>1, <1>4 DEF At, IInv, Exclusive
  <2>3. o \in DOMAIN object /\ o \in DOMAIN order \cup lost /\ object[o].key = call[c].key
        /\ Still(object, o)
    BY <2>1, <2>2, WorkedOn
  <2>4. /\ Advance(c, "spawn", o) /\ object' = [object EXCEPT ![o].status = "starting"]
        /\ order' = Touch(order, o) /\ UNCHANGED lock
    BY <1>4, <2>1 DEF Persisted
  <2>5. At(c, "persist", Starts) /\ Starts \in SUBSET Kinds /\ Starts \subseteq Starts
    BY <1>1, <2>2 DEF At, Starts, Kinds
  <2>6. Marks(c) /\ UNCHANGED <<up, lock, shell, killing, tracked, persist, last, lost, harmed>>
    BY <1>2, <2>4 DEF Marks
  <2>7. QED BY <2>3, <2>4, <2>5, <2>6, StartingStep
<1>5. QED BY <1>3, <1>4

\* A call that returns has its mark consumed.
LEMMA Consumed ==
  ASSUME TerminalAssumption, IInv, NEW c \in Calls, At(c, "spawn", Kinds), Consume(c), Return(c)
  PROVE  /\ call' \in [Calls -> CallStates] /\ lock' \in [Threads -> Seq(Calls)]
         /\ Queued' /\ Exclusive' /\ Marked' /\ fresh' \subseteq Terminals /\ Serves(c)'
         /\ \A d \in Calls : d # c => call'[d] = call[d]
         /\ Holds(c) /\ up /\ call[c].pc = "spawn" /\ call[c].kind \in Starts
<1>1. "spawn" \in Stages /\ Kinds \in SUBSET Kinds /\ Typed /\ Queued /\ Exclusive
  BY DEF Stages, IInv
<1>2. /\ call' \in [Calls -> CallStates] /\ lock' \in [Threads -> Seq(Calls)]
      /\ Queued' /\ Exclusive' /\ call'[c] = Done
      /\ \A d \in Calls : d # c => call'[d] = call[d]
  BY <1>1, Returns
<1>3. Marked'
  <2>1. \A j \in fresh' :
           \/ /\ j \in fresh
              /\ \/ j # call[c].key \/ call[c].kind \notin Opens
                 \/ call[c].pc \notin {"persist", "spawn"}
           \/ /\ call'[c].key = j /\ call'[c].kind \in Opens
              /\ call'[c].pc \in {"persist", "spawn"}
    BY DEF Consume
  <2>2. QED BY <1>2, <2>1, MarksKept
<1>4. fresh' \subseteq Terminals
  BY <1>1 DEF Typed, Consume
<1>5. Holds(c) /\ up /\ call[c].pc = "spawn" /\ call[c].kind \in Starts
  BY <1>1 DEF At, Exclusive
<1>6. QED BY <1>2, <1>3, <1>4, <1>5, ServedDone

\* A shell is started.
LEMMA SpawnStep ==
  ASSUME TerminalAssumption, IInv, NEW c \in Calls, Spawn(c)
  PROVE  IInv'
<1>1. PICK o, p : o = call[c].obj
        /\ p = CHOOSE q \in Shells : shell[q] = "none" /\ \A r \in 1..(q - 1) : shell[r] # "none"
  OBVIOUS
<1>2. /\ At(c, "spawn", Kinds) /\ shell' = [shell EXCEPT ![p] = "live"]
      /\ object' = [object EXCEPT ![o].status = "running", ![o].shell = p]
      /\ order' = Touch(order, o) /\ tracked' = tracked \cup {p}
      /\ Consume(c) /\ Return(c)
      /\ UNCHANGED <<up, killing, persist, last, lost, harmed>>
  BY <1>1 DEF Spawn, history
<1>3. /\ call' \in [Calls -> CallStates] /\ lock' \in [Threads -> Seq(Calls)]
      /\ Queued' /\ Exclusive' /\ Marked' /\ fresh' \subseteq Terminals /\ Serves(c)'
      /\ \A d \in Calls : d # c => call'[d] = call[d]
      /\ Holds(c) /\ up /\ call[c].pc = "spawn" /\ call[c].kind \in Starts
  BY <1>2, Consumed
<1>4. p \in Shells
  <2>1. PICK q0 \in Shells : shell[q0] = "none"
    BY DEF Spawn
  <2>2. Shells \subseteq Nat /\ q0 \in Nat
    BY DEF Shells
  <2>3. PICK q \in {x \in Shells : shell[x] = "none"} :
          \A x \in {x \in Shells : shell[x] = "none"} : ~ (<<x, q>> \in OpToRel(<, Nat))
    BY <2>1, <2>2, NatLessThanWellFounded, WFMin
  <2>4. \A r \in 1..(q - 1) : shell[r] # "none"
    <3>1. SUFFICES ASSUME NEW r \in 1..(q - 1), shell[r] = "none"
                   PROVE  FALSE
      OBVIOUS
    <3>2. q \in 1..MaxSpawns /\ MaxSpawns \in Nat
      BY DEF Shells, TerminalAssumption
    <3>3. r \in Shells /\ r < q /\ r \in Nat /\ q \in Nat
      BY <3>1, <3>2 DEF Shells
    <3>4. <<r, q>> \in OpToRel(<, Nat)
      BY <3>3 DEF OpToRel
    <3>5. QED BY <2>3, <3>1, <3>3, <3>4
  <2>5. \E x \in Shells : shell[x] = "none" /\ \A r \in 1..(x - 1) : shell[r] # "none"
    BY <2>4
  <2>6. QED BY <1>1, <2>5
<1>5. /\ o \in DOMAIN object /\ o \in DOMAIN order \cup lost /\ object[o].key = call[c].key
      /\ Still(object, o) /\ object[o] \in Objects /\ object \in Seq(Objects)
  BY <1>1, <1>3, WorkedOn
<1>6. PICK r : r = [object[o] EXCEPT !.status = "running", !.shell = p]
  OBVIOUS
<1>7. PICK objects : objects = [object EXCEPT ![o] = r]
  OBVIOUS
<1>8. r \in Objects /\ r.key = object[o].key /\ r.shell = p /\ r.status = "running"
      /\ r.transcript = object[o].transcript
  <2>1. PICK x : x = object[o]
    OBVIOUS
  <2>2. r = [x EXCEPT !.status = "running", !.shell = p] /\ x \in Objects
    BY <1>5, <1>6, <2>1
  <2>3. x = [key |-> x.key, status |-> x.status, shell |-> x.shell, transcript |-> x.transcript]
        /\ x.key \in Terminals /\ x.transcript \in Transcripts
    BY <2>2 DEF Objects
  <2>4. r = [key |-> x.key, status |-> "running", shell |-> p, transcript |-> x.transcript]
    BY <2>2, <2>3
  <2>5. QED BY <1>4, <2>1, <2>3, <2>4 DEF Objects, Statuses
<1>9. Rewritten(objects, o, r)
  BY <1>5, <1>7, <1>8, RewrittenFacts
<1>10. Plain(objects, Touch(order, o), persist)
  <2>1. object' = objects
    BY <1>2, <1>5, <1>6, <1>7
  <2>2. QED BY <1>2, <2>1 DEF Plain
<1>11. /\ LeftAs(objects, Touch(order, o), persist) /\ FewRetained'
       /\ InLine(Touch(order, o), o) /\ Agree(objects, Touch(order, o), persist, last')
  <2>1. (r.shell # None => r.status = "running" /\ o \in DOMAIN order \cup lost)
        /\ (r.status # "running" => object[o].status # "running") /\ last' = last
    BY <1>2, <1>5, <1>8
  <2>2. QED BY <1>8, <1>9, <1>10, <2>1, StatusFacts
<1>12. Attended(objects, order)
  <2>1. ASSUME NEW q \in Shells, shell'[q] = "live", q \notin killing'
        PROVE  \E x \in DOMAIN order \cup lost : objects[x].shell = q
    <3>1. CASE q = p
      BY <1>5, <1>8, <1>9, <3>1 DEF Rewritten
    <3>2. CASE q # p
      <4>1. shell[q] = "live" /\ q \notin killing
        BY <1>2, <1>4, <2>1, <3>2 DEF IInv, Typed
      <4>2. PICK x \in DOMAIN order \cup lost : object[x].shell = q
        BY <1>3, <4>1 DEF IInv, NoStrayShell
      <4>3. q # None
        BY DEF TerminalAssumption, Shells
      <4>4. x # o
        BY <1>5, <4>2, <4>3 DEF Still
      <4>5. x \in DOMAIN object
        BY <4>2 DEF IInv, Typed, Order
      <4>6. QED BY <1>9, <4>2, <4>4, <4>5 DEF Rewritten
    <3>3. QED BY <3>1, <3>2
  <2>2. QED BY <2>1 DEF Attended
<1>13. InOrder
  <2>1. /\ shell' \in [Shells -> {"none", "live", "dead", "gone"}] /\ killing' \subseteq Shells
        /\ tracked' \subseteq Shells /\ Tracked'
    BY <1>2, <1>4 DEF IInv, Typed, Tracked
  <2>2. up' \in BOOLEAN /\ last' \in [Terminals -> Transcripts]
    BY <1>2 DEF IInv, Typed
  <2>3. QED BY <1>3, <1>11, <2>1, <2>2 DEF InOrder
<1>14. QED
  <2>1. r.shell # None => r.status = "running" /\ o \in DOMAIN order \cup lost
    BY <1>5, <1>8
  <2>2. QED BY <1>3, <1>5, <1>9, <1>11, <1>12, <1>13, <2>1, Rewrites

\* No shell can be started.
LEMMA SpawnFailsStep ==
  ASSUME TerminalAssumption, IInv, NEW c \in Calls, SpawnFails(c)
  PROVE  IInv'
<1>1. PICK o : o = call[c].obj
  OBVIOUS
<1>2. PICK r : r = [object[o] EXCEPT !.status = "error"]
  OBVIOUS
<1>3. PICK objects : objects = [object EXCEPT ![o] = r]
  OBVIOUS
<1>4. /\ At(c, "spawn", Kinds) /\ Consume(c) /\ Return(c)
      /\ Retain(objects, Touch(order, o), persist)
      /\ UNCHANGED <<up, shell, killing, tracked, last>>
  BY <1>1, <1>2, <1>3 DEF SpawnFails
<1>5. /\ call' \in [Calls -> CallStates] /\ lock' \in [Threads -> Seq(Calls)]
      /\ Queued' /\ Exclusive' /\ Marked' /\ fresh' \subseteq Terminals /\ Serves(c)'
      /\ \A d \in Calls : d # c => call'[d] = call[d]
      /\ Holds(c) /\ up /\ call[c].pc = "spawn" /\ call[c].kind \in Starts
  BY <1>4, Consumed
<1>6. /\ o \in DOMAIN object /\ o \in DOMAIN order \cup lost /\ object[o].key = call[c].key
      /\ Still(object, o) /\ object[o] \in Objects /\ object \in Seq(Objects)
  BY <1>1, <1>5, WorkedOn
<1>7. r \in Objects /\ r.key = object[o].key /\ r.shell = None /\ r.status = "error"
      /\ r.transcript = object[o].transcript
  <2>1. PICK x : x = object[o]
    OBVIOUS
  <2>2. r = [x EXCEPT !.status = "error"] /\ x \in Objects /\ "error" \in Statuses
    BY <1>2, <1>6, <2>1 DEF Statuses
  <2>3. r \in Objects /\ r.key = x.key /\ r.shell = x.shell /\ r.status = "error"
        /\ r.transcript = x.transcript
    BY <2>2 DEF Objects
  <2>4. QED BY <1>6, <2>1, <2>3 DEF Still
<1>8. Rewritten(objects, o, r)
  BY <1>3, <1>6, <1>7, RewrittenFacts
<1>9. r.shell # None => r.status = "running" /\ o \in DOMAIN order \cup lost
  BY <1>7
<1>10. /\ LeftAs(objects, Touch(order, o), persist) /\ FewRetained'
       /\ InLine(Touch(order, o), o) /\ Agree(objects, Touch(order, o), persist, last')
  <2>1. last' = last
    BY <1>4
  <2>2. QED BY <1>4, <1>7, <1>8, <1>9, <2>1, StatusFacts
<1>11. killing' \subseteq Shells /\ Attended(objects, order)
  <2>1. r.shell = object[o].shell /\ killing' = killing /\ shell' = shell
    BY <1>4, <1>6, <1>7 DEF Still
  <2>2. QED BY <1>5, <1>8, <2>1, ShellsRewritten
<1>12. InOrder
  <2>1. UNCHANGED <<up, shell, tracked>> /\ last' \in [Terminals -> Transcripts]
    BY <1>4 DEF IInv, Typed
  <2>2. QED BY <1>5, <1>10, <1>11, <2>1, CallInOrder
<1>13. QED BY <1>5, <1>6, <1>8, <1>9, <1>10, <1>11, <1>12, Rewrites

\* A client calls, or the sweep: the call waits for its turn.
LEMMA SubmitStep ==
  ASSUME TerminalAssumption, IInv, NEW c \in Calls, NEW kind \in Kinds, NEW k \in Terminals,
         Submit(c, kind, k)
  PROVE  IInv'
<1>1. PICK o \in IF kind = "sleep" THEN {x \in InMap(k) : object[x].status = "running"}
                 ELSE {None} :
        call' = [call EXCEPT ![c] = [pc |-> "waiting", kind |-> kind, key |-> k, obj |-> o]]
  BY DEF Submit
<1>2. PICK t0 : t0 = ThreadOf[k]
  OBVIOUS
<1>3. /\ up /\ call[c].pc = "idle" /\ lock' = [lock EXCEPT ![t0] = Append(@, c)]
      /\ UNCHANGED <<up, object, order, shell, killing, tracked, persist, fresh, last, lost,
                     harmed>>
  BY <1>2 DEF Submit, history
<1>4. /\ call \in [Calls -> CallStates] /\ lock \in [Threads -> Seq(Calls)] /\ t0 \in Threads
      /\ object \in Seq(Objects) /\ lock[t0] \in Seq(Calls)
  BY <1>2 DEF IInv, Typed, Threads
<1>5. /\ o \in Nat \cup {None}
      /\ o # None => o \in DOMAIN object /\ object[o].key = k
      /\ kind = "sleep" => o # None
  <2>1. CASE kind = "sleep"
    <3>1. o \in DOMAIN order /\ object[o].key = k
      BY <1>1, <2>1 DEF InMap
    <3>2. o \in DOMAIN object
      BY <3>1 DEF IInv, Typed, Order
    <3>3. o \in Nat
      BY <1>4, <3>2, LenProperties
    <3>4. o # None
      BY <3>3 DEF TerminalAssumption
    <3>5. QED BY <3>1, <3>2, <3>3, <3>4
  <2>2. CASE kind # "sleep"
    BY <1>1, <2>2
  <2>3. QED BY <2>1, <2>2
<1>6. /\ call'[c] = [pc |-> "waiting", kind |-> kind, key |-> k, obj |-> o]
      /\ \A d \in Calls : d # c => call'[d] = call[d]
  BY <1>1, <1>4
<1>7. /\ call'[c].pc = "waiting" /\ call'[c].kind = kind /\ call'[c].key = k /\ call'[c].obj = o
      /\ call'[c] \in CallStates
  BY <1>5, <1>6 DEF CallStates, Stages
<1>8. call' \in [Calls -> CallStates]
  BY <1>1, <1>4, <1>6, <1>7
<1>9. /\ Append(lock[t0], c) \in Seq(Calls) /\ Append(lock[t0], c) # <<>>
      /\ DOMAIN lock[t0] = 1..Len(lock[t0]) /\ Len(lock[t0]) \in Nat
      /\ \A i \in DOMAIN lock[t0] : Append(lock[t0], c)[i] = lock[t0][i]
      /\ Append(lock[t0], c)[Len(lock[t0]) + 1] = c
      /\ \A i \in DOMAIN Append(lock[t0], c) : i \in DOMAIN lock[t0] \/ i = Len(lock[t0]) + 1
      /\ Len(lock[t0]) + 1 \notin DOMAIN lock[t0]
  BY <1>4, Joins
<1>10. /\ lock' \in [Threads -> Seq(Calls)] /\ lock'[t0] = Append(lock[t0], c)
       /\ \A t \in Threads : t # t0 => lock'[t] = lock[t]
  BY <1>3, <1>4, <1>9
<1>11. \A t \in Threads : \A i \in DOMAIN lock[t] : lock[t][i] # c
  BY <1>3 DEF IInv, Queued
<1>12. Queued'
  <2>1. ASSUME NEW t \in Threads, NEW i \in DOMAIN lock'[t]
        PROVE  \/ i \in DOMAIN lock[t] /\ lock'[t][i] = lock[t][i] /\ lock'[t][i] # c
               \/ t = t0 /\ i = Len(lock[t0]) + 1 /\ lock'[t][i] = c
    BY <1>9, <1>10, <1>11, <2>1
  <2>2. ASSUME NEW t \in Threads, NEW i \in DOMAIN lock'[t]
        PROVE  /\ call'[lock'[t][i]].pc \notin {"idle", "done"}
               /\ call'[lock'[t][i]].key \in Terminals
               /\ ThreadOf[call'[lock'[t][i]].key] = t
    <3>1. CASE i \in DOMAIN lock[t] /\ lock'[t][i] = lock[t][i] /\ lock'[t][i] # c
      <4>1. lock[t][i] \in Calls
        BY <1>4, <3>1, ElementOfSeq
      <4>2. call'[lock[t][i]] = call[lock[t][i]]
        BY <1>6, <3>1, <4>1
      <4>3. QED BY <3>1, <4>2 DEF IInv, Queued, Thread
    <3>2. CASE t = t0 /\ lock'[t][i] = c
      BY <1>2, <1>7, <3>2
    <3>3. QED BY <2>1, <2>2, <3>1, <3>2
  <2>3. ASSUME NEW t \in Threads, NEW i \in DOMAIN lock'[t], NEW j \in DOMAIN lock'[t],
               lock'[t][i] = lock'[t][j]
        PROVE  i = j
    <3>1. \A x, y \in DOMAIN lock[t] : lock[t][x] = lock[t][y] => x = y
      BY DEF IInv, Queued
    <3>2. QED BY <2>1, <2>3, <3>1
  <2>4. QED BY <2>2, <2>3 DEF Queued, Thread
<1>13. Exclusive'
  <2>1. ASSUME NEW d \in Calls, AtWork(d)'
        PROVE  call'[d].key \in Terminals /\ Holds(d)'
    <3>1. d # c
      BY <1>7, <2>1 DEF AtWork
    <3>2. call'[d] = call[d] /\ AtWork(d)
      BY <1>6, <2>1, <3>1 DEF AtWork
    <3>3. call[d].key \in Terminals /\ Holds(d) /\ Thread(d) \in Threads
      BY <3>2 DEF IInv, Exclusive, Thread, Threads
    <3>4. lock[Thread(d)] # <<>> /\ Head(lock[Thread(d)]) = d
      BY <3>3 DEF Holds
    <3>5. lock'[Thread(d)] # <<>> /\ Head(lock'[Thread(d)]) = d
      <4>1. CASE Thread(d) = t0
        <5>1. lock[t0] # <<>> /\ 1 \in DOMAIN lock[t0] /\ lock[t0][1] = d
          BY <1>4, <3>4, <4>1, Leaves
        <5>2. Append(lock[t0], c)[1] = d
          BY <1>9, <5>1
        <5>3. Head(Append(lock[t0], c)) = Append(lock[t0], c)[1]
          BY <1>9, HeadTailProperties
        <5>4. QED BY <1>9, <1>10, <4>1, <5>2, <5>3
      <4>2. CASE Thread(d) # t0
        BY <1>10, <3>3, <3>4, <4>2
      <4>3. QED BY <4>1, <4>2
    <3>6. QED BY <1>3, <3>2, <3>3, <3>5 DEF Holds, Thread, IInv, Exclusive
  <2>2. ASSUME NEW d \in Calls
        PROVE  /\ call'[d].pc = "persist" => call'[d].kind \in Starts \cup {"clear", "sleep"}
               /\ call'[d].pc = "spawn" => call'[d].kind \in Starts
               /\ call'[d].pc = "flush" => call'[d].kind \in Opens \cup Closes
    BY <1>6, <1>7 DEF IInv, Exclusive
  <2>3. QED BY <2>1, <2>2 DEF Exclusive
<1>14. Marked'
  BY <1>3, <1>6, MarksKept
<1>15. killing' \subseteq Shells /\ Attended(object, order)
  BY <1>3, StillAttended
<1>16. InOrder
  <2>1. last' \in [Terminals -> Transcripts] /\ fresh' \subseteq Terminals /\ FewRetained'
    BY <1>3 DEF IInv, Typed, FewRetained
  <2>2. QED BY <1>3, <1>8, <1>10, <1>12, <1>13, <1>14, <1>15, <2>1, CallInOrder
<1>17. \A d \in Calls : Serves(d)'
  <2>1. Serves(c)'
    BY <1>3, <1>5, <1>7 DEF Serves
  <2>2. QED BY <1>3, <1>6, <2>1, ServedSame DEF IInv
<1>18. persist' \in [Terminals -> Files] /\ Agree(object, order, persist', last')
  BY <1>3 DEF IInv, Typed
<1>19. QED BY <1>3, <1>15, <1>16, <1>17, <1>18, Unmoved

\* What a close is about are terminals of its thread.
LEMMA ClosingFacts ==
  ASSUME NEW c, call[c].key \in Terminals
  PROVE  Closing(c) \subseteq Terminals /\ \A k \in Closing(c) : ThreadOf[k] = Thread(c)
BY DEF Closing, Thread

\* Who is pushed out by the first of the sessions that a close stops, and is
\* not closed itself, was in the map and did not run.
LEMMA PushedOutFacts ==
  ASSUME TerminalAssumption, object \in Seq(Objects), DOMAIN order \subseteq DOMAIN object,
         NEW S, S \subseteq DOMAIN order
  PROVE  PushedOut(S) \subseteq DOMAIN order
         /\ \A x \in PushedOut(S) \ S : object[x].status # "running"
<1>1. CASE ShellsOf(S) = {}
  BY <1>1 DEF PushedOut
<1>2. CASE ShellsOf(S) # {}
  <2>1. PICK K : K = {o \in S : object[o].shell # None}
    OBVIOUS
  <2>2. PICK first : first = Min(K)
    OBVIOUS
  <2>3. PICK objects : objects = [object EXCEPT ![first] = Stopped(first)]
    OBVIOUS
  <2>4. PICK ord : ord = Latest(Without(order, {o \in S : o < first}), first)
    OBVIOUS
  <2>5. PushedOut(S) = Evicted(objects, ord)
    BY <1>2, <2>1, <2>2, <2>3, <2>4 DEF PushedOut
  <2>6. first \in S
    <3>1. DOMAIN object \subseteq Nat
      BY LenProperties
    <3>2. K \in SUBSET Nat /\ K # {}
      BY <1>2, <2>1, <3>1 DEF ShellsOf
    <3>3. QED BY <2>1, <2>2, <3>2, MadeFirst
  <2>7. DOMAIN ord \subseteq DOMAIN order
    BY <2>4, <2>6 DEF Latest, Without
  <2>8. /\ Evicted(objects, ord) \subseteq DOMAIN ord
        /\ \A x \in Evicted(objects, ord) : objects[x].status # "running"
    BY EvictedFacts
  <2>9. \A x \in DOMAIN order \ S : objects[x] = object[x]
    BY <2>3, <2>6
  <2>10. QED BY <2>5, <2>7, <2>8, <2>9
<1>3. QED BY <1>1, <1>2

\* A close takes sessions from the map and stops their shells.
LEMMA BeginCloseStep ==
  ASSUME TerminalAssumption, IInv, NEW c \in Calls, BeginClose(c)
  PROVE  IInv'
<1>1. PICK S : S = UNION {InMap(k) : k \in Closing(c)}
  OBVIOUS
<1>2. PICK objects : objects = [o \in DOMAIN object |-> IF o \in S THEN Stopped(o) ELSE object[o]]
  OBVIOUS
<1>3. PICK ord : ord = Without(order, S)
  OBVIOUS
<1>4. /\ At(c, "waiting", Closes) /\ Advance(c, "flush", None)
      /\ killing' = killing \cup ShellsOf(S) /\ object' = objects
      /\ order' = Without(order, S \cup PushedOut(S)) /\ Forgets(PushedOut(S), object, persist)
      /\ UNCHANGED <<up, lock, shell, tracked, fresh, last>>
  BY <1>1, <1>2 DEF BeginClose
<1>5. /\ "waiting" \in Stages /\ Closes \in SUBSET Kinds
  BY DEF Stages, Closes, Kinds
<1>6. /\ Holds(c) /\ call[c].pc = "waiting" /\ call[c].kind \in Closes /\ up /\ Typed
      /\ call[c].key \in Terminals
  BY <1>4, <1>5, Facts DEF IInv
<1>7. /\ object \in Seq(Objects) /\ lost \subseteq DOMAIN object /\ harmed \subseteq Terminals
      /\ Order(order, DOMAIN object) /\ DOMAIN order \subseteq DOMAIN object
      /\ Sessions(object, order) /\ Sorted(order) /\ persist \in [Terminals -> Files]
      /\ killing \subseteq Shells
  BY <1>6 DEF IInv, Typed, Order
<1>8. /\ S \subseteq DOMAIN order
      /\ \A x \in S : object[x].key \in Closing(c) /\ ThreadOf[object[x].key] = Thread(c)
      /\ \A x \in DOMAIN order \ S : object[x].key \notin Closing(c)
  BY <1>1, <1>6, ClosingFacts DEF InMap
<1>9. /\ DOMAIN objects = DOMAIN object
      /\ \A x \in DOMAIN object : objects[x] \in Objects /\ objects[x].key = object[x].key
                                  /\ objects[x].transcript = object[x].transcript
      /\ \A x \in S : objects[x].shell = None /\ objects[x].status # "running"
      /\ \A x \in DOMAIN object \ S : objects[x] = object[x]
  BY <1>2, <1>7, <1>8, StoppedFacts, ElementOfSeq
<1>10. objects \in Seq(Objects)
  <2>1. Len(object) \in Nat /\ DOMAIN object = 1..Len(object)
    BY <1>7, LenProperties
  <2>2. objects = [x \in DOMAIN objects |-> objects[x]]
    BY <1>2
  <2>3. objects \in [1..Len(object) -> Objects]
    BY <1>9, <2>1, <2>2
  <2>4. QED BY <2>1, <2>3, SeqDef
<1>11. Order(ord, DOMAIN objects) /\ Sorted(ord) /\ DOMAIN ord = DOMAIN order \ S
  <2>1. PICK D : D = DOMAIN object
    OBVIOUS
  <2>2. Order(order, D) /\ Sorted(order)
    BY <1>7, <2>1
  <2>3. Order(ord, D) /\ Sorted(ord) /\ DOMAIN ord = DOMAIN order \ S
    BY <1>3, <2>2, WithoutSorted
  <2>4. QED BY <1>9, <2>1, <2>3
<1>12. Shape(objects, ord)
  <2>1. \A x \in DOMAIN objects : objects[x].shell # None =>
          objects[x].status = "running" /\ x \in DOMAIN ord \cup lost
    BY <1>7, <1>8, <1>9, <1>11 DEF Sessions
  <2>2. \A x, y \in DOMAIN ord : objects[x].key = objects[y].key => x = y
    BY <1>7, <1>9, <1>11 DEF Sessions
  <2>3. \A x \in lost : objects[x].key \in harmed
    BY <1>7, <1>9 DEF IInv
  <2>4. QED BY <1>10, <1>11, <2>1, <2>2, <2>3 DEF Shape, Sessions
<1>13. LeftAs(objects, ord, persist) /\ FewRetained'
  <2>1. PICK gone : gone = PushedOut(S)
    OBVIOUS
  <2>2. gone \subseteq DOMAIN order /\ \A x \in gone \ S : object[x].status # "running"
    BY <1>7, <1>8, <2>1, PushedOutFacts
  <2>3. Forgets(gone, object, persist) /\ gone \subseteq DOMAIN object
    BY <1>4, <1>7, <2>1, <2>2
  <2>4. /\ \A x \in gone : Working(x) => x \in lost'
        /\ lost \subseteq lost' /\ lost' \subseteq DOMAIN object
        /\ harmed \subseteq harmed' /\ harmed' \subseteq Terminals
        /\ \A x \in lost' \ lost : object[x].key \in harmed'
        /\ persist' \in [Terminals -> Files]
        /\ \A k \in Terminals \ harmed' : persist'[k] = persist[k]
    BY <1>7, <2>3, ForgetsFacts
  <2>5. /\ Order(order', DOMAIN object) /\ Sorted(order')
        /\ DOMAIN order' = DOMAIN order \ (S \cup gone)
    BY <1>4, <1>7, <2>1, WithoutSorted
  <2>6. object' = objects /\ DOMAIN order' \subseteq DOMAIN ord
        /\ \A x \in DOMAIN ord \ DOMAIN order' : x \in gone \ S
    BY <1>4, <1>11, <2>5
  <2>7. \A x \in DOMAIN ord \ DOMAIN order' :
          objects[x].status # "running" /\ (Working(x) => x \in lost')
    BY <1>9, <2>2, <2>3, <2>4, <2>6
  <2>8. \A x \in lost' \ lost : objects[x].key \in harmed'
    BY <1>9, <2>4
  <2>9. LeftAs(objects, ord, persist)
    BY <1>9, <2>4, <2>5, <2>6, <2>7, <2>8 DEF LeftAs
  <2>10. \A x \in DOMAIN order' : object'[x] = object[x]
    BY <1>7, <1>9, <2>5, <2>6
  <2>11. QED BY <2>5, <2>9, <2>10, FewKept
<1>14. Agree(objects, ord, persist, last')
  <2>1. Agree(objects, ord, persist, last)
    BY <1>7, <1>9, <1>11, AgreeSame
  <2>2. QED BY <1>4, <2>1
<1>15. /\ call' \in [Calls -> CallStates] /\ Queued' /\ Exclusive'
       /\ call'[c].pc = "flush" /\ call'[c].obj = None
       /\ call'[c].kind = call[c].kind /\ call'[c].key = call[c].key
       /\ \A d \in Calls : d # c => call'[d] = call[d]
  <2>1. Queued /\ Exclusive /\ lock' = lock
    BY <1>4 DEF IInv
  <2>2. QED BY <1>4, <1>5, <1>6, <2>1, Advances
<1>16. Serves(c)'
  <2>1. Closing(c)' = Closing(c)
    BY <1>15 DEF Closing, Thread
  <2>2. object' = objects /\ DOMAIN order' \subseteq DOMAIN ord
    BY <1>13 DEF LeftAs
  <2>3. \A o \in DOMAIN order' : object'[o].key \notin Closing(c)'
    BY <1>7, <1>8, <1>9, <1>11, <2>1, <2>2
  <2>4. call'[c].kind # "sleep" /\ call'[c].kind \notin Opens
    BY <1>6, <1>15 DEF Closes, Opens
  <2>5. QED BY <1>15, <2>3, <2>4 DEF Serves
<1>17. \A d \in Calls \ {c} : Serves(d)'
  <2>1. /\ \A x \in DOMAIN object :
             /\ objects[x].key = object[x].key
             /\ Still(object, x) => Still(objects, x) \/ ThreadOf[object[x].key] = Thread(c)
        /\ \A x \in DOMAIN order \ DOMAIN ord : ThreadOf[object[x].key] = Thread(c)
        /\ \A x \in DOMAIN ord \ DOMAIN order : ThreadOf[objects[x].key] = Thread(c)
        /\ DOMAIN object \subseteq DOMAIN objects
    BY <1>8, <1>9, <1>11 DEF Still
  <2>2. QED BY <1>6, <1>11, <1>13, <1>15, <2>1, OthersApart
<1>18. killing' \subseteq Shells
  <2>1. \A x \in S : object[x] \in Objects
    BY <1>7, <1>8, ElementOfSeq
  <2>2. \A x \in S : object[x].shell \in Shells \cup {None}
    BY <2>1 DEF Objects
  <2>3. ShellsOf(S) \subseteq Shells
    BY <2>2 DEF ShellsOf
  <2>4. QED BY <1>4, <1>7, <2>3
<1>19. Attended(objects, ord)
  <2>1. ASSUME NEW p \in Shells, shell'[p] = "live", p \notin killing'
        PROVE  \E x \in DOMAIN ord \cup lost : objects[x].shell = p
    <3>1. PICK x \in DOMAIN order \cup lost : object[x].shell = p
      BY <1>4, <1>6, <2>1 DEF IInv, NoStrayShell
    <3>2. p # None
      BY DEF TerminalAssumption, Shells
    <3>3. x \notin S
      BY <1>4, <2>1, <3>1, <3>2 DEF ShellsOf
    <3>4. QED BY <1>7, <1>9, <1>11, <3>1, <3>3
  <2>2. QED BY <2>1 DEF Attended
<1>20. Marked'
  BY <1>4, <1>6, <1>15, MarksKept
<1>21. InOrder
  <2>1. fresh' \subseteq Terminals /\ last' \in [Terminals -> Transcripts]
        /\ lock' \in [Threads -> Seq(Calls)]
    BY <1>4, <1>6 DEF Typed
  <2>2. QED BY <1>4, <1>13, <1>15, <1>18, <1>20, <2>1, CallInOrder DEF IInv
<1>22. \A d \in Calls : Serves(d)'
  BY <1>16, <1>17
<1>23. QED BY <1>12, <1>13, <1>14, <1>19, <1>21, <1>22, Concludes

\* A close is done: it may delete the files.
LEMMA EndCloseStep ==
  ASSUME TerminalAssumption, IInv, NEW c \in Calls, EndClose(c)
  PROVE  IInv'
<1>1. At(c, "flush", Closes) /\ Closes \in SUBSET Kinds /\ "flush" \in Stages /\ Return(c)
  BY DEF EndClose, Closes, Kinds, Stages
<1>2. UNCHANGED <<up, object, order, shell, killing, tracked, fresh, lost, harmed>>
  BY DEF EndClose
<1>3. /\ call[c].pc = "flush" /\ call[c].kind \in Closes /\ call[c].key \in Terminals
      /\ Closing(c) \subseteq Terminals
  BY <1>1, Facts, ClosingFacts DEF IInv
<1>4. persist \in [Terminals -> Files] /\ last \in [Terminals -> Transcripts]
  BY DEF IInv, Typed
<1>5. /\ last' \in [Terminals -> Transcripts] /\ persist' \in [Terminals -> Files]
      /\ Agree(object, order, persist', last')
  <2>1. CASE call[c].kind = "close"
    BY <2>1 DEF EndClose, IInv, Typed
  <2>2. CASE call[c].kind # "close"
    <3>1. /\ persist' = [k \in Terminals |->
                           [persist[k] EXCEPT !.file = IF k \in Closing(c) THEN None ELSE @]]
          /\ last' = [k \in Terminals |-> IF k \in Closing(c) THEN <<>> ELSE last[k]]
          /\ \A k \in Closing(c) : persist[k].pending = None /\ persist[k].queue = <<>>
      BY <2>2 DEF EndClose
    <3>2. ASSUME NEW k \in Terminals
          PROVE  /\ persist'[k] \in Files /\ persist'[k].strays = persist[k].strays
                 /\ persist'[k].pending = persist[k].pending
                 /\ persist'[k].queue = persist[k].queue
                 /\ persist'[k].file = IF k \in Closing(c) THEN None ELSE persist[k].file
      <4>1. PICK f, x : f = (IF k \in Closing(c) THEN None ELSE persist[k].file) /\ x = persist[k]
        OBVIOUS
      <4>2. x \in Files /\ f \in Transcripts \cup {None}
        BY <1>4, <4>1 DEF Files
      <4>3. persist'[k] = [x EXCEPT !.file = f]
        BY <3>1, <4>1
      <4>4. QED BY <4>1, <4>2, <4>3 DEF Files
    <3>3. last' \in [Terminals -> Transcripts]
      <4>1. <<>> \in Transcripts
        BY DEF Transcripts
      <4>2. QED BY <1>4, <3>1, <4>1
    <3>4. persist' \in [Terminals -> Files]
      BY <3>1, <3>2
    <3>5. ASSUME NEW k \in Terminals \ harmed
          PROVE  /\ \A o \in DOMAIN order : object[o].key = k => object[o].transcript = last'[k]
                 /\ persist'[k].strays = {}
                 /\ Coming(persist'[k]) = last'[k]
      <4>1. CASE k \in Closing(c)
        <5>1. \A o \in DOMAIN order : object[o].key # k
          BY <1>3, <4>1 DEF IInv, Serves
        <5>2. /\ persist'[k].strays = {} /\ persist'[k].pending = None
              /\ persist'[k].queue = <<>> /\ persist'[k].file = None /\ last'[k] = <<>>
          BY <3>1, <3>2, <4>1 DEF IInv, Agree
        <5>3. QED BY <5>1, <5>2 DEF Coming, Stored
      <4>2. CASE k \notin Closing(c)
        <5>1. persist'[k].file = persist[k].file /\ last'[k] = last[k]
          BY <3>1, <3>2, <4>2
        <5>2. Coming(persist'[k]) = Coming(persist[k]) /\ persist'[k].strays = persist[k].strays
          BY <3>2, <5>1 DEF Coming, Stored
        <5>3. QED BY <5>1, <5>2 DEF IInv, Agree
      <4>3. QED BY <4>1, <4>2
    <3>6. QED BY <3>3, <3>4, <3>5 DEF Agree
  <2>3. QED BY <2>1, <2>2
<1>6. fresh' \subseteq fresh
  BY <1>2
<1>7. QED BY <1>1, <1>2, <1>5, <1>6, ReturnStep

-----------------------------------------------------------------------------
(* The steps of shells and files                                           *)

\* A step that leaves the calls alone.
LEMMA CallsAside ==
  ASSUME IInv, call' = call, lock' = lock, fresh' = fresh
  PROVE  /\ call' \in [Calls -> CallStates] /\ lock' \in [Threads -> Seq(Calls)]
         /\ Queued' /\ Exclusive' /\ Marked' /\ fresh' \subseteq Terminals
BY DEF IInv, Typed, Queued, Exclusive, Marked, AtWork, Holds, Thread

\* A step outside the calls rewrites a session.
LEMMA RewrittenAside ==
  ASSUME TerminalAssumption, IInv, call' = call,
         NEW objects, NEW o, NEW r, Rewritten(objects, o, r),
         r.shell # None => r.status = "running" /\ o \in DOMAIN order \cup lost,
         Still(object, o) => Still(objects, o),
         NEW ord, InLine(ord, o), NEW files, LeftAs(objects, ord, files),
         Agree(objects, ord, files, last'), Attended(objects, order), InOrder
  PROVE  IInv'
<1>1. Shape(objects, ord) /\ DOMAIN ord = DOMAIN order
  BY Updates
<1>2. /\ DOMAIN objects = DOMAIN object
      /\ \A x \in DOMAIN object : objects[x].key = object[x].key
      /\ \A x \in DOMAIN object : Still(object, x) => Still(objects, x)
  BY DEF Rewritten, Still
<1>3. \A c \in Calls : Serves(c)'
  <2>1. PICK D, T : D = Calls /\ T = {}
    OBVIOUS
  <2>2. D \in SUBSET Calls /\ (\A d \in D : call'[d] = call[d]) /\ Typed
        /\ (\A c \in Calls : Serves(c)) /\ \A d \in D : AtWork(d) => ThreadOf[call[d].key] \notin T
    BY <2>1 DEF IInv
  <2>3. /\ \A x \in DOMAIN object :
             /\ objects[x].key = object[x].key
             /\ Still(object, x) => Still(objects, x) \/ ThreadOf[object[x].key] \in T
        /\ \A x \in DOMAIN order \ DOMAIN ord : ThreadOf[object[x].key] \in T
        /\ \A x \in DOMAIN ord \ DOMAIN order : ThreadOf[objects[x].key] \in T
        /\ DOMAIN object \subseteq DOMAIN objects /\ Order(ord, DOMAIN objects)
    BY <1>1, <1>2 DEF Shape
  <2>4. \A d \in D : Serves(d)'
    BY <2>2, <2>3, OthersServed
  <2>5. QED BY <2>1, <2>4
<1>4. Attended(objects, ord)
  BY <1>1 DEF Attended
<1>5. QED BY <1>1, <1>3, <1>4, Concludes

\* A shell prints.
LEMMA OutputStep ==
  ASSUME TerminalAssumption, IInv, NEW p \in Shells, Output(p)
  PROVE  IInv'
<1>1. PICK o \in Attached(p) :
        LET grown == Append(object[o].transcript, p)
        IN  /\ object' = [object EXCEPT ![o].transcript = grown]
            /\ order' = Touch(order, o)
            /\ persist' = [persist EXCEPT ![object[o].key].pending = grown]
            /\ last' = [last EXCEPT ![object[o].key] = IF o \in lost THEN @ ELSE grown]
  BY DEF Output
<1>2. PICK k, T : k = object[o].key /\ T = Append(object[o].transcript, p)
  OBVIOUS
<1>3. /\ object' = [object EXCEPT ![o].transcript = T] /\ order' = Touch(order, o)
      /\ persist' = [persist EXCEPT ![k].pending = T]
      /\ last' = [last EXCEPT ![k] = IF o \in lost THEN @ ELSE T]
      /\ UNCHANGED <<up, call, lock, shell, killing, tracked, fresh, lost, harmed>> /\ up
  BY <1>1, <1>2 DEF Output
<1>4. /\ object \in Seq(Objects) /\ o \in DOMAIN object /\ object[o].shell = p
      /\ object[o] \in Objects /\ lost \subseteq DOMAIN object /\ harmed \subseteq Terminals
      /\ persist \in [Terminals -> Files] /\ last \in [Terminals -> Transcripts]
      /\ DOMAIN order \subseteq DOMAIN object /\ p # None
  BY ElementOfSeq DEF Attached, IInv, Typed, Order, TerminalAssumption, Shells
<1>5. object[o].status = "running" /\ o \in DOMAIN order \cup lost
  BY <1>4 DEF IInv, Sessions
<1>6. k \in Terminals /\ T \in Transcripts
  <2>1. object[o].transcript \in Seq(1..MaxSpawns) /\ object[o].key \in Terminals
    BY <1>4 DEF Objects, Transcripts
  <2>2. p \in 1..MaxSpawns
    BY DEF Shells
  <2>3. QED BY <1>2, <2>1, <2>2, Joins DEF Transcripts
<1>7. PICK r, objects, files, ord :
        /\ r = [object[o] EXCEPT !.transcript = T] /\ objects = [object EXCEPT ![o] = r]
        /\ files = [persist EXCEPT ![k].pending = T] /\ ord = Touch(order, o)
  OBVIOUS
<1>8. r \in Objects /\ r.key = k /\ r.shell = p /\ r.status = "running" /\ r.transcript = T
  <2>1. PICK x : x = object[o]
    OBVIOUS
  <2>2. r = [x EXCEPT !.transcript = T] /\ x \in Objects
    BY <1>4, <1>7, <2>1
  <2>3. r \in Objects /\ r.key = x.key /\ r.shell = x.shell /\ r.status = x.status
        /\ r.transcript = T
    BY <1>6, <2>2 DEF Objects
  <2>4. QED BY <1>2, <1>4, <1>5, <2>1, <2>3
<1>9. Rewritten(objects, o, r)
  BY <1>2, <1>4, <1>7, <1>8, RewrittenFacts
<1>10. InLine(ord, o) /\ Shape(objects, ord) /\ DOMAIN ord = DOMAIN order
  <2>1. InLine(ord, o) /\ (r.shell # None => r.status = "running" /\ o \in DOMAIN order \cup lost)
    BY <1>5, <1>7, <1>8 DEF InLine
  <2>2. QED BY <1>9, <2>1, Updates
<1>11. /\ files \in [Terminals -> Files] /\ \A j \in Terminals : j # k => files[j] = persist[j]
       /\ files[k].strays = persist[k].strays /\ Coming(files[k]) = T
  <2>1. PICK f : f = persist[k]
    OBVIOUS
  <2>2. f \in Files /\ files = [persist EXCEPT ![k] = [f EXCEPT !.pending = T]]
    BY <1>4, <1>6, <1>7, <2>1
  <2>3. PICK g : g = [f EXCEPT !.pending = T]
    OBVIOUS
  <2>4. g \in Files /\ g.pending = T /\ g.strays = f.strays
    BY <1>6, <2>2, <2>3 DEF Files
  <2>5. T # None
    BY <1>6 DEF TerminalAssumption, Transcripts
  <2>6. Coming(g) = T
    BY <2>4, <2>5 DEF Coming
  <2>7. files = [persist EXCEPT ![k] = g]
    BY <2>2, <2>3
  <2>8. QED BY <1>4, <1>6, <2>1, <2>4, <2>6, <2>7
<1>12. LeftAs(objects, ord, files)
  <2>1. object' = objects /\ order' = ord /\ persist' = files
    BY <1>3, <1>7
  <2>2. Order(ord, DOMAIN objects) /\ Sorted(ord) /\ lost \subseteq DOMAIN objects
    BY <1>4, <1>9, <1>10 DEF Shape, Rewritten
  <2>3. lost' = lost /\ harmed' = harmed
    BY <1>3
  <2>4. QED BY <1>4, <1>11, <2>1, <2>2, <2>3, LeftPlain
<1>13. /\ last' \in [Terminals -> Transcripts]
       /\ \A j \in Terminals : j # k => last'[j] = last[j]
       /\ k \notin harmed => o \notin lost /\ last'[k] = T
  <2>1. k \notin harmed => o \notin lost
    BY <1>2 DEF IInv
  <2>2. QED BY <1>3, <1>4, <1>6, <2>1
<1>14. Agree(objects, ord, files, last')
  <2>1. CASE k \in harmed
    <3>1. \A x \in DOMAIN ord : objects[x].key # k => objects[x] = object[x]
      BY <1>4, <1>8, <1>9, <1>10 DEF Rewritten
    <3>2. QED BY <1>10, <1>11, <1>13, <2>1, <3>1 DEF IInv, Agree
  <2>2. CASE k \notin harmed
    <3>1. o \in DOMAIN order /\ \A x \in DOMAIN order : object[x].key = k => x = o
      BY <1>2, <1>5, <1>13, <2>2 DEF IInv, Sessions
    <3>2. \A x \in DOMAIN ord :
            \/ objects[x].key = k /\ objects[x].transcript = T
            \/ /\ x \in DOMAIN order /\ objects[x].key # k
               /\ objects[x].key = object[x].key /\ objects[x].transcript = object[x].transcript
      BY <1>4, <1>8, <1>9, <1>10, <3>1 DEF Rewritten
    <3>3. k \in Terminals \ harmed => files[k].strays = {}
      BY <1>11 DEF IInv, Agree
    <3>4. Renewed(objects, ord, k, T, files, last')
      BY <1>11, <1>13, <3>2, <3>3 DEF Renewed
    <3>5. QED BY <3>4, AgreeNew
  <2>3. QED BY <2>1, <2>2
<1>15. killing' \subseteq Shells /\ Attended(objects, order)
  <2>1. r.shell = object[o].shell /\ killing' = killing /\ shell' = shell
    BY <1>3, <1>4, <1>8
  <2>2. QED BY <1>3, <1>9, <2>1, ShellsRewritten
<1>16. FewRetained'
  <2>1. object' = objects /\ order' = ord
    BY <1>3, <1>7
  <2>2. \A x \in DOMAIN order' : object'[x].status # "running" => object[x].status # "running"
    BY <1>4, <1>8, <1>9, <1>10, <2>1 DEF Rewritten
  <2>3. QED BY <1>10, <2>1, <2>2, FewKept
<1>17. InOrder
  <2>1. UNCHANGED <<up, shell, tracked, call, lock, fresh>>
    BY <1>3
  <2>2. QED BY <1>13, <1>15, <1>16, <2>1, CallsAside, CallInOrder
<1>18. Still(object, o) => Still(objects, o)
  BY <1>5 DEF Still
<1>19. r.shell # None => r.status = "running" /\ o \in DOMAIN order \cup lost
  BY <1>5, <1>8
<1>20. call' = call
  BY <1>3
<1>21. QED BY <1>9, <1>10, <1>12, <1>14, <1>15, <1>17, <1>18, <1>19, <1>20, RewrittenAside

\* A step that leaves sessions, calls and files alone: a shell dies, its end is
\* heard of, or its escalation.
LEMMA ShellStep ==
  ASSUME TerminalAssumption, IInv,
         UNCHANGED <<up, object, order, call, lock, persist, fresh, last, lost, harmed>>,
         shell' \in [Shells -> {"none", "live", "dead", "gone"}], killing' \subseteq killing,
         tracked' = tracked, \A q \in Shells : shell'[q] = "live" => shell[q] = "live",
         \A q \in killing \ killing' : q \in Shells => shell'[q] # "live"
  PROVE  IInv'
<1>1. Attended(object, order)
  BY DEF IInv, NoStrayShell, Attended
<1>2. /\ call' \in [Calls -> CallStates] /\ lock' \in [Threads -> Seq(Calls)]
      /\ Queued' /\ Exclusive' /\ Marked' /\ fresh' \subseteq Terminals
  BY CallsAside
<1>3. InOrder
  BY <1>2 DEF InOrder, IInv, Typed, Tracked, FewRetained
<1>4. \A c \in Calls : Serves(c)'
  BY ServedSame DEF IInv
<1>5. persist' \in [Terminals -> Files] /\ Agree(object, order, persist', last')
  BY DEF IInv, Typed
<1>6. QED BY <1>1, <1>3, <1>4, <1>5, Unmoved

\* A shell ends.
LEMMA DieStep ==
  ASSUME TerminalAssumption, IInv, NEW p \in Shells, Die(p)
  PROVE  IInv'
<1>1. /\ shell' = [shell EXCEPT ![p] = "dead"]
      /\ UNCHANGED <<up, object, order, call, lock, killing, tracked, persist, fresh, last, lost,
                     harmed>>
  BY DEF Die, history
<1>2. shell \in [Shells -> {"none", "live", "dead", "gone"}]
  BY DEF IInv, Typed
<1>3. /\ shell' \in [Shells -> {"none", "live", "dead", "gone"}]
      /\ \A q \in Shells : shell'[q] = "live" => shell[q] = "live"
  BY <1>1, <1>2
<1>4. QED BY <1>1, <1>3, ShellStep

\* SIGKILL.
LEMMA EscalateStep ==
  ASSUME TerminalAssumption, IInv, NEW p \in Shells, Escalate(p)
  PROVE  IInv'
<1>1. /\ shell' = [shell EXCEPT ![p] = IF @ = "live" THEN "dead" ELSE @]
      /\ killing' = killing \ {p}
      /\ UNCHANGED <<up, object, order, call, lock, tracked, persist, fresh, last, lost, harmed>>
  BY DEF Escalate, history
<1>2. shell \in [Shells -> {"none", "live", "dead", "gone"}]
  BY DEF IInv, Typed
<1>3. /\ shell' \in [Shells -> {"none", "live", "dead", "gone"}] /\ shell'[p] # "live"
      /\ \A q \in Shells : shell'[q] = "live" => shell[q] = "live"
  BY <1>1, <1>2
<1>4. killing' \subseteq killing /\ \A q \in killing \ killing' : q \in Shells => shell'[q] # "live"
  BY <1>1, <1>3
<1>5. QED BY <1>1, <1>3, <1>4, ShellStep

\* The server hears of the end of a shell.
LEMMA HearExitStep ==
  ASSUME TerminalAssumption, IInv, NEW p \in Shells, HearExit(p)
  PROVE  IInv'
<1>1. /\ up /\ shell' = [shell EXCEPT ![p] = "gone"] /\ killing' = killing \ {p}
      /\ UNCHANGED <<up, call, lock, fresh, last>>
  BY DEF HearExit
<1>2. shell \in [Shells -> {"none", "live", "dead", "gone"}] /\ killing \subseteq Shells
      /\ tracked \subseteq Shells /\ last \in [Terminals -> Transcripts]
  BY DEF IInv, Typed
<1>3. /\ shell' \in [Shells -> {"none", "live", "dead", "gone"}] /\ shell'[p] # "live"
      /\ \A q \in Shells : shell'[q] = "live" => shell[q] = "live" /\ q # p
  BY <1>1, <1>2
<1>4. CASE Attached(p) = {}
  <2>1. tracked' = tracked /\ UNCHANGED <<object, order, persist, lost, harmed>>
    BY <1>4 DEF HearExit
  <2>2. /\ killing' \subseteq killing
        /\ \A q \in killing \ killing' : q \in Shells => shell'[q] # "live"
    BY <1>1, <1>3
  <2>3. QED BY <1>1, <1>3, <2>1, <2>2, ShellStep
<1>5. CASE Attached(p) # {}
  <2>1. PICK o \in Attached(p) :
          Retain([object EXCEPT ![o] = Stopped(o)], Touch(order, o), persist)
    BY <1>5 DEF HearExit
  <2>2. tracked' = tracked \ {p}
    BY <1>5 DEF HearExit
  <2>3. PICK r : r = Stopped(o)
    OBVIOUS
  <2>4. PICK objects : objects = [object EXCEPT ![o] = r]
    OBVIOUS
  <2>5. object \in Seq(Objects) /\ o \in DOMAIN object /\ object[o].shell = p
        /\ lost \subseteq DOMAIN object /\ DOMAIN order \subseteq DOMAIN object
    BY DEF Attached, IInv, Typed, Order
  <2>6. r \in Objects /\ r.key = object[o].key /\ r.shell = None /\ r.status # "running"
        /\ r.transcript = object[o].transcript
    BY <2>3, <2>5, StoppedFacts
  <2>7. Rewritten(objects, o, r)
    BY <2>4, <2>5, <2>6, RewrittenFacts
  <2>8. r.shell # None => r.status = "running" /\ o \in DOMAIN order \cup lost
    BY <2>6
  <2>9. Retain(objects, Touch(order, o), persist) /\ last' = last
    BY <1>1, <2>1, <2>3, <2>4
  <2>10. /\ LeftAs(objects, Touch(order, o), persist) /\ FewRetained'
         /\ InLine(Touch(order, o), o) /\ Agree(objects, Touch(order, o), persist, last')
    BY <2>6, <2>7, <2>8, <2>9, StatusFacts
  <2>11. Attended(objects, order)
    <3>1. ASSUME NEW q \in Shells, shell'[q] = "live", q \notin killing'
          PROVE  \E x \in DOMAIN order \cup lost : objects[x].shell = q
      <4>1. shell[q] = "live" /\ q # p /\ q \notin killing
        BY <1>1, <1>3, <3>1
      <4>2. PICK x \in DOMAIN order \cup lost : object[x].shell = q
        BY <1>1, <4>1 DEF IInv, NoStrayShell
      <4>3. x # o /\ x \in DOMAIN object
        BY <2>5, <4>1, <4>2
      <4>4. QED BY <2>7, <4>2, <4>3 DEF Rewritten
    <3>2. QED BY <3>1 DEF Attended
  <2>12. InOrder
    <3>1. tracked' \subseteq Shells /\ Tracked' /\ killing' \subseteq Shells
      BY <1>1, <1>2, <1>3, <2>2 DEF IInv, Tracked
    <3>2. up' \in BOOLEAN /\ last' \in [Terminals -> Transcripts] /\ call' = call /\ lock' = lock
          /\ fresh' = fresh
      BY <1>1, <1>2 DEF IInv, Typed
    <3>3. /\ call' \in [Calls -> CallStates] /\ lock' \in [Threads -> Seq(Calls)]
          /\ Queued' /\ Exclusive' /\ Marked' /\ fresh' \subseteq Terminals
      BY <3>2, CallsAside
    <3>4. QED BY <1>3, <2>10, <3>1, <3>2, <3>3 DEF InOrder
  <2>13. (Still(object, o) => Still(objects, o)) /\ call' = call
    BY <1>1, <2>6, <2>7 DEF Still, Rewritten
  <2>14. QED BY <2>7, <2>8, <2>10, <2>11, <2>12, <2>13, RewrittenAside
<1>6. QED BY <1>4, <1>5

\* A step of the files only, which does not change what they will hold.
LEMMA FileStep ==
  ASSUME TerminalAssumption, IInv, up,
         UNCHANGED <<up, object, order, call, lock, shell, killing, tracked, fresh, last, lost,
                     harmed>>,
         persist' \in [Terminals -> Files],
         \A k \in Terminals \ harmed :
           persist'[k].strays = {} /\ Coming(persist'[k]) = Coming(persist[k])
  PROVE  IInv'
<1>1. killing' \subseteq Shells /\ Attended(object, order)
  BY StillAttended
<1>2. /\ call' \in [Calls -> CallStates] /\ lock' \in [Threads -> Seq(Calls)]
      /\ Queued' /\ Exclusive' /\ Marked' /\ fresh' \subseteq Terminals
  BY CallsAside
<1>3. FewRetained' /\ last' \in [Terminals -> Transcripts]
  BY DEF IInv, Typed, FewRetained
<1>4. InOrder
  BY <1>1, <1>2, <1>3, CallInOrder
<1>5. \A c \in Calls : Serves(c)'
  BY ServedSame DEF IInv
<1>6. Agree(object, order, persist', last')
  BY DEF IInv, Agree
<1>7. QED BY <1>1, <1>4, <1>5, <1>6, Unmoved

\* What waits to be written is queued.
LEMMA QueueWriteStep ==
  ASSUME TerminalAssumption, IInv, NEW k \in Terminals, QueueWrite(k)
  PROVE  IInv'
<1>1. /\ up /\ persist[k].pending # None
      /\ persist' = [persist EXCEPT ![k] = Written(@, @.pending, None)]
      /\ UNCHANGED <<up, object, order, call, lock, shell, killing, tracked, fresh, last, lost,
                     harmed>>
  BY DEF QueueWrite, history
<1>2. persist \in [Terminals -> Files] /\ persist[k] \in Files
  BY DEF IInv, Typed
<1>3. PICK f, T : f = persist[k] /\ T = persist[k].pending
  OBVIOUS
<1>4. T \in Transcripts /\ f \in Files /\ Coming(f) = T
  BY <1>1, <1>2, <1>3 DEF Files, Coming
<1>5. /\ Written(f, T, None) \in Files /\ Written(f, T, None).strays = f.strays
      /\ Coming(Written(f, T, None)) = T
  BY <1>4, WrittenFacts
<1>6. persist' = [persist EXCEPT ![k] = Written(f, T, None)]
  BY <1>1, <1>3
<1>7. persist' \in [Terminals -> Files]
  BY <1>2, <1>5, <1>6
<1>8. \A j \in Terminals : persist'[j].strays = persist[j].strays
                           /\ Coming(persist'[j]) = Coming(persist[j])
  BY <1>2, <1>3, <1>4, <1>5, <1>6
<1>9. \A j \in Terminals \ harmed :
        persist'[j].strays = {} /\ Coming(persist'[j]) = Coming(persist[j])
  BY <1>8 DEF IInv, Agree
<1>10. QED BY <1>1, <1>7, <1>9, FileStep

\* The record of a file after a write of the queue, or of what a deleted queue
\* left behind, has ended.
EndedQueued(f, T, q) == [f EXCEPT !.file = T, !.queue = q]

EndedStray(f, T, S) == [f EXCEPT !.file = T, !.strays = S]

\* What the end of a write changes in that record, and what it leaves.
LEMMA QueuedParts ==
  ASSUME NEW f \in Files, NEW T \in Transcripts, NEW q \in Seq(Writes)
  PROVE  /\ EndedQueued(f, T, q) \in Files /\ EndedQueued(f, T, q).strays = f.strays
         /\ EndedQueued(f, T, q).pending = f.pending /\ EndedQueued(f, T, q).queue = q
         /\ EndedQueued(f, T, q).file = T
<1>1. /\ f = [file |-> f.file, pending |-> f.pending, queue |-> f.queue, strays |-> f.strays]
      /\ f.pending \in Transcripts \cup {None} /\ f.strays \in SUBSET (Seq(Writes) \ {<<>>})
  BY DEF Files
<1>2. PICK g : g = [f EXCEPT !.file = T, !.queue = q]
  OBVIOUS
<1>3. g = [file |-> T, pending |-> f.pending, queue |-> q, strays |-> f.strays]
  BY <1>1, <1>2
<1>4. EndedQueued(f, T, q) = g
  BY <1>2 DEF EndedQueued
<1>5. QED BY <1>1, <1>3, <1>4 DEF Files

\* A stray write that ends leaves the record of a file.
LEMMA StrayParts ==
  ASSUME NEW f \in Files, NEW T \in Transcripts, NEW S \in SUBSET (Seq(Writes) \ {<<>>})
  PROVE  EndedStray(f, T, S) \in Files
<1>1. /\ f = [file |-> f.file, pending |-> f.pending, queue |-> f.queue, strays |-> f.strays]
      /\ f.pending \in Transcripts \cup {None} /\ f.queue \in Seq(Writes)
  BY DEF Files
<1>2. PICK h : h = [f EXCEPT !.file = T, !.strays = S]
  OBVIOUS
<1>3. h = [file |-> T, pending |-> f.pending, queue |-> f.queue, strays |-> S]
  BY <1>1, <1>2
<1>4. EndedStray(f, T, S) = h
  BY <1>2 DEF EndedStray
<1>5. QED BY <1>1, <1>3, <1>4 DEF Files

\* What remains of a queue that is not empty once its first write has ended.
LEMMA WritesLeft ==
  ASSUME NEW S, NEW s \in Seq(S), s # <<>>
  PROVE  /\ Head(s) \in S
         /\ (IF Len(s) > 1 THEN {Tail(s)} ELSE {}) \in SUBSET (Seq(S) \ {<<>>})
<1>1. Head(s) \in S /\ Tail(s) \in Seq(S) /\ Len(s) \in Nat /\ Len(Tail(s)) = Len(s) - 1
  BY HeadTailProperties, LenProperties
<1>2. Len(s) > 1 => Tail(s) # <<>>
  <2>1. ASSUME Len(s) > 1
        PROVE  Len(Tail(s)) # 0
    BY <1>1, <2>1
  <2>2. Len(<<>>) = 0
    BY Leaves
  <2>3. QED BY <2>1, <2>2
<1>3. QED BY <1>1, <1>2

\* A write ends.
LEMMA EndWriteStep ==
  ASSUME TerminalAssumption, IInv, NEW k \in Terminals, EndWrite(k)
  PROVE  IInv'
<1>1. /\ up
      /\ UNCHANGED <<up, object, order, call, lock, shell, killing, tracked, fresh, last, lost,
                     harmed>>
  BY DEF EndWrite, history
<1>2. PICK f : f = persist[k]
  OBVIOUS
<1>3. /\ persist \in [Terminals -> Files] /\ f \in Files
      /\ f = [file |-> f.file, pending |-> f.pending, queue |-> f.queue, strays |-> f.strays]
      /\ f.file \in Transcripts \cup {None} /\ f.pending \in Transcripts \cup {None}
      /\ f.queue \in Seq(Writes) /\ f.strays \in SUBSET (Seq(Writes) \ {<<>>})
  BY <1>2 DEF IInv, Typed, Files
<1>4. CASE /\ f.queue # <<>>
           /\ persist' = [persist EXCEPT ![k].file = Head(persist[k].queue).content,
                                         ![k].queue = Tail(@)]
  <2>1. PICK w, q : w = Head(f.queue) /\ q = Tail(f.queue)
    OBVIOUS
  <2>2. /\ w \in Writes /\ q \in Seq(Writes) /\ w = f.queue[1]
        /\ (q # <<>> => q[Len(q)] = f.queue[Len(f.queue)])
        /\ (q = <<>> => Len(f.queue) = 1)
    BY <1>3, <1>4, <2>1, Leaves
  <2>3. PICK T, g : T = w.content /\ g = EndedQueued(f, T, q)
    OBVIOUS
  <2>4. T \in Transcripts /\ T # None
    BY <2>2, <2>3 DEF Writes, TerminalAssumption, Transcripts
  <2>5. g \in Files /\ g.strays = f.strays /\ g.pending = f.pending /\ g.queue = q /\ g.file = T
    <3>1. f \in Files
      BY <1>3
    <3>2. q \in Seq(Writes)
      BY <2>2
    <3>3. T \in Transcripts /\ g = EndedQueued(f, T, q)
      BY <2>3, <2>4
    <3>4. QED BY ONLY <3>1, <3>2, <3>3, QueuedParts
  <2>6. persist' = [persist EXCEPT ![k] = g]
    BY <1>2, <1>3, <1>4, <2>1, <2>3 DEF EndedQueued
  <2>7. Coming(g) = Coming(f)
    <3>1. CASE q # <<>>
      BY <1>4, <2>2, <2>5, <3>1 DEF Coming
    <3>2. CASE q = <<>>
      BY <1>4, <2>2, <2>3, <2>4, <2>5, <3>2 DEF Coming, Stored
    <3>3. QED BY <3>1, <3>2
  <2>8. persist' \in [Terminals -> Files]
    BY <1>3, <2>5, <2>6
  <2>9. \A j \in Terminals : persist'[j].strays = persist[j].strays
                             /\ Coming(persist'[j]) = Coming(persist[j])
    BY <1>2, <1>3, <2>5, <2>6, <2>7
  <2>10. \A j \in Terminals \ harmed :
           persist'[j].strays = {} /\ Coming(persist'[j]) = Coming(persist[j])
    BY <2>9 DEF IInv, Agree
  <2>11. QED BY <1>1, <2>8, <2>10, FileStep
<1>5. ASSUME NEW s \in f.strays,
             persist' = [persist EXCEPT
               ![k].file = Head(s).content,
               ![k].strays = (@ \ {s}) \cup IF Len(s) > 1 THEN {Tail(s)} ELSE {}]
      PROVE  IInv'
  <2>1. PICK w, q : w = Head(s) /\ q = IF Len(s) > 1 THEN {Tail(s)} ELSE {}
    OBVIOUS
  <2>2. s \in Seq(Writes) /\ s # <<>>
    BY <1>3
  <2>3. w \in Writes /\ q \in SUBSET (Seq(Writes) \ {<<>>})
    BY <2>1, <2>2, WritesLeft
  <2>4. PICK T, S : T = w.content /\ S = (f.strays \ {s}) \cup q
    OBVIOUS
  <2>5. PICK g : g = EndedStray(f, T, S)
    OBVIOUS
  <2>6. T \in Transcripts /\ S \in SUBSET (Seq(Writes) \ {<<>>})
    BY <1>3, <2>3, <2>4 DEF Writes
  <2>7. g \in Files
    BY <1>3, <2>5, <2>6, StrayParts
  <2>8. persist' = [persist EXCEPT ![k] = g]
    BY <1>2, <1>3, <1>5, <2>1, <2>4, <2>5 DEF EndedStray
  <2>9. persist' \in [Terminals -> Files] /\ \A j \in Terminals : j # k => persist'[j] = persist[j]
    BY <1>3, <2>7, <2>8
  <2>10. k \in harmed
    BY <1>2, <1>5 DEF IInv, Agree
  <2>11. \A j \in Terminals \ harmed :
           persist'[j].strays = {} /\ Coming(persist'[j]) = Coming(persist[j])
    BY <2>9, <2>10 DEF IInv, Agree
  <2>12. QED BY <1>1, <2>9, <2>11, FileStep
<1>6. QED BY <1>2, <1>4, <1>5 DEF EndWrite

\* The server ends.
LEMMA CrashStep ==
  ASSUME TerminalAssumption, IInv, Crash
  PROVE  IInv'
<1>1. /\ up' = FALSE /\ object' = <<>> /\ order' = [x \in {} |-> {}] /\ killing' = {}
      /\ fresh' = {} /\ lost' = {}
      /\ call' = [c \in Calls |-> IF call[c].pc = "idle" THEN call[c] ELSE Done]
      /\ lock' = [t \in Threads |-> <<>>]
      /\ persist' = [k \in Terminals |-> [file |-> persist[k].file, pending |-> None,
                                          queue |-> <<>>, strays |-> {}]]
      /\ harmed' = harmed \cup {k \in Terminals : ~Idle(persist[k])}
      /\ UNCHANGED <<shell, tracked, last>>
  BY DEF Crash
<1>2. /\ call \in [Calls -> CallStates] /\ persist \in [Terminals -> Files]
      /\ harmed \subseteq Terminals
  BY DEF IInv, Typed
<1>3. Done \in CallStates /\ Done.pc = "done"
  BY DEF Done, NoCall, CallStates, Stages, Kinds
<1>4. /\ call' \in [Calls -> CallStates]
      /\ \A c \in Calls : call'[c] = Done \/ (call[c].pc = "idle" /\ call'[c] = call[c])
  BY <1>1, <1>2, <1>3
<1>5. \A c \in Calls : call'[c].pc \in {"idle", "done"}
  BY <1>3, <1>4
<1>6. DOMAIN order' = {} /\ DOMAIN object' = {}
  BY <1>1
<1>7. persist' \in [Terminals -> Files]
  <2>1. \A k \in Terminals : [file |-> persist[k].file, pending |-> None, queue |-> <<>>,
                              strays |-> {}] \in Files
    BY <1>2 DEF Files
  <2>2. QED BY <1>1, <2>1
<1>8. Typed'
  <2>1. Order(order, DOMAIN object)'
    BY <1>1, <1>6 DEF Order
  <2>2. object' \in Seq(Objects)
    BY <1>1
  <2>3. lock' \in [Threads -> Seq(Calls)]
    BY <1>1
  <2>4. /\ up' \in BOOLEAN /\ killing' \subseteq Shells /\ fresh' \subseteq Terminals
        /\ lost' \subseteq DOMAIN object' /\ harmed' \subseteq Terminals
    BY <1>1, <1>2
  <2>5. /\ shell' \in [Shells -> {"none", "live", "dead", "gone"}]
        /\ tracked' \subseteq Shells /\ last' \in [Terminals -> Transcripts]
    BY <1>1 DEF IInv, Typed
  <2>6. QED BY <1>4, <1>7, <2>1, <2>2, <2>3, <2>4, <2>5 DEF Typed
<1>9. Queued' /\ Exclusive'
  BY <1>1, <1>5 DEF Queued, Exclusive, AtWork
<1>10. ASSUME NEW c \in Calls
       PROVE  Serves(c)'
  <2>1. CASE call'[c] = Done
    BY <2>1, ServedDone
  <2>2. CASE call[c].pc = "idle" /\ call'[c] = call[c]
    <3>1. call'[c] = NoCall
      BY <2>2 DEF IInv, Serves
    <3>2. QED BY <3>1 DEF Serves, NoCall
  <2>3. QED BY <1>4, <2>1, <2>2
<1>11. /\ Sessions(object, order)' /\ Sorted(order)' /\ \A o \in lost' : object'[o].key \in harmed'
  BY <1>1, <1>6 DEF Sessions, Sorted
<1>12. Agree(object, order, persist, last)'
  <2>1. ASSUME NEW k \in Terminals \ harmed'
        PROVE  persist'[k].strays = {} /\ Coming(persist'[k]) = last'[k]
    <3>1. k \in Terminals \ harmed /\ Idle(persist[k])
      BY <1>1, <2>1
    <3>2. Coming(persist[k]) = last[k] /\ persist[k].pending = None /\ persist[k].queue = <<>>
      BY <3>1 DEF IInv, Agree, Idle
    <3>3. /\ persist'[k].file = persist[k].file /\ persist'[k].pending = None
          /\ persist'[k].queue = <<>> /\ persist'[k].strays = {}
      BY <1>1, <2>1
    <3>4. QED BY <1>1, <3>2, <3>3 DEF Coming, Stored
  <2>2. QED BY <1>6, <2>1 DEF Agree
<1>13. Tracked' /\ Marked' /\ NoStrayShell'
  BY <1>1 DEF IInv, Tracked, Marked, NoStrayShell
<1>14. FewRetained'
  <2>1. Inactive(object', DOMAIN order') = {}
    BY <1>6 DEF Inactive
  <2>2. Cardinality(Inactive(object', DOMAIN order')) = 0
    BY <2>1, FS_EmptySet
  <2>3. MaxRetained \in Nat
    BY DEF TerminalAssumption
  <2>4. QED BY <2>2, <2>3 DEF FewRetained
<1>15. QED BY <1>8, <1>9, <1>10, <1>11, <1>12, <1>13, <1>14 DEF IInv

\* The server starts again.
LEMMA RestartStep ==
  ASSUME TerminalAssumption, IInv, Restart
  PROVE  IInv' /\ \A p \in Shells : shell'[p] # "live"
<1>1. /\ shell' = [p \in Shells |-> IF shell[p] = "dead" \/ (shell[p] = "live" /\ p \in tracked)
                                    THEN "gone" ELSE shell[p]]
      /\ tracked' = {} /\ up' = TRUE
      /\ UNCHANGED <<object, order, call, lock, killing, persist, fresh, last, lost, harmed>>
  BY DEF Restart, history
<1>2. \A p \in Shells : shell'[p] # "live"
  BY <1>1 DEF IInv, Tracked
<1>3. shell' \in [Shells -> {"none", "live", "dead", "gone"}]
  BY <1>1 DEF IInv, Typed
<1>4. /\ call' \in [Calls -> CallStates] /\ lock' \in [Threads -> Seq(Calls)]
      /\ Queued' /\ Exclusive' /\ Marked' /\ fresh' \subseteq Terminals
  BY <1>1, CallsAside
<1>5. /\ last' \in [Terminals -> Transcripts] /\ killing' \subseteq Shells /\ FewRetained'
      /\ up' \in BOOLEAN /\ tracked' \subseteq Shells
  BY <1>1 DEF IInv, Typed, FewRetained
<1>6. InOrder
  BY <1>2, <1>3, <1>4, <1>5 DEF InOrder, Tracked
<1>7. \A c \in Calls : Serves(c)'
  BY <1>1, ServedSame DEF IInv
<1>8. Attended(object, order)
  BY <1>2 DEF Attended
<1>9. persist' \in [Terminals -> Files] /\ Agree(object, order, persist', last')
  BY <1>1 DEF IInv, Typed
<1>10. IInv'
  BY <1>1, <1>6, <1>7, <1>8, <1>9, Unmoved
<1>11. QED BY <1>2, <1>10

-----------------------------------------------------------------------------
(* The theorems                                                            *)

\* The invariant holds at first.
LEMMA InitIInv ==
  ASSUME TerminalAssumption, Init
  PROVE  IInv
<1>1. DOMAIN order = {} /\ DOMAIN object = {}
  BY DEF Init
<1>2. NoCall \in CallStates /\ NoCall.pc = "idle" /\ NoCall.obj = None /\ NoCall.kind = "open"
  BY DEF NoCall, CallStates, Stages, Kinds
<1>3. /\ call \in [Calls -> CallStates] /\ \A c \in Calls : call[c] = NoCall
  BY <1>2 DEF Init
<1>4. Typed
  <2>1. Order(order, DOMAIN object)
    BY <1>1 DEF Init, Order
  <2>2. object \in Seq(Objects) /\ lock \in [Threads -> Seq(Calls)]
    BY DEF Init
  <2>3. persist \in [Terminals -> Files]
    <3>1. [file |-> None, pending |-> None, queue |-> <<>>, strays |-> {}] \in Files
      BY DEF Files
    <3>2. QED BY <3>1 DEF Init
  <2>4. last \in [Terminals -> Transcripts]
    <3>1. <<>> \in Transcripts
      BY DEF Transcripts
    <3>2. QED BY <3>1 DEF Init
  <2>5. /\ up \in BOOLEAN /\ killing \subseteq Shells /\ fresh \subseteq Terminals
        /\ lost \subseteq DOMAIN object /\ harmed \subseteq Terminals
        /\ shell \in [Shells -> {"none", "live", "dead", "gone"}] /\ tracked \subseteq Shells
    BY DEF Init
  <2>6. QED BY <1>3, <2>1, <2>2, <2>3, <2>4, <2>5 DEF Typed
<1>5. Queued /\ Exclusive
  BY <1>2, <1>3 DEF Init, Queued, Exclusive, AtWork
<1>6. \A c \in Calls : Serves(c)
  BY <1>2, <1>3 DEF Serves
<1>7. /\ Sessions(object, order) /\ Sorted(order) /\ \A o \in lost : object[o].key \in harmed
  BY <1>1 DEF Init, Sessions, Sorted
<1>8. Agree(object, order, persist, last)
  BY <1>1 DEF Init, Agree, Coming, Stored
<1>9. Tracked /\ Marked /\ NoStrayShell
  BY DEF Init, Tracked, Marked, NoStrayShell
<1>10. FewRetained
  <2>1. Inactive(object, DOMAIN order) = {}
    BY <1>1 DEF Inactive
  <2>2. Cardinality(Inactive(object, DOMAIN order)) = 0
    BY <2>1, FS_EmptySet
  <2>3. MaxRetained \in Nat
    BY DEF TerminalAssumption
  <2>4. QED BY <2>2, <2>3 DEF FewRetained
<1>11. QED BY <1>4, <1>5, <1>6, <1>7, <1>8, <1>9, <1>10 DEF IInv

\* Every step of a call keeps it.
LEMMA CallStepIInv ==
  ASSUME TerminalAssumption, IInv, NEW c \in Calls, CallStep(c)
  PROVE  IInv'
<1>1. CASE BeginOpen(c)     BY <1>1, BeginOpenStep
<1>2. CASE Create(c)        BY <1>2, CreateStep
<1>3. CASE Attach(c)        BY <1>3, AttachStep
<1>4. CASE Wake(c)          BY <1>4, WakeStep
<1>5. CASE Renew(c)         BY <1>5, RenewStep
<1>6. CASE BeginRestart(c)  BY <1>6, BeginRestartStep
<1>7. CASE Clear(c)         BY <1>7, ClearStep
<1>8. CASE Sleep(c)         BY <1>8, SleepStep
<1>9. CASE Persisted(c)     BY <1>9, PersistedStep
<1>10. CASE Spawn(c)        BY <1>10, SpawnStep
<1>11. CASE SpawnFails(c)   BY <1>11, SpawnFailsStep
<1>12. CASE BeginClose(c)   BY <1>12, BeginCloseStep
<1>13. CASE EndClose(c)     BY <1>13, EndCloseStep
<1>14. QED BY <1>1, <1>2, <1>3, <1>4, <1>5, <1>6, <1>7, <1>8, <1>9, <1>10, <1>11, <1>12, <1>13
           DEF CallStep

\* Nothing but time passes.
LEMMA StutterStep ==
  ASSUME TerminalAssumption, IInv, UNCHANGED vars
  PROVE  IInv'
<1>1. /\ UNCHANGED <<up, object, order, call, lock, persist, fresh, last, lost, harmed>>
      /\ shell' = shell /\ killing' = killing /\ tracked' = tracked
  BY DEF vars, history
<1>2. shell \in [Shells -> {"none", "live", "dead", "gone"}]
  BY DEF IInv, Typed
<1>3. QED BY <1>1, <1>2, ShellStep

\* Every step keeps it.
LEMMA NextIInv ==
  ASSUME TerminalAssumption, IInv, [Next]_vars
  PROVE  IInv'
<1>1. ASSUME NEW c \in Calls, NEW kind \in Kinds, NEW k \in Terminals, Submit(c, kind, k)
      PROVE  IInv'
  BY <1>1, SubmitStep
<1>2. CASE EventLoop
  <2>1. ASSUME NEW c \in Calls, CallStep(c)
        PROVE  IInv'
    BY <2>1, CallStepIInv
  <2>2. ASSUME NEW p \in Shells, HearExit(p) \/ Escalate(p)
        PROVE  IInv'
    BY <2>2, HearExitStep, EscalateStep
  <2>3. ASSUME NEW k \in Terminals, QueueWrite(k) \/ EndWrite(k)
        PROVE  IInv'
    BY <2>3, QueueWriteStep, EndWriteStep
  <2>4. QED BY <1>2, <2>1, <2>2, <2>3 DEF EventLoop
<1>3. ASSUME NEW p \in Shells, Output(p) \/ Die(p)
      PROVE  IInv'
  BY <1>3, OutputStep, DieStep
<1>4. CASE Crash
  BY <1>4, CrashStep
<1>5. CASE Restart
  BY <1>5, RestartStep
<1>6. CASE UNCHANGED vars
  BY <1>6, StutterStep
<1>7. QED BY <1>1, <1>2, <1>3, <1>4, <1>5, <1>6 DEF Next

\* The invariant always holds.
LEMMA Always == Spec => []IInv
<1>1. Init => IInv
  BY TerminalAssumption, InitIInv
<1>2. IInv /\ [Next]_vars => IInv'
  BY TerminalAssumption, NextIInv
<1>3. QED BY <1>1, <1>2, PTL DEF Spec

\* A live shell is always in the hands of somebody who will end it, whatever
\* is called, evicted, killed or lost in between (stopProcess, stopTrackedSession).
THEOREM NoShellLeftAlone == Spec => []NoStrayShell
<1>1. IInv => NoStrayShell
  BY DEF IInv
<1>2. QED BY <1>1, Always, PTL

\* No more sessions than the limit that do not run stay in memory
\* (evictInactiveSessionsIfNeeded).
THEOREM FewStay == Spec => []FewRetained
<1>1. IInv => FewRetained
  BY DEF IInv
<1>2. QED BY <1>1, Always, PTL

\* A transcript seen is the transcript kept, in the session and, the writes
\* done, in the file (persistHistory, readHistory).
THEOREM TranscriptsStay == Spec => []TranscriptKept
<1>1. IInv => TranscriptKept
  <2>1. SUFFICES ASSUME IInv, NEW k \in Terminals \ harmed
                 PROVE  /\ \A o \in InMap(k) : object[o].transcript = last[k]
                        /\ Idle(persist[k]) =>
                             last[k] = IF persist[k].file = None THEN <<>> ELSE persist[k].file
    BY DEF TranscriptKept
  <2>2. \A o \in InMap(k) : object[o].transcript = last[k]
    BY <2>1 DEF IInv, Agree, InMap
  <2>3. ASSUME Idle(persist[k])
        PROVE  last[k] = IF persist[k].file = None THEN <<>> ELSE persist[k].file
    <3>1. Coming(persist[k]) = last[k]
      BY <2>1 DEF IInv, Agree
    <3>2. QED BY <2>3, <3>1 DEF Idle, Coming, Stored
  <2>4. QED BY <2>2, <2>3
<1>2. QED BY <1>1, Always, PTL

\* When the server has started again, no shell of its former life is left
\* (cleanupOrphanPtyPids).
THEOREM NoneSurvives == Spec => NoOrphanAfterRestart
<1>1. ASSUME IInv, [Next]_vars, ~up, up'
      PROVE  \A p \in Shells : shell'[p] # "live"
  <2>1. Restart
    <3>1. ~ UNCHANGED vars
      BY <1>1 DEF vars
    <3>2. /\ ~ \E c \in Calls, kind \in Kinds, k \in Terminals : Submit(c, kind, k)
          /\ ~ \E p \in Shells : Output(p)
          /\ ~ Crash
      BY <1>1 DEF Submit, Output, Crash
    <3>3. ~ \E p \in Shells : Die(p)
      BY <1>1 DEF Die
    <3>4. ASSUME NEW c \in Calls
          PROVE  ~ CallStep(c)
      <4>1. ~ BeginOpen(c) /\ ~ Create(c) /\ ~ Attach(c) /\ ~ Wake(c)
        BY <1>1 DEF BeginOpen, Create, Attach, Wake, At
      <4>2. ~ Renew(c) /\ ~ BeginRestart(c) /\ ~ Clear(c) /\ ~ Sleep(c)
        BY <1>1 DEF Renew, BeginRestart, Clear, Sleep, At
      <4>3. ~ Persisted(c) /\ ~ Spawn(c) /\ ~ SpawnFails(c)
        BY <1>1 DEF Persisted, Spawn, SpawnFails, At
      <4>4. ~ BeginClose(c) /\ ~ EndClose(c)
        BY <1>1 DEF BeginClose, EndClose, At
      <4>5. QED BY <4>1, <4>2, <4>3, <4>4 DEF CallStep
    <3>5. /\ ~ \E p \in Shells : HearExit(p) \/ Escalate(p)
          /\ ~ \E k \in Terminals : QueueWrite(k) \/ EndWrite(k)
      BY <1>1 DEF HearExit, Escalate, QueueWrite, EndWrite
    <3>6. QED BY <1>1, <3>1, <3>2, <3>3, <3>4, <3>5 DEF Next, EventLoop
  <2>2. QED BY <1>1, <2>1, TerminalAssumption, RestartStep
<1>2. IInv /\ [Next]_vars =>
        [~up /\ up' => \A p \in Shells : shell'[p] # "live"]_vars
  BY <1>1
<1>3. QED BY <1>2, Always, PTL DEF Spec, NoOrphanAfterRestart

\* Attaching to a session in use never finds the mark of a start, so that the
\* server types nothing into it (consumeWasNewlySpawned, wsServer.ts).
THEOREM NoMarkFound == Spec => AttachTypesNothing
<1>1. ASSUME IInv, NEW c \in Calls, Attach(c), call[c].key \in fresh
      PROVE  FALSE
  <2>1. PICK d \in Calls : /\ call[d].key = call[c].key
                           /\ call[d].pc \in {"persist", "spawn"}
    BY <1>1 DEF IInv, Marked
  <2>2. Holds(c) /\ call[c].pc = "waiting"
    BY <1>1 DEF Attach, At
  <2>3. AtWork(d) /\ Exclusive
    BY <1>1, <2>1 DEF AtWork, IInv
  <2>4. c = d
    BY <2>1, <2>2, <2>3, Alone
  <2>5. QED BY <2>1, <2>2, <2>4
<1>2. IInv =>
        [\A c \in Calls : Attach(c) => call[c].key \notin fresh]_vars
  BY <1>1
<1>3. QED BY <1>2, Always, PTL DEF AttachTypesNothing

=============================================================================
