-------------------------- MODULE TerminalSessions --------------------------
(***************************************************************************)
(* TerminalManagerRuntime: the shells behind the terminals of the threads. *)
(*   - open, restart, clear, close and the idle sweep run one at a time    *)
(*     per thread, and give way at every await;                            *)
(*   - a stopped shell gets SIGTERM, and SIGKILL after a grace period;     *)
(*   - inactive sessions are evicted beyond a limit;                       *)
(*   - the transcript is written to a file, debounced, one write after     *)
(*     another;                                                            *)
(*   - the pids of shells are kept in a file, and what is left of them is  *)
(*     killed when the server starts again.                                *)
(* Left out: the caps on the transcript, the batching of output, the cwd   *)
(* sidecar, and the hooks and polls that tell whether an agent is busy:    *)
(* any running session may be found idle.  Sessions are ordered by         *)
(* updatedAt as if no two were updated in the same millisecond.            *)
(***************************************************************************)
EXTENDS Naturals, SequencesExt, FiniteSetsExt

CONSTANTS
  Terminals,
  ThreadOf,     \* the thread of a terminal
  MaxCalls,     \* calls of clients and sweeps of the idle timer (bound)
  Requests,     \* what they may ask for, of which terminal (bound)
  None,
  MaxRetained,  \* maxRetainedInactiveSessions
  MaxSpawns,    \* shells (bound)
  MaxCrashes    \* times the server ends (bound)

Kinds == {"open", "reopen", "restart", "clear", "close", "delete", "closeThread", "sleep"}

ASSUME TerminalAssumption ==
  /\ None \notin Terminals \cup Nat \cup Seq(1..MaxSpawns) /\ MaxCalls \in Nat
  /\ Requests \subseteq Kinds \X Terminals
  /\ MaxRetained \in Nat \ {0} /\ MaxSpawns \in Nat /\ MaxCrashes \in Nat
  /\ DOMAIN ThreadOf = Terminals

Threads == {ThreadOf[k] : k \in Terminals}
Calls == 1..MaxCalls
Shells == 1..MaxSpawns

VARIABLES
  up,        \* the server runs
  object,    \* the session objects made, each with its terminal
  order,     \* for each of those in the map, the ones updated after it
  call,      \* where each call is
  lock,      \* threadLocks: holder and waiters
  shell,     \* what became of each shell
  killing,   \* killEscalationTimers
  tracked,   \* the file of pids
  persist,   \* the transcript file of a terminal and the writes to it
  fresh,     \* newlySpawnedFlags
  last,      \* the transcript a user of the terminal has seen (history)
  lost,      \* sessions evicted while a call was working on them (history)
  harmed,    \* terminals whose transcript may be damaged (history)
  crashes

history == <<last, lost, harmed, crashes>>
vars == <<up, object, order, call, lock, shell, killing, tracked, persist, fresh, history>>

-----------------------------------------------------------------------------
(* Sessions                                                                *)

\* The session of a terminal in the map.
InMap(k) == {o \in DOMAIN order : object[o].key = k}

Without(ord, S) == [x \in DOMAIN ord \ S |-> ord[x] \ S]

\* o is, or becomes, the one updated last.
Latest(ord, o) == [x \in DOMAIN ord \cup {o} |-> IF x = o THEN {} ELSE ord[x] \cup {o}]

\* updatedAt is set to now.
Touch(ord, o) == IF o \in DOMAIN ord THEN Latest(ord, o) ELSE ord

Working(o) == \E c \in Calls : call[c].obj = o /\ call[c].pc \in {"persist", "spawn"}

Inactive(objects, S) == {o \in S : objects[o].status # "running"}

\* Mutant: one too many is kept.
EvictedLate(objects, ord) ==
  {o \in Inactive(objects, DOMAIN ord) : Cardinality(Inactive(objects, ord[o])) > MaxRetained}

\* Those that are not running and have the limit of newer ones like them.
Evicted(objects, ord) ==
  {o \in Inactive(objects, DOMAIN ord) : Cardinality(Inactive(objects, ord[o])) >= MaxRetained}

Idle(file) == file.pending = None /\ file.queue = <<>> /\ file.strays = {}

\* What an eviction leaves of a terminal's writes: the one that waits is
\* dropped, those under way are no longer known.
Forgotten(file) ==
  [file EXCEPT !.pending = None, !.queue = <<>>,
               !.strays = IF file.queue = <<>> THEN @ ELSE @ \cup {file.queue}]

\* Sessions leave the map by eviction: what waits to be written for their
\* terminals is dropped.
Forgets(gone, objects, files) ==
  LET keys == {objects[o].key : o \in gone}
  IN  /\ persist' = [k \in Terminals |-> IF k \in keys THEN Forgotten(files[k]) ELSE files[k]]
      /\ lost' = lost \cup {o \in gone : Working(o)}
      /\ harmed' = harmed \cup {objects[o].key : o \in {x \in gone :
                                   Working(x) \/ ~Idle(files[objects[x].key])}}

\* evictInactiveSessionsIfNeeded, with the new sessions, order and files.
Retain(objects, ord, files) ==
  /\ object' = objects
  /\ order' = Without(ord, Evicted(objects, ord))
  /\ Forgets(Evicted(objects, ord), objects, files)

\* stopProcess and cleanupProcessHandles: the session lets go of its shell.
Stopped(o) == [object[o] EXCEPT !.status = IF @ = "running" THEN "exited" ELSE @,
                                !.shell = None]

ShellsOf(S) == {object[o].shell : o \in S} \ {None}

\* persistHistory: the write replaces one that waits and follows those queued.
Written(file, content, by) ==
  [file EXCEPT !.pending = None, !.queue = Append(@, [content |-> content, by |-> by])]

-----------------------------------------------------------------------------
(* Calls                                                                   *)

NoCall == [pc |-> "idle", kind |-> "open", key |-> None, obj |-> None]

Done == [NoCall EXCEPT !.pc = "done"]

Thread(c) == ThreadOf[call[c].key]

Holds(c) == call[c].key # None /\ lock[Thread(c)] # <<>> /\ Head(lock[Thread(c)]) = c

At(c, pc, kinds) == up /\ Holds(c) /\ call[c].pc = pc /\ call[c].kind \in kinds

Advance(c, pc, o) == call' = [call EXCEPT ![c].pc = pc, ![c].obj = o]

\* Mutant: the thread stays locked.
ReturnHolding(c) ==
  /\ call' = [call EXCEPT ![c] = Done]
  /\ UNCHANGED lock

\* The call is answered and the thread's next call may begin.
Return(c) ==
  /\ call' = [call EXCEPT ![c] = Done]
  /\ lock' = [lock EXCEPT ![Thread(c)] = Tail(@)]

Opens == {"open", "reopen"}

\* Mutant: the mark is read and left.
ConsumeNot(c) == fresh' = fresh

\* consumeWasNewlySpawned, by the handler of terminalOpen as soon as open
\* has returned.
Consume(c) == fresh' = IF call[c].kind \in Opens THEN fresh \ {call[c].key} ELSE fresh

\* runWithThreadLock, for a client, or for a session the sweep found idle.
Submit(c, kind, k) ==
  /\ up /\ call[c].pc = "idle" /\ \A d \in 1..(c - 1) : call[d].pc # "idle"
  /\ <<kind, k>> \in Requests
  /\ \E o \in IF kind = "sleep" THEN {x \in InMap(k) : object[x].status = "running"} ELSE {None} :
       call' = [call EXCEPT ![c] = [pc |-> "waiting", kind |-> kind, key |-> k,
                                    obj |-> o]]
  /\ lock' = [lock EXCEPT ![ThreadOf[k]] = Append(@, c)]
  /\ UNCHANGED <<up, object, order, shell, killing, tracked, persist, fresh, history>>

\* open of a terminal without a session: flushPersistQueue comes first.
BeginOpen(c) ==
  /\ At(c, "waiting", Opens) /\ InMap(call[c].key) = {}
  /\ Advance(c, "flush", None)
  /\ UNCHANGED <<up, object, order, lock, shell, killing, tracked, persist, fresh, history>>

NewObject(k, transcript) ==
  [key |-> k, status |-> "starting", shell |-> None, transcript |-> transcript]

\* The writes are done: the session is made from the file.
Create(c) ==
  LET k == call[c].key
      o == Len(object) + 1
      stored == IF persist[k].file = None THEN <<>> ELSE persist[k].file
  IN  /\ At(c, "flush", Opens)
      /\ persist[k].pending = None /\ persist[k].queue = <<>>
      /\ Advance(c, "spawn", o)
      /\ fresh' = fresh \cup {k}
      /\ Retain(Append(object, NewObject(k, stored)), Latest(order, o), persist)
      /\ UNCHANGED <<up, lock, shell, killing, tracked, last, crashes>>

\* open of a running session attaches to it.
Attach(c) ==
  /\ At(c, "waiting", {"open"})
  /\ \E o \in InMap(call[c].key) : object[o].status = "running"
  /\ Return(c)
  /\ Consume(c)
  /\ UNCHANGED <<up, object, order, shell, killing, tracked, persist, history>>

\* open of a session the sweep has put to sleep.
Wake(c) ==
  /\ At(c, "waiting", {"open"})
  /\ \E o \in InMap(call[c].key) :
       /\ object[o].status = "slept"
       /\ Advance(c, "spawn", o)
       /\ object' = [object EXCEPT ![o].status = "starting"]
       /\ order' = Touch(order, o)
  /\ fresh' = fresh \cup {call[c].key}
  /\ UNCHANGED <<up, lock, shell, killing, tracked, persist, history>>

\* open of a session that has exited or failed, or with another cwd or
\* environment: the shell is stopped, the transcript begins anew.
Renew(c) ==
  LET k == call[c].key
  IN  /\ \/ At(c, "waiting", {"reopen"})
         \/ /\ At(c, "waiting", {"open"})
            /\ \E o \in InMap(k) : object[o].status \in {"exited", "error"}
      /\ \E o \in InMap(k) :
           /\ Advance(c, "persist", o)
           /\ fresh' = fresh \cup IF object[o].status = "slept" THEN {k} ELSE {}
           /\ killing' = killing \cup ShellsOf({o})
           /\ Retain([object EXCEPT ![o] = [Stopped(o) EXCEPT !.transcript = <<>>]],
                     Touch(order, o), [persist EXCEPT ![k] = Written(@, <<>>, c)])
      /\ last' = [last EXCEPT ![k] = <<>>]
      /\ UNCHANGED <<up, lock, shell, tracked, crashes>>

\* restart, of a session or of none.
BeginRestart(c) ==
  LET k == call[c].key
      exists == InMap(k) # {}
      o == IF exists THEN CHOOSE x \in InMap(k) : TRUE ELSE Len(object) + 1
      objects == IF exists THEN [object EXCEPT ![o] = [Stopped(o) EXCEPT !.transcript = <<>>]]
                 ELSE Append(object, NewObject(k, <<>>))
  IN  /\ At(c, "waiting", {"restart"})
      /\ Advance(c, "persist", o)
      /\ killing' = killing \cup IF exists THEN ShellsOf({o}) ELSE {}
      /\ Retain(objects, Latest(order, o),
                [persist EXCEPT ![k] = Written(@, <<>>, c)])
      /\ last' = [last EXCEPT ![k] = <<>>]
      /\ UNCHANGED <<up, lock, shell, tracked, fresh, crashes>>

\* clear, which an unknown session refuses.
Clear(c) ==
  LET k == call[c].key
  IN  /\ At(c, "waiting", {"clear"})
      /\ IF InMap(k) = {}
         THEN Return(c) /\ UNCHANGED <<object, order, persist, last>>
         ELSE \E o \in InMap(k) :
                /\ Advance(c, "persist", o)
                /\ object' = [object EXCEPT ![o].transcript = <<>>]
                /\ order' = Touch(order, o)
                /\ persist' = [persist EXCEPT ![k] = Written(@, <<>>, c)]
                /\ last' = [last EXCEPT ![k] = <<>>]
                /\ UNCHANGED lock
      /\ UNCHANGED <<up, shell, killing, tracked, fresh, lost, harmed, crashes>>

\* The sweep looks again under the lock, and puts the session to sleep.
Sleep(c) ==
  LET k == call[c].key
      o == call[c].obj
  IN  /\ At(c, "waiting", {"sleep"})
      /\ \/ /\ o \in DOMAIN order /\ object[o].status = "running"
            /\ Advance(c, "persist", o)
            /\ killing' = killing \cup ShellsOf({o})
            /\ Retain([object EXCEPT ![o] = [Stopped(o) EXCEPT !.status = "slept"]],
                      Touch(order, o),
                      [persist EXCEPT ![k] = Written(@, object[o].transcript, c)])
            /\ UNCHANGED lock
         \/ Return(c) /\ UNCHANGED <<object, order, killing, persist, lost, harmed>>
      /\ UNCHANGED <<up, shell, tracked, fresh, last, crashes>>

\* The write a call waits for is done: a shell is started, or all is done.
Persisted(c) ==
  /\ At(c, "persist", Kinds)
  /\ \A i \in DOMAIN persist[call[c].key].queue : persist[call[c].key].queue[i].by # c
  /\ \A q \in persist[call[c].key].strays : \A i \in DOMAIN q : q[i].by # c
  /\ IF call[c].kind \in {"clear", "sleep"}
     THEN Return(c) /\ UNCHANGED <<object, order>>
     ELSE /\ Advance(c, "spawn", call[c].obj)
          /\ object' = [object EXCEPT ![call[c].obj].status = "starting"]
          /\ order' = Touch(order, call[c].obj)
          /\ UNCHANGED lock
  /\ UNCHANGED <<up, shell, killing, tracked, persist, fresh, history>>

\* Mutant: the pid is not written down.
SpawnUntracked(c) ==
  LET o == call[c].obj
      p == CHOOSE q \in Shells : shell[q] = "none" /\ \A r \in 1..(q - 1) : shell[r] # "none"
  IN  /\ At(c, "spawn", Kinds) /\ \E q \in Shells : shell[q] = "none"
      /\ shell' = [shell EXCEPT ![p] = "live"]
      /\ object' = [object EXCEPT ![o].status = "running", ![o].shell = p]
      /\ order' = Touch(order, o)
      /\ Consume(c)
      /\ Return(c)
      /\ UNCHANGED <<up, killing, tracked, persist, history>>

\* startSession: the shell runs, its pid is written down.
Spawn(c) ==
  LET o == call[c].obj
      p == CHOOSE q \in Shells : shell[q] = "none" /\ \A r \in 1..(q - 1) : shell[r] # "none"
  IN  /\ At(c, "spawn", Kinds) /\ \E q \in Shells : shell[q] = "none"
      /\ shell' = [shell EXCEPT ![p] = "live"]
      /\ object' = [object EXCEPT ![o].status = "running", ![o].shell = p]
      /\ order' = Touch(order, o)
      /\ tracked' = tracked \cup {p}
      /\ Consume(c)
      /\ Return(c)
      /\ UNCHANGED <<up, killing, persist, history>>

\* No shell can be started.
SpawnFails(c) ==
  LET o == call[c].obj
  IN  /\ At(c, "spawn", Kinds)
      /\ Consume(c)
      /\ Retain([object EXCEPT ![o].status = "error"], Touch(order, o), persist)
      /\ Return(c)
      /\ UNCHANGED <<up, shell, killing, tracked, last, crashes>>

\* What a close is about: one terminal, or all the thread has.
Closing(c) ==
  IF call[c].kind = "closeThread"
  THEN {k \in Terminals : ThreadOf[k] = Thread(c)}
  ELSE {call[c].key}

Closes == {"close", "delete", "closeThread"}

\* stopProcess evicts while the session it stops is still in the map.  A close
\* takes the sessions S one after another as they were made, and each out of
\* the map before the next: the first that has a shell may push others out;
\* when it is gone itself there is room for the rest.
PushedOut(S) ==
  LET first == Min({o \in S : object[o].shell # None})
  IN  IF ShellsOf(S) = {} THEN {}
      ELSE Evicted([object EXCEPT ![first] = Stopped(first)],
                   Latest(Without(order, {o \in S : o < first}), first))

\* close: shells are stopped and sessions leave the map.
BeginClose(c) ==
  LET S == UNION {InMap(k) : k \in Closing(c)}
  IN  /\ At(c, "waiting", Closes)
      /\ Advance(c, "flush", None)
      /\ killing' = killing \cup ShellsOf(S)
      /\ object' = [o \in DOMAIN object |-> IF o \in S THEN Stopped(o) ELSE object[o]]
      /\ order' = Without(order, S \cup PushedOut(S))
      /\ Forgets(PushedOut(S), object, persist)
      /\ UNCHANGED <<up, lock, shell, tracked, fresh, last, crashes>>

\* Mutant: the files go while writes to them are still to come.
EndCloseEarly(c) ==
  /\ At(c, "flush", Closes)
  /\ IF call[c].kind = "close" THEN UNCHANGED <<persist, last>>
     ELSE /\ persist' = [k \in Terminals |->
                           [persist[k] EXCEPT !.file = IF k \in Closing(c) THEN None ELSE @]]
          /\ last' = [k \in Terminals |-> IF k \in Closing(c) THEN <<>> ELSE last[k]]
  /\ Return(c)
  /\ UNCHANGED <<up, object, order, shell, killing, tracked, fresh, lost, harmed, crashes>>

\* The writes are done, and the files go when the client asked for it.
EndClose(c) ==
  /\ At(c, "flush", Closes)
  /\ \A k \in Closing(c) : persist[k].pending = None /\ persist[k].queue = <<>>
  /\ IF call[c].kind = "close" THEN UNCHANGED <<persist, last>>
     ELSE /\ persist' = [k \in Terminals |->
                           [persist[k] EXCEPT !.file = IF k \in Closing(c) THEN None ELSE @]]
          /\ last' = [k \in Terminals |-> IF k \in Closing(c) THEN <<>> ELSE last[k]]
  /\ Return(c)
  /\ UNCHANGED <<up, object, order, shell, killing, tracked, fresh, lost, harmed, crashes>>

-----------------------------------------------------------------------------
(* Shells and files                                                        *)

Attached(p) == {o \in DOMAIN object : object[o].shell = p}

\* onProcessData: the transcript grows, a write is scheduled.
Output(p) ==
  /\ up /\ shell[p] = "live"
  /\ \E o \in Attached(p) :
       LET k == object[o].key
           grown == Append(object[o].transcript, p)
       IN  /\ p \notin ToSet(object[o].transcript)
           /\ object' = [object EXCEPT ![o].transcript = grown]
           /\ order' = Touch(order, o)
           /\ persist' = [persist EXCEPT ![k].pending = grown]
           /\ last' = [last EXCEPT ![k] = IF o \in lost THEN @ ELSE grown]
  /\ UNCHANGED <<up, call, lock, shell, killing, tracked, fresh, lost, harmed, crashes>>

\* A shell ends by itself, or of SIGTERM; it may also not heed that.
Die(p) ==
  /\ shell[p] = "live"
  /\ shell' = [shell EXCEPT ![p] = "dead"]
  /\ UNCHANGED <<up, object, order, call, lock, killing, tracked, persist, fresh, history>>

\* The server hears of it: onProcessExit of the session that has the shell,
\* the end of the escalation for one that was stopped.
HearExit(p) ==
  LET S == Attached(p)
  IN  /\ up /\ shell[p] = "dead"
      /\ shell' = [shell EXCEPT ![p] = "gone"]
      /\ killing' = killing \ {p}
      /\ tracked' = IF S = {} THEN tracked ELSE tracked \ {p}
      /\ IF S = {} THEN UNCHANGED <<object, order, persist, lost, harmed>>
         ELSE \E o \in S : Retain([object EXCEPT ![o] = Stopped(o)], Touch(order, o), persist)
      /\ UNCHANGED <<up, call, lock, fresh, last, crashes>>

\* Mutant: SIGTERM again.
EscalateGently(p) ==
  /\ up /\ p \in killing
  /\ killing' = killing \ {p}
  /\ UNCHANGED <<up, object, order, call, lock, shell, tracked, persist, fresh, history>>

\* The grace period is over: SIGKILL.
Escalate(p) ==
  /\ up /\ p \in killing
  /\ killing' = killing \ {p}
  /\ shell' = [shell EXCEPT ![p] = IF @ = "live" THEN "dead" ELSE @]
  /\ UNCHANGED <<up, object, order, call, lock, tracked, persist, fresh, history>>

\* The debounce timer, or a flush: what waits is queued.
QueueWrite(k) ==
  /\ up /\ persist[k].pending # None
  /\ persist' = [persist EXCEPT ![k] = Written(@, @.pending, None)]
  /\ UNCHANGED <<up, object, order, call, lock, shell, killing, tracked, fresh, history>>

\* A write ends: the first of those queued, or one that was forgotten.
EndWrite(k) ==
  /\ up
  /\ \/ /\ persist[k].queue # <<>>
        /\ persist' = [persist EXCEPT ![k].file = Head(persist[k].queue).content,
                                      ![k].queue = Tail(@)]
     \/ \E q \in persist[k].strays :
          persist' = [persist EXCEPT
            ![k].file = Head(q).content,
            ![k].strays = (@ \ {q}) \cup IF Len(q) > 1 THEN {Tail(q)} ELSE {}]
  /\ UNCHANGED <<up, object, order, call, lock, shell, killing, tracked, fresh, history>>

\* The server ends, whether it could dispose of its sessions or not: what it
\* has in memory is gone, escalations included; shells may live on.
Crash ==
  /\ up /\ crashes < MaxCrashes
  /\ up' = FALSE /\ crashes' = crashes + 1
  /\ object' = <<>> /\ order' = [x \in {} |-> {}] /\ killing' = {} /\ fresh' = {}
  /\ call' = [c \in Calls |-> IF call[c].pc = "idle" THEN call[c] ELSE Done]
  /\ lock' = [t \in Threads |-> <<>>]
  /\ persist' = [k \in Terminals |-> [file |-> persist[k].file, pending |-> None,
                                      queue |-> <<>>, strays |-> {}]]
  /\ harmed' = harmed \cup {k \in Terminals : ~Idle(persist[k])}
  /\ lost' = {}
  /\ UNCHANGED <<shell, tracked, last>>

\* cleanupOrphanPtyPids: shells whose pids were written down are killed.
Restart ==
  /\ ~up /\ up' = TRUE
  /\ shell' = [p \in Shells |-> IF shell[p] = "dead" \/ (shell[p] = "live" /\ p \in tracked)
                                THEN "gone" ELSE shell[p]]
  /\ tracked' = {}
  /\ UNCHANGED <<object, order, call, lock, killing, persist, fresh, history>>

-----------------------------------------------------------------------------
Init ==
  /\ up = TRUE /\ object = <<>> /\ order = [x \in {} |-> {}]
  /\ call = [c \in Calls |-> NoCall] /\ lock = [t \in Threads |-> <<>>]
  /\ shell = [p \in Shells |-> "none"] /\ killing = {} /\ tracked = {}
  /\ persist = [k \in Terminals |-> [file |-> None, pending |-> None, queue |-> <<>>,
                                     strays |-> {}]]
  /\ fresh = {}
  /\ last = [k \in Terminals |-> <<>>] /\ lost = {} /\ harmed = {} /\ crashes = 0

CallStep(c) ==
  \/ BeginOpen(c) \/ Create(c) \/ Attach(c) \/ Wake(c) \/ Renew(c) \/ BeginRestart(c)
  \/ Clear(c) \/ Sleep(c) \/ Persisted(c) \/ Spawn(c) \/ SpawnFails(c)
  \/ BeginClose(c) \/ EndClose(c)

\* What the event loop has to run: awaited calls of the operating system end,
\* promises settle, timers fire, exits are announced.
EventLoop ==
  \/ \E c \in Calls : CallStep(c)
  \/ \E p \in Shells : HearExit(p) \/ Escalate(p)
  \/ \E k \in Terminals : QueueWrite(k) \/ EndWrite(k)

Next ==
  \/ \E c \in Calls, kind \in Kinds, k \in Terminals : Submit(c, kind, k)
  \/ EventLoop
  \/ \E p \in Shells : Output(p) \/ Die(p)
  \/ Crash \/ Restart

Spec == Init /\ [][Next]_vars

FairSpec == Spec /\ WF_vars(EventLoop)

-----------------------------------------------------------------------------
(* Properties                                                              *)

\* However sessions stop - by a call, by themselves, for want of a shell - no
\* more than MaxRetained that do not run are kept in memory.
FewRetained ==
  Cardinality(Inactive(object, DOMAIN order)) <= MaxRetained

\* A live shell is in the hands of somebody who will end it: its session in
\* the map, or the escalation after a stop.  Only a session that was evicted
\* while its shell was being started keeps one that nobody can reach.
NoStrayShell ==
  up => \A p \in Shells : shell[p] = "live" =>
          p \in killing \/ \E o \in DOMAIN order \cup lost : object[o].shell = p

\* What a user has seen of a terminal is what its session holds, and, once
\* the writes are done, what its file holds for the next session: also after
\* restarts, clears, sleeps, and evictions with nothing left to write.
TranscriptKept ==
  \A k \in Terminals \ harmed :
    /\ \A o \in InMap(k) : object[o].transcript = last[k]
    /\ Idle(persist[k]) => last[k] = IF persist[k].file = None THEN <<>> ELSE persist[k].file

\* When the server has started again, no shell of its former life is left,
\* whether it crashed or went down while a shell ignored SIGTERM.
NoOrphanAfterRestart ==
  [][~up /\ up' => \A p \in Shells : shell'[p] # "live"]_vars

\* Whatever is asked of it, the manager comes to rest: every call has returned,
\* none awaits what never comes, and every shell that was stopped has ended,
\* also one that does not heed SIGTERM.
AtRest ==
  /\ \A c \in Calls : call[c].pc \in {"idle", "done"}
  /\ \A p \in killing : shell[p] # "live"

ComesToRest == up ~> AtRest \/ ~up

\* Attaching to a session never finds the mark of a start, so nobody types a
\* resume command into a session that is in use (wsServer.ts).
AttachTypesNothing ==
  [][\A c \in Calls : Attach(c) => call[c].key \notin fresh]_vars
=============================================================================
