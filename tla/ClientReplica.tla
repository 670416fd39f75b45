--------------------------- MODULE ClientReplica ---------------------------
(***************************************************************************)
(* How a web client comes to show a thread: the server's scoped pushes     *)
(* (wsServer.ts), the socket (wsTransport.ts) and the client's router of   *)
(* events (__root.tsx) with its store (store.ts).                          *)
(*   - a thread is shown from a snapshot of the projections, then from the *)
(*     events that follow; the snapshot carries the sequence up to which   *)
(*     events are to be dropped, its fence;                                *)
(*   - the fence is the cursor of the projector furthest behind, so it may *)
(*     be older than the rows the snapshot was read from;                  *)
(*   - the client subscribes when it mounts, again when the server greets  *)
(*     it, again when an event comes for a thread it has no snapshot of;   *)
(*   - events the client accepts wait up to 100 ms before they are applied,*)
(*     and what is applied together is first made one event per message.   *)
(* This is one client, one thread with one message of the assistant and    *)
(* its activities, and a connection that may be lost.  An event is its     *)
(* place in the thread's log.  Left out: the thread's session and turns    *)
(* (the shell's stream repeats them), plans, diffs and reverts, requests   *)
(* that time out or fail on an open connection, a full queue of pushes.    *)
(***************************************************************************)
EXTENDS Integers, Sequences, FiniteSets, SequencesExt

CONSTANTS
  Letters,     \* what a piece of text may say
  MaxEvents,   \* events of the thread (bound)
  MaxActs,     \* those that are activities (bound)
  MaxBehind,   \* events not projected or not published yet (bound)
  MaxTurns     \* connections lost, and times the thread is hidden or shown (bound)

ASSUME ReplicaAssumption ==
  /\ {"created", "end", "act"} \cap Letters = {}
  /\ MaxEvents \in Nat /\ MaxActs \in Nat /\ MaxBehind \in Nat /\ MaxTurns \in Nat

None == -1

VARIABLES
  log,         \* the thread's events: "created", a letter of the message, its "end", an "act"
  cursor,      \* the deferred projector's, the one furthest behind, when last read
  published,   \* events the push bus was handed
  subs,        \* what the connection is subscribed to
  serving,     \* requests the server works on
  pushes,      \* on their way to the client, answers included
  requests,    \* on their way to the server, or kept until the connection opens
  online,
  tab,         \* the event router of the client
  shown,       \* the store's copy of the thread
  ever,        \* how snapshots met events, so far (history)
  last,        \* ... and how the last one did (history)
  turns        \* connections lost, threads hidden or shown (bounded)

server == <<log, cursor, published>>

vars == <<server, subs, serving, pushes, requests, online, tab, shown, ever, last, turns>>

NoSubs == [shell |-> FALSE, thread |-> FALSE]

Request(asks, by, epoch) == [asks |-> asks, by |-> by, epoch |-> epoch]

Nothing == [here |-> FALSE, text |-> <<>>, ended |-> FALSE, acts |-> <<>>]

\* The thread is on screen as the tab mounts, with the shell asked for.
\* wanted: the thread is on screen; chain: reconciliations to run; awaiting:
\* one waits for its answer; ensuring: answers of the shell awaited; fence:
\* threadSnapshotSequenceById; asked: a snapshot request is in flight;
\* buffer: events that wait for the snapshot; waiting: accepted events;
\* first: the message's first piece was shown at once; seen, rows,
\* epoch: the newest event accepted, the newest of a snapshot, and how many
\* subscriptions began or were over (histories).
Init ==
  /\ log = <<>> /\ cursor = 0 /\ published = 0
  /\ subs = NoSubs
  /\ serving = <<>> /\ pushes = <<>>
  /\ requests = <<Request("shell", "ensure", 0)>>
  /\ online = FALSE
  /\ tab = [wanted |-> TRUE, chain |-> <<>>, awaiting |-> FALSE, ensuring |-> 1,
            subscribed |-> FALSE, asked |-> FALSE, fence |-> None, buffer |-> <<>>,
            shell |-> None, early |-> 0, waiting |-> <<>>, first |-> FALSE, seen |-> 0,
            rows |-> 0, epoch |-> 0]
  /\ shown = Nothing
  /\ ever = {} /\ last = {}
  /\ turns = 0

-----------------------------------------------------------------------------
(* The server                                                              *)

IsPiece(n) == log[n] \in Letters

IsMessage(n) == IsPiece(n) \/ log[n] = "end"

\* Where, up to the n-th event, events are of these kinds.
Places(n, kinds) ==
  LET upto[i \in 0 .. n] ==
        IF i = 0 THEN <<>>
        ELSE IF log[i] \in kinds THEN Append(upto[i - 1], i) ELSE upto[i - 1]
  IN  upto[n]

TextOf(n) == [i \in DOMAIN Places(n, Letters) |-> log[Places(n, Letters)[i]]]

\* The rows of the thread once n events are projected.
Rows(n) ==
  [here  |-> \E i \in 1 .. n : IsMessage(i),
   text  |-> TextOf(n),
   ended |-> \E i \in 1 .. n : log[i] = "end",
   acts  |-> Places(n, {"act"})]

\* An event is in the log and in the rows the snapshots are read from in one
\* transaction; the publication follows, and the deferred projector.
Commit(e) ==
  /\ Len(log) < MaxEvents
  /\ Len(log) - published < MaxBehind
  /\ IF log = <<>> THEN e = "created" ELSE e # "created"
  /\ IF e = "act" THEN Len(Places(Len(log), {"act"})) < MaxActs
     ELSE "end" \notin ToSet(log)
  /\ e = "end" => \E i \in DOMAIN log : IsPiece(i)
  /\ log' = Append(log, e)
  /\ UNCHANGED <<cursor, published, subs, serving, pushes, requests, online, tab, shown, ever,
                 last, turns>>

\* publishScopedOrchestrationEvent: the shell gets every event of a thread as
\* its new row, the thread's own stream those of its details.
Publish ==
  /\ published < Len(log)
  /\ published' = published + 1
  /\ LET n == published'
         detail == subs.thread /\ log[n] # "created"
     IN  pushes' = IF online /\ (subs.shell \/ detail)
                     THEN Append(pushes, [kind |-> "event", event |-> n, shell |-> subs.shell,
                                          detail |-> detail])
                     ELSE pushes
  /\ UNCHANGED <<log, cursor, subs, serving, requests, online, tab, shown, ever, last, turns>>

\* How far the deferred projector may be by now.
Cursors == {n \in cursor .. Len(log) : Len(log) - n <= MaxBehind}

Answer(r, upTo, fence) ==
  [kind |-> r.asks, by |-> r.by, epoch |-> r.epoch, upTo |-> upTo, fence |-> fence]

\* A request changes the subscriptions at once.  A snapshot of the shell is read
\* and pushed in the same step: no event overtakes it here.
Serve ==
  /\ online /\ requests # <<>>
  /\ LET r == Head(requests)
     IN  CASE r.asks = "leave" ->
                /\ subs' = [subs EXCEPT !.thread = FALSE]
                /\ pushes' = Append(pushes, Answer(r, 0, 0))
                /\ UNCHANGED <<cursor, serving>>
           [] r.asks = "shell" ->
                /\ subs' = [subs EXCEPT !.shell = TRUE]
                /\ cursor' \in Cursors
                /\ pushes' = Append(pushes, Answer(r, Len(log), cursor'))
                /\ UNCHANGED serving
           [] r.asks = "thread" ->
                /\ subs' = [subs EXCEPT !.thread = TRUE]
                /\ serving' = Append(serving, Answer(r, None, None))
                /\ UNCHANGED <<cursor, pushes>>
  /\ requests' = Tail(requests)
  /\ UNCHANGED <<log, published, online, tab, shown, ever, last, turns>>

\* getThreadDetailSnapshotById: the rows and the cursors are read in one
\* transaction, and transactions take turns.  A thread that is not there
\* (upTo 0) has no snapshot.
ReadSnapshot(i) ==
  /\ serving[i].upTo = None
  /\ \A j \in 1 .. i - 1 : serving[j].upTo # None
  /\ cursor' \in Cursors
  /\ serving' = [serving EXCEPT ![i].upTo = Len(log), ![i].fence = cursor']
  /\ UNCHANGED <<log, published, subs, pushes, requests, online, tab, shown, ever, last, turns>>

\* The push and, behind it, the answer of the request.
PushSnapshot(i) ==
  /\ serving[i].upTo # None
  /\ pushes' = Append(pushes, serving[i])
  /\ serving' = RemoveAt(serving, i)
  /\ UNCHANGED <<server, subs, requests, online, tab, shown, ever, last, turns>>

-----------------------------------------------------------------------------
(* The store                                                               *)

\* What is applied together: an activity, or text of the message.
Segment(act, text, ended) == [act |-> act, text |-> text, ended |-> ended]

\* coalesceOrchestrationUiEvents: neighbours that are of the message become
\* one, as ended as the last of them.
Joined(all, n) ==
  LET piece == IF IsPiece(n) THEN <<log[n]>> ELSE <<>>
  IN  CASE ~IsMessage(n) -> Append(all, Segment(n, <<>>, FALSE))
        [] IsMessage(n) /\ all # <<>> /\ Last(all).act = 0 ->
             Append(Front(all), Segment(0, Last(all).text \o piece, ~IsPiece(n)))
        [] OTHER -> Append(all, Segment(0, piece, ~IsPiece(n)))

\* ... one after the other
Coalesced(events) ==
  LET made[i \in 0 .. Len(events)] ==
        IF i = 0 THEN <<>> ELSE Joined(made[i - 1], events[i])
  IN  made[Len(events)]

\* A message that ended with a text of its own may repeat what was shown.
Repeats(thread, e) ==
  /\ thread.here /\ e.ended /\ e.text # <<>>
  /\ IsPrefix(thread.text, e.text) \/ IsPrefix(e.text, thread.text)

\* mergeStreamingMessage
MergedText(thread, e) ==
  IF ~Repeats(thread, e) THEN thread.text \o e.text
  ELSE IF IsPrefix(thread.text, e.text) THEN e.text ELSE thread.text

\* applyOrchestrationEvent: thread.activity-appended, thread.message-sent
AppliedEvent(thread, e) ==
  IF e.act # 0 THEN [thread EXCEPT !.acts = Append(@, e.act)]
  ELSE [thread EXCEPT !.here = TRUE, !.text = MergedText(thread, e), !.ended = e.ended]

\* ... the first n of them
AppliedFirst(thread, all, n) ==
  LET after[i \in 0 .. n] == IF i = 0 THEN thread ELSE AppliedEvent(after[i - 1], all[i])
  IN  after[n]

Applied(thread, events) == AppliedFirst(thread, Coalesced(events), Len(Coalesced(events)))

\* Whether text was taken for a repetition that is none.
Swallows(thread, events) ==
  LET all == Coalesced(events)
  IN  \E i \in DOMAIN all :
        /\ all[i].act = 0 /\ thread.text # <<>>
        /\ Repeats(AppliedFirst(thread, all, i - 1), all[i])

\* Mutated: the store takes the snapshot as it is.
SyncedPlainly(thread, rows) == rows

\* syncServerThreadDetailHotPath: a message further than the snapshot's stays
\* (one that is not in the snapshot is the latest turn's), the rest is replaced.
Synced(thread, rows) ==
  LET live == /\ thread.here
              /\ \/ ~rows.here
                 \/ Len(thread.text) > Len(rows.text)
                 \/ thread.ended /\ ~rows.ended
  IN  IF live THEN [thread EXCEPT !.acts = rows.acts] ELSE rows

-----------------------------------------------------------------------------
(* The event router                                                        *)

\* The state a handler of the client works on.
Client == [tab |-> tab, shown |-> shown, ever |-> ever, requests |-> requests]

Becomes(c) ==
  /\ tab' = c.tab
  /\ shown' = c.shown
  /\ ever' = c.ever
  /\ requests' = c.requests

Sent(c, asks, by) == [c EXCEPT !.requests = Append(@, Request(asks, by, c.tab.epoch))]

\* flushPendingDomainEvents
Flushed(c) ==
  [c EXCEPT !.shown = Applied(@, c.tab.waiting),
            !.ever = IF Swallows(c.shown, c.tab.waiting) THEN @ \cup {"swallowed"} ELSE @,
            !.tab.waiting = <<>>]

\* queueDomainEvent: the first piece of a message is shown at once.
Queued(c, n) ==
  LET q == [c EXCEPT !.tab.waiting = Append(@, n), !.tab.seen = IF n > @ THEN n ELSE @,
                     !.tab.first = IF IsMessage(n) THEN IsPiece(n) ELSE @]
  IN  IF IsPiece(n) /\ ~c.tab.first THEN Flushed(q) ELSE q

\* requestThreadSnapshot, of a thread that is subscribed
Requested(c) ==
  IF c.tab.subscribed /\ c.tab.fence = None /\ ~c.tab.asked
    THEN Sent([c EXCEPT !.tab.asked = TRUE], "thread", "event")
    ELSE c

\* Mutated: the row of a thread asks for nothing.
HeardRow(c, n) ==
  CASE c.tab.shell = None -> [c EXCEPT !.tab.early = n]
    [] c.tab.shell # None /\ n > c.tab.shell -> [c EXCEPT !.tab.shell = n]
    [] OTHER -> c

\* onShellEvent, an event
HeardShell(c, n) ==
  CASE c.tab.shell = None -> [c EXCEPT !.tab.early = n]
    [] c.tab.shell # None /\ n > c.tab.shell -> Requested([c EXCEPT !.tab.shell = n])
    [] OTHER -> c

\* Mutated: events of the snapshot are accepted again.
HeardAgain(c, n) ==
  IF c.tab.fence = None THEN Requested([c EXCEPT !.tab.buffer = Append(@, n)])
  ELSE Queued([c EXCEPT !.tab.fence = n], n)

\* onThreadEvent, an event
HeardDetail(c, n) ==
  CASE c.tab.fence = None -> Requested([c EXCEPT !.tab.buffer = Append(@, n)])
    [] c.tab.fence # None /\ n > c.tab.fence -> Queued([c EXCEPT !.tab.fence = n], n)
    [] OTHER -> c

\* ... one after the other
HeardDetails(c, events) ==
  LET heard[i \in 0 .. Len(events)] ==
        IF i = 0 THEN c ELSE HeardDetail(heard[i - 1], events[i])
  IN  heard[Len(events)]

\* Mutant: what waited for the snapshot is forgotten.
HeardAlone(c, upTo, fence) ==
  [c EXCEPT !.shown = Synced(@, Rows(upTo)), !.tab.asked = FALSE, !.tab.fence = fence,
            !.tab.buffer = <<>>, !.tab.rows = IF upTo > @ THEN upTo ELSE @]

\* onThreadEvent, a snapshot: it is the fence whatever the fence was, and the
\* events that waited for it follow.
HeardSnapshot(c, upTo, fence) ==
  LET synced == [c EXCEPT !.shown = Synced(@, Rows(upTo)), !.tab.asked = FALSE,
                          !.tab.fence = fence, !.tab.buffer = <<>>,
                          !.tab.rows = IF upTo > @ THEN upTo ELSE @]
  IN  HeardDetails(synced, c.tab.buffer)

\* onShellEvent, a snapshot: events that came before it are applied, and no
\* thread's snapshot is asked for.
HeardShellSnapshot(c, fence) ==
  [c EXCEPT !.tab.shell = IF c.tab.early > fence THEN c.tab.early ELSE fence,
            !.tab.early = 0]

\* A subscription of the thread begins, or one is over.
Anew(c) == [c EXCEPT !.tab.fence = None, !.tab.buffer = <<>>, !.tab.epoch = @ + 1]

\* ensureScopedSubscriptions
Ensure(c) ==
  Sent([Anew(c) EXCEPT !.tab.shell = None, !.tab.early = 0, !.tab.subscribed = FALSE,
                       !.tab.ensuring = @ + 1],
       "shell", "ensure")

\* ... once its request for the shell is settled
Ensured(c) ==
  [c EXCEPT !.tab.ensuring = @ - 1, !.tab.chain = Append(@, c.tab.wanted)]

Settled(c, by) ==
  CASE by = "ensure" -> Ensured(c)
    [] by = "chain"  -> [c EXCEPT !.tab.awaiting = FALSE]
    [] by = "event"  -> [c EXCEPT !.tab.asked = FALSE]

\* How a snapshot meets the events the client has.
Meeting(p) ==
     (IF p.fence < p.upTo THEN {"behind"} ELSE {})
  \cup (IF \E n \in ToSet(tab.waiting) : n <= p.upTo THEN {"overlaps"} ELSE {})
  \cup (IF p.upTo < tab.seen THEN {"older"} ELSE {})
  \cup (IF p.upTo < tab.rows THEN {"turned"} ELSE {})
  \cup (IF p.epoch < tab.epoch THEN {"late"} ELSE {})

HearEvent(p) ==
  LET c == IF p.shell THEN HeardShell(Client, p.event) ELSE Client
  IN  /\ Becomes(IF p.detail THEN HeardDetail(c, p.event) ELSE c)
      /\ UNCHANGED last

HearAnswer(p) ==
  IF p.kind = "thread" /\ p.upTo > 0
    THEN LET c == HeardSnapshot(Client, p.upTo, p.fence)
         IN  /\ Becomes(Settled([c EXCEPT !.ever = @ \cup Meeting(p)], p.by))
             /\ last' = Meeting(p)
    ELSE LET c == IF p.kind = "shell" THEN HeardShellSnapshot(Client, p.fence) ELSE Client
         IN  Becomes(Settled(c, p.by)) /\ UNCHANGED last

Hear ==
  /\ pushes # <<>>
  /\ LET p == Head(pushes)
     IN  CASE p.kind = "welcome" -> Becomes(Ensure(Client)) /\ UNCHANGED last
           [] p.kind = "event" -> HearEvent(p)
           [] OTHER -> HearAnswer(p)
  /\ pushes' = Tail(pushes)
  /\ UNCHANGED <<server, subs, serving, online, turns>>

\* 100 ms later
Flush ==
  /\ tab.waiting # <<>>
  /\ Becomes(Flushed(Client))
  /\ UNCHANGED <<server, subs, serving, pushes, online, last, turns>>

\* reconcileThreadSubscriptions, one at a time
Reconcile ==
  /\ tab.chain # <<>> /\ ~tab.awaiting
  /\ LET wanted == Head(tab.chain)
         rest == [Client EXCEPT !.tab.chain = Tail(@)]
         begun == [Anew(rest) EXCEPT !.tab.asked = FALSE, !.tab.subscribed = wanted,
                                     !.tab.awaiting = TRUE]
     IN  Becomes(IF wanted = tab.subscribed THEN rest
                 ELSE Sent(begun, IF wanted THEN "thread" ELSE "leave", "chain"))
  /\ UNCHANGED <<server, subs, serving, pushes, online, last, turns>>

\* The user shows another thread, or comes back to this one.
Route ==
  /\ turns < MaxTurns
  /\ turns' = turns + 1
  /\ tab' = [tab EXCEPT !.wanted = ~@, !.chain = Append(@, ~tab.wanted)]
  /\ UNCHANGED <<server, subs, serving, pushes, requests, online, shown, ever, last>>

-----------------------------------------------------------------------------
(* The connection                                                          *)

\* What waited is sent, and the server greets the client.
Connect ==
  /\ ~online
  /\ online' = TRUE
  /\ subs' = NoSubs
  /\ pushes' = <<[kind |-> "welcome"]>>
  /\ UNCHANGED <<server, serving, requests, tab, shown, ever, last, turns>>

\* Every request without an answer is rejected, also one that was not sent.
Lose ==
  /\ online /\ turns < MaxTurns
  /\ turns' = turns + 1
  /\ online' = FALSE
  /\ subs' = NoSubs
  /\ serving' = <<>> /\ pushes' = <<>> /\ requests' = <<>>
  /\ tab' = [tab EXCEPT !.awaiting = FALSE, !.asked = FALSE, !.ensuring = 0,
                        !.chain = @ \o [i \in 1 .. tab.ensuring |-> tab.wanted]]
  /\ UNCHANGED <<server, shown, ever, last>>

-----------------------------------------------------------------------------

Server ==
  \/ Publish
  \/ Serve
  \/ \E i \in DOMAIN serving : ReadSnapshot(i) \/ PushSnapshot(i)

Router == Hear \/ Flush \/ Reconcile

Next ==
  \/ \E e \in Letters \cup {"created", "end", "act"} : Commit(e)
  \/ Server
  \/ Router
  \/ Route
  \/ Connect
  \/ Lose

Spec == Init /\ [][Next]_vars

-----------------------------------------------------------------------------

\* Nothing is under way: the server's fibers are done, no message travels, no
\* timer runs, and the client's event loop has nothing to do.
Quiet ==
  /\ online
  /\ published = Len(log)
  /\ serving = <<>> /\ pushes = <<>> /\ requests = <<>>
  /\ tab.waiting = <<>> /\ (tab.chain = <<>> \/ tab.awaiting)

OnScreen == tab.wanted /\ log # <<>>

\* A client that has nothing more to wait for has the snapshot of the thread
\* on screen, and will get its events: no order of subscribing, leaving,
\* losing the connection and creating the thread strands it.
NeverStranded == Quiet /\ OnScreen => tab.subscribed /\ tab.fence # None /\ subs.thread

\* The client then shows the message the server has, whole, once and in
\* order, whatever was subscribed twice, hidden or lost.  Set apart are
\* snapshots with a fence behind their rows, that overlap events accepted and
\* not applied yet, or that come after a newer one (each adds text twice),
\* those that answer a subscription that is over, and a last piece taken for
\* a repetition.
TextShown ==
  Quiet /\ OnScreen /\ ever \subseteq {"older"} =>
    /\ shown.text = TextOf(Len(log))
    /\ shown.ended = Rows(Len(log)).ended

\* The client then shows the thread's activities, each once, unless the last
\* snapshot met events it contains, or was older than events it replaced.
ActsShown == Quiet /\ OnScreen /\ last = {} => shown.acts = Rows(Len(log)).acts

\* What a reader has read of the message stays: no snapshot, however old,
\* takes text back or makes an ended message run again.
NeverTakenBack ==
  [][ever' \subseteq {"older"} =>
       IsPrefix(shown.text, shown'.text) /\ (shown.ended => shown'.ended)]_vars

=============================================================================
