---------------------------- MODULE ReplicaProofs ----------------------------
(***************************************************************************)
(* What ClientReplica promises, for any text and activities, any bounds,   *)
(* any number of connections lost and of times the thread is hidden or     *)
(* shown: a client is never stranded (NeverStranded), it shows the thread  *)
(* as the server has it (TextShown, ActsShown), and takes back nothing     *)
(* that was read (NeverTakenBack).                                         *)
(*                                                                         *)
(* Never stranded.  The client never asks twice for what it waits for and  *)
(* never asks again without being told to, so each state in which it has   *)
(* no snapshot must contain the cause of one: a request on its way, an     *)
(* answer that is not empty, or, if the thread did not exist when it was   *)
(* asked for, the event that creates it, which the client will hear as the *)
(* shell's (Fenced).  That the last holds rests on the order of the        *)
(* subscriptions: whoever asked for the thread asked for the shell before  *)
(* (Subscribes), so that the shell's answer was heard when the creation is *)
(* (Unborn).                                                               *)
(*                                                                         *)
(* Shown as it is (Faithful).  A client is as far as the newest event or   *)
(* snapshot it accepted, less what waits to be applied (Reached), and it   *)
(* reads the message as of there (Reads) as long as each event it accepts  *)
(* follows those it has.  So every event published must be one it has, or  *)
(* come: wait in its buffer or be on its way (Has, Follows), from the      *)
(* moment the server begins to serve its subscription (Tuned, Complete);   *)
(* and one that it has had must be below its fence (Fits), or it is        *)
(* applied twice.  A snapshot only puts the client further, or leaves it   *)
(* where it is; what a flush applies is what the log says follows, however *)
(* the store cuts it (Cuts, Spans).                                        *)
(***************************************************************************)
EXTENDS ClientReplica, SequenceTheorems, WellFoundedInduction, TLAPS

-----------------------------------------------------------------------------
(* Sequences                                                               *)

\* Appending adds one element, at the end.
LEMMA Appended ==
  ASSUME NEW S, NEW s \in Seq(S), NEW x \in S
  PROVE  /\ Append(s, x) \in Seq(S) /\ Append(s, x) # <<>>
         /\ Len(Append(s, x)) = Len(s) + 1 /\ DOMAIN Append(s, x) = 1..(Len(s) + 1)
         /\ DOMAIN s = 1..Len(s) /\ Len(s) \in Nat
         /\ \A i \in 1..Len(s) : Append(s, x)[i] = s[i]
         /\ Append(s, x)[Len(s) + 1] = x
OBVIOUS

\* ... and makes it the last.
LEMMA AppendedLast ==
  ASSUME NEW S, NEW s \in Seq(S), NEW x \in S
  PROVE  Last(Append(s, x)) = x
BY Appended DEF Last

LEMMA AppendedSet ==
  ASSUME NEW S, NEW s \in Seq(S), NEW x \in S
  PROVE  ToSet(Append(s, x)) = ToSet(s) \cup {x}
<1>1. ASSUME NEW y \in ToSet(Append(s, x))
      PROVE  y \in ToSet(s) \cup {x}
  BY Appended DEF ToSet
<1>2. ASSUME NEW y \in ToSet(s)
      PROVE  y \in ToSet(Append(s, x))
  <2>1. PICK i \in 1..Len(s) : y = s[i]
    BY Appended DEF ToSet
  <2>2. i \in DOMAIN Append(s, x) /\ Append(s, x)[i] = y
    BY <2>1, Appended
  <2>3. QED BY <2>2 DEF ToSet
<1>3. x \in ToSet(Append(s, x))
  <2>1. Len(s) + 1 \in DOMAIN Append(s, x)
    BY Appended
  <2>2. QED BY <2>1, Appended DEF ToSet
<1>4. QED BY <1>1, <1>2, <1>3

\* The tail is the rest.
LEMMA Rest ==
  ASSUME NEW S, NEW s \in Seq(S), s # <<>>
  PROVE  /\ Head(s) = s[1] /\ 1 \in DOMAIN s /\ Head(s) \in S /\ Tail(s) \in Seq(S)
         /\ Len(Tail(s)) = Len(s) - 1 /\ DOMAIN Tail(s) = 1..(Len(s) - 1)
         /\ DOMAIN s = 1..Len(s) /\ Len(s) \in Nat \ {0}
         /\ \A i \in 1..(Len(s) - 1) : Tail(s)[i] = s[i + 1]
OBVIOUS

LEMMA RestSet ==
  ASSUME NEW S, NEW s \in Seq(S), s # <<>>
  PROVE  /\ ToSet(Tail(s)) \subseteq ToSet(s) /\ Head(s) \in ToSet(s)
         /\ \A x \in ToSet(s) : x = Head(s) \/ x \in ToSet(Tail(s))
<1>1. ASSUME NEW y \in ToSet(Tail(s))
      PROVE  y \in ToSet(s)
  <2>1. PICK i \in 1..(Len(s) - 1) : y = s[i + 1]
    BY Rest DEF ToSet
  <2>2. i + 1 \in DOMAIN s
    BY Rest
  <2>3. QED BY <2>1, <2>2 DEF ToSet
<1>2. ASSUME NEW y \in ToSet(s), y # Head(s)
      PROVE  y \in ToSet(Tail(s))
  <2>1. PICK i \in 1..Len(s) : y = s[i]
    BY Rest DEF ToSet
  <2>2. i - 1 \in 1..(Len(s) - 1) /\ (i - 1) + 1 = i
    BY <1>2, <2>1, Rest
  <2>3. i - 1 \in DOMAIN Tail(s) /\ Tail(s)[i - 1] = y
    BY <2>1, <2>2, Rest
  <2>4. QED BY <2>3 DEF ToSet
<1>3. Head(s) \in ToSet(s)
  BY Rest DEF ToSet
<1>4. QED BY <1>1, <1>2, <1>3

\* Removing one element leaves the others.
LEMMA Removed ==
  ASSUME NEW S, NEW s \in Seq(S), NEW i \in DOMAIN s
  PROVE  /\ RemoveAt(s, i) \in Seq(S)
         /\ ToSet(RemoveAt(s, i)) \subseteq ToSet(s) /\ s[i] \in ToSet(s) /\ s[i] \in S
         /\ \A x \in ToSet(s) : x = s[i] \/ x \in ToSet(RemoveAt(s, i))
<1> DEFINE before == SubSeq(s, 1, i - 1)
           after == SubSeq(s, i + 1, Len(s))
<1>1. i \in 1..Len(s) /\ Len(s) \in Nat /\ s[i] \in S
  OBVIOUS
<1>2. /\ before \in Seq(S) /\ Len(before) = i - 1
      /\ \A j \in 1..(i - 1) : before[j] = s[j]
  BY <1>1
<1>3. /\ after \in Seq(S) /\ Len(after) = Len(s) - i
      /\ \A j \in 1..(Len(s) - i) : after[j] = s[i + j]
  BY <1>1
<1>4. RemoveAt(s, i) = before \o after
  BY DEF RemoveAt
<1> HIDE DEF before, after
<1>5. /\ RemoveAt(s, i) \in Seq(S) /\ Len(RemoveAt(s, i)) = Len(s) - 1
      /\ \A j \in 1..(Len(s) - 1) :
           RemoveAt(s, i)[j] = IF j < i THEN s[j] ELSE s[j + 1]
  <2> DEFINE both == before \o after
  <2>1. /\ both \in Seq(S) /\ Len(both) = Len(before) + Len(after)
        /\ \A k \in 1..(Len(before) + Len(after)) :
             both[k] = IF k <= Len(before) THEN before[k] ELSE after[k - Len(before)]
    BY <1>2, <1>3, ConcatProperties
  <2> HIDE DEF both
  <2>2. ASSUME NEW j \in 1..(Len(s) - 1)
        PROVE  both[j] = IF j < i THEN s[j] ELSE s[j + 1]
    <3>1. CASE j < i
      <4>1. j \in 1..(i - 1) /\ j \in 1..(Len(before) + Len(after)) /\ j <= Len(before)
        BY <3>1, <1>1, <1>2, <1>3
      <4>2. QED BY <3>1, <4>1, <2>1, <1>2
    <3>2. CASE ~(j < i)
      <4>1. i \in Int /\ j \in Int /\ j >= i /\ j <= Len(s) - 1
        BY <3>2, <1>1
      <4>2. j - (i - 1) \in 1..(Len(s) - i) /\ i + (j - (i - 1)) = j + 1
        BY <4>1, <1>1
      <4>3. j \in 1..(Len(before) + Len(after)) /\ j > Len(before) /\ Len(before) = i - 1
        BY <4>1, <1>1, <1>2, <1>3
      <4>4. both[j] = after[j - Len(before)]
        BY <4>3, <2>1, <1>1, <1>2
      <4>5. after[j - (i - 1)] = s[i + (j - (i - 1))]
        BY <4>2, <1>3
      <4>6. QED BY <3>2, <4>2, <4>3, <4>4, <4>5
    <3>3. QED BY <3>1, <3>2
  <2>3. Len(both) = Len(s) - 1
    BY <2>1, <1>1, <1>2, <1>3
  <2>4. QED BY <2>1, <2>2, <2>3, <1>4 DEF both
<1>6. ASSUME NEW y \in ToSet(RemoveAt(s, i))
      PROVE  y \in ToSet(s)
  <2>1. PICK j \in 1..(Len(s) - 1) : y = RemoveAt(s, i)[j]
    BY <1>5 DEF ToSet
  <2>2. j \in DOMAIN s /\ j + 1 \in DOMAIN s
    BY <1>1
  <2>3. QED BY <2>1, <2>2, <1>5 DEF ToSet
<1>7. ASSUME NEW y \in ToSet(s), y # s[i]
      PROVE  y \in ToSet(RemoveAt(s, i))
  <2>1. PICK j \in 1..Len(s) : y = s[j]
    BY DEF ToSet
  <2>2. CASE j < i
    <3>1. j \in 1..(Len(s) - 1) /\ RemoveAt(s, i)[j] = y
      BY <2>1, <2>2, <1>1, <1>5
    <3>2. QED BY <3>1, <1>5 DEF ToSet
  <2>3. CASE j > i
    <3>1. j - 1 \in 1..(Len(s) - 1) /\ ~(j - 1 < i) /\ (j - 1) + 1 = j
      BY <2>3, <1>1
    <3>2. RemoveAt(s, i)[j - 1] = y
      BY <2>1, <3>1, <1>5
    <3>3. QED BY <3>1, <3>2, <1>5 DEF ToSet
  <2>4. QED BY <2>1, <2>2, <2>3, <1>7, <1>1
<1>8. QED BY <1>1, <1>5, <1>6, <1>7 DEF ToSet

-----------------------------------------------------------------------------
(* The invariant                                                           *)

Numbers == Nat \cup {None}

Tabs ==
  [wanted : BOOLEAN, chain : Seq(BOOLEAN), awaiting : BOOLEAN, ensuring : Int,
   subscribed : BOOLEAN, asked : BOOLEAN, fence : Numbers, buffer : Seq(Nat),
   shell : Numbers, early : Nat, waiting : Seq(Nat), first : BOOLEAN, seen : Nat,
   rows : Nat, epoch : Nat]

\* Who asks for what: the shell's rows when the client subscribes anew; the
\* thread, or to be told no more of it, in the order of reconciliations; the
\* thread again when an event comes.
Asking(asks, by) ==
  \/ asks = "shell" /\ by = "ensure"
  \/ asks = "thread" /\ by \in {"chain", "event"}
  \/ asks = "leave" /\ by = "chain"

Whats == {"shell", "thread", "leave"}

Whos == {"ensure", "chain", "event"}

Requests == {r \in [asks : Whats, by : Whos, epoch : Nat] : Asking(r.asks, r.by)}

\* A request for the thread while the server works on it; what was not read
\* has no number.
Services ==
  {r \in [kind : {"thread"}, by : Whos, epoch : Nat, upTo : Numbers, fence : Numbers] :
     Asking(r.kind, r.by) /\ (r.upTo # None => r.fence # None)}

Answers ==
  {r \in [kind : Whats, by : Whos, epoch : Nat, upTo : Nat, fence : Nat] : Asking(r.kind, r.by)}

Events == [kind : {"event"}, event : Nat, shell : BOOLEAN, detail : BOOLEAN]

Welcomes == [kind : {"welcome"}]

Pushes == Answers \cup Events \cup Welcomes

Typed ==
  /\ log \in Seq(Letters \cup {"created", "end", "act"})
  /\ cursor \in 0..Len(log) /\ published \in 0..Len(log)
  /\ subs \in [shell : BOOLEAN, thread : BOOLEAN]
  /\ requests \in Seq(Requests) /\ serving \in Seq(Services) /\ pushes \in Seq(Pushes)
  /\ online \in BOOLEAN /\ tab \in Tabs

\* The greeting comes first, and numbers are not ahead of the log.
Told ==
  /\ \A i \in DOMAIN pushes : pushes[i].kind = "welcome" => i = 1
  /\ \A p \in ToSet(pushes) :
       /\ p.kind = "event" => p.event \in 1..published
       /\ p.kind = "shell" => p.fence <= Len(log)
  /\ tab.shell <= Len(log) /\ tab.early <= published
  /\ ~online => pushes = <<>> /\ serving = <<>>

\* The client has heard the greeting of the connection: what it subscribed to
\* before is void.
Greeted == online /\ \A p \in ToSet(pushes) : p.kind # "welcome"

Asked(asks) == \E r \in ToSet(requests) : r.asks = asks

Outstanding(by) ==
  \/ \E r \in ToSet(requests) : r.by = by
  \/ \E r \in ToSet(serving) : r.by = by
  \/ \E p \in ToSet(pushes) : p.kind \in Whats /\ p.by = by

\* What the client waits for was asked and not yet answered.
Awaits ==
  /\ tab.awaiting => Outstanding("chain")
  /\ tab.asked => Outstanding("event")

\* A request an event led to finds the thread there.
Informed ==
  /\ \A r \in ToSet(requests) : r.by = "event" => log # <<>>
  /\ \A r \in ToSet(serving) : r.by = "event" => log # <<>> /\ r.upTo # 0
  /\ \A p \in ToSet(pushes) : p.kind = "thread" /\ p.by = "event" => p.upTo # 0

\* Once all reconciliations are done, the client has subscribed to what is on
\* screen, or the next one follows when the shell is there.
Wants ==
  /\ tab.chain # <<>> => Last(tab.chain) = tab.wanted
  /\ Greeted /\ tab.chain = <<>> => tab.subscribed = tab.wanted \/ Outstanding("ensure")

\* The server will know that the client has subscribed: of what it is asked
\* the thread comes last.
Subscribes ==
  Greeted /\ tab.subscribed =>
    /\ subs.thread \/ Asked("thread")
    /\ \A i \in DOMAIN requests :
         requests[i].asks # "thread" =>
           \E j \in DOMAIN requests : j > i /\ requests[j].asks = "thread"

\* The shell has been asked for, and what the client waits with comes.
ShellSubscribes ==
  Greeted =>
    /\ subs.shell \/ Asked("shell")
    /\ tab.shell = None => Asked("shell") \/ \E p \in ToSet(pushes) : p.kind = "shell"

\* A snapshot is on its way, or will be read.
Coming ==
  \/ Asked("thread")
  \/ \E r \in ToSet(serving) : r.upTo # 0
  \/ \E p \in ToSet(pushes) : p.kind = "thread" /\ p.upTo # 0

\* The i-th push creates the thread; the shell's rows were pushed before.
Creates(i) ==
  /\ pushes[i].kind = "event" /\ pushes[i].event = 1 /\ pushes[i].shell
  /\ \A j \in DOMAIN pushes :
       /\ j < i => pushes[j].kind # "event"
       /\ j > i => pushes[j].kind # "shell"

\* The client has not heard of the thread's creation, and will by the shell.
Unborn ==
  /\ subs.shell /\ ~Asked("shell")
  /\ tab.shell \in {0, None} /\ tab.early = 0
  /\ \A p \in ToSet(pushes) : p.kind = "shell" => p.fence = 0
  /\ published = 0 \/ \E i \in DOMAIN pushes : Creates(i)

\* A client without a snapshot will get one.
Fenced == Greeted /\ tab.subscribed /\ tab.fence = None => Coming \/ Unborn

IInv ==
  /\ Typed /\ Told
  /\ Awaits /\ Informed /\ Wants /\ Subscribes /\ ShellSubscribes /\ Fenced

\* What is proved is that the invariant suffices.
LEMMA InvariantSuffices == IInv => NeverStranded
<1> SUFFICES ASSUME IInv, Quiet, OnScreen
             PROVE  tab.subscribed /\ tab.fence # None /\ subs.thread
  BY DEF NeverStranded
<1>1. /\ ToSet(requests) = {} /\ ToSet(serving) = {} /\ ToSet(pushes) = {}
      /\ DOMAIN pushes = {}
  BY DEF Quiet, ToSet
<1>2. Greeted /\ (\A by : ~Outstanding(by)) /\ (\A asks : ~Asked(asks))
  BY <1>1 DEF Quiet, Greeted, Outstanding, Asked
<1>3. tab.chain = <<>>
  BY <1>2 DEF IInv, Awaits, Quiet
<1>4. tab.subscribed
  BY <1>2, <1>3 DEF IInv, Wants, OnScreen
<1>5. subs.thread
  BY <1>2, <1>4 DEF IInv, Subscribes
<1>6. published # 0
  BY DEF Quiet, OnScreen, IInv, Typed
<1>7. ~Coming /\ ~Unborn
  BY <1>1, <1>2, <1>6 DEF Coming, Unborn
<1>8. QED BY <1>2, <1>4, <1>5, <1>7 DEF IInv, Fenced

-----------------------------------------------------------------------------
(* The handlers of the client                                              *)

IsClient(c) ==
  c \in [tab : Tabs, shown : {c.shown}, ever : {c.ever}, requests : Seq(Requests)]

\* What events leave alone.
Alike(t, u) ==
  /\ u.wanted = t.wanted /\ u.chain = t.chain /\ u.awaiting = t.awaiting
  /\ u.subscribed = t.subscribed /\ u.epoch = t.epoch

\* ... those of the thread
Same(t, u) == Alike(t, u) /\ u.shell = t.shell /\ u.early = t.early

\* Nothing of the thread is heard, ...
Still(t, u) ==
  /\ u.seen = t.seen /\ u.rows = t.rows /\ u.waiting = t.waiting /\ u.first = t.first

\* ... and what was heard is not set aside ...
Stays(t, u) == Still(t, u) /\ u.fence = t.fence /\ u.buffer = t.buffer

\* ... nor is more of it shown.
Untouched(c, d) == Stays(c.tab, d.tab) /\ d.shown = c.shown /\ d.ever = c.ever

\* A handler asks for the thread's snapshot at most once, and not when it has
\* asked.
AsksOnce(c, d) ==
  \/ d.requests = c.requests /\ d.tab.asked = c.tab.asked
  \/ /\ c.tab.subscribed /\ ~c.tab.asked /\ d.tab.asked
     /\ d.requests = Append(c.requests, Request("thread", "event", c.tab.epoch))

\* What a client that subscribed and has no snapshot must do.
Urged(c, d) == c.tab.subscribed /\ c.tab.fence = None => d.tab.asked

LEMMA MadeRequest ==
  ASSUME NEW asks \in Whats, NEW by \in Whos, NEW epoch \in Nat, Asking(asks, by)
  PROVE  /\ Request(asks, by, epoch) \in Requests
         /\ Request(asks, by, epoch).asks = asks /\ Request(asks, by, epoch).by = by
         /\ Request(asks, by, epoch).epoch = epoch
BY DEF Request, Requests

\* A state of the client has these four parts.
LEMMA Parts ==
  ASSUME NEW c, IsClient(c)
  PROVE  \E t, s, e, r : /\ t \in Tabs /\ r \in Seq(Requests)
                         /\ c = [tab |-> t, shown |-> s, ever |-> e, requests |-> r]
<1>1. c = [tab |-> c.tab, shown |-> c.shown, ever |-> c.ever, requests |-> c.requests]
  BY DEF IsClient
<1>2. c.tab \in Tabs /\ c.requests \in Seq(Requests)
  BY DEF IsClient
<1>3. QED BY <1>1, <1>2

\* ... and one of them can be replaced.
LEMMA WithTab ==
  ASSUME NEW c, IsClient(c), NEW t \in Tabs
  PROVE  LET d == [c EXCEPT !.tab = t]
         IN  /\ d = [tab |-> t, shown |-> c.shown, ever |-> c.ever, requests |-> c.requests]
             /\ IsClient(d) /\ d.tab = t /\ d.requests = c.requests /\ d.shown = c.shown
             /\ d.ever = c.ever
<1>1. PICK t0, s0, e0, r0 : /\ t0 \in Tabs /\ r0 \in Seq(Requests)
                           /\ c = [tab |-> t0, shown |-> s0, ever |-> e0, requests |-> r0]
  BY Parts
<1>2. [c EXCEPT !.tab = t] = [tab |-> t, shown |-> s0, ever |-> e0, requests |-> r0]
  BY <1>1
<1>3. QED BY <1>1, <1>2 DEF IsClient

LEMMA WithRequests ==
  ASSUME NEW c, IsClient(c), NEW r \in Seq(Requests)
  PROVE  LET d == [c EXCEPT !.requests = r]
         IN  /\ IsClient(d) /\ d.tab = c.tab /\ d.requests = r
             /\ d.shown = c.shown /\ d.ever = c.ever
<1>1. PICK t0, s0, e0, r0 : /\ t0 \in Tabs /\ r0 \in Seq(Requests)
                           /\ c = [tab |-> t0, shown |-> s0, ever |-> e0, requests |-> r0]
  BY Parts
<1>2. [c EXCEPT !.requests = r] = [tab |-> t0, shown |-> s0, ever |-> e0, requests |-> r]
  BY <1>1
<1>3. QED BY <1>1, <1>2 DEF IsClient

LEMMA FlushedKeeps ==
  ASSUME NEW c, IsClient(c)
  PROVE  /\ IsClient(Flushed(c)) /\ Flushed(c).requests = c.requests
         /\ Flushed(c).tab = [c.tab EXCEPT !.waiting = <<>>]
         /\ Flushed(c).shown = Applied(c.shown, c.tab.waiting)
         /\ Flushed(c).ever = IF Swallows(c.shown, c.tab.waiting)
                                THEN c.ever \cup {"swallowed"} ELSE c.ever
<1> DEFINE s == Applied(c.shown, c.tab.waiting)
           e == IF Swallows(c.shown, c.tab.waiting) THEN c.ever \cup {"swallowed"} ELSE c.ever
<1>1. Flushed(c) = [tab |-> [c.tab EXCEPT !.waiting = <<>>], shown |-> s, ever |-> e,
                    requests |-> c.requests]
  <2>1. PICK t0, s0, e0, r0 : t0 \in Tabs /\
             c = [tab |-> t0, shown |-> s0, ever |-> e0, requests |-> r0]
    BY Parts
  <2>2. c.tab = t0 /\ c.shown = s0 /\ c.ever = e0 /\ c.requests = r0
    BY <2>1
  <2> HIDE DEF s, e
  <2>3. [[[c EXCEPT !.shown = s] EXCEPT !.ever = e] EXCEPT !.tab = [t0 EXCEPT !.waiting = <<>>]] =
          [tab |-> [t0 EXCEPT !.waiting = <<>>], shown |-> s, ever |-> e, requests |-> r0]
    <3>1. PICK d : d = [c EXCEPT !.shown = s]
      OBVIOUS
    <3>2. d = [tab |-> t0, shown |-> s, ever |-> e0, requests |-> r0]
      BY <2>1, <3>1
    <3>3. PICK f : f = [d EXCEPT !.ever = e]
      OBVIOUS
    <3>4. f = [tab |-> t0, shown |-> s, ever |-> e, requests |-> r0]
      BY ONLY <3>2, <3>3
    <3>5. PICK t1 : t1 = [t0 EXCEPT !.waiting = <<>>]
      OBVIOUS
    <3>6. [f EXCEPT !.tab = t1] = [tab |-> t1, shown |-> s, ever |-> e, requests |-> r0]
      BY ONLY <3>4
    <3>7. QED BY <3>1, <3>3, <3>5, <3>6
  <2>4. Flushed(c) = [[[c EXCEPT !.shown = s] EXCEPT !.ever = e]
                        EXCEPT !.tab = [c.tab EXCEPT !.waiting = <<>>]]
    BY DEF Flushed, s, e
  <2>5. QED BY <2>2, <2>3, <2>4
<1>2. [c.tab EXCEPT !.waiting = <<>>] \in Tabs
  <2>1. c.tab \in Tabs /\ <<>> \in Seq(Nat)
    BY DEF IsClient
  <2>2. QED BY <2>1 DEF Tabs
<1>3. Flushed(c).shown = s /\ Flushed(c).ever = e
  <2> HIDE DEF s, e
  <2>1. QED BY <1>1
<1>4. /\ IsClient(Flushed(c)) /\ Flushed(c).requests = c.requests
      /\ Flushed(c).tab = [c.tab EXCEPT !.waiting = <<>>]
  <2> HIDE DEF s, e
  <2>1. QED BY <1>1, <1>2 DEF IsClient
<1>5. QED BY <1>3, <1>4

LEMMA QueuedKeeps ==
  ASSUME NEW c, IsClient(c), NEW n \in Nat
  PROVE  /\ IsClient(Queued(c, n)) /\ Queued(c, n).requests = c.requests
         /\ Same(c.tab, Queued(c, n).tab)
         /\ Queued(c, n).tab.asked = c.tab.asked /\ Queued(c, n).tab.fence = c.tab.fence
<1> DEFINE seen == IF n > c.tab.seen THEN n ELSE c.tab.seen
           first == IF IsMessage(n) THEN IsPiece(n) ELSE c.tab.first
           q == [c EXCEPT !.tab.waiting = Append(@, n), !.tab.seen = IF n > @ THEN n ELSE @,
                          !.tab.first = IF IsMessage(n) THEN IsPiece(n) ELSE @]
           t == [c.tab EXCEPT !.waiting = Append(@, n), !.seen = seen, !.first = first]
<1>1. q = [c EXCEPT !.tab = t]
  OBVIOUS
<1>2. seen \in Nat /\ first \in BOOLEAN
  <2>1. c.tab.seen \in Nat /\ c.tab.first \in BOOLEAN
    BY DEF IsClient, Tabs
  <2>2. IsPiece(n) \in BOOLEAN
    BY DEF IsPiece
  <2>3. QED BY <2>1, <2>2
<1> HIDE DEF seen, first
<1>3. t \in Tabs /\ Same(c.tab, t) /\ t.asked = c.tab.asked /\ t.fence = c.tab.fence
  <2>1. Append(c.tab.waiting, n) \in Seq(Nat)
    BY Appended DEF IsClient, Tabs
  <2>2. QED BY <1>2, <2>1 DEF IsClient, Tabs, Same, Alike
<1>4. IsClient(q) /\ q.requests = c.requests /\ q.tab = t
  <2> HIDE DEF t, q
  <2>1. QED BY <1>1, <1>3, WithTab
<1> HIDE DEF t
<1>5. /\ IsClient(Flushed(q)) /\ Flushed(q).requests = c.requests
      /\ Flushed(q).tab = [t EXCEPT !.waiting = <<>>]
  <2> HIDE DEF q
  <2>1. QED BY <1>4, FlushedKeeps
<1>6. /\ Same(c.tab, [t EXCEPT !.waiting = <<>>])
      /\ [t EXCEPT !.waiting = <<>>].asked = c.tab.asked
      /\ [t EXCEPT !.waiting = <<>>].fence = c.tab.fence
  BY <1>3 DEF Tabs, Same, Alike
<1>7. Queued(c, n) = q \/ Queued(c, n) = Flushed(q)
  BY DEF Queued
<1> HIDE DEF q
<1>8. QED BY <1>3, <1>4, <1>5, <1>6, <1>7

LEMMA RequestedAsks ==
  ASSUME NEW c, IsClient(c)
  PROVE  /\ IsClient(Requested(c)) /\ Same(c.tab, Requested(c).tab)
         /\ Requested(c).tab.fence = c.tab.fence
         /\ AsksOnce(c, Requested(c)) /\ Urged(c, Requested(c)) /\ Untouched(c, Requested(c))
<1>1. CASE c.tab.subscribed /\ c.tab.fence = None /\ ~c.tab.asked
  <2> DEFINE r == Request("thread", "event", c.tab.epoch)
             t == [c.tab EXCEPT !.asked = TRUE]
  <2>1. r \in Requests
    <3>1. c.tab.epoch \in Nat
      BY DEF IsClient, Tabs
    <3>2. QED BY <3>1, MadeRequest DEF Asking, Whats, Whos
  <2>2. Append(c.requests, r) \in Seq(Requests)
    <3> HIDE DEF r
    <3>1. QED BY <2>1, Appended DEF IsClient
  <2>3. /\ t \in Tabs /\ Same(c.tab, t) /\ t.asked /\ t.fence = c.tab.fence
        /\ t.epoch = c.tab.epoch /\ Stays(c.tab, t)
    BY DEF IsClient, Tabs, Same, Alike, Stays, Still
  <2> DEFINE b == [c EXCEPT !.tab.asked = TRUE]
  <2>4. b = [c EXCEPT !.tab = t]
    OBVIOUS
  <2>5. /\ IsClient(b) /\ b.tab = t /\ b.requests = c.requests
        /\ b.shown = c.shown /\ b.ever = c.ever
    <3> HIDE DEF t, b
    <3>1. QED BY <2>3, <2>4, WithTab
  <2>6. Requested(c) = [b EXCEPT !.requests = Append(c.requests, r)]
    <3> HIDE DEF t, b
    <3>1. Requested(c) = Sent(b, "thread", "event")
      BY <1>1 DEF Requested, b
    <3>2. QED BY <3>1, <2>3, <2>5 DEF Sent
  <2> HIDE DEF t, r, b
  <2>7. /\ Requested(c).tab = t /\ Requested(c).requests = Append(c.requests, r)
        /\ IsClient(Requested(c)) /\ Requested(c).shown = c.shown /\ Requested(c).ever = c.ever
    <3>1. PICK more : more = Append(c.requests, r)
      OBVIOUS
    <3>2. more \in Seq(Requests) /\ Requested(c) = [b EXCEPT !.requests = more]
      BY <2>2, <2>6, <3>1
    <3>3. /\ IsClient([b EXCEPT !.requests = more]) /\ [b EXCEPT !.requests = more].tab = b.tab
          /\ [b EXCEPT !.requests = more].requests = more
          /\ [b EXCEPT !.requests = more].shown = b.shown
          /\ [b EXCEPT !.requests = more].ever = b.ever
      BY <2>5, <3>2, WithRequests
    <3>4. QED BY <2>5, <3>1, <3>2, <3>3
  <2>8. Untouched(c, Requested(c))
    BY <2>3, <2>7 DEF Untouched
  <2>9. QED BY <1>1, <2>3, <2>7, <2>8 DEF AsksOnce, Urged, r
<1>2. CASE ~(c.tab.subscribed /\ c.tab.fence = None /\ ~c.tab.asked)
  <2>1. Requested(c) = c
    BY <1>2 DEF Requested
  <2>2. c.tab.asked \in BOOLEAN /\ c.tab.subscribed \in BOOLEAN
    BY DEF IsClient, Tabs
  <2>3. QED BY <1>2, <2>1, <2>2 DEF AsksOnce, Urged, Same, Alike, Untouched, Stays, Still
<1>3. QED BY <1>1, <1>2

LEMMA HeardDetailAsks ==
  ASSUME NEW c, IsClient(c), NEW n \in Nat
  PROVE  /\ IsClient(HeardDetail(c, n)) /\ Same(c.tab, HeardDetail(c, n).tab)
         /\ HeardDetail(c, n).tab.fence = None <=> c.tab.fence = None
         /\ AsksOnce(c, HeardDetail(c, n))
         /\ c.tab.fence # None => /\ HeardDetail(c, n).requests = c.requests
                                  /\ HeardDetail(c, n).tab.asked = c.tab.asked
<1>1. CASE c.tab.fence = None
  <2> DEFINE t == [c.tab EXCEPT !.buffer = Append(@, n)]
             b == [c EXCEPT !.tab.buffer = Append(@, n)]
  <2>1. b = [c EXCEPT !.tab = t]
    OBVIOUS
  <2>2. t \in Tabs /\ Same(c.tab, t) /\ t.asked = c.tab.asked /\ t.fence = c.tab.fence
    <3>1. Append(c.tab.buffer, n) \in Seq(Nat)
      BY Appended DEF IsClient, Tabs
    <3>2. QED BY <3>1 DEF IsClient, Tabs, Same, Alike
  <2>3. HeardDetail(c, n) = Requested(b)
    BY <1>1 DEF HeardDetail
  <2> HIDE DEF t, b
  <2>4. IsClient(b) /\ b.tab = t /\ b.requests = c.requests
    BY <2>1, <2>2, WithTab
  <2>5. /\ IsClient(Requested(b)) /\ Same(t, Requested(b).tab)
        /\ Requested(b).tab.fence = t.fence /\ AsksOnce(b, Requested(b))
    BY <2>4, RequestedAsks
  <2>6. QED BY <1>1, <2>2, <2>3, <2>4, <2>5 DEF Same, Alike, AsksOnce
<1>2. CASE c.tab.fence # None /\ n > c.tab.fence
  <2> DEFINE t == [c.tab EXCEPT !.fence = n]
             b == [c EXCEPT !.tab.fence = n]
  <2>1. b = [c EXCEPT !.tab = t]
    OBVIOUS
  <2>2. t \in Tabs /\ Same(c.tab, t) /\ t.asked = c.tab.asked /\ t.fence = n
    BY DEF IsClient, Tabs, Same, Alike, Numbers
  <2>3. HeardDetail(c, n) = Queued(b, n)
    BY <1>2 DEF HeardDetail
  <2> HIDE DEF t, b
  <2>4. IsClient(b) /\ b.tab = t /\ b.requests = c.requests
    BY <2>1, <2>2, WithTab
  <2>5. n # None
    BY DEF None
  <2>6. QED BY <1>2, <2>2, <2>3, <2>4, <2>5, QueuedKeeps DEF Same, Alike, AsksOnce
<1>3. CASE c.tab.fence # None /\ ~(n > c.tab.fence)
  <2>1. HeardDetail(c, n) = c
    BY <1>3 DEF HeardDetail
  <2>2. QED BY <1>3, <2>1 DEF Same, Alike, AsksOnce
<1>4. QED BY <1>1, <1>2, <1>3

\* A non-empty set of numbers has a least element: the order of the naturals
\* is well-founded.
LEMMA LeastNumber == ASSUME NEW T, T \subseteq Nat, T # {}
  PROVE \E x \in T : \A y \in T : x <= y
<1> DEFINE R == {ss \in Nat \X Nat : ss[1] < ss[2]}
<1>1. IsWellFoundedOn(R, Nat)
  BY NatLessThanWellFounded DEF OpToRel
<1>2. \E x \in T : \A y \in T : ~ (<<y, x>> \in R)
  BY <1>1, WFMin
<1>3. ASSUME NEW x \in T, NEW y \in T, <<y, x>> \notin R
      PROVE  x <= y
  BY <1>3
<1>4. QED BY <1>2, <1>3

\* Induction, with the set of the numbers the claim holds of.
LEMMA InductionOn == ASSUME NEW Q, 0 \in Q, \A n \in Nat : n \in Q => n + 1 \in Q
  PROVE Nat \subseteq Q
<1> SUFFICES ASSUME Nat \ Q # {} PROVE FALSE
  OBVIOUS
<1>1. PICK x \in Nat \ Q : \A y \in Nat \ Q : x <= y
  BY LeastNumber
<1>2. x # 0 /\ x - 1 \in Nat /\ x - 1 \in Q
  BY <1>1
<1>3. QED BY <1>2

\* h is what the recursion in HeardDetails defines, up to n events.
HeardUpTo(h, c, events, n) ==
  h = [i \in 0..n |-> IF i = 0 THEN c ELSE HeardDetail(h[i - 1], events[i])]

LEMMA HeardDetailsDef ==
  ASSUME NEW c, NEW events, Len(events) \in Nat
  PROVE  \E h : HeardUpTo(h, c, events, Len(events)) /\ HeardDetails(c, events) = h[Len(events)]
<1> DEFINE Q == {n \in Nat : \E h : HeardUpTo(h, c, events, n)}
<1>1. 0 \in Q
  <2>1. HeardUpTo([i \in 0..0 |-> c], c, events, 0)
    BY DEF HeardUpTo
  <2> QED BY <2>1
<1>2. ASSUME NEW n \in Nat, n \in Q PROVE n + 1 \in Q
  <2>1. PICK h : HeardUpTo(h, c, events, n)
    BY <1>2
  <2> DEFINE top == HeardDetail(h[n], events[n + 1])
             g == [i \in 0..(n + 1) |-> IF i = n + 1 THEN top ELSE h[i]]
  <2> HIDE DEF top
  <2>2. ASSUME NEW i \in 0..(n + 1)
        PROVE  g[i] = IF i = 0 THEN c ELSE HeardDetail(g[i - 1], events[i])
    <3>1. CASE i = n + 1
      <4>1. i # 0 /\ i - 1 = n /\ n \in 0..(n + 1) /\ g[n] = h[n] /\ g[i] = top
        BY <3>1
      <4>2. QED BY <3>1, <4>1 DEF top
    <3>2. CASE i # n + 1
      <4>1. i \in 0..n /\ g[i] = h[i]
        BY <3>2
      <4>2. i # 0 => i - 1 \in 0..(n + 1) /\ i - 1 # n + 1
        BY <3>2
      <4>3. i # 0 => g[i - 1] = h[i - 1]
        BY <4>2
      <4>4. h[i] = IF i = 0 THEN c ELSE HeardDetail(h[i - 1], events[i])
        BY <2>1, <4>1 DEF HeardUpTo
      <4>5. QED BY <4>1, <4>3, <4>4
    <3>3. QED BY <3>1, <3>2
  <2>3. HeardUpTo(g, c, events, n + 1)
    BY <2>2 DEF HeardUpTo
  <2>4. QED BY <2>3
<1>3. Nat \subseteq Q
  <2> HIDE DEF Q
  <2>1. QED BY <1>1, <1>2, InductionOn
<1>4. PICK h : HeardUpTo(h, c, events, Len(events))
  BY <1>3
<1>5. QED BY <1>4 DEF HeardUpTo, HeardDetails

\* What waited for a snapshot follows it without a request.
LEMMA HeardDetailsKeep ==
  ASSUME NEW c, IsClient(c), c.tab.fence # None, NEW events \in Seq(Nat)
  PROVE  LET d == HeardDetails(c, events)
         IN  /\ IsClient(d) /\ Same(c.tab, d.tab) /\ d.tab.fence # None
             /\ d.requests = c.requests /\ d.tab.asked = c.tab.asked
<1> DEFINE Kept(d) == /\ IsClient(d) /\ Same(c.tab, d.tab) /\ d.tab.fence # None
                      /\ d.requests = c.requests /\ d.tab.asked = c.tab.asked
<1>1. PICK h : HeardUpTo(h, c, events, Len(events)) /\ HeardDetails(c, events) = h[Len(events)]
  <2>1. Len(events) \in Nat
    OBVIOUS
  <2>2. QED BY <2>1, HeardDetailsDef
<1> DEFINE Q == {n \in Nat : n <= Len(events) => Kept(h[n])}
<1>2. 0 \in Q
  <2>1. h[0] = c
    BY <1>1 DEF HeardUpTo
  <2>2. Kept(c)
    BY DEF Same, Alike
  <2>3. QED BY <2>1, <2>2
<1>3. ASSUME NEW n \in Nat, n \in Q PROVE n + 1 \in Q
  <2> SUFFICES ASSUME n + 1 <= Len(events) PROVE Kept(h[n + 1])
    OBVIOUS
  <2>1. Kept(h[n])
    BY <1>3
  <2>2. n + 1 \in 0..Len(events) /\ n + 1 # 0 /\ (n + 1) - 1 = n /\ n + 1 \in DOMAIN events
    OBVIOUS
  <2>3. h[n + 1] = HeardDetail(h[n], events[n + 1])
    BY <1>1, <2>2 DEF HeardUpTo
  <2>4. events[n + 1] \in Nat
    BY <2>2
  <2>5. PICK d, e : d = h[n] /\ e = events[n + 1]
    OBVIOUS
  <2>6. PICK f : f = HeardDetail(d, e)
    OBVIOUS
  <2>7. IsClient(d) /\ e \in Nat /\ d.tab.fence # None
    BY <2>1, <2>4, <2>5
  <2>8. /\ IsClient(f) /\ Same(d.tab, f.tab) /\ f.tab.fence # None
        /\ f.requests = d.requests /\ f.tab.asked = d.tab.asked
    BY <2>6, <2>7, HeardDetailAsks
  <2>9. Same(c.tab, d.tab) /\ d.requests = c.requests /\ d.tab.asked = c.tab.asked
    BY <2>1, <2>5
  <2>10. Kept(f)
    BY <2>8, <2>9 DEF Same, Alike
  <2>11. QED BY <2>3, <2>5, <2>6, <2>10
<1>4. Nat \subseteq Q
  <2> HIDE DEF Q
  <2>1. QED BY <1>2, <1>3, InductionOn
<1>5. Len(events) \in Q
  <2> HIDE DEF Q
  <2>1. QED BY <1>4
<1>6. QED BY <1>1, <1>5

LEMMA HeardShellAsks ==
  ASSUME NEW c, IsClient(c), NEW n \in Nat
  PROVE  LET d == HeardShell(c, n)
         IN  /\ IsClient(d) /\ Alike(c.tab, d.tab) /\ d.tab.fence = c.tab.fence
             /\ AsksOnce(c, d) /\ Untouched(c, d)
             /\ c.tab.shell = None => d.tab.shell = None /\ d.tab.early = n
             /\ c.tab.shell # None /\ n > c.tab.shell =>
                  Urged(c, d) /\ d.tab.shell = n /\ d.tab.early = c.tab.early
             /\ c.tab.shell # None /\ ~(n > c.tab.shell) => d = c
<1>1. CASE c.tab.shell = None
  <2> DEFINE t == [c.tab EXCEPT !.early = n]
             b == [c EXCEPT !.tab.early = n]
  <2>1. b = [c EXCEPT !.tab = t]
    OBVIOUS
  <2>2. /\ t \in Tabs /\ Alike(c.tab, t) /\ t.asked = c.tab.asked /\ t.fence = c.tab.fence
        /\ t.shell = None /\ t.early = n /\ Stays(c.tab, t)
    BY <1>1 DEF IsClient, Tabs, Alike, Stays, Still
  <2> HIDE DEF t, b
  <2>3. IsClient(b) /\ b.tab = t /\ b.requests = c.requests /\ Untouched(c, b)
    BY <2>1, <2>2, WithTab DEF Untouched
  <2>4. HeardShell(c, n) = b
    BY <1>1 DEF HeardShell, b
  <2>5. QED BY <1>1, <2>2, <2>3, <2>4 DEF AsksOnce
<1>2. CASE c.tab.shell # None /\ n > c.tab.shell
  <2> DEFINE t == [c.tab EXCEPT !.shell = n]
             b == [c EXCEPT !.tab.shell = n]
  <2>1. b = [c EXCEPT !.tab = t]
    OBVIOUS
  <2>2. /\ t \in Tabs /\ Alike(c.tab, t) /\ t.asked = c.tab.asked /\ t.fence = c.tab.fence
        /\ t.shell = n /\ t.early = c.tab.early /\ Stays(c.tab, t)
    BY <1>2 DEF IsClient, Tabs, Alike, Numbers, Stays, Still
  <2> HIDE DEF t, b
  <2>3. IsClient(b) /\ b.tab = t /\ b.requests = c.requests /\ Untouched(c, b)
    BY <2>1, <2>2, WithTab DEF Untouched
  <2>4. HeardShell(c, n) = Requested(b)
    BY <1>2 DEF HeardShell, b
  <2>5. /\ IsClient(Requested(b)) /\ Same(t, Requested(b).tab)
        /\ Requested(b).tab.fence = t.fence /\ AsksOnce(b, Requested(b)) /\ Urged(b, Requested(b))
        /\ Untouched(b, Requested(b))
    BY <2>3, RequestedAsks
  <2>6. /\ Alike(c.tab, Requested(b).tab) /\ AsksOnce(c, Requested(b)) /\ Urged(c, Requested(b))
        /\ Untouched(c, Requested(b))
    <3>1. Alike(c.tab, Requested(b).tab) /\ AsksOnce(c, Requested(b)) /\ Urged(c, Requested(b))
      BY <2>2, <2>3, <2>5 DEF AsksOnce, Urged, Same, Alike
    <3>2. QED BY <2>3, <2>5, <3>1 DEF Untouched, Stays, Still
  <2>7. QED BY <1>2, <2>2, <2>4, <2>5, <2>6 DEF Same
<1>3. CASE c.tab.shell # None /\ ~(n > c.tab.shell)
  <2>1. HeardShell(c, n) = c
    BY <1>3 DEF HeardShell
  <2>2. QED BY <1>3, <2>1 DEF AsksOnce, Alike, Untouched, Stays, Still
<1>4. QED BY <1>1, <1>2, <1>3

\* An event: the client asks for a snapshot unless it has done so, and the
\* shell's rows get no further than the event.
EventHeard(p) ==
  /\ tab' \in Tabs /\ requests' \in Seq(Requests)
  /\ Alike(tab, tab') /\ (tab'.fence = None <=> tab.fence = None)
  /\ \/ requests' = requests /\ tab'.asked = tab.asked
     \/ /\ tab.subscribed /\ tab'.asked
        /\ requests' = Append(requests, Request("thread", "event", tab.epoch))
  /\ \/ tab'.shell = tab.shell /\ tab'.early = tab.early
     \/ p.shell /\ tab.shell = None /\ tab'.shell = None /\ tab'.early = p.event
     \/ p.shell /\ tab.shell # None /\ tab'.shell = p.event /\ tab'.early = tab.early
  /\ p.shell /\ tab.shell # None /\ p.event > tab.shell =>
       (tab.subscribed /\ tab.fence = None => tab'.asked)

LEMMA ClientTyped ==
  ASSUME Typed
  PROVE  /\ IsClient(Client) /\ Client.tab = tab /\ Client.requests = requests
         /\ Client.shown = shown /\ Client.ever = ever
BY DEF Typed, Client, IsClient

LEMMA HearEventDoes ==
  ASSUME Typed, NEW p \in Events, HearEvent(p)
  PROVE  EventHeard(p)
<1>1. PICK c : c = IF p.shell THEN HeardShell(Client, p.event) ELSE Client
  OBVIOUS
<1>2. PICK d : d = IF p.detail THEN HeardDetail(c, p.event) ELSE c
  OBVIOUS
<1>3. tab' = d.tab /\ requests' = d.requests
  BY <1>1, <1>2 DEF HearEvent, Becomes
<1>4. p.event \in Nat /\ p.shell \in BOOLEAN /\ p.detail \in BOOLEAN
  BY DEF Events
<1>5. PICK o : o = Client
  OBVIOUS
<1>6. IsClient(o) /\ o.tab = tab /\ o.requests = requests
  BY <1>5, ClientTyped
<1>7. /\ IsClient(c) /\ Alike(tab, c.tab) /\ c.tab.fence = tab.fence /\ AsksOnce(o, c)
      /\ ~p.shell => c = o
      /\ p.shell /\ tab.shell = None => c.tab.shell = None /\ c.tab.early = p.event
      /\ p.shell /\ tab.shell # None /\ p.event > tab.shell =>
           Urged(o, c) /\ c.tab.shell = p.event /\ c.tab.early = tab.early
      /\ p.shell /\ tab.shell # None /\ ~(p.event > tab.shell) => c = o
  <2>1. CASE p.shell
    <3>1. c = HeardShell(o, p.event)
      BY <1>1, <1>5, <2>1
    <3>2. QED BY <1>4, <1>6, <2>1, <3>1, HeardShellAsks
  <2>2. CASE ~p.shell
    <3>1. c = o
      BY <1>1, <1>5, <2>2
    <3>2. QED BY <1>6, <2>2, <3>1 DEF Alike, AsksOnce
  <2>3. QED BY <2>1, <2>2
<1>8. /\ IsClient(d) /\ Same(c.tab, d.tab) /\ (d.tab.fence = None <=> c.tab.fence = None)
      /\ AsksOnce(c, d)
  <2>1. CASE p.detail
    <3>1. d = HeardDetail(c, p.event)
      BY <1>2, <2>1
    <3>2. QED BY <1>4, <1>7, <3>1, HeardDetailAsks
  <2>2. CASE ~p.detail
    <3>1. d = c
      BY <1>2, <2>2
    <3>2. QED BY <1>7, <3>1 DEF Same, Alike, AsksOnce
  <2>3. QED BY <1>4, <2>1, <2>2
<1>9. d.tab \in Tabs /\ d.requests \in Seq(Requests)
  BY <1>8 DEF IsClient
<1>10. Alike(tab, d.tab) /\ (d.tab.fence = None <=> tab.fence = None)
       /\ d.tab.shell = c.tab.shell /\ d.tab.early = c.tab.early
  BY <1>7, <1>8 DEF Same, Alike
<1>11. AsksOnce(o, d) /\ (c.tab.asked => d.tab.asked)
  BY <1>6, <1>7, <1>8 DEF AsksOnce, Alike
<1>12. \/ d.requests = requests /\ d.tab.asked = tab.asked
       \/ /\ tab.subscribed /\ d.tab.asked
          /\ d.requests = Append(requests, Request("thread", "event", tab.epoch))
  BY <1>6, <1>11 DEF AsksOnce
<1>13. p.shell /\ tab.shell # None /\ p.event > tab.shell =>
         (tab.subscribed /\ tab.fence = None => d.tab.asked)
  BY <1>6, <1>7, <1>11 DEF Urged
<1>14. \/ c.tab.shell = tab.shell /\ c.tab.early = tab.early
       \/ p.shell /\ tab.shell = None /\ c.tab.shell = None /\ c.tab.early = p.event
       \/ p.shell /\ tab.shell # None /\ c.tab.shell = p.event /\ c.tab.early = tab.early
  BY <1>4, <1>6, <1>7
<1>15. QED BY <1>3, <1>9, <1>10, <1>12, <1>13, <1>14 DEF EventHeard

\* A request that is settled.
SettledBy(t, u, by) ==
  /\ u.wanted = t.wanted /\ u.subscribed = t.subscribed /\ u.epoch = t.epoch
  /\ u.fence = t.fence /\ u.shell = t.shell /\ u.early = t.early
  /\ u.chain = IF by = "ensure" THEN Append(t.chain, t.wanted) ELSE t.chain
  /\ u.awaiting <=> t.awaiting /\ by # "chain"
  /\ u.asked <=> t.asked /\ by # "event"

LEMMA SettledDoes ==
  ASSUME NEW c, IsClient(c), NEW by \in Whos
  PROVE  LET d == Settled(c, by)
         IN  /\ IsClient(d) /\ d.requests = c.requests /\ SettledBy(c.tab, d.tab, by)
             /\ Untouched(c, d)
<1>1. CASE by = "ensure"
  <2> DEFINE t == [c.tab EXCEPT !.ensuring = @ - 1, !.chain = Append(@, c.tab.wanted)]
             b == [c EXCEPT !.tab.ensuring = @ - 1, !.tab.chain = Append(@, c.tab.wanted)]
  <2>1. b = [c EXCEPT !.tab = t]
    OBVIOUS
  <2>2. t \in Tabs /\ SettledBy(c.tab, t, by) /\ Stays(c.tab, t)
    <3>1. c.tab \in Tabs /\ Append(c.tab.chain, c.tab.wanted) \in Seq(BOOLEAN)
      BY Appended DEF IsClient, Tabs
    <3>2. c.tab.ensuring - 1 \in Int
      BY <3>1 DEF Tabs
    <3>3. PICK chain, n : chain = Append(c.tab.chain, c.tab.wanted) /\ n = c.tab.ensuring - 1
      OBVIOUS
    <3>4. t = [c.tab EXCEPT !.ensuring = n, !.chain = chain]
      BY <3>3
    <3>5. t \in Tabs
      BY <3>1, <3>2, <3>3, <3>4 DEF Tabs
    <3>6. SettledBy(c.tab, t, by) /\ Stays(c.tab, t)
      BY <1>1, <3>1, <3>3, <3>4 DEF Tabs, SettledBy, Stays, Still
    <3>7. QED BY <3>5, <3>6
  <2>3. Settled(c, by) = b
    BY <1>1 DEF Settled, Ensured
  <2> HIDE DEF t, b
  <2>4. IsClient(b) /\ b.tab = t /\ b.requests = c.requests /\ Untouched(c, b)
    BY <2>1, <2>2, WithTab DEF Untouched
  <2>5. QED BY <2>2, <2>3, <2>4
<1>2. CASE by = "chain"
  <2> DEFINE t == [c.tab EXCEPT !.awaiting = FALSE]
             b == [c EXCEPT !.tab.awaiting = FALSE]
  <2>1. b = [c EXCEPT !.tab = t]
    OBVIOUS
  <2>2. t \in Tabs /\ SettledBy(c.tab, t, by) /\ Stays(c.tab, t)
    BY <1>2 DEF IsClient, Tabs, SettledBy, Stays, Still
  <2>3. Settled(c, by) = b
    BY <1>2 DEF Settled
  <2> HIDE DEF t, b
  <2>4. IsClient(b) /\ b.tab = t /\ b.requests = c.requests /\ Untouched(c, b)
    BY <2>1, <2>2, WithTab DEF Untouched
  <2>5. QED BY <2>2, <2>3, <2>4
<1>3. CASE by = "event"
  <2> DEFINE t == [c.tab EXCEPT !.asked = FALSE]
             b == [c EXCEPT !.tab.asked = FALSE]
  <2>1. b = [c EXCEPT !.tab = t]
    OBVIOUS
  <2>2. t \in Tabs /\ SettledBy(c.tab, t, by) /\ Stays(c.tab, t)
    BY <1>3 DEF IsClient, Tabs, SettledBy, Stays, Still
  <2>3. Settled(c, by) = b
    BY <1>3 DEF Settled
  <2> HIDE DEF t, b
  <2>4. IsClient(b) /\ b.tab = t /\ b.requests = c.requests /\ Untouched(c, b)
    BY <2>1, <2>2, WithTab DEF Untouched
  <2>5. QED BY <2>2, <2>3, <2>4
<1>4. QED BY <1>1, <1>2, <1>3 DEF Whos

LEMMA WithShown ==
  ASSUME NEW c, IsClient(c), NEW s
  PROVE  LET d == [c EXCEPT !.shown = s]
         IN  /\ IsClient(d) /\ d.tab = c.tab /\ d.requests = c.requests
             /\ d.shown = s /\ d.ever = c.ever
<1>1. PICK t0, s0, e0, r0 : /\ t0 \in Tabs /\ r0 \in Seq(Requests)
                           /\ c = [tab |-> t0, shown |-> s0, ever |-> e0, requests |-> r0]
  BY Parts
<1>2. [c EXCEPT !.shown = s] = [tab |-> t0, shown |-> s, ever |-> e0, requests |-> r0]
  BY <1>1
<1>3. QED BY <1>1, <1>2 DEF IsClient

LEMMA WithEver ==
  ASSUME NEW c, IsClient(c), NEW e
  PROVE  LET d == [c EXCEPT !.ever = e]
         IN  /\ IsClient(d) /\ d.tab = c.tab /\ d.requests = c.requests
             /\ d.shown = c.shown /\ d.ever = e
<1>1. PICK t0, s0, e0, r0 : /\ t0 \in Tabs /\ r0 \in Seq(Requests)
                           /\ c = [tab |-> t0, shown |-> s0, ever |-> e0, requests |-> r0]
  BY Parts
<1>2. [c EXCEPT !.ever = e] = [tab |-> t0, shown |-> s0, ever |-> e, requests |-> r0]
  BY <1>1
<1>3. QED BY <1>1, <1>2 DEF IsClient

\* A snapshot gives the client a fence, and what it has asked for is there.
LEMMA HeardSnapshotKeeps ==
  ASSUME NEW c, IsClient(c), NEW upTo \in Nat, NEW fence \in Nat
  PROVE  LET d == HeardSnapshot(c, upTo, fence)
         IN  /\ IsClient(d) /\ Same(c.tab, d.tab) /\ d.tab.fence # None
             /\ d.requests = c.requests /\ ~d.tab.asked
<1> DEFINE b == [c EXCEPT !.shown = Synced(@, Rows(upTo)), !.tab.asked = FALSE,
                          !.tab.fence = fence, !.tab.buffer = <<>>,
                          !.tab.rows = IF upTo > @ THEN upTo ELSE @]
           s == [c EXCEPT !.shown = Synced(c.shown, Rows(upTo))]
           t == [c.tab EXCEPT !.asked = FALSE, !.fence = fence, !.buffer = <<>>,
                              !.rows = IF upTo > @ THEN upTo ELSE @]
<1>1. b = [s EXCEPT !.tab = t]
  OBVIOUS
<1>2. t \in Tabs /\ Same(c.tab, t) /\ t.fence # None /\ ~t.asked
  <2>1. c.tab \in Tabs /\ <<>> \in Seq(Nat)
    BY DEF IsClient
  <2>2. PICK rows : rows = IF upTo > c.tab.rows THEN upTo ELSE c.tab.rows
    OBVIOUS
  <2>3. rows \in Nat
    BY <2>1, <2>2 DEF Tabs
  <2>4. t = [c.tab EXCEPT !.asked = FALSE, !.fence = fence, !.buffer = <<>>, !.rows = rows]
    BY <2>2
  <2>5. t \in Tabs
    BY <2>1, <2>3, <2>4 DEF Tabs, Numbers
  <2>6. Same(c.tab, t) /\ t.fence = fence /\ ~t.asked
    BY <2>1, <2>4 DEF Tabs, Same, Alike
  <2>7. QED BY <2>5, <2>6 DEF None
<1>3. HeardSnapshot(c, upTo, fence) = HeardDetails(b, c.tab.buffer)
  BY DEF HeardSnapshot
<1> HIDE DEF b, t
<1>4. IsClient(s) /\ s.requests = c.requests
  <2>1. PICK x : x = Synced(c.shown, Rows(upTo))
    OBVIOUS
  <2>2. QED BY <2>1, WithShown
<1> HIDE DEF s
<1>5. IsClient(b) /\ b.tab = t /\ b.requests = c.requests
  BY <1>1, <1>2, <1>4, WithTab
<1>6. c.tab.buffer \in Seq(Nat)
  BY DEF IsClient, Tabs
<1>7. PICK d : d = HeardDetails(b, c.tab.buffer)
  OBVIOUS
<1>8. /\ IsClient(d) /\ Same(b.tab, d.tab) /\ d.tab.fence # None
      /\ d.requests = b.requests /\ d.tab.asked = b.tab.asked
  BY <1>2, <1>5, <1>6, <1>7, HeardDetailsKeep
<1>9. QED BY <1>2, <1>3, <1>5, <1>7, <1>8 DEF Same, Alike

LEMMA HearSnapshotDoes ==
  ASSUME Typed, NEW p \in Answers, p.kind = "thread", p.upTo # 0, HearAnswer(p)
  PROVE  /\ tab' \in Tabs /\ requests' = requests
         /\ tab'.wanted = tab.wanted /\ tab'.chain = tab.chain /\ tab'.epoch = tab.epoch
         /\ tab'.subscribed = tab.subscribed
         /\ tab'.shell = tab.shell /\ tab'.early = tab.early
         /\ tab'.fence # None /\ ~tab'.asked
         /\ tab'.awaiting <=> tab.awaiting /\ p.by # "chain"
<1>1. /\ p.upTo \in Nat /\ p.fence \in Nat /\ p.by \in Whos /\ p.by # "ensure" /\ p.upTo > 0
  BY DEF Answers, Asking, Whos
<1>2. PICK o : o = Client
  OBVIOUS
<1>3. IsClient(o) /\ o.tab = tab /\ o.requests = requests
  BY <1>2, ClientTyped
<1>4. PICK c : c = HeardSnapshot(o, p.upTo, p.fence)
  OBVIOUS
<1>5. /\ IsClient(c) /\ Same(tab, c.tab) /\ c.tab.fence # None
      /\ c.requests = requests /\ ~c.tab.asked
  BY <1>1, <1>3, <1>4, HeardSnapshotKeeps
<1>6. PICK e : e = c.ever \cup Meeting(p)
  OBVIOUS
<1>7. PICK d : d = [c EXCEPT !.ever = e]
  OBVIOUS
<1>8. IsClient(d) /\ d.tab = c.tab /\ d.requests = requests
  BY <1>5, <1>7, WithEver
<1>9. d = [c EXCEPT !.ever = @ \cup Meeting(p)]
  BY <1>6, <1>7
<1>10. PICK f : f = Settled(d, p.by)
  OBVIOUS
<1>11. IsClient(f) /\ f.requests = requests /\ SettledBy(c.tab, f.tab, p.by)
  BY <1>1, <1>8, <1>10, SettledDoes
<1>12. Becomes(f)
  BY <1>1, <1>2, <1>4, <1>9, <1>10 DEF HearAnswer
<1>13. tab' = f.tab /\ requests' = requests /\ f.tab \in Tabs
  BY <1>11, <1>12 DEF Becomes, IsClient
<1>14. QED BY <1>1, <1>5, <1>11, <1>13 DEF Same, Alike, SettledBy

\* An answer without a snapshot of the thread.
LEMMA HearOtherDoes ==
  ASSUME Typed, NEW p \in Answers, p.kind = "thread" => p.upTo = 0, HearAnswer(p)
  PROVE  /\ tab' \in Tabs /\ requests' = requests
         /\ tab'.wanted = tab.wanted /\ tab'.subscribed = tab.subscribed
         /\ tab'.epoch = tab.epoch /\ tab'.fence = tab.fence
         /\ tab'.chain = IF p.by = "ensure" THEN Append(tab.chain, tab.wanted) ELSE tab.chain
         /\ tab'.awaiting <=> tab.awaiting /\ p.by # "chain"
         /\ tab'.asked <=> tab.asked /\ p.by # "event"
         /\ IF p.kind = "shell"
              THEN tab'.early = 0 /\ tab'.shell \in {tab.early, p.fence} /\ tab'.shell # None
                   /\ tab'.shell >= p.fence
              ELSE tab'.shell = tab.shell /\ tab'.early = tab.early
         /\ Stays(tab, tab') /\ UNCHANGED <<shown, ever, last>>
<1>1. p.upTo \in Nat /\ p.fence \in Nat /\ p.by \in Whos
  BY DEF Answers
<1>2. PICK o : o = Client
  OBVIOUS
<1>3. IsClient(o) /\ o.tab = tab /\ o.requests = requests /\ o.shown = shown /\ o.ever = ever
  BY <1>2, ClientTyped
<1>4. PICK c : c = IF p.kind = "shell" THEN HeardShellSnapshot(o, p.fence) ELSE o
  OBVIOUS
<1>5. /\ IsClient(c) /\ c.requests = requests /\ Alike(tab, c.tab)
      /\ c.tab.fence = tab.fence /\ c.tab.asked = tab.asked
      /\ IF p.kind = "shell"
           THEN c.tab.early = 0 /\ c.tab.shell \in {tab.early, p.fence} /\ c.tab.shell # None
                /\ c.tab.shell >= p.fence
           ELSE c.tab.shell = tab.shell /\ c.tab.early = tab.early
      /\ Untouched(o, c)
  <2>1. CASE p.kind = "shell"
    <3> DEFINE n == IF tab.early > p.fence THEN tab.early ELSE p.fence
               t == [tab EXCEPT !.shell = n, !.early = 0]
               b == [o EXCEPT !.tab.shell = IF o.tab.early > p.fence THEN o.tab.early ELSE p.fence,
                              !.tab.early = 0]
    <3>1. b = [o EXCEPT !.tab = [o.tab EXCEPT !.shell = IF o.tab.early > p.fence THEN o.tab.early
                                                       ELSE p.fence,
                                             !.early = 0]]
      OBVIOUS
    <3>2. b = [o EXCEPT !.tab = t]
      BY <1>3, <3>1
    <3>3. c = b
      BY <1>4, <2>1 DEF HeardShellSnapshot
    <3> HIDE DEF b
    <3>4. tab \in Tabs /\ tab.early \in Nat
      BY DEF Typed, Tabs
    <3>5. n \in Nat /\ n \in {tab.early, p.fence} /\ n >= p.fence /\ n # None
      BY <1>1, <3>4 DEF None
    <3> HIDE DEF n
    <3>6. /\ t \in Tabs /\ Alike(tab, t) /\ t.fence = tab.fence /\ t.asked = tab.asked
          /\ t.shell = n /\ t.early = 0 /\ Stays(tab, t)
      BY <3>4, <3>5 DEF Tabs, Alike, Numbers, Stays, Still
    <3> HIDE DEF t
    <3>7. IsClient(b) /\ b.tab = t /\ b.requests = o.requests /\ Untouched(o, b)
      BY <1>3, <3>2, <3>6, WithTab DEF Untouched
    <3>8. QED BY <1>3, <2>1, <3>3, <3>5, <3>6, <3>7
  <2>2. CASE p.kind # "shell"
    <3>1. c = o
      BY <1>4, <2>2
    <3>2. QED BY <1>3, <2>2, <3>1 DEF Alike, Untouched, Stays, Still
  <2>3. QED BY <2>1, <2>2
<1>6. PICK f : f = Settled(c, p.by)
  OBVIOUS
<1>7. /\ IsClient(f) /\ f.requests = requests /\ SettledBy(c.tab, f.tab, p.by)
      /\ Untouched(c, f)
  BY <1>1, <1>5, <1>6, SettledDoes
<1>8. Becomes(f) /\ UNCHANGED last
  BY <1>1, <1>2, <1>4, <1>6 DEF HearAnswer
<1>9. tab' = f.tab /\ requests' = requests /\ f.tab \in Tabs
  BY <1>7, <1>8 DEF Becomes, IsClient
<1>10. Stays(tab, tab') /\ UNCHANGED <<shown, ever, last>>
  BY <1>3, <1>5, <1>7, <1>8 DEF Becomes, Untouched, Stays, Still
<1>11. QED BY <1>5, <1>7, <1>9, <1>10 DEF SettledBy, Alike

-----------------------------------------------------------------------------
(* The steps of the server                                                 *)

LEMMA RequestFacts ==
  ASSUME NEW r \in Requests
  PROVE  /\ r.asks \in Whats /\ r.by \in Whos /\ r.epoch \in Nat /\ Asking(r.asks, r.by)
         /\ r.by = "event" => r.asks = "thread"
BY DEF Requests, Asking

LEMMA PushFacts ==
  ASSUME NEW p \in Pushes
  PROVE  /\ p.kind \in Whats => p \in Answers /\ p.upTo \in Nat /\ p.fence \in Nat
                                /\ p.by \in Whos /\ Asking(p.kind, p.by)
         /\ p.kind = "event" => p \in Events
         /\ p.kind \in Whats \cup {"event", "welcome"}
BY DEF Pushes, Answers, Events, Welcomes, Whats

LEMMA ServiceFacts ==
  ASSUME NEW r \in Services
  PROVE  /\ r.kind = "thread" /\ r.by \in {"chain", "event"} /\ r.epoch \in Nat
         /\ r.upTo # None => r \in Answers /\ r.upTo \in Nat
BY DEF Services, Answers, Asking, Whats, Numbers, None

\* Elements of the sequences.
LEMMA Elements ==
  ASSUME Typed
  PROVE  /\ \A r \in ToSet(requests) : r \in Requests
         /\ \A r \in ToSet(serving) : r \in Services
         /\ \A p \in ToSet(pushes) : p \in Pushes
BY DEF Typed, ToSet

\* Only the log grows.
LEMMA CommitKeeps ==
  ASSUME IInv, NEW e \in Letters \cup {"created", "end", "act"}, Commit(e)
  PROVE  IInv'
<1>1. /\ UNCHANGED <<cursor, published, subs, serving, pushes, requests, online, tab>>
      /\ log' = Append(log, e)
  BY DEF Commit
<1>2. /\ log' \in Seq(Letters \cup {"created", "end", "act"}) /\ log' # <<>>
      /\ Len(log') = Len(log) + 1 /\ Len(log) \in Nat
  <2>1. PICK S : S = Letters \cup {"created", "end", "act"}
    OBVIOUS
  <2>2. log \in Seq(S) /\ e \in S
    BY <2>1 DEF IInv, Typed
  <2>3. QED BY <1>1, <2>1, <2>2, Appended
<1>3. Typed'
  BY <1>1, <1>2 DEF IInv, Typed
<1>4. Told'
  <2>1. tab.shell \in Int /\ \A p \in ToSet(pushes) : p.kind = "shell" => p.fence \in Nat
    <3>1. Typed
      BY DEF IInv
    <3>2. tab.shell \in Int
      BY <3>1 DEF Typed, Tabs, Numbers, None
    <3>3. "shell" \in Whats
      BY DEF Whats
    <3>4. \A p \in ToSet(pushes) : p.kind = "shell" => p.fence \in Nat
      BY <3>1, <3>3, Elements, PushFacts
    <3>5. QED BY <3>2, <3>4
  <2>2. tab.shell <= Len(log')
    BY <1>2, <2>1 DEF IInv, Told
  <2>3. \A p \in ToSet(pushes) : p.kind = "shell" => p.fence <= Len(log')
    BY <1>2, <2>1 DEF IInv, Told
  <2>4. QED BY <1>1, <2>2, <2>3 DEF IInv, Told
<1>5. Informed'
  BY <1>1, <1>2 DEF IInv, Informed
<1>6. Awaits' /\ Wants' /\ Subscribes' /\ ShellSubscribes' /\ Fenced'
  BY <1>1 DEF IInv, Awaits, Wants, Subscribes, ShellSubscribes, Fenced, Greeted, Asked,
              Outstanding, Coming, Unborn, Creates
<1>7. QED BY <1>3, <1>4, <1>5, <1>6 DEF IInv

\* The creation is pushed to whoever has the shell.
LEMMA PublishKeeps ==
  ASSUME IInv, Publish
  PROVE  IInv'
<1> DEFINE p == [kind |-> "event", event |-> published', shell |-> subs.shell,
                 detail |-> subs.thread /\ log[published'] # "created"]
<1>1. /\ UNCHANGED <<log, cursor, subs, serving, requests, online, tab>>
      /\ published' = published + 1 /\ published < Len(log)
      /\ \/ pushes' = pushes /\ ~(online /\ subs.shell)
         \/ pushes' = Append(pushes, p) /\ online
  BY DEF Publish
<1>2. /\ pushes \in Seq(Pushes) /\ published \in Nat /\ Len(log) \in Nat
      /\ tab \in Tabs /\ subs.shell \in BOOLEAN
  BY DEF IInv, Typed
<1>3. p \in Pushes /\ p.kind = "event" /\ p.event = published' /\ p.shell = subs.shell
  <2>1. published' \in Nat /\ (subs.thread /\ log[published'] # "created") \in BOOLEAN
    BY <1>1, <1>2 DEF IInv, Typed
  <2>2. QED BY <1>2, <2>1 DEF Pushes, Events
<1> HIDE DEF p
<1>4. CASE pushes' = pushes /\ ~(online /\ subs.shell)
  <2>1. Typed'
    BY <1>1, <1>2, <1>4 DEF IInv, Typed
  <2>2. Told'
    BY <1>1, <1>2, <1>4 DEF IInv, Told, Tabs
  <2>3. Fenced'
    <3>1. ~Unborn \/ ~Greeted
      BY <1>4 DEF Unborn, Greeted
    <3>2. QED BY <1>1, <1>4, <3>1 DEF IInv, Fenced, Greeted, Coming, Asked
  <2>4. Awaits' /\ Informed' /\ Wants' /\ Subscribes' /\ ShellSubscribes'
    BY <1>1, <1>4 DEF IInv, Awaits, Informed, Wants, Subscribes, ShellSubscribes, Greeted, Asked,
                      Outstanding
  <2>5. QED BY <2>1, <2>2, <2>3, <2>4 DEF IInv
<1>5. CASE pushes' = Append(pushes, p) /\ online
  <2>1. /\ pushes' \in Seq(Pushes) /\ Len(pushes') = Len(pushes) + 1 /\ Len(pushes) \in Nat
        /\ DOMAIN pushes' = 1..(Len(pushes) + 1) /\ DOMAIN pushes = 1..Len(pushes)
        /\ \A i \in 1..Len(pushes) : pushes'[i] = pushes[i]
        /\ pushes'[Len(pushes) + 1] = p
    BY <1>2, <1>3, <1>5, Appended
  <2>2. ToSet(pushes') = ToSet(pushes) \cup {p}
    BY <1>2, <1>3, <1>5, AppendedSet
  <2>3. Typed'
    BY <1>1, <1>2, <2>1 DEF IInv, Typed
  <2>4. Told'
    <3>1. \A i \in DOMAIN pushes' : pushes'[i].kind = "welcome" => i = 1
      BY <1>3, <2>1 DEF IInv, Told
    <3>2. \A q \in ToSet(pushes') :
            /\ q.kind = "event" => q.event \in 1..published'
            /\ q.kind = "shell" => q.fence <= Len(log)
      BY <1>1, <1>2, <1>3, <2>2 DEF IInv, Told
    <3>3. tab.shell <= Len(log) /\ tab.early <= published'
      BY <1>1, <1>2 DEF IInv, Told, Tabs
    <3>4. QED BY <1>1, <1>5, <3>1, <3>2, <3>3 DEF Told
  <2>5. Greeted' <=> Greeted
    BY <1>1, <1>3, <2>2 DEF Greeted
  <2>6. /\ \A asks : Asked(asks)' <=> Asked(asks)
        /\ \A by : Outstanding(by) => Outstanding(by)'
    BY <1>1, <2>2 DEF Asked, Outstanding
  <2>7. Awaits' /\ Wants'
    BY <1>1, <2>5, <2>6 DEF IInv, Awaits, Wants
  <2>8. Informed'
    BY <1>1, <1>3, <2>2 DEF IInv, Informed
  <2>9. Subscribes' /\ ShellSubscribes'
    BY <1>1, <2>2, <2>5, <2>6 DEF IInv, Subscribes, ShellSubscribes
  <2>10. Coming => Coming'
    BY <1>1, <2>2, <2>6 DEF Coming
  <2>11. Unborn => Unborn'
    <3> SUFFICES ASSUME Unborn PROVE Unborn'
      OBVIOUS
    <3>1. \E i \in DOMAIN pushes' : Creates(i)'
      <4>1. CASE published = 0
        <5>1. \A j \in DOMAIN pushes : pushes[j].kind # "event"
          BY <4>1 DEF IInv, Told, ToSet
        <5>2. PICK n : n = Len(pushes) + 1
          OBVIOUS
        <5>3. pushes'[n] = p /\ p.event = 1 /\ p.shell /\ n \in DOMAIN pushes'
          BY <1>1, <1>3, <2>1, <4>1, <5>2 DEF Unborn
        <5>4. \A j \in DOMAIN pushes' : j # n => pushes'[j].kind # "event" /\ j < n
          BY <2>1, <5>1, <5>2
        <5>5. Creates(n)'
          BY <1>3, <2>1, <5>2, <5>3, <5>4 DEF Creates
        <5>6. QED BY <5>3, <5>5
      <4>2. CASE published # 0
        <5>1. PICK i \in DOMAIN pushes : Creates(i)
          BY <4>2 DEF Unborn
        <5>2. Creates(i)'
          BY <1>3, <2>1, <5>1 DEF Creates
        <5>3. QED BY <2>1, <5>2
      <4>3. QED BY <4>1, <4>2
    <3>2. \A q \in ToSet(pushes') : q.kind = "shell" => q.fence = 0
      BY <1>3, <2>2 DEF Unborn
    <3>3. QED BY <1>1, <2>6, <3>1, <3>2 DEF Unborn
  <2>12. Fenced'
    BY <1>1, <2>5, <2>10, <2>11 DEF IInv, Fenced
  <2>13. QED BY <2>3, <2>4, <2>7, <2>8, <2>9, <2>12 DEF IInv
<1>6. QED BY <1>1, <1>4, <1>5

\* What is served moves from the requests to the server or to the pushes.
LEMMA ServeKeeps ==
  ASSUME IInv, Serve
  PROVE  IInv'
<1> DEFINE r == Head(requests)
<1>1. /\ UNCHANGED <<log, published, online, tab>> /\ online /\ requests # <<>>
      /\ requests' = Tail(requests)
  BY DEF Serve
<1>2. /\ requests \in Seq(Requests) /\ serving \in Seq(Services) /\ pushes \in Seq(Pushes)
      /\ Len(log) \in Nat /\ subs \in [shell : BOOLEAN, thread : BOOLEAN] /\ tab \in Tabs
      /\ cursor \in 0..Len(log)
  BY DEF IInv, Typed
<1>3. /\ requests' \in Seq(Requests) /\ r \in Requests /\ r = requests[1]
      /\ DOMAIN requests = 1..Len(requests) /\ Len(requests) \in Nat \ {0}
      /\ DOMAIN requests' = 1..(Len(requests) - 1)
      /\ \A i \in 1..(Len(requests) - 1) : requests'[i] = requests[i + 1]
  BY <1>1, <1>2, Rest
<1>4. /\ ToSet(requests') \subseteq ToSet(requests) /\ r \in ToSet(requests)
      /\ \A x \in ToSet(requests) : x = r \/ x \in ToSet(requests')
  BY <1>1, <1>2, RestSet
<1>5. r.asks \in Whats /\ r.by \in Whos /\ r.epoch \in Nat /\ Asking(r.asks, r.by)
  BY <1>3, RequestFacts
<1> HIDE DEF r
<1>6. \/ /\ r.asks = "leave" /\ subs' = [subs EXCEPT !.thread = FALSE]
         /\ pushes' = Append(pushes, Answer(r, 0, 0)) /\ UNCHANGED <<cursor, serving>>
      \/ /\ r.asks = "shell" /\ subs' = [subs EXCEPT !.shell = TRUE] /\ cursor' \in Cursors
         /\ pushes' = Append(pushes, Answer(r, Len(log), cursor')) /\ UNCHANGED serving
      \/ /\ r.asks = "thread" /\ subs' = [subs EXCEPT !.thread = TRUE]
         /\ serving' = Append(serving, Answer(r, None, None)) /\ UNCHANGED <<cursor, pushes>>
  BY <1>5 DEF Serve, Whats, r
\* What remains is in the order it was.
<1>7. ASSUME Greeted, tab.subscribed
      PROVE  /\ r.asks # "thread" => Asked("thread")'
             /\ \A i \in DOMAIN requests' :
                  requests'[i].asks # "thread" =>
                    \E j \in DOMAIN requests' : j > i /\ requests'[j].asks = "thread"
  <2>1. ASSUME NEW i \in 1..Len(requests), requests[i].asks # "thread"
        PROVE  \E j \in DOMAIN requests' : j > i - 1 /\ requests'[j].asks = "thread"
    <3>1. PICK k \in 1..Len(requests) : k > i /\ requests[k].asks = "thread"
      BY <1>3, <1>7, <2>1 DEF IInv, Subscribes
    <3>2. k - 1 \in 1..(Len(requests) - 1) /\ (k - 1) + 1 = k /\ k - 1 > i - 1
      BY <1>3, <3>1
    <3>3. requests'[k - 1].asks = "thread" /\ k - 1 \in DOMAIN requests'
      BY <1>3, <3>1, <3>2
    <3>4. QED BY <3>2, <3>3
  <2>2. ASSUME r.asks # "thread"
        PROVE  Asked("thread")'
    <3>1. 1 \in 1..Len(requests) /\ requests[1].asks # "thread"
      BY <1>3, <2>2
    <3>2. \E j \in DOMAIN requests' : requests'[j].asks = "thread"
      BY <2>1, <3>1
    <3>3. QED BY <3>2 DEF Asked, ToSet
  <2>3. ASSUME NEW i \in DOMAIN requests', requests'[i].asks # "thread"
        PROVE  \E j \in DOMAIN requests' : j > i /\ requests'[j].asks = "thread"
    <3>1. i + 1 \in 1..Len(requests) /\ requests[i + 1].asks # "thread" /\ (i + 1) - 1 = i
      BY <1>3, <2>3
    <3>2. QED BY <2>1, <3>1
  <2>4. QED BY <2>2, <2>3
<1>8. CASE r.asks = "thread"
  <2> DEFINE s == Answer(r, None, None)
  <2>1. /\ subs' = [subs EXCEPT !.thread = TRUE] /\ serving' = Append(serving, s)
        /\ UNCHANGED <<cursor, pushes>>
    BY <1>6, <1>8
  <2>2. s \in Services /\ s.by = r.by /\ s.upTo = None
    BY <1>5, <1>8 DEF Answer, Services, Numbers, Asking
  <2> HIDE DEF s
  <2>3. serving' \in Seq(Services) /\ ToSet(serving') = ToSet(serving) \cup {s}
    BY <1>2, <2>1, <2>2, Appended, AppendedSet
  <2>4. subs' \in [shell : BOOLEAN, thread : BOOLEAN] /\ subs'.shell = subs.shell /\ subs'.thread
    BY <1>2, <2>1
  <2>5. Typed'
    BY <1>1, <1>3, <2>1, <2>3, <2>4 DEF IInv, Typed
  <2>6. Told'
    BY <1>1, <2>1 DEF IInv, Told
  <2>7. /\ Greeted' <=> Greeted
        /\ \A by : Outstanding(by) => Outstanding(by)'
    BY <1>1, <1>4, <2>1, <2>2, <2>3 DEF Greeted, Outstanding
  <2>8. Awaits' /\ Wants'
    BY <1>1, <2>7 DEF IInv, Awaits, Wants
  <2>9. Informed'
    <3>1. s.by = "event" => log # <<>>
      BY <1>4, <2>2 DEF IInv, Informed
    <3>2. s.upTo # 0
      BY <2>2 DEF None
    <3>3. QED BY <1>1, <1>4, <2>1, <2>3, <3>1, <3>2 DEF IInv, Informed
  <2>10. Subscribes'
    BY <1>1, <1>7, <2>4, <2>7 DEF Subscribes
  <2>11. ShellSubscribes'
    BY <1>1, <1>4, <1>8, <2>1, <2>4, <2>7 DEF IInv, ShellSubscribes, Asked
  <2>12. Coming'
    BY <2>2, <2>3 DEF Coming, None
  <2>13. QED BY <2>5, <2>6, <2>8, <2>9, <2>10, <2>11, <2>12 DEF IInv, Fenced
<1>9. CASE r.asks # "thread"
  <2>1. PICK n \in Nat, m \in 0..Len(log) :
          /\ pushes' = Append(pushes, Answer(r, n, m)) /\ cursor' \in 0..Len(log)
          /\ UNCHANGED serving
          /\ \/ r.asks = "shell" /\ subs' = [subs EXCEPT !.shell = TRUE]
             \/ r.asks = "leave" /\ subs' = [subs EXCEPT !.thread = FALSE]
    <3>1. CASE r.asks = "leave"
      <4>1. /\ pushes' = Append(pushes, Answer(r, 0, 0)) /\ UNCHANGED <<cursor, serving>>
            /\ subs' = [subs EXCEPT !.thread = FALSE]
        BY <1>6, <3>1
      <4>2. 0 \in Nat /\ 0 \in 0..Len(log) /\ cursor' \in 0..Len(log)
        BY <1>2, <4>1
      <4>3. QED BY <3>1, <4>1, <4>2
    <3>2. CASE r.asks = "shell"
      <4>1. cursor' \in 0..Len(log)
        BY <1>2, <1>6, <3>2 DEF Cursors
      <4>2. QED BY <1>2, <1>6, <3>2, <4>1
    <3>3. QED BY <1>5, <1>9, <3>1, <3>2 DEF Whats
  <2> DEFINE p == Answer(r, n, m)
  <2>2. /\ p \in Pushes /\ p.kind = r.asks /\ p.by = r.by /\ p.kind \in Whats /\ p.fence = m
    BY <1>2, <1>5, <2>1 DEF Answer, Pushes, Answers
  <2>3. pushes' = Append(pushes, p)
    BY <2>1
  <2> HIDE DEF p
  <2>4. /\ pushes' \in Seq(Pushes) /\ DOMAIN pushes' = 1..(Len(pushes) + 1)
        /\ DOMAIN pushes = 1..Len(pushes)
        /\ \A i \in 1..Len(pushes) : pushes'[i] = pushes[i]
        /\ pushes'[Len(pushes) + 1] = p /\ Len(pushes) \in Nat
        /\ ToSet(pushes') = ToSet(pushes) \cup {p}
    BY <1>2, <2>2, <2>3, Appended, AppendedSet
  <2>5. /\ subs' \in [shell : BOOLEAN, thread : BOOLEAN]
        /\ subs'.shell \/ (r.asks # "shell" /\ subs'.shell = subs.shell)
    <3>1. CASE r.asks = "shell" /\ subs' = [subs EXCEPT !.shell = TRUE]
      <4>1. subs' \in [shell : BOOLEAN, thread : BOOLEAN] /\ subs'.shell
        BY ONLY <1>2, <3>1
      <4>2. QED BY <4>1
    <3>2. CASE r.asks = "leave" /\ subs' = [subs EXCEPT !.thread = FALSE]
      <4>1. subs' \in [shell : BOOLEAN, thread : BOOLEAN] /\ subs'.shell = subs.shell
        BY ONLY <1>2, <3>2
      <4>2. QED BY <3>2, <4>1
    <3>3. QED BY <2>1, <3>1, <3>2
  <2>6. Typed'
    BY <1>1, <1>3, <2>1, <2>4, <2>5 DEF IInv, Typed
  <2>7. p.kind \notin {"event", "welcome"}
    BY <2>2 DEF Whats
  <2>8. Told'
    <3>1. \A i \in DOMAIN pushes' : pushes'[i].kind = "welcome" => i = 1
      BY <2>4, <2>7 DEF IInv, Told
    <3>2. m <= Len(log)
      BY <1>2
    <3>3. \A q \in ToSet(pushes') :
            /\ q.kind = "event" => q.event \in 1..published
            /\ q.kind = "shell" => q.fence <= Len(log)
      BY <2>2, <2>4, <2>7, <3>2 DEF IInv, Told
    <3>4. QED BY <1>1, <3>1, <3>3 DEF IInv, Told
  <2>9. /\ Greeted' <=> Greeted
        /\ \A by : Outstanding(by) => Outstanding(by)'
    <3>1. Greeted' <=> Greeted
      BY <1>1, <2>4, <2>7 DEF Greeted
    <3>2. ASSUME NEW by, Outstanding(by)
          PROVE  Outstanding(by)'
      BY <1>4, <2>1, <2>2, <2>4, <3>2 DEF Outstanding
    <3>3. QED BY <3>1, <3>2
  <2>10. Awaits' /\ Wants'
    BY <1>1, <2>9 DEF IInv, Awaits, Wants
  <2>11. Informed'
    BY <1>1, <1>4, <1>9, <2>1, <2>2, <2>4 DEF IInv, Informed
  <2>12. Subscribes'
    BY <1>1, <1>7, <1>9, <2>9 DEF Subscribes
  <2>13. ShellSubscribes'
    BY <1>1, <1>4, <2>2, <2>4, <2>5, <2>9 DEF IInv, ShellSubscribes, Asked
  <2>14. Fenced'
    BY <1>1, <1>7, <1>9, <2>9 DEF Fenced, Coming
  <2>15. QED BY <2>6, <2>8, <2>10, <2>11, <2>12, <2>13, <2>14 DEF IInv
<1>10. QED BY <1>8, <1>9

\* A thread that is not there when it is read has not been published yet.
LEMMA ReadSnapshotKeeps ==
  ASSUME IInv, NEW i \in DOMAIN serving, ReadSnapshot(i)
  PROVE  IInv'
<1> DEFINE s == [serving[i] EXCEPT !.upTo = Len(log), !.fence = cursor']
<1>1. /\ UNCHANGED <<log, published, subs, pushes, requests, online, tab>>
      /\ serving[i].upTo = None /\ cursor' \in 0..Len(log)
      /\ serving' = [serving EXCEPT ![i] = s]
  <2>1. serving' = [serving EXCEPT ![i].upTo = Len(log), ![i].fence = cursor']
    BY DEF ReadSnapshot
  <2>2. [serving EXCEPT ![i].upTo = Len(log), ![i].fence = cursor'] = [serving EXCEPT ![i] = s]
    OBVIOUS
  <2>3. cursor' \in 0..Len(log)
    BY DEF ReadSnapshot, Cursors, IInv, Typed
  <2>4. QED BY <2>1, <2>2, <2>3 DEF ReadSnapshot
<1>2. serving \in Seq(Services) /\ serving[i] \in Services /\ Len(log) \in Nat
  BY DEF IInv, Typed
<1>3. s \in Services /\ s.by = serving[i].by /\ s.upTo = Len(log)
  <2>1. PICK n, m : n = Len(log) /\ m = cursor'
    OBVIOUS
  <2>2. n \in Nat /\ m \in Nat /\ s = [serving[i] EXCEPT !.upTo = n, !.fence = m]
    BY <1>1, <1>2, <2>1
  <2>3. m # None /\ n # None
    BY <2>2 DEF None
  <2> HIDE DEF s
  <2>4. s \in Services /\ s.by = serving[i].by /\ s.upTo = n
    BY <1>2, <2>2, <2>3 DEF Services, Numbers
  <2>5. QED BY <2>1, <2>4
<1> HIDE DEF s
<1>4. /\ serving' \in Seq(Services) /\ DOMAIN serving' = DOMAIN serving /\ serving'[i] = s
      /\ \A j \in DOMAIN serving : j # i => serving'[j] = serving[j]
  BY <1>1, <1>2, <1>3
<1>5. /\ ToSet(serving') \subseteq ToSet(serving) \cup {s} /\ s \in ToSet(serving')
      /\ \A x \in ToSet(serving) : x = serving[i] \/ x \in ToSet(serving')
      /\ serving[i] \in ToSet(serving)
  BY <1>4 DEF ToSet
<1>6. Typed'
  BY <1>1, <1>4 DEF IInv, Typed
<1>7. Told'
  BY <1>1, <1>2, <1>4 DEF IInv, Told
<1>8. (Greeted' <=> Greeted) /\ \A by : Outstanding(by) => Outstanding(by)'
  BY <1>1, <1>3, <1>5 DEF Greeted, Outstanding
<1>9. Awaits' /\ Wants' /\ Subscribes' /\ ShellSubscribes'
  BY <1>1, <1>8 DEF IInv, Awaits, Wants, Subscribes, ShellSubscribes, Asked
<1>10. Informed'
  <2>1. s.by = "event" => log # <<>> /\ s.upTo # 0
    <3>1. serving[i].by = "event" => log # <<>>
      BY <1>5 DEF IInv, Informed
    <3>2. log # <<>> => Len(log) # 0
      BY DEF IInv, Typed
    <3>3. QED BY <1>3, <3>1, <3>2
  <2>2. QED BY <1>1, <1>5, <2>1 DEF IInv, Informed
<1>11. Fenced'
  <2> SUFFICES ASSUME Greeted, tab.subscribed, tab.fence = None, ~(Coming')
               PROVE  Unborn'
    BY <1>1, <1>8 DEF Fenced
  <2>1. Len(log) = 0
    BY <1>3, <1>5 DEF Coming
  <2>2. ~Asked("thread")
    BY <1>1 DEF Coming, Asked
  <2>3. ~Asked("shell") /\ subs.shell
    BY <2>2 DEF IInv, Subscribes, ShellSubscribes, Asked, ToSet
  <2>4. published = 0
    BY <2>1 DEF IInv, Typed
  <2>5. tab.shell \in {0, None} /\ tab.early = 0
    <3>1. tab.shell \in Nat \cup {None} /\ tab.early \in Nat
      BY DEF IInv, Typed, Tabs, Numbers
    <3>2. QED BY <2>1, <2>4, <3>1 DEF IInv, Told
  <2>6. \A p \in ToSet(pushes) : p.kind = "shell" => p.fence = 0
    <3>1. \A p \in ToSet(pushes) : p.kind = "shell" => p.fence \in Nat
      BY Elements, PushFacts DEF IInv, Whats
    <3>2. QED BY <2>1, <3>1 DEF IInv, Told
  <2>7. QED BY <1>1, <2>3, <2>4, <2>5, <2>6 DEF Unborn, Asked
<1>12. QED BY <1>6, <1>7, <1>9, <1>10, <1>11 DEF IInv

LEMMA PushSnapshotKeeps ==
  ASSUME IInv, NEW i \in DOMAIN serving, PushSnapshot(i)
  PROVE  IInv'
<1> DEFINE s == serving[i]
<1>1. /\ UNCHANGED <<log, cursor, published, subs, requests, online, tab>>
      /\ s.upTo # None /\ pushes' = Append(pushes, s) /\ serving' = RemoveAt(serving, i)
  BY DEF PushSnapshot, server
<1>2. serving \in Seq(Services) /\ pushes \in Seq(Pushes)
  BY DEF IInv, Typed
<1>3. /\ serving' \in Seq(Services)
      /\ ToSet(serving') \subseteq ToSet(serving) /\ s \in ToSet(serving) /\ s \in Services
      /\ \A x \in ToSet(serving) : x = s \/ x \in ToSet(serving')
  BY <1>1, <1>2, Removed
<1>4. s \in Pushes /\ s.kind = "thread" /\ s.kind \in Whats
  BY <1>1, <1>3, ServiceFacts DEF Pushes, Whats
<1>5. serving # <<>>
  BY <1>2
<1> HIDE DEF s
<1>6. /\ pushes' \in Seq(Pushes) /\ DOMAIN pushes' = 1..(Len(pushes) + 1)
      /\ DOMAIN pushes = 1..Len(pushes) /\ Len(pushes) \in Nat
      /\ \A j \in 1..Len(pushes) : pushes'[j] = pushes[j]
      /\ pushes'[Len(pushes) + 1] = s /\ ToSet(pushes') = ToSet(pushes) \cup {s}
  BY <1>1, <1>2, <1>4, Appended, AppendedSet
<1>7. Typed'
  BY <1>1, <1>3, <1>6 DEF IInv, Typed
<1>8. Told'
  <2>1. \A j \in DOMAIN pushes' : pushes'[j].kind = "welcome" => j = 1
    BY <1>4, <1>6 DEF IInv, Told
  <2>2. \A q \in ToSet(pushes') :
          /\ q.kind = "event" => q.event \in 1..published
          /\ q.kind = "shell" => q.fence <= Len(log)
    BY <1>4, <1>6 DEF IInv, Told
  <2>3. QED BY <1>1, <1>5, <2>1, <2>2 DEF IInv, Told
<1>9. (Greeted' <=> Greeted) /\ \A by : Outstanding(by) => Outstanding(by)'
  <2>1. Greeted' <=> Greeted
    BY <1>1, <1>4, <1>6 DEF Greeted
  <2>2. ASSUME NEW by, Outstanding(by)
        PROVE  Outstanding(by)'
    BY <1>1, <1>3, <1>4, <1>6, <2>2 DEF Outstanding
  <2>3. QED BY <2>1, <2>2
<1>10. Awaits' /\ Wants' /\ Subscribes'
  BY <1>1, <1>9 DEF IInv, Awaits, Wants, Subscribes, Asked
<1>11. ShellSubscribes'
  BY <1>1, <1>6, <1>9 DEF IInv, ShellSubscribes, Asked
<1>12. Informed'
  BY <1>1, <1>3, <1>6 DEF IInv, Informed
<1>13. Coming => Coming'
  BY <1>1, <1>3, <1>4, <1>6 DEF Coming, Asked
<1>14. Unborn => Unborn'
  <2> SUFFICES ASSUME Unborn PROVE Unborn'
    OBVIOUS
  <2>1. published' = 0 \/ \E j \in DOMAIN pushes' : Creates(j)'
    <3>1. CASE published = 0
      BY <1>1, <3>1
    <3>2. CASE published # 0
      <4>1. PICK j \in DOMAIN pushes : Creates(j)
        BY <3>2 DEF Unborn
      <4>2. Creates(j)'
        BY <1>4, <1>6, <4>1 DEF Creates
      <4>3. QED BY <1>6, <4>2
    <3>3. QED BY <3>1, <3>2
  <2>2. \A q \in ToSet(pushes') : q.kind = "shell" => q.fence = 0
    BY <1>4, <1>6 DEF Unborn
  <2>3. QED BY <1>1, <2>1, <2>2 DEF Unborn, Asked
<1>15. Fenced'
  BY <1>1, <1>9, <1>13, <1>14 DEF IInv, Fenced
<1>16. QED BY <1>7, <1>8, <1>10, <1>11, <1>12, <1>15 DEF IInv

-----------------------------------------------------------------------------
(* The steps of the client                                                 *)

\* The client is greeted: it subscribes anew.
LEMMA EnsureDoes ==
  ASSUME Typed, Becomes(Ensure(Client))
  PROVE  /\ tab' \in Tabs /\ Alike([tab EXCEPT !.subscribed = FALSE, !.epoch = @ + 1], tab')
         /\ tab'.asked = tab.asked /\ tab'.shell = None /\ tab'.early = 0
         /\ requests' = Append(requests, Request("shell", "ensure", tab'.epoch))
         /\ Still(tab, tab') /\ tab'.fence = None /\ tab'.buffer = <<>>
         /\ tab'.epoch = tab.epoch + 1 /\ UNCHANGED <<shown, ever>>
<1>1. PICK o : o = Client
  OBVIOUS
<1>2. IsClient(o) /\ o.tab = tab /\ o.requests = requests /\ o.shown = shown /\ o.ever = ever
  BY <1>1, ClientTyped
<1>3. tab \in Tabs
  BY DEF Typed
<1> DEFINE u == [tab EXCEPT !.fence = None, !.buffer = <<>>, !.epoch = @ + 1]
           a == [o EXCEPT !.tab.fence = None, !.tab.buffer = <<>>, !.tab.epoch = @ + 1]
<1>4. u \in Tabs
  <2>1. <<>> \in Seq(Nat)
    OBVIOUS
  <2>2. PICK n : n = tab.epoch + 1
    OBVIOUS
  <2>3. n \in Nat
    BY <1>3, <2>2 DEF Tabs
  <2>4. u = [tab EXCEPT !.fence = None, !.buffer = <<>>, !.epoch = n]
    BY <2>2
  <2>5. QED BY <1>3, <2>1, <2>3, <2>4 DEF Tabs, Numbers
<1>5. a = [o EXCEPT !.tab = u]
  <2>1. a = [o EXCEPT !.tab = [o.tab EXCEPT !.fence = None, !.buffer = <<>>, !.epoch = @ + 1]]
    OBVIOUS
  <2>2. QED BY <1>2, <2>1
<1>6. Anew(o) = a
  BY DEF Anew
<1>7. IsClient(a) /\ a.tab = u /\ a.requests = requests /\ a.shown = shown /\ a.ever = ever
  <2> HIDE DEF u, a
  <2>1. QED BY <1>2, <1>4, <1>5, WithTab
<1>8. /\ u.epoch = tab.epoch + 1 /\ u.wanted = tab.wanted /\ u.chain = tab.chain
      /\ u.awaiting = tab.awaiting /\ u.asked = tab.asked
      /\ Still(tab, u) /\ u.fence = None /\ u.buffer = <<>>
  BY <1>3 DEF Tabs, Still
<1> HIDE DEF u, a
<1> DEFINE t == [u EXCEPT !.shell = None, !.early = 0, !.subscribed = FALSE, !.ensuring = @ + 1]
           b == [a EXCEPT !.tab.shell = None, !.tab.early = 0, !.tab.subscribed = FALSE,
                          !.tab.ensuring = @ + 1]
<1>9. b = [a EXCEPT !.tab = t]
  <2>1. b = [a EXCEPT !.tab = [a.tab EXCEPT !.shell = None, !.early = 0, !.subscribed = FALSE,
                                            !.ensuring = @ + 1]]
    OBVIOUS
  <2>2. QED BY <1>7, <2>1
<1>10. /\ t \in Tabs /\ t.shell = None /\ t.early = 0 /\ ~t.subscribed
       /\ t.epoch = u.epoch /\ t.wanted = u.wanted /\ t.chain = u.chain
       /\ t.awaiting = u.awaiting /\ t.asked = u.asked /\ Stays(u, t)
  <2>1. PICK n : n = u.ensuring + 1
    OBVIOUS
  <2>2. n \in Int
    BY <1>4, <2>1 DEF Tabs
  <2>3. t = [u EXCEPT !.shell = None, !.early = 0, !.subscribed = FALSE, !.ensuring = n]
    BY <2>1
  <2>4. t \in Tabs
    BY <1>4, <2>2, <2>3 DEF Tabs, Numbers
  <2>5. QED BY <1>4, <2>3, <2>4 DEF Tabs, Stays, Still
<1>11. Ensure(o) = Sent(b, "shell", "ensure")
  BY <1>6 DEF Ensure
<1> HIDE DEF t, b
<1>12. IsClient(b) /\ b.tab = t /\ b.requests = requests /\ b.shown = shown /\ b.ever = ever
  BY <1>7, <1>9, <1>10, WithTab
<1>13. PICK more : more = Append(requests, Request("shell", "ensure", t.epoch))
  OBVIOUS
<1>14. more \in Seq(Requests)
  <2>1. t.epoch \in Nat
    BY <1>10 DEF Tabs
  <2>2. PICK q : q = Request("shell", "ensure", t.epoch)
    OBVIOUS
  <2>3. q \in Requests
    BY <2>1, <2>2, MadeRequest DEF Asking, Whats, Whos
  <2>4. QED BY <1>13, <2>2, <2>3, Appended DEF Typed
<1>15. Ensure(o) = [b EXCEPT !.requests = more]
  BY <1>11, <1>12, <1>13 DEF Sent
<1>16. /\ Ensure(o).tab = t /\ Ensure(o).requests = more
       /\ Ensure(o).shown = shown /\ Ensure(o).ever = ever
  BY <1>12, <1>14, <1>15, WithRequests
<1>17. tab' = t /\ requests' = more /\ UNCHANGED <<shown, ever>>
  BY <1>1, <1>16 DEF Becomes
<1>18. Alike([tab EXCEPT !.subscribed = FALSE, !.epoch = @ + 1], t)
  <2>1. PICK n : n = tab.epoch + 1
    OBVIOUS
  <2>2. [tab EXCEPT !.subscribed = FALSE, !.epoch = @ + 1] =
          [tab EXCEPT !.subscribed = FALSE, !.epoch = n]
    BY <2>1
  <2>3. t.subscribed = FALSE
    BY <1>10 DEF Tabs
  <2>4. QED BY <1>3, <1>8, <1>10, <2>1, <2>2, <2>3 DEF Alike, Tabs
<1>19. /\ Still(tab, t) /\ t.fence = None /\ t.buffer = <<>>
       /\ t.epoch = tab.epoch + 1
  BY <1>8, <1>10 DEF Stays, Still
<1>20. QED BY <1>8, <1>10, <1>13, <1>17, <1>18, <1>19

\* What every push does: it leaves the line.
Heard(p) ==
  /\ UNCHANGED <<log, cursor, published, subs, serving, online>>
  /\ p \in Pushes /\ pushes # <<>> /\ p = pushes[1] /\ pushes' \in Seq(Pushes)
  /\ Len(pushes) \in Nat \ {0} /\ DOMAIN pushes = 1..Len(pushes)
  /\ DOMAIN pushes' = 1..(Len(pushes) - 1)
  /\ \A i \in 1..(Len(pushes) - 1) : pushes'[i] = pushes[i + 1]
  /\ ToSet(pushes') \subseteq ToSet(pushes) /\ p \in ToSet(pushes)
  /\ \A q \in ToSet(pushes) : q = p \/ q \in ToSet(pushes')

LEMMA HearDoes ==
  ASSUME Typed, Hear
  PROVE  \E p : /\ Heard(p)
                /\ \/ p.kind = "welcome" /\ Becomes(Ensure(Client)) /\ UNCHANGED last
                   \/ p \in Events /\ HearEvent(p)
                   \/ p \in Answers /\ HearAnswer(p)
<1>1. PICK p : p = Head(pushes)
  OBVIOUS
<1>2. pushes \in Seq(Pushes) /\ pushes # <<>> /\ pushes' = Tail(pushes)
  BY DEF Typed, Hear
<1>3. Heard(p)
  <2>1. UNCHANGED <<log, cursor, published, subs, serving, online>>
    BY DEF Hear, server
  <2>2. QED BY <1>1, <1>2, <2>1, Rest, RestSet DEF Heard
<1>4. CASE p.kind = "welcome"
  BY <1>1, <1>3, <1>4 DEF Hear
<1>5. CASE p.kind = "event"
  <2>1. p \in Events
    BY <1>3, <1>5, PushFacts DEF Heard
  <2>2. HearEvent(p)
    BY <1>1, <1>5 DEF Hear
  <2>3. QED BY <1>3, <2>1, <2>2
<1>6. CASE p.kind \in Whats
  <2>1. p \in Answers
    BY <1>3, <1>6, PushFacts DEF Heard
  <2>2. HearAnswer(p)
    BY <1>1, <1>6 DEF Hear, Whats
  <2>3. QED BY <1>3, <2>1, <2>2
<1>7. QED BY <1>3, <1>4, <1>5, <1>6, PushFacts DEF Heard

\* What is told of the line stays true as it moves on.
LEMMA HeardTold ==
  ASSUME IInv, NEW p, Heard(p), tab'.shell <= Len(log), tab'.early <= published
  PROVE  /\ Told'
         /\ \A q \in ToSet(pushes') : q.kind # "welcome"
         /\ p.kind # "welcome" => (Greeted' <=> Greeted)
<1>1. \A i \in DOMAIN pushes' : pushes'[i] = pushes[i + 1] /\ i + 1 \in DOMAIN pushes /\ i + 1 # 1
  BY DEF Heard
<1>2. \A i \in DOMAIN pushes' : pushes'[i].kind # "welcome"
  BY <1>1 DEF IInv, Told
<1>3. \A q \in ToSet(pushes') : q.kind # "welcome"
  BY <1>2 DEF ToSet
<1>4. \A q \in ToSet(pushes') :
        /\ q.kind = "event" => q.event \in 1..published'
        /\ q.kind = "shell" => q.fence <= Len(log')
  BY DEF Heard, IInv, Told
<1>5. online
  BY DEF Heard, IInv, Told
<1>6. Told'
  BY <1>2, <1>4, <1>5 DEF Heard, Told
<1>7. p.kind # "welcome" => (Greeted' <=> Greeted)
  BY <1>3 DEF Heard, Greeted
<1>8. QED BY <1>3, <1>6, <1>7

LEMMA HearWelcomeKeeps ==
  ASSUME IInv, NEW p, Heard(p), p.kind = "welcome", Becomes(Ensure(Client))
  PROVE  IInv'
<1> DEFINE r == Request("shell", "ensure", tab'.epoch)
<1>1. /\ tab' \in Tabs /\ Alike([tab EXCEPT !.subscribed = FALSE, !.epoch = @ + 1], tab')
      /\ tab'.asked = tab.asked /\ tab'.shell = None /\ tab'.early = 0
      /\ requests' = Append(requests, r)
  BY EnsureDoes DEF IInv
<1>2. /\ tab'.wanted = tab.wanted /\ tab'.chain = tab.chain /\ tab'.awaiting = tab.awaiting
      /\ tab'.subscribed = FALSE
  <2>1. tab \in Tabs
    BY DEF IInv, Typed
  <2>2. QED BY <1>1, <2>1 DEF Tabs, Alike
<1>3. r \in Requests /\ r.asks = "shell" /\ r.by = "ensure"
  <2>1. tab'.epoch \in Nat
    BY <1>1 DEF Tabs
  <2>2. QED BY <2>1, MadeRequest DEF Asking, Whats, Whos
<1> HIDE DEF r
<1>4. requests' \in Seq(Requests) /\ ToSet(requests') = ToSet(requests) \cup {r}
  BY <1>1, <1>3, Appended, AppendedSet DEF IInv, Typed
<1>5. Typed'
  BY <1>1, <1>4 DEF Heard, IInv, Typed
<1>6. Told'
  <2>1. published \in Nat /\ Len(log) \in Nat
    BY DEF IInv, Typed
  <2>2. QED BY <1>1, <2>1, HeardTold DEF None
<1>7. p.kind \notin Whats
  BY DEF Whats
<1>8. \A by : Outstanding(by) => Outstanding(by)'
  BY <1>4, <1>7 DEF Heard, Outstanding
<1>9. Awaits'
  BY <1>1, <1>2, <1>8 DEF IInv, Awaits
<1>10. Informed'
  BY <1>3, <1>4 DEF Heard, IInv, Informed
<1>11. Wants'
  <2>1. Outstanding("ensure")'
    BY <1>3, <1>4 DEF Outstanding
  <2>2. QED BY <1>2, <2>1 DEF IInv, Wants
<1>12. ShellSubscribes'
  BY <1>3, <1>4 DEF ShellSubscribes, Asked
<1>13. Subscribes' /\ Fenced'
  BY <1>2 DEF Subscribes, Fenced
<1>14. QED BY <1>5, <1>6, <1>9, <1>10, <1>11, <1>12, <1>13 DEF IInv

\* An answer is settled; what else the client waits for is still to come.
LEMMA AnswerHeard ==
  ASSUME IInv, NEW p \in Answers, Heard(p), UNCHANGED requests
  PROVE  \A by : Outstanding(by) /\ p.by # by => Outstanding(by)'
BY DEF Heard, Outstanding

LEMMA HearSnapshotKeeps ==
  ASSUME IInv, NEW p \in Answers, Heard(p), p.kind = "thread", p.upTo # 0, HearAnswer(p)
  PROVE  IInv'
<1>1. /\ tab' \in Tabs /\ requests' = requests
      /\ tab'.wanted = tab.wanted /\ tab'.chain = tab.chain
      /\ tab'.subscribed = tab.subscribed
      /\ tab'.shell = tab.shell /\ tab'.early = tab.early
      /\ tab'.fence # None /\ ~tab'.asked
      /\ tab'.awaiting <=> tab.awaiting /\ p.by # "chain"
  BY HearSnapshotDoes DEF IInv
<1>2. p.by # "ensure" /\ p.kind \notin {"welcome", "event", "shell"}
  BY DEF Answers, Asking
<1>3. Typed'
  BY <1>1 DEF Heard, IInv, Typed
<1>4. Told' /\ (Greeted' <=> Greeted)
  <2>1. tab'.shell <= Len(log) /\ tab'.early <= published
    BY <1>1 DEF IInv, Told
  <2>2. QED BY <1>2, <2>1, HeardTold
<1>5. \A by : Outstanding(by) /\ p.by # by => Outstanding(by)'
  BY <1>1, AnswerHeard
<1>6. Awaits' /\ Wants'
  BY <1>1, <1>2, <1>4, <1>5 DEF IInv, Awaits, Wants
<1>7. Informed'
  BY <1>1 DEF Heard, IInv, Informed
<1>8. Subscribes'
  BY <1>1, <1>4 DEF Heard, IInv, Subscribes, Asked
<1>9. ShellSubscribes'
  BY <1>1, <1>2, <1>4 DEF Heard, IInv, ShellSubscribes, Asked
<1>10. Fenced'
  BY <1>1 DEF Fenced
<1>11. QED BY <1>3, <1>4, <1>6, <1>7, <1>8, <1>9, <1>10 DEF IInv

LEMMA HearOtherKeeps ==
  ASSUME IInv, NEW p \in Answers, Heard(p), p.kind = "thread" => p.upTo = 0, HearAnswer(p)
  PROVE  IInv'
<1>1. /\ tab' \in Tabs /\ requests' = requests
      /\ tab'.wanted = tab.wanted /\ tab'.subscribed = tab.subscribed
      /\ tab'.fence = tab.fence
      /\ tab'.chain = IF p.by = "ensure" THEN Append(tab.chain, tab.wanted) ELSE tab.chain
      /\ tab'.awaiting <=> tab.awaiting /\ p.by # "chain"
      /\ tab'.asked <=> tab.asked /\ p.by # "event"
      /\ p.kind = "shell" =>
           tab'.early = 0 /\ tab'.shell \in {tab.early, p.fence} /\ tab'.shell # None
      /\ p.kind # "shell" => tab'.shell = tab.shell /\ tab'.early = tab.early
  BY HearOtherDoes DEF IInv
<1>2. p.kind \notin {"welcome", "event"} /\ p.kind \in Whats
  BY DEF Answers, Whats
<1>3. Typed'
  BY <1>1 DEF Heard, IInv, Typed
<1>4. Told' /\ (Greeted' <=> Greeted)
  <2>1. /\ published \in Nat /\ Len(log) \in Nat /\ tab.early <= published
        /\ tab.shell <= Len(log) /\ published <= Len(log) /\ tab.early \in Nat
    BY DEF IInv, Typed, Told, Tabs
  <2>2. p.kind = "shell" => p.fence <= Len(log)
    BY DEF Heard, IInv, Told
  <2>3. tab'.shell <= Len(log) /\ tab'.early <= published
    BY <1>1, <2>1, <2>2
  <2>4. QED BY <1>2, <2>3, HeardTold
<1>5. \A by : Outstanding(by) /\ p.by # by => Outstanding(by)'
  BY <1>1, AnswerHeard
<1>6. Awaits'
  BY <1>1, <1>5 DEF IInv, Awaits
<1>7. Wants'
  <2>1. CASE p.by = "ensure"
    <3>1. tab'.chain = Append(tab.chain, tab.wanted)
      BY <1>1, <2>1
    <3>2. tab.chain \in Seq(BOOLEAN) /\ tab.wanted \in BOOLEAN
      BY DEF IInv, Typed, Tabs
    <3>3. tab'.chain # <<>> /\ Last(tab'.chain) = tab.wanted
      BY <3>1, <3>2, Appended, AppendedLast
    <3>4. QED BY <1>1, <3>3 DEF Wants
  <2>2. CASE p.by # "ensure"
    BY <1>1, <1>4, <1>5, <2>2 DEF IInv, Wants
  <2>3. QED BY <2>1, <2>2
<1>8. Informed'
  BY <1>1 DEF Heard, IInv, Informed
<1>9. Subscribes'
  BY <1>1, <1>4 DEF Heard, IInv, Subscribes, Asked
<1>10. ShellSubscribes'
  <2>1. CASE p.kind = "shell"
    BY <1>1, <1>4, <2>1 DEF Heard, IInv, ShellSubscribes, Asked
  <2>2. CASE p.kind # "shell"
    BY <1>1, <1>4, <2>2 DEF Heard, IInv, ShellSubscribes, Asked
  <2>3. QED BY <2>1, <2>2
<1>11. Coming => Coming'
  BY <1>1 DEF Heard, Coming, Asked
<1>12. Unborn => Unborn'
  <2> SUFFICES ASSUME Unborn PROVE Unborn'
    OBVIOUS
  <2>1. tab'.shell \in {0, None} /\ tab'.early = 0
    BY <1>1 DEF Heard, Unborn
  <2>2. published' = 0 \/ \E i \in DOMAIN pushes' : Creates(i)'
    <3>1. CASE published = 0
      BY <3>1 DEF Heard
    <3>2. CASE published # 0
      <4>1. PICK i \in DOMAIN pushes : Creates(i)
        BY <3>2 DEF Unborn
      <4>2. PICK k : k = i - 1
        OBVIOUS
      <4>3. k \in DOMAIN pushes' /\ pushes'[k] = pushes[i]
        BY <1>2, <4>1, <4>2 DEF Heard, Creates
      <4>4. \A j \in DOMAIN pushes' : /\ j + 1 \in DOMAIN pushes /\ pushes'[j] = pushes[j + 1]
                                      /\ j < k => j + 1 < i
                                      /\ j > k => j + 1 > i
        BY <4>2 DEF Heard
      <4>5. Creates(k)'
        BY <4>1, <4>3, <4>4 DEF Creates
      <4>6. QED BY <4>3, <4>5
    <3>3. QED BY <3>1, <3>2
  <2>3. QED BY <1>1, <2>1, <2>2 DEF Heard, Unborn, Asked
<1>13. Fenced'
  BY <1>1, <1>4, <1>11, <1>12 DEF IInv, Fenced
<1>14. QED BY <1>3, <1>4, <1>6, <1>7, <1>8, <1>9, <1>10, <1>13 DEF IInv

\* An event may lead to a request, and the creation does if it is needed.
LEMMA HearEventKeeps ==
  ASSUME IInv, NEW p \in Events, Heard(p), HearEvent(p)
  PROVE  IInv'
<1> DEFINE r == Request("thread", "event", tab.epoch)
<1>1. EventHeard(p)
  BY HearEventDoes DEF IInv
<1>2. /\ p.kind = "event" /\ p.event \in 1..published /\ p.event \in Nat
      /\ published \in Nat /\ Len(log) \in Nat /\ published <= Len(log) /\ log # <<>>
  BY DEF Heard, IInv, Typed, Told, Events
<1>3. r \in Requests /\ r.asks = "thread" /\ r.by = "event"
  <2>1. tab.epoch \in Nat
    BY DEF IInv, Typed, Tabs
  <2>2. QED BY <2>1, MadeRequest DEF Asking, Whats, Whos
<1>4. /\ tab' \in Tabs /\ requests' \in Seq(Requests) /\ Alike(tab, tab')
      /\ tab'.fence = None <=> tab.fence = None
      /\ \/ requests' = requests /\ tab'.asked = tab.asked
         \/ tab.subscribed /\ tab'.asked /\ requests' = Append(requests, r)
  BY <1>1 DEF EventHeard
<1> HIDE DEF r
<1>5. /\ tab'.wanted = tab.wanted /\ tab'.chain = tab.chain /\ tab'.awaiting = tab.awaiting
      /\ tab'.subscribed = tab.subscribed
  BY <1>4 DEF Alike
<1>6. /\ ToSet(requests) \subseteq ToSet(requests')
      /\ \/ ToSet(requests') = ToSet(requests) /\ tab'.asked = tab.asked
         \/ ToSet(requests') = ToSet(requests) \cup {r}
  <2>1. ToSet(Append(requests, r)) = ToSet(requests) \cup {r}
    BY <1>3, AppendedSet DEF IInv, Typed
  <2>2. QED BY ONLY <1>4, <2>1
<1>7. /\ tab'.shell \in {tab.shell, p.event} /\ tab'.early \in {tab.early, p.event}
      /\ tab'.shell = None => tab.shell = None
      /\ tab.shell = None => tab'.shell = None
  <2>1. p.event # None
    BY <1>2 DEF None
  <2>2. QED BY <1>1, <2>1 DEF EventHeard
<1>8. Typed'
  BY <1>4 DEF Heard, IInv, Typed
<1>9. Told' /\ (Greeted' <=> Greeted)
  <2>1. tab'.shell <= Len(log) /\ tab'.early <= published
    BY <1>2, <1>7 DEF IInv, Told
  <2>2. QED BY <1>2, <2>1, HeardTold
<1>10. \A by : Outstanding(by) => Outstanding(by)'
  BY <1>2, <1>6 DEF Heard, Outstanding, Whats
<1>11. Awaits'
  <2>1. tab'.awaiting => Outstanding("chain")'
    BY <1>5, <1>10 DEF IInv, Awaits
  <2>2. tab'.asked => Outstanding("event")'
    BY <1>3, <1>6, <1>10 DEF IInv, Awaits, Outstanding
  <2>3. QED BY <2>1, <2>2 DEF Awaits
<1>12. Informed'
  BY <1>2, <1>6 DEF Heard, IInv, Informed
<1>13. Wants'
  BY <1>5, <1>9, <1>10 DEF IInv, Wants
<1>14. Subscribes'
  <2>1. CASE requests' = requests
    BY <1>5, <1>9, <2>1 DEF Heard, IInv, Subscribes, Asked
  <2>2. CASE requests' = Append(requests, r)
    <3>1. r \in ToSet(requests')
      BY <1>3, <2>2, AppendedSet DEF IInv, Typed
    <3>2. PICK n : n = Len(requests) + 1
      OBVIOUS
    <3>3. \A i \in DOMAIN requests' : requests'[i].asks # "thread" =>
            n \in DOMAIN requests' /\ n > i /\ requests'[n].asks = "thread"
      BY <1>3, <2>2, <3>2, Appended DEF IInv, Typed
    <3>4. \A i \in DOMAIN requests' : requests'[i].asks # "thread" =>
            \E j \in DOMAIN requests' : j > i /\ requests'[j].asks = "thread"
      BY <3>3
    <3>5. Asked("thread")'
      BY <1>3, <3>1 DEF Asked
    <3>6. QED BY <3>4, <3>5 DEF Subscribes
  <2>3. QED BY <1>4, <2>1, <2>2
<1>15. ShellSubscribes'
  <2>1. Asked("shell") => Asked("shell")'
    BY <1>6 DEF Asked
  <2>2. \A q \in ToSet(pushes) : q.kind = "shell" => q \in ToSet(pushes')
    BY <1>2 DEF Heard
  <2>3. QED BY <1>7, <1>9, <2>1, <2>2 DEF Heard, IInv, ShellSubscribes
<1>16. Coming => Coming'
  BY <1>2, <1>6 DEF Heard, Coming, Asked
<1>17. Greeted /\ Unborn /\ tab.subscribed /\ tab.fence = None => Coming'
  <2> SUFFICES ASSUME Greeted, Unborn, tab.subscribed, tab.fence = None PROVE Coming'
    OBVIOUS
  <2>1. PICK i \in DOMAIN pushes : Creates(i)
    BY <1>2 DEF Unborn
  <2>2. i = 1 /\ p = pushes[1]
    <3>1. ~(1 < i)
      BY <1>2, <2>1 DEF Heard, Creates
    <3>2. QED BY <3>1, <2>1 DEF Heard
  <2>3. p.event = 1 /\ p.shell
    BY <2>1, <2>2 DEF Creates
  <2>4. tab.shell = 0
    <3>1. \A j \in DOMAIN pushes : pushes[j].kind # "shell"
      BY <1>2, <2>1, <2>2 DEF Heard, Creates
    <3>2. \A q \in ToSet(pushes) : q.kind # "shell"
      BY <3>1 DEF ToSet
    <3>3. tab.shell # None
      BY <3>2 DEF IInv, ShellSubscribes, Unborn
    <3>4. QED BY <3>3 DEF Unborn
  <2>5. tab'.asked
    <3>1. tab.shell # None /\ p.event > tab.shell
      BY <2>3, <2>4 DEF None
    <3>2. QED BY <1>1, <2>3, <3>1 DEF EventHeard
  <2>6. Outstanding("event")'
    BY <1>11, <2>5 DEF Awaits
  <2>7. CASE \E q \in ToSet(requests') : q.by = "event"
    <3>1. PICK q \in ToSet(requests') : q.by = "event"
      BY <2>7
    <3>2. q \in Requests
      BY <1>4, <3>1 DEF ToSet
    <3>3. QED BY <3>1, <3>2, RequestFacts DEF Coming, Asked
  <2>8. CASE \E q \in ToSet(serving') : q.by = "event"
    BY <1>12, <2>8 DEF Informed, Coming
  <2>9. CASE \E q \in ToSet(pushes') : q.kind \in Whats /\ q.by = "event"
    <3>1. PICK q \in ToSet(pushes') : q.kind \in Whats /\ q.by = "event"
      BY <2>9
    <3>2. q \in Pushes
      BY <3>1 DEF Heard, ToSet
    <3>3. q.kind = "thread"
      BY <3>1, <3>2, PushFacts DEF Asking
    <3>4. QED BY <1>12, <3>1, <3>3 DEF Informed, Coming
  <2>10. QED BY <2>6, <2>7, <2>8, <2>9 DEF Outstanding
<1>18. Fenced'
  <2> SUFFICES ASSUME Greeted', tab'.subscribed, tab'.fence = None PROVE Coming'
    BY DEF Fenced
  <2>1. Greeted /\ tab.subscribed /\ tab.fence = None
    BY <1>4, <1>5, <1>9
  <2>2. Coming \/ Unborn
    BY <2>1 DEF IInv, Fenced
  <2>3. QED BY <1>16, <1>17, <2>1, <2>2
<1>19. QED BY <1>8, <1>9, <1>11, <1>12, <1>13, <1>14, <1>15, <1>18 DEF IInv

\* The client keeps the invariant, whatever it hears.
LEMMA HearKeeps ==
  ASSUME IInv, Hear
  PROVE  IInv'
<1>1. PICK p : /\ Heard(p)
               /\ \/ p.kind = "welcome" /\ Becomes(Ensure(Client))
                  \/ p \in Events /\ HearEvent(p)
                  \/ p \in Answers /\ HearAnswer(p)
  BY HearDoes DEF IInv
<1>2. CASE p.kind = "welcome" /\ Becomes(Ensure(Client))
  BY <1>1, <1>2, HearWelcomeKeeps
<1>3. CASE p \in Events /\ HearEvent(p)
  BY <1>1, <1>3, HearEventKeeps
<1>4. CASE p \in Answers /\ HearAnswer(p)
  <2>1. CASE p.kind = "thread" /\ p.upTo # 0
    BY <1>1, <1>4, <2>1, HearSnapshotKeeps
  <2>2. CASE ~(p.kind = "thread" /\ p.upTo # 0)
    <3>1. p.kind = "thread" => p.upTo = 0
      BY <2>2
    <3>2. QED BY <1>1, <1>4, <3>1, HearOtherKeeps
  <2>3. QED BY <2>1, <2>2
<1>5. QED BY <1>1, <1>2, <1>3, <1>4

\* A step that leaves what the invariant is about keeps it.
LEMMA AloneKeeps ==
  ASSUME IInv, tab' \in Tabs, Same(tab, tab'),
         tab'.asked = tab.asked, tab'.fence = tab.fence,
         UNCHANGED <<log, cursor, published, subs, serving, pushes, requests, online>>
  PROVE  IInv'
<1>1. /\ UNCHANGED log /\ UNCHANGED cursor /\ UNCHANGED published /\ UNCHANGED subs
      /\ UNCHANGED serving /\ UNCHANGED pushes /\ UNCHANGED requests /\ UNCHANGED online
  OBVIOUS
<1>2. Typed'
  BY <1>1 DEF IInv, Typed
<1>3. Told' /\ Awaits' /\ Informed' /\ Wants'
  BY <1>1 DEF IInv, Told, Awaits, Informed, Wants, Greeted, Outstanding, Same, Alike
<1>4. Subscribes' /\ ShellSubscribes' /\ Fenced'
  BY <1>1 DEF IInv, Subscribes, ShellSubscribes, Fenced, Greeted, Asked, Coming, Unborn,
              Creates, Same, Alike
<1>5. QED BY <1>2, <1>3, <1>4 DEF IInv

LEMMA FlushKeeps ==
  ASSUME IInv, Flush
  PROVE  IInv'
<1>1. IsClient(Client) /\ Client.tab = tab /\ Client.requests = requests
  BY ClientTyped DEF IInv
<1>2. PICK c : c = Flushed(Client)
  OBVIOUS
<1>3. IsClient(c) /\ c.requests = requests /\ c.tab = [tab EXCEPT !.waiting = <<>>]
  BY <1>1, <1>2, FlushedKeeps
<1>4. tab' = c.tab /\ requests' = requests
  BY <1>2, <1>3 DEF Flush, Becomes
<1>5. /\ tab' \in Tabs /\ Same(tab, tab')
      /\ tab'.asked = tab.asked /\ tab'.fence = tab.fence
  <2>1. tab \in Tabs
    BY DEF IInv, Typed
  <2>2. tab' \in Tabs
    BY <1>3, <1>4 DEF IsClient
  <2>3. QED BY <1>3, <1>4, <2>1, <2>2 DEF Tabs, Same, Alike
<1>6. UNCHANGED <<log, cursor, published, subs, serving, pushes, requests, online>>
  BY <1>4 DEF Flush, server
<1>7. QED BY <1>5, <1>6, AloneKeeps

\* The tail ends as the sequence does.
LEMMA RestLast ==
  ASSUME NEW S, NEW s \in Seq(S), s # <<>>
  PROVE  /\ Tail(s) = <<>> => Last(s) = Head(s)
         /\ Tail(s) # <<>> => Last(Tail(s)) = Last(s)
<1>1. PICK t : t = Tail(s)
  OBVIOUS
<1>2. /\ t \in Seq(S) /\ Len(t) = Len(s) - 1 /\ Len(s) \in Nat \ {0} /\ Head(s) = s[1]
      /\ \A i \in 1..(Len(s) - 1) : t[i] = s[i + 1]
  BY <1>1, Rest
<1>3. t = <<>> => Len(t) = 0
  OBVIOUS
<1>4. t # <<>> => Len(t) # 0
  BY <1>2
<1>5. t = <<>> => Last(s) = Head(s)
  <2>1. t = <<>> => Len(s) = 1
    BY <1>2, <1>3
  <2>2. QED BY <1>2, <2>1 DEF Last
<1>6. t # <<>> => Last(t) = Last(s)
  BY <1>2, <1>4 DEF Last
<1>7. QED BY <1>1, <1>5, <1>6

\* One reconciliation: nothing to do, or the thread is asked for or left.
Reconciled(wanted) ==
  /\ tab' \in Tabs /\ tab.chain # <<>> /\ wanted = Head(tab.chain)
  /\ tab'.chain = Tail(tab.chain) /\ tab'.wanted = tab.wanted
  /\ tab'.shell = tab.shell /\ tab'.early = tab.early
  /\ \/ /\ wanted = tab.subscribed /\ UNCHANGED requests
        /\ tab'.subscribed = tab.subscribed /\ tab'.asked = tab.asked
        /\ tab'.awaiting = tab.awaiting /\ tab'.fence = tab.fence
        /\ Stays(tab, tab') /\ tab'.epoch = tab.epoch
     \/ /\ tab'.subscribed = wanted /\ tab'.awaiting /\ ~tab'.asked
        /\ Still(tab, tab') /\ tab'.fence = None /\ tab'.buffer = <<>>
        /\ tab'.epoch = tab.epoch + 1
        /\ requests' = Append(requests, Request(IF wanted THEN "thread" ELSE "leave", "chain",
                                                tab'.epoch))
  /\ UNCHANGED <<shown, ever>>

LEMMA ReconcileDoes ==
  ASSUME Typed, Reconcile
  PROVE  Reconciled(Head(tab.chain))
<1>1. PICK o : o = Client
  OBVIOUS
<1>2. /\ IsClient(o) /\ o.tab = tab /\ o.requests = requests /\ tab \in Tabs
      /\ o.shown = shown /\ o.ever = ever
  BY <1>1, ClientTyped DEF Typed
<1>3. PICK wanted : wanted = Head(tab.chain)
  OBVIOUS
<1>4. tab.chain # <<>> /\ wanted \in BOOLEAN /\ Tail(tab.chain) \in Seq(BOOLEAN)
  <2>1. tab.chain \in Seq(BOOLEAN) /\ tab.chain # <<>>
    BY <1>2 DEF Reconcile, Tabs
  <2>2. QED BY <1>3, <2>1, Rest
<1> DEFINE u == [tab EXCEPT !.chain = Tail(tab.chain)]
           rest == [o EXCEPT !.tab.chain = Tail(@)]
<1>5. /\ u \in Tabs /\ u.chain = Tail(tab.chain) /\ Same([tab EXCEPT !.chain = u.chain], u)
      /\ u.wanted = tab.wanted /\ u.shell = tab.shell /\ u.early = tab.early
      /\ u.subscribed = tab.subscribed /\ u.asked = tab.asked /\ u.awaiting = tab.awaiting
      /\ u.fence = tab.fence /\ u.epoch = tab.epoch /\ Stays(tab, u)
  <2>1. PICK chain : chain = Tail(tab.chain)
    OBVIOUS
  <2>2. u = [tab EXCEPT !.chain = chain] /\ chain \in Seq(BOOLEAN)
    BY <1>4, <2>1
  <2>3. u \in Tabs
    BY <1>2, <2>2 DEF Tabs
  <2>4. QED BY <1>2, <2>1, <2>2, <2>3 DEF Tabs, Same, Alike, Stays, Still
<1>6. rest = [o EXCEPT !.tab = u]
  <2>1. rest = [o EXCEPT !.tab = [o.tab EXCEPT !.chain = Tail(o.tab.chain)]]
    OBVIOUS
  <2>2. QED BY <1>2, <2>1
<1>7. /\ IsClient(rest) /\ rest.tab = u /\ rest.requests = requests
      /\ rest.shown = shown /\ rest.ever = ever
  <2> HIDE DEF u, rest
  <2>1. QED BY <1>2, <1>5, <1>6, WithTab
<1> DEFINE begun == [Anew(rest) EXCEPT !.tab.asked = FALSE, !.tab.subscribed = wanted,
                                       !.tab.awaiting = TRUE]
<1>8. Becomes(IF wanted = tab.subscribed THEN rest
              ELSE Sent(begun, IF wanted THEN "thread" ELSE "leave", "chain"))
  BY <1>1, <1>3 DEF Reconcile
<1>9. CASE wanted = tab.subscribed
  <2> HIDE DEF u, rest, begun
  <2>1. tab' = u /\ requests' = requests /\ UNCHANGED <<shown, ever>>
    BY <1>7, <1>8, <1>9 DEF Becomes
  <2>2. QED BY <1>3, <1>4, <1>5, <1>9, <2>1 DEF Reconciled
<1>10. CASE wanted # tab.subscribed
  <2> HIDE DEF u, rest
  <2>1. PICK n : n = u.epoch + 1
    OBVIOUS
  <2>2. n \in Nat
    BY <1>5, <2>1 DEF Tabs
  <2> DEFINE v == [u EXCEPT !.fence = None, !.buffer = <<>>, !.epoch = n]
             a == [rest EXCEPT !.tab.fence = None, !.tab.buffer = <<>>, !.tab.epoch = @ + 1]
  <2>3. /\ v \in Tabs /\ v.chain = u.chain /\ v.wanted = u.wanted /\ v.shell = u.shell
        /\ v.early = u.early /\ v.epoch = n
        /\ Still(u, v) /\ v.fence = None /\ v.buffer = <<>>
    <3>1. <<>> \in Seq(Nat)
      OBVIOUS
    <3>2. QED BY <1>5, <2>2, <3>1 DEF Tabs, Numbers, Still
  <2>4. a = [rest EXCEPT !.tab = v]
    <3>1. a = [rest EXCEPT !.tab = [rest.tab EXCEPT !.fence = None, !.buffer = <<>>,
                                                    !.epoch = rest.tab.epoch + 1]]
      OBVIOUS
    <3>2. QED BY <1>7, <2>1, <3>1
  <2>5. Anew(rest) = a
    BY DEF Anew
  <2> HIDE DEF v, a
  <2>6. IsClient(a) /\ a.tab = v /\ a.requests = requests /\ a.shown = shown /\ a.ever = ever
    BY <1>7, <2>3, <2>4, WithTab
  <2> DEFINE t == [v EXCEPT !.asked = FALSE, !.subscribed = wanted, !.awaiting = TRUE]
             b == [a EXCEPT !.tab.asked = FALSE, !.tab.subscribed = wanted, !.tab.awaiting = TRUE]
  <2>7. /\ t \in Tabs /\ t.chain = v.chain /\ t.wanted = v.wanted /\ t.shell = v.shell
        /\ t.early = v.early /\ t.epoch = n /\ t.subscribed = wanted /\ t.awaiting /\ ~t.asked
        /\ Stays(v, t)
    BY <1>4, <2>3 DEF Tabs, Stays, Still
  <2>8. b = [a EXCEPT !.tab = t]
    <3>1. b = [a EXCEPT !.tab = [a.tab EXCEPT !.asked = FALSE, !.subscribed = wanted,
                                              !.awaiting = TRUE]]
      OBVIOUS
    <3>2. QED BY <2>6, <3>1
  <2>9. begun = b
    BY <2>5
  <2> HIDE DEF t, b, begun
  <2>10. /\ IsClient(b) /\ b.tab = t /\ b.requests = requests
         /\ b.shown = shown /\ b.ever = ever
    BY <2>6, <2>7, <2>8, WithTab
  <2>11. PICK asks : asks = IF wanted THEN "thread" ELSE "leave"
    OBVIOUS
  <2>12. PICK more : more = Append(requests, Request(asks, "chain", n))
    OBVIOUS
  <2>13. more \in Seq(Requests)
    <3>1. asks \in Whats /\ "chain" \in Whos /\ Asking(asks, "chain")
      BY <2>11 DEF Whats, Whos, Asking
    <3>2. PICK r : r = Request(asks, "chain", n)
      OBVIOUS
    <3>3. r \in Requests
      BY <2>2, <3>1, <3>2, MadeRequest
    <3>4. QED BY <2>12, <3>2, <3>3, Appended DEF Typed
  <2>14. Sent(b, asks, "chain") = [b EXCEPT !.requests = more]
    <3>1. /\ b.tab.epoch = n
          /\ more = Append(b.requests, Request(asks, "chain", b.tab.epoch))
      BY <2>7, <2>10, <2>12
    <3>2. QED BY <3>1 DEF Sent
  <2>15. PICK d : d = [b EXCEPT !.requests = more]
    OBVIOUS
  <2>16. d.tab = t /\ d.requests = more /\ d.shown = shown /\ d.ever = ever
    BY <2>10, <2>13, <2>15, WithRequests
  <2>17. Becomes(d)
    BY <1>8, <1>10, <2>9, <2>11, <2>14, <2>15
  <2>18. tab' = t /\ requests' = more /\ UNCHANGED <<shown, ever>>
    BY <2>16, <2>17 DEF Becomes
  <2>19. /\ Still(tab, t) /\ t.fence = None /\ t.buffer = <<>> /\ t.epoch = tab.epoch + 1
    BY <1>5, <2>1, <2>3, <2>7 DEF Stays, Still
  <2>20. QED BY <1>3, <1>4, <1>5, <2>3, <2>7, <2>11, <2>12, <2>18, <2>19 DEF Reconciled
<1>11. QED BY <1>9, <1>10

LEMMA ReconcileKeeps ==
  ASSUME IInv, Reconcile
  PROVE  IInv'
<1>1. PICK wanted : Reconciled(wanted)
  BY ReconcileDoes DEF IInv
<1>2. UNCHANGED log /\ UNCHANGED cursor /\ UNCHANGED published /\ UNCHANGED subs
      /\ UNCHANGED serving /\ UNCHANGED pushes /\ UNCHANGED online
  BY DEF Reconcile, server
<1>3. tab \in Tabs /\ tab.chain \in Seq(BOOLEAN) /\ tab.chain # <<>>
      /\ tab.wanted = Last(tab.chain)
  BY <1>1 DEF IInv, Typed, Tabs, Wants, Reconciled
<1>4. tab'.chain = <<>> => tab.wanted = wanted
  BY <1>1, <1>3, RestLast DEF Reconciled
<1>5. tab'.chain # <<>> => Last(tab'.chain) = tab.wanted
  BY <1>1, <1>3, RestLast DEF Reconciled
<1>6. Told'
  BY <1>1, <1>2 DEF IInv, Told, Reconciled
<1>7. CASE UNCHANGED requests /\ wanted = tab.subscribed
           /\ tab'.subscribed = tab.subscribed /\ tab'.asked = tab.asked
           /\ tab'.awaiting = tab.awaiting /\ tab'.fence = tab.fence
  <2>1. Typed'
    BY <1>1, <1>2, <1>7 DEF IInv, Typed, Reconciled
  <2>2. Awaits' /\ Informed'
    BY <1>2, <1>7 DEF IInv, Awaits, Informed, Outstanding
  <2>3. Wants'
    BY <1>1, <1>4, <1>5, <1>7 DEF Wants, Reconciled
  <2>4. Subscribes' /\ ShellSubscribes' /\ Fenced'
    BY <1>1, <1>2, <1>7 DEF IInv, Subscribes, ShellSubscribes, Fenced, Greeted, Asked, Coming,
                            Unborn, Creates, Reconciled
  <2>5. QED BY <1>6, <2>1, <2>2, <2>3, <2>4 DEF IInv
<1>8. CASE /\ tab'.subscribed = wanted /\ tab'.awaiting /\ ~tab'.asked
           /\ requests' = Append(requests, Request(IF wanted THEN "thread" ELSE "leave",
                                                   "chain", tab'.epoch))
  <2>1. PICK r : r = Request(IF wanted THEN "thread" ELSE "leave", "chain", tab'.epoch)
    OBVIOUS
  <2>2. r \in Requests /\ r.by = "chain" /\ (wanted => r.asks = "thread")
    <3>1. tab'.epoch \in Nat
      BY <1>1 DEF Tabs, Reconciled
    <3>2. QED BY <2>1, <3>1, MadeRequest DEF Asking, Whats, Whos
  <2>3. requests' = Append(requests, r)
    BY <1>8, <2>1
  <2>4. requests' \in Seq(Requests) /\ ToSet(requests') = ToSet(requests) \cup {r}
    BY <2>2, <2>3, Appended, AppendedSet DEF IInv, Typed
  <2>5. Typed'
    BY <1>1, <1>2, <2>4 DEF IInv, Typed, Reconciled
  <2>6. Awaits'
    BY <1>8, <2>2, <2>4 DEF Awaits, Outstanding
  <2>7. Informed'
    BY <1>2, <2>2, <2>4 DEF IInv, Informed
  <2>8. Wants'
    BY <1>1, <1>4, <1>5, <1>8 DEF Wants, Reconciled
  <2>9. wanted => Asked("thread")'
    BY <2>2, <2>4 DEF Asked
  <2>10. Subscribes'
    <3>1. PICK n : n = Len(requests) + 1
      OBVIOUS
    <3>2. \A i \in DOMAIN requests' : wanted /\ requests'[i].asks # "thread" =>
            n \in DOMAIN requests' /\ n > i /\ requests'[n].asks = "thread"
      BY <2>2, <2>3, <3>1, Appended DEF IInv, Typed
    <3>3. QED BY <1>8, <2>9, <3>2 DEF Subscribes
  <2>11. ShellSubscribes'
    BY <1>1, <1>2, <2>4 DEF IInv, ShellSubscribes, Greeted, Asked, Reconciled
  <2>12. Fenced'
    BY <1>8, <2>9 DEF Fenced, Coming
  <2>13. QED BY <1>6, <2>5, <2>6, <2>7, <2>8, <2>10, <2>11, <2>12 DEF IInv
<1>9. QED BY <1>1, <1>7, <1>8 DEF Reconciled

LEMMA RouteKeeps ==
  ASSUME IInv, Route
  PROVE  IInv'
<1>1. /\ UNCHANGED log /\ UNCHANGED cursor /\ UNCHANGED published /\ UNCHANGED subs
      /\ UNCHANGED serving /\ UNCHANGED pushes /\ UNCHANGED requests /\ UNCHANGED online
  BY DEF Route, server
<1>2. PICK chain, wanted : chain = Append(tab.chain, ~tab.wanted) /\ wanted = ~tab.wanted
  OBVIOUS
<1>3. tab' = [tab EXCEPT !.wanted = wanted, !.chain = chain] /\ tab \in Tabs
  BY <1>2 DEF IInv, Typed, Route
<1>4. chain \in Seq(BOOLEAN) /\ wanted \in BOOLEAN /\ chain # <<>> /\ Last(chain) = wanted
  <2>1. tab.chain \in Seq(BOOLEAN) /\ wanted \in BOOLEAN
    BY <1>2, <1>3 DEF Tabs
  <2>2. QED BY <1>2, <2>1, Appended, AppendedLast
<1>5. /\ tab' \in Tabs /\ tab'.wanted = wanted /\ tab'.chain = chain
      /\ tab'.shell = tab.shell /\ tab'.early = tab.early /\ tab'.asked = tab.asked
      /\ tab'.awaiting = tab.awaiting /\ tab'.subscribed = tab.subscribed
      /\ tab'.fence = tab.fence
  BY <1>3, <1>4 DEF Tabs
<1>6. Typed'
  BY <1>1, <1>5 DEF IInv, Typed
<1>7. Told' /\ Awaits' /\ Informed'
  BY <1>1, <1>5 DEF IInv, Told, Awaits, Informed, Outstanding
<1>8. Wants'
  BY <1>4, <1>5 DEF Wants
<1>9. Subscribes' /\ ShellSubscribes' /\ Fenced'
  BY <1>1, <1>5 DEF IInv, Subscribes, ShellSubscribes, Fenced, Greeted, Asked, Coming, Unborn,
                    Creates
<1>10. QED BY <1>6, <1>7, <1>8, <1>9 DEF IInv

-----------------------------------------------------------------------------
(* The connection                                                          *)

LEMMA ConnectKeeps ==
  ASSUME IInv, Connect
  PROVE  IInv'
<1>1. /\ UNCHANGED log /\ UNCHANGED cursor /\ UNCHANGED published /\ UNCHANGED serving
      /\ UNCHANGED requests /\ UNCHANGED tab
      /\ ~online /\ online' = TRUE /\ subs' = NoSubs /\ pushes' = <<[kind |-> "welcome"]>>
  BY DEF Connect, server
<1>2. pushes = <<>> /\ serving = <<>> /\ ToSet(pushes) = {}
  BY <1>1 DEF IInv, Told, ToSet
<1>3. PICK w : w = [kind |-> "welcome"]
  OBVIOUS
<1>4. w \in Pushes /\ w.kind = "welcome"
  BY <1>3 DEF Pushes, Welcomes
<1>5. pushes' = <<w>> /\ ToSet(pushes') = {w} /\ DOMAIN pushes' = {1} /\ pushes' \in Seq(Pushes)
  <2>1. pushes' = <<w>>
    BY <1>1, <1>3
  <2>2. DOMAIN <<w>> = {1} /\ <<w>>[1] = w /\ <<w>> \in Seq(Pushes)
    BY <1>4
  <2>3. ToSet(<<w>>) = {w}
    BY <2>2 DEF ToSet
  <2>4. QED BY <2>1, <2>2, <2>3
<1>6. Typed'
  <2>1. NoSubs \in [shell : BOOLEAN, thread : BOOLEAN]
    BY DEF NoSubs
  <2>2. QED BY <1>1, <1>5, <2>1 DEF IInv, Typed
<1>7. ~Greeted'
  BY <1>4, <1>5 DEF Greeted
<1>8. Told'
  BY <1>1, <1>4, <1>5 DEF IInv, Told
<1>9. Awaits'
  BY <1>1, <1>2 DEF IInv, Awaits, Outstanding
<1>10. Informed'
  BY <1>1, <1>4, <1>5 DEF IInv, Informed
<1>11. Wants' /\ Subscribes' /\ ShellSubscribes' /\ Fenced'
  BY <1>1, <1>7 DEF IInv, Wants, Subscribes, ShellSubscribes, Fenced
<1>12. QED BY <1>6, <1>8, <1>9, <1>10, <1>11 DEF IInv

LEMMA LoseKeeps ==
  ASSUME IInv, Lose
  PROVE  IInv'
<1>1. /\ UNCHANGED log /\ UNCHANGED cursor /\ UNCHANGED published
      /\ online' = FALSE /\ subs' = NoSubs
      /\ serving' = <<>> /\ pushes' = <<>> /\ requests' = <<>>
  BY DEF Lose, server
<1>2. /\ tab \in Tabs /\ tab.ensuring \in Int /\ tab.wanted \in BOOLEAN
      /\ tab.chain \in Seq(BOOLEAN)
  BY DEF IInv, Typed, Tabs
<1>3. PICK more : more = [i \in 1..tab.ensuring |-> tab.wanted]
  OBVIOUS
<1>4. more \in Seq(BOOLEAN) /\ \A i \in 1..Len(more) : more[i] = tab.wanted
  <2>1. PICK n \in Nat : 1..tab.ensuring = 1..n
    <3>1. CASE tab.ensuring < 0
      <4>1. 1..tab.ensuring = 1..0
        BY <1>2, <3>1
      <4>2. QED BY <4>1
    <3>2. CASE ~(tab.ensuring < 0)
      BY <1>2, <3>2
    <3>3. QED BY <3>1, <3>2
  <2>2. more = [i \in 1..n |-> tab.wanted]
    BY <1>3, <2>1
  <2>3. QED BY <1>2, <2>2
<1>5. PICK chain : chain = tab.chain \o more
  OBVIOUS
<1>6. chain \in Seq(BOOLEAN) /\ (chain # <<>> => Last(chain) = tab.wanted)
  <2>1. chain \in Seq(BOOLEAN) /\ Len(chain) = Len(tab.chain) + Len(more)
    BY <1>2, <1>4, <1>5
  <2>2. CASE more = <<>>
    <3>1. chain = tab.chain
      BY <1>2, <1>5, <2>2
    <3>2. QED BY <2>1, <3>1 DEF IInv, Wants
  <2>3. CASE more # <<>>
    <3>1. Len(more) \in 1..Len(more) /\ Len(tab.chain) \in Nat
      BY <1>2, <1>4, <2>3
    <3>2. chain[Len(tab.chain) + Len(more)] = more[Len(more)]
      BY <1>2, <1>4, <1>5, <3>1
    <3>3. QED BY <1>4, <2>1, <3>1, <3>2 DEF Last
  <2>4. QED BY <2>2, <2>3
<1>7. tab' = [tab EXCEPT !.awaiting = FALSE, !.asked = FALSE, !.ensuring = 0, !.chain = chain]
  BY <1>3, <1>5 DEF Lose
<1>8. /\ tab' \in Tabs /\ tab'.wanted = tab.wanted /\ tab'.chain = chain
      /\ tab'.shell = tab.shell /\ tab'.early = tab.early /\ ~tab'.asked /\ ~tab'.awaiting
  <2>1. tab \in Tabs /\ chain \in Seq(BOOLEAN)
    BY <1>2, <1>6
  <2>2. PICK v : v = [tab EXCEPT !.awaiting = FALSE, !.asked = FALSE]
    OBVIOUS
  <2>3. /\ v \in Tabs /\ v.wanted = tab.wanted /\ v.shell = tab.shell
        /\ v.early = tab.early /\ v.asked = FALSE /\ v.awaiting = FALSE
    BY <2>1, <2>2 DEF Tabs
  <2>4. PICK u, n : u = [v EXCEPT !.ensuring = n, !.chain = chain] /\ n = 0
    OBVIOUS
  <2>5. /\ u \in Tabs /\ u.wanted = v.wanted /\ u.chain = chain /\ u.shell = v.shell
        /\ u.early = v.early /\ u.asked = v.asked /\ u.awaiting = v.awaiting
    <3>1. n \in Int
      BY <2>4
    <3>2. QED BY <2>1, <2>3, <2>4, <3>1 DEF Tabs
  <2>6. tab' = u
    BY <1>7, <2>2, <2>4
  <2>7. QED BY <2>3, <2>5, <2>6
<1>9. ToSet(pushes') = {} /\ ToSet(serving') = {} /\ ToSet(requests') = {} /\ DOMAIN pushes' = {}
  BY <1>1 DEF ToSet
<1>10. Typed'
  <2>1. NoSubs \in [shell : BOOLEAN, thread : BOOLEAN]
    BY DEF NoSubs
  <2>2. <<>> \in Seq(Requests) /\ <<>> \in Seq(Services) /\ <<>> \in Seq(Pushes)
    OBVIOUS
  <2>3. QED BY <1>1, <1>8, <2>1, <2>2 DEF IInv, Typed
<1>11. Told'
  BY <1>1, <1>8, <1>9 DEF IInv, Told
<1>12. ~Greeted'
  BY <1>1 DEF Greeted
<1>13. Awaits' /\ Informed' /\ Wants'
  BY <1>6, <1>8, <1>9, <1>12 DEF Awaits, Informed, Wants
<1>14. Subscribes' /\ ShellSubscribes' /\ Fenced'
  BY <1>12 DEF Subscribes, ShellSubscribes, Fenced
<1>15. QED BY <1>10, <1>11, <1>13, <1>14 DEF IInv

-----------------------------------------------------------------------------
(* Nobody is stranded                                                      *)

LEMMA InitHolds == Init => IInv
<1> SUFFICES ASSUME Init PROVE IInv
  OBVIOUS
<1>1. PICK r : r = Request("shell", "ensure", 0)
  OBVIOUS
<1>2. r \in Requests
  BY <1>1, MadeRequest DEF Asking, Whats, Whos
<1>3. /\ requests = <<r>> /\ requests \in Seq(Requests)
  BY <1>1, <1>2 DEF Init
<1>4. tab \in Tabs
  <2>1. <<>> \in Seq(BOOLEAN) /\ <<>> \in Seq(Nat)
    OBVIOUS
  <2>2. QED BY <2>1 DEF Init, Tabs, Numbers
<1>5. /\ tab.chain = <<>> /\ tab.awaiting = FALSE /\ tab.asked = FALSE
      /\ tab.shell = None /\ tab.early = 0
  BY DEF Init
<1>6. /\ log = <<>> /\ cursor = 0 /\ published = 0 /\ subs = NoSubs /\ online = FALSE
      /\ serving = <<>> /\ pushes = <<>>
  BY DEF Init
<1>7. Typed
  <2>1. NoSubs \in [shell : BOOLEAN, thread : BOOLEAN]
    BY DEF NoSubs
  <2>2. /\ <<>> \in Seq(Services) /\ <<>> \in Seq(Pushes) /\ Len(<<>>) = 0
        /\ <<>> \in Seq(Letters \cup {"created", "end", "act"})
    OBVIOUS
  <2>3. log \in Seq(Letters \cup {"created", "end", "act"}) /\ Len(log) = 0
    BY <1>6, <2>2
  <2>4. cursor \in 0..Len(log) /\ published \in 0..Len(log)
    BY <1>6, <2>3
  <2>5. QED BY <1>3, <1>4, <1>6, <2>1, <2>2, <2>3, <2>4 DEF Typed
<1>8. ToSet(pushes) = {} /\ ToSet(serving) = {} /\ DOMAIN pushes = {}
  BY <1>6 DEF ToSet
<1>9. Told
  BY <1>5, <1>6, <1>8 DEF Told, None
<1>10. ~Greeted
  BY <1>6 DEF Greeted
<1>11. \A q \in ToSet(requests) : q.by # "event"
  <2>1. \A q \in ToSet(requests) : q = r
    BY <1>3 DEF ToSet
  <2>2. r.by = "ensure"
    BY <1>1, MadeRequest DEF Asking, Whats, Whos
  <2>3. QED BY <2>1, <2>2
<1>12. Awaits /\ Informed /\ Wants
  BY <1>5, <1>8, <1>10, <1>11 DEF Awaits, Informed, Wants
<1>13. Subscribes /\ ShellSubscribes /\ Fenced
  BY <1>10 DEF Subscribes, ShellSubscribes, Fenced
<1>14. QED BY <1>7, <1>9, <1>12, <1>13 DEF IInv

LEMMA StepKeeps == IInv /\ [Next]_vars => IInv'
<1> SUFFICES ASSUME IInv, [Next]_vars PROVE IInv'
  OBVIOUS
<1>1. CASE \E e \in Letters \cup {"created", "end", "act"} : Commit(e)
  BY <1>1, CommitKeeps
<1>2. CASE Publish
  BY <1>2, PublishKeeps
<1>3. CASE Serve
  BY <1>3, ServeKeeps
<1>4. CASE \E i \in DOMAIN serving : ReadSnapshot(i) \/ PushSnapshot(i)
  BY <1>4, ReadSnapshotKeeps, PushSnapshotKeeps
<1>5. CASE Hear
  BY <1>5, HearKeeps
<1>6. CASE Flush
  BY <1>6, FlushKeeps
<1>7. CASE Reconcile
  BY <1>7, ReconcileKeeps
<1>8. CASE Route
  BY <1>8, RouteKeeps
<1>9. CASE Connect
  BY <1>9, ConnectKeeps
<1>10. CASE Lose
  BY <1>10, LoseKeeps
<1>11. CASE UNCHANGED vars
  <2>1. UNCHANGED tab /\ UNCHANGED log /\ UNCHANGED cursor /\ UNCHANGED published
        /\ UNCHANGED subs /\ UNCHANGED serving /\ UNCHANGED pushes /\ UNCHANGED requests
        /\ UNCHANGED online
    BY <1>11 DEF vars, server
  <2>2. tab' \in Tabs
    BY <2>1 DEF IInv, Typed
  <2>3. QED BY <2>1, <2>2, AloneKeeps DEF Same, Alike
<1>12. QED
  BY <1>1, <1>2, <1>3, <1>4, <1>5, <1>6, <1>7, <1>8, <1>9, <1>10, <1>11
     DEF Next, Server, Router

\* No order of subscribing, leaving, losing the connection and creating the
\* thread strands the client (__root.tsx's event router, wsServer's scoped
\* subscriptions): once nothing is under way, it has the snapshot of the
\* thread on screen and is subscribed to its events.
THEOREM NobodyStranded == Spec => []NeverStranded
<1>1. Spec => []IInv
  BY InitHolds, StepKeeps, PTL DEF Spec
<1>2. QED BY <1>1, InvariantSuffices, PTL

-----------------------------------------------------------------------------
(* The thread's log                                                        *)

\* f is the function that the recursion in Places defines.
PlacesTo(f, s, kinds, n) ==
  f = [i \in 0..n |->
        IF i = 0 THEN <<>>
        ELSE IF s[i] \in kinds THEN Append(f[i - 1], i) ELSE f[i - 1]]

LEMMA PlacesExist ==
  ASSUME NEW s, NEW kinds, NEW k \in Nat
  PROVE  \E f : PlacesTo(f, s, kinds, k)
<1> DEFINE Q == {n \in Nat : \E f : PlacesTo(f, s, kinds, n)}
<1>1. 0 \in Q
  <2>1. PlacesTo([i \in 0..0 |-> <<>>], s, kinds, 0)
    BY DEF PlacesTo
  <2> QED BY <2>1
<1>2. ASSUME NEW n \in Nat, n \in Q PROVE n + 1 \in Q
  <2>1. PICK f : PlacesTo(f, s, kinds, n)
    BY <1>2
  <2> DEFINE top == IF s[n + 1] \in kinds THEN Append(f[n], n + 1) ELSE f[n]
             g == [i \in 0..(n + 1) |-> IF i = n + 1 THEN top ELSE f[i]]
  <2> HIDE DEF top
  <2>2. ASSUME NEW i \in 0..(n + 1)
        PROVE  g[i] = IF i = 0 THEN <<>>
                      ELSE IF s[i] \in kinds THEN Append(g[i - 1], i) ELSE g[i - 1]
    <3>1. CASE i = n + 1
      <4>1. i # 0 /\ i - 1 = n /\ n \in 0..(n + 1) /\ g[n] = f[n] /\ g[i] = top
        BY <3>1
      <4>2. QED BY <3>1, <4>1 DEF top
    <3>2. CASE i # n + 1
      <4>1. i \in 0..n /\ g[i] = f[i]
        BY <3>2
      <4>2. i # 0 => i - 1 \in 0..(n + 1) /\ i - 1 # n + 1
        BY <3>2
      <4>3. i # 0 => g[i - 1] = f[i - 1]
        BY <4>2
      <4>4. f[i] = IF i = 0 THEN <<>>
                   ELSE IF s[i] \in kinds THEN Append(f[i - 1], i) ELSE f[i - 1]
        BY <2>1, <4>1 DEF PlacesTo
      <4>5. QED BY <4>1, <4>3, <4>4
    <3>3. QED BY <3>1, <3>2
  <2>3. PlacesTo(g, s, kinds, n + 1)
    BY <2>2 DEF PlacesTo
  <2>4. QED BY <2>3
<1>3. Nat \subseteq Q
  <2> HIDE DEF Q
  <2>1. QED BY <1>1, <1>2, InductionOn
<1>4. QED BY <1>3

\* What it says of a number depends on the log up to there only.
LEMMA PlacesEqual ==
  ASSUME NEW s, NEW r, NEW kinds, NEW m \in Nat, NEW n \in Nat, NEW k \in Nat, k <= m, k <= n,
         \A i \in 1..k : s[i] = r[i],
         NEW f, PlacesTo(f, s, kinds, m), NEW g, PlacesTo(g, r, kinds, n)
  PROVE  f[k] = g[k]
<1> DEFINE Q == {i \in Nat : i <= k => f[i] = g[i]}
<1>1. 0 \in Q
  <2>1. f[0] = <<>> /\ g[0] = <<>>
    BY DEF PlacesTo
  <2>2. QED BY <2>1
<1>2. ASSUME NEW i \in Nat, i \in Q PROVE i + 1 \in Q
  <2> SUFFICES ASSUME i + 1 <= k PROVE f[i + 1] = g[i + 1]
    OBVIOUS
  <2>1. /\ i + 1 \in 0..m /\ i + 1 \in 0..n /\ i + 1 \in 1..k /\ i + 1 # 0 /\ (i + 1) - 1 = i
        /\ i <= k
    OBVIOUS
  <2>2. f[i] = g[i] /\ s[i + 1] = r[i + 1]
    BY <1>2, <2>1
  <2>3. f[i + 1] = IF s[i + 1] \in kinds THEN Append(f[i], i + 1) ELSE f[i]
    BY <2>1 DEF PlacesTo
  <2>4. g[i + 1] = IF r[i + 1] \in kinds THEN Append(g[i], i + 1) ELSE g[i]
    BY <2>1 DEF PlacesTo
  <2>5. QED BY <2>2, <2>3, <2>4
<1>3. Nat \subseteq Q
  <2> HIDE DEF Q
  <2>1. QED BY <1>1, <1>2, InductionOn
<1>4. QED BY <1>3

LEMMA PlacesDef ==
  ASSUME NEW kinds, NEW n \in Nat
  PROVE  \E f : PlacesTo(f, log, kinds, n) /\ Places(n, kinds) = f[n]
<1>1. PICK f : PlacesTo(f, log, kinds, n)
  BY PlacesExist
<1>2. QED BY <1>1 DEF PlacesTo, Places

\* One more event adds its place, if it is of the kinds.
LEMMA PlacesNext ==
  ASSUME NEW kinds, NEW n \in Nat
  PROVE  /\ Places(0, kinds) = <<>>
         /\ Places(n + 1, kinds) =
              IF log[n + 1] \in kinds THEN Append(Places(n, kinds), n + 1)
              ELSE Places(n, kinds)
<1>1. PICK f : PlacesTo(f, log, kinds, n) /\ Places(n, kinds) = f[n]
  BY PlacesDef
<1>2. PICK k \in Nat : k = n + 1 /\ k \in 0..k /\ k # 0 /\ k - 1 = n
  OBVIOUS
<1>3. PICK g : PlacesTo(g, log, kinds, k) /\ Places(k, kinds) = g[k]
  BY PlacesDef
<1>4. f[n] = g[n]
  BY <1>1, <1>2, <1>3, PlacesEqual
<1>5. g[k] = IF log[k] \in kinds THEN Append(g[k - 1], k) ELSE g[k - 1]
  BY <1>2, <1>3 DEF PlacesTo
<1>6. Places(0, kinds) = <<>>
  <2>1. PICK h : PlacesTo(h, log, kinds, 0) /\ Places(0, kinds) = h[0]
    BY PlacesDef
  <2>2. QED BY <2>1 DEF PlacesTo
<1>7. QED BY <1>1, <1>2, <1>3, <1>4, <1>5, <1>6

\* Places are those of events before n, of the kinds.
LEMMA PlacesType ==
  ASSUME NEW kinds, NEW n \in Nat
  PROVE  /\ Places(n, kinds) \in Seq(1..n)
         /\ \A i \in DOMAIN Places(n, kinds) : log[Places(n, kinds)[i]] \in kinds
<1> DEFINE Good(m) == /\ Places(m, kinds) \in Seq(1..m)
                      /\ \A i \in DOMAIN Places(m, kinds) : log[Places(m, kinds)[i]] \in kinds
           Q == {m \in Nat : Good(m)}
<1>1. 0 \in Q
  <2>1. Places(0, kinds) = <<>> /\ <<>> \in Seq(1..0) /\ DOMAIN <<>> = {}
    BY PlacesNext
  <2>2. QED BY <2>1
<1>2. ASSUME NEW m \in Nat, m \in Q PROVE m + 1 \in Q
  <2>1. PICK p, q : p = Places(m, kinds) /\ q = Places(m + 1, kinds)
    OBVIOUS
  <2>2. p \in Seq(1..m) /\ \A i \in DOMAIN p : log[p[i]] \in kinds
    BY <1>2, <2>1
  <2>3. p \in Seq(1..(m + 1)) /\ m + 1 \in 1..(m + 1)
    BY <2>2
  <2>4. q = IF log[m + 1] \in kinds THEN Append(p, m + 1) ELSE p
    BY <2>1, PlacesNext
  <2>5. q \in Seq(1..(m + 1)) /\ \A i \in DOMAIN q : log[q[i]] \in kinds
    <3>1. CASE log[m + 1] \in kinds
      BY <2>2, <2>3, <2>4, <3>1, Appended
    <3>2. CASE log[m + 1] \notin kinds
      BY <2>2, <2>3, <2>4, <3>2
    <3>3. QED BY <3>1, <3>2
  <2>6. QED BY <2>1, <2>5
<1>3. Nat \subseteq Q
  <2> HIDE DEF Q
  <2>1. QED BY <1>1, <1>2, InductionOn
<1>4. QED BY <1>3

\* Places stay as the log grows.
LEMMA PlacesStay ==
  ASSUME NEW kinds, NEW n \in Nat, \A i \in 1..n : log[i]' = log[i]
  PROVE  Places(n, kinds)' = Places(n, kinds)
<1>1. PICK f : PlacesTo(f, log, kinds, n) /\ Places(n, kinds) = f[n]
  BY PlacesDef
<1>2. PICK g : PlacesTo(g, log', kinds, n) /\ Places(n, kinds)' = g[n]
  <2>1. PICK g : PlacesTo(g, log', kinds, n)
    BY PlacesExist
  <2>2. QED BY <2>1 DEF PlacesTo, Places
<1>3. \A i \in 1..n : log[i] = (log')[i]
  OBVIOUS
<1>4. QED BY <1>1, <1>2, <1>3, PlacesEqual

\* The text grows by the pieces.
LEMMA TextNext ==
  ASSUME NEW n \in Nat
  PROVE  /\ TextOf(0) = <<>>
         /\ TextOf(n) \in Seq(Letters)
         /\ TextOf(n + 1) = IF IsPiece(n + 1) THEN Append(TextOf(n), log[n + 1]) ELSE TextOf(n)
<1>1. PICK p, q : p = Places(n, Letters) /\ q = Places(n + 1, Letters)
  OBVIOUS
<1>2. p \in Seq(1..n) /\ \A i \in DOMAIN p : log[p[i]] \in Letters
  BY <1>1, PlacesType
<1>3. q = IF log[n + 1] \in Letters THEN Append(p, n + 1) ELSE p
  BY <1>1, PlacesNext
<1>4. TextOf(n) = [i \in DOMAIN p |-> log[p[i]]] /\ TextOf(n + 1) = [i \in DOMAIN q |-> log[q[i]]]
  BY <1>1 DEF TextOf
<1>5. TextOf(n) \in Seq(Letters)
  BY <1>2, <1>4
<1>6. TextOf(0) = <<>>
  <2>1. Places(0, Letters) = <<>>
    BY PlacesNext
  <2>2. QED BY <2>1 DEF TextOf
<1>7. CASE IsPiece(n + 1)
  <2>1. p \in Seq(Nat) /\ n + 1 \in Nat /\ q = Append(p, n + 1)
    BY <1>2, <1>3, <1>7 DEF IsPiece
  <2>2. PICK k \in Nat : k = Len(p) /\ DOMAIN p = 1..k
    BY <2>1
  <2>3. /\ DOMAIN q = 1..(k + 1) /\ q[k + 1] = n + 1 /\ \A i \in 1..k : q[i] = p[i]
    BY <2>1, <2>2, Appended
  <2>4. PICK t, x : t = TextOf(n) /\ x = log[n + 1]
    OBVIOUS
  <2>5. t \in Seq(Letters) /\ x \in Letters /\ Len(t) = k /\ DOMAIN t = 1..k
        /\ \A i \in 1..k : t[i] = log[p[i]]
    BY <1>4, <1>5, <1>7, <2>2, <2>4 DEF IsPiece
  <2>6. PICK u : u = Append(t, x)
    OBVIOUS
  <2>7. /\ u \in Seq(Letters) /\ DOMAIN u = 1..(k + 1) /\ u[k + 1] = x
        /\ \A i \in 1..k : u[i] = t[i]
    BY <2>5, <2>6, Appended
  <2>8. ASSUME NEW i \in 1..(k + 1) PROVE u[i] = log[q[i]]
    <3>1. CASE i = k + 1
      BY <2>3, <2>4, <2>7, <3>1
    <3>2. CASE i # k + 1
      <4>1. i \in 1..k
        BY <3>2
      <4>2. QED BY <2>3, <2>5, <2>7, <4>1
    <3>3. QED BY <3>1, <3>2
  <2>9. u = [i \in DOMAIN q |-> log[q[i]]]
    <3>1. u = [i \in 1..(k + 1) |-> u[i]]
      BY <2>7
    <3>2. QED BY <2>3, <2>8, <3>1
  <2>10. TextOf(n + 1) = u
    BY <1>4, <2>9
  <2>11. QED BY <1>5, <1>6, <1>7, <2>4, <2>6, <2>10
<1>8. CASE ~IsPiece(n + 1)
  BY <1>3, <1>4, <1>5, <1>8, <1>6 DEF IsPiece
<1>9. QED BY <1>7, <1>8

\* s is how t begins.
Begins(s, t) == Len(s) <= Len(t) /\ \A i \in 1..Len(s) : s[i] = t[i]

LEMMA TextGrows ==
  ASSUME NEW m \in Nat, NEW n \in Nat, m <= n
  PROVE  Begins(TextOf(m), TextOf(n))
<1> DEFINE Q == {k \in Nat : Begins(TextOf(m), TextOf(m + k))}
<1>1. 0 \in Q
  <2>1. PICK t : t = TextOf(m)
    OBVIOUS
  <2>2. t \in Seq(Letters) /\ m + 0 = m
    BY <2>1, TextNext
  <2>3. QED BY <2>1, <2>2 DEF Begins
<1>2. ASSUME NEW k \in Nat, k \in Q PROVE k + 1 \in Q
  <2>1. PICK s, t, u : s = TextOf(m) /\ t = TextOf(m + k) /\ u = TextOf(m + (k + 1))
    OBVIOUS
  <2>2. PICK i \in Nat : i = m + k /\ m + (k + 1) = i + 1
    OBVIOUS
  <2>3. /\ s \in Seq(Letters) /\ t \in Seq(Letters)
        /\ u = IF IsPiece(i + 1) THEN Append(t, log[i + 1]) ELSE t
    BY <2>1, <2>2, TextNext
  <2>4. Begins(s, t)
    BY <1>2, <2>1
  <2>5. Begins(s, u)
    <3>1. CASE IsPiece(i + 1)
      <4>1. PICK x : x = log[i + 1] /\ x \in Letters /\ u = Append(t, x)
        BY <2>3, <3>1 DEF IsPiece
      <4>2. QED BY <2>3, <2>4, <4>1, Appended DEF Begins
    <3>2. CASE ~IsPiece(i + 1)
      BY <2>3, <2>4, <3>2
    <3>3. QED BY <3>1, <3>2
  <2>6. QED BY <2>1, <2>5
<1>3. Nat \subseteq Q
  <2> HIDE DEF Q
  <2>1. QED BY <1>1, <1>2, InductionOn
<1>4. n - m \in Nat /\ m + (n - m) = n
  OBVIOUS
<1>5. QED BY <1>3, <1>4

LEMMA BeginsSame ==
  ASSUME NEW S, NEW s \in Seq(S), NEW t \in Seq(S), Begins(s, t)
  PROVE  /\ IsPrefix(s, t)
         /\ Len(t) <= Len(s) => s = t
<1>1. Len(s) \in Nat /\ Len(t) \in Nat /\ DOMAIN s = 1..Len(s) /\ DOMAIN t = 1..Len(t)
  OBVIOUS
<1>2. Len(t) <= Len(s) => s = t
  <2> SUFFICES ASSUME Len(t) <= Len(s) PROVE s = t
    OBVIOUS
  <2>1. Len(s) <= Len(t)
    BY DEF Begins
  <2>2. PICK i \in Nat, j \in Nat : i = Len(s) /\ j = Len(t) /\ i <= j /\ j <= i
    BY <1>1, <2>1
  <2>3. i = j
    BY <2>2
  <2>4. QED BY <1>1, <2>2, <2>3 DEF Begins
<1>3. SubSeq(s, 1, Len(s)) = SubSeq(t, 1, Len(s))
  <2>1. SubSeq(s, 1, Len(s)) = [i \in 1..Len(s) |-> s[i]]
    OBVIOUS
  <2>2. SubSeq(t, 1, Len(s)) = [i \in 1..Len(s) |-> t[i]]
    BY <1>1 DEF Begins
  <2>3. QED BY <2>1, <2>2 DEF Begins
<1>4. QED BY <1>1, <1>2, <1>3 DEF Begins, IsPrefix

\* What shows the first n events.
Shows(s, n) == s.here = Rows(n).here /\ s.text = TextOf(n) /\ s.ended = Rows(n).ended

RowsHave(n) ==
  /\ Rows(n).here = (\E i \in 1..n : IsMessage(i)) /\ Rows(n).text = TextOf(n)
  /\ Rows(n).ended = (\E i \in 1..n : log[i] = "end") /\ Rows(n).acts = Places(n, {"act"})

LEMMA RowsParts ==
  ASSUME NEW n
  PROVE  RowsHave(n)
BY DEF RowsHave, Rows

\* ... shows less than what shows more of them.
LEMMA RowsGrow ==
  ASSUME NEW m \in Nat, NEW n \in Nat, m <= n
  PROVE  /\ Rows(m).here => Rows(n).here
         /\ Rows(m).ended => Rows(n).ended
         /\ Begins(TextOf(m), TextOf(n))
<1>1. 1..m \subseteq 1..n
  OBVIOUS
<1>2. QED BY <1>1, RowsParts, TextGrows DEF RowsHave

\* Text there is, is of a message.
LEMMA TextHere ==
  ASSUME NEW n \in Nat, TextOf(n) # <<>>
  PROVE  Rows(n).here
<1> DEFINE Q == {k \in Nat : TextOf(k) = <<>> \/ \E i \in 1..k : IsMessage(i)}
<1>1. 0 \in Q
  BY TextNext
<1>2. ASSUME NEW k \in Nat, k \in Q PROVE k + 1 \in Q
  <2>1. TextOf(k + 1) = IF IsPiece(k + 1) THEN Append(TextOf(k), log[k + 1]) ELSE TextOf(k)
    BY TextNext
  <2>2. IsPiece(k + 1) => IsMessage(k + 1)
    BY DEF IsMessage
  <2>3. k + 1 \in 1..(k + 1) /\ 1..k \subseteq 1..(k + 1)
    OBVIOUS
  <2>4. TextOf(k + 1) = <<>> \/ \E i \in 1..(k + 1) : IsMessage(i)
    BY <1>2, <2>1, <2>2, <2>3
  <2>5. QED BY <2>4
<1>3. Nat \subseteq Q
  <2> HIDE DEF Q
  <2>1. QED BY <1>1, <1>2, InductionOn
<1>4. QED BY <1>3, RowsParts DEF RowsHave

\* A piece among the first n events is in the text.
LEMMA TextHas ==
  ASSUME NEW n \in Nat, NEW i \in 1..n, IsPiece(i)
  PROVE  TextOf(n) # <<>>
<1>1. PICK k \in Nat : i = k + 1 /\ k + 1 <= n
  <2>1. i - 1 \in Nat /\ i = (i - 1) + 1 /\ (i - 1) + 1 <= n
    OBVIOUS
  <2>2. QED BY <2>1
<1>2. PICK t, x : t = TextOf(k) /\ x = log[k + 1]
  OBVIOUS
<1>3. t \in Seq(Letters) /\ x \in Letters /\ TextOf(k + 1) = Append(t, x)
  BY <1>1, <1>2, TextNext DEF IsPiece
<1>4. Len(TextOf(k + 1)) = Len(t) + 1 /\ Len(t) \in Nat
  BY <1>3, Appended
<1>5. Begins(TextOf(k + 1), TextOf(n))
  BY <1>1, TextGrows
<1>6. QED BY <1>4, <1>5 DEF Begins

-----------------------------------------------------------------------------
(* What the store makes of events                                          *)

Segments == [act : Nat, text : Seq(Letters), ended : BOOLEAN]

\* e is made of the events from the one after a to b.
Spans(e, a, b) ==
  /\ e \in Segments
  /\ a < b
  /\ \/ e.act # 0 /\ b = a + 1 /\ e.act = b /\ log[b] = "act"
     \/ /\ e.act = 0 /\ \A i \in (a + 1)..b : IsMessage(i)
        /\ TextOf(b) = TextOf(a) \o e.text
        /\ e.ended = (log[b] = "end")

\* c is where the events of all begin and end, between a and m.
Cuts(c, all, a, z, m) ==
  /\ all \in Seq(Segments)
  /\ c \in [0..Len(all) -> a..m] /\ c[0] = a /\ c[Len(all)] = z
  /\ \A j \in 1..Len(all) : Spans(all[j], c[j - 1], c[j])

CoalescedTo(f, events, n) ==
  f = [i \in 0..n |-> IF i = 0 THEN <<>> ELSE Joined(f[i - 1], events[i])]

LEMMA CoalescedDef ==
  ASSUME NEW events, Len(events) \in Nat
  PROVE  \E f : CoalescedTo(f, events, Len(events)) /\ Coalesced(events) = f[Len(events)]
<1> DEFINE Q == {n \in Nat : \E f : CoalescedTo(f, events, n)}
<1>1. 0 \in Q
  <2>1. CoalescedTo([i \in 0..0 |-> <<>>], events, 0)
    BY DEF CoalescedTo
  <2> QED BY <2>1
<1>2. ASSUME NEW n \in Nat, n \in Q PROVE n + 1 \in Q
  <2>1. PICK f : CoalescedTo(f, events, n)
    BY <1>2
  <2> DEFINE top == Joined(f[n], events[n + 1])
             g == [i \in 0..(n + 1) |-> IF i = n + 1 THEN top ELSE f[i]]
  <2> HIDE DEF top
  <2>2. ASSUME NEW i \in 0..(n + 1)
        PROVE  g[i] = IF i = 0 THEN <<>> ELSE Joined(g[i - 1], events[i])
    <3>1. CASE i = n + 1
      <4>1. i # 0 /\ i - 1 = n /\ n \in 0..(n + 1) /\ g[n] = f[n] /\ g[i] = top
        BY <3>1
      <4>2. QED BY <3>1, <4>1 DEF top
    <3>2. CASE i # n + 1
      <4>1. i \in 0..n /\ g[i] = f[i]
        BY <3>2
      <4>2. i # 0 => i - 1 \in 0..(n + 1) /\ i - 1 # n + 1
        BY <3>2
      <4>3. i # 0 => g[i - 1] = f[i - 1]
        BY <4>2
      <4>4. f[i] = IF i = 0 THEN <<>> ELSE Joined(f[i - 1], events[i])
        BY <2>1, <4>1 DEF CoalescedTo
      <4>5. QED BY <4>1, <4>3, <4>4
    <3>3. QED BY <3>1, <3>2
  <2>3. CoalescedTo(g, events, n + 1)
    BY <2>2 DEF CoalescedTo
  <2>4. QED BY <2>3
<1>3. Nat \subseteq Q
  <2> HIDE DEF Q
  <2>1. QED BY <1>1, <1>2, InductionOn
<1>4. PICK f : CoalescedTo(f, events, Len(events))
  BY <1>3
<1>5. QED BY <1>4 DEF CoalescedTo, Coalesced

AppliedTo(f, thread, all, n) ==
  f = [i \in 0..n |-> IF i = 0 THEN thread ELSE AppliedEvent(f[i - 1], all[i])]

LEMMA AppliedExist ==
  ASSUME NEW thread, NEW all, NEW k \in Nat
  PROVE  \E f : AppliedTo(f, thread, all, k)
<1> DEFINE Q == {n \in Nat : \E f : AppliedTo(f, thread, all, n)}
<1>1. 0 \in Q
  <2>1. AppliedTo([i \in 0..0 |-> thread], thread, all, 0)
    BY DEF AppliedTo
  <2> QED BY <2>1
<1>2. ASSUME NEW n \in Nat, n \in Q PROVE n + 1 \in Q
  <2>1. PICK f : AppliedTo(f, thread, all, n)
    BY <1>2
  <2> DEFINE top == AppliedEvent(f[n], all[n + 1])
             g == [i \in 0..(n + 1) |-> IF i = n + 1 THEN top ELSE f[i]]
  <2> HIDE DEF top
  <2>2. ASSUME NEW i \in 0..(n + 1)
        PROVE  g[i] = IF i = 0 THEN thread ELSE AppliedEvent(g[i - 1], all[i])
    <3>1. CASE i = n + 1
      <4>1. i # 0 /\ i - 1 = n /\ n \in 0..(n + 1) /\ g[n] = f[n] /\ g[i] = top
        BY <3>1
      <4>2. QED BY <3>1, <4>1 DEF top
    <3>2. CASE i # n + 1
      <4>1. i \in 0..n /\ g[i] = f[i]
        BY <3>2
      <4>2. i # 0 => i - 1 \in 0..(n + 1) /\ i - 1 # n + 1
        BY <3>2
      <4>3. i # 0 => g[i - 1] = f[i - 1]
        BY <4>2
      <4>4. f[i] = IF i = 0 THEN thread ELSE AppliedEvent(f[i - 1], all[i])
        BY <2>1, <4>1 DEF AppliedTo
      <4>5. QED BY <4>1, <4>3, <4>4
    <3>3. QED BY <3>1, <3>2
  <2>3. AppliedTo(g, thread, all, n + 1)
    BY <2>2 DEF AppliedTo
  <2>4. QED BY <2>3
<1>3. Nat \subseteq Q
  <2> HIDE DEF Q
  <2>1. QED BY <1>1, <1>2, InductionOn
<1>4. QED BY <1>3

LEMMA AppliedEqual ==
  ASSUME NEW thread, NEW all, NEW m \in Nat, NEW n \in Nat, m <= n,
         NEW f, AppliedTo(f, thread, all, m), NEW g, AppliedTo(g, thread, all, n)
  PROVE  f[m] = g[m]
<1> DEFINE Q == {i \in Nat : i <= m => f[i] = g[i]}
<1>1. 0 \in Q
  <2>1. f[0] = thread /\ g[0] = thread
    BY DEF AppliedTo
  <2>2. QED BY <2>1
<1>2. ASSUME NEW i \in Nat, i \in Q PROVE i + 1 \in Q
  <2> SUFFICES ASSUME i + 1 <= m PROVE f[i + 1] = g[i + 1]
    OBVIOUS
  <2>1. i + 1 \in 0..m /\ i + 1 \in 0..n /\ i + 1 # 0 /\ (i + 1) - 1 = i /\ i <= m
    OBVIOUS
  <2>2. f[i] = g[i]
    BY <1>2, <2>1
  <2>3. f[i + 1] = AppliedEvent(f[i], all[i + 1])
    BY <2>1 DEF AppliedTo
  <2>4. g[i + 1] = AppliedEvent(g[i], all[i + 1])
    BY <2>1 DEF AppliedTo
  <2>5. QED BY <2>2, <2>3, <2>4
<1>3. Nat \subseteq Q
  <2> HIDE DEF Q
  <2>1. QED BY <1>1, <1>2, InductionOn
<1>4. QED BY <1>3

LEMMA AppliedFirstDef ==
  ASSUME NEW thread, NEW all, NEW n \in Nat
  PROVE  \E f : AppliedTo(f, thread, all, n) /\ AppliedFirst(thread, all, n) = f[n]
<1>1. PICK f : AppliedTo(f, thread, all, n)
  BY AppliedExist
<1>2. QED BY <1>1 DEF AppliedTo, AppliedFirst

\* The fold, step by step.
LEMMA AppliedNext ==
  ASSUME NEW thread, NEW all, NEW n \in Nat
  PROVE  /\ AppliedFirst(thread, all, 0) = thread
         /\ AppliedFirst(thread, all, n + 1) =
              AppliedEvent(AppliedFirst(thread, all, n), all[n + 1])
<1>1. PICK f : AppliedTo(f, thread, all, n) /\ AppliedFirst(thread, all, n) = f[n]
  BY AppliedFirstDef
<1>2. PICK k \in Nat : k = n + 1 /\ k \in 0..k /\ k # 0 /\ k - 1 = n /\ n <= k
  OBVIOUS
<1>3. PICK g : AppliedTo(g, thread, all, k) /\ AppliedFirst(thread, all, k) = g[k]
  BY AppliedFirstDef
<1>4. f[n] = g[n]
  BY <1>1, <1>2, <1>3, AppliedEqual
<1>5. g[k] = AppliedEvent(g[k - 1], all[k])
  BY <1>2, <1>3 DEF AppliedTo
<1>6. AppliedFirst(thread, all, 0) = thread
  <2>1. PICK h : AppliedTo(h, thread, all, 0) /\ AppliedFirst(thread, all, 0) = h[0]
    BY AppliedFirstDef
  <2>2. QED BY <2>1 DEF AppliedTo
<1>7. QED BY <1>1, <1>2, <1>3, <1>4, <1>5, <1>6

\* One segment more.
LEMMA CutsAppend ==
  ASSUME NEW c, NEW all, NEW a \in Nat, NEW z \in Nat, NEW m \in Nat, Cuts(c, all, a, z, m),
         NEW e, NEW w \in a..m, Spans(e, z, w)
  PROVE  \E d : Cuts(d, Append(all, e), a, w, m)
<1>1. PICK n \in Nat : n = Len(all) /\ DOMAIN all = 1..n
  BY DEF Cuts
<1>2. /\ all \in Seq(Segments) /\ c \in [0..n -> a..m] /\ c[0] = a /\ c[n] = z
      /\ \A j \in 1..n : Spans(all[j], c[j - 1], c[j])
  BY <1>1 DEF Cuts
<1>3. e \in Segments
  BY DEF Spans
<1>4. PICK more : more = Append(all, e)
  OBVIOUS
<1>5. /\ more \in Seq(Segments) /\ Len(more) = n + 1 /\ more[n + 1] = e
      /\ \A i \in 1..n : more[i] = all[i]
  BY <1>1, <1>2, <1>3, <1>4, Appended
<1>6. PICK d : d = [i \in 0..(n + 1) |-> IF i = n + 1 THEN w ELSE c[i]]
  OBVIOUS
<1>7. d \in [0..(n + 1) -> a..m] /\ d[0] = a /\ d[n + 1] = w /\ \A i \in 0..n : d[i] = c[i]
  BY <1>2, <1>6
<1>8. ASSUME NEW j \in 1..(n + 1) PROVE Spans(more[j], d[j - 1], d[j])
  <2>1. CASE j = n + 1
    <3>1. j - 1 = n /\ n \in 0..n
      BY <2>1
    <3>2. QED BY <1>2, <1>5, <1>7, <2>1, <3>1
  <2>2. CASE j # n + 1
    <3>1. j \in 1..n /\ j - 1 \in 0..n /\ j \in 0..n
      BY <2>2
    <3>2. QED BY <1>2, <1>5, <1>7, <3>1
  <2>3. QED BY <2>1, <2>2
<1>9. Cuts(d, more, a, w, m)
  BY <1>5, <1>7, <1>8 DEF Cuts
<1>10. QED BY <1>4, <1>9

\* ... and one less.
LEMMA CutsFront ==
  ASSUME NEW c, NEW all, NEW a \in Nat, NEW z \in Nat, NEW m \in Nat, Cuts(c, all, a, z, m),
         all # <<>>
  PROVE  \E y \in a..m : \E d : Cuts(d, Front(all), a, y, m) /\ Spans(Last(all), y, z)
<1>1. PICK n \in Nat : n = Len(all) - 1 /\ Len(all) = n + 1 /\ DOMAIN all = 1..(n + 1)
  <2>1. all \in Seq(Segments)
    BY DEF Cuts
  <2>2. Len(all) \in Nat /\ Len(all) # 0 /\ DOMAIN all = 1..Len(all)
    BY <2>1
  <2>3. Len(all) - 1 \in Nat /\ Len(all) = (Len(all) - 1) + 1
    BY <2>2
  <2>4. QED BY <2>2, <2>3
<1>2. /\ all \in Seq(Segments) /\ c \in [0..(n + 1) -> a..m] /\ c[0] = a /\ c[n + 1] = z
      /\ \A j \in 1..(n + 1) : Spans(all[j], c[j - 1], c[j])
  BY <1>1 DEF Cuts
<1>3. PICK less : less = Front(all)
  OBVIOUS
<1>4. less \in Seq(Segments) /\ Len(less) = n /\ \A i \in 1..n : less[i] = all[i]
  <2>1. less = SubSeq(all, 1, n)
    BY <1>1, <1>3 DEF Front
  <2>2. QED BY <1>1, <1>2, <2>1
<1>5. PICK d : d = [i \in 0..n |-> c[i]]
  OBVIOUS
<1>6. d \in [0..n -> a..m] /\ d[0] = a /\ \A i \in 0..n : d[i] = c[i]
  BY <1>2, <1>5
<1>7. ASSUME NEW j \in 1..n PROVE Spans(less[j], d[j - 1], d[j])
  <2>1. j \in 0..n /\ j - 1 \in 0..n /\ j \in 1..(n + 1)
    OBVIOUS
  <2>2. QED BY <1>2, <1>4, <1>6, <2>1
<1>8. PICK y \in a..m : y = d[n]
  BY <1>6
<1>9. Cuts(d, less, a, y, m)
  BY <1>4, <1>6, <1>7, <1>8 DEF Cuts
<1>10. Spans(Last(all), y, z)
  <2>1. n + 1 \in 1..(n + 1) /\ (n + 1) - 1 = n /\ n \in 0..n
    OBVIOUS
  <2>2. QED BY <1>1, <1>2, <1>6, <1>8, <2>1 DEF Last
<1>11. QED BY <1>3, <1>9, <1>10

Piece(n) == IF IsPiece(n) THEN <<log[n]>> ELSE <<>>

LEMMA TextAfter ==
  ASSUME NEW n \in Nat
  PROVE  /\ Piece(n + 1) \in Seq(Letters)
         /\ TextOf(n + 1) = TextOf(n) \o Piece(n + 1)
<1>1. PICK t, x : t = TextOf(n) /\ x = log[n + 1]
  OBVIOUS
<1>2. t \in Seq(Letters) /\ TextOf(n + 1) = IF IsPiece(n + 1) THEN Append(t, x) ELSE t
  BY <1>1, TextNext
<1>3. CASE IsPiece(n + 1)
  <2>1. x \in Letters /\ Piece(n + 1) = <<x>>
    BY <1>1, <1>3 DEF IsPiece, Piece
  <2>2. <<x>> \in Seq(Letters) /\ Append(t, x) = t \o <<x>>
    BY <1>2, <2>1
  <2>3. QED BY <1>1, <1>2, <1>3, <2>1, <2>2
<1>4. CASE ~IsPiece(n + 1)
  <2>1. t \o <<>> = t /\ <<>> \in Seq(Letters)
    BY <1>2
  <2>2. QED BY <1>1, <1>2, <1>4, <2>1 DEF Piece
<1>5. QED BY <1>3, <1>4

\* Events are of one sort.
LEMMA Sorts ==
  ASSUME NEW n
  PROVE  /\ IsMessage(n) => log[n] # "act" /\ log[n] # "created"
         /\ IsMessage(n) => ((log[n] = "end") <=> ~IsPiece(n))
         /\ log[n] \in {"act", "created"} => ~IsMessage(n)
BY ReplicaAssumption DEF IsMessage, IsPiece

LEMMA JoinedSpans ==
  ASSUME NEW all, NEW a \in Nat, NEW z \in Nat, NEW m \in Nat, NEW c, Cuts(c, all, a, z, m),
         z + 1 <= m, IsMessage(z + 1) \/ log[z + 1] = "act", a <= z
  PROVE  \E d : Cuts(d, Joined(all, z + 1), a, z + 1, m)
<1>1. PICK n \in a..m : n = z + 1
  OBVIOUS
<1>2. Piece(n) \in Seq(Letters) /\ TextOf(n) = TextOf(z) \o Piece(n)
  BY <1>1, TextAfter
<1>3. n \in Nat /\ z < n /\ n # 0
  BY <1>1
<1>4. CASE ~IsMessage(n)
  <2>1. PICK e : e = Segment(n, <<>>, FALSE)
    OBVIOUS
  <2>2. e \in Segments /\ e.act = n
    <3>1. <<>> \in Seq(Letters)
      OBVIOUS
    <3>2. QED BY <1>3, <2>1, <3>1 DEF Segments, Segment
  <2>3. Spans(e, z, n)
    BY <1>1, <1>3, <1>4, <2>2 DEF Spans
  <2>4. Joined(all, n) = Append(all, e)
    BY <1>4, <2>1 DEF Joined
  <2>5. QED BY <1>1, <2>3, <2>4, CutsAppend
<1>5. CASE IsMessage(n)
  <2>1. (log[n] = "end") <=> ~IsPiece(n)
    BY <1>5, Sorts
  <2>2. CASE all # <<>> /\ Last(all).act = 0
    <3> PICK y \in a..m : \E d : Cuts(d, Front(all), a, y, m) /\ Spans(Last(all), y, z)
      BY <2>2, CutsFront
    <3>1. PICK d : Cuts(d, Front(all), a, y, m) /\ Spans(Last(all), y, z)
      OBVIOUS
    <3>2. PICK l, x : l = Last(all) /\ x = l.text
      OBVIOUS
    <3>3. /\ l \in Segments /\ y < z /\ l.act = 0 /\ TextOf(z) = TextOf(y) \o x
          /\ \A i \in (y + 1)..z : IsMessage(i)
      BY <2>2, <3>1, <3>2 DEF Spans
    <3>4. x \in Seq(Letters)
      BY <3>2, <3>3 DEF Segments
    <3>5. PICK e : e = Segment(0, x \o Piece(n), ~IsPiece(n))
      OBVIOUS
    <3>6. x \o Piece(n) \in Seq(Letters)
      BY <1>2, <3>4
    <3>7. (~IsPiece(n)) \in BOOLEAN
      BY DEF IsPiece
    <3>8. /\ e \in Segments /\ e.act = 0 /\ e.text = x \o Piece(n)
          /\ e.ended = (log[n] = "end")
      <4>1. (~IsPiece(n)) = (log[n] = "end")
        BY <2>1, <3>7
      <4>2. QED BY <3>5, <3>6, <3>7, <4>1 DEF Segments, Segment
    <3>9. TextOf(n) = TextOf(y) \o e.text
      <4>1. y \in Nat
        OBVIOUS
      <4>2. TextOf(y) \in Seq(Letters)
        BY <4>1, TextNext
      <4>3. PICK t, p : t = TextOf(y) /\ p = Piece(n)
        OBVIOUS
      <4>4. (t \o x) \o p = t \o (x \o p)
        <5>1. t \in Seq(Letters) /\ p \in Seq(Letters)
          BY <1>2, <4>2, <4>3
        <5>2. QED BY <3>4, <5>1, ConcatAssociative, SMTT(30)
      <4>5. QED BY <1>2, <3>3, <3>8, <4>3, <4>4
    <3>10. \A i \in (y + 1)..n : IsMessage(i)
      <4>1. \A i \in (y + 1)..n : i \in (y + 1)..z \/ i = n
        BY <1>1
      <4>2. QED BY <1>5, <3>3, <4>1
    <3>11. y < n
      BY <1>1, <3>3
    <3>12. Spans(e, y, n)
      BY <3>8, <3>9, <3>10, <3>11 DEF Spans
    <3>13. Joined(all, n) = Append(Front(all), e)
      <4>1. PICK f : f = Segment(0, Last(all).text \o Piece(n), ~IsPiece(n))
        OBVIOUS
      <4>2. Joined(all, n) = Append(Front(all), f)
        BY <1>5, <2>2, <4>1 DEF Joined, Piece
      <4>3. e = f
        BY <3>2, <3>5, <4>1
      <4>4. QED BY <4>2, <4>3
    <3>14. y \in Nat
      OBVIOUS
    <3>15. PICK front : front = Front(all)
      OBVIOUS
    <3>16. \E g : Cuts(g, Append(front, e), a, n, m)
      BY <1>3, <3>1, <3>12, <3>14, <3>15, CutsAppend
    <3>17. QED BY <1>1, <3>13, <3>15, <3>16
  <2>3. CASE ~(all # <<>> /\ Last(all).act = 0)
    <3>1. PICK e : e = Segment(0, Piece(n), ~IsPiece(n))
      OBVIOUS
    <3>2. (~IsPiece(n)) \in BOOLEAN
      BY DEF IsPiece
    <3>3. /\ e \in Segments /\ e.act = 0 /\ e.text = Piece(n)
          /\ e.ended = (log[n] = "end")
      <4>1. (~IsPiece(n)) = (log[n] = "end")
        BY <2>1, <3>2
      <4>2. QED BY <1>2, <3>1, <3>2, <4>1 DEF Segments, Segment
    <3>4. \A i \in (z + 1)..n : IsMessage(i)
      BY <1>1, <1>5
    <3>5. Spans(e, z, n)
      BY <1>2, <1>3, <3>3, <3>4 DEF Spans
    <3>6. Joined(all, n) = Append(all, e)
      BY <1>5, <2>3, <3>1 DEF Joined, Piece
    <3>7. QED BY <1>1, <3>5, <3>6, CutsAppend
  <2>4. QED BY <2>2, <2>3
<1>6. QED BY <1>1, <1>4, <1>5

LEMMA CoalescedSpans ==
  ASSUME NEW k \in Nat, NEW m \in Nat, NEW events, events = [i \in 1..m |-> k + i],
         \A i \in (k + 1)..(k + m) : IsMessage(i) \/ log[i] = "act"
  PROVE  \E c : Cuts(c, Coalesced(events), k, k + m, k + m)
<1>1. Len(events) = m
  OBVIOUS
<1>2. PICK f : CoalescedTo(f, events, m) /\ Coalesced(events) = f[m]
  BY <1>1, CoalescedDef
<1> DEFINE Q == {n \in Nat : n <= m => \E c : Cuts(c, f[n], k, k + n, k + m)}
<1>3. 0 \in Q
  <2>1. f[0] = <<>>
    BY <1>2 DEF CoalescedTo
  <2>2. PICK c : c = [i \in 0..0 |-> k]
    OBVIOUS
  <2>3. c \in [0..0 -> k..(k + m)] /\ c[0] = k /\ k + 0 = k
    BY <2>2
  <2>4. <<>> \in Seq(Segments) /\ Len(<<>>) = 0 /\ 1..0 = {}
    OBVIOUS
  <2>5. Cuts(c, <<>>, k, k, k + m)
    BY <2>3, <2>4 DEF Cuts
  <2>6. QED BY <2>1, <2>3, <2>5
<1>4. ASSUME NEW n \in Nat, n \in Q PROVE n + 1 \in Q
  <2> SUFFICES ASSUME n + 1 <= m PROVE \E c : Cuts(c, f[n + 1], k, k + (n + 1), k + m)
    OBVIOUS
  <2>1. /\ n + 1 \in 0..m /\ n + 1 \in 1..m /\ n + 1 # 0 /\ (n + 1) - 1 = n /\ n <= m
        /\ (k + n) + 1 = k + (n + 1) /\ (k + n) + 1 <= k + m
        /\ (k + n) + 1 \in (k + 1)..(k + m) /\ k <= k + n
    OBVIOUS
  <2>2. f[n + 1] = Joined(f[n], events[n + 1])
    BY <1>2, <2>1 DEF CoalescedTo
  <2>3. events[n + 1] = (k + n) + 1
    BY <2>1
  <2>4. PICK c : Cuts(c, f[n], k, k + n, k + m)
    BY <1>4, <2>1
  <2>5. IsMessage((k + n) + 1) \/ log[(k + n) + 1] = "act"
    BY <2>1
  <2>6. PICK z, w, all : z = k + n /\ w = k + m /\ all = f[n] /\ z \in Nat /\ w \in Nat
    OBVIOUS
  <2>7. \E d : Cuts(d, Joined(all, z + 1), k, z + 1, w)
    BY <2>1, <2>4, <2>5, <2>6, JoinedSpans
  <2>8. QED BY <2>1, <2>2, <2>3, <2>6, <2>7
<1>5. Nat \subseteq Q
  <2> HIDE DEF Q
  <2>1. QED BY <1>3, <1>4, InductionOn
<1>6. m \in Q
  <2> HIDE DEF Q
  <2>1. QED BY <1>5
<1>7. \E c : Cuts(c, f[m], k, k + m, k + m)
  BY <1>6
<1>8. QED BY <1>2, <1>7

\* Events of other kinds add no places, ...
LEMMA PlacesPass ==
  ASSUME NEW kinds, NEW m \in Nat, NEW n \in Nat, m <= n,
         \A i \in (m + 1)..n : log[i] \notin kinds
  PROVE  Places(n, kinds) = Places(m, kinds)
<1> DEFINE Q == {k \in Nat : m + k <= n => Places(m + k, kinds) = Places(m, kinds)}
<1>1. 0 \in Q
  OBVIOUS
<1>2. ASSUME NEW k \in Nat, k \in Q PROVE k + 1 \in Q
  <2> SUFFICES ASSUME m + (k + 1) <= n
               PROVE  Places(m + (k + 1), kinds) = Places(m, kinds)
    OBVIOUS
  <2>1. PICK i \in Nat : i = m + k /\ m + (k + 1) = i + 1 /\ i <= n /\ i + 1 \in (m + 1)..n
    OBVIOUS
  <2>2. Places(i, kinds) = Places(m, kinds)
    BY <1>2, <2>1
  <2>3. log[i + 1] \notin kinds
    BY <2>1
  <2>4. Places(i + 1, kinds) = Places(i, kinds)
    BY <2>3, PlacesNext
  <2>5. QED BY <2>1, <2>2, <2>4
<1>3. Nat \subseteq Q
  <2> HIDE DEF Q
  <2>1. QED BY <1>1, <1>2, InductionOn
<1>4. n - m \in Nat /\ m + (n - m) = n
  OBVIOUS
<1>5. n - m \in Q
  <2> HIDE DEF Q
  <2>1. QED BY <1>3, <1>4
<1>6. QED BY <1>4, <1>5

\* ... and other events than pieces no text.
LEMMA TextPass ==
  ASSUME NEW m \in Nat, NEW n \in Nat, m <= n, \A i \in (m + 1)..n : ~IsPiece(i)
  PROVE  TextOf(n) = TextOf(m)
<1>1. Places(n, Letters) = Places(m, Letters)
  BY PlacesPass DEF IsPiece
<1>2. QED BY <1>1 DEF TextOf

\* The thread is created by its first event, and its message is ended once,
\* after a piece.
Shaped ==
  \A i \in DOMAIN log :
    /\ log[i] = "created" <=> i = 1
    /\ log[i] = "end" => /\ \A j \in DOMAIN log : j > i => log[j] = "act"
                         /\ \E j \in 1..i : IsPiece(j)

IsThread(s) == s = [here |-> s.here, text |-> s.text, ended |-> s.ended, acts |-> s.acts]

LEMMA ThreadActs ==
  ASSUME NEW s, IsThread(s), NEW a, NEW u, u = [s EXCEPT !.acts = a]
  PROVE  /\ IsThread(u) /\ u.acts = a
         /\ u.here = s.here /\ u.text = s.text /\ u.ended = s.ended
<1>1. PICK h0, t0, e0, a0 : s = [here |-> h0, text |-> t0, ended |-> e0, acts |-> a0]
  BY DEF IsThread
<1>2. u = [here |-> h0, text |-> t0, ended |-> e0, acts |-> a]
  BY <1>1
<1>3. QED BY <1>1, <1>2 DEF IsThread

\* What happens when an event is applied ...
EventDone(s, e, u) ==
  /\ IsThread(u)
  /\ e.act # 0 => /\ u.here = s.here /\ u.text = s.text /\ u.ended = s.ended
                  /\ u.acts = Append(s.acts, e.act)
  /\ e.act = 0 => /\ u.here = TRUE /\ u.text = MergedText(s, e) /\ u.ended = e.ended
                  /\ u.acts = s.acts

LEMMA EventApplied ==
  ASSUME NEW s, IsThread(s), NEW e, NEW u, u = AppliedEvent(s, e)
  PROVE  EventDone(s, e, u)
<1>1. CASE e.act # 0
  <2>1. PICK more : more = Append(s.acts, e.act)
    OBVIOUS
  <2>2. u = [s EXCEPT !.acts = more]
    BY <1>1, <2>1 DEF AppliedEvent
  <2>3. /\ IsThread(u) /\ u.acts = more
        /\ u.here = s.here /\ u.text = s.text /\ u.ended = s.ended
    BY <2>2, ThreadActs
  <2>4. QED BY <1>1, <2>1, <2>3 DEF EventDone
<1>2. CASE e.act = 0
  <2>1. PICK t, h, f : t = MergedText(s, e) /\ h = TRUE /\ f = e.ended
    OBVIOUS
  <2>2. u = [s EXCEPT !.here = h, !.text = t, !.ended = f]
    BY <1>2, <2>1 DEF AppliedEvent
  <2>3. PICK h0, t0, e0, a0 : s = [here |-> h0, text |-> t0, ended |-> e0, acts |-> a0]
    BY DEF IsThread
  <2>4. PICK v : v = [s EXCEPT !.here = h]
    OBVIOUS
  <2>5. v = [here |-> h, text |-> t0, ended |-> e0, acts |-> a0]
    BY <2>3, <2>4
  <2>6. PICK w : w = [v EXCEPT !.text = t]
    OBVIOUS
  <2>7. w = [here |-> h, text |-> t, ended |-> e0, acts |-> a0]
    BY ONLY <2>5, <2>6
  <2>8. [w EXCEPT !.ended = f] = [here |-> h, text |-> t, ended |-> f, acts |-> a0]
    BY ONLY <2>7
  <2>9. u = [here |-> h, text |-> t, ended |-> f, acts |-> a0]
    BY <2>2, <2>4, <2>6, <2>8
  <2>10. /\ IsThread(u) /\ u.here = h /\ u.text = t /\ u.ended = f
         /\ u.acts = s.acts
    BY <2>3, <2>9 DEF IsThread
  <2>11. QED BY <1>2, <2>1, <2>10 DEF EventDone
<1>3. QED BY <1>1, <1>2

\* ... to the activities: they go on, ...
LEMMA EventActs ==
  ASSUME NEW s, IsThread(s), NEW e, NEW a \in Nat, NEW b \in Nat, Spans(e, a, b),
         s.acts = Places(a, {"act"})
  PROVE  AppliedEvent(s, e).acts = Places(b, {"act"})
<1>1. PICK u : u = AppliedEvent(s, e) /\ EventDone(s, e, u)
  BY EventApplied
<1>2. CASE e.act # 0
  <2>1. b = a + 1 /\ e.act = b /\ log[b] = "act"
    BY <1>2 DEF Spans
  <2>2. Places(a + 1, {"act"}) = Append(Places(a, {"act"}), a + 1)
    BY <2>1, PlacesNext
  <2>3. QED BY <1>1, <1>2, <2>1, <2>2 DEF EventDone
<1>3. CASE e.act = 0
  <2>1. a <= b /\ \A i \in (a + 1)..b : IsMessage(i)
    BY <1>3 DEF Spans
  <2>2. \A i \in (a + 1)..b : log[i] \notin {"act"}
    BY <2>1, Sorts
  <2>3. Places(b, {"act"}) = Places(a, {"act"})
    BY <2>1, <2>2, PlacesPass
  <2>4. QED BY <1>1, <1>3, <2>3 DEF EventDone
<1>4. QED BY <1>2, <1>3

\* ... and to the message: its text goes on, when it is not taken for a
\* repetition.
LEMMA EventShows ==
  ASSUME NEW s, IsThread(s), NEW e, NEW a \in Nat, NEW b \in DOMAIN log, Spans(e, a, b),
         Shaped, log \in Seq(Letters \cup {"created", "end", "act"}), Shows(s, a),
         e.act = 0 /\ s.text # <<>> => ~Repeats(s, e)
  PROVE  Shows(AppliedEvent(s, e), b)
<1>1. PICK u : u = AppliedEvent(s, e) /\ EventDone(s, e, u)
  BY EventApplied
<1>2. b \in Nat /\ DOMAIN log = 1..Len(log) /\ Len(log) \in Nat
  OBVIOUS
<1>3. RowsHave(a) /\ RowsHave(b)
  BY RowsParts
<1>4. CASE e.act # 0
  <2>1. b = a + 1 /\ log[b] = "act"
    BY <1>4 DEF Spans
  <2>2. ~IsMessage(b) /\ log[b] # "end" /\ ~IsPiece(b)
    BY <2>1, Sorts DEF IsMessage
  <2>3. TextOf(b) = TextOf(a)
    BY <2>1, <2>2, TextNext
  <2>4. \A i \in 1..b : i \in 1..a \/ i = b
    BY <2>1
  <2>5. 1..a \subseteq 1..b
    BY <2>1
  <2>6. Rows(b).here = Rows(a).here /\ Rows(b).ended = Rows(a).ended
    BY <1>3, <2>2, <2>4, <2>5 DEF RowsHave
  <2>7. QED BY <1>1, <1>4, <2>3, <2>6 DEF Shows, EventDone
<1>5. CASE e.act = 0
  <2>1. /\ a < b /\ \A i \in (a + 1)..b : IsMessage(i)
        /\ TextOf(b) = TextOf(a) \o e.text /\ e.ended = (log[b] = "end") /\ e \in Segments
    BY <1>5 DEF Spans
  <2>2. b \in (a + 1)..b /\ b \in 1..b
    BY <1>2, <2>1
  <2>3. IsMessage(b)
    BY <2>1, <2>2
  <2>4. Rows(b).here
    BY <1>3, <2>2, <2>3 DEF RowsHave
  <2>5. Rows(b).ended = (log[b] = "end")
    <3>1. ASSUME NEW i \in 1..b, log[i] = "end", i # b PROVE FALSE
      <4>1. i \in DOMAIN log /\ b > i
        BY <1>2, <3>1
      <4>2. log[b] = "act"
        BY <3>1, <4>1 DEF Shaped
      <4>3. QED BY <2>3, <4>2, Sorts
    <3>2. QED BY <1>3, <2>2, <3>1 DEF RowsHave
  <2>6. MergedText(s, e) = TextOf(b)
    <3>1. TextOf(a) \in Seq(Letters) /\ e.text \in Seq(Letters) /\ s.text = TextOf(a)
      BY <2>1, TextNext DEF Segments, Shows
    <3>2. CASE s.text # <<>>
      BY <1>5, <2>1, <3>1, <3>2 DEF MergedText
    <3>3. CASE s.text = <<>>
      <4>1. PICK t : t = e.text
        OBVIOUS
      <4>2. t \in Seq(Letters) /\ <<>> \o t = t /\ IsPrefix(<<>>, t)
        <5>1. t \in Seq(Letters) /\ Len(t) \in Nat
          BY <3>1, <4>1
        <5>2. SubSeq(t, 1, 0) = <<>> /\ SubSeq(<<>>, 1, 0) = <<>> /\ Len(<<>>) = 0
          BY <5>1
        <5>3. <<>> \o t = t
          BY <5>1
        <5>4. QED BY <5>1, <5>2, <5>3 DEF IsPrefix
      <4>3. TextOf(b) = t
        BY <2>1, <3>1, <3>3, <4>1, <4>2
      <4>4. QED BY <3>3, <4>1, <4>2, <4>3 DEF MergedText
    <3>4. QED BY <3>2, <3>3
  <2>7. QED BY <1>1, <1>5, <2>1, <2>4, <2>5, <2>6 DEF Shows, EventDone
<1>6. QED BY <1>4, <1>5

\* The same of all of them: activities, ...
LEMMA AppliedActs ==
  ASSUME NEW s, IsThread(s), NEW all, NEW a \in Nat, NEW z \in Nat, NEW c, Cuts(c, all, a, z, z),
         s.acts = Places(a, {"act"})
  PROVE  AppliedFirst(s, all, Len(all)).acts = Places(z, {"act"})
<1>1. PICK n \in Nat : n = Len(all)
  BY DEF Cuts
<1>2. /\ c \in [0..n -> a..z] /\ c[0] = a /\ c[n] = z
      /\ \A j \in 1..n : Spans(all[j], c[j - 1], c[j])
  BY <1>1 DEF Cuts
<1> DEFINE After(j) == AppliedFirst(s, all, j)
           Good(j) == IsThread(After(j)) /\ After(j).acts = Places(c[j], {"act"})
           Q == {j \in Nat : j <= n => Good(j)}
<1>3. 0 \in Q
  <2>1. After(0) = s
    BY AppliedNext
  <2>2. QED BY <1>2, <2>1
<1>4. ASSUME NEW j \in Nat, j \in Q PROVE j + 1 \in Q
  <2> SUFFICES ASSUME j + 1 <= n PROVE Good(j + 1)
    OBVIOUS
  <2>1. j <= n /\ j + 1 \in 1..n /\ (j + 1) - 1 = j /\ j \in 0..n /\ j + 1 \in 0..n
    OBVIOUS
  <2>2. PICK u, v, e, x, y : /\ u = After(j) /\ v = After(j + 1) /\ e = all[j + 1]
                             /\ x = c[j] /\ y = c[j + 1]
    OBVIOUS
  <2>3. IsThread(u) /\ u.acts = Places(x, {"act"})
    BY <1>4, <2>1, <2>2
  <2>4. v = AppliedEvent(u, e)
    BY <2>2, AppliedNext
  <2>5. x \in Nat /\ y \in Nat /\ Spans(e, x, y)
    BY <1>2, <2>1, <2>2
  <2>6. IsThread(v) /\ v.acts = Places(y, {"act"})
    <3>1. IsThread(v)
      BY <2>3, <2>4, EventApplied DEF EventDone
    <3>2. v.acts = Places(y, {"act"})
      BY <2>3, <2>4, <2>5, EventActs
    <3>3. QED BY <3>1, <3>2
  <2>7. QED BY <2>2, <2>6
<1>5. Nat \subseteq Q
  <2> HIDE DEF Q
  <2>1. QED BY <1>3, <1>4, InductionOn
<1>6. n \in Q
  <2> HIDE DEF Q
  <2>1. QED BY <1>5
<1>7. QED BY <1>1, <1>2, <1>6

\* ... and the message.
LEMMA AppliedShows ==
  ASSUME NEW s, IsThread(s), NEW all, NEW a \in Nat, NEW z \in Nat, NEW c, Cuts(c, all, a, z, z),
         z <= Len(log), log \in Seq(Letters \cup {"created", "end", "act"}), Shaped, Shows(s, a),
         \A i \in 1..Len(all) :
           all[i].act = 0 /\ AppliedFirst(s, all, i - 1).text # <<>>
             => ~Repeats(AppliedFirst(s, all, i - 1), all[i])
  PROVE  Shows(AppliedFirst(s, all, Len(all)), z)
<1>1. PICK n \in Nat : n = Len(all)
  BY DEF Cuts
<1>2. /\ c \in [0..n -> a..z] /\ c[0] = a /\ c[n] = z
      /\ \A j \in 1..n : Spans(all[j], c[j - 1], c[j])
  BY <1>1 DEF Cuts
<1> DEFINE After(j) == AppliedFirst(s, all, j)
           Good(j) == IsThread(After(j)) /\ Shows(After(j), c[j])
           Q == {j \in Nat : j <= n => Good(j)}
<1>3. 0 \in Q
  <2>1. After(0) = s
    BY AppliedNext
  <2>2. QED BY <1>2, <2>1
<1>4. ASSUME NEW j \in Nat, j \in Q PROVE j + 1 \in Q
  <2> SUFFICES ASSUME j + 1 <= n PROVE Good(j + 1)
    OBVIOUS
  <2>1. j <= n /\ j + 1 \in 1..n /\ (j + 1) - 1 = j /\ j \in 0..n /\ j + 1 \in 0..n
    OBVIOUS
  <2>2. PICK u, v, e, x, y : /\ u = After(j) /\ v = After(j + 1) /\ e = all[j + 1]
                             /\ x = c[j] /\ y = c[j + 1]
    OBVIOUS
  <2>3. IsThread(u) /\ Shows(u, x)
    BY <1>4, <2>1, <2>2
  <2>4. v = AppliedEvent(u, e)
    BY <2>2, AppliedNext
  <2>5. x \in Nat /\ y \in a..z /\ Spans(e, x, y)
    BY <1>2, <2>1, <2>2
  <2>6. y \in DOMAIN log
    <3>1. x < y /\ Len(log) \in Nat
      BY <2>5 DEF Spans
    <3>2. QED BY <2>5, <3>1
  <2>7. e.act = 0 /\ u.text # <<>> => ~Repeats(u, e)
    BY <1>1, <2>1, <2>2
  <2>8. IsThread(v) /\ Shows(v, y)
    <3>1. IsThread(v)
      BY <2>3, <2>4, EventApplied DEF EventDone
    <3>2. Shows(v, y)
      BY <2>3, <2>4, <2>5, <2>6, <2>7, EventShows
    <3>3. QED BY <3>1, <3>2
  <2>9. QED BY <2>2, <2>8
<1>5. Nat \subseteq Q
  <2> HIDE DEF Q
  <2>1. QED BY <1>3, <1>4, InductionOn
<1>6. n \in Q
  <2> HIDE DEF Q
  <2>1. QED BY <1>5
<1>7. QED BY <1>1, <1>2, <1>6

\* The m events after the k-th are of the message or activities.
LEMMA Detailed ==
  ASSUME NEW k \in Nat, NEW m \in Nat, k + m <= Len(log), m # 0 => k # 0,
         log \in Seq(Letters \cup {"created", "end", "act"}), Shaped
  PROVE  \A i \in (k + 1)..(k + m) : IsMessage(i) \/ log[i] = "act"
<1> SUFFICES ASSUME NEW i \in (k + 1)..(k + m), log[i] # "act"
             PROVE  IsMessage(i)
  OBVIOUS
<1>1. Len(log) \in Nat /\ DOMAIN log = 1..Len(log)
  OBVIOUS
<1>2. i \in Nat /\ i # 1 /\ i \in DOMAIN log
  BY <1>1
<1>3. log[i] # "created" /\ log[i] \in Letters \cup {"created", "end", "act"}
  BY <1>2 DEF Shaped
<1>4. QED BY <1>3 DEF IsMessage, IsPiece

LEMMA FlushActs ==
  ASSUME NEW k \in Nat, NEW m \in Nat, k + m <= Len(log), m # 0 => k # 0,
         log \in Seq(Letters \cup {"created", "end", "act"}), Shaped,
         NEW events, events = [i \in 1..m |-> k + i],
         NEW s, IsThread(s), s.acts = Places(k, {"act"})
  PROVE  Applied(s, events).acts = Places(k + m, {"act"})
<1>1. PICK c : Cuts(c, Coalesced(events), k, k + m, k + m)
  BY Detailed, CoalescedSpans
<1>2. PICK all, z : all = Coalesced(events) /\ z = k + m /\ z \in Nat
  <2>1. k + m \in Nat
    OBVIOUS
  <2>2. PICK a : a = Coalesced(events)
    OBVIOUS
  <2>3. QED BY <2>1, <2>2
<1>3. AppliedFirst(s, all, Len(all)).acts = Places(z, {"act"})
  BY <1>1, <1>2, AppliedActs
<1>4. QED BY <1>2, <1>3 DEF Applied

\* What waited is shown, unless some of it is taken for a repetition.  While
\* there is no text yet, at most the last event that waits is a piece.
LEMMA FlushShows ==
  ASSUME NEW k \in Nat, NEW m \in Nat, k + m <= Len(log), m # 0 => k # 0,
         log \in Seq(Letters \cup {"created", "end", "act"}), Shaped,
         NEW events, events = [i \in 1..m |-> k + i],
         NEW s, IsThread(s), Shows(s, k), ~Swallows(s, events),
         s.text = <<>> => \A i \in (k + 1)..(k + m) : IsPiece(i) => i = k + m
  PROVE  Shows(Applied(s, events), k + m)
<1>1. PICK c : Cuts(c, Coalesced(events), k, k + m, k + m)
  BY Detailed, CoalescedSpans
<1>2. PICK all, z : all = Coalesced(events) /\ z = k + m /\ z \in Nat
  <2>1. k + m \in Nat
    OBVIOUS
  <2>2. PICK a : a = Coalesced(events)
    OBVIOUS
  <2>3. QED BY <2>1, <2>2
<1>3. PICK n \in Nat : n = Len(all) /\ DOMAIN all = 1..n
  <2>1. all \in Seq(Segments)
    BY <1>1, <1>2 DEF Cuts
  <2>2. QED BY <2>1
<1>4. ASSUME NEW i \in 1..n, all[i].act = 0, AppliedFirst(s, all, i - 1).text # <<>>
      PROVE  ~Repeats(AppliedFirst(s, all, i - 1), all[i])
  <2>1. CASE s.text # <<>>
    BY <1>2, <1>3, <1>4, <2>1 DEF Swallows
  <2>2. CASE s.text = <<>>
    <3>1. PICK e, x, y : e = all[i] /\ x = c[i - 1] /\ y = c[i]
      OBVIOUS
    <3>2. i - 1 \in 0..n /\ i \in 0..n
      OBVIOUS
    <3>3. x \in k..z /\ y \in k..z /\ Spans(e, x, y)
      BY <1>1, <1>2, <1>3, <3>1, <3>2 DEF Cuts
    <3>4. /\ x < y /\ TextOf(y) = TextOf(x) \o e.text /\ e.ended = (log[y] = "end")
          /\ e.text \in Seq(Letters)
      BY <1>4, <3>1, <3>3 DEF Spans, Segments
    <3>5. e.ended => e.text = <<>>
      <4> SUFFICES ASSUME e.ended PROVE e.text = <<>>
        OBVIOUS
      <4>1. y \in DOMAIN log
        <5>1. Len(log) \in Nat /\ DOMAIN log = 1..Len(log)
          OBVIOUS
        <5>2. QED BY <1>2, <3>3, <3>4, <5>1
      <4>2. \A j \in DOMAIN log : j > y => log[j] = "act"
        BY <3>4, <4>1 DEF Shaped
      <4>3. ASSUME NEW j \in (x + 1)..y, IsPiece(j) PROVE FALSE
        <5>1. j \in (k + 1)..(k + m)
          BY <1>2, <3>3
        <5>2. j = z
          BY <1>2, <2>2, <4>3, <5>1
        <5>3. y = z
          BY <3>3, <5>2
        <5>4. log[y] \in Letters /\ log[y] = "end"
          BY <3>4, <4>3, <5>2, <5>3 DEF IsPiece
        <5>5. QED BY <5>4, ReplicaAssumption
      <4>4. x \in Nat /\ y \in Nat /\ x <= y
        BY <3>3, <3>4
      <4>5. TextOf(y) = TextOf(x)
        BY <4>3, <4>4, TextPass
      <4>6. PICK t, u : t = TextOf(x) /\ u = e.text
        OBVIOUS
      <4>7. t \in Seq(Letters) /\ u \in Seq(Letters)
        BY <3>4, <4>4, <4>6, TextNext
      <4>8. Len(t \o u) = Len(t) + Len(u) /\ Len(t) \in Nat /\ Len(u) \in Nat
        BY <4>7
      <4>9. t \o u = t
        BY <3>4, <4>5, <4>6
      <4>10. Len(u) = 0
        BY <4>8, <4>9
      <4>11. QED BY <4>6, <4>7, <4>10
    <3>6. QED BY <3>1, <3>5 DEF Repeats
  <2>3. QED BY <2>1, <2>2
<1>5. \A i \in 1..Len(all) :
        all[i].act = 0 /\ AppliedFirst(s, all, i - 1).text # <<>>
          => ~Repeats(AppliedFirst(s, all, i - 1), all[i])
  BY <1>3, <1>4
<1>6. Shows(AppliedFirst(s, all, Len(all)), z)
  BY <1>1, <1>2, <1>5, AppliedShows
<1>7. QED BY <1>2, <1>6 DEF Applied

\* Whatever is applied, it stays a thread.
LEMMA AppliedThread ==
  ASSUME NEW s, IsThread(s), NEW events \in Seq(Nat)
  PROVE  IsThread(Applied(s, events))
<1>1. PICK all : all = Coalesced(events)
  OBVIOUS
<1>2. Len(all) \in Nat
  <2>1. PICK f : CoalescedTo(f, events, Len(events)) /\ Coalesced(events) = f[Len(events)]
    BY CoalescedDef
  <2> DEFINE Q == {n \in Nat : n <= Len(events) => \E S : f[n] \in Seq(S)}
  <2>2. 0 \in Q
    <3>1. f[0] = <<>>
      BY <2>1 DEF CoalescedTo
    <3>2. <<>> \in Seq({})
      OBVIOUS
    <3>3. QED BY <3>1, <3>2
  <2>3. ASSUME NEW n \in Nat, n \in Q PROVE n + 1 \in Q
    <3> SUFFICES ASSUME n + 1 <= Len(events) PROVE \E S : f[n + 1] \in Seq(S)
      OBVIOUS
    <3>1. n + 1 \in 0..Len(events) /\ n + 1 # 0 /\ (n + 1) - 1 = n /\ n <= Len(events)
      OBVIOUS
    <3>2. f[n + 1] = Joined(f[n], events[n + 1])
      BY <2>1, <3>1 DEF CoalescedTo
    <3>3. PICK g, e, S : g = f[n] /\ e = events[n + 1] /\ g \in Seq(S)
      BY <2>3, <3>1
    <3>4. PICK x : \/ Joined(g, e) = Append(g, x)
                   \/ g # <<>> /\ Joined(g, e) = Append(Front(g), x)
      <4>1. CASE ~IsMessage(e)
        <5>1. PICK x : x = Segment(e, <<>>, FALSE)
          OBVIOUS
        <5>2. Joined(g, e) = Append(g, x)
          BY <4>1, <5>1 DEF Joined
        <5>3. QED BY <5>2
      <4>2. CASE IsMessage(e) /\ g # <<>> /\ Last(g).act = 0
        BY <4>2 DEF Joined
      <4>3. CASE IsMessage(e) /\ ~(g # <<>> /\ Last(g).act = 0)
        <5>1. PICK x : x = Segment(0, IF IsPiece(e) THEN <<log[e]>> ELSE <<>>, ~IsPiece(e))
          OBVIOUS
        <5>2. Joined(g, e) = Append(g, x)
          BY <4>3, <5>1 DEF Joined
        <5>3. QED BY <5>2
      <4>4. QED BY <4>1, <4>2, <4>3
    <3>5. \E T : Joined(g, e) \in Seq(T)
      <4>1. g \in Seq(S \cup {x}) /\ x \in S \cup {x}
        BY <3>3
      <4>2. g # <<>> => Front(g) \in Seq(S \cup {x})
        <5>1. PICK T : T = S \cup {x}
          OBVIOUS
        <5>2. g # <<>> => SubSeq(g, 1, Len(g) - 1) \in Seq(T)
          BY <4>1, <5>1
        <5>3. QED BY <5>1, <5>2 DEF Front
      <4>3. PICK T, j : T = S \cup {x} /\ j = Joined(g, e)
        OBVIOUS
      <4>4. CASE j = Append(g, x)
        <5>1. Append(g, x) \in Seq(T)
          BY <4>1, <4>3
        <5>2. QED BY <4>3, <4>4, <5>1
      <4>5. CASE g # <<>> /\ j = Append(Front(g), x)
        <5>1. PICK h : h = Front(g)
          OBVIOUS
        <5>2. h \in Seq(T) /\ x \in T
          BY <4>1, <4>2, <4>3, <4>5, <5>1
        <5>3. Append(h, x) \in Seq(T)
          BY <5>2
        <5>4. QED BY <4>3, <4>5, <5>1, <5>3
      <4>6. QED BY <3>4, <4>3, <4>4, <4>5
    <3>6. QED BY <3>2, <3>3, <3>5
  <2>4. Nat \subseteq Q
    <3> HIDE DEF Q
    <3>1. QED BY <2>2, <2>3, InductionOn
  <2>5. Len(events) \in Nat
    OBVIOUS
  <2>6. Len(events) \in Q
    <3> HIDE DEF Q
    <3>1. QED BY <2>4, <2>5
  <2>7. PICK S : f[Len(events)] \in Seq(S)
    BY <2>5, <2>6
  <2>8. QED BY <1>1, <2>1, <2>7
<1> DEFINE Q == {n \in Nat : IsThread(AppliedFirst(s, all, n))}
<1>3. 0 \in Q
  BY AppliedNext
<1>4. ASSUME NEW n \in Nat, n \in Q PROVE n + 1 \in Q
  <2>1. PICK u, v, e : /\ u = AppliedFirst(s, all, n) /\ v = AppliedFirst(s, all, n + 1)
                       /\ e = all[n + 1]
    OBVIOUS
  <2>2. IsThread(u) /\ v = AppliedEvent(u, e)
    BY <1>4, <2>1, AppliedNext
  <2>3. IsThread(v)
    BY <2>2, EventApplied DEF EventDone
  <2>4. QED BY <2>1, <2>3
<1>5. Nat \subseteq Q
  <2> HIDE DEF Q
  <2>1. QED BY <1>3, <1>4, InductionOn
<1>6. QED BY <1>1, <1>2, <1>5 DEF Applied

-----------------------------------------------------------------------------
(* How far a client is                                                     *)

\* The newest event it accepted, by itself or in a snapshot.
Newest(t) == IF t.rows > t.seen THEN t.rows ELSE t.seen

\* The newest it shows, if no snapshot met events that wait.
Reached(t) == Newest(t) - Len(t.waiting)

\* What waits are the newest events.
Trails(t) ==
  /\ Reached(t) \in Nat
  /\ t.waiting = [i \in 1..Len(t.waiting) |-> Reached(t) + i]
  /\ t.waiting # <<>> => t.seen = Newest(t) /\ Reached(t) # 0

\* The message is shown as of the events applied; its first piece does not wait.
Reads(c) ==
  /\ Trails(c.tab) /\ Shows(c.shown, Reached(c.tab))
  /\ c.shown.text = <<>> => ~c.tab.first /\ \A n \in ToSet(c.tab.waiting) : ~IsPiece(n)

\* So it will be, when what waits is applied.
Readable(c) ==
  /\ Trails(c.tab) /\ Shows(c.shown, Reached(c.tab))
  /\ c.shown.text = <<>> =>
       \/ ~c.tab.first /\ \A n \in ToSet(c.tab.waiting) : ~IsPiece(n)
       \/ /\ Newest(c.tab) # 0 /\ IsPiece(Newest(c.tab))
          /\ \A n \in ToSet(c.tab.waiting) : IsPiece(n) => n = Newest(c.tab)

\* The activities are shown as of the events applied.
Lists(c) == Trails(c.tab) /\ c.shown.acts = Places(Reached(c.tab), {"act"})

LEMMA NewestType ==
  ASSUME NEW t \in Tabs
  PROVE  /\ Newest(t) \in Nat /\ t.seen <= Newest(t) /\ t.rows <= Newest(t)
         /\ Newest(t) \in {t.seen, t.rows}
         /\ t.seen \in Nat /\ t.rows \in Nat /\ t.waiting \in Seq(Nat) /\ Len(t.waiting) \in Nat
         /\ Reached(t) \in Int /\ Reached(t) + Len(t.waiting) = Newest(t)
<1>1. /\ t.seen \in Nat /\ t.rows \in Nat /\ t.waiting \in Seq(Nat)
  BY DEF Tabs
<1>2. Len(t.waiting) \in Nat
  BY <1>1
<1>3. /\ Newest(t) \in Nat /\ t.seen <= Newest(t) /\ t.rows <= Newest(t)
      /\ Newest(t) \in {t.seen, t.rows}
  BY <1>1 DEF Newest
<1>4. QED BY <1>1, <1>2, <1>3 DEF Reached

\* What waits, as a set.
LEMMA TrailsSet ==
  ASSUME NEW t \in Tabs, Trails(t)
  PROVE  ToSet(t.waiting) = (Reached(t) + 1)..Newest(t)
<1>1. PICK k, m : k = Reached(t) /\ m = Len(t.waiting)
  OBVIOUS
<1>2. k \in Nat /\ m \in Nat /\ Newest(t) = k + m
  BY <1>1, NewestType DEF Trails
<1>3. t.waiting = [i \in 1..m |-> k + i]
  BY <1>1 DEF Trails
<1>4. PICK w : w = t.waiting
  OBVIOUS
<1>5. DOMAIN w = 1..m /\ \A i \in 1..m : w[i] = k + i
  BY <1>3, <1>4
<1>6. ASSUME NEW n \in (k + 1)..(k + m) PROVE n \in ToSet(w)
  <2>1. n - k \in 1..m /\ k + (n - k) = n
    BY <1>2
  <2>2. QED BY <1>5, <2>1 DEF ToSet
<1>7. ASSUME NEW n \in ToSet(w) PROVE n \in (k + 1)..(k + m)
  <2>1. PICK i \in 1..m : n = k + i
    BY <1>5 DEF ToSet
  <2>2. QED BY <1>2, <2>1
<1>8. QED BY <1>1, <1>2, <1>4, <1>6, <1>7

\* A flush applies what waits.
LEMMA FlushedDoes ==
  ASSUME NEW c, IsClient(c), IsThread(c.shown), NEW d, d = Flushed(c)
  PROVE  /\ IsClient(d) /\ IsThread(d.shown) /\ d.requests = c.requests
         /\ d.shown = Applied(c.shown, c.tab.waiting)
         /\ c.ever \subseteq d.ever
         /\ d.ever \subseteq {"older"} => ~Swallows(c.shown, c.tab.waiting)
         /\ d.tab.waiting = <<>> /\ d.tab.seen = c.tab.seen /\ d.tab.rows = c.tab.rows
         /\ d.tab.first = c.tab.first /\ d.tab.fence = c.tab.fence
         /\ d.tab.buffer = c.tab.buffer /\ d.tab.epoch = c.tab.epoch
         /\ Newest(d.tab) = Newest(c.tab) /\ Reached(d.tab) = Newest(c.tab) /\ Trails(d.tab)
<1>1. /\ IsClient(d) /\ d.requests = c.requests /\ d.tab = [c.tab EXCEPT !.waiting = <<>>]
      /\ d.shown = Applied(c.shown, c.tab.waiting)
      /\ d.ever = IF Swallows(c.shown, c.tab.waiting) THEN c.ever \cup {"swallowed"} ELSE c.ever
  BY FlushedKeeps
<1>2. c.tab \in Tabs /\ d.tab \in Tabs /\ c.tab.waiting \in Seq(Nat)
  BY <1>1 DEF IsClient, Tabs
<1>3. IsThread(d.shown)
  <2>1. PICK s, w : s = c.shown /\ w = c.tab.waiting
    OBVIOUS
  <2>2. IsThread(s) /\ w \in Seq(Nat)
    BY <1>2, <2>1
  <2>3. IsThread(Applied(s, w))
    BY <2>2, AppliedThread
  <2>4. QED BY <1>1, <2>1, <2>3
<1>4. /\ d.tab.waiting = <<>> /\ d.tab.seen = c.tab.seen /\ d.tab.rows = c.tab.rows
      /\ d.tab.first = c.tab.first /\ d.tab.fence = c.tab.fence
      /\ d.tab.buffer = c.tab.buffer /\ d.tab.epoch = c.tab.epoch
  BY <1>1, <1>2 DEF Tabs
<1>5. c.ever \subseteq d.ever
  BY <1>1
<1>6. d.ever \subseteq {"older"} => ~Swallows(c.shown, c.tab.waiting)
  BY <1>1
<1>7. Newest(d.tab) = Newest(c.tab)
  BY <1>4 DEF Newest
<1>8. Reached(d.tab) = Newest(c.tab) /\ Newest(c.tab) \in Nat
  <2>1. Len(d.tab.waiting) = 0
    BY <1>4
  <2>2. QED BY <1>2, <1>7, <2>1, NewestType DEF Reached
<1>9. Trails(d.tab)
  <2>1. <<>> = [i \in 1..0 |-> Reached(d.tab) + i]
    OBVIOUS
  <2>2. Len(d.tab.waiting) = 0
    BY <1>4
  <2>3. QED BY <1>4, <1>8, <2>1, <2>2 DEF Trails
<1>10. QED BY <1>1, <1>3, <1>4, <1>5, <1>6, <1>7, <1>8, <1>9

\* The log, as far as the client is concerned.
Logged == log \in Seq(Letters \cup {"created", "end", "act"}) /\ Shaped

LEMMA FlushedLists ==
  ASSUME NEW c, IsClient(c), IsThread(c.shown), Logged, Newest(c.tab) <= Len(log), Lists(c)
  PROVE  Lists(Flushed(c))
<1>1. PICK d, k, m, events, s :
        /\ d = Flushed(c) /\ k = Reached(c.tab) /\ m = Len(c.tab.waiting)
        /\ events = c.tab.waiting /\ s = c.shown
  OBVIOUS
<1>2. /\ d.shown = Applied(s, events) /\ Reached(d.tab) = Newest(c.tab) /\ Trails(d.tab)
  BY <1>1, FlushedDoes
<1>3. c.tab \in Tabs
  BY DEF IsClient
<1>4. k \in Nat /\ m \in Nat /\ k + m = Newest(c.tab)
  BY <1>1, <1>3, NewestType DEF Lists, Trails
<1>5. events = [i \in 1..m |-> k + i] /\ (m # 0 => k # 0)
  <2>1. m # 0 => c.tab.waiting # <<>>
    BY <1>1
  <2>2. QED BY <1>1, <2>1 DEF Lists, Trails
<1>6. IsThread(s) /\ s.acts = Places(k, {"act"})
  BY <1>1 DEF Lists
<1>7. Applied(s, events).acts = Places(k + m, {"act"})
  BY <1>4, <1>5, <1>6, FlushActs DEF Logged
<1>8. QED BY <1>1, <1>2, <1>4, <1>7 DEF Lists

LEMMA FlushedReads ==
  ASSUME NEW c, IsClient(c), IsThread(c.shown), Logged, Newest(c.tab) <= Len(log), Readable(c),
         Flushed(c).ever \subseteq {"older"}
  PROVE  Reads(Flushed(c))
<1>1. PICK d, k, m, events, s :
        /\ d = Flushed(c) /\ k = Reached(c.tab) /\ m = Len(c.tab.waiting)
        /\ events = c.tab.waiting /\ s = c.shown
  OBVIOUS
<1>2. /\ d.shown = Applied(s, events) /\ Reached(d.tab) = Newest(c.tab) /\ Trails(d.tab)
      /\ ~Swallows(s, events) /\ d.tab.first = c.tab.first /\ d.tab.waiting = <<>>
  BY <1>1, FlushedDoes
<1>3. c.tab \in Tabs
  BY DEF IsClient
<1>4. k \in Nat /\ m \in Nat /\ k + m = Newest(c.tab)
  BY <1>1, <1>3, NewestType DEF Readable, Trails
<1>5. events = [i \in 1..m |-> k + i] /\ (m # 0 => k # 0)
  <2>1. m # 0 => c.tab.waiting # <<>>
    BY <1>1
  <2>2. QED BY <1>1, <2>1 DEF Readable, Trails
<1>6. IsThread(s) /\ Shows(s, k)
  BY <1>1 DEF Readable
<1>7. ToSet(events) = (k + 1)..(k + m)
  BY <1>1, <1>3, <1>4, TrailsSet DEF Readable
<1>8. s.text = <<>> => \A i \in (k + 1)..(k + m) : IsPiece(i) => i = k + m
  BY <1>1, <1>4, <1>7 DEF Readable
<1>9. Shows(Applied(s, events), k + m)
  BY <1>2, <1>4, <1>5, <1>6, <1>8, FlushShows DEF Logged
<1>10. Shows(d.shown, Reached(d.tab))
  BY <1>2, <1>4, <1>9
<1>11. ASSUME d.shown.text = <<>> PROVE ~d.tab.first
  <2>1. PICK n \in Nat : n = k + m
    BY <1>4
  <2>2. TextOf(n) = <<>>
    BY <1>2, <1>9, <1>11, <2>1 DEF Shows
  <2>3. s.text = <<>>
    <3>1. Begins(TextOf(k), TextOf(n))
      BY <1>4, <2>1, TextGrows
    <3>2. PICK t : t = TextOf(k) /\ t \in Seq(Letters)
      BY <1>4, TextNext
    <3>3. Len(t) = 0
      <4>1. Len(<<>>) = 0 /\ Len(t) \in Nat
        BY <3>2
      <4>2. QED BY <2>2, <3>1, <3>2, <4>1 DEF Begins
    <3>4. QED BY <1>6, <3>2, <3>3 DEF Shows
  <2>4. ~(n # 0 /\ IsPiece(n))
    <3> SUFFICES ASSUME n # 0, IsPiece(n) PROVE FALSE
      OBVIOUS
    <3>1. n \in 1..n
      BY <2>1
    <3>2. QED BY <2>2, <3>1, TextHas
  <2>5. QED BY <1>1, <1>2, <1>4, <2>1, <2>3, <2>4 DEF Readable
<1>12. \A n \in ToSet(d.tab.waiting) : ~IsPiece(n)
  BY <1>2 DEF ToSet
<1>13. QED BY <1>1, <1>2, <1>10, <1>11, <1>12 DEF Reads

\* An event in the line, ...
Lined(c, n, q) ==
  /\ IsClient(q) /\ q.tab.waiting = Append(c.tab.waiting, n)
  /\ q.tab.seen = (IF n > c.tab.seen THEN n ELSE c.tab.seen)
  /\ q.tab.first = (IF IsMessage(n) THEN IsPiece(n) ELSE c.tab.first)
  /\ q.tab.rows = c.tab.rows /\ q.tab.fence = c.tab.fence /\ q.tab.buffer = c.tab.buffer
  /\ q.tab.epoch = c.tab.epoch /\ q.shown = c.shown /\ q.ever = c.ever
  /\ q.requests = c.requests

LEMMA QueuedLines ==
  ASSUME NEW c, IsClient(c), NEW n \in Nat
  PROVE  \E q : /\ Lined(c, n, q)
                /\ Queued(c, n) = IF IsPiece(n) /\ ~c.tab.first THEN Flushed(q) ELSE q
<1> DEFINE seen == IF n > c.tab.seen THEN n ELSE c.tab.seen
           first == IF IsMessage(n) THEN IsPiece(n) ELSE c.tab.first
           q == [c EXCEPT !.tab.waiting = Append(@, n), !.tab.seen = IF n > @ THEN n ELSE @,
                          !.tab.first = IF IsMessage(n) THEN IsPiece(n) ELSE @]
           t == [c.tab EXCEPT !.waiting = Append(@, n), !.seen = seen, !.first = first]
<1>1. q = [c EXCEPT !.tab = t]
  OBVIOUS
<1>2. seen \in Nat /\ first \in BOOLEAN
  <2>1. c.tab.seen \in Nat /\ c.tab.first \in BOOLEAN
    BY DEF IsClient, Tabs
  <2>2. IsPiece(n) \in BOOLEAN
    BY DEF IsPiece
  <2>3. QED BY <2>1, <2>2
<1>3. Queued(c, n) = IF IsPiece(n) /\ ~c.tab.first THEN Flushed(q) ELSE q
  BY DEF Queued
<1>4. PICK x, y : x = seen /\ y = first
  OBVIOUS
<1> HIDE DEF seen, first
<1>5. /\ t \in Tabs /\ t.waiting = Append(c.tab.waiting, n) /\ t.seen = seen /\ t.first = first
      /\ t.rows = c.tab.rows /\ t.fence = c.tab.fence /\ t.buffer = c.tab.buffer
      /\ t.epoch = c.tab.epoch
  <2>1. Append(c.tab.waiting, n) \in Seq(Nat)
    BY Appended DEF IsClient, Tabs
  <2>2. QED BY <1>2, <2>1 DEF IsClient, Tabs
<1> HIDE DEF t, q
<1>6. /\ IsClient(q) /\ q.tab = t /\ q.requests = c.requests /\ q.shown = c.shown
      /\ q.ever = c.ever
  BY <1>1, <1>5, WithTab
<1>7. Lined(c, n, q)
  BY <1>5, <1>6 DEF Lined, seen, first
<1>8. QED BY <1>3, <1>7

\* ... waits, or is shown with those before it.
LEMMA QueuedDoes ==
  ASSUME NEW c, IsClient(c), IsThread(c.shown), NEW n \in Nat, n > c.tab.seen,
         NEW d, d = Queued(c, n)
  PROVE  /\ IsClient(d) /\ IsThread(d.shown) /\ c.ever \subseteq d.ever
         /\ d.tab.seen = n /\ d.tab.rows = c.tab.rows /\ d.tab.fence = c.tab.fence
         /\ d.tab.buffer = c.tab.buffer
         /\ ToSet(d.tab.waiting) \subseteq ToSet(c.tab.waiting) \cup {n}
<1>1. PICK q : Lined(c, n, q) /\ d = IF IsPiece(n) /\ ~c.tab.first THEN Flushed(q) ELSE q
  BY QueuedLines
<1>2. /\ IsClient(q) /\ IsThread(q.shown) /\ q.ever = c.ever
      /\ q.tab.seen = n /\ q.tab.rows = c.tab.rows /\ q.tab.fence = c.tab.fence
      /\ q.tab.buffer = c.tab.buffer
  BY <1>1 DEF Lined
<1>3. ToSet(q.tab.waiting) = ToSet(c.tab.waiting) \cup {n}
  <2>1. c.tab.waiting \in Seq(Nat)
    BY DEF IsClient, Tabs
  <2>2. QED BY <1>1, <2>1, AppendedSet DEF Lined
<1>4. CASE d = q
  BY <1>2, <1>3, <1>4
<1>5. CASE d = Flushed(q)
  <2>1. /\ IsClient(d) /\ IsThread(d.shown) /\ q.ever \subseteq d.ever
        /\ d.tab.waiting = <<>> /\ d.tab.seen = q.tab.seen /\ d.tab.rows = q.tab.rows
        /\ d.tab.fence = q.tab.fence /\ d.tab.buffer = q.tab.buffer
    BY <1>2, <1>5, FlushedDoes
  <2>2. ToSet(d.tab.waiting) = {}
    BY <2>1 DEF ToSet
  <2>3. QED BY <1>2, <2>1, <2>2
<1>6. QED BY <1>1, <1>4, <1>5

\* The next event trails like those before it.
LEMMA LinedTrails ==
  ASSUME NEW c, IsClient(c), NEW n \in Nat, n = Newest(c.tab) + 1, n # 1, Trails(c.tab),
         NEW q, Lined(c, n, q)
  PROVE  /\ Newest(q.tab) = n /\ Reached(q.tab) = Reached(c.tab) /\ Trails(q.tab)
         /\ ToSet(q.tab.waiting) = ToSet(c.tab.waiting) \cup {n}
<1>1. c.tab \in Tabs /\ q.tab \in Tabs
  BY DEF IsClient, Lined
<1>2. PICK k, m, w, v : /\ k = Reached(c.tab) /\ m = Len(c.tab.waiting) /\ w = c.tab.waiting
                        /\ v = q.tab.waiting
  OBVIOUS
<1>3. /\ k \in Nat /\ m \in Nat /\ n = (k + m) + 1 /\ c.tab.seen <= k + m
      /\ c.tab.rows <= k + m /\ c.tab.seen \in Nat /\ c.tab.rows \in Nat /\ w \in Seq(Nat)
  BY <1>1, <1>2, NewestType DEF Trails
<1>4. w = [i \in 1..m |-> k + i] /\ (m # 0 => k # 0)
  <2>1. m # 0 => c.tab.waiting # <<>>
    BY <1>2
  <2>2. QED BY <1>2, <2>1 DEF Trails
<1>5. v = Append(w, n) /\ q.tab.seen = n /\ q.tab.rows = c.tab.rows
  <2>1. n > c.tab.seen
    BY <1>3
  <2>2. QED BY <1>2, <2>1 DEF Lined
<1>6. Newest(q.tab) = n
  BY <1>3, <1>5 DEF Newest
<1>7. v = [i \in 1..(m + 1) |-> k + i] /\ Len(v) = m + 1
  <2>1. /\ v \in Seq(Nat) /\ Len(v) = m + 1 /\ \A i \in 1..m : v[i] = w[i]
        /\ v[m + 1] = n
    BY <1>2, <1>3, <1>5, Appended
  <2>2. \A i \in 1..(m + 1) : v[i] = k + i
    <3>1. ASSUME NEW i \in 1..(m + 1) PROVE v[i] = k + i
      <4>1. CASE i = m + 1
        BY <1>3, <2>1, <4>1
      <4>2. CASE i # m + 1
        <5>1. i \in 1..m
          BY <1>3, <4>2
        <5>2. w[i] = k + i
          BY <1>4, <5>1
        <5>3. QED BY <2>1, <5>1, <5>2
      <4>3. QED BY <4>1, <4>2
    <3>2. QED BY <3>1
  <2>3. v = [i \in 1..Len(v) |-> v[i]]
    BY <2>1
  <2>4. QED BY <2>1, <2>2, <2>3
<1>8. Reached(q.tab) = k
  BY <1>2, <1>3, <1>6, <1>7 DEF Reached
<1>9. k # 0
  BY <1>3, <1>4
<1>10. Trails(q.tab)
  BY <1>2, <1>3, <1>5, <1>6, <1>7, <1>8, <1>9 DEF Trails
<1>11. ToSet(v) = ToSet(w) \cup {n}
  BY <1>3, <1>5, AppendedSet
<1>12. QED BY <1>2, <1>6, <1>8, <1>10, <1>11

LEMMA QueuedShows ==
  ASSUME NEW c, IsClient(c), IsThread(c.shown), Logged,
         NEW n \in Nat, n = Newest(c.tab) + 1, n # 1, n <= Len(log), NEW d, d = Queued(c, n)
  PROVE  /\ Lists(c) => Lists(d)
         /\ Reads(c) /\ d.ever \subseteq {"older"} =>
              Reads(d) /\ Reached(c.tab) <= Reached(d.tab)
<1>1. PICK q : Lined(c, n, q) /\ d = IF IsPiece(n) /\ ~c.tab.first THEN Flushed(q) ELSE q
  BY QueuedLines
<1>2. /\ IsClient(q) /\ IsThread(q.shown) /\ q.shown = c.shown
      /\ q.tab.first = (IF IsMessage(n) THEN IsPiece(n) ELSE c.tab.first)
  BY <1>1 DEF Lined
<1>3. ASSUME Lists(c) PROVE Lists(d)
  <2>1. Newest(q.tab) = n /\ Lists(q)
    <3>1. Trails(c.tab)
      BY <1>3 DEF Lists
    <3>2. Newest(q.tab) = n /\ Reached(q.tab) = Reached(c.tab) /\ Trails(q.tab)
      BY <1>1, <3>1, LinedTrails
    <3>3. QED BY <1>2, <1>3, <3>2 DEF Lists
  <2>2. Lists(Flushed(q))
    BY <1>2, <2>1, FlushedLists
  <2>3. QED BY <1>1, <2>1, <2>2
<1>4. ASSUME Reads(c), d.ever \subseteq {"older"}
      PROVE  Reads(d) /\ Reached(c.tab) <= Reached(d.tab)
  <2>1. /\ Newest(q.tab) = n /\ Reached(q.tab) = Reached(c.tab) /\ Trails(q.tab)
        /\ ToSet(q.tab.waiting) = ToSet(c.tab.waiting) \cup {n}
    <3>1. Trails(c.tab)
      BY <1>4 DEF Reads
    <3>2. QED BY <1>1, <3>1, LinedTrails
  <2>2. /\ Shows(q.shown, Reached(q.tab)) /\ Reached(c.tab) \in Nat
        /\ c.shown.text = <<>> =>
             ~c.tab.first /\ \A m \in ToSet(c.tab.waiting) : ~IsPiece(m)
    BY <1>2, <1>4, <2>1 DEF Reads, Trails
  <2>3. CASE IsPiece(n) /\ ~c.tab.first
    <3>1. d = Flushed(q)
      BY <1>1, <2>3
    <3>2. Readable(q)
      <4>1. n # 0
        <5>1. c.tab \in Tabs
          BY DEF IsClient
        <5>2. Newest(c.tab) \in Nat
          BY <5>1, NewestType
        <5>3. QED BY <5>2
      <4>2. q.shown.text = <<>> =>
              /\ Newest(q.tab) # 0 /\ IsPiece(Newest(q.tab))
              /\ \A m \in ToSet(q.tab.waiting) : IsPiece(m) => m = Newest(q.tab)
        BY <1>2, <2>1, <2>2, <2>3, <4>1
      <4>3. QED BY <2>1, <2>2, <4>2 DEF Readable
    <3>3. Reads(d)
      BY <1>2, <1>4, <2>1, <3>1, <3>2, FlushedReads
    <3>4. Reached(d.tab) = n
      BY <1>2, <2>1, <3>1, FlushedDoes
    <3>5. Reached(c.tab) <= n
      <4>1. q.tab \in Tabs
        BY <1>2 DEF IsClient
      <4>2. QED BY <2>1, <2>2, <4>1, NewestType
    <3>6. QED BY <3>3, <3>4, <3>5
  <2>4. CASE ~(IsPiece(n) /\ ~c.tab.first)
    <3>1. d = q
      BY <1>1, <2>4
    <3>2. c.shown.text = <<>> => ~q.tab.first /\ \A m \in ToSet(q.tab.waiting) : ~IsPiece(m)
      <4> SUFFICES ASSUME c.shown.text = <<>>
                   PROVE  ~q.tab.first /\ \A m \in ToSet(q.tab.waiting) : ~IsPiece(m)
        OBVIOUS
      <4>1. ~c.tab.first /\ \A m \in ToSet(c.tab.waiting) : ~IsPiece(m)
        BY <2>2
      <4>2. ~IsPiece(n)
        BY <2>4, <4>1
      <4>3. ~q.tab.first
        BY <1>2, <4>1, <4>2
      <4>4. QED BY <2>1, <4>1, <4>2, <4>3
    <3>3. Reads(q)
      BY <1>2, <2>1, <2>2, <3>2 DEF Reads
    <3>4. QED BY <2>1, <2>2, <3>1, <3>3
  <2>5. QED BY <2>3, <2>4
<1>5. QED BY <1>3, <1>4

\* A client that has its fence, and hears no event twice: those of P are to come.
Alert(c, P) ==
  /\ IsClient(c) /\ IsThread(c.shown)
  /\ c.tab.fence \in Nat /\ c.tab.fence <= Newest(c.tab)
  /\ c.tab.seen <= published
  /\ \A n \in P : n \in Nat /\ c.tab.seen < n /\ n <= published /\ n # 1
  /\ \A n \in ToSet(c.tab.waiting) : 1 < n /\ n <= c.tab.seen

\* It takes no event for one it has not had.
Fits(c) == c.tab.rows <= c.tab.fence

\* It has every event, or the event is to come.
Has(t, P, n) == n <= Newest(t) \/ n \in P

Through(t, P) == \A n \in 1..published : Has(t, P, n)

\* From c it comes to d by events of P, and those of R are left.
Leads(c, P, d, R) ==
  /\ Alert(d, R) /\ R \subseteq P
  /\ d.tab.rows = c.tab.rows /\ d.tab.buffer = c.tab.buffer /\ c.ever \subseteq d.ever
  /\ d.tab.seen \in {c.tab.seen} \cup (P \ R)
  /\ \A n \in Nat : Has(c.tab, P, n) => Has(d.tab, R, n)
  /\ Fits(c) => Fits(d)
  /\ Fits(c) /\ Through(c.tab, P) /\ Lists(c) => Lists(d)
  /\ Fits(c) /\ Through(c.tab, P) /\ Reads(c) /\ d.ever \subseteq {"older"} =>
       Reads(d) /\ Reached(c.tab) <= Reached(d.tab)

LEMMA LeadsOn ==
  ASSUME NEW c, NEW P, NEW d, NEW R, NEW e, NEW Q, Leads(c, P, d, R), Leads(d, R, e, Q),
         IsClient(c)
  PROVE  Leads(c, P, e, Q)
<1>1. /\ Alert(e, Q) /\ Q \subseteq P
      /\ e.tab.rows = c.tab.rows /\ e.tab.buffer = c.tab.buffer /\ c.ever \subseteq e.ever
      /\ e.tab.seen \in {c.tab.seen} \cup (P \ Q)
      /\ \A n \in Nat : Has(c.tab, P, n) => Has(e.tab, Q, n)
      /\ Fits(c) => Fits(e)
  BY DEF Leads
<1>2. Through(c.tab, P) => Through(d.tab, R)
  BY DEF Leads, Through
<1>3. Fits(c) /\ Through(c.tab, P) /\ Lists(c) => Lists(e)
  BY <1>2 DEF Leads
<1>4. Fits(c) /\ Through(c.tab, P) /\ Reads(c) /\ e.ever \subseteq {"older"} =>
        Reads(e) /\ Reached(c.tab) <= Reached(e.tab)
  <2> SUFFICES ASSUME Fits(c), Through(c.tab, P), Reads(c), e.ever \subseteq {"older"}
               PROVE  Reads(e) /\ Reached(c.tab) <= Reached(e.tab)
    OBVIOUS
  <2>1. d.ever \subseteq {"older"}
    BY DEF Leads
  <2>2. Fits(d) /\ Reads(d) /\ Reached(c.tab) <= Reached(d.tab)
    BY <2>1 DEF Leads
  <2>3. Reads(e) /\ Reached(d.tab) <= Reached(e.tab)
    BY <1>2, <2>2 DEF Leads
  <2>4. c.tab \in Tabs /\ d.tab \in Tabs /\ e.tab \in Tabs
    BY DEF Leads, Alert, IsClient
  <2>5. Reached(c.tab) \in Int /\ Reached(d.tab) \in Int /\ Reached(e.tab) \in Int
    BY <2>4, NewestType
  <2>6. QED BY <2>2, <2>3, <2>5
<1>5. QED BY <1>1, <1>3, <1>4 DEF Leads

\* What is still, is read as it was.
LEMMA StillReads ==
  ASSUME NEW c, NEW d, Still(c.tab, d.tab), d.shown = c.shown
  PROVE  /\ Newest(d.tab) = Newest(c.tab) /\ Reached(d.tab) = Reached(c.tab)
         /\ Lists(c) <=> Lists(d)
         /\ Reads(c) <=> Reads(d)
<1>1. Newest(d.tab) = Newest(c.tab) /\ Reached(d.tab) = Reached(c.tab)
  BY DEF Still, Newest, Reached
<1>2. Trails(c.tab) <=> Trails(d.tab)
  BY <1>1 DEF Still, Trails
<1>3. QED BY <1>1, <1>2 DEF Still, Lists, Reads

\* The next event to come: it is dropped if a snapshot had it, and accepted
\* otherwise, when all before it were had.
LEMMA HeardLeads ==
  ASSUME NEW c, NEW P, Alert(c, P), Logged, published \in Nat, published <= Len(log),
         NEW n \in P, \A m \in P : n <= m, NEW d, d = HeardDetail(c, n)
  PROVE  Leads(c, P, d, P \ {n})
<1>1. /\ IsClient(c) /\ c.tab \in Tabs /\ c.tab.fence \in Nat /\ c.tab.fence # None
      /\ n \in Nat /\ c.tab.seen < n /\ n <= published /\ n # 1 /\ IsThread(c.shown)
  BY DEF Alert, IsClient, None
<1>2. /\ Newest(c.tab) \in Nat /\ c.tab.seen <= Newest(c.tab) /\ c.tab.rows <= Newest(c.tab)
      /\ Newest(c.tab) \in {c.tab.seen, c.tab.rows}
      /\ c.tab.seen \in Nat /\ c.tab.rows \in Nat /\ Reached(c.tab) \in Int
  BY <1>1, NewestType
<1>3. CASE ~(n > c.tab.fence)
  <2>1. d = c
    BY <1>1, <1>3 DEF HeardDetail
  <2>2. \A m \in Nat : Has(c.tab, P, m) => Has(c.tab, P \ {n}, m)
    BY <1>1, <1>2, <1>3 DEF Has, Alert
  <2>3. Alert(c, P \ {n})
    BY DEF Alert
  <2>4. PICK R : R = P \ {n}
    OBVIOUS
  <2>5. /\ R \subseteq P /\ Alert(c, R) /\ Reached(c.tab) <= Reached(c.tab)
        /\ \A m \in Nat : Has(c.tab, P, m) => Has(c.tab, R, m)
    <3>1. R \subseteq P /\ Reached(c.tab) <= Reached(c.tab)
      BY <1>2, <2>4
    <3>2. Alert(c, R)
      BY <2>3, <2>4
    <3>3. \A m \in Nat : Has(c.tab, P, m) => Has(c.tab, R, m)
      BY <2>2, <2>4
    <3>4. QED BY <3>1, <3>2, <3>3
  <2>6. Leads(c, P, c, R)
    BY <2>5 DEF Leads
  <2>7. QED BY <2>1, <2>4, <2>6
<1>4. CASE n > c.tab.fence
  <2> DEFINE t == [c.tab EXCEPT !.fence = n]
             b == [c EXCEPT !.tab.fence = n]
  <2>1. b = [c EXCEPT !.tab = t]
    OBVIOUS
  <2>2. t \in Tabs /\ Still(c.tab, t) /\ t.buffer = c.tab.buffer /\ t.fence = n
    BY <1>1 DEF Tabs, Still, Numbers
  <2>3. d = Queued(b, n)
    BY <1>1, <1>4 DEF HeardDetail
  <2> HIDE DEF t, b
  <2>4. /\ IsClient(b) /\ b.tab = t /\ b.shown = c.shown /\ b.ever = c.ever
    BY <1>1, <2>1, <2>2, WithTab
  <2>5. /\ Newest(b.tab) = Newest(c.tab) /\ Reached(b.tab) = Reached(c.tab)
        /\ Lists(c) <=> Lists(b)
        /\ Reads(c) <=> Reads(b)
    BY <2>2, <2>4, StillReads
  <2>6. /\ b.tab.seen = c.tab.seen /\ b.tab.rows = c.tab.rows /\ b.tab.waiting = c.tab.waiting
        /\ n > b.tab.seen /\ IsThread(b.shown) /\ b.tab.fence = n /\ b.tab.buffer = c.tab.buffer
    BY <1>1, <1>2, <2>2, <2>4 DEF Still
  <2>7. /\ IsClient(d) /\ IsThread(d.shown) /\ c.ever \subseteq d.ever
        /\ d.tab.seen = n /\ d.tab.rows = c.tab.rows /\ d.tab.fence = n
        /\ d.tab.buffer = c.tab.buffer
        /\ ToSet(d.tab.waiting) \subseteq ToSet(c.tab.waiting) \cup {n}
    <3>1. /\ IsClient(d) /\ IsThread(d.shown) /\ b.ever \subseteq d.ever
          /\ d.tab.seen = n /\ d.tab.rows = b.tab.rows /\ d.tab.fence = b.tab.fence
          /\ d.tab.buffer = b.tab.buffer
          /\ ToSet(d.tab.waiting) \subseteq ToSet(b.tab.waiting) \cup {n}
      <4>1. IsClient(b) /\ IsThread(b.shown) /\ n \in Nat /\ n > b.tab.seen /\ d = Queued(b, n)
        BY <1>1, <2>3, <2>4, <2>6
      <4>2. QED BY <4>1, QueuedDoes
    <3>2. QED BY <2>4, <2>6, <3>1
  <2>8. Newest(d.tab) \in Nat /\ n <= Newest(d.tab) /\ Newest(c.tab) <= Newest(d.tab)
    BY <1>1, <1>2, <2>7 DEF Newest
  <2>9. Alert(d, P \ {n})
    <3>1. ASSUME NEW m \in P \ {n} PROVE m \in Nat /\ n < m /\ m <= published /\ m # 1
      <4>1. m \in Nat /\ m <= published /\ m # 1
        BY DEF Alert
      <4>2. n <= m
        OBVIOUS
      <4>3. QED BY <1>1, <4>1, <4>2
    <3>2. \A m \in ToSet(d.tab.waiting) : 1 < m /\ m <= n
      <4>1. \A m \in ToSet(c.tab.waiting) : m \in Nat
        <5>1. c.tab.waiting \in Seq(Nat)
          BY <1>1 DEF Tabs
        <5>2. QED BY <5>1 DEF ToSet
      <4>2. 1 < n
        BY <1>1, <1>2
      <4>3. QED BY <1>1, <1>2, <2>7, <4>1, <4>2 DEF Alert
    <3>3. QED BY <1>1, <2>7, <2>8, <3>1, <3>2 DEF Alert
  <2>10. \A m \in Nat : Has(c.tab, P, m) => Has(d.tab, P \ {n}, m)
    BY <1>2, <2>8 DEF Has
  <2>11. Fits(c) => Fits(d)
    BY <1>1, <1>2, <1>4, <2>7 DEF Fits
  <2>12. Fits(c) /\ Through(c.tab, P) => n = Newest(b.tab) + 1
    <3> SUFFICES ASSUME Fits(c), Through(c.tab, P) PROVE n = Newest(c.tab) + 1
      BY <2>5
    <3>1. n > c.tab.rows
      BY <1>1, <1>2, <1>4 DEF Fits
    <3>2. n >= Newest(c.tab) + 1
      BY <1>1, <1>2, <3>1
    <3>3. Newest(c.tab) + 1 \in 1..published
      BY <1>1, <1>2, <3>2
    <3>4. Newest(c.tab) + 1 \in P
      BY <1>2, <3>3 DEF Through, Has
    <3>5. QED BY <1>1, <1>2, <3>2, <3>4
  <2>13. ASSUME Fits(c), Through(c.tab, P)
         PROVE  /\ Lists(c) => Lists(d)
                /\ Reads(c) /\ d.ever \subseteq {"older"} =>
                     Reads(d) /\ Reached(c.tab) <= Reached(d.tab)
    <3>1. n = Newest(b.tab) + 1 /\ n <= Len(log)
      <4>1. Len(log) \in Nat
        BY DEF Logged
      <4>2. QED BY <1>1, <2>12, <2>13, <4>1
    <3>2. /\ Lists(b) => Lists(d)
          /\ Reads(b) /\ d.ever \subseteq {"older"} =>
               Reads(d) /\ Reached(b.tab) <= Reached(d.tab)
      BY <1>1, <2>3, <2>4, <2>6, <3>1, QueuedShows
    <3>3. QED BY <2>5, <3>2
  <2>14. QED BY <2>7, <2>9, <2>10, <2>11, <2>13 DEF Leads
<1>5. QED BY <1>3, <1>4

\* What a snapshot does to the thread ...
LEMMA SyncedRows ==
  ASSUME NEW s, IsThread(s), NEW n, NEW u, u = Synced(s, Rows(n))
  PROVE  /\ IsThread(u) /\ u.acts = Rows(n).acts
         /\ \/ /\ s.here
               /\ ~Rows(n).here \/ Len(s.text) > Len(Rows(n).text) \/ (s.ended /\ ~Rows(n).ended)
               /\ u.here = s.here /\ u.text = s.text /\ u.ended = s.ended
            \/ /\ s.here => /\ Rows(n).here /\ ~(Len(s.text) > Len(Rows(n).text))
                            /\ s.ended => Rows(n).ended
               /\ u = Rows(n)
<1>1. PICK r : r = Rows(n) /\ IsThread(r)
  BY DEF Rows, IsThread
<1>2. PICK a : a = r.acts
  OBVIOUS
<1>3. u = [s EXCEPT !.acts = a] =>
        /\ IsThread(u) /\ u.acts = a
        /\ u.here = s.here /\ u.text = s.text /\ u.ended = s.ended
  BY ThreadActs
<1> DEFINE live == /\ s.here
                   /\ \/ ~Rows(n).here \/ Len(s.text) > Len(Rows(n).text)
                      \/ (s.ended /\ ~Rows(n).ended)
<1>4. u = IF live THEN [s EXCEPT !.acts = Rows(n).acts] ELSE Rows(n)
  BY DEF Synced
<1>5. CASE live
  <2>1. u = [s EXCEPT !.acts = a]
    BY <1>1, <1>2, <1>4, <1>5
  <2>2. QED BY <1>1, <1>2, <1>3, <1>5, <2>1
<1>6. CASE ~live
  <2>1. u = Rows(n)
    BY <1>4, <1>6
  <2>2. QED BY <1>1, <1>6, <2>1
<1>7. QED BY <1>5, <1>6

\* ... that shows fewer events,
LEMMA SyncedLater ==
  ASSUME NEW m \in Nat, NEW n \in Nat, m <= n, NEW s, IsThread(s), Shows(s, m),
         NEW u, u = Synced(s, Rows(n))
  PROVE  Shows(u, n)
<1>1. /\ Rows(m).here => Rows(n).here
      /\ Rows(m).ended => Rows(n).ended
      /\ Begins(TextOf(m), TextOf(n))
  BY RowsGrow
<1>2. RowsHave(n)
  BY RowsParts
<1>3. ~(Len(s.text) > Len(Rows(n).text))
  <2>1. TextOf(m) \in Seq(Letters) /\ TextOf(n) \in Seq(Letters)
    BY TextNext
  <2>2. Len(TextOf(m)) \in Nat /\ Len(TextOf(n)) \in Nat
    BY <2>1
  <2>3. QED BY <1>1, <1>2, <2>2 DEF Begins, Shows, RowsHave
<1>4. u = Rows(n)
  BY <1>1, <1>3, SyncedRows DEF Shows
<1>5. QED BY <1>2, <1>4 DEF Shows, RowsHave

\* ... or more of them.
LEMMA SyncedEarlier ==
  ASSUME NEW m \in Nat, NEW n \in Nat, n <= m, NEW s, IsThread(s), Shows(s, m),
         NEW u, u = Synced(s, Rows(n))
  PROVE  Shows(u, m)
<1>1. /\ Rows(n).here => Rows(m).here
      /\ Rows(n).ended => Rows(m).ended
      /\ Begins(TextOf(n), TextOf(m))
  BY RowsGrow
<1>2. RowsHave(n) /\ RowsHave(m)
  BY RowsParts
<1>3. TextOf(m) \in Seq(Letters) /\ TextOf(n) \in Seq(Letters)
  BY TextNext
<1>4. Len(TextOf(m)) \in Nat /\ Len(TextOf(n)) \in Nat
  BY <1>3
<1>5. CASE u.here = s.here /\ u.text = s.text /\ u.ended = s.ended
  BY <1>5 DEF Shows
<1>6. CASE /\ s.here => /\ Rows(n).here /\ ~(Len(s.text) > Len(Rows(n).text))
                        /\ s.ended => Rows(n).ended
           /\ u = Rows(n)
  <2>1. CASE s.here
    <3>1. Rows(n).here /\ Rows(m).here /\ (Rows(m).ended => Rows(n).ended)
      BY <1>6, <2>1 DEF Shows
    <3>2. Len(TextOf(m)) <= Len(TextOf(n))
      <4>1. Rows(n).text = TextOf(n) /\ s.text = TextOf(m)
        BY <1>2 DEF Shows, RowsHave
      <4>2. ~(Len(TextOf(m)) > Len(TextOf(n)))
        BY <1>6, <2>1, <4>1
      <4>3. QED BY <1>4, <4>2
    <3>3. TextOf(n) = TextOf(m)
      BY <1>1, <1>3, <3>2, BeginsSame
    <3>4. Rows(n).here = Rows(m).here /\ Rows(n).ended = Rows(m).ended
      BY <1>1, <1>2, <3>1 DEF RowsHave
    <3>5. QED BY <1>2, <1>6, <3>3, <3>4 DEF Shows, RowsHave
  <2>2. CASE ~s.here
    <3>1. ~Rows(m).here /\ ~Rows(n).here
      BY <1>1, <2>2 DEF Shows
    <3>2. TextOf(m) = <<>> /\ TextOf(n) = <<>>
      BY <3>1, TextHere
    <3>3. ~Rows(m).ended /\ ~Rows(n).ended
      BY <1>1, <1>2, <3>1 DEF RowsHave, IsMessage
    <3>4. Rows(n).here = Rows(m).here /\ Rows(n).ended = Rows(m).ended
      BY <1>2, <3>1, <3>3 DEF RowsHave
    <3>5. QED BY <1>2, <1>6, <3>2, <3>4 DEF Shows, RowsHave
  <2>3. QED BY <2>1, <2>2
<1>7. QED BY <1>5, <1>6, SyncedRows

\* A client with a snapshot, before what waited for it follows.
Fencing(c, upTo, fence, b) ==
  /\ IsClient(b) /\ b.ever = c.ever /\ b.shown = Synced(c.shown, Rows(upTo))
  /\ b.tab.seen = c.tab.seen /\ b.tab.waiting = c.tab.waiting /\ b.tab.first = c.tab.first
  /\ b.tab.rows = (IF upTo > c.tab.rows THEN upTo ELSE c.tab.rows)
  /\ b.tab.fence = fence /\ b.tab.buffer = <<>>

LEMMA SnapshotFences ==
  ASSUME NEW c, IsClient(c), NEW upTo \in Nat, NEW fence \in Nat
  PROVE  \E b : /\ Fencing(c, upTo, fence, b)
                /\ HeardSnapshot(c, upTo, fence) = HeardDetails(b, c.tab.buffer)
<1> DEFINE b == [c EXCEPT !.shown = Synced(@, Rows(upTo)), !.tab.asked = FALSE,
                          !.tab.fence = fence, !.tab.buffer = <<>>,
                          !.tab.rows = IF upTo > @ THEN upTo ELSE @]
           s == [c EXCEPT !.shown = Synced(c.shown, Rows(upTo))]
           t == [c.tab EXCEPT !.asked = FALSE, !.fence = fence, !.buffer = <<>>,
                              !.rows = IF upTo > @ THEN upTo ELSE @]
<1>1. b = [s EXCEPT !.tab = t]
  OBVIOUS
<1>2. PICK rows : rows = IF upTo > c.tab.rows THEN upTo ELSE c.tab.rows
  OBVIOUS
<1>3. /\ t \in Tabs /\ t.fence = fence /\ t.buffer = <<>> /\ t.rows = rows
      /\ t.seen = c.tab.seen /\ t.waiting = c.tab.waiting /\ t.first = c.tab.first
  <2>1. c.tab \in Tabs /\ <<>> \in Seq(Nat)
    BY DEF IsClient
  <2>2. rows \in Nat
    BY <1>2, <2>1 DEF Tabs
  <2>3. t = [c.tab EXCEPT !.asked = FALSE, !.fence = fence, !.buffer = <<>>, !.rows = rows]
    BY <1>2
  <2>4. t \in Tabs
    BY <2>1, <2>2, <2>3 DEF Tabs, Numbers
  <2>5. QED BY <2>1, <2>3, <2>4 DEF Tabs
<1>4. HeardSnapshot(c, upTo, fence) = HeardDetails(b, c.tab.buffer)
  BY DEF HeardSnapshot
<1> HIDE DEF b, t
<1>5. IsClient(s) /\ s.ever = c.ever /\ s.shown = Synced(c.shown, Rows(upTo))
  <2>1. PICK x : x = Synced(c.shown, Rows(upTo))
    OBVIOUS
  <2>2. QED BY <2>1, WithShown
<1> HIDE DEF s
<1>6. IsClient(b) /\ b.tab = t /\ b.ever = s.ever /\ b.shown = s.shown
  BY <1>1, <1>3, <1>5, WithTab
<1>7. Fencing(c, upTo, fence, b)
  BY <1>2, <1>3, <1>5, <1>6 DEF Fencing
<1>8. QED BY <1>4, <1>7

LEMMA LeadsNowhere ==
  ASSUME NEW c, NEW P, Alert(c, P)
  PROVE  Leads(c, P, c, P)
<1>1. c.tab \in Tabs
  BY DEF Alert, IsClient
<1>2. Reached(c.tab) <= Reached(c.tab)
  <2>1. Reached(c.tab) \in Int
    BY <1>1, NewestType
  <2>2. QED BY <2>1
<1>3. QED BY <1>2 DEF Leads

\* The events after the n-th, and those of R.
Left(events, n, R) == {events[j] : j \in (n + 1)..Len(events)} \cup R

\* What waited for a snapshot follows it, in order.
LEMMA HeardAllLeads ==
  ASSUME NEW b, NEW events \in Seq(Nat), NEW R \in SUBSET Nat,
         \A i, j \in 1..Len(events) : i < j => events[i] < events[j],
         \A i \in 1..Len(events) : \A r \in R : events[i] < r,
         Alert(b, Left(events, 0, R)), Logged, published \in Nat, published <= Len(log)
  PROVE  Leads(b, Left(events, 0, R), HeardDetails(b, events), R)
<1>1. Len(events) \in Nat
  OBVIOUS
<1>2. PICK h : HeardUpTo(h, b, events, Len(events)) /\ HeardDetails(b, events) = h[Len(events)]
  BY <1>1, HeardDetailsDef
<1> DEFINE P == Left(events, 0, R)
           Q == {n \in Nat : n <= Len(events) => Leads(b, P, h[n], Left(events, n, R))}
<1> HIDE DEF P
<1>3. Alert(b, P) /\ IsClient(b)
  BY DEF P, Alert
<1>4. 0 \in Q
  <2>1. h[0] = b
    BY <1>1, <1>2 DEF HeardUpTo
  <2>2. Leads(b, P, b, P)
    BY <1>3, LeadsNowhere
  <2>3. QED BY <2>1, <2>2 DEF P
<1>5. ASSUME NEW n \in Nat, n \in Q PROVE n + 1 \in Q
  <2> SUFFICES ASSUME n + 1 <= Len(events)
               PROVE  Leads(b, P, h[n + 1], Left(events, n + 1, R))
    OBVIOUS
  <2>1. /\ n + 1 \in 0..Len(events) /\ n + 1 # 0 /\ (n + 1) - 1 = n /\ n + 1 \in 1..Len(events)
        /\ n <= Len(events) /\ n + 1 \in (n + 1)..Len(events)
    BY <1>1
  <2>2. h[n + 1] = HeardDetail(h[n], events[n + 1])
    BY <1>2, <2>1 DEF HeardUpTo
  <2>3. PICK c, e, d, W, V : /\ c = h[n] /\ e = events[n + 1] /\ d = h[n + 1]
                             /\ W = Left(events, n, R) /\ V = Left(events, n + 1, R)
    OBVIOUS
  <2>4. Leads(b, P, c, W) /\ Alert(c, W)
    <3>1. Leads(b, P, c, W)
      BY <1>5, <2>1, <2>3
    <3>2. QED BY <3>1 DEF Leads
  <2>5. e \in W /\ e \in Nat
    BY <2>1, <2>3 DEF Left
  <2>6. \A m \in W : m = e \/ (m \in V /\ e < m)
    <3>1. ASSUME NEW j \in (n + 1)..Len(events)
          PROVE  events[j] = e \/ (events[j] \in V /\ e < events[j])
      <4>1. CASE j = n + 1
        BY <2>3, <4>1
      <4>2. CASE j # n + 1
        <5>1. j \in ((n + 1) + 1)..Len(events) /\ n + 1 < j /\ j \in 1..Len(events)
          BY <1>1, <4>2
        <5>2. e < events[j]
          BY <2>1, <2>3, <5>1
        <5>3. QED BY <2>3, <5>1, <5>2 DEF Left
      <4>3. QED BY <4>1, <4>2
    <3>2. ASSUME NEW m \in R PROVE m \in V /\ e < m
      BY <2>1, <2>3 DEF Left
    <3>3. QED BY <2>3, <3>1, <3>2 DEF Left
  <2>7. W \ {e} = V
    <3>1. V \subseteq W
      <4>1. ((n + 1) + 1)..Len(events) \subseteq (n + 1)..Len(events)
        BY <1>1
      <4>2. QED BY <2>3, <4>1 DEF Left
    <3>2. e \notin V
      <4>1. ASSUME NEW j \in ((n + 1) + 1)..Len(events) PROVE events[j] # e
        <5>1. n + 1 < j /\ j \in 1..Len(events)
          BY <1>1
        <5>2. e < events[j] /\ events[j] \in Nat
          BY <2>1, <2>3, <5>1
        <5>3. QED BY <2>5, <5>2
      <4>2. ASSUME NEW m \in R PROVE m # e
        <5>1. e < m /\ m \in Nat
          BY <2>1, <2>3
        <5>2. QED BY <2>5, <5>1
      <4>3. QED BY <2>3, <4>1, <4>2 DEF Left
    <3>3. QED BY <2>6, <3>1, <3>2
  <2>8. \A m \in W : e <= m
    <3>1. \A m \in W : m \in Nat
      BY <2>4 DEF Alert
    <3>2. QED BY <2>5, <2>6, <3>1
  <2>9. d = HeardDetail(c, e)
    BY <2>2, <2>3
  <2>10. Leads(c, W, d, W \ {e})
    BY <2>4, <2>5, <2>8, <2>9, HeardLeads
  <2>11. Leads(b, P, d, V)
    BY <1>3, <2>4, <2>7, <2>10, LeadsOn
  <2>12. QED BY <2>3, <2>11
<1>6. Nat \subseteq Q
  <2> HIDE DEF Q
  <2>1. QED BY <1>4, <1>5, InductionOn
<1>7. Len(events) \in Q
  <2> HIDE DEF Q
  <2>1. QED BY <1>1, <1>6
<1>8. Left(events, Len(events), R) = R
  <2>1. (Len(events) + 1)..Len(events) = {}
    BY <1>1
  <2>2. QED BY <2>1 DEF Left
<1>9. Leads(b, P, h[Len(events)], R)
  BY <1>1, <1>7, <1>8
<1>10. QED BY <1>2, <1>9 DEF P

\* A snapshot that meets nothing that waits, before what waited for it follows:
\* it is newer than all the client has, or older.
LEMMA FencingNumbers ==
  ASSUME NEW c, IsClient(c), NEW upTo \in Nat, NEW fence \in Nat, NEW b,
         Fencing(c, upTo, fence, b)
  PROVE  /\ b.tab \in Tabs /\ c.tab \in Tabs
         /\ Newest(b.tab) = (IF upTo > Newest(c.tab) THEN upTo ELSE Newest(c.tab))
         /\ Newest(b.tab) \in Nat /\ Newest(c.tab) \in Nat
         /\ Newest(c.tab) <= Newest(b.tab) /\ upTo <= Newest(b.tab)
<1>1. b.tab \in Tabs /\ c.tab \in Tabs
  BY DEF Fencing, IsClient
<1>2. /\ Newest(c.tab) \in Nat /\ Newest(b.tab) \in Nat
      /\ c.tab.seen \in Nat /\ c.tab.rows \in Nat
  BY <1>1, NewestType
<1>3. b.tab.seen = c.tab.seen /\ b.tab.rows = IF upTo > c.tab.rows THEN upTo ELSE c.tab.rows
  BY DEF Fencing
<1>4. Newest(b.tab) = (IF upTo > Newest(c.tab) THEN upTo ELSE Newest(c.tab))
  BY <1>2, <1>3 DEF Newest
<1>5. QED BY <1>1, <1>2, <1>4

\* Such a snapshot leaves nothing to wait when it is as new as the events.
LEMMA NothingWaits ==
  ASSUME NEW t \in Tabs, NEW upTo \in Nat, t.seen <= upTo,
         \A n \in ToSet(t.waiting) : n <= t.seen,
         \A n \in ToSet(t.waiting) : ~(n <= upTo)
  PROVE  t.waiting = <<>>
<1>1. t.waiting \in Seq(Nat) /\ t.seen \in Nat
  BY DEF Tabs
<1>2. ToSet(t.waiting) \subseteq Nat
  BY <1>1 DEF ToSet
<1>3. ToSet(t.waiting) = {}
  BY <1>1, <1>2
<1>4. t.waiting # <<>> => Head(t.waiting) \in ToSet(t.waiting)
  BY <1>1, RestSet
<1>5. QED BY <1>3, <1>4

LEMMA EmptyTrails ==
  ASSUME NEW t \in Tabs, t.waiting = <<>>
  PROVE  Trails(t) /\ Reached(t) = Newest(t)
<1>1. Newest(t) \in Nat /\ Len(t.waiting) = 0
  BY NewestType
<1>2. Reached(t) = Newest(t)
  BY <1>1 DEF Reached
<1>3. <<>> = [i \in 1..0 |-> Reached(t) + i]
  OBVIOUS
<1>4. QED BY <1>1, <1>2, <1>3 DEF Trails

LEMMA FencingLists ==
  ASSUME NEW c, IsClient(c), IsThread(c.shown), NEW upTo \in Nat, NEW fence \in Nat, NEW b,
         Fencing(c, upTo, fence, b), c.tab.seen <= upTo, c.tab.rows <= upTo,
         \A n \in ToSet(c.tab.waiting) : n <= c.tab.seen,
         \A n \in ToSet(c.tab.waiting) : ~(n <= upTo)
  PROVE  Lists(b)
<1>1. b.tab \in Tabs /\ c.tab \in Tabs
  BY FencingNumbers
<1>2. c.tab.waiting = <<>>
  BY <1>1, NothingWaits
<1>3. b.tab.waiting = <<>> /\ b.shown = Synced(c.shown, Rows(upTo))
  BY <1>2 DEF Fencing
<1>4. Newest(b.tab) = upTo
  <2>1. Newest(c.tab) <= upTo /\ Newest(c.tab) \in Nat
    BY <1>1, NewestType
  <2>2. Newest(b.tab) = (IF upTo > Newest(c.tab) THEN upTo ELSE Newest(c.tab))
    BY FencingNumbers
  <2>3. QED BY <2>1, <2>2
<1>5. Trails(b.tab) /\ Reached(b.tab) = upTo
  BY <1>1, <1>3, <1>4, EmptyTrails
<1>6. b.shown.acts = Places(upTo, {"act"})
  <2>1. PICK s, u : s = c.shown /\ u = Synced(s, Rows(upTo)) /\ b.shown = u
    BY <1>3
  <2>2. u.acts = Rows(upTo).acts
    BY <2>1, SyncedRows
  <2>3. Rows(upTo).acts = Places(upTo, {"act"})
    BY RowsParts DEF RowsHave
  <2>4. QED BY <2>1, <2>2, <2>3
<1>7. QED BY <1>5, <1>6 DEF Lists

LEMMA FencingReads ==
  ASSUME NEW c, IsClient(c), IsThread(c.shown), NEW upTo \in Nat, NEW fence \in Nat, NEW b,
         Fencing(c, upTo, fence, b), Reads(c), c.tab.rows <= upTo,
         \A n \in ToSet(c.tab.waiting) : n <= c.tab.seen,
         \A n \in ToSet(c.tab.waiting) : ~(n <= upTo)
  PROVE  Reads(b) /\ Reached(c.tab) <= Reached(b.tab)
<1>1. b.tab \in Tabs /\ c.tab \in Tabs
  BY FencingNumbers
<1>2. /\ Newest(c.tab) \in Nat /\ c.tab.seen \in Nat /\ c.tab.rows \in Nat
      /\ c.tab.seen <= Newest(c.tab) /\ Newest(c.tab) \in {c.tab.seen, c.tab.rows}
  BY <1>1, NewestType
<1>3. /\ b.tab.waiting = c.tab.waiting /\ b.shown = Synced(c.shown, Rows(upTo))
      /\ b.tab.first = c.tab.first /\ b.tab.seen = c.tab.seen
  BY DEF Fencing
<1>4. /\ Trails(c.tab) /\ Shows(c.shown, Reached(c.tab)) /\ Reached(c.tab) \in Nat
      /\ c.shown.text = <<>> => ~c.tab.first /\ \A n \in ToSet(c.tab.waiting) : ~IsPiece(n)
  BY DEF Reads, Trails
<1>5. Newest(b.tab) = (IF upTo > Newest(c.tab) THEN upTo ELSE Newest(c.tab))
  BY FencingNumbers
\* No text is lost, by either.
<1>6. ASSUME NEW m \in Nat, Reached(c.tab) <= m, Shows(b.shown, m), b.shown.text = <<>>
      PROVE  c.shown.text = <<>>
  <2>1. PICK k \in Nat : k = Reached(c.tab)
    BY <1>4
  <2>2. Begins(TextOf(k), TextOf(m)) /\ TextOf(m) = <<>> /\ c.shown.text = TextOf(k)
    BY <1>4, <1>6, <2>1, TextGrows DEF Shows
  <2>3. PICK t : t = TextOf(k) /\ t \in Seq(Letters)
    BY TextNext
  <2>4. Len(t) = 0
    <3>1. Len(<<>>) = 0 /\ Len(t) \in Nat
      BY <2>3
    <3>2. QED BY <2>2, <2>3, <3>1 DEF Begins
  <2>5. QED BY <2>2, <2>3, <2>4
<1>7. CASE c.tab.seen <= upTo
  <2>1. b.tab.waiting = <<>>
    BY <1>1, <1>3, <1>7, NothingWaits
  <2>2. Newest(b.tab) = upTo /\ Newest(c.tab) <= upTo
    BY <1>2, <1>5, <1>7
  <2>3. Trails(b.tab) /\ Reached(b.tab) = upTo
    BY <1>1, <2>1, <2>2, EmptyTrails
  <2>4. Reached(c.tab) <= upTo
    <3>1. Reached(c.tab) + Len(c.tab.waiting) = Newest(c.tab) /\ Len(c.tab.waiting) \in Nat
      BY <1>1, NewestType
    <3>2. QED BY <1>2, <1>4, <2>2, <3>1
  <2>5. Shows(b.shown, upTo)
    <3>1. PICK k, s, u : k = Reached(c.tab) /\ k \in Nat /\ s = c.shown /\ u = b.shown
      BY <1>4
    <3>2. k <= upTo /\ IsThread(s) /\ Shows(s, k) /\ u = Synced(s, Rows(upTo))
      BY <1>3, <1>4, <2>4, <3>1
    <3>3. QED BY <3>1, <3>2, SyncedLater
  <2>6. b.shown.text = <<>> => ~b.tab.first
    BY <1>3, <1>4, <1>6, <2>4, <2>5
  <2>7. ToSet(b.tab.waiting) = {}
    BY <2>1 DEF ToSet
  <2>8. QED BY <2>3, <2>4, <2>5, <2>6, <2>7 DEF Reads
<1>8. CASE ~(c.tab.seen <= upTo)
  <2>1. Newest(b.tab) = Newest(c.tab) /\ Newest(c.tab) = c.tab.seen /\ upTo < c.tab.seen
    BY <1>2, <1>5, <1>8
  <2>2. Reached(b.tab) = Reached(c.tab) /\ Trails(b.tab)
    BY <1>3, <1>4, <2>1 DEF Reached, Trails
  <2>3. upTo <= Reached(c.tab)
    <3>1. ToSet(c.tab.waiting) = (Reached(c.tab) + 1)..Newest(c.tab)
      BY <1>1, <1>4, TrailsSet
    <3>2. Reached(c.tab) <= Newest(c.tab)
      <4>1. Reached(c.tab) + Len(c.tab.waiting) = Newest(c.tab) /\ Len(c.tab.waiting) \in Nat
        BY <1>1, NewestType
      <4>2. QED BY <1>2, <1>4, <4>1
    <3>3. ~(Reached(c.tab) < upTo)
      <4> SUFFICES ASSUME Reached(c.tab) < upTo PROVE FALSE
        OBVIOUS
      <4>1. upTo \in (Reached(c.tab) + 1)..Newest(c.tab)
        BY <1>2, <1>4, <2>1
      <4>2. QED BY <3>1, <4>1
    <3>4. QED BY <1>4, <3>3
  <2>4. Shows(b.shown, Reached(b.tab))
    <3>1. PICK k, s, u : k = Reached(c.tab) /\ k \in Nat /\ s = c.shown /\ u = b.shown
      BY <1>4
    <3>2. upTo <= k /\ IsThread(s) /\ Shows(s, k) /\ u = Synced(s, Rows(upTo))
      BY <1>3, <1>4, <2>3, <3>1
    <3>3. QED BY <2>2, <3>1, <3>2, SyncedEarlier
  <2>5. b.shown.text = <<>> => c.shown.text = <<>>
    BY <1>4, <1>6, <2>2, <2>4
  <2>6. QED BY <1>3, <1>4, <2>2, <2>4, <2>5 DEF Reads
<1>9. QED BY <1>7, <1>8

-----------------------------------------------------------------------------
(* What a client expects                                                   *)

\* What it waits for, in its buffer and on the way: R.
Awaited(c, R) == ToSet(c.tab.buffer) \cup R

\* Events are newer than those it accepted, in order and of what was published;
\* the creation of the thread is not one of them.
Expects(c, R) ==
  /\ c.tab.seen <= published
  /\ \A i, j \in 1..Len(c.tab.buffer) : i < j => c.tab.buffer[i] < c.tab.buffer[j]
  /\ \A n \in Awaited(c, R) : n \in Nat /\ c.tab.seen < n /\ n <= published /\ n # 1
  /\ \A n \in ToSet(c.tab.buffer) : \A r \in R : n < r
  /\ \A n \in ToSet(c.tab.waiting) : 1 < n /\ n <= c.tab.seen

Sound(c, R) ==
  /\ IsClient(c) /\ IsThread(c.shown) /\ Expects(c, R)
  /\ c.tab.rows <= Len(log) /\ c.tab.fence <= Newest(c.tab)
  /\ c.tab.fence # None => c.tab.buffer = <<>>

\* c becomes d, and misses no more than it did.
Goes(c, R, d, S) ==
  /\ Sound(d, S) /\ c.ever \subseteq d.ever /\ Newest(c.tab) <= Newest(d.tab)
  /\ \A n \in Nat : Has(c.tab, Awaited(c, R), n) => Has(d.tab, Awaited(d, S), n)

\* The client is alert when it has a fence.
LEMMA SoundAlert ==
  ASSUME NEW c, NEW R, Sound(c, R), c.tab.fence # None
  PROVE  Alert(c, R) /\ Awaited(c, R) = R
<1>1. c.tab \in Tabs
  BY DEF Sound, IsClient
<1>2. c.tab.fence \in Nat
  BY <1>1 DEF Tabs, Numbers
<1>3. Awaited(c, R) = R
  BY DEF Sound, Awaited, ToSet
<1>4. QED BY <1>2, <1>3 DEF Sound, Expects, Alert

\* ... and remains what it was.
LEMMA LeadsGoes ==
  ASSUME NEW c, NEW R, Sound(c, R), c.tab.fence # None, NEW d, NEW S, Leads(c, R, d, S)
  PROVE  Goes(c, R, d, S) /\ d.tab.fence # None
<1>1. /\ Alert(d, S) /\ S \subseteq R
      /\ d.tab.rows = c.tab.rows /\ d.tab.buffer = c.tab.buffer /\ c.ever \subseteq d.ever
      /\ d.tab.seen \in {c.tab.seen} \cup (R \ S)
      /\ \A n \in Nat : Has(c.tab, R, n) => Has(d.tab, S, n)
  BY DEF Leads
<1>2. c.tab.buffer = <<>> /\ Awaited(c, R) = R /\ Awaited(d, S) = S
  BY <1>1 DEF Sound, Awaited, ToSet
<1>3. /\ IsClient(d) /\ IsThread(d.shown) /\ d.tab \in Tabs /\ c.tab \in Tabs
      /\ d.tab.fence \in Nat /\ d.tab.fence # None
  BY <1>1 DEF Alert, IsClient, None, Sound
<1>4. Newest(c.tab) <= Newest(d.tab)
  <2>1. c.tab.seen \in Nat /\ c.tab.rows \in Nat /\ d.tab.seen \in Nat
    BY <1>3, NewestType
  <2>2. c.tab.seen <= d.tab.seen
    <3>1. \A n \in R : n \in Nat /\ c.tab.seen < n
      BY DEF Sound, Expects, Awaited
    <3>2. QED BY <1>1, <2>1, <3>1
  <2>3. QED BY <1>1, <2>1, <2>2 DEF Newest
<1>5. Expects(d, S)
  <2>1. Len(d.tab.buffer) = 0 /\ ToSet(d.tab.buffer) = {}
    BY <1>1, <1>2 DEF ToSet
  <2>2. QED BY <1>1, <1>2, <2>1 DEF Expects, Alert
<1>6. Sound(d, S)
  BY <1>1, <1>3, <1>5 DEF Sound, Alert
<1>7. QED BY <1>1, <1>2, <1>3, <1>4, <1>6 DEF Goes

\* A snapshot, and what waited for it.
LEMMA SnapshotGoes ==
  ASSUME NEW c, NEW R, Sound(c, R), Logged, published \in Nat, published <= Len(log),
         NEW upTo \in Nat, upTo <= Len(log), NEW fence \in Nat, fence <= upTo,
         NEW d, d = HeardSnapshot(c, upTo, fence)
  PROVE  /\ \E b : /\ Fencing(c, upTo, fence, b) /\ Leads(b, Awaited(c, R), d, R)
         /\ Goes(c, R, d, R) /\ d.tab.fence # None /\ upTo <= Newest(d.tab)
<1>1. IsClient(c) /\ IsThread(c.shown) /\ c.tab \in Tabs
  BY DEF Sound, IsClient
<1>2. PICK b : Fencing(c, upTo, fence, b) /\ d = HeardDetails(b, c.tab.buffer)
  BY <1>1, SnapshotFences
<1>3. /\ Newest(b.tab) \in Nat /\ Newest(c.tab) \in Nat
      /\ Newest(c.tab) <= Newest(b.tab) /\ upTo <= Newest(b.tab)
  BY <1>1, <1>2, FencingNumbers
<1>4. /\ IsClient(b) /\ b.ever = c.ever /\ b.tab.seen = c.tab.seen
      /\ b.tab.waiting = c.tab.waiting /\ b.tab.fence = fence /\ b.tab.buffer = <<>>
      /\ b.tab.rows = (IF upTo > c.tab.rows THEN upTo ELSE c.tab.rows)
      /\ b.shown = Synced(c.shown, Rows(upTo))
  BY <1>2 DEF Fencing
<1>5. IsThread(b.shown)
  <2>1. PICK s, u : s = c.shown /\ u = b.shown
    OBVIOUS
  <2>2. IsThread(s) /\ u = Synced(s, Rows(upTo))
    BY <1>1, <1>4, <2>1
  <2>3. QED BY <2>1, <2>2, SyncedRows
<1>6. PICK P : P = Awaited(c, R)
  OBVIOUS
<1>7. Sound(b, P) /\ Awaited(b, P) = P
  <2>1. Len(b.tab.buffer) = 0 /\ ToSet(b.tab.buffer) = {}
    BY <1>4 DEF ToSet
  <2>2. Awaited(b, P) = P
    BY <2>1 DEF Awaited
  <2>3. Expects(b, P)
    <3>1. Expects(c, R)
      BY DEF Sound
    <3>2. \A n \in P : n \in Nat /\ c.tab.seen < n /\ n <= published /\ n # 1
      BY <1>6, <3>1 DEF Expects
    <3>3. /\ c.tab.seen <= published
          /\ \A n \in ToSet(c.tab.waiting) : 1 < n /\ n <= c.tab.seen
      BY <3>1 DEF Expects
    <3>4. QED BY <1>4, <2>1, <2>2, <3>2, <3>3 DEF Expects
  <2>4. b.tab.rows <= Len(log)
    BY <1>4 DEF Sound
  <2>5. b.tab.fence <= Newest(b.tab)
    BY <1>3, <1>4
  <2>6. QED BY <1>4, <1>5, <2>2, <2>3, <2>4, <2>5 DEF Sound
<1>8. fence # None
  BY DEF None
<1>9. Alert(b, P)
  BY <1>4, <1>7, <1>8, SoundAlert
<1>10. PICK events : events = c.tab.buffer
  OBVIOUS
<1>11. Left(events, 0, R) = P
  <2>1. events \in Seq(Nat)
    BY <1>1, <1>10 DEF Tabs
  <2>2. DOMAIN events = 1..Len(events) /\ 0 + 1 = 1
    BY <2>1
  <2>3. ToSet(events) = {events[j] : j \in (0 + 1)..Len(events)}
    BY <2>2 DEF ToSet
  <2>4. QED BY <1>6, <1>10, <2>3 DEF Left, Awaited
<1>12. Leads(b, P, d, R)
  <2>1. events \in Seq(Nat) /\ Len(events) \in Nat /\ DOMAIN events = 1..Len(events)
    BY <1>1, <1>10 DEF Tabs
  <2>2. Expects(c, R)
    BY DEF Sound
  <2>3. /\ R \in SUBSET Nat /\ \A i, j \in 1..Len(events) : i < j => events[i] < events[j]
    BY <1>10, <2>2 DEF Expects, Awaited
  <2>4. \A i \in 1..Len(events) : \A r \in R : events[i] < r
    <3>1. \A i \in 1..Len(events) : events[i] \in ToSet(events)
      BY <2>1 DEF ToSet
    <3>2. QED BY <1>10, <2>2, <3>1 DEF Expects
  <2>5. Alert(b, Left(events, 0, R))
    BY <1>9, <1>11
  <2>6. Leads(b, Left(events, 0, R), HeardDetails(b, events), R)
    BY <2>1, <2>3, <2>4, <2>5, HeardAllLeads
  <2>7. QED BY <1>2, <1>10, <1>11, <2>6
<1>13. Goes(b, P, d, R) /\ d.tab.fence # None
  BY <1>4, <1>7, <1>8, <1>12, LeadsGoes
<1>14. d.tab \in Tabs /\ Newest(d.tab) \in Nat
  <2>1. d.tab \in Tabs
    BY <1>13 DEF Goes, Sound, IsClient
  <2>2. QED BY <2>1, NewestType
<1>15. Goes(c, R, d, R)
  <2>1. \A n \in Nat : Has(c.tab, P, n) => Has(b.tab, P, n)
    BY <1>3 DEF Has
  <2>2. \A n \in Nat : Has(c.tab, Awaited(c, R), n) => Has(d.tab, Awaited(d, R), n)
    BY <1>6, <1>7, <1>13, <2>1 DEF Goes
  <2>3. Newest(c.tab) <= Newest(d.tab)
    BY <1>3, <1>13, <1>14 DEF Goes
  <2>4. QED BY <1>4, <1>13, <2>2, <2>3 DEF Goes
<1>16. upTo <= Newest(d.tab)
  BY <1>3, <1>13, <1>14 DEF Goes
<1>17. QED BY <1>2, <1>6, <1>12, <1>13, <1>15, <1>16

\* What is not touched is as it was.
LEMMA UntouchedSound ==
  ASSUME NEW c, NEW R, Sound(c, R), NEW d, IsClient(d), Untouched(c, d)
  PROVE  /\ Sound(d, R) /\ Awaited(d, R) = Awaited(c, R) /\ Newest(d.tab) = Newest(c.tab)
         /\ d.tab.fence = c.tab.fence
<1>1. /\ d.tab.seen = c.tab.seen /\ d.tab.rows = c.tab.rows /\ d.tab.waiting = c.tab.waiting
      /\ d.tab.fence = c.tab.fence /\ d.tab.buffer = c.tab.buffer
      /\ d.shown = c.shown /\ d.ever = c.ever
  BY DEF Untouched, Stays, Still
<1>2. Awaited(d, R) = Awaited(c, R) /\ Newest(d.tab) = Newest(c.tab)
  BY <1>1 DEF Awaited, Newest
<1>3. QED BY <1>1, <1>2 DEF Sound, Expects

LEMMA UntouchedLeads ==
  ASSUME NEW c, NEW R, NEW b, Untouched(c, b), NEW d, NEW S, Leads(b, R, d, S)
  PROVE  Leads(c, R, d, S)
<1>1. /\ b.tab.seen = c.tab.seen /\ b.tab.rows = c.tab.rows
      /\ b.tab.fence = c.tab.fence /\ b.tab.buffer = c.tab.buffer /\ b.ever = c.ever
  BY DEF Untouched, Stays, Still
<1>2. /\ Newest(b.tab) = Newest(c.tab) /\ Reached(b.tab) = Reached(c.tab)
      /\ Lists(c) <=> Lists(b)
      /\ Reads(c) <=> Reads(b)
  BY StillReads DEF Untouched, Stays
<1>3. /\ Fits(b) <=> Fits(c)
      /\ Through(b.tab, R) <=> Through(c.tab, R)
      /\ \A n : Has(b.tab, R, n) <=> Has(c.tab, R, n)
  BY <1>1, <1>2 DEF Fits, Through, Has
<1>4. QED BY <1>1, <1>2, <1>3 DEF Leads

\* An event for a client without a fence waits for the snapshot.
LEMMA BufferedGoes ==
  ASSUME NEW c, NEW R, Sound(c, R), c.tab.fence = None, NEW n \in R, \A m \in R : n <= m,
         NEW d, d = HeardDetail(c, n)
  PROVE  /\ Goes(c, R, d, R \ {n}) /\ d.tab.fence = None
         /\ Still(c.tab, d.tab) /\ d.shown = c.shown /\ d.ever = c.ever
<1>1. IsClient(c) /\ c.tab \in Tabs /\ n \in Nat /\ c.tab.buffer \in Seq(Nat) /\ Expects(c, R)
  BY DEF Sound, Expects, Awaited, IsClient, Tabs
<1> DEFINE t == [c.tab EXCEPT !.buffer = Append(@, n)]
           b == [c EXCEPT !.tab.buffer = Append(@, n)]
<1>2. b = [c EXCEPT !.tab = t]
  OBVIOUS
<1>3. PICK v, w : v = c.tab.buffer /\ w = Append(c.tab.buffer, n)
  OBVIOUS
<1>4. /\ w \in Seq(Nat) /\ Len(w) = Len(v) + 1 /\ Len(v) \in Nat /\ DOMAIN v = 1..Len(v)
      /\ \A i \in 1..Len(v) : w[i] = v[i]
      /\ w[Len(v) + 1] = n /\ ToSet(w) = ToSet(v) \cup {n}
  BY <1>1, <1>3, Appended, AppendedSet
<1>5. /\ t \in Tabs /\ t.buffer = w /\ Still(c.tab, t) /\ t.fence = c.tab.fence
  BY <1>1, <1>3, <1>4 DEF Tabs, Still
<1>6. d = Requested(b)
  BY <1>1 DEF HeardDetail, None
<1> HIDE DEF t, b
<1>7. IsClient(b) /\ b.tab = t /\ b.shown = c.shown /\ b.ever = c.ever
  BY <1>1, <1>2, <1>5, WithTab
<1>8. IsClient(d) /\ Untouched(b, d)
  BY <1>6, <1>7, RequestedAsks
<1>9. /\ d.tab.buffer = w /\ Still(c.tab, d.tab) /\ d.tab.fence = None
      /\ d.shown = c.shown /\ d.ever = c.ever
  BY <1>5, <1>7, <1>8 DEF Untouched, Stays, Still
<1>10. PICK S : S = R \ {n}
  OBVIOUS
<1>11. Awaited(d, S) = Awaited(c, R)
  BY <1>3, <1>4, <1>9, <1>10 DEF Awaited
<1>12. /\ Newest(d.tab) = Newest(c.tab) /\ d.tab.seen = c.tab.seen /\ d.tab.rows = c.tab.rows
       /\ d.tab.waiting = c.tab.waiting
  BY <1>9 DEF Still, Newest
<1>13. \A m \in ToSet(v) : m < n
  BY <1>1, <1>3 DEF Expects
<1>14. \A i, j \in 1..Len(w) : i < j => w[i] < w[j]
  <2> SUFFICES ASSUME NEW i \in 1..Len(w), NEW j \in 1..Len(w), i < j PROVE w[i] < w[j]
    OBVIOUS
  <2>1. i \in 1..Len(v) /\ w[i] = v[i] /\ v[i] \in ToSet(v)
    BY <1>4 DEF ToSet
  <2>2. CASE j = Len(v) + 1
    BY <1>4, <1>13, <2>1, <2>2
  <2>3. CASE j # Len(v) + 1
    <3>1. j \in 1..Len(v) /\ w[j] = v[j]
      <4>1. Len(w) = Len(v) + 1 /\ Len(v) \in Nat
        BY <1>4
      <4>2. j \in 1..Len(v)
        BY <2>3, <4>1
      <4>3. QED BY <1>4, <4>2
    <3>2. QED BY <1>1, <1>3, <2>1, <3>1 DEF Expects
  <2>4. QED BY <2>2, <2>3
<1>15. \A m \in ToSet(w) : \A r \in S : m < r
  <2>1. \A r \in S : n < r
    <3>1. \A r \in R : r \in Nat
      BY <1>1 DEF Expects, Awaited
    <3>2. QED BY <1>1, <1>10, <3>1
  <2>2. \A m \in ToSet(v) : \A r \in S : m < r
    BY <1>1, <1>3, <1>10 DEF Expects
  <2>3. QED BY <1>4, <2>1, <2>2
<1>16. Expects(d, S)
  <2>1. /\ c.tab.seen <= published
        /\ \A m \in Awaited(c, R) : m \in Nat /\ c.tab.seen < m /\ m <= published /\ m # 1
        /\ \A m \in ToSet(c.tab.waiting) : 1 < m /\ m <= c.tab.seen
    BY <1>1 DEF Expects
  <2>2. QED BY <1>9, <1>11, <1>12, <1>14, <1>15, <2>1 DEF Expects
<1>17. Newest(c.tab) \in Nat
  BY <1>1, NewestType
<1>18. Sound(d, S)
  BY <1>8, <1>9, <1>12, <1>16, <1>17 DEF Sound, None
<1>19. \A m \in Nat : Has(c.tab, Awaited(c, R), m) => Has(d.tab, Awaited(d, S), m)
  BY <1>11, <1>12 DEF Has
<1>20. Goes(c, R, d, S)
  BY <1>9, <1>12, <1>17, <1>18, <1>19 DEF Goes
<1>21. QED BY <1>9, <1>10, <1>20

\* What an event does to the client.
EventGoes(c, R, d, S) ==
  /\ Goes(c, R, d, S) /\ (d.tab.fence = None <=> c.tab.fence = None)
  /\ c.tab.fence = None => Still(c.tab, d.tab) /\ d.shown = c.shown /\ d.ever = c.ever
  /\ c.tab.fence # None => Leads(c, R, d, S)

LEMMA UntouchedGoes ==
  ASSUME NEW c, NEW R, Sound(c, R), NEW b, IsClient(b), Untouched(c, b)
  PROVE  /\ EventGoes(c, R, b, R)
         /\ \A d, S : EventGoes(b, R, d, S) => EventGoes(c, R, d, S)
<1>1. /\ Sound(b, R) /\ Awaited(b, R) = Awaited(c, R) /\ Newest(b.tab) = Newest(c.tab)
      /\ b.tab.fence = c.tab.fence
  BY UntouchedSound
<1>2. Newest(c.tab) \in Nat
  <2>1. c.tab \in Tabs
    BY DEF Sound, IsClient
  <2>2. QED BY <2>1, NewestType
<1>3. b.ever = c.ever /\ b.shown = c.shown /\ Still(c.tab, b.tab)
  BY DEF Untouched, Stays
<1>4. \A n : Has(c.tab, Awaited(c, R), n) <=> Has(b.tab, Awaited(b, R), n)
  BY <1>1 DEF Has
<1>5. Goes(c, R, b, R)
  BY <1>1, <1>2, <1>3, <1>4 DEF Goes
<1>6. c.tab.fence # None => Leads(c, R, b, R)
  <2> SUFFICES ASSUME c.tab.fence # None PROVE Leads(c, R, b, R)
    OBVIOUS
  <2>1. Alert(b, R)
    BY <1>1, SoundAlert
  <2>2. Leads(b, R, b, R)
    BY <2>1, LeadsNowhere
  <2>3. QED BY <2>2, UntouchedLeads
<1>7. EventGoes(c, R, b, R)
  BY <1>1, <1>3, <1>5, <1>6 DEF EventGoes
<1>8. ASSUME NEW d, NEW S, EventGoes(b, R, d, S) PROVE EventGoes(c, R, d, S)
  <2>1. Goes(c, R, d, S)
    BY <1>1, <1>3, <1>4, <1>8 DEF EventGoes, Goes
  <2>2. c.tab.fence = None => Still(c.tab, d.tab) /\ d.shown = c.shown /\ d.ever = c.ever
    BY <1>1, <1>3, <1>8 DEF EventGoes, Still
  <2>3. c.tab.fence # None => Leads(c, R, d, S)
    BY <1>1, <1>8, UntouchedLeads DEF EventGoes
  <2>4. QED BY <1>1, <1>8, <2>1, <2>2, <2>3 DEF EventGoes
<1>9. QED BY <1>7, <1>8

LEMMA DetailGoes ==
  ASSUME NEW c, NEW R, Sound(c, R), Logged, published \in Nat, published <= Len(log),
         NEW n \in R, \A m \in R : n <= m, NEW d, d = HeardDetail(c, n)
  PROVE  EventGoes(c, R, d, R \ {n})
<1>1. CASE c.tab.fence = None
  BY <1>1, BufferedGoes DEF EventGoes
<1>2. CASE c.tab.fence # None
  <2>1. Alert(c, R)
    BY <1>2, SoundAlert
  <2>2. Leads(c, R, d, R \ {n})
    BY <2>1, HeardLeads
  <2>3. PICK S : S = R \ {n}
    OBVIOUS
  <2>4. Leads(c, R, d, S)
    BY <2>2, <2>3
  <2>5. Goes(c, R, d, S) /\ d.tab.fence # None
    BY <1>2, <2>4, LeadsGoes
  <2>6. QED BY <1>2, <2>3, <2>4, <2>5 DEF EventGoes
<1>3. QED BY <1>1, <1>2

LEMMA HearEventGoes ==
  ASSUME Typed, NEW p \in Events, HearEvent(p), Logged,
         NEW R, Sound(Client, R), NEW S, S = (IF p.detail THEN R \ {p.event} ELSE R),
         p.detail => p.event \in R /\ \A m \in R : p.event <= m
  PROVE  \E d : d = Client' /\ EventGoes(Client, R, d, S) /\ UNCHANGED last
<1>1. PICK o, n : o = Client /\ n = p.event
  OBVIOUS
<1>2. IsClient(o) /\ Sound(o, R) /\ published \in Nat /\ published <= Len(log) /\ n \in Nat
  BY <1>1, ClientTyped DEF Typed, Events
<1>3. PICK c : c = IF p.shell THEN HeardShell(o, n) ELSE o
  OBVIOUS
<1>4. PICK d : d = IF p.detail THEN HeardDetail(c, n) ELSE c
  OBVIOUS
<1>5. Becomes(d) /\ UNCHANGED last
  BY <1>1, <1>3, <1>4 DEF HearEvent
<1>6. IsClient(c) /\ Untouched(o, c)
  <2>1. CASE p.shell
    BY <1>2, <1>3, <2>1, HeardShellAsks
  <2>2. CASE ~p.shell
    BY <1>2, <1>3, <2>2 DEF Untouched, Stays, Still
  <2>3. QED BY <2>1, <2>2
<1>7. Sound(c, R)
  BY <1>2, <1>6, UntouchedSound
<1>8. EventGoes(o, R, d, S)
  <2>1. CASE p.detail
    <3>1. n \in R /\ \A m \in R : n <= m
      BY <1>1, <2>1
    <3>2. d = HeardDetail(c, n) /\ S = R \ {n}
      BY <1>1, <1>4, <2>1
    <3>3. EventGoes(c, R, d, R \ {n})
      BY <1>2, <1>7, <3>1, <3>2, DetailGoes
    <3>4. EventGoes(c, R, d, S)
      BY <3>2, <3>3
    <3>5. QED BY <1>2, <1>6, <3>4, UntouchedGoes
  <2>2. CASE ~p.detail
    BY <1>2, <1>4, <1>6, <2>2, UntouchedGoes
  <2>3. QED BY <2>1, <2>2
<1>9. d = Client'
  <2>1. IsClient(d)
    BY <1>8 DEF EventGoes, Goes, Sound
  <2>2. d = [tab |-> d.tab, shown |-> d.shown, ever |-> d.ever, requests |-> d.requests]
    BY <2>1, Parts
  <2>3. QED BY <1>5, <2>2 DEF Becomes, Client
<1>10. QED BY <1>1, <1>5, <1>8, <1>9

-----------------------------------------------------------------------------
(* The invariant of what is shown                                          *)

IsDetail(p) == p.kind = "event" /\ p.detail

\* The events of the thread on their way, ...
Details == {p.event : p \in {q \in ToSet(pushes) : IsDetail(q)}}

\* ... in order.
Ordered ==
  \A i, j \in DOMAIN pushes :
    i < j /\ IsDetail(pushes[i]) /\ IsDetail(pushes[j]) => pushes[i].event < pushes[j].event

\* Snapshots are of the log, and their fences not ahead of them.
Within ==
  /\ \A s \in ToSet(serving) : s.upTo # None => s.upTo <= Len(log) /\ s.fence <= s.upTo
  /\ \A p \in ToSet(pushes) : p.kind = "thread" => p.upTo <= Len(log) /\ p.fence <= p.upTo

\* Nothing was asked in a subscription to come.
Dated ==
  /\ \A r \in ToSet(requests) : r.epoch <= tab.epoch
  /\ \A s \in ToSet(serving) : s.epoch <= tab.epoch
  /\ \A p \in ToSet(pushes) : p.kind = "thread" => p.epoch <= tab.epoch

\* The thread is asked for after it was left.
Leaves ==
  \A i, j \in DOMAIN requests :
    /\ requests[i].asks = "thread" /\ requests[i].epoch = tab.epoch
    /\ requests[j].asks = "leave"
    => j < i

\* The client has a snapshot of this subscription, ...
Synchronized == tab.fence # None /\ "late" \notin last

\* ... or one comes that the server has begun to serve;
Served(s) == s \in ToSet(serving) /\ s.epoch = tab.epoch

Pushed(p) == p \in ToSet(pushes) /\ p.kind = "thread" /\ p.epoch = tab.epoch

Due == Synchronized \/ (\E s : Served(s)) \/ (\E p : Pushed(p))

\* the server then pushes it the events, ...
Tuned == Greeted /\ Due => subs.thread /\ ~Asked("leave")

\* ... and it has, or will have, those after its snapshot.
Follows(m) == \A n \in (m + 1)..published : Has(tab, Awaited(Client, Details), n)

Complete ==
  Greeted =>
    /\ Synchronized => Newest(tab) # 0 /\ Follows(0)
    /\ \A s : Served(s) /\ s.upTo # None /\ s.upTo # 0 => Follows(s.upTo)
    /\ \A p : Pushed(p) /\ p.upTo # 0 => Follows(p.upTo)

Fit == tab.fence # None /\ last \cap {"behind", "turned"} = {} => Fits(Client)

Texts == ever \subseteq {"older"} => Reads(Client)

Activities == tab.fence # None /\ last = {} => Lists(Client)

Displayed == last \subseteq ever /\ Fit /\ Texts /\ Activities

Faithful ==
  /\ Logged /\ Sound(Client, Details) /\ Ordered /\ Within /\ Dated /\ Leaves
  /\ Tuned /\ Complete /\ Displayed

\* What was shown of the log stays as the log grows.
LEMMA ShownStays ==
  ASSUME NEW c, NEW R, Sound(c, R), Logged, published \in Nat, published <= Len(log),
         \A i \in 1..Len(log) : log[i]' = log[i]
  PROVE  /\ Reads(c) => Reads(c)'
         /\ Lists(c) => Lists(c)'
         /\ \A n \in 0..Len(log) : \A s : Shows(s, n)' <=> Shows(s, n)
<1>1. c.tab \in Tabs /\ c.tab.seen <= published /\ c.tab.rows <= Len(log) /\ Len(log) \in Nat
  BY DEF Sound, Expects, IsClient, Logged
<1>2. /\ Newest(c.tab) \in Nat /\ Newest(c.tab) \in {c.tab.seen, c.tab.rows}
      /\ c.tab.seen \in Nat /\ c.tab.rows \in Nat /\ Newest(c.tab) <= Len(log)
  <2>1. /\ Newest(c.tab) \in Nat /\ Newest(c.tab) \in {c.tab.seen, c.tab.rows}
        /\ c.tab.seen \in Nat /\ c.tab.rows \in Nat
    BY <1>1, NewestType
  <2>2. QED BY <1>1, <2>1
<1>3. ASSUME NEW n \in 0..Len(log)
      PROVE  /\ \A s : Shows(s, n)' <=> Shows(s, n)
             /\ \A kinds : Places(n, kinds)' = Places(n, kinds)
  <2>1. n \in Nat /\ \A i \in 1..n : log[i]' = log[i]
    BY <1>1
  <2>2. \A kinds : Places(n, kinds)' = Places(n, kinds)
    BY <2>1, PlacesStay
  <2>3. TextOf(n)' = TextOf(n)
    <3>1. \A i \in DOMAIN Places(n, Letters) : Places(n, Letters)[i] \in 1..n
      BY <2>1, PlacesType
    <3>2. Places(n, Letters)' = Places(n, Letters)
      BY <2>2
    <3>3. PICK v : v = Places(n, Letters)
      OBVIOUS
    <3>4. Places(n, Letters)' = v /\ \A i \in DOMAIN v : log[v[i]]' = log[v[i]]
      BY <2>1, <3>1, <3>2, <3>3
    <3>5. QED BY <3>3, <3>4 DEF TextOf
  <2>4. Rows(n)'.here = Rows(n).here /\ Rows(n)'.ended = Rows(n).ended
    BY <2>1 DEF Rows, IsMessage, IsPiece
  <2>5. QED BY <2>2, <2>3, <2>4 DEF Shows
<1>4. Trails(c.tab) => Reached(c.tab) \in 0..Len(log) /\ Trails(c.tab)'
  <2> SUFFICES ASSUME Trails(c.tab) PROVE Reached(c.tab) \in 0..Len(log) /\ Trails(c.tab)'
    OBVIOUS
  <2>1. /\ Reached(c.tab) + Len(c.tab.waiting) = Newest(c.tab) /\ Len(c.tab.waiting) \in Nat
        /\ Reached(c.tab) \in Nat
    BY <1>1, NewestType DEF Trails
  <2>2. Trails(c.tab)'
    BY DEF Trails, Reached, Newest
  <2>3. QED BY <1>1, <1>2, <2>1, <2>2
<1>5. Reached(c.tab)' = Reached(c.tab)
  BY DEF Reached, Newest
<1>6. Lists(c) => Lists(c)'
  <2> SUFFICES ASSUME Lists(c) PROVE Lists(c)'
    OBVIOUS
  <2>1. PICK k : k = Reached(c.tab)
    OBVIOUS
  <2>2. k \in 0..Len(log) /\ Trails(c.tab)' /\ c.shown.acts = Places(k, {"act"})
    BY <1>4, <2>1 DEF Lists
  <2>3. Places(k, {"act"})' = Places(k, {"act"}) /\ Reached(c.tab)' = k
    BY <1>3, <1>5, <2>1, <2>2
  <2>4. QED BY <2>2, <2>3 DEF Lists
<1>7. Reads(c) => Reads(c)'
  <2> SUFFICES ASSUME Reads(c) PROVE Reads(c)'
    OBVIOUS
  <2>1. PICK k : k = Reached(c.tab)
    OBVIOUS
  <2>2. /\ k \in 0..Len(log) /\ Trails(c.tab)' /\ Trails(c.tab) /\ Shows(c.shown, k)
        /\ c.shown.text = <<>> => ~c.tab.first /\ \A n \in ToSet(c.tab.waiting) : ~IsPiece(n)
    BY <1>4, <2>1 DEF Reads
  <2>3. Shows(c.shown, k)' /\ Reached(c.tab)' = k
    BY <1>3, <1>5, <2>1, <2>2
  <2>4. \A n \in ToSet(c.tab.waiting) : IsPiece(n)' <=> IsPiece(n)
    <3>1. \A n \in ToSet(c.tab.waiting) : n \in 1..Len(log)
      <4>1. ToSet(c.tab.waiting) = (k + 1)..Newest(c.tab)
        BY <1>1, <2>1, <2>2, TrailsSet
      <4>2. QED BY <1>1, <1>2, <2>2, <4>1
    <3>2. QED BY <3>1 DEF IsPiece
  <2>5. QED BY <2>2, <2>3, <2>4 DEF Reads
<1>8. QED BY <1>3, <1>6, <1>7

-----------------------------------------------------------------------------
(* The server keeps it                                                     *)

\* What is shown, and of what subscription, is not a matter of the server.
LEMMA DisplayedKeeps ==
  ASSUME IInv, Faithful, \A i \in 1..Len(log) : log[i]' = log[i],
         UNCHANGED <<tab, shown, ever, last>>
  PROVE  Displayed'
<1>1. PICK c, R : c = Client /\ R = Details
  OBVIOUS
<1>2. /\ c.tab = tab /\ c.ever = ever /\ c.shown = shown
      /\ UNCHANGED tab /\ UNCHANGED shown /\ UNCHANGED ever /\ UNCHANGED last
  BY <1>1 DEF Client
<1>3. Sound(c, R) /\ Logged /\ published \in Nat /\ published <= Len(log)
  BY <1>1 DEF IInv, Typed, Faithful
<1>4. (Reads(c) => Reads(c)') /\ (Lists(c) => Lists(c)')
  <2>1. \A i \in 1..Len(log) : log[i]' = log[i]
    OBVIOUS
  <2>2. QED BY <1>3, <2>1, ShownStays
<1>5. /\ Displayed /\ Client = c
      /\ Reads(c)' => Reads(Client)'
      /\ Lists(c)' => Lists(Client)'
  <2>1. Displayed /\ Client = c
    BY <1>1 DEF Faithful
  <2>2. Reads(c)' => Reads(Client)'
    BY <1>2 DEF Reads, Client
  <2>3. Lists(c)' => Lists(Client)'
    BY <1>2 DEF Lists, Client
  <2>4. QED BY <2>1, <2>2, <2>3
<1>6. last' \subseteq ever' /\ Fit'
  BY <1>2, <1>5 DEF Displayed, Fit, Fits, Client
<1>7. Texts'
  BY <1>2, <1>4, <1>5 DEF Displayed, Texts
<1>8. Activities'
  BY <1>2, <1>4, <1>5 DEF Displayed, Activities
<1>9. QED BY <1>6, <1>7, <1>8 DEF Displayed

\* Events are elements of the log.
LEMMA DetailsType ==
  ASSUME Typed
  PROVE  Details \subseteq Nat
<1>1. \A p \in ToSet(pushes) : p.kind = "event" => p.event \in Nat
  BY Elements, PushFacts DEF Events
<1>2. QED BY <1>1 DEF Details, IsDetail

\* What is pushed, and is no event of the thread, changes little.
LEMMA PushedPlainly ==
  ASSUME Typed, Ordered, NEW p \in Pushes, ~IsDetail(p), pushes' = Append(pushes, p)
  PROVE  /\ Ordered' /\ Details' = Details /\ ToSet(pushes') = ToSet(pushes) \cup {p}
<1>1. /\ Len(pushes) \in Nat /\ DOMAIN pushes = 1..Len(pushes)
      /\ DOMAIN pushes' = 1..(Len(pushes) + 1)
      /\ \A i \in 1..Len(pushes) : pushes'[i] = pushes[i]
      /\ pushes'[Len(pushes) + 1] = p
      /\ ToSet(pushes') = ToSet(pushes) \cup {p}
  BY Appended, AppendedSet DEF Typed
<1>2. \A i \in DOMAIN pushes' :
        IsDetail(pushes'[i]) => i \in DOMAIN pushes /\ pushes'[i] = pushes[i]
  BY <1>1
<1>3. Ordered'
  BY <1>2 DEF Ordered, IsDetail
<1>4. Details' = Details
  BY <1>1 DEF Details, IsDetail
<1>5. QED BY <1>1, <1>3, <1>4

\* The log grows by what fits.
LEMMA CommitLogs ==
  ASSUME IInv, Logged, NEW e \in Letters \cup {"created", "end", "act"}, Commit(e)
  PROVE  /\ Logged' /\ Len(log') = Len(log) + 1 /\ Len(log) \in Nat
         /\ \A i \in 1..Len(log) : log[i]' = log[i]
<1>1. /\ log' = Append(log, e)
      /\ IF log = <<>> THEN e = "created" ELSE e # "created"
      /\ e = "end" => \E i \in DOMAIN log : IsPiece(i)
      /\ e # "act" => "end" \notin ToSet(log)
  BY DEF Commit
<1>2. PICK S : S = Letters \cup {"created", "end", "act"}
  OBVIOUS
<1>3. log \in Seq(S) /\ e \in S
  BY <1>2 DEF Logged
<1>4. /\ log' \in Seq(S) /\ Len(log') = Len(log) + 1 /\ Len(log) \in Nat
      /\ DOMAIN log' = 1..(Len(log) + 1) /\ DOMAIN log = 1..Len(log)
      /\ \A i \in 1..Len(log) : log'[i] = log[i]
      /\ log'[Len(log) + 1] = e
  BY <1>1, <1>3, Appended
<1>5. PICK n : n = Len(log) + 1 /\ n \in Nat /\ n # 0
  BY <1>4
<1>6. \A i \in 1..Len(log) : log[i]' = log[i] /\ (IsPiece(i)' <=> IsPiece(i))
  BY <1>4 DEF IsPiece
<1>7. ASSUME NEW i \in DOMAIN log'
      PROVE  /\ log'[i] = "created" <=> i = 1
             /\ log'[i] = "end" => /\ \A j \in DOMAIN log' : j > i => log'[j] = "act"
                                   /\ \E j \in 1..i : IsPiece(j)'
  <2>1. CASE i = n
    <3>1. log'[i] = e /\ \A j \in DOMAIN log' : ~(j > i)
      BY <1>4, <1>5, <2>1
    <3>2. e = "created" <=> n = 1
      <4>1. log = <<>> <=> Len(log) = 0
        BY <1>3
      <4>2. QED BY <1>1, <1>4, <1>5, <4>1
    <3>3. e = "end" => \E j \in 1..i : IsPiece(j)'
      <4> SUFFICES ASSUME e = "end" PROVE \E j \in 1..i : IsPiece(j)'
        OBVIOUS
      <4>1. PICK j \in 1..Len(log) : IsPiece(j)
        BY <1>1, <1>4
      <4>2. IsPiece(j)' /\ j \in 1..i
        BY <1>4, <1>5, <1>6, <2>1, <4>1
      <4>3. QED BY <4>2
    <3>4. QED BY <2>1, <3>1, <3>2, <3>3
  <2>2. CASE i # n
    <3>1. i \in 1..Len(log) /\ log'[i] = log[i] /\ i \in DOMAIN log
      BY <1>4, <1>5, <2>2
    <3>2. /\ log[i] = "created" <=> i = 1
          /\ log[i] = "end" => /\ \A j \in DOMAIN log : j > i => log[j] = "act"
                               /\ \E j \in 1..i : IsPiece(j)
      BY <3>1 DEF Logged, Shaped
    <3>3. ASSUME log[i] = "end"
          PROVE  /\ \A j \in DOMAIN log' : j > i => log'[j] = "act"
                 /\ \E j \in 1..i : IsPiece(j)'
      <4>1. e = "act"
        BY <1>1, <3>1, <3>3 DEF ToSet
      <4>2. \A j \in DOMAIN log' : j > i => log'[j] = "act"
        BY <1>4, <3>2, <3>3, <4>1
      <4>3. PICK j \in 1..i : IsPiece(j)
        BY <3>2, <3>3
      <4>4. j \in 1..Len(log) /\ IsPiece(j)'
        BY <1>4, <1>6, <3>1, <4>3
      <4>5. QED BY <4>2, <4>4
    <3>4. QED BY <3>1, <3>2, <3>3
  <2>3. QED BY <2>1, <2>2
<1>8. Shaped'
  BY <1>7 DEF Shaped
<1>9. QED BY <1>2, <1>4, <1>6, <1>8 DEF Logged

\* An event is committed behind all that was published.
LEMMA CommitFaithful ==
  ASSUME IInv, Faithful, NEW e \in Letters \cup {"created", "end", "act"}, Commit(e)
  PROVE  Faithful'
<1>1. /\ UNCHANGED published /\ UNCHANGED subs /\ UNCHANGED serving /\ UNCHANGED pushes
      /\ UNCHANGED requests /\ UNCHANGED online /\ UNCHANGED tab /\ UNCHANGED shown
      /\ UNCHANGED ever /\ UNCHANGED last
  BY DEF Commit
<1>2. /\ Logged' /\ Len(log') = Len(log) + 1 /\ Len(log) \in Nat
      /\ \A i \in 1..Len(log) : log[i]' = log[i]
  BY CommitLogs DEF Faithful
<1>3. Displayed'
  BY <1>1, <1>2, DisplayedKeeps
<1>4. Client' = Client /\ Details' = Details
  BY <1>1 DEF Client, Details, IsDetail
<1>5. Sound(Client, Details)'
  <2>1. PICK c, R : c = Client /\ R = Details
    OBVIOUS
  <2>2. Sound(c, R) /\ c.tab.rows \in Nat
    BY <2>1 DEF Faithful, Sound, IsClient, Tabs
  <2>3. Sound(c, R)'
    BY <1>1, <1>2, <2>2 DEF Sound, Expects, Newest, Awaited, IsClient, IsThread, ToSet
  <2>4. QED BY <1>4, <2>1, <2>3
<1>6. Within'
  <2>1. /\ \A s \in ToSet(serving) : s.upTo # None => s.upTo \in Nat
        /\ \A p \in ToSet(pushes) : p.kind = "thread" => p.upTo \in Nat
    <3>1. "thread" \in Whats /\ Typed
      BY DEF Whats, IInv
    <3>2. QED BY <3>1, Elements, ServiceFacts, PushFacts
  <2>2. QED BY <1>1, <1>2, <2>1 DEF Faithful, Within
<1>7. Ordered' /\ Dated' /\ Leaves' /\ Tuned'
  BY <1>1 DEF Faithful, Ordered, IsDetail, Dated, Leaves, Tuned, Greeted, Asked, Due,
              Synchronized, Served, Pushed
<1>8. Complete'
  BY <1>1 DEF Faithful, Complete, Greeted, Synchronized, Served, Pushed, Follows, Has, Newest,
              Awaited, Client, Details, IsDetail
<1>9. QED BY <1>2, <1>3, <1>5, <1>6, <1>7, <1>8 DEF Faithful

\* Where the client and what it is to get are left alone, it is as it was.
LEMMA SoundKeeps ==
  ASSUME IInv', Faithful, UNCHANGED <<log, published, tab, shown>>, Details' = Details
  PROVE  /\ Sound(Client, Details)' /\ Logged'
         /\ \A m : Follows(m)' <=> Follows(m)
<1>1. UNCHANGED log /\ UNCHANGED published /\ UNCHANGED tab /\ UNCHANGED shown
  OBVIOUS
<1>2. PICK c, R : c = Client /\ R = Details
  OBVIOUS
<1>3. PICK d : d = Client'
  OBVIOUS
<1>4. c.tab = tab /\ d.tab = tab /\ c.shown = shown /\ d.shown = shown
  BY <1>1, <1>2, <1>3 DEF Client
<1>5. IsClient(d)
  BY <1>3 DEF IInv, Typed, Client, IsClient
<1>6. Sound(d, R)
  <2>1. Sound(c, R)
    BY <1>2 DEF Faithful
  <2>2. QED BY <1>4, <1>5, <2>1 DEF Sound, Expects, Newest, Awaited
<1>7. Sound(d, R)'
  BY <1>1, <1>6 DEF Sound, Expects, Newest, Awaited, IsClient, IsThread, ToSet
<1>8. Sound(Client, Details)'
  BY <1>2, <1>3, <1>7
<1>9. Logged'
  BY <1>1 DEF Faithful, Logged, Shaped, IsPiece
<1>10. \A m : Follows(m)' <=> Follows(m)
  BY <1>1 DEF Follows, Has, Newest, Awaited, Client
<1>11. QED BY <1>8, <1>9, <1>10

\* The next event is pushed to who is subscribed to the thread.
LEMMA PublishFaithful ==
  ASSUME IInv, IInv', Faithful, Publish
  PROVE  Faithful'
<1> DEFINE detail == subs.thread /\ log[published'] # "created"
           p == [kind |-> "event", event |-> published', shell |-> subs.shell, detail |-> detail]
<1>1. /\ UNCHANGED log /\ UNCHANGED subs /\ UNCHANGED serving /\ UNCHANGED requests
      /\ UNCHANGED online /\ UNCHANGED tab /\ UNCHANGED shown /\ UNCHANGED ever
      /\ UNCHANGED last /\ published' = published + 1 /\ published < Len(log)
      /\ \/ pushes' = pushes /\ ~(online /\ detail)
         \/ pushes' = Append(pushes, p)
  BY DEF Publish
<1>2. PICK n : n = published'
  OBVIOUS
<1>3. /\ published \in Nat /\ Len(log) \in Nat /\ n = published + 1 /\ n \in Nat
      /\ n \in DOMAIN log /\ subs.shell \in BOOLEAN /\ subs.thread \in BOOLEAN
      /\ pushes \in Seq(Pushes) /\ tab \in Tabs
  <2>1. /\ published \in Nat /\ Len(log) \in Nat /\ DOMAIN log = 1..Len(log)
        /\ subs.shell \in BOOLEAN /\ subs.thread \in BOOLEAN
        /\ pushes \in Seq(Pushes) /\ tab \in Tabs
    BY DEF IInv, Typed
  <2>2. QED BY <1>1, <1>2, <2>1
<1>4. detail <=> subs.thread /\ n # 1
  BY <1>2, <1>3 DEF Faithful, Logged, Shaped
<1>5. /\ p \in Pushes /\ p.kind = "event" /\ p.event = n /\ (IsDetail(p) <=> detail)
  BY <1>2, <1>3 DEF Pushes, Events, IsDetail
<1> HIDE DEF p, detail
<1>6. PICK c, R : c = Client /\ R = Details
  OBVIOUS
<1>7. Client' = c /\ c.tab = tab /\ c.shown = shown
  BY <1>1, <1>6 DEF Client
<1>8. Sound(c, R) /\ Expects(c, R)
  BY <1>6 DEF Faithful, Sound
\* One event more, newer than all.
<1>9. ASSUME NEW S, S = R \/ (S = R \cup {n} /\ n # 1)
      PROVE  /\ Sound(c, S)' /\ Awaited(c, R) \subseteq Awaited(c, S)
             /\ n \in S => n \in Awaited(c, S)
  <2>1. Awaited(c, S) = Awaited(c, R) \/ (Awaited(c, S) = Awaited(c, R) \cup {n} /\ n # 1)
    BY <1>9 DEF Awaited
  <2>2. /\ c.tab.seen \in Nat /\ c.tab.seen <= published
        /\ \A m \in Awaited(c, R) : m \in Nat /\ c.tab.seen < m /\ m <= published /\ m # 1
    BY <1>3, <1>7, <1>8 DEF Expects, Tabs
  <2>3. /\ c.tab.seen <= n
        /\ \A m \in Awaited(c, S) : m \in Nat /\ c.tab.seen < m /\ m <= n /\ m # 1
    BY <1>3, <2>1, <2>2
  <2>4. \A m \in ToSet(c.tab.buffer) : \A r \in S : m < r
    <3>1. \A m \in ToSet(c.tab.buffer) : m < n
      BY <1>3, <2>2 DEF Awaited
    <3>2. QED BY <1>8, <1>9, <3>1 DEF Expects
  <2>5. Expects(c, S)'
    <3>1. published' = n
      BY <1>2
    <3>2. /\ \A i, j \in 1..Len(c.tab.buffer) : i < j => c.tab.buffer[i] < c.tab.buffer[j]
          /\ \A m \in ToSet(c.tab.waiting) : 1 < m /\ m <= c.tab.seen
      BY <1>8 DEF Expects
    <3>3. QED BY <2>3, <2>4, <3>1, <3>2 DEF Expects, Awaited, ToSet
  <2>6. Sound(c, S)'
    BY <1>1, <1>8, <2>5 DEF Sound, Newest, IsClient, IsThread
  <2>7. QED BY <1>9, <2>1, <2>6 DEF Awaited
<1>10. PICK S : S = Details'
  OBVIOUS
<1>11. /\ S = R \/ (S = R \cup {n} /\ n # 1)
       /\ Greeted /\ subs.thread /\ n # 1 => n \in S
       /\ Ordered' /\ \A q \in ToSet(pushes') : q \in ToSet(pushes) \/ q.kind = "event"
       /\ ToSet(pushes) \subseteq ToSet(pushes')
  <2>1. CASE pushes' = pushes /\ ~(online /\ detail)
    <3>1. S = R /\ Ordered'
      BY <1>6, <1>10, <2>1 DEF Details, IsDetail, Faithful, Ordered
    <3>2. ~(Greeted /\ subs.thread /\ n # 1)
      BY <1>4, <2>1 DEF Greeted
    <3>3. QED BY <2>1, <3>1, <3>2
  <2>2. CASE pushes' = Append(pushes, p)
    <3>1. /\ Len(pushes) \in Nat /\ DOMAIN pushes = 1..Len(pushes)
          /\ DOMAIN pushes' = 1..(Len(pushes) + 1)
          /\ \A i \in 1..Len(pushes) : pushes'[i] = pushes[i]
          /\ pushes'[Len(pushes) + 1] = p
          /\ ToSet(pushes') = ToSet(pushes) \cup {p}
      BY <1>3, <1>5, <2>2, Appended, AppendedSet
    <3>2. CASE ~detail
      <4>1. Ordered' /\ Details' = Details
        BY <1>5, <2>2, <3>2, PushedPlainly DEF IInv, Faithful
      <4>2. QED BY <1>4, <1>5, <1>6, <1>10, <3>1, <3>2, <4>1
    <3>3. CASE detail
      <4>1. S = R \cup {n}
        BY <1>5, <1>6, <1>10, <3>1, <3>3 DEF Details, IsDetail
      <4>2. \A i \in 1..Len(pushes) : IsDetail(pushes[i]) => pushes[i].event < n
        <5>1. \A i \in 1..Len(pushes) : IsDetail(pushes[i]) => pushes[i].event \in R
          BY <1>6, <3>1 DEF Details, ToSet
        <5>2. \A m \in R : m \in Nat /\ m <= published
          BY <1>8 DEF Expects, Awaited
        <5>3. QED BY <1>3, <5>1, <5>2
      <4>3. ASSUME NEW i \in DOMAIN pushes', NEW j \in DOMAIN pushes', i < j,
                   IsDetail(pushes'[i]), IsDetail(pushes'[j])
            PROVE  pushes'[i].event < pushes'[j].event
        <5>1. i \in 1..Len(pushes) /\ pushes'[i] = pushes[i]
          BY <3>1, <4>3
        <5>2. CASE j = Len(pushes) + 1
          BY <1>5, <3>1, <4>2, <4>3, <5>1, <5>2
        <5>3. CASE j # Len(pushes) + 1
          <6>1. j \in 1..Len(pushes) /\ pushes'[j] = pushes[j]
            BY <3>1, <5>3
          <6>2. QED BY <3>1, <4>3, <5>1, <6>1 DEF Faithful, Ordered
        <5>4. QED BY <5>2, <5>3
      <4>4. Ordered'
        BY <4>3 DEF Ordered, IsDetail
      <4>5. QED BY <1>4, <1>5, <3>1, <3>3, <4>1, <4>4
    <3>4. QED BY <3>2, <3>3
  <2>3. QED BY <1>1, <2>1, <2>2
<1>12. /\ Sound(c, S)' /\ Awaited(c, R) \subseteq Awaited(c, S)
       /\ n \in S => n \in Awaited(c, S)
  BY <1>9, <1>11
<1>13. Sound(Client, Details)'
  BY <1>7, <1>10, <1>12
<1>14. Logged' /\ Displayed'
  <2>1. Displayed'
    BY <1>1, DisplayedKeeps
  <2>2. QED BY <1>1, <2>1 DEF Faithful, Logged, Shaped, IsPiece
<1>15. Within' /\ Dated' /\ Leaves'
  BY <1>1, <1>11 DEF Faithful, Within, Dated, Leaves
<1>16. /\ (Greeted' => Greeted) /\ (Synchronized' <=> Synchronized)
       /\ \A s : Served(s)' <=> Served(s)
       /\ \A s : Pushed(s)' <=> Pushed(s)
  BY <1>1, <1>11 DEF Greeted, Synchronized, Served, Pushed
<1>17. Tuned'
  BY <1>1, <1>16 DEF Faithful, Tuned, Due, Asked
<1>18. ASSUME Greeted, Due, NEW m, Follows(m), m \in Nat, m = 0 => Newest(tab) # 0
       PROVE  Follows(m)'
  <2>1. subs.thread
    BY <1>18 DEF Faithful, Tuned
  <2>2. n # 1 => n \in Awaited(c, S)
    BY <1>11, <1>12, <1>18, <2>1
  <2>3. n = 1 /\ m = 0 => n <= Newest(tab)
    <3>1. Newest(tab) \in Nat
      BY <1>3, NewestType
    <3>2. QED BY <1>18, <3>1
  <2>4. \A k \in (m + 1)..n : Has(tab, Awaited(c, S), k)
    <3>1. \A k \in (m + 1)..published : Has(tab, Awaited(c, R), k)
      BY <1>6, <1>18 DEF Follows
    <3>2. ASSUME NEW k \in (m + 1)..n PROVE Has(tab, Awaited(c, S), k)
      <4>1. CASE k = n
        <5>1. k = 1 => m = 0
          BY <1>3, <1>18, <4>1
        <5>2. QED BY <2>2, <2>3, <4>1, <5>1 DEF Has
      <4>2. CASE k # n
        <5>1. k \in (m + 1)..published
          BY <1>3, <1>18, <4>2
        <5>2. QED BY <1>12, <3>1, <5>1 DEF Has
      <4>3. QED BY <4>1, <4>2
    <3>3. QED BY <3>2
  <2>5. QED
    <3>1. PICK A : A = Awaited(c, S)
      OBVIOUS
    <3>2. Awaited(Client, Details)' = A
      BY <1>7, <1>10, <3>1 DEF Awaited, ToSet
    <3>3. tab' = tab /\ published' = n
      BY <1>1, <1>2
    <3>4. QED BY <2>4, <3>1, <3>2, <3>3 DEF Follows, Has, Newest
<1>19. Complete'
  <2> SUFFICES ASSUME Greeted'
               PROVE  /\ Synchronized' => Newest(tab)' # 0 /\ Follows(0)'
                      /\ \A s : Served(s)' /\ s.upTo # None /\ s.upTo # 0 => Follows(s.upTo)'
                      /\ \A q : Pushed(q)' /\ q.upTo # 0 => Follows(q.upTo)'
    BY DEF Complete
  <2>1. Greeted /\ Complete
    BY <1>16 DEF Faithful
  <2>2. ASSUME Synchronized' PROVE Newest(tab)' # 0 /\ Follows(0)'
    <3>1. Synchronized /\ Due /\ Newest(tab) # 0 /\ Follows(0)
      BY <1>16, <2>1, <2>2 DEF Complete, Due
    <3>2. Follows(0)'
      BY <1>18, <2>1, <3>1
    <3>3. Newest(tab)' # 0
      BY <1>1, <3>1 DEF Newest
    <3>4. QED BY <3>2, <3>3
  <2>3. ASSUME NEW s, Served(s)', s.upTo # None, s.upTo # 0 PROVE Follows(s.upTo)'
    <3>1. Served(s) /\ Due /\ Follows(s.upTo)
      BY <1>16, <2>1, <2>3 DEF Complete, Due
    <3>2. s.upTo \in Nat
      BY <2>3, <3>1, Elements, ServiceFacts DEF IInv, Served
    <3>3. QED BY <1>18, <2>1, <2>3, <3>1, <3>2
  <2>4. ASSUME NEW q, Pushed(q)', q.upTo # 0 PROVE Follows(q.upTo)'
    <3>1. Pushed(q) /\ Due /\ Follows(q.upTo)
      BY <1>16, <2>1, <2>4 DEF Complete, Due
    <3>2. q.upTo \in Nat
      <4>1. q \in ToSet(pushes) /\ q.kind \in Whats
        BY <3>1 DEF Pushed, Whats
      <4>2. QED BY <4>1, Elements, PushFacts DEF IInv
    <3>3. QED BY <1>18, <2>1, <2>4, <3>1, <3>2
  <2>5. QED BY <2>2, <2>3, <2>4
<1>20. QED BY <1>11, <1>13, <1>14, <1>15, <1>17, <1>19 DEF Faithful

\* What the server works on: the events follow each snapshot it reads.
LEMMA ServeFaithful ==
  ASSUME IInv, IInv', Faithful, Serve
  PROVE  Faithful'
<1> DEFINE r == Head(requests)
<1>1. /\ UNCHANGED log /\ UNCHANGED published /\ UNCHANGED online /\ UNCHANGED tab
      /\ UNCHANGED shown /\ UNCHANGED ever /\ UNCHANGED last
      /\ requests # <<>> /\ requests' = Tail(requests) /\ online
  BY DEF Serve
<1>2. /\ requests \in Seq(Requests) /\ serving \in Seq(Services) /\ pushes \in Seq(Pushes)
      /\ Len(log) \in Nat /\ subs \in [shell : BOOLEAN, thread : BOOLEAN] /\ tab \in Tabs
      /\ cursor \in 0..Len(log) /\ Typed
  BY DEF IInv, Typed
<1>3. /\ r \in Requests /\ r = requests[1]
      /\ DOMAIN requests = 1..Len(requests) /\ Len(requests) \in Nat \ {0}
      /\ DOMAIN requests' = 1..(Len(requests) - 1)
      /\ \A i \in 1..(Len(requests) - 1) : requests'[i] = requests[i + 1]
      /\ ToSet(requests') \subseteq ToSet(requests) /\ r \in ToSet(requests)
  BY <1>1, <1>2, Rest, RestSet
<1>4. r.asks \in Whats /\ r.by \in Whos /\ r.epoch \in Nat /\ Asking(r.asks, r.by)
  BY <1>3, RequestFacts
<1> HIDE DEF r
<1>5. PICK a : a = Answer(r, 0, 0)
  OBVIOUS
<1>6. PICK b : b = Answer(r, Len(log), cursor')
  OBVIOUS
<1>7. PICK s : s = Answer(r, None, None)
  OBVIOUS
<1>8. \/ /\ r.asks = "leave" /\ subs' = [subs EXCEPT !.thread = FALSE]
         /\ pushes' = Append(pushes, a) /\ UNCHANGED serving
      \/ /\ r.asks = "shell" /\ subs' = [subs EXCEPT !.shell = TRUE] /\ cursor' \in Cursors
         /\ pushes' = Append(pushes, b) /\ UNCHANGED serving
      \/ /\ r.asks = "thread" /\ subs' = [subs EXCEPT !.thread = TRUE]
         /\ serving' = Append(serving, s) /\ UNCHANGED pushes
  BY <1>4, <1>5, <1>6, <1>7 DEF Serve, Whats, r
<1>9. /\ a.kind = r.asks /\ b.kind = r.asks /\ s.epoch = r.epoch /\ s.upTo = None
      /\ s.kind = r.asks
  BY <1>5, <1>6, <1>7 DEF Answer
<1>10. /\ r.asks = "leave" => a \in Pushes
       /\ r.asks = "shell" /\ cursor' \in Cursors => b \in Pushes
       /\ r.asks = "thread" => s \in Services
  <2>1. r.asks = "leave" => a \in Pushes
    BY <1>4, <1>5 DEF Answer, Answers, Pushes
  <2>2. r.asks = "shell" /\ cursor' \in Cursors => b \in Pushes
    BY <1>2, <1>4, <1>6 DEF Answer, Answers, Pushes, Cursors
  <2>3. r.asks = "thread" => s \in Services
    BY <1>4, <1>7 DEF Answer, Services, Numbers, Asking
  <2>4. QED BY <2>1, <2>2, <2>3
\* No event is pushed, ...
<1>11. /\ Ordered' /\ Details' = Details
       /\ \A p \in ToSet(pushes') : p \in ToSet(pushes) \/ p.kind \in {"leave", "shell"}
       /\ ToSet(pushes) \subseteq ToSet(pushes')
  <2>1. CASE UNCHANGED pushes
    BY <2>1 DEF Faithful, Ordered, Details, IsDetail
  <2>2. ASSUME NEW x \in Pushes, x.kind \in {"leave", "shell"}, pushes' = Append(pushes, x)
        PROVE  /\ Ordered' /\ Details' = Details /\ ToSet(pushes') = ToSet(pushes) \cup {x}
    <3>1. ~IsDetail(x)
      BY <2>2 DEF IsDetail
    <3>2. QED BY <1>2, <2>2, <3>1, PushedPlainly DEF Faithful
  <2>3. QED BY <1>8, <1>9, <1>10, <2>1, <2>2
\* ... and a snapshot of this subscription is served after it was asked for.
<1>12. \A t \in ToSet(serving') : t \in ToSet(serving) \/ (t = s /\ r.asks = "thread")
  <2>1. CASE UNCHANGED serving
    BY <2>1
  <2>2. CASE r.asks = "thread" /\ serving' = Append(serving, s)
    <3>1. ToSet(serving') = ToSet(serving) \cup {s}
      BY <1>2, <1>10, <2>2, AppendedSet
    <3>2. QED BY <2>2, <3>1
  <2>3. QED BY <1>8, <2>1, <2>2
<1>13. \A p : Pushed(p)' <=> Pushed(p)
  BY <1>1, <1>11 DEF Pushed
<1>14. /\ Sound(Client, Details)' /\ Logged'
       /\ \A m : Follows(m)' <=> Follows(m)
  BY <1>1, <1>11, SoundKeeps
<1>15. Displayed'
  BY <1>1, DisplayedKeeps
<1>16. Within'
  BY <1>1, <1>9, <1>11, <1>12 DEF Faithful, Within
<1>17. Dated'
  BY <1>1, <1>3, <1>9, <1>11, <1>12 DEF Faithful, Dated
<1>18. Leaves'
  <2> SUFFICES ASSUME NEW i \in DOMAIN requests', NEW j \in DOMAIN requests',
                      requests'[i].asks = "thread", requests'[i].epoch = tab.epoch,
                      requests'[j].asks = "leave"
               PROVE  j < i
    BY <1>1 DEF Leaves
  <2>1. /\ i \in Nat /\ j \in Nat /\ i + 1 \in DOMAIN requests /\ j + 1 \in DOMAIN requests
        /\ requests'[i] = requests[i + 1] /\ requests'[j] = requests[j + 1]
    BY <1>3
  <2>2. j + 1 < i + 1
    BY <2>1 DEF Faithful, Leaves
  <2>3. QED BY <2>1, <2>2
<1>19. Greeted' <=> Greeted
  BY <1>1, <1>11 DEF Greeted
<1>20. Synchronized' <=> Synchronized
  BY <1>1 DEF Synchronized
<1>21. Tuned'
  <2> SUFFICES ASSUME Greeted, Due' PROVE subs'.thread /\ ~Asked("leave")'
    BY <1>19 DEF Tuned
  <2>1. Due \/ (r.asks = "thread" /\ r.epoch = tab.epoch)
    BY <1>1, <1>9, <1>12, <1>13, <1>20 DEF Due, Served
  <2>2. ASSUME r.asks = "thread", r.epoch = tab.epoch PROVE ~Asked("leave")
    <3> SUFFICES ASSUME NEW j \in 1..Len(requests), requests[j].asks = "leave" PROVE FALSE
      BY <1>3 DEF Asked, ToSet
    <3>1. 1 \in DOMAIN requests /\ j \in DOMAIN requests
      BY <1>3
    <3>2. j < 1
      BY <1>3, <2>2, <3>1 DEF Faithful, Leaves
    <3>3. QED BY <1>3, <3>2
  <2>3. Due => subs.thread /\ ~Asked("leave")
    BY DEF Faithful, Tuned
  <2>4. ~Asked("leave")
    BY <2>1, <2>2, <2>3
  <2>5. ~Asked("leave")' /\ r.asks # "leave"
    BY <1>3, <2>4 DEF Asked
  <2>6. subs'.thread
    BY <1>2, <1>8, <2>1, <2>3, <2>5
  <2>7. QED BY <2>5, <2>6
<1>22. Complete'
  <2>1. Newest(tab)' = Newest(tab)
    BY <1>1 DEF Newest
  <2>2. \A t : Served(t)' /\ t.upTo # None => Served(t)
    BY <1>1, <1>9, <1>12 DEF Served
  <2>3. QED BY <1>13, <1>14, <1>19, <1>20, <2>1, <2>2 DEF Faithful, Complete
<1>23. QED BY <1>11, <1>14, <1>15, <1>16, <1>17, <1>18, <1>21, <1>22 DEF Faithful

\* A snapshot that is read contains all that was published.
LEMMA ReadSnapshotFaithful ==
  ASSUME IInv, IInv', Faithful, NEW i \in DOMAIN serving, ReadSnapshot(i)
  PROVE  Faithful'
<1>1. /\ UNCHANGED log /\ UNCHANGED published /\ UNCHANGED subs /\ UNCHANGED pushes
      /\ UNCHANGED requests /\ UNCHANGED online /\ UNCHANGED tab /\ UNCHANGED shown
      /\ UNCHANGED ever /\ UNCHANGED last
      /\ cursor' \in Cursors
      /\ serving' = [serving EXCEPT ![i].upTo = Len(log), ![i].fence = cursor']
  BY DEF ReadSnapshot
<1>2. /\ serving \in Seq(Services) /\ Len(log) \in Nat /\ published \in Nat
      /\ published <= Len(log) /\ cursor \in Nat
  BY DEF IInv, Typed
<1>3. PICK s : s = [serving[i] EXCEPT !.upTo = Len(log), !.fence = cursor']
  OBVIOUS
<1>4. /\ s.epoch = serving[i].epoch /\ s.upTo = Len(log) /\ s.fence = cursor'
      /\ serving[i] \in ToSet(serving)
  <2>1. serving[i] \in Services /\ serving[i] \in ToSet(serving)
    BY <1>2 DEF ToSet
  <2>2. PICK t : t = serving[i] /\ t \in Services
    BY <2>1
  <2>3. PICK n, m : n = Len(log) /\ m = cursor'
    OBVIOUS
  <2>4. s = [t EXCEPT !.upTo = n, !.fence = m]
    BY <1>3, <2>2, <2>3
  <2>5. s.epoch = t.epoch /\ s.upTo = n /\ s.fence = m
    BY <2>2, <2>4 DEF Services
  <2>6. QED BY <2>1, <2>2, <2>3, <2>5
<1>5. \A t \in ToSet(serving') : t \in ToSet(serving) \/ t = s
  <2>1. serving' = [serving EXCEPT ![i] = s]
    BY <1>1, <1>3
  <2>2. QED BY <2>1 DEF ToSet
<1>6. Details' = Details /\ Ordered'
  BY <1>1 DEF Faithful, Details, IsDetail, Ordered
<1>7. /\ Sound(Client, Details)' /\ Logged'
      /\ \A m : Follows(m)' <=> Follows(m)
  BY <1>1, <1>6, SoundKeeps
<1>8. Displayed'
  BY <1>1, DisplayedKeeps
<1>9. Within'
  <2>1. cursor' <= Len(log)
    BY <1>1, <1>2 DEF Cursors
  <2>2. s.upTo <= Len(log) /\ s.fence <= s.upTo
    BY <1>2, <1>4, <2>1
  <2>3. \A t \in ToSet(serving') : t.upTo # None => t.upTo <= Len(log) /\ t.fence <= t.upTo
    BY <1>5, <2>2 DEF Faithful, Within
  <2>4. \A p \in ToSet(pushes') : p.kind = "thread" => p.upTo <= Len(log) /\ p.fence <= p.upTo
    BY <1>1 DEF Faithful, Within
  <2>5. QED BY <1>1, <2>3, <2>4 DEF Within
<1>10. Dated' /\ Leaves'
  BY <1>1, <1>4, <1>5 DEF Faithful, Dated, Leaves
<1>11. /\ \A p : Pushed(p)' <=> Pushed(p)
       /\ Synchronized' <=> Synchronized
       /\ Greeted' <=> Greeted
       /\ \A t : Served(t)' => Served(t) \/ (t = s /\ Served(serving[i]))
  BY <1>1, <1>4, <1>5 DEF Pushed, Synchronized, Greeted, Served
<1>12. Tuned'
  <2>1. Due' => Due
    BY <1>11 DEF Due
  <2>2. QED BY <1>1, <1>11, <2>1 DEF Faithful, Tuned, Asked
<1>13. Complete'
  <2>1. Newest(tab)' = Newest(tab)
    BY <1>1 DEF Newest
  <2>2. Follows(s.upTo)
    <3>1. (Len(log) + 1)..published = {}
      BY <1>2
    <3>2. QED BY <1>4, <3>1 DEF Follows
  <2>3. ASSUME Greeted', NEW t, Served(t)', t.upTo # None, t.upTo # 0 PROVE Follows(t.upTo)'
    <3>1. Follows(t.upTo)
      BY <1>11, <2>2, <2>3 DEF Faithful, Complete
    <3>2. QED BY <1>7, <3>1
  <2>4. QED BY <1>7, <1>11, <2>1, <2>3 DEF Faithful, Complete
<1>14. QED BY <1>6, <1>7, <1>8, <1>9, <1>10, <1>12, <1>13 DEF Faithful

\* A snapshot that was read is pushed: what follows it has been, or will be.
LEMMA PushSnapshotFaithful ==
  ASSUME IInv, IInv', Faithful, NEW i \in DOMAIN serving, PushSnapshot(i)
  PROVE  Faithful'
<1>1. /\ UNCHANGED log /\ UNCHANGED published /\ UNCHANGED subs
      /\ UNCHANGED requests /\ UNCHANGED online /\ UNCHANGED tab /\ UNCHANGED shown
      /\ UNCHANGED ever /\ UNCHANGED last
  BY DEF PushSnapshot, server
<1>2. PICK s : s = serving[i]
  OBVIOUS
<1>3. s.upTo # None /\ pushes' = Append(pushes, s) /\ serving' = RemoveAt(serving, i)
  BY <1>2 DEF PushSnapshot
<1>4. /\ ToSet(serving') \subseteq ToSet(serving) /\ s \in ToSet(serving) /\ s \in Services
  BY <1>2, <1>3, Removed DEF IInv, Typed
<1>5. s \in Pushes /\ s.kind = "thread" /\ ~IsDetail(s)
  BY <1>3, <1>4, ServiceFacts DEF Pushes, IsDetail
<1>6. Ordered' /\ Details' = Details /\ ToSet(pushes') = ToSet(pushes) \cup {s}
  BY <1>3, <1>5, PushedPlainly DEF IInv, Faithful
<1>7. /\ Sound(Client, Details)' /\ Logged'
      /\ \A m : Follows(m)' <=> Follows(m)
  BY <1>1, <1>6, SoundKeeps
<1>8. Displayed'
  BY <1>1, DisplayedKeeps
<1>9. Within'
  BY <1>1, <1>3, <1>4, <1>6 DEF Faithful, Within
<1>10. Dated' /\ Leaves'
  BY <1>1, <1>4, <1>6 DEF Faithful, Dated, Leaves
<1>11. /\ \A p : Pushed(p)' => Pushed(p) \/ (p = s /\ Served(s))
       /\ Synchronized' <=> Synchronized
       /\ Greeted' <=> Greeted
       /\ \A t : Served(t)' => Served(t)
  BY <1>1, <1>4, <1>5, <1>6 DEF Pushed, Synchronized, Greeted, Served
<1>12. Tuned'
  <2>1. Due' => Due
    BY <1>11 DEF Due
  <2>2. QED BY <1>1, <1>11, <2>1 DEF Faithful, Tuned, Asked
<1>13. Complete'
  <2>1. Newest(tab)' = Newest(tab)
    BY <1>1 DEF Newest
  <2>2. ASSUME Greeted', NEW p, Pushed(p)', p.upTo # 0 PROVE Follows(p.upTo)
    BY <1>3, <1>11, <2>2 DEF Faithful, Complete
  <2>3. QED BY <1>7, <1>11, <2>1, <2>2 DEF Faithful, Complete
<1>14. QED BY <1>6, <1>7, <1>8, <1>9, <1>10, <1>12, <1>13 DEF Faithful

-----------------------------------------------------------------------------
(* The client keeps it                                                     *)

\* A client to which nothing of the thread is told is as it was, ...
LEMMA ClientKeeps ==
  ASSUME IInv', Faithful, UNCHANGED <<log, published, shown, ever, last>>, Still(tab, tab'),
         \/ tab'.fence = tab.fence /\ tab'.buffer = tab.buffer
         \/ tab'.fence = None /\ tab'.buffer = <<>>,
         Details' \subseteq Details
  PROVE  /\ Sound(Client, Details)' /\ Logged' /\ Displayed'
         /\ Newest(tab)' = Newest(tab)
         /\ Stays(tab, tab') /\ Details' = Details => \A m : Follows(m)' <=> Follows(m)
<1>1. /\ UNCHANGED log /\ UNCHANGED published /\ UNCHANGED shown /\ UNCHANGED ever
      /\ UNCHANGED last
  OBVIOUS
<1>2. PICK c, R, d, S : c = Client /\ R = Details /\ d = Client' /\ S = Details'
  OBVIOUS
<1>3. /\ c.tab = tab /\ d.tab = tab' /\ c.shown = shown /\ d.shown = shown
      /\ c.ever = ever /\ d.ever = ever /\ S \subseteq R
  BY <1>1, <1>2 DEF Client
<1>4. IsClient(d) /\ Sound(c, R)
  BY <1>2 DEF IInv, Typed, Client, IsClient, Faithful
<1>5. /\ d.tab.seen = c.tab.seen /\ d.tab.rows = c.tab.rows /\ d.tab.waiting = c.tab.waiting
      /\ Newest(d.tab) = Newest(c.tab)
  BY <1>3 DEF Still, Newest
<1>6. Newest(c.tab) \in Nat
  <2>1. c.tab \in Tabs
    BY <1>4 DEF Sound, IsClient
  <2>2. QED BY <2>1, NewestType
<1>7. Sound(d, S)
  <2>1. CASE d.tab.fence = c.tab.fence /\ d.tab.buffer = c.tab.buffer
    <3>1. Awaited(d, S) \subseteq Awaited(c, R)
      BY <1>3, <2>1 DEF Awaited
    <3>2. Expects(d, S)
      BY <1>3, <1>4, <1>5, <2>1, <3>1 DEF Sound, Expects
    <3>3. QED BY <1>3, <1>4, <1>5, <2>1, <3>2 DEF Sound
  <2>2. CASE d.tab.fence = None /\ d.tab.buffer = <<>>
    <3>1. Len(d.tab.buffer) = 0 /\ ToSet(d.tab.buffer) = {}
      BY <2>2 DEF ToSet
    <3>2. Awaited(d, S) \subseteq Awaited(c, R)
      BY <1>3, <3>1 DEF Awaited
    <3>3. Expects(d, S)
      BY <1>4, <1>5, <3>1, <3>2 DEF Sound, Expects
    <3>4. d.tab.fence <= Newest(d.tab)
      BY <1>5, <1>6, <2>2 DEF None
    <3>5. QED BY <1>3, <1>4, <1>5, <2>2, <3>3, <3>4 DEF Sound
  <2>3. QED BY <1>3, <2>1, <2>2
<1>8. Sound(d, S)'
  BY <1>1, <1>7 DEF Sound, Expects, Newest, Awaited, IsClient, IsThread, ToSet
<1>9. Sound(Client, Details)'
  BY <1>2, <1>8
<1>10. Logged'
  BY <1>1 DEF Faithful, Logged, Shaped, IsPiece
<1>11. /\ Lists(c) => Lists(Client)'
       /\ Reads(c) => Reads(Client)'
  <2>1. (Reads(c) => Reads(c)') /\ (Lists(c) => Lists(c)')
    <3>1. Logged /\ published \in Nat /\ published <= Len(log)
      <4>1. IInv' /\ UNCHANGED log /\ UNCHANGED published
        BY <1>1
      <4>2. QED BY <4>1 DEF IInv, Typed, Faithful
    <3>2. \A i \in 1..Len(log) : log[i]' = log[i]
      BY <1>1
    <3>3. QED BY <1>4, <3>1, <3>2, ShownStays
  <2>2. /\ Trails(tab)' <=> Trails(c.tab)'
        /\ Reached(tab)' = Reached(c.tab)'
    BY <1>3 DEF Still, Trails, Reached, Newest
  <2>3. PICK k : k = Reached(tab)'
    OBVIOUS
  <2>4. Reads(c)' => Reads(Client)'
    BY <1>1, <1>3, <2>2, <2>3 DEF Still, Reads, Client
  <2>5. Lists(c)' => Lists(Client)'
    BY <1>1, <1>3, <2>2, <2>3 DEF Still, Lists, Client
  <2>6. QED BY <2>1, <2>4, <2>5
<1>12. Displayed'
  <2>1. Displayed /\ Client = c
    BY <1>2 DEF Faithful
  <2>2. last' \subseteq ever' /\ Texts'
    BY <1>1, <1>11, <2>1 DEF Displayed, Texts
  <2>3. tab'.fence # None => tab'.fence = tab.fence
    OBVIOUS
  <2>4. Activities'
    BY <1>1, <1>11, <2>1, <2>3 DEF Displayed, Activities
  <2>5. Fit'
    BY <1>1, <2>1, <2>3 DEF Displayed, Fit, Fits, Client, Still
  <2>6. QED BY <2>2, <2>4, <2>5 DEF Displayed
<1>13. Newest(tab)' = Newest(tab)
  BY DEF Still, Newest
<1>14. ASSUME Stays(tab, tab'), Details' = Details, NEW m PROVE Follows(m)' <=> Follows(m)
  BY <1>1, <1>14 DEF Follows, Has, Newest, Awaited, Client, Stays, Still
<1>15. QED BY <1>9, <1>10, <1>12, <1>13, <1>14

\* ... and of a new subscription nothing was said yet.
LEMMA AnewKeeps ==
  ASSUME IInv, Faithful, tab'.epoch = tab.epoch + 1, tab'.fence = None,
         ToSet(serving') \subseteq ToSet(serving), ToSet(pushes') \subseteq ToSet(pushes),
         UNCHANGED log
  PROVE  /\ Tuned' /\ Complete' /\ Within'
         /\ \A r \in ToSet(requests) : r.epoch <= tab'.epoch /\ r.epoch # tab'.epoch
         /\ \A s \in ToSet(serving') : s.epoch <= tab'.epoch
         /\ \A p \in ToSet(pushes') : p.kind = "thread" => p.epoch <= tab'.epoch
<1>1. tab.epoch \in Nat /\ Typed
  BY DEF IInv, Typed, Tabs
<1>2. /\ \A r \in ToSet(requests) : r.epoch \in Nat /\ r.epoch <= tab.epoch
      /\ \A s \in ToSet(serving) : s.epoch \in Nat /\ s.epoch <= tab.epoch
      /\ \A p \in ToSet(pushes) : p.kind = "thread" => p.epoch \in Nat /\ p.epoch <= tab.epoch
  <2>1. \A r \in ToSet(requests) : r.epoch \in Nat
    BY <1>1, Elements, RequestFacts
  <2>2. \A s \in ToSet(serving) : s.epoch \in Nat
    BY <1>1, Elements, ServiceFacts
  <2>3. \A p \in ToSet(pushes) : p.kind = "thread" => p.epoch \in Nat
    <3>1. "thread" \in Whats
      BY DEF Whats
    <3>2. \A p \in ToSet(pushes) : p.kind = "thread" => p \in Answers
      BY <1>1, <3>1, Elements, PushFacts
    <3>3. QED BY <3>2 DEF Answers
  <2>4. QED BY <2>1, <2>2, <2>3 DEF Faithful, Dated
<1>3. /\ \A r \in ToSet(requests) : r.epoch <= tab'.epoch /\ r.epoch # tab'.epoch
      /\ \A s \in ToSet(serving') : s.epoch <= tab'.epoch /\ s.epoch # tab'.epoch
      /\ \A p \in ToSet(pushes') : p.kind = "thread" =>
           p.epoch <= tab'.epoch /\ p.epoch # tab'.epoch
  BY <1>1, <1>2
<1>4. ~Synchronized' /\ (\A s : ~Served(s)') /\ (\A p : ~Pushed(p)')
  BY <1>3 DEF Synchronized, Served, Pushed
<1>5. Tuned' /\ Complete'
  BY <1>4 DEF Tuned, Due, Complete
<1>6. Within'
  BY DEF Faithful, Within
<1>7. QED BY <1>3, <1>5, <1>6

\* The line moves on.
LEMMA HeardLine ==
  ASSUME Typed, Ordered, NEW p, Heard(p)
  PROVE  /\ Ordered' /\ Details' = (IF IsDetail(p) THEN Details \ {p.event} ELSE Details)
         /\ Details' \subseteq Details
         /\ IsDetail(p) => p.event \in Details /\ \A m \in Details : p.event <= m
<1>1. /\ p = pushes[1] /\ Len(pushes) \in Nat \ {0} /\ DOMAIN pushes = 1..Len(pushes)
      /\ DOMAIN pushes' = 1..(Len(pushes) - 1)
      /\ \A i \in 1..(Len(pushes) - 1) : pushes'[i] = pushes[i + 1]
      /\ ToSet(pushes') \subseteq ToSet(pushes) /\ p \in ToSet(pushes)
      /\ \A q \in ToSet(pushes) : q = p \/ q \in ToSet(pushes')
  BY DEF Heard
<1>2. Ordered'
  <2> SUFFICES ASSUME NEW i \in DOMAIN pushes', NEW j \in DOMAIN pushes', i < j,
                      IsDetail(pushes'[i]), IsDetail(pushes'[j])
               PROVE  pushes'[i].event < pushes'[j].event
    BY DEF Ordered, IsDetail
  <2>1. /\ pushes'[i] = pushes[i + 1] /\ pushes'[j] = pushes[j + 1] /\ i + 1 < j + 1
        /\ i + 1 \in DOMAIN pushes /\ j + 1 \in DOMAIN pushes
    BY <1>1
  <2>2. QED BY <2>1 DEF Ordered
<1>3. Details' \subseteq Details
  BY <1>1 DEF Details, IsDetail
<1>4. \A m \in Details : m \in Details' \/ (IsDetail(p) /\ m = p.event)
  BY <1>1 DEF Details, IsDetail
<1>5. ASSUME IsDetail(p)
      PROVE  /\ p.event \in Details
             /\ \A m \in Details' : p.event < m
  <2>1. p.event \in Details
    BY <1>1, <1>5 DEF Details
  <2>2. ASSUME NEW m \in Details' PROVE p.event < m
    <3>1. PICK q \in ToSet(pushes') : IsDetail(q) /\ m = q.event
      BY DEF Details, IsDetail
    <3>2. PICK i \in 1..(Len(pushes) - 1) : q = pushes[i + 1]
      BY <1>1, <3>1 DEF ToSet
    <3>3. 1 \in DOMAIN pushes /\ i + 1 \in DOMAIN pushes /\ 1 < i + 1
      BY <1>1
    <3>4. QED BY <1>1, <1>5, <3>1, <3>2, <3>3 DEF Ordered
  <2>3. QED BY <2>1, <2>2
<1>6. Details \subseteq Nat
  BY DetailsType
<1>7. CASE IsDetail(p)
  <2> DEFINE e == p.event
             S == Details'
             R == Details
  <2>1. /\ e \in R /\ (\A m \in S : e < m) /\ R \subseteq Nat /\ S \subseteq R
        /\ \A m \in R : m \in S \/ m = e
    BY <1>3, <1>4, <1>5, <1>6, <1>7
  <2> HIDE DEF e, S, R
  <2>2. e \notin S /\ \A m \in R : e <= m
    BY <2>1
  <2> USE DEF e, S, R
  <2>3. Details' = Details \ {p.event}
    BY <1>3, <1>4, <2>2
  <2>4. QED BY <1>2, <1>3, <1>5, <1>7, <2>2, <2>3
<1>8. CASE ~IsDetail(p)
  BY <1>2, <1>3, <1>4, <1>8
<1>9. QED BY <1>7, <1>8

\* The greeting: all is subscribed anew.
LEMMA HearWelcomeFaithful ==
  ASSUME IInv, IInv', Faithful, NEW p, Heard(p), p.kind = "welcome", Becomes(Ensure(Client)),
         UNCHANGED last
  PROVE  Faithful'
<1>1. /\ requests' = Append(requests, Request("shell", "ensure", tab'.epoch))
      /\ Still(tab, tab') /\ tab'.fence = None /\ tab'.buffer = <<>>
      /\ tab'.epoch = tab.epoch + 1 /\ UNCHANGED <<shown, ever>> /\ tab' \in Tabs
  BY EnsureDoes DEF IInv
<1>2. PICK r : r = Request("shell", "ensure", tab'.epoch)
  OBVIOUS
<1>3. r \in Requests /\ r.asks = "shell" /\ r.epoch = tab'.epoch
  <2>1. tab'.epoch \in Nat
    BY <1>1 DEF Tabs
  <2>2. QED BY <1>2, <2>1, MadeRequest DEF Asking, Whats, Whos
<1>4. /\ ToSet(requests') = ToSet(requests) \cup {r}
      /\ DOMAIN requests' = 1..(Len(requests) + 1) /\ DOMAIN requests = 1..Len(requests)
      /\ Len(requests) \in Nat
      /\ \A i \in 1..Len(requests) : requests'[i] = requests[i]
      /\ requests'[Len(requests) + 1] = r
  BY <1>1, <1>2, <1>3, Appended, AppendedSet DEF IInv, Typed
<1>5. /\ UNCHANGED log /\ UNCHANGED published /\ serving' = serving
      /\ ToSet(pushes') \subseteq ToSet(pushes)
  BY DEF Heard
<1>6. Ordered' /\ Details' \subseteq Details
  BY HeardLine DEF IInv, Faithful
<1>7. /\ Tuned' /\ Complete' /\ Within'
      /\ \A q \in ToSet(requests) : q.epoch <= tab'.epoch /\ q.epoch # tab'.epoch
      /\ \A s \in ToSet(serving') : s.epoch <= tab'.epoch
      /\ \A q \in ToSet(pushes') : q.kind = "thread" => q.epoch <= tab'.epoch
  <2>1. tab'.epoch = tab.epoch + 1 /\ tab'.fence = None
    BY <1>1
  <2>2. /\ ToSet(serving') \subseteq ToSet(serving) /\ ToSet(pushes') \subseteq ToSet(pushes)
        /\ UNCHANGED log
    BY <1>5
  <2>3. QED BY <2>1, <2>2, AnewKeeps
<1>8. Sound(Client, Details)' /\ Logged' /\ Displayed'
  <2>1. UNCHANGED <<log, published, shown, ever, last>>
    BY <1>1, <1>5
  <2>2. QED BY <1>1, <1>6, <2>1, ClientKeeps
<1>9. Dated'
  <2>1. tab'.epoch \in Nat /\ tab'.epoch <= tab'.epoch
    BY <1>1 DEF Tabs
  <2>2. \A q \in ToSet(requests') : q.epoch <= tab'.epoch
    BY <1>3, <1>4, <1>7, <2>1
  <2>3. QED BY <1>7, <2>2 DEF Dated
<1>10. Leaves'
  <2>1. \A i \in DOMAIN requests' :
          ~(requests'[i].asks = "thread" /\ requests'[i].epoch = tab'.epoch)
    <3>1. ASSUME NEW i \in DOMAIN requests', requests'[i].asks = "thread",
                 requests'[i].epoch = tab'.epoch
          PROVE  FALSE
      <4>1. i \in 1..Len(requests) /\ requests'[i] = requests[i]
        BY <1>3, <1>4, <3>1
      <4>2. requests[i] \in ToSet(requests)
        BY <1>4, <4>1 DEF ToSet
      <4>3. QED BY <1>7, <3>1, <4>1, <4>2
    <3>2. QED BY <3>1
  <2>2. QED BY <2>1 DEF Leaves
<1>11. QED BY <1>6, <1>7, <1>8, <1>9, <1>10 DEF Faithful

\* Answers without a snapshot say nothing of the thread.
LEMMA HearOtherFaithful ==
  ASSUME IInv, IInv', Faithful, NEW p \in Answers, Heard(p), p.kind = "thread" => p.upTo = 0,
         HearAnswer(p)
  PROVE  Faithful'
<1>1. /\ requests' = requests /\ tab'.epoch = tab.epoch /\ tab'.fence = tab.fence
      /\ Stays(tab, tab') /\ UNCHANGED <<shown, ever, last>>
  BY HearOtherDoes DEF IInv
<1>2. /\ UNCHANGED log /\ UNCHANGED published /\ serving' = serving /\ UNCHANGED subs
      /\ UNCHANGED online /\ ToSet(pushes') \subseteq ToSet(pushes)
  BY DEF Heard
<1>3. ~IsDetail(p) /\ p.kind # "welcome"
  BY DEF IsDetail, Answers, Whats
<1>4. Ordered' /\ Details' = Details
  BY <1>3, HeardLine DEF IInv, Faithful
<1>5. /\ Sound(Client, Details)' /\ Logged' /\ Displayed' /\ Newest(tab)' = Newest(tab)
      /\ \A m : Follows(m)' <=> Follows(m)
  <2>1. UNCHANGED <<log, published, shown, ever, last>>
    BY <1>1, <1>2
  <2>2. Still(tab, tab') /\ tab'.fence = tab.fence /\ tab'.buffer = tab.buffer
    BY <1>1 DEF Stays
  <2>3. QED BY <1>1, <1>4, <2>1, <2>2, ClientKeeps
<1>6. Greeted' => Greeted
  BY <1>2, <1>3 DEF Heard, Greeted
<1>7. Within' /\ Dated' /\ Leaves'
  BY <1>1, <1>2 DEF Faithful, Within, Dated, Leaves
<1>8. /\ Synchronized' <=> Synchronized
      /\ \A s : Served(s)' <=> Served(s)
      /\ \A q : Pushed(q)' => Pushed(q)
  BY <1>1, <1>2 DEF Synchronized, Served, Pushed
<1>9. Tuned'
  <2>1. Due' => Due
    BY <1>8 DEF Due
  <2>2. QED BY <1>1, <1>2, <1>6, <2>1 DEF Faithful, Tuned, Asked
<1>10. Complete'
  BY <1>5, <1>6, <1>8 DEF Faithful, Complete
<1>11. QED BY <1>4, <1>5, <1>7, <1>9, <1>10 DEF Faithful

\* What the client becomes is sound in the next state too.
LEMMA GoesKeeps ==
  ASSUME IInv, Faithful, UNCHANGED <<log, published>>, NEW R, R = Details, NEW S, S = Details',
         NEW c, c = Client, NEW d, d = Client', Goes(c, R, d, S)
  PROVE  /\ Sound(Client, Details)' /\ Logged'
         /\ \A m \in Nat : Follows(m) => Follows(m)'
         /\ Newest(tab) <= Newest(tab)' /\ Newest(tab) \in Nat /\ Newest(tab)' \in Nat
         /\ Reads(d) => Reads(Client)'
         /\ Lists(d) => Lists(Client)'
<1>1. UNCHANGED log /\ UNCHANGED published /\ published \in Nat /\ published <= Len(log)
  BY DEF IInv, Typed
<1>2. Sound(d, S)'
  BY <1>1 DEF Goes, Sound, Expects, Newest, Awaited, IsClient, IsThread, ToSet
<1>3. Sound(Client, Details)'
  BY <1>2
<1>4. Logged'
  BY <1>1 DEF Faithful, Logged, Shaped, IsPiece
<1>5. c.tab = tab /\ d.tab = tab'
  BY DEF Client
<1>6. ASSUME NEW m \in Nat, Follows(m) PROVE Follows(m)'
  <2>1. \A n \in (m + 1)..published : Has(c.tab, Awaited(c, R), n)
    BY <1>5, <1>6 DEF Follows
  <2>2. \A n \in (m + 1)..published : n \in Nat
    BY <1>1
  <2>3. \A n \in (m + 1)..published : Has(d.tab, Awaited(d, S), n)
    BY <2>1, <2>2 DEF Goes
  <2>4. PICK A, t : A = Awaited(d, S) /\ t = d.tab
    OBVIOUS
  <2>5. Awaited(Client, Details)' = A
    BY <2>4 DEF Awaited, ToSet
  <2>6. tab' = t /\ published' = published
    BY <1>1, <1>5, <2>4
  <2>7. QED BY <2>3, <2>4, <2>5, <2>6 DEF Follows, Has, Newest
<1>7. Newest(tab) <= Newest(tab)' /\ Newest(tab) \in Nat /\ Newest(tab)' \in Nat
  <2>1. c.tab \in Tabs /\ d.tab \in Tabs
    BY DEF Faithful, Goes, Sound, IsClient
  <2>2. Newest(c.tab) <= Newest(d.tab) /\ Newest(c.tab) \in Nat /\ Newest(d.tab) \in Nat
    BY <2>1, NewestType DEF Goes
  <2>3. Newest(tab)' = Newest(d.tab)
    BY <1>5 DEF Newest
  <2>4. QED BY <1>5, <2>2, <2>3
<1>8. /\ Reads(d) => Reads(d)'
      /\ Lists(d) => Lists(d)'
  <2>1. Logged /\ Sound(d, S) /\ \A i \in 1..Len(log) : log[i]' = log[i]
    BY <1>1 DEF Faithful, Goes
  <2>2. QED BY <1>1, <2>1, ShownStays
<1>9. QED BY <1>3, <1>4, <1>6, <1>7, <1>8

\* What is read goes on.
Onward ==
  /\ ever \subseteq ever'
  /\ ever' \subseteq {"older"} =>
       \E m, n \in Nat : m <= n /\ Shows(shown, m) /\ Shows(shown', n)

\* ... as it does for a client that reads on.
LEMMA ReadOn ==
  ASSUME NEW c, NEW d, Reads(c), Reads(d), Reached(c.tab) <= Reached(d.tab)
  PROVE  \E m, n \in Nat : m <= n /\ Shows(c.shown, m) /\ Shows(d.shown, n)
BY DEF Reads, Trails

\* A client that has all of it, has no more to get than what comes.
LEMMA Throughout ==
  ASSUME Faithful, Greeted, tab.fence # None, last \cap {"behind", "turned", "late"} = {}
  PROVE  Fits(Client) /\ Through(Client.tab, Details)
<1>1. Synchronized
  BY DEF Synchronized
<1>2. Follows(0)
  BY <1>1 DEF Faithful, Complete
<1>3. Awaited(Client, Details) = Details
  <2>1. Client.tab = tab
    BY DEF Client
  <2>2. QED BY <2>1 DEF Faithful, Sound, Awaited, ToSet
<1>4. Through(Client.tab, Details)
  BY <1>2, <1>3 DEF Follows, Through, Client
<1>5. Fits(Client)
  BY DEF Faithful, Displayed, Fit
<1>6. QED BY <1>4, <1>5

\* An event is the next one to come, waits for the snapshot, or is dropped.
LEMMA HearEventFaithful ==
  ASSUME IInv, IInv', Faithful, NEW p \in Events, Heard(p), HearEvent(p)
  PROVE  Faithful' /\ Onward
<1>1. /\ UNCHANGED log /\ UNCHANGED published /\ serving' = serving /\ UNCHANGED subs
      /\ UNCHANGED online /\ ToSet(pushes') \subseteq ToSet(pushes) /\ p \in ToSet(pushes)
      /\ published \in Nat /\ published <= Len(log) /\ p.kind = "event"
  BY DEF Heard, IInv, Typed, Events
<1>2. p.detail \in BOOLEAN /\ (IsDetail(p) <=> p.detail)
  BY DEF Events, IsDetail
<1>3. PICK c, R, S : c = Client /\ R = Details /\ S = Details'
  OBVIOUS
<1>4. /\ Ordered' /\ S = (IF p.detail THEN R \ {p.event} ELSE R)
      /\ p.detail => p.event \in R /\ \A m \in R : p.event <= m
  BY <1>2, <1>3, HeardLine DEF IInv, Faithful
<1>5. PICK d : d = Client' /\ EventGoes(c, R, d, S) /\ UNCHANGED last
  <2>1. Typed /\ Logged /\ Sound(Client, R)
    BY <1>3 DEF IInv, Faithful
  <2>2. \E d : d = Client' /\ EventGoes(Client, R, d, S) /\ UNCHANGED last
    BY <1>4, <2>1, HearEventGoes
  <2>3. QED BY <1>3, <2>2
<1>6. /\ tab' = d.tab /\ shown' = d.shown /\ ever' = d.ever
      /\ c.tab = tab /\ c.shown = shown /\ c.ever = ever /\ Client = c
  BY <1>3, <1>5 DEF Client
<1>7. /\ Goes(c, R, d, S) /\ (tab'.fence = None <=> tab.fence = None)
      /\ tab.fence = None => Still(tab, tab') /\ shown' = shown /\ ever' = ever
      /\ tab.fence # None => Leads(c, R, d, S)
  BY <1>5, <1>6 DEF EventGoes
<1>8. /\ Sound(Client, Details)' /\ Logged'
      /\ \A m \in Nat : Follows(m) => Follows(m)'
      /\ Newest(tab) <= Newest(tab)' /\ Newest(tab) \in Nat /\ Newest(tab)' \in Nat
      /\ Reads(d) => Reads(Client)'
      /\ Lists(d) => Lists(Client)'
  <2>1. UNCHANGED <<log, published>>
    BY <1>1
  <2>2. QED BY <1>3, <1>5, <1>7, <2>1, GoesKeeps
<1>9. Greeted' <=> Greeted
  BY <1>1 DEF Heard, Greeted
<1>10. Greeted
  <2>1. \A q \in ToSet(pushes') : q.kind # "welcome"
    <3>1. \A i \in DOMAIN pushes' :
            pushes'[i] = pushes[i + 1] /\ i + 1 \in DOMAIN pushes /\ i + 1 # 1
      BY DEF Heard
    <3>2. QED BY <3>1 DEF IInv, Told, ToSet
  <2>2. online
    BY DEF Heard, IInv, Told
  <2>3. QED BY <1>1, <2>1, <2>2 DEF Heard, Greeted
\* The requests: the thread may be asked for.
<1>11. /\ tab'.epoch = tab.epoch
       /\ \/ requests' = requests
          \/ \E r : /\ r \in Requests /\ r.asks = "thread" /\ r.epoch = tab.epoch
                    /\ requests' = Append(requests, r)
  <2>1. EventHeard(p)
    BY HearEventDoes DEF IInv
  <2>2. PICK r : r = Request("thread", "event", tab.epoch)
    OBVIOUS
  <2>3. r \in Requests /\ r.asks = "thread" /\ r.epoch = tab.epoch
    <3>1. tab.epoch \in Nat
      BY DEF IInv, Typed, Tabs
    <3>2. QED BY <2>2, <3>1, MadeRequest DEF Asking, Whats, Whos
  <2>4. QED BY <2>1, <2>2, <2>3 DEF EventHeard, Alike
<1>12. /\ \A r \in ToSet(requests') :
            r \in ToSet(requests) \/ (r.asks = "thread" /\ r.epoch = tab.epoch)
       /\ Leaves'
  <2>1. CASE requests' = requests
    BY <1>11, <2>1 DEF Faithful, Leaves
  <2>2. CASE \E r : /\ r \in Requests /\ r.asks = "thread" /\ r.epoch = tab.epoch
                    /\ requests' = Append(requests, r)
    <3>1. PICK r : /\ r \in Requests /\ r.asks = "thread" /\ r.epoch = tab.epoch
                   /\ requests' = Append(requests, r)
      BY <2>2
    <3>2. /\ ToSet(requests') = ToSet(requests) \cup {r}
          /\ DOMAIN requests' = 1..(Len(requests) + 1) /\ DOMAIN requests = 1..Len(requests)
          /\ Len(requests) \in Nat
          /\ \A i \in 1..Len(requests) : requests'[i] = requests[i]
          /\ requests'[Len(requests) + 1] = r
      BY <3>1, Appended, AppendedSet DEF IInv, Typed
    <3>3. ASSUME NEW i \in DOMAIN requests', NEW j \in DOMAIN requests',
                 requests'[i].asks = "thread", requests'[i].epoch = tab.epoch,
                 requests'[j].asks = "leave"
          PROVE  j < i
      <4>1. j \in 1..Len(requests) /\ requests'[j] = requests[j]
        BY <3>1, <3>2, <3>3
      <4>2. CASE i = Len(requests) + 1
        BY <3>2, <4>1, <4>2
      <4>3. CASE i # Len(requests) + 1
        <5>1. i \in 1..Len(requests) /\ requests'[i] = requests[i]
          BY <3>2, <4>3
        <5>2. QED BY <3>2, <3>3, <4>1, <5>1 DEF Faithful, Leaves
      <4>4. QED BY <4>2, <4>3
    <3>4. Leaves'
      BY <1>11, <3>3 DEF Leaves
    <3>5. QED BY <3>1, <3>2, <3>4
  <2>3. QED BY <1>11, <2>1, <2>2
<1>13. Dated' /\ Within'
  <2>1. tab.epoch <= tab.epoch
    BY DEF IInv, Typed, Tabs
  <2>2. QED BY <1>1, <1>11, <1>12, <2>1 DEF Faithful, Dated, Within
<1>14. /\ Synchronized' <=> Synchronized
       /\ \A s : Served(s)' <=> Served(s)
       /\ \A q : Pushed(q)' => Pushed(q)
  BY <1>1, <1>5, <1>7, <1>11 DEF Synchronized, Served, Pushed
<1>15. Tuned'
  <2>1. Due' => Due
    BY <1>14 DEF Due
  <2>2. Asked("leave")' => Asked("leave")
    BY <1>12 DEF Asked
  <2>3. QED BY <1>1, <1>9, <2>1, <2>2 DEF Faithful, Tuned
<1>16. Complete'
  <2>1. Complete
    BY DEF Faithful
  <2>2. Synchronized' => Newest(tab)' # 0 /\ Follows(0)'
    BY <1>8, <1>10, <1>14, <2>1 DEF Complete
  <2>3. ASSUME NEW s, Served(s)', s.upTo # None, s.upTo # 0 PROVE Follows(s.upTo)'
    <3>1. Follows(s.upTo)
      BY <1>10, <1>14, <2>1, <2>3 DEF Complete
    <3>2. s.upTo \in Nat
      BY <1>14, <2>3, Elements, ServiceFacts DEF IInv, Served
    <3>3. QED BY <1>8, <3>1, <3>2
  <2>4. ASSUME NEW q, Pushed(q)', q.upTo # 0 PROVE Follows(q.upTo)'
    <3>1. Follows(q.upTo) /\ Pushed(q)
      BY <1>10, <1>14, <2>1, <2>4 DEF Complete
    <3>2. q.upTo \in Nat
      <4>1. q \in ToSet(pushes) /\ q.kind \in Whats
        BY <3>1 DEF Pushed, Whats
      <4>2. QED BY <4>1, Elements, PushFacts DEF IInv
    <3>3. QED BY <1>8, <3>1, <3>2
  <2>5. QED BY <2>2, <2>3, <2>4 DEF Complete
<1>17. ASSUME tab.fence # None, last \cap {"behind", "turned", "late"} = {}
       PROVE  Fits(c) /\ Through(c.tab, R)
  BY <1>3, <1>10, <1>17, Throughout
<1>18. Fit'
  <2>1. Fit
    BY DEF Faithful, Displayed
  <2>2. tab.fence # None => (Fits(c) => Fits(d))
    BY <1>7 DEF Leads
  <2>3. QED BY <1>5, <1>6, <1>7, <2>1, <2>2 DEF Fit
<1>19. Activities'
  <2> SUFFICES ASSUME tab.fence # None, last = {} PROVE Lists(Client)'
    BY <1>5, <1>7 DEF Activities
  <2>1. Lists(c)
    BY <1>3 DEF Faithful, Displayed, Activities
  <2>2. Lists(d)
    BY <1>7, <1>17, <2>1 DEF Leads
  <2>3. QED BY <1>8, <2>2
<1>20. ASSUME ever' \subseteq {"older"}
       PROVE  /\ Reads(Client)'
              /\ \E m, n \in Nat : m <= n /\ Shows(shown, m) /\ Shows(shown', n)
  <2>1. c.ever \subseteq d.ever
    BY <1>7 DEF Goes
  <2>2. Reads(c) /\ last \cap {"behind", "turned", "late"} = {}
    BY <1>3, <1>6, <1>20, <2>1 DEF Faithful, Displayed, Texts
  <2>3. Reached(c.tab) \in Nat
    BY <2>2 DEF Reads, Trails
  <2>4. Reads(d) /\ Reached(c.tab) <= Reached(d.tab)
    <3>1. CASE tab.fence = None
      <4>1. Still(c.tab, d.tab) /\ d.shown = c.shown
        BY <1>6, <1>7, <3>1
      <4>2. Reads(d) /\ Reached(d.tab) = Reached(c.tab)
        BY <2>2, <4>1, StillReads
      <4>3. QED BY <2>3, <4>2
    <3>2. CASE tab.fence # None
      BY <1>6, <1>7, <1>17, <1>20, <2>2, <3>2 DEF Leads
    <3>3. QED BY <3>1, <3>2
  <2>5. Reads(Client)'
    BY <1>8, <2>4
  <2>6. \E m, n \in Nat : m <= n /\ Shows(c.shown, m) /\ Shows(d.shown, n)
    BY <2>2, <2>4, ReadOn
  <2>7. QED BY <1>6, <2>5, <2>6
<1>21. Displayed'
  <2>1. last' \subseteq ever'
    BY <1>3, <1>5, <1>6, <1>7 DEF Faithful, Displayed, Goes
  <2>2. QED BY <1>18, <1>19, <1>20, <2>1 DEF Displayed, Texts
<1>22. ever \subseteq ever'
  BY <1>6, <1>7 DEF Goes
<1>23. Faithful'
  BY <1>4, <1>8, <1>12, <1>13, <1>15, <1>16, <1>21 DEF Faithful
<1>24. QED BY <1>20, <1>22, <1>23 DEF Onward

\* What a snapshot of the thread does to the client, settled: d.
SnapshotHeard(p, c, b, h, d) ==
  /\ c = Client /\ d = Client' /\ IsClient(d)
  /\ Fencing(c, p.upTo, p.fence, b) /\ Leads(b, Awaited(c, Details), h, Details)
  /\ Goes(c, Details, h, Details) /\ h.tab.fence # None /\ p.upTo <= Newest(h.tab)
  /\ Stays(h.tab, d.tab) /\ d.shown = h.shown /\ d.ever = h.ever \cup Meeting(p)
  /\ Goes(c, Details, d, Details) /\ last' = Meeting(p)

LEMMA HearSnapshotHeard ==
  ASSUME Typed, Logged, Sound(Client, Details), NEW p \in Answers, p.kind = "thread",
         p.upTo # 0, p.upTo <= Len(log), p.fence <= p.upTo, HearAnswer(p)
  PROVE  \E c, b, h, d : SnapshotHeard(p, c, b, h, d)
<1>1. /\ p.upTo \in Nat /\ p.fence \in Nat /\ p.by \in Whos /\ p.upTo > 0
      /\ published \in Nat /\ published <= Len(log)
  BY DEF Answers, Typed
<1>2. PICK c, R, e : c = Client /\ R = Details /\ e = Meeting(p)
  OBVIOUS
<1>3. PICK h : h = HeardSnapshot(c, p.upTo, p.fence)
  OBVIOUS
<1>4. /\ \E b : Fencing(c, p.upTo, p.fence, b) /\ Leads(b, Awaited(c, R), h, R)
      /\ Goes(c, R, h, R) /\ h.tab.fence # None /\ p.upTo <= Newest(h.tab)
  <2>1. Sound(c, R)
    BY <1>2
  <2>2. QED BY <1>1, <1>3, <2>1, SnapshotGoes
<1>5. PICK b : Fencing(c, p.upTo, p.fence, b) /\ Leads(b, Awaited(c, R), h, R)
  BY <1>4
<1>6. IsClient(h) /\ Sound(h, R)
  BY <1>4 DEF Goes, Sound
<1>7. PICK k : k = [h EXCEPT !.ever = h.ever \cup e]
  OBVIOUS
<1>8. IsClient(k) /\ k.tab = h.tab /\ k.shown = h.shown /\ k.ever = h.ever \cup e
  BY <1>6, <1>7, WithEver
<1>9. Sound(k, R) /\ Awaited(k, R) = Awaited(h, R)
  BY <1>6, <1>8 DEF Sound, Expects, Awaited
<1>10. PICK d : d = Settled(k, p.by)
  OBVIOUS
<1>11. IsClient(d) /\ Untouched(k, d)
  BY <1>1, <1>8, <1>10, SettledDoes
<1>12. Becomes(d) /\ last' = e
  <2>1. k = [h EXCEPT !.ever = @ \cup Meeting(p)]
    BY <1>2, <1>7
  <2>2. QED BY <1>1, <1>2, <1>3, <1>10, <2>1 DEF HearAnswer
<1>13. d = Client'
  <2>1. d = [tab |-> d.tab, shown |-> d.shown, ever |-> d.ever, requests |-> d.requests]
    BY <1>11, Parts
  <2>2. QED BY <1>12, <2>1 DEF Becomes, Client
<1>14. Stays(h.tab, d.tab) /\ d.shown = h.shown /\ d.ever = h.ever \cup e
  BY <1>8, <1>11 DEF Untouched
<1>15. Goes(c, R, d, R)
  <2>1. Sound(d, R) /\ Awaited(d, R) = Awaited(h, R) /\ Newest(d.tab) = Newest(h.tab)
    BY <1>8, <1>9, <1>11, UntouchedSound
  <2>2. QED BY <1>4, <1>14, <2>1 DEF Goes, Has
<1>16. QED BY <1>2, <1>4, <1>5, <1>11, <1>12, <1>13, <1>14, <1>15 DEF SnapshotHeard

\* A snapshot that answers this subscription brings all that the server will not
\* push, ...
LEMMA HeardThroughout ==
  ASSUME NEW p, NEW c, NEW b, NEW h, NEW d, SnapshotHeard(p, c, b, h, d), p.upTo \in Nat,
         p.fence \in Nat, IsClient(c), Typed, Follows(p.upTo)
  PROVE  Through(b.tab, Awaited(c, Details))
<1>1. c = Client /\ c.tab = tab /\ Fencing(c, p.upTo, p.fence, b) /\ published \in Nat
  BY DEF SnapshotHeard, Client, Typed
<1>2. /\ Newest(b.tab) \in Nat /\ Newest(c.tab) \in Nat
      /\ Newest(c.tab) <= Newest(b.tab) /\ p.upTo <= Newest(b.tab)
  BY <1>1, FencingNumbers
<1>3. \A n \in (p.upTo + 1)..published : n <= Newest(c.tab) \/ n \in Awaited(c, Details)
  BY <1>1 DEF Follows, Has
<1>4. QED BY <1>1, <1>2, <1>3 DEF Through, Has

\* ... and shows what a snapshot shows that meets no events.
LEMMA HeardShows ==
  ASSUME NEW p, NEW c, NEW b, NEW h, NEW d, SnapshotHeard(p, c, b, h, d), p.upTo \in Nat,
         p.fence \in Nat, p.fence <= p.upTo, Sound(c, Details), c.tab = tab,
         p.epoch \in Nat, tab.epoch \in Nat,
         Meeting(p) \cap {"behind", "turned"} = {}
  PROVE  /\ Fits(b) /\ Fits(d)
         /\ /\ Meeting(p) = {} /\ Through(b.tab, Awaited(c, Details))
            => Lists(d)
         /\ /\ "overlaps" \notin Meeting(p) /\ Through(b.tab, Awaited(c, Details))
            /\ Reads(c) /\ d.ever \subseteq {"older"}
            => Reads(d) /\ Reached(c.tab) <= Reached(d.tab)
<1>1. /\ IsClient(c) /\ IsThread(c.shown) /\ Fencing(c, p.upTo, p.fence, b)
      /\ Leads(b, Awaited(c, Details), h, Details)
      /\ Stays(h.tab, d.tab) /\ d.shown = h.shown /\ h.ever \subseteq d.ever
      /\ IsClient(b) /\ c.tab \in Tabs
  BY DEF SnapshotHeard, Sound, Fencing, IsClient
<1>2. c.tab.rows \in Nat /\ c.tab.seen \in Nat
  BY <1>1, NewestType
<1>3. p.fence = p.upTo /\ c.tab.rows <= p.upTo
  BY <1>2 DEF Meeting
<1>4. Fits(b)
  BY <1>1, <1>2, <1>3 DEF Fencing, Fits
<1>5. Fits(d)
  BY <1>1, <1>4 DEF Leads, Fits, Stays, Still
<1>6. /\ \A n \in ToSet(c.tab.waiting) : n <= c.tab.seen
      /\ "overlaps" \notin Meeting(p) => \A n \in ToSet(c.tab.waiting) : ~(n <= p.upTo)
      /\ "older" \notin Meeting(p) => c.tab.seen <= p.upTo
  BY <1>2 DEF Sound, Expects, Meeting
<1>7. Still(h.tab, d.tab)
  BY <1>1 DEF Stays
<1>8. /\ Lists(h) => Lists(d)
      /\ Reads(h) => Reads(d)
      /\ Reached(d.tab) = Reached(h.tab)
  BY <1>1, <1>7, StillReads
<1>9. ASSUME Meeting(p) = {}, Through(b.tab, Awaited(c, Details)) PROVE Lists(d)
  <2>1. Lists(b)
    BY <1>1, <1>3, <1>6, <1>9, FencingLists
  <2>2. Lists(h)
    BY <1>1, <1>4, <1>9, <2>1 DEF Leads
  <2>3. QED BY <1>8, <2>2
<1>10. ASSUME "overlaps" \notin Meeting(p), Through(b.tab, Awaited(c, Details)), Reads(c),
              d.ever \subseteq {"older"}
       PROVE  Reads(d) /\ Reached(c.tab) <= Reached(d.tab)
  <2>1. Reads(b) /\ Reached(c.tab) <= Reached(b.tab)
    BY <1>1, <1>3, <1>6, <1>10, FencingReads
  <2>2. Reads(h) /\ Reached(b.tab) <= Reached(h.tab)
    <3>1. h.ever \subseteq {"older"}
      BY <1>1, <1>10
    <3>2. QED BY <1>1, <1>4, <1>10, <2>1, <3>1 DEF Leads
  <2>3. Reached(c.tab) \in Nat /\ Reached(b.tab) \in Nat /\ Reached(h.tab) \in Nat
    BY <1>10, <2>1, <2>2 DEF Reads, Trails
  <2>4. QED BY <1>8, <2>1, <2>2, <2>3
<1>11. QED BY <1>4, <1>5, <1>9, <1>10

\* So a snapshot puts the client further, or leaves it where it is.
LEMMA HearSnapshotFaithful ==
  ASSUME IInv, IInv', Faithful, NEW p \in Answers, Heard(p), p.kind = "thread", p.upTo # 0,
         HearAnswer(p)
  PROVE  Faithful' /\ Onward
<1>1. /\ UNCHANGED log /\ UNCHANGED published /\ serving' = serving /\ UNCHANGED subs
      /\ UNCHANGED online /\ ToSet(pushes') \subseteq ToSet(pushes) /\ p \in ToSet(pushes)
      /\ published \in Nat /\ published <= Len(log) /\ Typed
  BY DEF Heard, IInv, Typed
<1>2. /\ p.upTo \in Nat /\ p.fence \in Nat /\ p.epoch \in Nat /\ tab.epoch \in Nat
      /\ p.upTo <= Len(log) /\ p.fence <= p.upTo /\ p.epoch <= tab.epoch /\ p.upTo >= 1
  <2>1. /\ p.upTo \in Nat /\ p.fence \in Nat /\ p.epoch \in Nat
        /\ tab.epoch \in Nat
    BY <1>1 DEF Answers, Typed, Tabs
  <2>2. Within /\ Dated
    BY DEF Faithful
  <2>3. p.upTo <= Len(log) /\ p.fence <= p.upTo /\ p.epoch <= tab.epoch
    BY <1>1, <2>2 DEF Within, Dated
  <2>4. QED BY <2>1, <2>3
<1>3. ~IsDetail(p) /\ p.kind # "welcome"
  BY DEF IsDetail
<1>4. Ordered' /\ Details' = Details
  BY <1>1, <1>3, HeardLine DEF Faithful
<1>5. PICK c, b, h, d : SnapshotHeard(p, c, b, h, d)
  <2>1. Logged /\ Sound(Client, Details)
    BY DEF Faithful
  <2>2. QED BY <1>1, <1>2, <2>1, HearSnapshotHeard
<1>6. /\ c = Client /\ d = Client' /\ Goes(c, Details, d, Details) /\ Sound(c, Details)
      /\ IsClient(c) /\ last' = Meeting(p) /\ Meeting(p) \subseteq d.ever
      /\ c.ever \subseteq d.ever /\ Stays(h.tab, d.tab) /\ p.upTo <= Newest(h.tab)
      /\ h.tab.fence # None
  BY <1>5 DEF SnapshotHeard, Goes, Faithful, Sound
<1>7. /\ tab' = d.tab /\ shown' = d.shown /\ ever' = d.ever
      /\ c.tab = tab /\ c.shown = shown /\ c.ever = ever
  BY <1>6 DEF Client
<1>8. /\ Sound(Client, Details)' /\ Logged'
      /\ \A m \in Nat : Follows(m) => Follows(m)'
      /\ Newest(tab) <= Newest(tab)' /\ Newest(tab) \in Nat /\ Newest(tab)' \in Nat
      /\ Reads(d) => Reads(Client)'
      /\ Lists(d) => Lists(Client)'
  <2>1. UNCHANGED <<log, published>>
    BY <1>1
  <2>2. Goes(c, Details, d, Details')
    BY <1>4, <1>6
  <2>3. QED BY <1>6, <2>1, <2>2, GoesKeeps
<1>9. Greeted' /\ Greeted
  <2>1. \A q \in ToSet(pushes') : q.kind # "welcome"
    <3>1. \A i \in DOMAIN pushes' :
            pushes'[i] = pushes[i + 1] /\ i + 1 \in DOMAIN pushes /\ i + 1 # 1
      BY DEF Heard
    <3>2. QED BY <3>1 DEF IInv, Told, ToSet
  <2>2. online
    BY DEF Heard, IInv, Told
  <2>3. \A q \in ToSet(pushes) : q = p \/ q \in ToSet(pushes')
    BY DEF Heard
  <2>4. QED BY <1>1, <1>3, <2>1, <2>2, <2>3 DEF Greeted
<1>10. /\ tab'.epoch = tab.epoch /\ requests' = requests /\ tab'.fence # None
  BY <1>1, HearSnapshotDoes
<1>11. Dated' /\ Within' /\ Leaves'
  BY <1>1, <1>10 DEF Faithful, Dated, Within, Leaves
<1>12. /\ \A s : Served(s)' <=> Served(s)
       /\ \A q : Pushed(q)' => Pushed(q)
  BY <1>1, <1>10 DEF Served, Pushed
<1>13. ASSUME "late" \notin last'
       PROVE  Pushed(p) /\ Follows(p.upTo)
  <2>1. Pushed(p)
    BY <1>1, <1>2, <1>6, <1>13 DEF Meeting, Pushed
  <2>2. QED BY <1>2, <1>9, <2>1 DEF Faithful, Complete
<1>14. Tuned'
  <2>1. Due' => Due
    BY <1>12, <1>13 DEF Due, Synchronized
  <2>2. Asked("leave")' <=> Asked("leave")
    BY <1>10 DEF Asked
  <2>3. QED BY <1>1, <1>9, <2>1, <2>2 DEF Faithful, Tuned
<1>15. p.upTo <= Newest(tab)'
  BY <1>6, <1>7 DEF Stays, Still, Newest
<1>16. Complete'
  <2>1. Complete
    BY DEF Faithful
  <2>2. ASSUME Synchronized' PROVE Newest(tab)' # 0 /\ Follows(0)'
    <3>1. Follows(p.upTo)'
      BY <1>2, <1>8, <1>13, <2>2 DEF Synchronized
    <3>2. Follows(0)'
      <4>1. PICK t, N : t = tab' /\ N = Newest(tab)'
        OBVIOUS
      <4>2. \A n \in 1..published' : n \in (p.upTo + 1)..published' \/ n <= N
        BY <1>1, <1>2, <1>8, <1>15, <4>1
      <4>3. QED BY <3>1, <4>1, <4>2 DEF Follows, Has
    <3>3. QED BY <1>2, <1>8, <1>15, <3>2
  <2>3. ASSUME NEW s, Served(s)', s.upTo # None, s.upTo # 0 PROVE Follows(s.upTo)'
    <3>1. Follows(s.upTo)
      BY <1>9, <1>12, <2>1, <2>3 DEF Complete
    <3>2. s.upTo \in Nat
      BY <1>1, <1>12, <2>3, Elements, ServiceFacts DEF Served
    <3>3. QED BY <1>8, <3>1, <3>2
  <2>4. ASSUME NEW q, Pushed(q)', q.upTo # 0 PROVE Follows(q.upTo)'
    <3>1. Follows(q.upTo) /\ Pushed(q)
      BY <1>9, <1>12, <2>1, <2>4 DEF Complete
    <3>2. q.upTo \in Nat
      <4>1. q \in ToSet(pushes) /\ q.kind \in Whats
        BY <3>1 DEF Pushed, Whats
      <4>2. QED BY <1>1, <4>1, Elements, PushFacts
    <3>3. QED BY <1>8, <3>1, <3>2
  <2>5. QED BY <2>2, <2>3, <2>4 DEF Complete
<1>17. ASSUME "late" \notin last' PROVE Through(b.tab, Awaited(c, Details))
  <2>1. Follows(p.upTo)
    BY <1>13, <1>17
  <2>2. QED BY <1>1, <1>2, <1>5, <1>6, <2>1, HeardThroughout
<1>18. ASSUME Meeting(p) \cap {"behind", "turned"} = {}
       PROVE  /\ Fits(b) /\ Fits(d)
              /\ /\ Meeting(p) = {} /\ Through(b.tab, Awaited(c, Details))
                 => Lists(d)
              /\ /\ "overlaps" \notin Meeting(p) /\ Through(b.tab, Awaited(c, Details))
                 /\ Reads(c) /\ d.ever \subseteq {"older"}
                 => Reads(d) /\ Reached(c.tab) <= Reached(d.tab)
  BY <1>2, <1>5, <1>6, <1>7, <1>18, HeardShows
<1>19. Fit'
  BY <1>6, <1>7, <1>18 DEF Fit, Fits, Client
<1>20. Activities'
  <2> SUFFICES ASSUME last' = {} PROVE Lists(Client)'
    BY DEF Activities
  <2>1. Meeting(p) = {} /\ "late" \notin last'
    BY <1>6
  <2>2. Lists(d)
    BY <1>17, <1>18, <2>1
  <2>3. QED BY <1>8, <2>2
<1>21. ASSUME ever' \subseteq {"older"}
       PROVE  /\ Reads(Client)'
              /\ \E m, n \in Nat : m <= n /\ Shows(shown, m) /\ Shows(shown', n)
  <2>1. d.ever \subseteq {"older"} /\ Meeting(p) \subseteq {"older"} /\ ever \subseteq {"older"}
    BY <1>6, <1>7, <1>21
  <2>2. Reads(c)
    BY <1>6, <2>1 DEF Faithful, Displayed, Texts
  <2>3. Reads(d) /\ Reached(c.tab) <= Reached(d.tab)
    <3>1. /\ "late" \notin last' /\ "overlaps" \notin Meeting(p)
          /\ Meeting(p) \cap {"behind", "turned"} = {}
      BY <1>6, <2>1
    <3>2. QED BY <1>17, <1>18, <2>1, <2>2, <3>1
  <2>4. \E m, n \in Nat : m <= n /\ Shows(c.shown, m) /\ Shows(d.shown, n)
    BY <2>2, <2>3, ReadOn
  <2>5. QED BY <1>7, <1>8, <2>3, <2>4
<1>22. Displayed'
  <2>1. last' \subseteq ever'
    BY <1>6, <1>7
  <2>2. QED BY <1>19, <1>20, <1>21, <2>1 DEF Displayed, Texts
<1>23. ever \subseteq ever'
  BY <1>6, <1>7
<1>24. Faithful'
  BY <1>4, <1>8, <1>11, <1>14, <1>16, <1>22 DEF Faithful
<1>25. QED BY <1>21, <1>23, <1>24 DEF Onward

\* What waits is shown.
LEMMA FlushFaithful ==
  ASSUME IInv, Faithful, Flush
  PROVE  Faithful' /\ Onward
<1>1. /\ UNCHANGED log /\ UNCHANGED published /\ UNCHANGED subs /\ UNCHANGED serving
      /\ UNCHANGED pushes /\ UNCHANGED online /\ UNCHANGED last /\ Typed
      /\ published \in Nat /\ published <= Len(log) /\ Becomes(Flushed(Client))
  BY DEF Flush, server, IInv, Typed
<1>2. PICK c, R : c = Client /\ R = Details
  OBVIOUS
<1>3. PICK d : d = Flushed(c)
  OBVIOUS
<1>4. /\ Sound(c, R) /\ IsClient(c) /\ IsThread(c.shown) /\ Logged /\ c.tab \in Tabs
      /\ Details' = R
  BY <1>1, <1>2 DEF Faithful, Sound, IsClient, Details
<1>5. /\ IsClient(d) /\ IsThread(d.shown) /\ d.requests = c.requests
      /\ c.ever \subseteq d.ever
      /\ d.tab.waiting = <<>> /\ d.tab.seen = c.tab.seen /\ d.tab.rows = c.tab.rows
      /\ d.tab.fence = c.tab.fence /\ d.tab.buffer = c.tab.buffer /\ d.tab.epoch = c.tab.epoch
      /\ Newest(d.tab) = Newest(c.tab) /\ Reached(d.tab) = Newest(c.tab)
  BY <1>3, <1>4, FlushedDoes
<1>6. d = Client'
  <2>1. d = [tab |-> d.tab, shown |-> d.shown, ever |-> d.ever, requests |-> d.requests]
    BY <1>5, Parts
  <2>2. QED BY <1>1, <1>2, <1>3, <2>1 DEF Becomes, Client
<1>7. /\ tab' = d.tab /\ shown' = d.shown /\ ever' = d.ever /\ requests' = requests
      /\ c.tab = tab /\ c.shown = shown /\ c.ever = ever
  BY <1>2, <1>5, <1>6 DEF Client
<1>8. Goes(c, R, d, R)
  <2>1. Awaited(d, R) = Awaited(c, R) /\ ToSet(d.tab.waiting) = {}
    BY <1>5 DEF Awaited, ToSet
  <2>2. Expects(d, R)
    <3>1. Expects(c, R)
      BY <1>4 DEF Sound
    <3>2. QED BY <1>5, <2>1, <3>1 DEF Expects
  <2>3. Sound(d, R)
    BY <1>4, <1>5, <2>2 DEF Sound
  <2>4. Newest(c.tab) <= Newest(d.tab)
    <3>1. Newest(c.tab) \in Nat
      BY <1>4, NewestType
    <3>2. QED BY <1>5, <3>1
  <2>5. QED BY <1>5, <2>1, <2>3, <2>4 DEF Goes, Has
<1>9. /\ Sound(Client, Details)' /\ Logged'
      /\ \A m \in Nat : Follows(m) => Follows(m)'
      /\ Newest(tab) <= Newest(tab)' /\ Newest(tab) \in Nat /\ Newest(tab)' \in Nat
      /\ Reads(d) => Reads(Client)'
      /\ Lists(d) => Lists(Client)'
  <2>1. UNCHANGED <<log, published>> /\ R = Details'
    BY <1>1, <1>4
  <2>2. QED BY <1>2, <1>6, <1>8, <2>1, GoesKeeps
<1>10. tab'.epoch = tab.epoch /\ tab'.fence = tab.fence
  BY <1>5, <1>7
<1>11. Ordered' /\ Within' /\ Dated' /\ Leaves'
  <2>1. Ordered'
    BY <1>1 DEF Faithful, Ordered, IsDetail
  <2>2. QED BY <1>1, <1>7, <1>10, <2>1 DEF Faithful, Within, Dated, Leaves
<1>12. /\ Greeted' <=> Greeted
       /\ Synchronized' <=> Synchronized
       /\ \A s : Served(s)' <=> Served(s)
       /\ \A q : Pushed(q)' <=> Pushed(q)
  BY <1>1, <1>10 DEF Greeted, Synchronized, Served, Pushed
<1>13. Tuned'
  <2>1. (Due' <=> Due) /\ (Asked("leave")' <=> Asked("leave"))
    BY <1>7, <1>12 DEF Due, Asked
  <2>2. QED BY <1>1, <1>12, <2>1 DEF Faithful, Tuned
<1>14. Complete'
  <2> SUFFICES ASSUME Greeted
               PROVE  /\ Synchronized' => Newest(tab)' # 0 /\ Follows(0)'
                      /\ \A s : Served(s)' /\ s.upTo # None /\ s.upTo # 0 => Follows(s.upTo)'
                      /\ \A p : Pushed(p)' /\ p.upTo # 0 => Follows(p.upTo)'
    BY <1>12 DEF Complete
  <2>1. Complete
    BY DEF Faithful
  <2>2. Synchronized' => Newest(tab)' # 0 /\ Follows(0)'
    BY <1>9, <1>12, <2>1 DEF Complete
  <2>3. ASSUME NEW s, Served(s)', s.upTo # None, s.upTo # 0 PROVE Follows(s.upTo)'
    <3>1. Follows(s.upTo)
      BY <1>12, <2>1, <2>3 DEF Complete
    <3>2. s.upTo \in Nat
      BY <1>1, <1>12, <2>3, Elements, ServiceFacts DEF Served
    <3>3. QED BY <1>9, <3>1, <3>2
  <2>4. ASSUME NEW q, Pushed(q)', q.upTo # 0 PROVE Follows(q.upTo)'
    <3>1. Follows(q.upTo) /\ Pushed(q)
      BY <1>12, <2>1, <2>4 DEF Complete
    <3>2. q.upTo \in Nat
      <4>1. q \in ToSet(pushes) /\ q.kind \in Whats
        BY <3>1 DEF Pushed, Whats
      <4>2. QED BY <1>1, <4>1, Elements, PushFacts
    <3>3. QED BY <1>9, <3>1, <3>2
  <2>5. QED BY <2>2, <2>3, <2>4
<1>15. Newest(c.tab) <= Len(log)
  <2>1. c.tab.seen <= published /\ c.tab.rows <= Len(log)
    BY <1>4 DEF Sound, Expects
  <2>2. Newest(c.tab) \in {c.tab.seen, c.tab.rows} /\ c.tab.seen \in Nat /\ Len(log) \in Nat
    BY <1>1, <1>4, NewestType DEF Typed
  <2>3. QED BY <1>1, <2>1, <2>2
<1>16. Fit' /\ Activities'
  <2>1. Fit /\ Activities
    BY DEF Faithful, Displayed
  <2>2. Fit'
    BY <1>1, <1>2, <1>5, <1>6, <1>7, <2>1 DEF Fit, Fits
  <2>3. Lists(c) => Lists(d)
    BY <1>3, <1>4, <1>15, FlushedLists
  <2>4. Activities'
    BY <1>1, <1>2, <1>9, <1>10, <2>1, <2>3 DEF Activities
  <2>5. QED BY <2>2, <2>4
<1>17. ASSUME ever' \subseteq {"older"}
       PROVE  /\ Reads(Client)'
              /\ \E m, n \in Nat : m <= n /\ Shows(shown, m) /\ Shows(shown', n)
  <2>1. d.ever \subseteq {"older"} /\ ever \subseteq {"older"}
    BY <1>5, <1>7, <1>17
  <2>2. Reads(c)
    BY <1>2, <2>1 DEF Faithful, Displayed, Texts
  <2>3. Readable(c)
    BY <2>2 DEF Reads, Readable
  <2>4. Reads(d)
    BY <1>3, <1>4, <1>15, <2>1, <2>3, FlushedReads
  <2>5. Reached(c.tab) <= Reached(d.tab)
    <3>1. /\ Reached(c.tab) + Len(c.tab.waiting) = Newest(c.tab) /\ Len(c.tab.waiting) \in Nat
          /\ Reached(c.tab) \in Int
      BY <1>4, NewestType
    <3>2. QED BY <1>5, <3>1
  <2>6. \E m, n \in Nat : m <= n /\ Shows(c.shown, m) /\ Shows(d.shown, n)
    BY <2>2, <2>4, <2>5, ReadOn
  <2>7. QED BY <1>7, <1>9, <2>4, <2>5, <2>6
<1>18. Displayed'
  <2>1. last' \subseteq ever'
    BY <1>1, <1>5, <1>7 DEF Faithful, Displayed
  <2>2. QED BY <1>16, <1>17, <2>1 DEF Displayed, Texts
<1>19. Faithful'
  BY <1>9, <1>11, <1>13, <1>14, <1>18 DEF Faithful
<1>20. ever \subseteq ever'
  BY <1>5, <1>7
<1>21. QED BY <1>17, <1>19, <1>20 DEF Onward

\* A step that leaves the thread and the line alone.
LEMMA AloneFaithful ==
  ASSUME IInv', Faithful, Stays(tab, tab'), tab'.epoch = tab.epoch,
         UNCHANGED <<log, published, subs, serving, pushes, requests, online, shown, ever, last>>
  PROVE  Faithful'
<1>1. /\ UNCHANGED log /\ UNCHANGED published /\ UNCHANGED subs /\ UNCHANGED serving
      /\ UNCHANGED pushes /\ UNCHANGED requests /\ UNCHANGED online /\ UNCHANGED last
  OBVIOUS
<1>2. Details' = Details /\ Ordered'
  BY <1>1 DEF Details, Faithful, Ordered, IsDetail
<1>3. /\ Sound(Client, Details)' /\ Logged' /\ Displayed' /\ Newest(tab)' = Newest(tab)
      /\ \A m : Follows(m)' <=> Follows(m)
  <2>1. Still(tab, tab') /\ tab'.fence = tab.fence /\ tab'.buffer = tab.buffer
    BY DEF Stays
  <2>2. QED BY <1>2, <2>1, ClientKeeps
<1>4. Within' /\ Dated' /\ Leaves'
  BY <1>1 DEF Faithful, Within, Dated, Leaves
<1>5. /\ Greeted' <=> Greeted
      /\ Synchronized' <=> Synchronized
      /\ \A s : Served(s)' <=> Served(s)
      /\ \A q : Pushed(q)' <=> Pushed(q)
  BY <1>1 DEF Stays, Greeted, Synchronized, Served, Pushed
<1>6. Tuned'
  <2>1. (Due' <=> Due) /\ (Asked("leave")' <=> Asked("leave"))
    BY <1>1, <1>5 DEF Due, Asked
  <2>2. QED BY <1>1, <1>5, <2>1 DEF Faithful, Tuned
<1>7. Complete'
  BY <1>3, <1>5 DEF Faithful, Complete
<1>8. QED BY <1>2, <1>3, <1>4, <1>6, <1>7 DEF Faithful

\* The thread is asked for, or left, in a new subscription.
LEMMA ReconcileFaithful ==
  ASSUME IInv, IInv', Faithful, Reconcile
  PROVE  Faithful'
<1>1. /\ UNCHANGED log /\ UNCHANGED published /\ UNCHANGED subs /\ UNCHANGED serving
      /\ UNCHANGED pushes /\ UNCHANGED online /\ UNCHANGED last
  BY DEF Reconcile, server
<1>2. Reconciled(Head(tab.chain))
  BY ReconcileDoes DEF IInv
<1>3. PICK wanted : wanted = Head(tab.chain) /\ Reconciled(wanted)
  BY <1>2
<1>4. UNCHANGED shown /\ UNCHANGED ever /\ tab' \in Tabs /\ wanted \in BOOLEAN
  <2>1. tab.chain \in Seq(BOOLEAN) /\ tab.chain # <<>>
    BY <1>3 DEF IInv, Typed, Tabs, Reconciled
  <2>2. wanted \in BOOLEAN
    BY <1>3, <2>1, Rest
  <2>3. QED BY <1>3, <2>2 DEF Reconciled
<1>5. CASE UNCHANGED requests /\ Stays(tab, tab') /\ tab'.epoch = tab.epoch
  BY <1>1, <1>4, <1>5, AloneFaithful
<1>6. CASE /\ Still(tab, tab') /\ tab'.fence = None /\ tab'.buffer = <<>>
           /\ tab'.epoch = tab.epoch + 1
           /\ requests' = Append(requests, Request(IF wanted THEN "thread" ELSE "leave", "chain",
                                                   tab'.epoch))
  <2>1. PICK r : r = Request(IF wanted THEN "thread" ELSE "leave", "chain", tab'.epoch)
    OBVIOUS
  <2>2. r \in Requests /\ r.epoch = tab'.epoch /\ r.asks \in {"thread", "leave"}
    <3>1. tab'.epoch \in Nat
      BY <1>4 DEF Tabs
    <3>2. CASE wanted
      BY <2>1, <3>1, <3>2, MadeRequest DEF Asking, Whats, Whos
    <3>3. CASE ~wanted
      BY <2>1, <3>1, <3>3, MadeRequest DEF Asking, Whats, Whos
    <3>4. QED BY <3>2, <3>3
  <2>3. /\ ToSet(requests') = ToSet(requests) \cup {r}
        /\ DOMAIN requests' = 1..(Len(requests) + 1) /\ DOMAIN requests = 1..Len(requests)
        /\ Len(requests) \in Nat
        /\ \A i \in 1..Len(requests) : requests'[i] = requests[i]
        /\ requests'[Len(requests) + 1] = r
    BY <1>6, <2>1, <2>2, Appended, AppendedSet DEF IInv, Typed
  <2>4. /\ Tuned' /\ Complete' /\ Within'
        /\ \A q \in ToSet(requests) : q.epoch <= tab'.epoch /\ q.epoch # tab'.epoch
        /\ \A s \in ToSet(serving') : s.epoch <= tab'.epoch
        /\ \A q \in ToSet(pushes') : q.kind = "thread" => q.epoch <= tab'.epoch
    <3>1. ToSet(serving') \subseteq ToSet(serving) /\ ToSet(pushes') \subseteq ToSet(pushes)
      BY <1>1
    <3>2. QED BY <1>1, <1>6, <3>1, AnewKeeps
  <2>5. Details' = Details /\ Ordered'
    BY <1>1 DEF Details, Faithful, Ordered, IsDetail
  <2>6. Sound(Client, Details)' /\ Logged' /\ Displayed'
    BY <1>1, <1>4, <1>6, <2>5, ClientKeeps
  <2>7. Dated'
    <3>1. tab'.epoch <= tab'.epoch
      BY <1>4 DEF Tabs
    <3>2. QED BY <2>2, <2>3, <2>4, <3>1 DEF Dated
  <2>8. Leaves'
    <3>1. ASSUME NEW i \in DOMAIN requests', NEW j \in DOMAIN requests',
                 requests'[i].asks = "thread", requests'[i].epoch = tab'.epoch,
                 requests'[j].asks = "leave"
          PROVE  j < i
      <4>1. i = Len(requests) + 1
        <5>1. ASSUME i \in 1..Len(requests) PROVE FALSE
          <6>1. requests[i] \in ToSet(requests) /\ requests'[i] = requests[i]
            BY <2>3, <5>1 DEF ToSet
          <6>2. QED BY <2>4, <3>1, <6>1
        <5>2. QED BY <2>3, <5>1
      <4>2. j # i
        BY <3>1
      <4>3. QED BY <2>3, <4>1, <4>2
    <3>2. QED BY <3>1 DEF Leaves
  <2>9. QED BY <2>4, <2>5, <2>6, <2>7, <2>8 DEF Faithful
<1>7. QED BY <1>3, <1>5, <1>6 DEF Reconciled

\* A route is for the reconciliation to come.
LEMMA RouteFaithful ==
  ASSUME IInv, IInv', Faithful, Route
  PROVE  Faithful'
<1>1. /\ UNCHANGED <<log, published, subs, serving, pushes, requests, online, shown, ever, last>>
      /\ tab' = [tab EXCEPT !.wanted = ~@, !.chain = Append(@, ~tab.wanted)] /\ tab \in Tabs
  BY DEF Route, server, IInv, Typed
<1>2. Stays(tab, tab') /\ tab'.epoch = tab.epoch
  BY <1>1 DEF Tabs, Stays, Still
<1>3. QED BY <1>1, <1>2, AloneFaithful

\* A connection that is not there, or whose greeting was not heard, owes nothing.
LEMMA AwayFaithful ==
  ASSUME IInv', Faithful, Stays(tab, tab'), tab'.epoch = tab.epoch,
         UNCHANGED <<log, published, shown, ever, last>>, ~Greeted', Leaves',
         \A p \in ToSet(pushes') : p.kind = "welcome",
         ToSet(serving') \subseteq ToSet(serving), ToSet(requests') \subseteq ToSet(requests)
  PROVE  Faithful'
<1>1. Details' = {} /\ Ordered'
  <2>1. \A i \in DOMAIN pushes' : ~IsDetail(pushes'[i])
    BY DEF IsDetail, ToSet
  <2>2. Ordered'
    BY <2>1 DEF Ordered, IsDetail
  <2>3. QED BY <2>2 DEF Details, IsDetail
<1>2. Sound(Client, Details)' /\ Logged' /\ Displayed'
  <2>1. Still(tab, tab') /\ tab'.fence = tab.fence /\ tab'.buffer = tab.buffer
    BY DEF Stays
  <2>2. QED BY <1>1, <2>1, ClientKeeps
<1>3. Within'
  <2>1. UNCHANGED log
    OBVIOUS
  <2>2. QED BY <2>1 DEF Faithful, Within
<1>4. Dated'
  BY DEF Faithful, Dated
<1>5. QED BY <1>1, <1>2, <1>3, <1>4 DEF Faithful, Tuned, Complete

LEMMA ConnectFaithful ==
  ASSUME IInv, IInv', Faithful, Connect
  PROVE  Faithful'
<1>1. /\ UNCHANGED <<log, published, shown, ever, last>> /\ serving' = serving
      /\ requests' = requests /\ UNCHANGED tab /\ pushes' = <<[kind |-> "welcome"]>>
  BY DEF Connect, server
<1>2. PICK w : w = [kind |-> "welcome"]
  OBVIOUS
<1>3. ToSet(pushes') = {w} /\ w.kind = "welcome"
  <2>1. DOMAIN <<w>> = {1} /\ <<w>>[1] = w
    OBVIOUS
  <2>2. ToSet(<<w>>) = {w}
    BY <2>1 DEF ToSet
  <2>3. QED BY <1>1, <1>2, <2>2
<1>4. ~Greeted'
  BY <1>3 DEF Greeted
<1>5. Stays(tab, tab') /\ tab'.epoch = tab.epoch /\ Leaves'
  BY <1>1 DEF Stays, Still, Faithful, Leaves
<1>6. QED BY <1>1, <1>3, <1>4, <1>5, AwayFaithful

LEMMA LoseFaithful ==
  ASSUME IInv, IInv', Faithful, Lose
  PROVE  Faithful'
<1>1. /\ UNCHANGED <<log, published, shown, ever, last>> /\ online' = FALSE
      /\ serving' = <<>> /\ requests' = <<>> /\ pushes' = <<>>
  BY DEF Lose, server
<1>2. /\ ToSet(serving') = {} /\ ToSet(requests') = {} /\ ToSet(pushes') = {}
      /\ DOMAIN requests' = {}
  BY <1>1 DEF ToSet
<1>3. ~Greeted' /\ Leaves'
  BY <1>1, <1>2 DEF Greeted, Leaves
<1>4. Stays(tab, tab') /\ tab'.epoch = tab.epoch
  <2>1. PICK chain : chain = tab.chain \o [i \in 1..tab.ensuring |-> tab.wanted]
    OBVIOUS
  <2>2. /\ tab' = [tab EXCEPT !.awaiting = FALSE, !.asked = FALSE, !.ensuring = 0, !.chain = chain]
        /\ tab \in Tabs
    BY <2>1 DEF Lose, IInv, Typed
  <2>3. QED BY <2>2 DEF Tabs, Stays, Still
<1>5. QED BY <1>1, <1>2, <1>3, <1>4, AwayFaithful

-----------------------------------------------------------------------------
(* All steps                                                               *)

\* Whatever the client hears, what is read goes on or stays.
LEMMA HearFaithful ==
  ASSUME IInv, IInv', Faithful, Hear
  PROVE  Faithful' /\ (Onward \/ UNCHANGED <<shown, ever>>)
<1>1. Typed
  BY DEF IInv
<1>2. PICK p : /\ Heard(p)
               /\ \/ p.kind = "welcome" /\ Becomes(Ensure(Client)) /\ UNCHANGED last
                  \/ p \in Events /\ HearEvent(p)
                  \/ p \in Answers /\ HearAnswer(p)
  BY <1>1, HearDoes
<1>3. CASE p.kind = "welcome" /\ Becomes(Ensure(Client)) /\ UNCHANGED last
  BY <1>1, <1>2, <1>3, EnsureDoes, HearWelcomeFaithful
<1>4. CASE p \in Events /\ HearEvent(p)
  BY <1>2, <1>4, HearEventFaithful
<1>5. CASE p \in Answers /\ HearAnswer(p) /\ p.kind = "thread" /\ p.upTo # 0
  BY <1>2, <1>5, HearSnapshotFaithful
<1>6. CASE p \in Answers /\ HearAnswer(p) /\ (p.kind = "thread" => p.upTo = 0)
  BY <1>1, <1>2, <1>6, HearOtherDoes, HearOtherFaithful
<1>7. QED BY <1>2, <1>3, <1>4, <1>5, <1>6

LEMMA StepFaithful ==
  ASSUME IInv, IInv', Faithful, [Next]_vars
  PROVE  Faithful' /\ (Onward \/ UNCHANGED <<shown, ever>>)
<1>1. CASE \E e \in Letters \cup {"created", "end", "act"} : Commit(e)
  <2>1. UNCHANGED <<shown, ever>>
    BY <1>1 DEF Commit
  <2>2. QED BY <1>1, <2>1, CommitFaithful
<1>2. CASE Publish
  <2>1. UNCHANGED <<shown, ever>>
    BY <1>2 DEF Publish
  <2>2. QED BY <1>2, <2>1, PublishFaithful
<1>3. CASE Serve
  <2>1. UNCHANGED <<shown, ever>>
    BY <1>3 DEF Serve
  <2>2. QED BY <1>3, <2>1, ServeFaithful
<1>4. CASE \E i \in DOMAIN serving : ReadSnapshot(i) \/ PushSnapshot(i)
  <2>1. UNCHANGED <<shown, ever>>
    BY <1>4 DEF ReadSnapshot, PushSnapshot
  <2>2. QED BY <1>4, <2>1, ReadSnapshotFaithful, PushSnapshotFaithful
<1>5. CASE Hear
  BY <1>5, HearFaithful
<1>6. CASE Flush
  BY <1>6, FlushFaithful
<1>7. CASE Reconcile
  <2>1. UNCHANGED <<shown, ever>>
    BY <1>7, ReconcileDoes DEF IInv, Reconciled
  <2>2. QED BY <1>7, <2>1, ReconcileFaithful
<1>8. CASE Route
  <2>1. UNCHANGED <<shown, ever>>
    BY <1>8 DEF Route
  <2>2. QED BY <1>8, <2>1, RouteFaithful
<1>9. CASE Connect
  <2>1. UNCHANGED <<shown, ever>>
    BY <1>9 DEF Connect
  <2>2. QED BY <1>9, <2>1, ConnectFaithful
<1>10. CASE Lose
  <2>1. UNCHANGED <<shown, ever>>
    BY <1>10 DEF Lose
  <2>2. QED BY <1>10, <2>1, LoseFaithful
<1>11. CASE UNCHANGED vars
  <2>1. /\ UNCHANGED <<log, published, subs, serving, pushes, requests, online, shown, ever, last>>
        /\ UNCHANGED tab
    BY <1>11 DEF vars, server
  <2>2. Stays(tab, tab') /\ tab'.epoch = tab.epoch
    BY <2>1 DEF Stays, Still
  <2>3. QED BY <2>1, <2>2, AloneFaithful
<1>12. QED
  BY <1>1, <1>2, <1>3, <1>4, <1>5, <1>6, <1>7, <1>8, <1>9, <1>10, <1>11
     DEF Next, Server, Router

\* A tab shows nothing of the thread at first, and nothing is on its way.
LEMMA InitFaithful ==
  ASSUME Init, IInv
  PROVE  Faithful
<1>1. /\ log = <<>> /\ published = 0 /\ serving = <<>> /\ pushes = <<>> /\ ~online
      /\ requests = <<Request("shell", "ensure", 0)>> /\ shown = Nothing
      /\ ever = {} /\ last = {}
      /\ tab.fence = None /\ tab.buffer = <<>> /\ tab.waiting = <<>> /\ ~tab.first
      /\ tab.seen = 0 /\ tab.rows = 0 /\ tab.epoch = 0
  BY DEF Init
<1>2. /\ ToSet(pushes) = {} /\ ToSet(serving) = {} /\ DOMAIN pushes = {} /\ DOMAIN log = {}
      /\ ToSet(tab.waiting) = {} /\ ToSet(tab.buffer) = {} /\ Len(tab.buffer) = 0
      /\ Len(log) = 0
  BY <1>1 DEF ToSet
<1>3. PICK r : r = Request("shell", "ensure", 0)
  OBVIOUS
<1>4. r.asks = "shell" /\ r.epoch = 0
  BY <1>3, MadeRequest DEF Asking, Whats, Whos
<1>5. DOMAIN requests = {1} /\ requests[1] = r /\ ToSet(requests) = {r}
  <2>1. DOMAIN <<r>> = {1} /\ <<r>>[1] = r
    OBVIOUS
  <2>2. ToSet(<<r>>) = {r}
    BY <2>1 DEF ToSet
  <2>3. QED BY <1>1, <1>3, <2>1, <2>2
<1>6. Logged
  BY <1>2 DEF IInv, Typed, Logged, Shaped
<1>7. Details = {} /\ Ordered /\ Within
  BY <1>2 DEF Details, Ordered, Within
<1>8. Dated /\ Leaves
  BY <1>1, <1>2, <1>4, <1>5 DEF Dated, Leaves
<1>9. PICK c : c = Client
  OBVIOUS
<1>10. IsClient(c) /\ c.tab = tab /\ c.shown = shown /\ c.tab \in Tabs
  BY <1>9, ClientTyped DEF IInv, IsClient
<1>11. Newest(tab) = 0
  BY <1>1 DEF Newest
<1>12. Sound(c, {})
  <2>1. IsThread(shown)
    BY <1>1 DEF Nothing, IsThread
  <2>2. Awaited(c, {}) = {}
    BY <1>2, <1>10 DEF Awaited
  <2>3. Expects(c, {})
    BY <1>1, <1>2, <1>10, <2>2 DEF Expects
  <2>4. QED BY <1>1, <1>2, <1>10, <1>11, <2>1, <2>3 DEF Sound, None
<1>13. Tuned /\ Complete
  BY <1>1 DEF Greeted, Tuned, Complete
<1>14. Reads(c)
  <2>1. Trails(c.tab) /\ Reached(c.tab) = 0
    BY <1>1, <1>10, <1>11, EmptyTrails
  <2>2. TextOf(0) = <<>>
    BY TextNext
  <2>3. Rows(0).here = FALSE /\ Rows(0).ended = FALSE
    <3>1. /\ (\E i \in 1..0 : IsMessage(i)) = FALSE
          /\ (\E i \in 1..0 : log[i] = "end") = FALSE
      OBVIOUS
    <3>2. RowsHave(0)
      BY RowsParts
    <3>3. QED BY <3>1, <3>2 DEF RowsHave
  <2>4. Shows(shown, 0)
    BY <1>1, <2>2, <2>3 DEF Shows, Nothing
  <2>5. QED BY <1>1, <1>2, <1>10, <2>1, <2>4 DEF Reads
<1>15. Displayed
  BY <1>1, <1>9, <1>14 DEF Displayed, Fit, Texts, Activities
<1>16. QED BY <1>6, <1>7, <1>8, <1>9, <1>12, <1>13, <1>15 DEF Faithful

\* A client for which nothing is under way has come to the end of the log.
LEMMA SettledUp ==
  ASSUME IInv, Faithful, Quiet, OnScreen, "late" \notin last
  PROVE  tab.fence # None /\ Reached(tab) = Len(log)
<1>1. tab.fence # None
  BY InvariantSuffices DEF NeverStranded
<1>2. /\ published = Len(log) /\ pushes = <<>> /\ tab.waiting = <<>> /\ online
      /\ Len(log) \in Nat \ {0} /\ tab \in Tabs
  BY DEF Quiet, OnScreen, IInv, Typed
<1>3. ToSet(pushes) = {} /\ Greeted
  BY <1>2 DEF ToSet, Greeted
<1>4. PICK c : c = Client
  OBVIOUS
<1>5. c.tab = tab /\ Sound(c, Details) /\ Details = {}
  BY <1>3, <1>4 DEF Faithful, Details, Client
<1>6. Awaited(c, {}) = {}
  <2>1. c.tab.buffer = <<>>
    BY <1>1, <1>4, <1>5 DEF Sound
  <2>2. QED BY <2>1 DEF Awaited, ToSet
<1>7. Follows(0)
  BY <1>1, <1>3 DEF Faithful, Complete, Synchronized
<1>8. Len(log) <= Newest(tab)
  <2>1. \A n \in 1..published : n <= Newest(tab)
    BY <1>4, <1>5, <1>6, <1>7 DEF Follows, Has
  <2>2. QED BY <1>2, <2>1
<1>9. Newest(tab) <= Len(log)
  <2>1. tab.seen <= published /\ tab.rows <= Len(log)
    BY <1>4, <1>5 DEF Sound, Expects
  <2>2. QED BY <1>2, <2>1, NewestType
<1>10. Newest(tab) = Len(log)
  BY <1>2, <1>8, <1>9, NewestType
<1>11. QED BY <1>1, <1>2, <1>10, EmptyTrails

\* What is proved is that the invariant suffices for what is shown.
LEMMA FaithfulSuffices == IInv /\ Faithful => TextShown /\ ActsShown
<1> SUFFICES ASSUME IInv, Faithful PROVE TextShown /\ ActsShown
  OBVIOUS
<1>1. Client.tab = tab /\ Client.shown = shown /\ last \subseteq ever
  BY DEF Client, Faithful, Displayed
<1>2. TextShown
  <2> SUFFICES ASSUME Quiet, OnScreen, ever \subseteq {"older"}
               PROVE  shown.text = TextOf(Len(log)) /\ shown.ended = Rows(Len(log)).ended
    BY DEF TextShown
  <2>1. Reached(tab) = Len(log)
    BY <1>1, SettledUp
  <2>2. Reads(Client)
    BY DEF Faithful, Displayed, Texts
  <2>3. QED BY <1>1, <2>1, <2>2 DEF Reads, Shows
<1>3. ActsShown
  <2> SUFFICES ASSUME Quiet, OnScreen, last = {}
               PROVE  shown.acts = Rows(Len(log)).acts
    BY DEF ActsShown
  <2>1. tab.fence # None /\ Reached(tab) = Len(log)
    BY SettledUp
  <2>2. Lists(Client)
    BY <2>1 DEF Faithful, Displayed, Activities
  <2>3. QED BY <1>1, <2>1, <2>2, RowsParts DEF Lists, RowsHave
<1>4. QED BY <1>2, <1>3

\* What was shown of the log begins what is shown.
LEMMA StepReads ==
  ASSUME Faithful, Onward \/ UNCHANGED <<shown, ever>>, ever' \subseteq {"older"}
  PROVE  IsPrefix(shown.text, shown'.text) /\ (shown.ended => shown'.ended)
<1>1. PICK s, u : s = shown /\ u = shown'
  OBVIOUS
<1>2. \E m, n \in Nat : m <= n /\ Shows(s, m) /\ Shows(u, n)
  <2>1. CASE Onward
    BY <1>1, <2>1 DEF Onward
  <2>2. CASE UNCHANGED <<shown, ever>>
    <3>1. Reads(Client) /\ Client.shown = s /\ u = s
      BY <1>1, <2>2 DEF Faithful, Displayed, Texts, Client
    <3>2. Reached(Client.tab) \in Nat /\ Shows(s, Reached(Client.tab))
      BY <3>1 DEF Reads, Trails
    <3>3. QED BY <3>1, <3>2
  <2>3. QED BY <2>1, <2>2
<1>3. PICK m, n \in Nat : m <= n /\ Shows(s, m) /\ Shows(u, n)
  BY <1>2
<1>4. /\ s.text = TextOf(m) /\ s.ended = Rows(m).ended
      /\ u.text = TextOf(n) /\ u.ended = Rows(n).ended
  BY <1>3 DEF Shows
<1>5. IsPrefix(TextOf(m), TextOf(n))
  <2>1. TextOf(m) \in Seq(Letters) /\ TextOf(n) \in Seq(Letters)
    BY TextNext
  <2>2. QED BY <1>3, <2>1, TextGrows, BeginsSame
<1>6. Rows(m).ended => Rows(n).ended
  BY <1>3, RowsGrow
<1>7. QED BY <1>1, <1>4, <1>5, <1>6

-----------------------------------------------------------------------------
(* What is shown is the thread                                             *)

LEMMA Inductive == Spec => [](IInv /\ Faithful)
<1>1. Init => IInv /\ Faithful
  BY InitHolds, InitFaithful
<1>2. IInv /\ Faithful /\ [Next]_vars => (IInv /\ Faithful)'
  BY StepKeeps, StepFaithful
<1>3. QED BY <1>1, <1>2, PTL DEF Spec

\* A client that has nothing more to wait for shows the message the server has,
\* whole, once and in order (store.ts's applyOrchestrationEvent and
\* syncServerThreadDetailHotPath), whatever was subscribed twice, hidden or
\* lost, if its snapshots met no events otherwise than by being older.
THEOREM TextIsShown == Spec => []TextShown
  BY Inductive, FaithfulSuffices, PTL

\* ... and the thread's activities, each once, if the last snapshot met none.
THEOREM ActivitiesAreShown == Spec => []ActsShown
  BY Inductive, FaithfulSuffices, PTL

\* What a reader has read of the message stays: no snapshot, however old, takes
\* text back or makes an ended message run again (mergeStreamingMessage and the
\* live message that syncServerThreadDetailHotPath keeps).
THEOREM ReadStays == Spec => NeverTakenBack
<1>1. IInv /\ Faithful /\ [Next]_vars =>
        [ever' \subseteq {"older"} =>
           IsPrefix(shown.text, shown'.text) /\ (shown.ended => shown'.ended)]_vars
  BY StepKeeps, StepFaithful, StepReads
<1>2. QED BY <1>1, Inductive, PTL DEF Spec, NeverTakenBack

=============================================================================
