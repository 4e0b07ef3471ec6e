--------------------------------- MODULE Hub ---------------------------------
(***************************************************************************)
(* internal/hub: one camera goroutine publishes MPEG-TS chunks, any number *)
(* of HTTP handlers (internal/server) subscribe.  A subscriber that cannot *)
(* keep up is disconnected; the publisher never waits for one.             *)
(*                                                                         *)
(* Steps are the critical sections of the code.  h.mu guards subs, dropped *)
(* and the hub's closed flag; s.mu guards one subscriber's closed and      *)
(* synced flags, the send on its channel and the close of it.  Between the *)
(* two locks the publisher, a cancelling client and the goroutine calling  *)
(* Kick or Close hold snapshots that the others make stale.                *)
(***************************************************************************)
EXTENDS Naturals, FiniteSets, Sequences

CONSTANTS
  Subscribers,  \* one identity per call of Subscribe
  Buffer,       \* capacity of a subscriber's channel
  MaxChunks     \* bound on the chunks published in a behaviour

ASSUME HubAssumption ==
  /\ IsFiniteSet(Subscribers)
  /\ Buffer \in Nat \ {0}
  /\ MaxChunks \in Nat

VARIABLES
  hub,        \* Hub.closed
  subs,       \* Hub.subs
  dropped,    \* Hub.dropped
  client,     \* what the goroutine that called Subscribe is doing
  closed,     \* subscriber.closed
  closes,     \* how often close(s.ch) was executed: a second one panics
  synced,     \* subscriber.synced
  ch,         \* chunks buffered in subscriber.ch
  got,        \* chunks the client has read (history)
  log,        \* log[n]: does chunk n start a keyframe (history)
  publisher,  \* is a call of PublishKey in progress?
  todo,       \* PublishKey: subs, the snapshot, less those already visited
  dead,       \* PublishKey: dead
  ending,     \* Kick and Close: snapshot entries not yet closed
  stalled,    \* subscribers PublishKey found full (history)
  kicked      \* subscribers Kick or Close took out of subs (history)

hubVars  == <<hub, subs, dropped>>
subVars  == <<closed, closes, synced, ch>>
pubVars  == <<log, publisher, todo, dead, stalled>>
endVars  == <<ending, kicked>>
vars == <<hubVars, subVars, pubVars, endVars, client, got>>

Init ==
  /\ hub = "open"
  /\ subs = {}
  /\ dropped = 0
  /\ client = [s \in Subscribers |-> "absent"]
  /\ closed = [s \in Subscribers |-> FALSE]
  /\ closes = [s \in Subscribers |-> 0]
  /\ synced = [s \in Subscribers |-> FALSE]
  /\ ch = [s \in Subscribers |-> <<>>]
  /\ got = [s \in Subscribers |-> <<>>]
  /\ log = <<>>
  /\ publisher = "idle"
  /\ todo = {}
  /\ dead = {}
  /\ ending = {}
  /\ stalled = {}
  /\ kicked = {}

-----------------------------------------------------------------------------
(* Clients *)

\* Mutant: close without looking at the closed flag.
CloseAlways(s) ==
  /\ closed' = [closed EXCEPT ![s] = TRUE]
  /\ closes' = [closes EXCEPT ![s] = @ + 1]

\* closeOnce: under s.mu, only the first caller closes the channel.
CloseOnce(s) ==
  /\ closed' = [closed EXCEPT ![s] = TRUE]
  /\ closes' = [closes EXCEPT ![s] = IF closed[s] THEN @ ELSE @ + 1]

\* Mutant: register with a hub that is closed.
SubscribeUnchecked(s) ==
  /\ client[s] = "absent"
  /\ client' = [client EXCEPT ![s] = "reading"]
  /\ subs' = subs \union {s}
  /\ UNCHANGED <<hub, dropped, subVars, pubVars, endVars, got>>

\* A closed hub hands back a closed channel and a cancel that does nothing.
Subscribe(s) ==
  /\ client[s] = "absent"
  /\ client' = [client EXCEPT ![s] = "reading"]
  /\ IF hub = "closed"
       THEN /\ CloseOnce(s)
            /\ UNCHANGED subs
       ELSE /\ subs' = subs \union {s}
            /\ UNCHANGED <<closed, closes>>
  /\ UNCHANGED <<hub, dropped, synced, ch, pubVars, endVars, got>>

\* serveStream's receive.  A closed channel still yields what it holds.
Receive(s) ==
  /\ client[s] = "reading"
  /\ ch[s] # <<>>
  /\ got' = [got EXCEPT ![s] = Append(@, Head(ch[s]))]
  /\ ch' = [ch EXCEPT ![s] = Tail(@)]
  /\ UNCHANGED <<hubVars, closed, closes, synced, pubVars, endVars, client>>

\* The handler returns (its request is over, a write failed, or the channel
\* closed) and its deferred cancel closes the channel.
Cancel(s) ==
  /\ client[s] = "reading"
  /\ CloseOnce(s)
  /\ client' = [client EXCEPT ![s] = IF closed[s] THEN "gone" ELSE "cancelling"]
  /\ UNCHANGED <<hubVars, synced, ch, pubVars, endVars, got>>

\* The second half of cancel, under h.mu.
Unregister(s) ==
  /\ client[s] = "cancelling"
  /\ subs' = subs \ {s}
  /\ client' = [client EXCEPT ![s] = "gone"]
  /\ UNCHANGED <<hub, dropped, subVars, pubVars, endVars, got>>

-----------------------------------------------------------------------------
(* The publisher: PublishKey, in the camera's read goroutine *)

\* Snapshot under h.mu.
BeginPublish(startsKeyframe) ==
  /\ publisher = "idle"
  /\ hub = "open"
  /\ Len(log) < MaxChunks
  /\ log' = Append(log, startsKeyframe)
  /\ publisher' = "sending"
  /\ todo' = subs
  /\ UNCHANGED <<hubVars, subVars, dead, stalled, endVars, client, got>>

\* Is there anything legal to hand s from chunk Len(log)?
Legal(s) == synced[s] \/ log[Len(log)]

\* The send loop comes to s, and takes s.mu.
Visit(s) ==
  /\ publisher = "sending"
  /\ s \in todo
  /\ todo' = todo \ {s}
  /\ UNCHANGED <<hubVars, log, publisher, endVars, client, got>>

Skip(s) ==
  /\ Visit(s)
  /\ closed[s] \/ ~Legal(s)
  /\ UNCHANGED <<subVars, dead, stalled>>

Send(s) ==
  /\ Visit(s)
  /\ ~closed[s] /\ Legal(s)
  /\ Len(ch[s]) < Buffer
  /\ synced' = [synced EXCEPT ![s] = TRUE]
  /\ ch' = [ch EXCEPT ![s] = Append(@, Len(log))]
  /\ UNCHANGED <<closed, closes, dead, stalled>>

\* Mutant: a full subscriber loses the chunk and stays.
DropChunk(s) ==
  /\ Visit(s)
  /\ ~closed[s] /\ Legal(s)
  /\ Len(ch[s]) = Buffer
  /\ UNCHANGED <<subVars, dead, stalled>>

\* The buffer is full: the same close as closeOnce, inlined.
Drop(s) ==
  /\ Visit(s)
  /\ ~closed[s] /\ Legal(s)
  /\ Len(ch[s]) = Buffer
  /\ synced' = [synced EXCEPT ![s] = TRUE]
  /\ CloseOnce(s)
  /\ dead' = dead \union {s}
  /\ stalled' = stalled \union {s}
  /\ UNCHANGED ch

\* Mutant: close the dead but leave them registered.
FinishKeeps ==
  /\ publisher = "sending"
  /\ todo = {}
  /\ dropped' = dropped + Cardinality(dead \intersect subs)
  /\ dead' = {}
  /\ publisher' = "idle"
  /\ UNCHANGED <<hub, subs, subVars, log, todo, stalled, endVars, client, got>>

\* Forget the dead under h.mu, counting those nobody else removed meanwhile.
FinishPublish ==
  /\ publisher = "sending"
  /\ todo = {}
  /\ dropped' = dropped + Cardinality(dead \intersect subs)
  /\ subs' = subs \ dead
  /\ dead' = {}
  /\ publisher' = "idle"
  /\ UNCHANGED <<hub, subVars, log, todo, stalled, endVars, client, got>>

-----------------------------------------------------------------------------
(* Kick and Close, in the supervisor's goroutine *)

TakeAll ==
  /\ ending' = ending \union subs
  /\ kicked' = kicked \union subs
  /\ subs' = {}

Kick ==
  /\ TakeAll
  /\ UNCHANGED <<hub, dropped, subVars, pubVars, client, got>>

Close ==
  /\ hub = "open"
  /\ hub' = "closed"
  /\ TakeAll
  /\ UNCHANGED <<dropped, subVars, pubVars, client, got>>

\* The loop of closeOnce over the snapshot.
EndOne(s) ==
  /\ s \in ending
  /\ CloseOnce(s)
  /\ ending' = ending \ {s}
  /\ UNCHANGED <<hubVars, synced, ch, pubVars, kicked, client, got>>

-----------------------------------------------------------------------------
ClientStep(s) == Subscribe(s) \/ Receive(s) \/ Cancel(s) \/ Unregister(s)
Deliver(s) == Skip(s) \/ Send(s) \/ Drop(s)
PublishStep == (\E s \in Subscribers : Deliver(s)) \/ FinishPublish

Next ==
  \/ \E s \in Subscribers : ClientStep(s) \/ EndOne(s)
  \/ \E key \in BOOLEAN : BeginPublish(key)
  \/ PublishStep
  \/ Kick
  \/ Close

Spec == Init /\ [][Next]_vars

\* What the goroutines guarantee: a call that was begun goes on.  No client
\* ever has to read, and none has to hang up.
Fairness ==
  /\ WF_vars(PublishStep)
  /\ \A s \in Subscribers : WF_vars(EndOne(s)) /\ WF_vars(Unregister(s))

FairSpec == Spec /\ Fairness
-----------------------------------------------------------------------------
TypeOK ==
  /\ hub \in {"open", "closed"}
  /\ subs \subseteq Subscribers
  /\ dropped \in Nat
  /\ client \in [Subscribers -> {"absent", "reading", "cancelling", "gone"}]
  /\ closed \in [Subscribers -> BOOLEAN]
  /\ closes \in [Subscribers -> Nat]
  /\ synced \in [Subscribers -> BOOLEAN]
  /\ ch \in [Subscribers -> Seq(Nat)]
  /\ got \in [Subscribers -> Seq(Nat)]
  /\ log \in Seq(BOOLEAN)
  /\ publisher \in {"idle", "sending"}
  /\ todo \subseteq Subscribers
  /\ dead \subseteq Subscribers
  /\ ending \subseteq Subscribers
  /\ stalled \subseteq Subscribers
  /\ kicked \subseteq Subscribers

\* Whoever closes a subscriber's channel (a cancel, a drop, Kick, Close) is
\* the only one: the second close of a Go channel panics (closeOnce).
ClosedOnce == \A s \in Subscribers : closes[s] = IF closed[s] THEN 1 ELSE 0

\* What was put into s's channel, read or not.
Handed(s) == got[s] \o ch[s]

\* A subscriber joins at a keyframe of its own, however many joined before it
\* and wherever in the group of pictures it came (subscriber.synced).
KeyframeFirst ==
  \A s \in Subscribers : Handed(s) # <<>> => log[Handed(s)[1]]

\* From there on it misses nothing: a full buffer ends the subscription, it
\* never skips a chunk (PublishKey's default branch).
NoGap ==
  \A s \in Subscribers : \A i \in 1..(Len(Handed(s)) - 1) :
    Handed(s)[i + 1] = Handed(s)[i] + 1

\* What a subscriber is handed can be decoded: a stream from a keyframe on,
\* without a hole.
StreamWhole == KeyframeFirst /\ NoGap

\* A closed subscriber is still registered only while the call that closed
\* it has yet to remove it: nothing ended stays in subs (Clients would count
\* it forever, and a battery camera would be kept awake for it).
NoLeak ==
  \A s \in subs : closed[s] => s \in dead \/ client[s] = "cancelling"

\* Dropped counts every subscriber that fell behind once, except one Kick or
\* Close took out of subs before the publisher came to count it.
DroppedExact == dropped = Cardinality(stalled \ (kicked \union subs))

\* After its close nothing enters a subscriber's channel.
Sealed ==
  \A s \in Subscribers :
    closed[s] => closed'[s] /\ Len(Handed(s)') = Len(Handed(s))

\* The two panics a Go channel has in store, a second close and a send after
\* the close, never happen (closeOnce, subscriber.mu).
NeverPanics == [][ClosedOnce' /\ Sealed]_vars

\* Closing the hub ends every subscriber, those racing with it included.
CloseEndsAll ==
  \A s \in Subscribers : (hub = "closed" /\ client[s] = "reading") ~> closed[s]
=============================================================================
