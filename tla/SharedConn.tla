----------------------------- MODULE SharedConn -----------------------------
(***************************************************************************)
(* internal/baichuan/shared.go: one logged-in connection to a recorder     *)
(* whose previews (channel, stream) are shared by any number of readers.   *)
(* One goroutine, demux, hands every media message to the readers of its   *)
(* preview; Subscribe and unsubscribe run in the readers' goroutines under *)
(* s.mu, and between two of demux's critical sections the set of readers   *)
(* it collected goes stale.                                                *)
(*                                                                         *)
(* The recorder is external: it takes start and stop requests in order,    *)
(* answers a start with an info packet, then a keyframe, then anything.    *)
(* What it sent before it saw a stop is still on the wire afterwards.      *)
(***************************************************************************)
EXTENDS Naturals, FiniteSets, Sequences

CONSTANTS
  Readers,    \* one identity per call of Subscribe
  Keys,       \* previews: (channel, stream)
  Queue,      \* sharedQueue: capacity of a reader's channel
  MaxHandle,  \* bound on the previews started in a behaviour
  MaxSent,    \* bound on the messages the recorder sends per preview
  MaxWire     \* bound on the messages in flight

ASSUME SharedAssumption ==
  /\ IsFiniteSet(Readers) /\ IsFiniteSet(Keys)
  /\ Queue \in Nat \ {0} /\ MaxHandle \in Nat /\ MaxSent \in Nat /\ MaxWire \in Nat

NoHandle == 0
NoReader == "none"

VARIABLES
  closed,     \* Shared.closed
  handle,     \* Shared.handle: the last handle used
  preview,    \* Shared.previews: the handle each key is started under, or NoHandle
  readers,    \* preview.readers
  info,       \* preview.info: the handle whose info packet is kept, or NoHandle
  synced,     \* Sub.synced
  reader,     \* what the reader's own goroutine is doing
  keyOf,      \* Sub.key
  handed,     \* messages put into Sub.msgs, read or not, until it quits (history)
  taken,      \* how many of them the reader has read
  ended,      \* how often Sub.msgs was closed
  demux,      \* what demux is doing
  cur,        \* demux: m
  to,         \* demux: the readers m is still to be handed to
  victim,     \* demux: the reader being dropped
  idling,     \* calls of onIdle under way: readers, and "demux"
  line,       \* is the connection up?
  requests,   \* start and stop requests on their way to the recorder
  serving,    \* recorder: the handles it is sending
  sent,       \* recorder: messages sent so far, by handle
  wire,       \* media messages on their way from the recorder
  bornOf,     \* the handle of the preview the reader subscribed to (history)
  founder     \* was it that preview's first reader? (history)

sharedVars   == <<closed, handle, preview, readers, info, synced>>
readerVars   == <<reader, keyOf, bornOf, founder>>
queueVars    == <<handed, taken, ended>>
demuxVars    == <<demux, cur, to, victim>>
recorderVars == <<serving, sent>>
vars == <<sharedVars, readerVars, queueVars, demuxVars, recorderVars, idling,
          line, requests, wire>>

Handles == 1..MaxHandle
Message == [key : Keys, handle : Handles, n : Nat, kind : {"info", "key", "delta"}]
NoMessage == [key |-> NoReader, handle |-> NoHandle, n |-> 0, kind |-> "none"]

Init ==
  /\ closed = "open" /\ handle = NoHandle
  /\ preview = [k \in Keys |-> NoHandle]
  /\ readers = [k \in Keys |-> {}]
  /\ info = [k \in Keys |-> NoHandle]
  /\ synced = {}
  /\ reader = [r \in Readers |-> "absent"]
  /\ keyOf \in [Readers -> Keys]
  /\ bornOf = [r \in Readers |-> NoHandle]
  /\ founder = {}
  /\ handed = [r \in Readers |-> <<>>]
  /\ taken = [r \in Readers |-> 0]
  /\ ended = [r \in Readers |-> 0]
  /\ demux = "ranging" /\ cur = NoMessage /\ to = {} /\ victim = NoReader
  /\ idling = {}
  /\ line = "up" /\ requests = <<>> /\ wire = <<>>
  /\ serving = {}
  /\ sent = [h \in Handles |-> 0]

-----------------------------------------------------------------------------
(* Readers *)

Request(op, k, h) == [op |-> op, key |-> k, handle |-> h]
InfoOf(k) == [key |-> k, handle |-> info[k], n |-> 1, kind |-> "info"]

\* Mutant: take readers on after the connection has ended.
AcceptingAlways == TRUE
Accepting == closed = "open"

NextHandle == handle + 1

\* Subscribe, all of it under s.mu.  A start written to a connection that has
\* broken unnoticed goes nowhere.
Subscribe(r) ==
  LET k == keyOf[r]
  IN /\ reader[r] = "absent"
     /\ Accepting
     /\ reader' = [reader EXCEPT ![r] = "reading"]
     /\ readers' = [readers EXCEPT ![k] = @ \union {r}]
     /\ \/ /\ preview[k] = NoHandle
           /\ handle < MaxHandle
           /\ handle' = NextHandle
           /\ preview' = [preview EXCEPT ![k] = handle']
           /\ requests' = IF line = "up"
                           THEN Append(requests, Request("start", k, handle'))
                           ELSE requests
           /\ synced' = synced \union {r}
           /\ founder' = founder \union {r}
           /\ UNCHANGED handed
        \/ /\ preview[k] # NoHandle
           /\ handed' = IF info[k] = NoHandle THEN handed
                        ELSE [handed EXCEPT ![r] = Append(@, InfoOf(k))]
           /\ UNCHANGED <<handle, preview, requests, synced, founder>>
     /\ bornOf' = [bornOf EXCEPT ![r] = preview'[k]]
     /\ UNCHANGED <<closed, info, keyOf, taken, ended, demuxVars, recorderVars,
                    idling, line, wire>>

\* The connection has ended (ErrSharedClosed), or the start cannot be written.
SubscribeFails(r) ==
  /\ reader[r] = "absent"
  /\ \/ closed = "closed"
     \/ preview[keyOf[r]] = NoHandle /\ line = "down"
  /\ reader' = [reader EXCEPT ![r] = "gone"]
  /\ UNCHANGED <<sharedVars, keyOf, bornOf, founder, queueVars, demuxVars,
                 recorderVars, idling, line, requests, wire>>

Take(r) ==
  /\ reader[r] = "reading"
  /\ taken[r] < Len(handed[r])
  /\ taken' = [taken EXCEPT ![r] = @ + 1]
  /\ UNCHANGED <<sharedVars, readerVars, handed, ended, demuxVars, recorderVars,
                 idling, line, requests, wire>>

\* Sub.Close: first quit, so that a delivery waiting for r gives up ...  What
\* is in its channel then, or put there later, nobody reads: it is forgotten.
Quit(r) ==
  /\ reader[r] = "reading"
  /\ reader' = [reader EXCEPT ![r] = "quit"]
  /\ handed' = [handed EXCEPT ![r] = <<>>]
  /\ taken' = [taken EXCEPT ![r] = 0]
  /\ UNCHANGED <<sharedVars, keyOf, bornOf, founder, ended, demuxVars,
                 recorderVars, idling, line, requests, wire>>

\* Mutant: forget the preview without stopping it.
RemoveUnstopped(r, caller) ==
  LET k == keyOf[r]
      last == readers[k] = {r}
  IN /\ readers' = [readers EXCEPT ![k] = @ \ {r}]
     /\ preview' = IF last THEN [preview EXCEPT ![k] = NoHandle] ELSE preview
     /\ info' = IF last THEN [info EXCEPT ![k] = NoHandle] ELSE info
     /\ idling' = IF closed = "open" /\ \A j \in Keys : preview'[j] = NoHandle
                  THEN idling \union {caller} ELSE idling
     /\ UNCHANGED requests

\* The last reader of a preview stops it; the last preview's end is told to
\* onIdle after the lock is released.
Remove(r, caller) ==
  LET k == keyOf[r]
      last == readers[k] = {r}
  IN /\ readers' = [readers EXCEPT ![k] = @ \ {r}]
     /\ preview' = IF last THEN [preview EXCEPT ![k] = NoHandle] ELSE preview
     /\ info' = IF last THEN [info EXCEPT ![k] = NoHandle] ELSE info
     /\ requests' = IF last /\ closed = "open" /\ line = "up"
                    THEN Append(requests, Request("stop", k, preview[k]))
                    ELSE requests
     /\ idling' = IF closed = "open" /\ \A j \in Keys : preview'[j] = NoHandle
                  THEN idling \union {caller} ELSE idling

\* ... then unsubscribe.
Unsubscribe(r) ==
  /\ reader[r] = "quit"
  /\ reader' = [reader EXCEPT ![r] = "gone"]
  /\ IF r \in readers[keyOf[r]]
       THEN Remove(r, r)
       ELSE UNCHANGED <<readers, preview, info, requests, idling>>
  /\ UNCHANGED <<closed, handle, synced, keyOf, bornOf, founder, queueVars,
                 demuxVars, recorderVars, line, wire>>

\* onIdle, which is Pool.idle, and closeIfIdle.  Close of the connection
\* takes the line down.
CloseIfIdle(caller) ==
  /\ caller \in idling
  /\ idling' = idling \ {caller}
  /\ IF closed = "open" /\ \A k \in Keys : preview[k] = NoHandle
       THEN closed' = "closed" /\ line' = "down"
       ELSE UNCHANGED <<closed, line>>
  /\ UNCHANGED <<handle, preview, readers, info, synced, readerVars, queueVars,
                 demuxVars, recorderVars, requests, wire>>

-----------------------------------------------------------------------------
(* demux *)

\* Mutant: no waiting for a keyframe.
StartsAnywhere(m) == TRUE

\* May m go to a reader that has not seen a keyframe?
Starts(m) == m.kind \in {"info", "key"}

\* A message off the connection: keep an info packet, note who has synced,
\* collect the readers.  Messages of a preview nobody reads are dropped.
Route ==
  /\ demux = "ranging" /\ "demux" \notin idling
  /\ wire # <<>>
  /\ wire' = Tail(wire)
  /\ LET m == Head(wire)
         all == IF preview[m.key] = NoHandle THEN {} ELSE readers[m.key]
     IN /\ cur' = m
        /\ to' = {r \in all : r \in synced \/ Starts(m)}
        /\ synced' = IF m.kind = "key" THEN synced \union all ELSE synced
        /\ info' = IF m.kind = "info" /\ preview[m.key] # NoHandle
                   THEN [info EXCEPT ![m.key] = m.handle] ELSE info
  /\ demux' = "handing"
  /\ UNCHANGED <<closed, handle, preview, readers, readerVars, queueVars, victim,
                 recorderVars, idling, line, requests>>

Full(r) == Len(handed[r]) - taken[r] >= Queue

\* deliver: into the channel if there is room, and for a reader that has quit
\* meanwhile there or nowhere.
Deliver(r) ==
  /\ demux = "handing"
  /\ r \in to
  /\ to' = to \ {r}
  /\ \/ /\ reader[r] = "reading" /\ ~Full(r)
        /\ handed' = [handed EXCEPT ![r] = Append(@, cur)]
     \/ /\ reader[r] \in {"quit", "gone"}
        /\ UNCHANGED handed
  /\ UNCHANGED <<sharedVars, readerVars, taken, ended, demux, cur, victim,
                 recorderVars, idling, line, requests, wire>>

EndReader(r) == ended' = [ended EXCEPT ![r] = @ + 1]

\* Mutant: no stall timeout.
StallNever(r) == FALSE

\* stallTimeout is over and r's channel is still full: drop, which ends r ...
Stall(r) ==
  /\ demux = "handing"
  /\ r \in to
  /\ Full(r) /\ reader[r] = "reading"
  /\ to' = to \ {r}
  /\ EndReader(r)
  /\ victim' = r
  /\ demux' = "dropping"
  /\ UNCHANGED <<sharedVars, readerVars, handed, taken, cur, recorderVars, idling,
                 line, requests, wire>>

\* ... and unsubscribes it, unless it has done so itself.
DropVictim ==
  /\ demux = "dropping"
  /\ IF victim \in readers[keyOf[victim]]
       THEN Remove(victim, "demux")
       ELSE UNCHANGED <<readers, preview, info, requests, idling>>
  /\ demux' = "handing" /\ victim' = NoReader
  /\ UNCHANGED <<closed, handle, synced, readerVars, queueVars, cur, to,
                 recorderVars, line, wire>>

HandedAll ==
  /\ demux = "handing" /\ to = {} /\ "demux" \notin idling
  /\ demux' = "ranging" /\ cur' = NoMessage
  /\ UNCHANGED <<sharedVars, readerVars, queueVars, to, victim, recorderVars,
                 idling, line, requests, wire>>

\* The connection's messages are at an end: refuse new readers, collect the
\* old ones ...
ConnectionOver ==
  /\ demux = "ranging"
  /\ line = "down" /\ wire = <<>>
  /\ closed' = "closed"
  /\ to' = UNION {readers[k] : k \in Keys}
  /\ readers' = [k \in Keys |-> {}]
  /\ preview' = [k \in Keys |-> NoHandle]
  /\ info' = [k \in Keys |-> NoHandle]
  /\ demux' = "ending"
  /\ UNCHANGED <<handle, synced, readerVars, queueVars, cur, victim, recorderVars,
                 idling, line, requests, wire>>

\* ... and end each of them.
EndOne(r) ==
  /\ demux = "ending"
  /\ r \in to
  /\ to' = to \ {r}
  /\ EndReader(r)
  /\ UNCHANGED <<sharedVars, readerVars, handed, taken, demux, cur, victim,
                 recorderVars, idling, line, requests, wire>>

-----------------------------------------------------------------------------
(* The recorder and the connection to it: external *)

TakeRequest ==
  /\ line = "up" /\ requests # <<>>
  /\ requests' = Tail(requests)
  /\ LET q == Head(requests)
         item == [key |-> q.key, handle |-> q.handle]
     IN serving' = IF q.op = "start" THEN serving \union {item} ELSE serving \ {item}
  /\ UNCHANGED <<sharedVars, readerVars, queueVars, demuxVars, sent, idling, line, wire>>

Kinds(n) == IF n = 1 THEN {"info"} ELSE IF n = 2 THEN {"key"} ELSE {"key", "delta"}

SendMedia(item) ==
  /\ line = "up" /\ item \in serving
  /\ sent[item.handle] < MaxSent /\ Len(wire) < MaxWire
  /\ sent' = [sent EXCEPT ![item.handle] = @ + 1]
  /\ \E kind \in Kinds(sent'[item.handle]) :
       wire' = Append(wire, [key |-> item.key, handle |-> item.handle,
                             n |-> sent'[item.handle], kind |-> kind])
  /\ UNCHANGED <<sharedVars, readerVars, queueVars, demuxVars, serving, idling,
                 line, requests>>

\* The connection breaks, and with it some of what was on its way.
LineFails ==
  /\ line = "up"
  /\ line' = "down"
  /\ \E n \in 0..Len(wire) : wire' = SubSeq(wire, 1, n)
  /\ UNCHANGED <<sharedVars, readerVars, queueVars, demuxVars, recorderVars, idling,
                 requests>>

-----------------------------------------------------------------------------
ReaderStep(r) ==
  Subscribe(r) \/ SubscribeFails(r) \/ Take(r) \/ Quit(r) \/ Unsubscribe(r)

DemuxStep ==
  \/ Route \/ DropVictim \/ HandedAll \/ ConnectionOver
  \/ \E r \in Readers : Deliver(r) \/ Stall(r) \/ EndOne(r)

Next ==
  \/ \E r \in Readers : ReaderStep(r)
  \/ \E c \in Readers \union {"demux"} : CloseIfIdle(c)
  \/ DemuxStep
  \/ TakeRequest
  \/ \E k \in Keys, h \in Handles : SendMedia([key |-> k, handle |-> h])
  \/ LineFails

Spec == Init /\ [][Next]_vars

\* demux runs, its stall timer fires, and a Close or onIdle that was begun
\* goes on.  Neither readers nor the recorder owe anything.
Fairness ==
  /\ WF_vars(DemuxStep)
  /\ \A r \in Readers : WF_vars(Unsubscribe(r))
  /\ \A c \in Readers \union {"demux"} : WF_vars(CloseIfIdle(c))

FairSpec == Spec /\ Fairness
-----------------------------------------------------------------------------
TypeOK ==
  /\ closed \in {"open", "closed"} /\ line \in {"up", "down"}
  /\ handle \in 0..MaxHandle
  /\ preview \in [Keys -> 0..MaxHandle] /\ info \in [Keys -> 0..MaxHandle]
  /\ readers \in [Keys -> SUBSET Readers]
  /\ synced \subseteq Readers /\ founder \subseteq Readers
  /\ reader \in [Readers -> {"absent", "reading", "quit", "gone"}]
  /\ keyOf \in [Readers -> Keys]
  /\ bornOf \in [Readers -> 0..MaxHandle]
  /\ taken \in [Readers -> Nat] /\ ended \in [Readers -> Nat]
  /\ demux \in {"ranging", "handing", "dropping", "ending"}
  /\ to \subseteq Readers /\ victim \in Readers \union {NoReader}
  /\ cur \in Message \union {NoMessage}
  /\ idling \subseteq Readers \union {"demux"}
  /\ serving \subseteq [key : Keys, handle : Handles]

\* A reader's channel is closed at most once, whether it stalls, the
\* connection ends or both (end is called by demux alone), and nothing is
\* sent after: the reader demux still has to serve is not an ended one.
EndedOnce ==
  /\ \A r \in Readers : ended[r] <= 1
  /\ demux = "handing" => \A r \in to : ended[r] = 0

\* A preview is started when its first reader comes, stopped when its last
\* one goes: the recorder is never left sending what nobody reads, nor asked
\* twice.  Replaying the requests on their way gives exactly the previews.
Outcome ==
  LET start == {i \in 1..Len(requests) : requests[i].op = "start"}
      stop  == {i \in 1..Len(requests) : requests[i].op = "stop"}
      item(i) == [key |-> requests[i].key, handle |-> requests[i].handle]
  IN (serving \union {item(i) : i \in start}) \ {item(i) : i \in stop}

AskedOnce ==
  (line = "up" /\ closed = "open") =>
    Outcome = {[key |-> k, handle |-> preview[k]] :
                 k \in {j \in Keys : preview[j] # NoHandle}}

\* Channels and requests are each begun and ended once, in order (subscribe,
\* unsubscribe, drop and end, however they interleave).
Orderly == TypeOK /\ EndedOnce /\ AskedOnce

Own(s, h) == {i \in 1..Len(s) : s[i].handle = h}
Pictures(s) == {i \in 1..Len(s) : s[i].kind # "info"}

KeyframeFirst(s, pictures) ==
  \A i \in pictures : s[i].kind = "key" \/ \E j \in pictures : j < i /\ s[j].kind = "key"

\* Of the preview h, s has the picture size before any picture, a keyframe
\* first, and then every message.
Whole(s, h) ==
  LET own == Own(s, h)
      pictures == own \intersect Pictures(s)
  IN /\ \A i \in pictures : \E j \in own : j < i /\ s[j].kind = "info"
     /\ KeyframeFirst(s, pictures)
     /\ \A i \in pictures : \A j \in pictures : i < j => s[i].n < s[j].n
     /\ \A j \in pictures : \/ \A i \in pictures : j <= i
                           \/ \E i \in pictures : s[j].n = s[i].n + 1

\* So it is with what a reader sees of its own preview ...
OwnStreamWhole == \A r \in Readers : Whole(handed[r], bornOf[r])

\* ... before which it may be handed what the recorder still sent of the one
\* before, but never among it.
OwnLast(s, h) ==
  \A i, j \in 1..Len(s) : i < j /\ s[i].handle = h => s[j].handle = h
TailFirst == \A r \in Readers : OwnLast(handed[r], bornOf[r])

\* "A reader that joined partway through a picture waits for the next
\* keyframe": the first picture of every reader is one, but for the first
\* reader of a preview started again that is handed such a tail.
HandedOldTail(r) ==
  r \in founder /\ \E i \in 1..Len(handed[r]) : handed[r][i].handle # bornOf[r]
StartsAtKeyframe ==
  \A r \in Readers : KeyframeFirst(handed[r], Pictures(handed[r])) \/ HandedOldTail(r)

\* Not so of that reader, which "sees the preview from its first message"
\* only after that.
FirstReaderServed ==
  \A r \in founder : KeyframeFirst(handed[r], Pictures(handed[r]))

\* What a reader is handed can be decoded from its first picture on, whether
\* it came first or joined, except for the tail of the preview before, which
\* demux may hand to a first reader in mid-GOP; and from the first message of
\* its own preview on it can in any case.
ReaderServed == OwnStreamWhole /\ TailFirst /\ StartsAtKeyframe

\* A message is done with however long its readers stay away: a reader that
\* stopped reading does not stall the other streams (stallTimeout).
DemuxGoesOn == demux = "handing" ~> demux # "handing"

\* When the connection ends every reader that has not closed is told.
AllTold ==
  \A r \in Readers :
    (line = "down" /\ reader[r] = "reading") ~> (ended[r] = 1 \/ reader[r] # "reading")
=============================================================================
