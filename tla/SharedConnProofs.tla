--------------------------- MODULE SharedConnProofs ---------------------------
(***************************************************************************)
(* Theorems about SharedConn, for any readers, previews and queues.        *)
(*                                                                         *)
(* Orderly: handles only grow, so a stop in the queue of requests is never *)
(* before its start (Queued), and replaying the queue gives the previews;  *)
(* a reader in a set of readers has not been ended (Ends).                 *)
(*                                                                         *)
(* ReaderServed: what a reader will have been handed once demux is done    *)
(* with the message at hand is Stream(r).  A preview whose info packet is  *)
(* not kept has not had a message routed (Fresh), the messages of a        *)
(* preview that was stopped come before those of the next one (OnWire),    *)
(* and so a reader that has synced has every message since (Synced).       *)
(***************************************************************************)
EXTENDS SharedConn, SequenceTheorems, TLAPS

Requests == [op : {"start", "stop"}, key : Keys, handle : Handles]

\* The types TypeOK does not give.
Sequenced ==
  /\ requests \in Seq(Requests)
  /\ wire \in Seq(Message)
  /\ handed \in [Readers -> Seq(Message)]
  /\ sent \in [Handles -> Nat]
  /\ demux \in {"handing", "dropping"} => cur \in Message

\* A preview lives while it has readers, and a reader that has not come yet,
\* or has left, is nowhere.
Attached ==
  /\ closed = "closed" => line = "down"
  /\ \A k \in Keys : readers[k] # {} <=> preview[k] # NoHandle
  /\ \A r \in Readers : reader[r] = "absent" =>
       r \notin to /\ r \notin synced /\ r \notin founder /\ ended[r] = 0
  /\ \A r \in Readers : reader[r] # "reading" => handed[r] = <<>>

Types == TypeOK /\ Sequenced /\ Attached

\* Who is in a set of readers, and who has been ended.
Ends ==
  /\ \A r \in Readers : ended[r] <= 1
  /\ \A r \in to : ended[r] = 0
  /\ demux = "ranging" => to = {}
  /\ demux = "dropping" => victim \in Readers
  /\ demux = "ending" => closed = "closed" /\ \A k \in Keys : readers[k] = {}
  /\ \A k \in Keys : \A r \in readers[k] :
       /\ keyOf[r] = k /\ reader[r] \in {"reading", "quit"}
       /\ ended[r] = 0 \/ (demux = "dropping" /\ victim = r)

Asked == 1..Len(requests)
Wired == 1..Len(wire)
IsStart(i) == requests[i].op = "start"
Asks(i) == [key |-> requests[i].key, handle |-> requests[i].handle]

\* Every start has a handle greater than all before it.
Queued ==
  /\ \A j \in Asked : requests[j].handle <= handle
  /\ \A k \in Keys : preview[k] <= handle
  /\ \A s \in serving : s.handle <= handle
  /\ \A j \in Asked : IsStart(j) =>
       /\ \A i \in Asked : i < j => requests[i].handle < requests[j].handle
       /\ \A s \in serving : s.handle < requests[j].handle

\* The recorder is never asked for a preview of a key it still has one of.
Alternating ==
  line = "up" =>
    /\ \A s \in serving : \A t \in serving : s.key = t.key => s = t
    /\ \A j \in Asked : IsStart(j) =>
         /\ \A i \in Asked : i < j /\ IsStart(i) /\ requests[i].key = requests[j].key =>
              \E l \in Asked : i < l /\ l < j /\ requests[l].op = "stop" /\ Asks(l) = Asks(i)
         /\ \A s \in serving : s.key = requests[j].key =>
              \E l \in Asked : l < j /\ requests[l].op = "stop" /\ Asks(l) = s

\* A preview has one key.
OneKeyEach ==
  \A k \in Keys : preview[k] # NoHandle =>
    /\ \A i \in Wired : wire[i].handle = preview[k] => wire[i].key = k
    /\ \A s \in serving : s.handle = preview[k] => s.key = k
    /\ \A j \in Asked : IsStart(j) /\ requests[j].handle = preview[k] => requests[j].key = k

\* What is on its way has been sent, and nothing of a preview has before the
\* recorder has seen its start.
Sending ==
  /\ \A h \in Handles : h > handle => sent[h] = 0
  /\ \A j \in Asked : IsStart(j) => sent[requests[j].handle] = 0
  /\ \A i \in Wired : wire[i].n <= sent[wire[i].handle]
  /\ \A k \in Keys : info[k] # NoHandle => sent[info[k]] >= 1

IsKind(m) ==
  /\ m.n >= 1
  /\ m.kind = "info" <=> m.n = 1
  /\ m.n = 2 => m.kind = "key"

\* So has what demux holds and what it has handed out.
WasSent(m, s) == m.n <= s[m.handle] /\ IsKind(m)
Received ==
  /\ demux \in {"handing", "dropping"} => WasSent(cur, sent)
  /\ \A r \in Readers : \A i \in 1..Len(handed[r]) : WasSent(handed[r][i], sent)

\* A message of one preview comes before those of a later preview of its key.
InOrder(a, b) ==
  /\ a.key = b.key => a.handle <= b.handle
  /\ a.handle = b.handle => a.n < b.n

\* The message n of the preview h is on the wire, before position i.
Before(h, n, i) == \E j \in Wired : j < i /\ wire[j].handle = h /\ wire[j].n = n
End == Len(wire) + 1

\* What is on the wire of a preview has no gap and goes up to what was sent.
OnWire ==
  /\ \A i \in Wired : IsKind(wire[i])
  /\ \A i \in Wired : \A j \in Wired : i < j => InOrder(wire[i], wire[j])
  /\ \A i \in Wired : \A j \in Wired : i < j /\ wire[i].handle = wire[j].handle =>
       Before(wire[j].handle, wire[j].n - 1, j)
  /\ line = "up" => \A i \in Wired : Before(wire[i].handle, sent[wire[i].handle], End)

\* The preview a message is of was started before those that came later.
Placed ==
  /\ \A i \in Wired : \A j \in Asked : IsStart(j) => wire[i].handle < requests[j].handle
  /\ \A i \in Wired : preview[wire[i].key] # NoHandle => wire[i].handle <= preview[wire[i].key]
  /\ line = "up" =>
       \A i \in Wired : \A s \in serving : wire[i].key = s.key => wire[i].handle <= s.handle

\* Nothing of a preview whose info packet is not kept has been routed, and
\* that of one it is kept of has.
Fresh ==
  \A k \in Keys :
    /\ info[k] # NoHandle => \A i \in Wired : wire[i].handle = info[k] => wire[i].n > 1
    /\ preview[k] # NoHandle /\ info[k] # preview[k] =>
         /\ \A i \in Wired : wire[i].handle = preview[k] =>
              /\ wire[i].n > 1 => Before(preview[k], 1, i)
              /\ wire[i].n > 2 => Before(preview[k], 2, i)
         /\ line = "up" =>
              /\ sent[preview[k]] >= 1 => Before(preview[k], 1, End)
              /\ sent[preview[k]] >= 2 => Before(preview[k], 2, End)
    /\ preview[k] # NoHandle =>
         \A i \in Wired : wire[i].key = k /\ wire[i].handle # preview[k] => info[k] # preview[k]

Pending(r) == demux \in {"handing", "dropping"} /\ r \in to
Stream(r) == IF Pending(r) THEN Append(handed[r], cur) ELSE handed[r]
OwnOf(r) == Own(Stream(r), bornOf[r])
OwnPictures(r) == OwnOf(r) \intersect Pictures(Stream(r))

Joined(r) == r \in readers[keyOf[r]] /\ reader[r] = "reading" /\ ended[r] = 0

Streams ==
  \A r \in Readers : reader[r] = "reading" =>
    /\ Whole(Stream(r), bornOf[r]) /\ OwnLast(Stream(r), bornOf[r])
    /\ r \notin founder => KeyframeFirst(Stream(r), Pictures(Stream(r)))

\* What a reader has of its preview comes before what is on the wire.
Joining ==
  \A r \in Readers : Joined(r) =>
    /\ bornOf[r] = preview[keyOf[r]]
    /\ info[keyOf[r]] = bornOf[r] => \E p \in OwnOf(r) : Stream(r)[p].kind = "info"
    /\ OwnOf(r) # {} => info[keyOf[r]] = bornOf[r]
    /\ \A p \in OwnOf(r) : \A j \in Wired :
         wire[j].handle = bornOf[r] => Stream(r)[p].n < wire[j].n
    /\ r \notin synced => Pictures(Stream(r)) = {}
    /\ r \in synced /\ r \notin founder =>
         \E p \in Pictures(Stream(r)) : Stream(r)[p].kind = "key"

HasNumber(r, n) == \E p \in OwnPictures(r) : Stream(r)[p].n = n
HasKey(r) == \E p \in OwnPictures(r) : Stream(r)[p].kind = "key"
KeyBefore(h, i) == \E j \in Wired : j < i /\ wire[j].handle = h /\ wire[j].kind = "key"

\* A reader that has synced misses nothing of its preview: what is on the
\* wire goes on from what it has.
Synced ==
  \A r \in Readers : Joined(r) /\ r \in synced =>
    /\ \A i \in Wired : wire[i].handle = bornOf[r] /\ wire[i].kind # "info" =>
         /\ wire[i].kind = "delta" => HasKey(r) \/ KeyBefore(bornOf[r], i)
         /\ \/ HasNumber(r, wire[i].n - 1)
            \/ wire[i].n > 2 /\ Before(bornOf[r], wire[i].n - 1, i)
            \/ wire[i].n = 2 /\ OwnPictures(r) = {}
    /\ line = "up" /\ sent[bornOf[r]] >= 2 =>
         /\ HasNumber(r, sent[bornOf[r]]) \/ Before(bornOf[r], sent[bornOf[r]], End)
         /\ HasKey(r) \/ KeyBefore(bornOf[r], End)

OrderInv == Types /\ Ends /\ Queued /\ AskedOnce
RecorderInv == Alternating /\ OneKeyEach /\ Sending /\ OnWire /\ Placed /\ Fresh
ReaderInv == Received /\ Streams /\ Joining /\ Synced
IInv == OrderInv /\ RecorderInv /\ ReaderInv

-----------------------------------------------------------------------------
\* Init establishes the invariant.
LEMMA InitInv == Init => IInv
<1> SUFFICES ASSUME Init PROVE IInv
  OBVIOUS
<1> USE SharedAssumption
<1>1. Types
  BY DEF Init, Types, TypeOK, Sequenced, Attached, NoHandle, NoReader, Handles, Message, NoMessage
<1>2. Ends
  BY DEF Init, Ends
<1>3. Queued /\ AskedOnce
  BY DEF Init, Queued, Asked, AskedOnce, Outcome, NoHandle
<1>4. RecorderInv
  BY DEF Init, RecorderInv, Alternating, Asked, Wired, OneKeyEach, Sending, OnWire, Placed, Fresh, NoHandle, Handles
<1>5. ReaderInv
  BY DEF Init, ReaderInv, Received, Streams, Joining, Synced, Joined
<1> QED BY <1>1, <1>2, <1>3, <1>4, <1>5 DEF IInv, OrderInv

-----------------------------------------------------------------------------
RemoveTypes(r) ==
  /\ readers' \in [Keys -> SUBSET Readers]
  /\ preview' \in [Keys -> 0..MaxHandle] /\ info' \in [Keys -> 0..MaxHandle]
  /\ idling' \subseteq Readers \union {"demux"}

\* What unsubscribing a reader leaves has its type.
LEMMA RemoveType ==
  ASSUME TypeOK, NEW r \in Readers, NEW c \in {r, "demux"}, Remove(r, c)
  PROVE  RemoveTypes(r)
<1>0. keyOf[r] \in Keys /\ NoHandle \in 0..MaxHandle
  BY SharedAssumption DEF TypeOK, NoHandle
<1>1. readers' \in [Keys -> SUBSET Readers]
  BY <1>0 DEF Remove, TypeOK
<1>2. preview' \in [Keys -> 0..MaxHandle]
  BY <1>0 DEF Remove, TypeOK
<1>3. info' \in [Keys -> 0..MaxHandle]
  BY <1>0 DEF Remove, TypeOK
<1>4. idling' \in {idling, idling \union {c}}
  BY DEF Remove
<1> QED BY <1>1, <1>2, <1>3, <1>4 DEF RemoveTypes, TypeOK

\* Every step keeps the types.
LEMMA TypeStep == Types /\ Ends /\ [Next]_vars => TypeOK'
<1> SUFFICES ASSUME TypeOK, Sequenced, Attached, Ends, [Next]_vars PROVE TypeOK'
  BY DEF Types
<1> USE SharedAssumption
<1>1. ASSUME NEW r \in Readers, Subscribe(r) PROVE TypeOK'
  <2>1. handle' \in 0..MaxHandle /\ preview' \in [Keys -> 0..MaxHandle]
    <3>1. CASE preview[keyOf[r]] = NoHandle
      <4>1. handle' = handle + 1 /\ handle < MaxHandle
        BY <1>1, <3>1 DEF Subscribe, NextHandle
      <4>2. handle' \in 0..MaxHandle
        BY <4>1 DEF TypeOK
      <4>3. preview' = [preview EXCEPT ![keyOf[r]] = handle'] /\ keyOf[r] \in Keys
        BY <1>1, <3>1 DEF Subscribe, TypeOK
      <4> QED BY <4>2, <4>3 DEF TypeOK
    <3>2. CASE preview[keyOf[r]] # NoHandle
      BY <1>1, <3>2 DEF Subscribe, TypeOK
    <3> QED BY <3>1, <3>2
  <2>2. readers' \in [Keys -> SUBSET Readers] /\ bornOf' \in [Readers -> 0..MaxHandle]
    BY <1>1, <2>1 DEF Subscribe, TypeOK
  <2> QED BY <1>1, <2>1, <2>2 DEF Subscribe, TypeOK, demuxVars, recorderVars
<1>2. ASSUME NEW r \in Readers, SubscribeFails(r) \/ Quit(r) \/ Deliver(r) PROVE TypeOK'
  <2>1. CASE SubscribeFails(r)
    BY <2>1 DEF SubscribeFails, TypeOK, sharedVars, queueVars, demuxVars, recorderVars
  <2>2. CASE Quit(r)
    BY <2>2 DEF Quit, TypeOK, sharedVars, demuxVars, recorderVars
  <2>3. CASE Deliver(r)
    BY <2>3 DEF Deliver, TypeOK, sharedVars, readerVars, recorderVars
  <2> QED BY <1>2, <2>1, <2>2, <2>3
<1>3. ASSUME NEW r \in Readers, Take(r) PROVE TypeOK'
  <2>1. taken' \in [Readers -> Nat]
    BY <1>3 DEF Take, TypeOK
  <2> QED BY <1>3, <2>1 DEF Take, TypeOK, sharedVars, readerVars, demuxVars, recorderVars
<1>5. ASSUME NEW r \in Readers, Unsubscribe(r) PROVE TypeOK'
  <2>1. CASE r \in readers[keyOf[r]]
    <3>1. Remove(r, r) /\ keyOf[r] \in Keys
      BY <1>5, <2>1 DEF Unsubscribe, TypeOK
    <3>2. RemoveTypes(r)
      BY <3>1, RemoveType
    <3> QED BY <1>5, <3>2 DEF Unsubscribe, RemoveTypes, TypeOK, queueVars, demuxVars, recorderVars
  <2>2. CASE r \notin readers[keyOf[r]]
    BY <1>5, <2>2 DEF Unsubscribe, TypeOK, queueVars, demuxVars, recorderVars
  <2> QED BY <2>1, <2>2
<1>7. ASSUME NEW r \in Readers, Stall(r) PROVE TypeOK'
  BY <1>7 DEF Stall, EndReader, TypeOK, sharedVars, readerVars, recorderVars
<1>8. ASSUME NEW r \in Readers, EndOne(r) PROVE TypeOK'
  BY <1>8 DEF EndOne, EndReader, TypeOK, sharedVars, readerVars, recorderVars
<1>10. CASE Route
  <2>1. Head(wire) \in Message
    BY <1>10, HeadTailProperties DEF Route, Sequenced
  <2>2. info' \in [Keys -> 0..MaxHandle]
    BY <1>10, <2>1 DEF Route, TypeOK, Message, Handles
  <2>3. to' \subseteq Readers /\ synced' \subseteq Readers /\ cur' \in Message
    BY <1>10, <2>1 DEF Route, TypeOK, Message
  <2> QED BY <1>10, <2>2, <2>3 DEF Route, TypeOK, readerVars, queueVars, recorderVars
<1>11. CASE DropVictim
  <2>1. CASE victim \in readers[keyOf[victim]]
    <3>1. Remove(victim, "demux") /\ victim \in Readers
      BY <1>11, <2>1 DEF DropVictim, Ends
    <3>2. RemoveTypes(victim)
      BY <3>1, RemoveType
    <3> QED BY <1>11, <3>2 DEF DropVictim, RemoveTypes, TypeOK, readerVars, queueVars, recorderVars
  <2>2. CASE victim \notin readers[keyOf[victim]]
    BY <1>11, <2>2 DEF DropVictim, TypeOK, readerVars, queueVars, recorderVars
  <2> QED BY <2>1, <2>2
<1>13. CASE ConnectionOver
  BY <1>13 DEF ConnectionOver, TypeOK, readerVars, queueVars, recorderVars, NoHandle
<1>14. CASE TakeRequest
  <2>1. Head(requests) \in Requests
    BY <1>14, HeadTailProperties DEF TakeRequest, Sequenced
  <2> QED BY <1>14, <2>1 DEF TakeRequest, TypeOK, Requests, sharedVars, readerVars, queueVars, demuxVars
<1>15. ASSUME NEW c \in Readers \union {"demux"}, CloseIfIdle(c) PROVE TypeOK'
  BY <1>15 DEF CloseIfIdle, TypeOK, readerVars, queueVars, demuxVars, recorderVars
<1>16. CASE HandedAll
  BY <1>16 DEF HandedAll, TypeOK, sharedVars, readerVars, queueVars, recorderVars
<1>17. ASSUME NEW k \in Keys, NEW h \in Handles, SendMedia([key |-> k, handle |-> h]) PROVE TypeOK'
  BY <1>17 DEF SendMedia, TypeOK, sharedVars, readerVars, queueVars, demuxVars
<1>18. CASE LineFails
  BY <1>18 DEF LineFails, TypeOK, sharedVars, readerVars, queueVars, demuxVars, recorderVars
<1>19. CASE UNCHANGED vars
  BY <1>19 DEF vars, TypeOK, sharedVars, readerVars, queueVars, demuxVars, recorderVars
<1> QED BY <1>1, <1>2, <1>3, <1>5, <1>7, <1>8, <1>10, <1>11, <1>13, <1>14, <1>15, <1>16, <1>17, <1>18, <1>19
    DEF Next, ReaderStep, DemuxStep

RemoveFacts(r) ==
  /\ requests' \in Seq(Requests)
  /\ \A k \in Keys : readers'[k] # {} <=> preview'[k] # NoHandle

\* Unsubscribing the last reader of a preview, and no other, ends the preview.
LEMMA RemoveFact ==
  ASSUME TypeOK, Sequenced, Attached, NEW r \in Readers, NEW c \in {r, "demux"}, Remove(r, c),
         r \in readers[keyOf[r]]
  PROVE  RemoveFacts(r)
<1>0. keyOf[r] \in Keys /\ preview[keyOf[r]] \in Handles
  BY SharedAssumption DEF TypeOK, NoHandle, Attached, Handles
<1>1. requests' \in Seq(Requests)
  <2>1. Request("stop", keyOf[r], preview[keyOf[r]]) \in Requests
    BY <1>0 DEF Request, Requests
  <2>2. \/ requests' = requests
        \/ requests' = Append(requests, Request("stop", keyOf[r], preview[keyOf[r]]))
    BY DEF Remove
  <2>3. Append(requests, Request("stop", keyOf[r], preview[keyOf[r]])) \in Seq(Requests)
    BY <2>1, AppendProperties DEF Sequenced
  <2> QED BY <2>2, <2>3 DEF Sequenced
<1>2. ASSUME NEW k \in Keys PROVE readers'[k] # {} <=> preview'[k] # NoHandle
  <2>1. readers' = [readers EXCEPT ![keyOf[r]] = @ \ {r}]
    BY DEF Remove
  <2>2. CASE readers[keyOf[r]] = {r}
    <3>1. preview' = [preview EXCEPT ![keyOf[r]] = NoHandle]
      BY <2>2 DEF Remove
    <3> QED BY <1>0, <2>1, <2>2, <3>1 DEF TypeOK, Attached
  <2>3. CASE readers[keyOf[r]] # {r}
    <3>1. preview' = preview
      BY <2>3 DEF Remove
    <3> QED BY <1>0, <2>1, <2>3, <3>1 DEF TypeOK, Attached
  <2> QED BY <2>2, <2>3
<1> QED BY <1>1, <1>2 DEF RemoveFacts

\* Every step keeps the queues sequences of requests and of messages.
LEMMA SequencedStep == Types /\ Ends /\ [Next]_vars => Sequenced'
<1> SUFFICES ASSUME TypeOK, Sequenced, Attached, Ends, [Next]_vars PROVE Sequenced'
  BY DEF Types
<1> USE SharedAssumption
<1>1. ASSUME NEW r \in Readers, Subscribe(r) PROVE Sequenced'
  <2>0. keyOf[r] \in Keys
    BY DEF TypeOK
  <2>1. requests' \in Seq(Requests)
    <3>1. CASE preview[keyOf[r]] = NoHandle /\ line = "up"
      <4>1. handle' \in Handles
        BY <1>1, <3>1 DEF Subscribe, NextHandle, TypeOK, Handles
      <4>2. Request("start", keyOf[r], handle') \in Requests
        BY <2>0, <4>1 DEF Request, Requests
      <4>3. requests' = Append(requests, Request("start", keyOf[r], handle'))
        BY <1>1, <3>1 DEF Subscribe
      <4> QED BY <4>2, <4>3, AppendProperties DEF Sequenced
    <3>2. CASE ~(preview[keyOf[r]] = NoHandle /\ line = "up")
      BY <1>1, <3>2 DEF Subscribe, Sequenced
    <3> QED BY <3>1, <3>2
  <2>2. handed' \in [Readers -> Seq(Message)]
    <3>1. CASE info[keyOf[r]] # NoHandle
      <4>1. InfoOf(keyOf[r]) \in Message
        BY <2>0, <3>1 DEF InfoOf, Message, TypeOK, Handles, NoHandle
      <4>2. Append(handed[r], InfoOf(keyOf[r])) \in Seq(Message)
        BY <4>1, AppendProperties DEF Sequenced
      <4> QED BY <1>1, <4>2 DEF Subscribe, Sequenced
    <3>2. CASE info[keyOf[r]] = NoHandle
      BY <1>1, <3>2 DEF Subscribe, Sequenced
    <3> QED BY <3>1, <3>2
  <2> QED BY <1>1, <2>1, <2>2 DEF Subscribe, Sequenced, demuxVars, recorderVars
<1>2. ASSUME NEW r \in Readers, SubscribeFails(r) \/ Take(r) \/ Stall(r) \/ EndOne(r) PROVE Sequenced'
  BY <1>2 DEF SubscribeFails, Take, Stall, EndOne, Sequenced, queueVars, demuxVars, recorderVars
<1>3. ASSUME NEW r \in Readers, Quit(r) PROVE Sequenced'
  <2>1. <<>> \in Seq(Message)
    OBVIOUS
  <2> QED BY <1>3, <2>1 DEF Quit, Sequenced, demuxVars, recorderVars
<1>4. ASSUME NEW r \in Readers, Deliver(r) PROVE Sequenced'
  <2>1. Append(handed[r], cur) \in Seq(Message)
    BY <1>4, AppendProperties DEF Deliver, Sequenced
  <2> QED BY <1>4, <2>1 DEF Deliver, Sequenced, recorderVars
<1>5. ASSUME NEW r \in Readers, Unsubscribe(r) PROVE Sequenced'
  <2>1. requests' \in Seq(Requests)
    BY <1>5, RemoveFact DEF Unsubscribe, RemoveFacts, Sequenced
  <2> QED BY <1>5, <2>1 DEF Unsubscribe, Sequenced, queueVars, demuxVars, recorderVars
<1>6. CASE DropVictim
  <2>1. requests' \in Seq(Requests)
    BY <1>6, RemoveFact DEF DropVictim, Ends, RemoveFacts, Sequenced
  <2> QED BY <1>6, <2>1 DEF DropVictim, Sequenced, queueVars, recorderVars
<1>7. CASE Route
  <2>1. Head(wire) \in Message /\ Tail(wire) \in Seq(Message)
    BY <1>7, HeadTailProperties DEF Route, Sequenced
  <2> QED BY <1>7, <2>1 DEF Route, Sequenced, queueVars, recorderVars
<1>8. CASE HandedAll \/ ConnectionOver
  BY <1>8 DEF HandedAll, ConnectionOver, Sequenced, queueVars, recorderVars
<1>9. CASE TakeRequest
  <2>1. Tail(requests) \in Seq(Requests)
    BY <1>9, HeadTailProperties DEF TakeRequest, Sequenced
  <2> QED BY <1>9, <2>1 DEF TakeRequest, Sequenced, queueVars, demuxVars
<1>10. ASSUME NEW k \in Keys, NEW h \in Handles, SendMedia([key |-> k, handle |-> h]) PROVE Sequenced'
  <2>1. sent' \in [Handles -> Nat]
    BY <1>10 DEF SendMedia, Sequenced
  <2>2. PICK kind \in Kinds(sent'[h]) :
          wire' = Append(wire, [key |-> k, handle |-> h, n |-> sent'[h], kind |-> kind])
    BY <1>10 DEF SendMedia
  <2>3. kind \in {"info", "key", "delta"}
    BY DEF Kinds
  <2>4. [key |-> k, handle |-> h, n |-> sent'[h], kind |-> kind] \in Message
    BY <2>1, <2>3 DEF Message
  <2>5. wire' \in Seq(Message)
    BY <2>2, <2>4, AppendProperties DEF Sequenced
  <2> QED BY <1>10, <2>1, <2>5 DEF SendMedia, Sequenced, queueVars, demuxVars
<1>11. CASE LineFails
  <2>1. PICK n \in 0..Len(wire) : wire' = SubSeq(wire, 1, n)
    BY <1>11 DEF LineFails
  <2>2. wire' \in Seq(Message)
    BY <2>1, SubSeqProperties, ElementOfSeq DEF Sequenced
  <2> QED BY <1>11, <2>2 DEF LineFails, Sequenced, queueVars, demuxVars, recorderVars
<1>12. ASSUME NEW c \in Readers \union {"demux"}, CloseIfIdle(c) PROVE Sequenced'
  BY <1>12 DEF CloseIfIdle, Sequenced, queueVars, demuxVars, recorderVars
<1>13. CASE UNCHANGED vars
  BY <1>13 DEF vars, Sequenced, queueVars, demuxVars, recorderVars
<1> QED BY <1>1, <1>2, <1>3, <1>4, <1>5, <1>6, <1>7, <1>8, <1>9, <1>10, <1>11, <1>12, <1>13
    DEF Next, ReaderStep, DemuxStep

\* A preview has readers as long as it lives, and a reader that has not come or
\* has left is nowhere.
LEMMA AttachedStep == Types /\ Ends /\ [Next]_vars => Attached'
<1> SUFFICES ASSUME TypeOK, Sequenced, Attached, Ends, [Next]_vars PROVE Attached'
  BY DEF Types
<1> USE SharedAssumption
<1>1. ASSUME NEW r \in Readers, Subscribe(r) PROVE Attached'
  <2>0. keyOf[r] \in Keys
    BY DEF TypeOK
  <2>1. ASSUME NEW k \in Keys PROVE readers'[k] # {} <=> preview'[k] # NoHandle
    <3>1. readers' = [readers EXCEPT ![keyOf[r]] = @ \union {r}]
      BY <1>1 DEF Subscribe
    <3>2. handle + 1 # NoHandle
      BY DEF TypeOK, NoHandle
    <3>3. \/ preview' = preview /\ preview[keyOf[r]] # NoHandle
          \/ preview' = [preview EXCEPT ![keyOf[r]] = handle + 1]
      BY <1>1 DEF Subscribe, NextHandle
    <3> QED BY <2>0, <3>1, <3>2, <3>3 DEF TypeOK, Attached
  <2>2. ASSUME NEW q \in Readers, reader'[q] = "absent"
        PROVE  q \notin to' /\ q \notin synced' /\ q \notin founder' /\ ended'[q] = 0
    BY <1>1, <2>2 DEF Subscribe, demuxVars, TypeOK, Attached
  <2>3. ASSUME NEW q \in Readers, reader'[q] # "reading" PROVE handed'[q] = <<>>
    BY <1>1, <2>3 DEF Subscribe, TypeOK, Attached, Sequenced
  <2> QED BY <1>1, <2>1, <2>2, <2>3 DEF Subscribe, Attached
<1>2. ASSUME NEW r \in Readers, SubscribeFails(r) \/ Take(r) PROVE Attached'
  <2>1. CASE SubscribeFails(r)
    BY <2>1 DEF SubscribeFails, Attached, TypeOK, sharedVars, queueVars, demuxVars
  <2>2. CASE Take(r)
    BY <2>2 DEF Take, Attached, sharedVars, readerVars, demuxVars
  <2> QED BY <1>2, <2>1, <2>2
<1>3. ASSUME NEW r \in Readers, Quit(r) PROVE Attached'
  BY <1>3 DEF Quit, Attached, TypeOK, Sequenced, sharedVars, demuxVars
<1>4. ASSUME NEW r \in Readers, Deliver(r) PROVE Attached'
  BY <1>4 DEF Deliver, Attached, TypeOK, Sequenced, sharedVars, readerVars
<1>5. ASSUME NEW r \in Readers, Unsubscribe(r) PROVE Attached'
  <2>1. \A k \in Keys : readers'[k] # {} <=> preview'[k] # NoHandle
    BY <1>5, RemoveFact DEF Unsubscribe, RemoveFacts, Attached
  <2> QED BY <1>5, <2>1 DEF Unsubscribe, Attached, TypeOK, queueVars, demuxVars
<1>6. CASE DropVictim
  <2>1. \A k \in Keys : readers'[k] # {} <=> preview'[k] # NoHandle
    BY <1>6, RemoveFact DEF DropVictim, Ends, RemoveFacts, Attached
  <2> QED BY <1>6, <2>1 DEF DropVictim, Attached, readerVars, queueVars
<1>7. CASE Route
  <2>1. Head(wire) \in Message
    BY <1>7, HeadTailProperties DEF Route, Sequenced
  <2>2. ASSUME NEW q \in to' \union (synced' \ synced) PROVE reader[q] # "absent"
    BY <1>7, <2>1, <2>2 DEF Route, Message, TypeOK, Ends
  <2> QED BY <1>7, <2>2 DEF Route, Attached, readerVars, queueVars
<1>8. CASE HandedAll
  BY <1>8 DEF HandedAll, Attached, sharedVars, readerVars, queueVars
<1>9. CASE ConnectionOver
  <2>1. ASSUME NEW q \in Readers, reader[q] = "absent" PROVE q \notin to'
    BY <1>9, <2>1 DEF ConnectionOver, Ends
  <2> QED BY <1>9, <2>1 DEF ConnectionOver, Attached, readerVars, queueVars
<1>10. CASE TakeRequest
  BY <1>10 DEF TakeRequest, Attached, sharedVars, readerVars, queueVars, demuxVars
<1>11. ASSUME NEW k \in Keys, NEW h \in Handles, SendMedia([key |-> k, handle |-> h]) PROVE Attached'
  BY <1>11 DEF SendMedia, Attached, sharedVars, readerVars, queueVars, demuxVars
<1>12. CASE LineFails
  BY <1>12 DEF LineFails, Attached, sharedVars, readerVars, queueVars, demuxVars
<1>13. ASSUME NEW c \in Readers \union {"demux"}, CloseIfIdle(c) PROVE Attached'
  BY <1>13 DEF CloseIfIdle, Attached, readerVars, queueVars, demuxVars
<1>14. ASSUME NEW r \in Readers, Stall(r) PROVE Attached'
  BY <1>14 DEF Stall, EndReader, Attached, TypeOK, sharedVars, readerVars
<1>15. ASSUME NEW r \in Readers, EndOne(r) PROVE Attached'
  BY <1>15 DEF EndOne, EndReader, Attached, TypeOK, sharedVars, readerVars
<1>16. CASE UNCHANGED vars
  BY <1>16 DEF vars, Attached, sharedVars, readerVars, queueVars, demuxVars
<1> QED BY <1>1, <1>2, <1>3, <1>4, <1>5, <1>6, <1>7, <1>8, <1>9, <1>10, <1>11, <1>12, <1>13, <1>14, <1>15, <1>16
    DEF Next, ReaderStep, DemuxStep

\* Nobody is ended twice: a reader demux has yet to serve, or finds in a set of
\* readers, has not been ended.
LEMMA EndsStep == Types /\ Ends /\ [Next]_vars => Ends'
<1> SUFFICES ASSUME TypeOK, Sequenced, Attached, Ends, [Next]_vars PROVE Ends'
  BY DEF Types
<1> USE SharedAssumption
<1>1. ASSUME NEW r \in Readers, Subscribe(r) PROVE Ends'
  <2>1. reader[r] = "absent" /\ closed = "open" /\ keyOf[r] \in Keys
    BY <1>1 DEF Subscribe, Accepting, TypeOK
  <2>2. ASSUME NEW k \in Keys, NEW q \in readers'[k]
        PROVE  /\ keyOf[q] = k /\ reader'[q] \in {"reading", "quit"}
               /\ ended[q] = 0 \/ (demux = "dropping" /\ victim = q)
    <3>1. q \in readers[k] \/ (q = r /\ k = keyOf[r])
      BY <1>1, <2>2 DEF Subscribe, TypeOK
    <3> QED BY <1>1, <2>1, <3>1 DEF Subscribe, Ends, Attached, TypeOK
  <2> QED BY <1>1, <2>1, <2>2 DEF Subscribe, Ends, demuxVars
<1>2. ASSUME NEW r \in Readers, SubscribeFails(r) PROVE Ends'
  BY <1>2 DEF SubscribeFails, Ends, TypeOK, sharedVars, queueVars, demuxVars
<1>3. ASSUME NEW r \in Readers, Take(r) PROVE Ends'
  BY <1>3 DEF Take, Ends, sharedVars, readerVars, demuxVars
<1>4. ASSUME NEW r \in Readers, Quit(r) PROVE Ends'
  BY <1>4 DEF Quit, Ends, TypeOK, sharedVars, demuxVars
<1>5. ASSUME NEW r \in Readers, Unsubscribe(r) PROVE Ends'
  <2>1. ASSUME NEW k \in Keys, NEW q \in readers'[k]
        PROVE  /\ keyOf[q] = k /\ reader'[q] \in {"reading", "quit"}
               /\ ended[q] = 0 \/ (demux = "dropping" /\ victim = q)
    <3>1. q \in readers[k] /\ q # r
      <4>1. r \in readers[keyOf[r]] => readers' = [readers EXCEPT ![keyOf[r]] = @ \ {r}]
        BY <1>5 DEF Unsubscribe, Remove
      <4>2. r \notin readers[keyOf[r]] => readers' = readers
        BY <1>5 DEF Unsubscribe
      <4> QED BY <2>1, <4>1, <4>2 DEF TypeOK, Ends
    <3> QED BY <1>5, <3>1 DEF Unsubscribe, Ends, TypeOK
  <2>2. ASSUME demux = "ending", NEW k \in Keys PROVE readers'[k] = {}
    BY <1>5, <2>2 DEF Unsubscribe, Remove, TypeOK, Ends
  <2> QED BY <1>5, <2>1, <2>2 DEF Unsubscribe, Ends, queueVars, demuxVars
<1>6. ASSUME NEW r \in Readers, Deliver(r) PROVE Ends'
  BY <1>6 DEF Deliver, Ends, sharedVars, readerVars
<1>7. ASSUME NEW r \in Readers, Stall(r) PROVE Ends'
  <2>0. ended[r] = 0 /\ ended[r] + 1 = 1
    BY <1>7 DEF Stall, Ends
  <2>1. ended' = [ended EXCEPT ![r] = 1] /\ demux = "handing"
    BY <1>7, <2>0 DEF Stall, EndReader
  <2> QED BY <1>7, <2>1 DEF Stall, Ends, TypeOK, sharedVars, readerVars
<1>8. ASSUME NEW r \in Readers, EndOne(r) PROVE Ends'
  <2>0. ended[r] = 0 /\ ended[r] + 1 = 1
    BY <1>8 DEF EndOne, Ends
  <2>1. ended' = [ended EXCEPT ![r] = 1] /\ demux = "ending"
    BY <1>8, <2>0 DEF EndOne, EndReader
  <2> QED BY <1>8, <2>1 DEF EndOne, Ends, TypeOK, sharedVars, readerVars
<1>9. CASE Route
  <2>1. Head(wire) \in Message
    BY <1>9, HeadTailProperties DEF Route, Sequenced
  <2>2. ASSUME NEW q \in to' PROVE ended[q] = 0
    BY <1>9, <2>1, <2>2 DEF Route, Message, TypeOK, Ends
  <2> QED BY <1>9, <2>2 DEF Route, Ends, readerVars, queueVars
<1>10. CASE DropVictim
  <2>1. demux = "dropping" /\ victim \in Readers
    BY <1>10 DEF DropVictim, Ends
  <2>2. ASSUME NEW k \in Keys, NEW q \in readers'[k]
        PROVE  keyOf[q] = k /\ reader[q] \in {"reading", "quit"} /\ ended[q] = 0
    <3>1. q \in readers[k] /\ q # victim
      <4>1. victim \in readers[keyOf[victim]] =>
              readers' = [readers EXCEPT ![keyOf[victim]] = @ \ {victim}]
        BY <1>10 DEF DropVictim, Remove
      <4>2. victim \notin readers[keyOf[victim]] => readers' = readers
        BY <1>10 DEF DropVictim
      <4> QED BY <2>1, <2>2, <4>1, <4>2 DEF TypeOK, Ends
    <3> QED BY <3>1 DEF Ends
  <2> QED BY <1>10, <2>1, <2>2 DEF DropVictim, Ends, readerVars, queueVars
<1>11. CASE HandedAll
  BY <1>11 DEF HandedAll, Ends, sharedVars, readerVars, queueVars
<1>12. CASE ConnectionOver
  <2>1. ASSUME NEW q \in to' PROVE ended[q] = 0
    BY <1>12, <2>1 DEF ConnectionOver, Ends
  <2> QED BY <1>12, <2>1 DEF ConnectionOver, Ends, readerVars, queueVars
<1>13. CASE TakeRequest
  BY <1>13 DEF TakeRequest, Ends, sharedVars, readerVars, queueVars, demuxVars
<1>14. ASSUME NEW k \in Keys, NEW h \in Handles, SendMedia([key |-> k, handle |-> h]) PROVE Ends'
  BY <1>14 DEF SendMedia, Ends, sharedVars, readerVars, queueVars, demuxVars
<1>15. CASE LineFails
  BY <1>15 DEF LineFails, Ends, sharedVars, readerVars, queueVars, demuxVars
<1>16. ASSUME NEW c \in Readers \union {"demux"}, CloseIfIdle(c) PROVE Ends'
  BY <1>16 DEF CloseIfIdle, Ends, readerVars, queueVars, demuxVars
<1>17. CASE UNCHANGED vars
  BY <1>17 DEF vars, Ends, sharedVars, readerVars, queueVars, demuxVars
<1> QED BY <1>1, <1>2, <1>3, <1>4, <1>5, <1>6, <1>7, <1>8, <1>9, <1>10, <1>11, <1>12, <1>13, <1>14, <1>15, <1>16, <1>17
    DEF Next, ReaderStep, DemuxStep

-----------------------------------------------------------------------------
\* What the recorder serves once it has taken every request of q.
Item(m) == [key |-> m.key, handle |-> m.handle]
Result(q, s) ==
  (s \union {Item(q[i]) : i \in {j \in 1..Len(q) : q[j].op = "start"}})
    \ {Item(q[i]) : i \in {j \in 1..Len(q) : q[j].op = "stop"}}

\* A start of something nobody has asked to stop adds it.
LEMMA ResultStart ==
  ASSUME NEW q \in Seq(Requests), NEW s, NEW m \in Requests, m.op = "start",
         \A i \in 1..Len(q) : q[i].handle # m.handle
  PROVE  Result(Append(q, m), s) = Result(q, s) \union {Item(m)}
<1> DEFINE p == Append(q, m)
<1>1. /\ Len(p) = Len(q) + 1 /\ Len(q) \in Nat
      /\ \A i \in 1..Len(q) : p[i] = q[i]
      /\ p[Len(q) + 1] = m
  BY AppendProperties
<1> HIDE DEF p
<1>2. {Item(p[i]) : i \in {j \in 1..Len(p) : p[j].op = "start"}}
        = {Item(q[i]) : i \in {j \in 1..Len(q) : q[j].op = "start"}} \union {Item(m)}
  BY <1>1
<1>3. {Item(p[i]) : i \in {j \in 1..Len(p) : p[j].op = "stop"}}
        = {Item(q[i]) : i \in {j \in 1..Len(q) : q[j].op = "stop"}}
  BY <1>1
<1>4. \A i \in 1..Len(q) : Item(q[i]) # Item(m)
  BY DEF Item
<1> QED BY <1>2, <1>3, <1>4 DEF Result, p

\* A stop takes it away.
LEMMA ResultStop ==
  ASSUME NEW q \in Seq(Requests), NEW s, NEW m \in Requests, m.op = "stop"
  PROVE  Result(Append(q, m), s) = Result(q, s) \ {Item(m)}
<1> DEFINE p == Append(q, m)
<1>1. /\ Len(p) = Len(q) + 1 /\ Len(q) \in Nat
      /\ \A i \in 1..Len(q) : p[i] = q[i]
      /\ p[Len(q) + 1] = m
  BY AppendProperties
<1> HIDE DEF p
<1>2. {Item(p[i]) : i \in {j \in 1..Len(p) : p[j].op = "stop"}}
        = {Item(q[i]) : i \in {j \in 1..Len(q) : q[j].op = "stop"}} \union {Item(m)}
  BY <1>1
<1>3. {Item(p[i]) : i \in {j \in 1..Len(p) : p[j].op = "start"}}
        = {Item(q[i]) : i \in {j \in 1..Len(q) : q[j].op = "start"}}
  BY <1>1
<1> QED BY <1>2, <1>3 DEF Result, p

\* The request at the head may be carried out at once, as no later one
\* starts what it stops.
LEMMA ResultTaken ==
  ASSUME NEW q \in Seq(Requests), NEW s, q # <<>>,
         \A j \in 2..Len(q) : q[j].op = "start" => q[1].handle < q[j].handle
  PROVE  Result(Tail(q), IF Head(q).op = "start" THEN s \union {Item(Head(q))} ELSE s \ {Item(Head(q))})
           = Result(q, s)
<1> DEFINE p == Tail(q)
           m == Head(q)
<1>1. /\ Len(p) = Len(q) - 1 /\ Len(q) \in Nat \ {0} /\ m = q[1]
      /\ \A i \in 1..Len(p) : p[i] = q[i + 1]
      /\ \A i \in 1..Len(q) : q[i] \in Requests
  BY HeadTailProperties, ElementOfSeq
<1> HIDE DEF p, m
<1>0. \A i \in 2..Len(q) : i - 1 \in 1..Len(p) /\ p[i - 1] = q[i]
  BY <1>1
<1>2. \A op \in {"start", "stop"} :
        {Item(q[i]) : i \in {j \in 1..Len(q) : q[j].op = op}}
          = {Item(p[i]) : i \in {j \in 1..Len(p) : p[j].op = op}}
              \union {x \in {Item(m)} : m.op = op}
  <2> TAKE op \in {"start", "stop"}
  <2> DEFINE Q == {Item(q[i]) : i \in {j \in 1..Len(q) : q[j].op = op}}
             P == {Item(p[i]) : i \in {j \in 1..Len(p) : p[j].op = op}}
  <2>1. ASSUME NEW x \in Q PROVE x \in P \union {y \in {Item(m)} : m.op = op}
    <3>1. PICK i \in 1..Len(q) : q[i].op = op /\ x = Item(q[i])
      OBVIOUS
    <3>2. CASE i = 1
      BY <1>1, <3>1, <3>2
    <3>3. CASE i # 1
      <4>1. i - 1 \in 1..Len(p) /\ p[i - 1] = q[i]
        BY <1>0, <1>1, <3>3
      <4> QED BY <3>1, <4>1
    <3> QED BY <3>2, <3>3
  <2>2. ASSUME NEW x \in P PROVE x \in Q
    <3>1. PICK i \in 1..Len(p) : p[i].op = op /\ x = Item(p[i])
      OBVIOUS
    <3>2. i + 1 \in 1..Len(q) /\ q[i + 1] = p[i]
      BY <1>1
    <3> QED BY <3>1, <3>2
  <2>3. m.op = op => Item(m) \in Q
    <3>1. 1 \in 1..Len(q)
      BY <1>1
    <3> QED BY <1>1, <3>1
  <2> QED BY <2>1, <2>2, <2>3
<1>3. m.op \in {"start", "stop"}
  BY <1>1 DEF Requests
<1>4. CASE m.op = "start"
  BY <1>2, <1>4 DEF Result, p, m
<1>5. CASE m.op = "stop"
  <2>1. ASSUME NEW i \in 1..Len(p), p[i].op = "start" PROVE Item(p[i]) # Item(m)
    <3>1. i + 1 \in 2..Len(q) /\ q[i + 1] = p[i]
      BY <1>1
    <3>2. m.handle < p[i].handle
      BY <1>1, <2>1, <3>1
    <3>3. m.handle \in Nat
      BY <1>1 DEF Requests, Handles
    <3> QED BY <3>2, <3>3 DEF Item
  <2>2. Item(m) \notin {Item(p[i]) : i \in {j \in 1..Len(p) : p[j].op = "start"}}
    BY <2>1
  <2>3. /\ {Item(q[i]) : i \in {j \in 1..Len(q) : q[j].op = "start"}}
            = {Item(p[i]) : i \in {j \in 1..Len(p) : p[j].op = "start"}}
        /\ {Item(q[i]) : i \in {j \in 1..Len(q) : q[j].op = "stop"}}
            = {Item(p[i]) : i \in {j \in 1..Len(p) : p[j].op = "stop"}} \union {Item(m)}
    BY <1>2, <1>5
  <2> QED BY <2>2, <2>3, <1>5 DEF Result, p, m
<1> QED BY <1>3, <1>4, <1>5

\* Outcome is what replaying the requests gives.
LEMMA OutcomeIs == Outcome = Result(requests, serving) /\ (Outcome = Result(requests, serving))'
  BY DEF Outcome, Result, Item

\* The request a reader's leaving may add.
LEMMA RemoveAsks ==
  ASSUME TypeOK, Sequenced, Attached, NEW r \in Readers, NEW c \in {r, "demux"}, Remove(r, c),
         r \in readers[keyOf[r]]
  PROVE  LET k == keyOf[r]
             stop == Request("stop", k, preview[k])
         IN /\ k \in Keys /\ preview[k] \in Handles /\ stop \in Requests
            /\ \/ readers[k] = {r} /\ preview' = [preview EXCEPT ![k] = NoHandle]
               \/ readers[k] # {r} /\ preview' = preview /\ requests' = requests
            /\ requests' = requests \/ (closed = "open" /\ line = "up" /\ requests' = Append(requests, stop))
            /\ readers[k] = {r} /\ closed = "open" /\ line = "up" => requests' = Append(requests, stop)
<1>1. keyOf[r] \in Keys /\ preview[keyOf[r]] \in Handles
  BY SharedAssumption DEF TypeOK, NoHandle, Attached, Handles
<1>2. Request("stop", keyOf[r], preview[keyOf[r]]) \in Requests
  BY <1>1 DEF Request, Requests
<1> QED BY <1>1, <1>2 DEF Remove

\* A request with a handle that is not too great may join the queue.
LEMMA QueuedAppend ==
  ASSUME TypeOK, Sequenced, Queued, NEW m \in Requests, requests' = Append(requests, m),
         m.handle <= handle', handle' \in {handle, handle + 1}, serving' = serving,
         m.op = "start" => m.handle = handle + 1,
         preview' \in [Keys -> 0..MaxHandle], \A k \in Keys : preview'[k] <= handle'
  PROVE  Queued'
<1>1. /\ Len(requests') = Len(requests) + 1 /\ Len(requests) \in Nat
      /\ \A i \in 1..Len(requests) : requests'[i] = requests[i]
      /\ requests'[Len(requests) + 1] = m
      /\ \A i \in 1..Len(requests) : requests[i] \in Requests
  BY AppendProperties, ElementOfSeq DEF Sequenced
<1>2. handle \in Nat /\ handle <= handle' /\ handle' \in Nat
  BY SharedAssumption DEF TypeOK
<1>3. \A j \in Asked' : j \in Asked \/ j = Len(requests) + 1
  BY <1>1 DEF Asked
<1>4. \A i \in Asked : requests[i].handle \in Nat /\ requests[i].handle <= handle
  BY <1>1 DEF Asked, Requests, Handles, Queued
<1>5. \A s \in serving : s.handle \in Nat /\ s.handle <= handle
  BY DEF TypeOK, Handles, Queued
<1>6. ASSUME NEW j \in Asked' PROVE requests'[j].handle <= handle'
  BY <1>1, <1>2, <1>3, <1>4, <1>6 DEF Asked
<1>7. ASSUME NEW j \in Asked', IsStart(j)'
      PROVE  /\ \A i \in Asked' : i < j => requests'[i].handle < requests'[j].handle
             /\ \A s \in serving : s.handle < requests'[j].handle
  <2>1. CASE j \in Asked
    <3>1. IsStart(j) /\ requests'[j] = requests[j]
      BY <1>1, <1>7, <2>1 DEF IsStart, Asked
    <3>2. \A i \in Asked' : i < j => i \in Asked /\ requests'[i] = requests[i]
      BY <1>1, <2>1 DEF Asked
    <3> QED BY <2>1, <3>1, <3>2 DEF Queued
  <2>2. CASE j = Len(requests) + 1
    <3>1. requests'[j] = m /\ m.handle = handle + 1
      BY <1>1, <1>7, <2>2 DEF IsStart
    <3>2. \A i \in Asked' : i < j => i \in Asked /\ requests'[i] = requests[i]
      BY <1>1, <2>2 DEF Asked
    <3>3. ASSUME NEW i \in Asked', i < j PROVE requests'[i].handle < handle + 1
      <4>1. requests[i].handle \in Nat /\ requests[i].handle <= handle /\ requests'[i] = requests[i]
        BY <1>4, <3>2, <3>3
      <4>2. requests[i].handle < handle + 1
        BY <1>2, <4>1
      <4> QED BY <4>1, <4>2
    <3>4. \A s \in serving : s.handle < handle + 1
      BY <1>2, <1>5
    <3> QED BY <3>1, <3>3, <3>4
  <2> QED BY <1>3, <2>1, <2>2
<1>8. \A s \in serving' : s.handle <= handle'
  BY <1>2, <1>5
<1> QED BY <1>6, <1>7, <1>8 DEF Queued

\* Handles only grow, so a start is asked for after all it might be mixed up with.
LEMMA QueuedStep == Types /\ Ends /\ Queued /\ [Next]_vars => Queued'
<1> SUFFICES ASSUME TypeOK, Sequenced, Attached, Ends, Queued, [Next]_vars PROVE Queued'
  BY DEF Types
<1> USE SharedAssumption
<1>1. ASSUME NEW r \in Readers, Subscribe(r) PROVE Queued'
  <2>0. keyOf[r] \in Keys /\ handle \in Nat /\ handle + 1 \in Nat
    BY DEF TypeOK
  <2>1. CASE preview[keyOf[r]] = NoHandle
    <3>1. /\ handle' = handle + 1 /\ handle < MaxHandle
          /\ preview' = [preview EXCEPT ![keyOf[r]] = handle + 1]
          /\ serving' = serving
          /\ requests' = IF line = "up" THEN Append(requests, Request("start", keyOf[r], handle + 1))
                         ELSE requests
      BY <1>1, <2>1 DEF Subscribe, NextHandle, recorderVars
    <3>2. preview' \in [Keys -> 0..MaxHandle] /\ \A k \in Keys : preview'[k] <= handle'
      BY <2>0, <3>1 DEF TypeOK, Queued
    <3>3. CASE line = "up"
      <4> DEFINE m == Request("start", keyOf[r], handle + 1)
      <4>1. m \in Requests /\ m.handle = handle + 1
        BY <2>0, <3>1 DEF Request, Requests, Handles
      <4>2. requests' = Append(requests, m)
        BY <3>1, <3>3
      <4> HIDE DEF m
      <4> QED BY <2>0, <3>1, <3>2, <4>1, <4>2, QueuedAppend
    <3>4. CASE line # "up"
      <4>1. \A j \in Asked : requests[j] \in Requests
        BY ElementOfSeq DEF Asked, Sequenced
      <4>2. \A j \in Asked : requests[j].handle \in Nat
        BY <4>1 DEF Requests, Handles
      <4>3. \A s \in serving : s.handle \in Nat
        BY DEF TypeOK, Handles
      <4> QED BY <2>0, <3>1, <3>2, <3>4, <4>2, <4>3 DEF Queued, Asked, IsStart
    <3> QED BY <3>3, <3>4
  <2>2. CASE preview[keyOf[r]] # NoHandle
    BY <1>1, <2>2 DEF Subscribe, recorderVars, Queued, Asked, IsStart
  <2> QED BY <2>1, <2>2
<1>2. ASSUME NEW r \in Readers, NEW c \in {r, "demux"}, Remove(r, c), r \in readers[keyOf[r]],
             handle' = handle, serving' = serving
      PROVE  Queued'
  <2>1. preview' \in [Keys -> 0..MaxHandle] /\ \A k \in Keys : preview'[k] <= handle'
    <3>1. preview' \in {preview, [preview EXCEPT ![keyOf[r]] = NoHandle]} /\ keyOf[r] \in Keys
      BY <1>2, RemoveAsks
    <3> QED BY <1>2, <3>1 DEF TypeOK, Queued, NoHandle
  <2>2. CASE requests' = requests
    BY <1>2, <2>1, <2>2 DEF Queued, Asked, IsStart
  <2>3. CASE requests' # requests
    <3> DEFINE m == Request("stop", keyOf[r], preview[keyOf[r]])
    <3>1. requests' = Append(requests, m) /\ m \in Requests /\ keyOf[r] \in Keys
      BY <1>2, <2>3, RemoveAsks
    <3>2. m.op = "stop" /\ m.handle <= handle
      BY <3>1 DEF Request, Queued
    <3> HIDE DEF m
    <3> QED BY <1>2, <2>1, <3>1, <3>2, QueuedAppend
  <2> QED BY <2>2, <2>3
<1>3. ASSUME NEW r \in Readers, Unsubscribe(r) PROVE Queued'
  <2>1. CASE r \in readers[keyOf[r]]
    BY <1>2, <1>3, <2>1 DEF Unsubscribe, recorderVars
  <2>2. CASE r \notin readers[keyOf[r]]
    BY <1>3, <2>2 DEF Unsubscribe, Queued, Asked, IsStart, recorderVars
  <2> QED BY <2>1, <2>2
<1>4. CASE DropVictim
  <2>1. CASE victim \in readers[keyOf[victim]]
    BY <1>2, <1>4, <2>1 DEF DropVictim, recorderVars, Ends
  <2>2. CASE victim \notin readers[keyOf[victim]]
    BY <1>4, <2>2 DEF DropVictim, Queued, Asked, IsStart, recorderVars
  <2> QED BY <2>1, <2>2
<1>5. CASE TakeRequest
  <2>1. /\ Len(requests') = Len(requests) - 1 /\ Len(requests) \in Nat \ {0}
        /\ \A i \in 1..Len(requests') : requests'[i] = requests[i + 1]
        /\ \A i \in 1..Len(requests) : requests[i] \in Requests
        /\ Head(requests) = requests[1]
    BY <1>5, HeadTailProperties, ElementOfSeq DEF TakeRequest, Sequenced
  <2>2. handle' = handle /\ preview' = preview
    BY <1>5 DEF TakeRequest, sharedVars
  <2>3. \A s \in serving' : s \in serving \/ (IsStart(1) /\ s = Asks(1))
    BY <1>5, <2>1 DEF TakeRequest, IsStart, Asks
  <2>4. \A j \in Asked' : j + 1 \in Asked /\ requests'[j] = requests[j + 1]
    BY <2>1 DEF Asked
  <2>5. 1 \in Asked /\ \A j \in Asked' : 1 < j + 1
    BY <2>1 DEF Asked
  <2>6. \A j \in Asked' : requests'[j].handle <= handle'
    BY <2>2, <2>4 DEF Queued
  <2>7. \A s \in serving' : s.handle <= handle'
    BY <2>2, <2>3, <2>5 DEF Queued, Asks
  <2>8. ASSUME NEW j \in Asked', IsStart(j)'
        PROVE  /\ \A i \in Asked' : i < j => requests'[i].handle < requests'[j].handle
               /\ \A s \in serving' : s.handle < requests'[j].handle
    <3>1. j + 1 \in Asked /\ IsStart(j + 1)
      BY <2>4, <2>8 DEF IsStart
    <3>2. \A i \in Asked' : i < j => i + 1 < j + 1
      BY DEF Asked
    <3>3. \A i \in Asked' : i < j => requests'[i].handle < requests'[j].handle
      BY <2>4, <3>1, <3>2 DEF Queued
    <3>4. Asks(1).handle < requests[j + 1].handle
      BY <2>5, <3>1 DEF Queued, Asks
    <3> QED BY <2>3, <2>4, <3>1, <3>3, <3>4 DEF Queued
  <2> QED BY <2>2, <2>6, <2>7, <2>8 DEF Queued
<1>6. CASE ConnectionOver
  BY <1>6 DEF ConnectionOver, Queued, Asked, IsStart, recorderVars, NoHandle, TypeOK
<1>7. CASE UNCHANGED <<requests, serving, handle, preview>>
  BY <1>7 DEF Queued, Asked, IsStart
<1>8. ASSUME NEW r \in Readers, ReaderStep(r) PROVE Queued'
  <2>1. CASE SubscribeFails(r) \/ Take(r) \/ Quit(r)
    BY <1>7, <2>1 DEF SubscribeFails, Take, Quit, sharedVars, recorderVars
  <2> QED BY <1>1, <1>3, <1>8, <2>1 DEF ReaderStep
<1>9. CASE DemuxStep
  <2>1. CASE Route \/ HandedAll
    BY <1>7, <2>1 DEF Route, HandedAll, sharedVars, recorderVars
  <2>2. ASSUME NEW r \in Readers, Deliver(r) \/ Stall(r) \/ EndOne(r) PROVE Queued'
    BY <1>7, <2>2 DEF Deliver, Stall, EndOne, sharedVars, recorderVars
  <2> QED BY <1>4, <1>6, <1>9, <2>1, <2>2 DEF DemuxStep
<1>10. ASSUME NEW k \in Keys, NEW h \in Handles, SendMedia([key |-> k, handle |-> h]) PROVE Queued'
  BY <1>7, <1>10 DEF SendMedia, sharedVars
<1>11. ASSUME NEW c \in Readers \union {"demux"}, CloseIfIdle(c) PROVE Queued'
  BY <1>7, <1>11 DEF CloseIfIdle, recorderVars
<1>12. CASE LineFails \/ UNCHANGED vars
  BY <1>7, <1>12 DEF LineFails, vars, sharedVars, recorderVars
<1> QED BY <1>5, <1>8, <1>9, <1>10, <1>11, <1>12 DEF Next

Previews == {[key |-> k, handle |-> preview[k]] : k \in {j \in Keys : preview[j] # NoHandle}}

\* Replaying the requests gives exactly the previews, whoever comes or goes.
LEMMA AskedOnceStep == Types /\ Ends /\ Queued /\ AskedOnce /\ [Next]_vars => AskedOnce'
<1> SUFFICES ASSUME TypeOK, Sequenced, Attached, Ends, Queued, AskedOnce, [Next]_vars,
                    line' = "up", closed' = "open"
             PROVE  Result(requests', serving') = Previews'
  BY OutcomeIs DEF Types, AskedOnce, Previews
<1> USE SharedAssumption
<1>0. CASE line = "up" /\ closed = "open"
  <2>0. Result(requests, serving) = Previews
    BY <1>0, OutcomeIs DEF AskedOnce, Previews
  <2>1. ASSUME NEW r \in Readers, Subscribe(r) PROVE Result(requests', serving') = Previews'
    <3>1. keyOf[r] \in Keys /\ handle \in Nat /\ handle + 1 # NoHandle
      BY DEF TypeOK, NoHandle
    <3>2. CASE preview[keyOf[r]] = NoHandle
      <4> DEFINE m == Request("start", keyOf[r], handle + 1)
      <4>1. /\ requests' = Append(requests, m) /\ serving' = serving
            /\ preview' = [preview EXCEPT ![keyOf[r]] = handle + 1] /\ handle < MaxHandle
        BY <1>0, <2>1, <3>2 DEF Subscribe, NextHandle, recorderVars
      <4>2. m \in Requests /\ m.op = "start" /\ m.handle = handle + 1
        BY <3>1, <4>1 DEF Request, Requests, Handles
      <4>3. Item(m) = [key |-> keyOf[r], handle |-> handle + 1]
        BY DEF Item, Request
      <4>4. \A i \in 1..Len(requests) : requests[i].handle # m.handle
        <5>1. \A i \in 1..Len(requests) : requests[i] \in Requests /\ requests[i].handle <= handle
          BY ElementOfSeq DEF Sequenced, Queued, Asked
        <5>2. \A i \in 1..Len(requests) : requests[i].handle \in Nat
          BY <5>1 DEF Requests, Handles
        <5> QED BY <3>1, <4>2, <5>1, <5>2
      <4>5. Previews' = Previews \union {Item(m)}
        BY <3>1, <3>2, <4>1, <4>3 DEF Previews, TypeOK
      <4> HIDE DEF m
      <4> QED BY <2>0, <4>1, <4>2, <4>4, <4>5, ResultStart DEF Sequenced
    <3>3. CASE preview[keyOf[r]] # NoHandle
      BY <2>0, <2>1, <3>3 DEF Subscribe, recorderVars, Previews
    <3> QED BY <3>2, <3>3
  <2>2. ASSUME NEW r \in Readers, NEW c \in {r, "demux"}, Remove(r, c), r \in readers[keyOf[r]],
               serving' = serving
        PROVE  Result(requests', serving') = Previews'
    <3>1. CASE readers[keyOf[r]] # {r}
      <4>1. preview' = preview /\ requests' = requests
        BY <2>2, <3>1, RemoveAsks
      <4> QED BY <2>0, <2>2, <4>1 DEF Previews
    <3>2. CASE readers[keyOf[r]] = {r}
      <4> DEFINE m == Request("stop", keyOf[r], preview[keyOf[r]])
      <4>1. /\ requests' = Append(requests, m) /\ m \in Requests /\ keyOf[r] \in Keys
            /\ preview' = [preview EXCEPT ![keyOf[r]] = NoHandle] /\ preview[keyOf[r]] \in Handles
        BY <1>0, <2>2, <3>2, RemoveAsks
      <4>2. m.op = "stop" /\ Item(m) = [key |-> keyOf[r], handle |-> preview[keyOf[r]]]
        BY DEF Item, Request
      <4>3. Previews' = Previews \ {Item(m)}
        BY <4>1, <4>2 DEF Previews, TypeOK
      <4> HIDE DEF m
      <4> QED BY <2>0, <2>2, <4>1, <4>2, <4>3, ResultStop DEF Sequenced
    <3> QED BY <3>1, <3>2
  <2>3. CASE UNCHANGED <<requests, serving, preview>>
    BY <2>0, <2>3 DEF Previews
  <2>4. ASSUME NEW r \in Readers, ReaderStep(r) PROVE Result(requests', serving') = Previews'
    <3>1. CASE SubscribeFails(r) \/ Take(r) \/ Quit(r)
      BY <2>3, <3>1 DEF SubscribeFails, Take, Quit, sharedVars, recorderVars
    <3>2. CASE Unsubscribe(r)
      <4>1. CASE r \in readers[keyOf[r]]
        BY <2>2, <3>2, <4>1 DEF Unsubscribe, recorderVars
      <4>2. CASE r \notin readers[keyOf[r]]
        BY <2>3, <3>2, <4>2 DEF Unsubscribe, recorderVars
      <4> QED BY <4>1, <4>2
    <3> QED BY <2>1, <2>4, <3>1, <3>2 DEF ReaderStep
  <2>5. CASE DemuxStep
    <3>1. CASE DropVictim
      <4>1. CASE victim \in readers[keyOf[victim]]
        BY <2>2, <3>1, <4>1 DEF DropVictim, recorderVars, Ends
      <4>2. CASE victim \notin readers[keyOf[victim]]
        BY <2>3, <3>1, <4>2 DEF DropVictim, recorderVars
      <4> QED BY <4>1, <4>2
    <3>2. CASE Route \/ HandedAll
      BY <2>3, <3>2 DEF Route, HandedAll, sharedVars, recorderVars
    <3>3. ASSUME NEW r \in Readers, Deliver(r) \/ Stall(r) \/ EndOne(r)
          PROVE  Result(requests', serving') = Previews'
      BY <2>3, <3>3 DEF Deliver, Stall, EndOne, sharedVars, recorderVars
    <3>4. CASE ConnectionOver
      BY <1>0, <3>4 DEF ConnectionOver
    <3> QED BY <2>5, <3>1, <3>2, <3>3, <3>4 DEF DemuxStep
  <2>6. CASE TakeRequest
    <3>1. requests # <<>> /\ requests' = Tail(requests) /\ preview' = preview
      BY <2>6 DEF TakeRequest, sharedVars
    <3>2. serving' = IF Head(requests).op = "start" THEN serving \union {Item(Head(requests))}
                     ELSE serving \ {Item(Head(requests))}
      BY <2>6 DEF TakeRequest, Item
    <3>3. \A j \in 2..Len(requests) : requests[j].op = "start" => requests[1].handle < requests[j].handle
      <4>1. Len(requests) \in Nat
        BY LenProperties DEF Sequenced
      <4>2. \A j \in 2..Len(requests) : j \in Asked /\ 1 \in Asked /\ 1 < j
        BY <4>1 DEF Asked
      <4> QED BY <4>2 DEF Queued, IsStart
    <3>4. Result(requests', serving') = Result(requests, serving)
      BY <3>1, <3>2, <3>3, ResultTaken DEF Sequenced
    <3> QED BY <2>0, <3>1, <3>4 DEF Previews
  <2>7. ASSUME NEW k \in Keys, NEW h \in Handles, SendMedia([key |-> k, handle |-> h])
        PROVE  Result(requests', serving') = Previews'
    BY <2>3, <2>7 DEF SendMedia, sharedVars
  <2>8. ASSUME NEW c \in Readers \union {"demux"}, CloseIfIdle(c)
        PROVE  Result(requests', serving') = Previews'
    BY <2>3, <2>8 DEF CloseIfIdle, recorderVars
  <2>9. CASE LineFails \/ UNCHANGED vars
    BY <2>3, <2>9 DEF LineFails, vars, sharedVars, recorderVars
  <2> QED BY <2>4, <2>5, <2>6, <2>7, <2>8, <2>9 DEF Next
<1>1. line = "up" /\ closed = "open"
  BY DEF Next, ReaderStep, DemuxStep, vars, sharedVars, readerVars, queueVars, demuxVars, recorderVars,
     Subscribe, SubscribeFails, Take, Quit, Unsubscribe, CloseIfIdle, Route, DropVictim, HandedAll,
     ConnectionOver, Deliver, Stall, EndOne, TakeRequest, SendMedia, LineFails
<1> QED BY <1>0, <1>1

\* The connection is orderly in every state: a reader's channel is closed
\* once, and the recorder asked for a preview once and told to stop it once.
THEOREM OrderlyCorrect == Spec => []Orderly
<1>1. Init => OrderInv
  BY InitInv DEF IInv
<1>2. OrderInv /\ [Next]_vars => OrderInv'
  BY TypeStep, SequencedStep, AttachedStep, EndsStep, QueuedStep, AskedOnceStep DEF OrderInv, Types
<1>3. OrderInv => Orderly
  BY DEF OrderInv, Orderly, Types, Ends, EndedOnce
<1> QED BY <1>1, <1>2, <1>3, PTL DEF Spec

-----------------------------------------------------------------------------
\* What a step is to the recorder: a start or a stop is asked for, one is
\* taken, a message is sent, routed or lost, or nothing of it changes.
LastLeaves(r) ==
  LET k == keyOf[r]
      stop == Request("stop", k, preview[k])
  IN /\ k \in Keys /\ preview[k] \in Handles /\ stop \in Requests
     /\ preview' = [preview EXCEPT ![k] = NoHandle]
     /\ info' = [info EXCEPT ![k] = NoHandle]
     /\ line = "up" => requests' = Append(requests, stop)
     /\ line # "up" => requests' = requests
     /\ UNCHANGED <<handle, serving, sent, wire, line>>

FirstComes(r) ==
  LET k == keyOf[r]
      start == Request("start", k, handle + 1)
  IN /\ k \in Keys /\ preview[k] = NoHandle /\ start \in Requests /\ start.handle = handle + 1
     /\ handle \in Nat /\ handle + 1 \in Handles
     /\ handle' = handle + 1
     /\ preview' = [preview EXCEPT ![k] = handle + 1]
     /\ line = "up" => requests' = Append(requests, start)
     /\ line # "up" => requests' = requests
     /\ UNCHANGED <<info, serving, sent, wire, line>>

Quiet ==
  /\ UNCHANGED <<handle, preview, info, requests, serving, sent, wire>>
  /\ line' \in {line, "down"}

\* Every step is one of those.
LEMMA StepKinds ==
  ASSUME Types, Ends, [Next]_vars
  PROVE  \/ \E r \in Readers : FirstComes(r)
         \/ \E r \in Readers : LastLeaves(r)
         \/ Route \/ TakeRequest \/ LineFails \/ ConnectionOver
         \/ \E k \in Keys, h \in Handles : SendMedia([key |-> k, handle |-> h])
         \/ Quiet
<1> DEFINE Kind == \/ \E r \in Readers : FirstComes(r)
                   \/ \E r \in Readers : LastLeaves(r)
                   \/ Route \/ TakeRequest \/ LineFails \/ ConnectionOver
                   \/ \E k \in Keys, h \in Handles : SendMedia([key |-> k, handle |-> h])
                   \/ Quiet
<1> SUFFICES Kind
  OBVIOUS
<1> USE SharedAssumption
<1>0. TypeOK /\ Sequenced /\ Attached
  BY DEF Types
<1>1. ASSUME NEW r \in Readers, Subscribe(r) PROVE Kind
  <2>1. CASE preview[keyOf[r]] = NoHandle
    <3>1. keyOf[r] \in Keys /\ handle \in Nat /\ handle < MaxHandle
      BY <1>0, <1>1, <2>1 DEF Subscribe, TypeOK
    <3>2. Request("start", keyOf[r], handle + 1) \in Requests /\ handle + 1 \in Handles
      BY <3>1 DEF Request, Requests, Handles
    <3>3. FirstComes(r)
      BY <1>1, <2>1, <3>1, <3>2 DEF FirstComes, Subscribe, NextHandle, Request, recorderVars
    <3> QED BY <3>3
  <2>2. CASE preview[keyOf[r]] # NoHandle
    BY <1>1, <2>2 DEF Quiet, Subscribe, recorderVars
  <2> QED BY <2>1, <2>2
<1>2. ASSUME NEW r \in Readers, NEW c \in {r, "demux"}, Remove(r, c), r \in readers[keyOf[r]],
             UNCHANGED <<closed, handle, serving, sent, wire, line>>
      PROVE  Kind
  <2>1. CASE readers[keyOf[r]] = {r}
    <3>1. closed = "open" \/ line # "up"
      BY <1>0 DEF Attached, TypeOK
    <3>2. LastLeaves(r)
      <4>1. info' = [info EXCEPT ![keyOf[r]] = NoHandle]
        BY <1>2, <2>1 DEF Remove
      <4> QED BY <1>0, <1>2, <2>1, <3>1, <4>1, RemoveAsks DEF LastLeaves
    <3> QED BY <3>2
  <2>2. CASE readers[keyOf[r]] # {r}
    <3>1. info' = info
      BY <1>2, <2>2 DEF Remove
    <3> QED BY <1>0, <1>2, <2>2, <3>1, RemoveAsks DEF Quiet
  <2> QED BY <2>1, <2>2
<1>3. ASSUME NEW r \in Readers, ReaderStep(r) PROVE Kind
  <2>1. CASE SubscribeFails(r) \/ Take(r) \/ Quit(r)
    BY <2>1 DEF Quiet, SubscribeFails, Take, Quit, sharedVars, recorderVars
  <2>2. CASE Unsubscribe(r)
    <3>1. CASE r \in readers[keyOf[r]]
      BY <1>2, <2>2, <3>1 DEF Unsubscribe, recorderVars
    <3>2. CASE r \notin readers[keyOf[r]]
      BY <2>2, <3>2 DEF Quiet, Unsubscribe, recorderVars
    <3> QED BY <3>1, <3>2
  <2> QED BY <1>1, <1>3, <2>1, <2>2 DEF ReaderStep
<1>4. CASE DemuxStep
  <2>1. CASE DropVictim
    <3>1. CASE victim \in readers[keyOf[victim]]
      BY <1>2, <2>1, <3>1 DEF DropVictim, recorderVars, Ends
    <3>2. CASE victim \notin readers[keyOf[victim]]
      BY <2>1, <3>2 DEF Quiet, DropVictim, recorderVars
    <3> QED BY <3>1, <3>2
  <2>2. CASE HandedAll
    BY <2>2 DEF Quiet, HandedAll, sharedVars, recorderVars
  <2>3. ASSUME NEW r \in Readers, Deliver(r) \/ Stall(r) \/ EndOne(r) PROVE Kind
    BY <2>3 DEF Quiet, Deliver, Stall, EndOne, sharedVars, recorderVars
  <2> QED BY <1>4, <2>1, <2>2, <2>3 DEF DemuxStep
<1>5. ASSUME NEW c \in Readers \union {"demux"}, CloseIfIdle(c) PROVE Kind
  BY <1>5 DEF Quiet, CloseIfIdle, recorderVars
<1>6. CASE UNCHANGED vars
  BY <1>6 DEF Quiet, vars, sharedVars, recorderVars
<1> QED BY <1>3, <1>4, <1>5, <1>6 DEF Next

\* The queue of requests with one more at its end, and without its head.
Grown(m) ==
  /\ Len(requests') = Len(requests) + 1 /\ Len(requests) \in Nat
  /\ \A i \in Asked : i \in Asked' /\ requests'[i] = requests[i] /\ i < Len(requests')
  /\ \A i \in Asked' : i \in Asked \/ i = Len(requests')
  /\ Len(requests') \in Asked' /\ requests'[Len(requests')] = m

\* That is the queue with one more request.
LEMMA Growing ==
  ASSUME Sequenced, NEW m \in Requests, requests' = Append(requests, m)
  PROVE  Grown(m)
<1>1. /\ Len(requests') = Len(requests) + 1 /\ Len(requests) \in Nat
      /\ \A i \in 1..Len(requests) : requests'[i] = requests[i]
      /\ requests'[Len(requests) + 1] = m
  BY AppendProperties DEF Sequenced
<1> QED BY <1>1 DEF Grown, Asked

Shrunk ==
  /\ 1 \in Asked /\ Head(requests) = requests[1]
  /\ \A i \in Asked' : i + 1 \in Asked /\ 1 < i + 1 /\ requests'[i] = requests[i + 1]
  /\ \A i \in Asked : i \in Nat /\ (i = 1 \/ (i - 1 \in Asked' /\ requests'[i - 1] = requests[i]))
  /\ \A i \in Asked' : i \in Nat

\* That is the queue after one was taken.
LEMMA Shrinking == ASSUME Sequenced, TakeRequest PROVE Shrunk
<1>1. /\ Len(requests') = Len(requests) - 1 /\ Len(requests) \in Nat \ {0}
      /\ \A i \in 1..Len(requests') : requests'[i] = requests[i + 1]
      /\ Head(requests) = requests[1]
  BY HeadTailProperties DEF TakeRequest, Sequenced
<1>2. \A i \in Asked' : i + 1 \in Asked /\ 1 < i + 1 /\ requests'[i] = requests[i + 1]
  BY <1>1 DEF Asked
<1>3. ASSUME NEW i \in Asked, i # 1 PROVE i - 1 \in Asked' /\ requests'[i - 1] = requests[i]
  <2>1. i - 1 \in 1..Len(requests') /\ (i - 1) + 1 = i
    BY <1>1, <1>3 DEF Asked
  <2> QED BY <1>1, <2>1 DEF Asked
<1> QED BY <1>1, <1>2, <1>3 DEF Shrunk, Asked

\* What is asked for again has been asked to stop in between.
LEMMA StoppedBetween ==
  ASSUME Types, Queued, AskedOnce, line = "up", NEW k \in Keys, preview[k] = NoHandle
  PROVE  /\ \A i \in Asked : IsStart(i) /\ requests[i].key = k =>
              \E l \in Asked : i < l /\ requests[l].op = "stop" /\ Asks(l) = Asks(i)
         /\ \A s \in serving : s.key = k =>
              \E l \in Asked : requests[l].op = "stop" /\ Asks(l) = s
<1>1. Result(requests, serving) = Previews
  BY OutcomeIs DEF AskedOnce, Previews, Types, Attached, TypeOK
<1>2. \A x : x \in Previews => x.key # k
  BY DEF Previews
<1>3. \A i \in Asked : Item(requests[i]) = Asks(i) /\ requests[i] \in Requests
  BY ElementOfSeq DEF Item, Asks, Asked, Types, Sequenced
<1>4. ASSUME NEW i \in Asked, IsStart(i), requests[i].key = k
      PROVE  \E l \in Asked : i < l /\ requests[l].op = "stop" /\ Asks(l) = Asks(i)
  <2>1. Asks(i) \notin Result(requests, serving)
    BY <1>1, <1>2, <1>4 DEF Asks
  <2>2. PICK l \in Asked : requests[l].op = "stop" /\ Asks(l) = Asks(i)
    BY <1>3, <1>4, <2>1 DEF Result, IsStart, Asked
  <2>3. l # i /\ requests[l].handle = requests[i].handle
    BY <1>4, <2>2 DEF IsStart, Asks
  <2>4. ~(l < i)
    <3>1. requests[l].handle \in Nat
      BY <1>3 DEF Requests, Handles
    <3> QED BY <1>4, <2>3, <3>1 DEF Queued
  <2>5. i < l
    BY <2>3, <2>4 DEF Asked
  <2> QED BY <2>2, <2>5
<1>5. ASSUME NEW s \in serving, s.key = k
      PROVE  \E l \in Asked : requests[l].op = "stop" /\ Asks(l) = s
  <2>1. s \notin Result(requests, serving)
    BY <1>1, <1>2, <1>5
  <2> QED BY <1>3, <2>1 DEF Result, Asked
<1> QED BY <1>4, <1>5

\* The recorder is asked to stop a preview of a key before it is asked for the next.
LEMMA AlternatingStep ==
  ASSUME Types, Ends, Queued, AskedOnce, Alternating, [Next]_vars
  PROVE  Alternating'
<1>0. TypeOK /\ Sequenced /\ Attached
  BY DEF Types
<1>1. ASSUME NEW r \in Readers, FirstComes(r) PROVE Alternating'
  <2> SUFFICES ASSUME line' = "up" PROVE Alternating'
    BY DEF Alternating
  <2> DEFINE m == Request("start", keyOf[r], handle + 1)
  <2>1. requests' = Append(requests, m) /\ m \in Requests /\ m.op = "start" /\ m.key = keyOf[r]
    BY <1>1 DEF FirstComes, Request
  <2>2. line = "up" /\ serving' = serving /\ keyOf[r] \in Keys /\ preview[keyOf[r]] = NoHandle
    BY <1>1 DEF FirstComes
  <2> HIDE DEF m
  <2>3. Grown(m)
    BY <1>0, <2>1, Growing
  <2>4. \A i \in Asked : (IsStart(i) <=> IsStart(i)') /\ Asks(i)' = Asks(i)
    BY <2>3 DEF Grown, IsStart, Asks
  <2>5. ASSUME NEW j \in Asked', IsStart(j)', NEW i \in Asked', i < j, IsStart(i)',
               requests'[i].key = requests'[j].key
        PROVE  \E l \in Asked' : i < l /\ l < j /\ requests'[l].op = "stop" /\ Asks(l)' = Asks(i)'
    <3>1. CASE j \in Asked
      <4>1. i \in Asked
        BY <2>3, <2>5, <3>1 DEF Grown, Asked
      <4>2. PICK l \in Asked : i < l /\ l < j /\ requests[l].op = "stop" /\ Asks(l) = Asks(i)
        BY <2>2, <2>3, <2>4, <2>5, <3>1, <4>1 DEF Alternating, Grown
      <4> QED BY <2>3, <2>4, <4>1, <4>2 DEF Grown
    <3>2. CASE j = Len(requests')
      <4>1. i \in Asked
        BY <2>3, <2>5, <3>2 DEF Grown, Asked
      <4>2. requests[i].key = keyOf[r] /\ IsStart(i)
        BY <2>1, <2>3, <2>4, <2>5, <3>2, <4>1 DEF Grown
      <4>3. PICK l \in Asked : i < l /\ requests[l].op = "stop" /\ Asks(l) = Asks(i)
        BY <2>2, <4>1, <4>2, StoppedBetween
      <4> QED BY <2>3, <2>4, <3>2, <4>1, <4>3 DEF Grown
    <3> QED BY <2>3, <3>1, <3>2 DEF Grown
  <2>6. ASSUME NEW j \in Asked', IsStart(j)', NEW s \in serving', s.key = requests'[j].key
        PROVE  \E l \in Asked' : l < j /\ requests'[l].op = "stop" /\ Asks(l)' = s
    <3>1. CASE j \in Asked
      <4>1. PICK l \in Asked : l < j /\ requests[l].op = "stop" /\ Asks(l) = s
        BY <2>2, <2>3, <2>4, <2>6, <3>1 DEF Alternating, Grown
      <4> QED BY <2>3, <2>4, <4>1 DEF Grown
    <3>2. CASE j = Len(requests')
      <4>1. s \in serving /\ s.key = keyOf[r]
        BY <2>1, <2>2, <2>3, <2>6, <3>2 DEF Grown
      <4>2. PICK l \in Asked : requests[l].op = "stop" /\ Asks(l) = s
        BY <2>2, <4>1, StoppedBetween
      <4> QED BY <2>3, <2>4, <3>2, <4>2 DEF Grown
    <3> QED BY <2>3, <3>1, <3>2 DEF Grown
  <2> QED BY <2>2, <2>5, <2>6 DEF Alternating
<1>2. ASSUME NEW r \in Readers, LastLeaves(r) PROVE Alternating'
  <2> SUFFICES ASSUME line' = "up" PROVE Alternating'
    BY DEF Alternating
  <2> DEFINE m == Request("stop", keyOf[r], preview[keyOf[r]])
  <2>1. requests' = Append(requests, m) /\ m \in Requests /\ m.op = "stop"
    BY <1>2 DEF LastLeaves, Request
  <2>2. line = "up" /\ serving' = serving
    BY <1>2 DEF LastLeaves
  <2> HIDE DEF m
  <2>3. Grown(m)
    BY <1>0, <2>1, Growing
  <2>4. \A i \in Asked : (IsStart(i) <=> IsStart(i)') /\ Asks(i)' = Asks(i)
    BY <2>3 DEF Grown, IsStart, Asks
  <2>5. \A j \in Asked' : IsStart(j)' => j \in Asked
    BY <2>1, <2>3 DEF Grown, IsStart
  <2>6. ASSUME NEW j \in Asked', IsStart(j)', NEW i \in Asked', i < j, IsStart(i)',
               requests'[i].key = requests'[j].key
        PROVE  \E l \in Asked' : i < l /\ l < j /\ requests'[l].op = "stop" /\ Asks(l)' = Asks(i)'
    <3>1. j \in Asked /\ i \in Asked
      BY <2>5, <2>6
    <3>2. PICK l \in Asked : i < l /\ l < j /\ requests[l].op = "stop" /\ Asks(l) = Asks(i)
      BY <2>2, <2>3, <2>4, <2>6, <3>1 DEF Alternating, Grown
    <3> QED BY <2>3, <2>4, <3>1, <3>2 DEF Grown
  <2>7. ASSUME NEW j \in Asked', IsStart(j)', NEW s \in serving', s.key = requests'[j].key
        PROVE  \E l \in Asked' : l < j /\ requests'[l].op = "stop" /\ Asks(l)' = s
    <3>1. PICK l \in Asked : l < j /\ requests[l].op = "stop" /\ Asks(l) = s
      BY <2>2, <2>3, <2>4, <2>5, <2>7 DEF Alternating, Grown
    <3> QED BY <2>3, <2>4, <3>1 DEF Grown
  <2> QED BY <2>2, <2>6, <2>7 DEF Alternating
<1>3. CASE TakeRequest
  <2>1. Shrunk /\ line = "up"
    BY <1>0, <1>3, Shrinking DEF TakeRequest
  <2>2. serving' = IF IsStart(1) THEN serving \union {Asks(1)} ELSE serving \ {Asks(1)}
    BY <1>3, <2>1 DEF TakeRequest, Shrunk, IsStart, Asks
  <2>3. \A i \in Asked' : (IsStart(i)' <=> IsStart(i + 1)) /\ Asks(i)' = Asks(i + 1)
    BY <2>1 DEF Shrunk, IsStart, Asks
  <2>4. requests[1].op \in {"start", "stop"}
    <3>1. requests[1] \in Requests
      BY <1>0, <2>1, ElementOfSeq DEF Sequenced, Shrunk, Asked
    <3> QED BY <3>1 DEF Requests
  <2>5. ASSUME NEW s \in serving', NEW t \in serving', s.key = t.key PROVE s = t
    <3>1. ASSUME NEW x \in serving, IsStart(1) PROVE x.key # Asks(1).key
      BY <2>1, <3>1 DEF Alternating, Shrunk, Asked, Asks
    <3> QED BY <2>1, <2>2, <2>5, <3>1 DEF Alternating
  <2>6. ASSUME NEW j \in Asked', IsStart(j)', NEW i \in Asked', i < j, IsStart(i)',
               requests'[i].key = requests'[j].key
        PROVE  \E l \in Asked' : i < l /\ l < j /\ requests'[l].op = "stop" /\ Asks(l)' = Asks(i)'
    <3>1. i + 1 \in Asked /\ j + 1 \in Asked /\ i + 1 < j + 1 /\ i \in Nat /\ j \in Nat
      BY <2>1, <2>6 DEF Shrunk
    <3>2. PICK l \in Asked : i + 1 < l /\ l < j + 1 /\ requests[l].op = "stop" /\ Asks(l) = Asks(i + 1)
      BY <2>1, <2>3, <2>6, <3>1 DEF Alternating, Shrunk
    <3>3. l \in Nat /\ l # 1 /\ l - 1 \in Asked' /\ requests'[l - 1] = requests[l]
      BY <2>1, <3>1, <3>2 DEF Shrunk
    <3>4. i < l - 1 /\ l - 1 < j
      BY <3>1, <3>2, <3>3
    <3> QED BY <2>3, <3>2, <3>3, <3>4
  <2>7. ASSUME NEW j \in Asked', IsStart(j)', NEW s \in serving', s.key = requests'[j].key
        PROVE  \E l \in Asked' : l < j /\ requests'[l].op = "stop" /\ Asks(l)' = s
    <3>1. j + 1 \in Asked /\ IsStart(j + 1) /\ s.key = requests[j + 1].key /\ j \in Nat
      BY <2>1, <2>3, <2>7 DEF Shrunk
    <3>2. PICK l \in Asked : 1 < l /\ l < j + 1 /\ requests[l].op = "stop" /\ Asks(l) = s
      <4>1. CASE s \in serving
        <5>1. PICK l \in Asked : l < j + 1 /\ requests[l].op = "stop" /\ Asks(l) = s
          BY <2>1, <3>1, <4>1 DEF Alternating
        <5>2. l # 1
          BY <2>2, <2>7, <5>1 DEF IsStart
        <5> QED BY <5>1, <5>2 DEF Asked
      <4>2. CASE s \notin serving
        <5>1. IsStart(1) /\ s = Asks(1)
          BY <2>2, <2>7, <4>2
        <5>2. requests[1].key = requests[j + 1].key /\ 1 \in Asked /\ 1 < j + 1
          BY <2>1, <2>7, <3>1, <5>1 DEF Asks, Shrunk
        <5> QED BY <2>1, <3>1, <5>1, <5>2 DEF Alternating
      <4> QED BY <4>1, <4>2
    <3>3. l \in Nat /\ l - 1 \in Asked' /\ requests'[l - 1] = requests[l]
      BY <2>1, <3>2 DEF Shrunk
    <3>4. l - 1 < j /\ (l - 1) + 1 = l
      BY <3>1, <3>2, <3>3
    <3> QED BY <2>3, <3>2, <3>3, <3>4
  <2> QED BY <2>5, <2>6, <2>7 DEF Alternating
<1>4. CASE UNCHANGED <<requests, serving>> /\ line' \in {line, "down"}
  BY <1>4 DEF Alternating, Asked, IsStart, Asks
<1>5. CASE Route \/ LineFails \/ ConnectionOver \/ Quiet
  BY <1>4, <1>5 DEF Route, LineFails, ConnectionOver, Quiet, recorderVars
<1>6. ASSUME NEW k \in Keys, NEW h \in Handles, SendMedia([key |-> k, handle |-> h]) PROVE Alternating'
  BY <1>4, <1>6 DEF SendMedia
<1> QED BY <1>1, <1>2, <1>3, <1>5, <1>6, StepKinds

\* The wire with one more message, without its head, and cut short.
WireGrown(m) ==
  /\ Len(wire') = Len(wire) + 1 /\ Len(wire) \in Nat
  /\ \A i \in Wired : i \in Wired' /\ wire'[i] = wire[i] /\ i < Len(wire')
  /\ \A i \in Wired' : i \in Wired \/ i = Len(wire')
  /\ Len(wire') \in Wired' /\ wire'[Len(wire')] = m
  /\ \A i \in Wired' : i \in Nat /\ i < End'

\* The message the recorder sends.
Sends(k, h, m) ==
  /\ line = "up" /\ line' = line /\ [key |-> k, handle |-> h] \in serving
  /\ m \in Message /\ m.key = k /\ m.handle = h /\ m.n = sent[h] + 1 /\ m.kind \in Kinds(m.n)
  /\ sent' = [sent EXCEPT ![h] = @ + 1] /\ sent'[h] = m.n /\ sent[h] \in Nat
  /\ WireGrown(m)
  /\ UNCHANGED <<handle, preview, info, requests, serving>>

\* SendMedia sends such a message.
LEMMA Sent ==
  ASSUME Sequenced, NEW k \in Keys, NEW h \in Handles, SendMedia([key |-> k, handle |-> h])
  PROVE  \E m \in Message : Sends(k, h, m)
<1>1. /\ sent' = [sent EXCEPT ![h] = @ + 1] /\ sent[h] \in Nat
      /\ line = "up" /\ line' = line /\ [key |-> k, handle |-> h] \in serving
      /\ UNCHANGED <<handle, preview, info, requests, serving>>
  BY DEF SendMedia, Sequenced, sharedVars
<1>2. sent'[h] = sent[h] + 1 /\ sent'[h] \in Nat
  BY <1>1 DEF Sequenced
<1>3. PICK kind \in Kinds(sent'[h]) :
        wire' = Append(wire, [key |-> k, handle |-> h, n |-> sent'[h], kind |-> kind])
  BY DEF SendMedia
<1> DEFINE m == [key |-> k, handle |-> h, n |-> sent'[h], kind |-> kind]
<1>4. m \in Message /\ m.key = k /\ m.handle = h /\ m.n = sent'[h] /\ m.kind = kind
  BY <1>2 DEF Message, Kinds
<1> HIDE DEF m
<1>5. /\ Len(wire') = Len(wire) + 1 /\ Len(wire) \in Nat
      /\ \A i \in 1..Len(wire) : wire'[i] = wire[i]
      /\ wire'[Len(wire) + 1] = m
  BY <1>3, <1>4, AppendProperties DEF Sequenced, m
<1>6. WireGrown(m)
  BY <1>5 DEF WireGrown, Wired, End
<1> QED BY <1>1, <1>2, <1>3, <1>4, <1>6 DEF Sends

WireShrunk ==
  /\ 1 \in Wired /\ Head(wire) = wire[1]
  /\ \A i \in Wired' : i \in Nat /\ i + 1 \in Wired /\ 1 < i + 1 /\ wire'[i] = wire[i + 1]
  /\ \A i \in Wired : i \in Nat /\ (i = 1 \/ (i - 1 \in Wired' /\ wire'[i - 1] = wire[i]))
  /\ End' = End - 1 /\ End \in Nat /\ \A i \in Wired : i < End

\* Route takes the head of the wire.
LEMMA Routing == ASSUME Sequenced, Route PROVE WireShrunk /\ Head(wire) \in Message
<1>1. /\ Len(wire') = Len(wire) - 1 /\ Len(wire) \in Nat \ {0}
      /\ \A i \in 1..Len(wire') : wire'[i] = wire[i + 1]
      /\ Head(wire) = wire[1] /\ Head(wire) \in Message
  BY HeadTailProperties DEF Route, Sequenced
<1>2. \A i \in Wired' : i + 1 \in Wired /\ 1 < i + 1 /\ wire'[i] = wire[i + 1]
  BY <1>1 DEF Wired
<1>3. ASSUME NEW i \in Wired, i # 1 PROVE i - 1 \in Wired' /\ wire'[i - 1] = wire[i]
  <2>1. i - 1 \in 1..Len(wire') /\ (i - 1) + 1 = i
    BY <1>1, <1>3 DEF Wired
  <2> QED BY <1>1, <2>1 DEF Wired
<1> QED BY <1>1, <1>2, <1>3 DEF WireShrunk, Wired, End

WireCut == \A i \in Wired' : i \in Wired /\ i \in Nat /\ wire'[i] = wire[i] /\ \A j \in Wired : j < i => j \in Wired'

\* When the line fails the wire is cut short.
LEMMA Cutting == ASSUME Sequenced, LineFails PROVE WireCut /\ line' = "down"
<1>1. PICK n \in 0..Len(wire) : wire' = SubSeq(wire, 1, n)
  BY DEF LineFails
<1>2. Len(wire) \in Nat /\ \A i \in 1..n : wire[i] \in Message
  BY ElementOfSeq, LenProperties DEF Sequenced
<1>3. Len(wire') = n /\ \A i \in 1..n : wire'[i] = wire[i]
  BY <1>1, <1>2, SubSeqProperties
<1> QED BY <1>2, <1>3 DEF WireCut, Wired, LineFails

\* Whatever is on the wire is of a preview that has been started.
LEMMA WireKnown ==
  ASSUME Sequenced, TypeOK, Sending, OnWire, NEW i \in Wired
  PROVE  /\ wire[i] \in Message /\ wire[i].key \in Keys /\ wire[i].handle \in Handles /\ wire[i].n \in Nat
         /\ wire[i].handle \in Nat /\ wire[i].handle <= handle /\ handle \in Nat
         /\ 1 <= wire[i].n /\ wire[i].n <= sent[wire[i].handle] /\ sent[wire[i].handle] \in Nat
<1>1. wire[i] \in Message
  BY ElementOfSeq DEF Sequenced, Wired
<1>2. /\ wire[i].key \in Keys /\ wire[i].handle \in Handles /\ wire[i].n \in Nat
      /\ wire[i].handle \in Nat /\ handle \in Nat
  BY <1>1, SharedAssumption DEF Message, Handles, TypeOK
<1>3. 1 <= wire[i].n /\ wire[i].n <= sent[wire[i].handle] /\ sent[wire[i].handle] \in Nat
  BY <1>2 DEF Sending, OnWire, IsKind, Sequenced
<1>4. wire[i].handle <= handle
  BY <1>2, <1>3 DEF Sending
<1> QED BY <1>1, <1>2, <1>3, <1>4

\* No request and no preview being sent has a handle yet to be given.
LEMMA AskedKnown ==
  ASSUME Sequenced, TypeOK, Queued
  PROVE  /\ \A j \in Asked : /\ requests[j] \in Requests /\ requests[j].handle \in Handles
                            /\ requests[j].handle \in Nat /\ requests[j].handle <= handle
         /\ \A s \in serving : s.key \in Keys /\ s.handle \in Handles /\ s.handle \in Nat /\ s.handle <= handle
         /\ \A k \in Keys : preview[k] \in Nat /\ preview[k] <= handle
         /\ handle \in Nat
<1>1. \A j \in Asked : requests[j] \in Requests
  BY ElementOfSeq DEF Sequenced, Asked
<1> QED BY <1>1, SharedAssumption DEF Requests, Handles, TypeOK, Queued

\* A preview has one key, from its start to its last message.
LEMMA OneKeyEachStep ==
  ASSUME Types, Ends, Queued, OneKeyEach, Sending, OnWire, [Next]_vars
  PROVE  OneKeyEach'
<1>0. TypeOK /\ Sequenced /\ Attached
  BY DEF Types
<1>1. ASSUME NEW r \in Readers, FirstComes(r) PROVE OneKeyEach'
  <2> SUFFICES ASSUME NEW k \in Keys, preview'[k] # NoHandle
               PROVE  /\ \A i \in Wired : wire[i].handle = preview'[k] => wire[i].key = k
                      /\ \A s \in serving : s.handle = preview'[k] => s.key = k
                      /\ \A j \in Asked' : IsStart(j)' /\ requests'[j].handle = preview'[k]
                                           => requests'[j].key = k
    BY <1>1 DEF OneKeyEach, FirstComes, Wired
  <2> DEFINE m == Request("start", keyOf[r], handle + 1)
  <2>1. m \in Requests /\ m.op = "start" /\ m.key = keyOf[r] /\ m.handle = handle + 1
    BY <1>1 DEF FirstComes, Request
  <2>2. /\ line = "up" => requests' = Append(requests, m)
        /\ line # "up" => requests' = requests
        /\ preview' = [preview EXCEPT ![keyOf[r]] = handle + 1] /\ keyOf[r] \in Keys
    BY <1>1 DEF FirstComes
  <2> HIDE DEF m
  <2>3. \A j \in Asked' : \/ j \in Asked /\ requests'[j] = requests[j] /\ (IsStart(j)' <=> IsStart(j))
                         \/ requests'[j] = m
    <3>1. line = "up" => Grown(m)
      BY <1>0, <2>1, <2>2, Growing
    <3> QED BY <2>2, <3>1 DEF Grown, IsStart, Asked
  <2>4. CASE k = keyOf[r]
    <3>1. preview'[k] = handle + 1
      BY <1>0, <2>2, <2>4 DEF TypeOK
    <3>2. \A i \in Wired : wire[i].handle # handle + 1
      BY <1>0, WireKnown
    <3>3. \A s \in serving : s.handle # handle + 1
      BY <1>0, AskedKnown
    <3>4. \A j \in Asked : requests[j].handle # handle + 1
      BY <1>0, AskedKnown
    <3> QED BY <2>1, <2>3, <2>4, <3>1, <3>2, <3>3, <3>4
  <2>5. CASE k # keyOf[r]
    <3>1. preview'[k] = preview[k]
      BY <1>0, <2>2, <2>5 DEF TypeOK
    <3>2. preview[k] # m.handle
      BY <1>0, <2>1, AskedKnown
    <3> QED BY <2>3, <3>1, <3>2 DEF OneKeyEach
  <2> QED BY <2>4, <2>5
<1>2. ASSUME NEW r \in Readers, LastLeaves(r) PROVE OneKeyEach'
  <2> DEFINE m == Request("stop", keyOf[r], preview[keyOf[r]])
  <2>1. m \in Requests /\ m.op = "stop"
    BY <1>2 DEF LastLeaves, Request
  <2>2. /\ line = "up" => requests' = Append(requests, m)
        /\ line # "up" => requests' = requests
        /\ preview' = [preview EXCEPT ![keyOf[r]] = NoHandle] /\ keyOf[r] \in Keys
        /\ UNCHANGED <<serving, wire>>
    BY <1>2 DEF LastLeaves
  <2> HIDE DEF m
  <2>3. \A j \in Asked' : IsStart(j)' => j \in Asked /\ requests'[j] = requests[j] /\ IsStart(j)
    <3>1. line = "up" => Grown(m)
      BY <1>0, <2>1, <2>2, Growing
    <3> QED BY <2>1, <2>2, <3>1 DEF Grown, IsStart, Asked
  <2>4. \A k \in Keys : preview'[k] # NoHandle => preview'[k] = preview[k]
    BY <1>0, <2>2 DEF TypeOK
  <2> QED BY <2>2, <2>3, <2>4 DEF OneKeyEach, Wired
<1>3. CASE TakeRequest
  <2>1. Shrunk /\ UNCHANGED <<preview, wire>>
    BY <1>0, <1>3, Shrinking DEF TakeRequest, sharedVars
  <2>2. \A s \in serving' : s \in serving \/ (IsStart(1) /\ s = Asks(1))
    BY <1>3, <2>1 DEF TakeRequest, Shrunk, IsStart, Asks
  <2>3. \A i \in Asked' : (IsStart(i)' <=> IsStart(i + 1))
    BY <2>1 DEF Shrunk, IsStart
  <2> QED BY <2>1, <2>2, <2>3 DEF OneKeyEach, Shrunk, Asks, Wired
<1>4. CASE ConnectionOver
  BY <1>4 DEF ConnectionOver, OneKeyEach
<1>5. CASE Route
  <2>1. WireShrunk /\ UNCHANGED <<preview, serving, requests>>
    BY <1>0, <1>5, Routing DEF Route, recorderVars
  <2> QED BY <2>1 DEF WireShrunk, OneKeyEach, IsStart, Asked
<1>6. CASE LineFails
  <2>1. WireCut /\ UNCHANGED <<preview, serving, requests>>
    BY <1>0, <1>6, Cutting DEF LineFails, recorderVars, sharedVars
  <2> QED BY <2>1 DEF WireCut, OneKeyEach, IsStart, Asked
<1>7. ASSUME NEW k \in Keys, NEW h \in Handles, SendMedia([key |-> k, handle |-> h]) PROVE OneKeyEach'
  <2>1. PICK m \in Message : Sends(k, h, m)
    BY <1>0, <1>7, Sent
  <2>2. \A i \in Wired' : (i \in Wired /\ wire'[i] = wire[i]) \/ wire'[i] = m
    BY <2>1 DEF Sends, WireGrown
  <2>3. \A j \in Keys : preview[j] # NoHandle /\ m.handle = preview[j] => m.key = j
    BY <2>1 DEF OneKeyEach, Sends
  <2>4. UNCHANGED <<preview, serving, requests>>
    BY <2>1 DEF Sends
  <2> QED BY <2>2, <2>3, <2>4 DEF OneKeyEach, IsStart, Asked
<1>8. CASE Quiet
  BY <1>8 DEF Quiet, OneKeyEach, IsStart, Asked, Wired
<1> QED BY <1>1, <1>2, <1>3, <1>4, <1>5, <1>6, <1>7, <1>8, StepKinds

\* What is on the wire was sent, and what is yet to be started was not.
LEMMA SendingStep ==
  ASSUME Types, Ends, Queued, Sending, OnWire, [Next]_vars
  PROVE  Sending'
<1>0. TypeOK /\ Sequenced /\ Attached
  BY DEF Types
<1>1. ASSUME NEW r \in Readers, FirstComes(r) PROVE Sending'
  <2> DEFINE m == Request("start", keyOf[r], handle + 1)
  <2>1. /\ m \in Requests /\ m.op = "start" /\ m.handle = handle + 1 /\ handle + 1 \in Handles
        /\ handle \in Nat /\ handle' = handle + 1
    BY <1>1 DEF FirstComes, Request
  <2>2. /\ line = "up" => requests' = Append(requests, m)
        /\ line # "up" => requests' = requests
        /\ UNCHANGED <<wire, sent, info>>
    BY <1>1 DEF FirstComes
  <2> HIDE DEF m
  <2>3. \A j \in Asked' : \/ j \in Asked /\ requests'[j] = requests[j] /\ (IsStart(j)' <=> IsStart(j))
                         \/ requests'[j] = m
    <3>1. line = "up" => Grown(m)
      BY <1>0, <2>1, <2>2, Growing
    <3> QED BY <2>2, <3>1 DEF Grown, IsStart, Asked
  <2>4. sent[handle + 1] = 0
    BY <2>1 DEF Sending
  <2>5. \A h \in Handles : h > handle' => sent'[h] = 0
    BY <2>1, <2>2 DEF Sending, Handles
  <2>6. \A j \in Asked' : IsStart(j)' => sent'[requests'[j].handle] = 0
    BY <2>1, <2>2, <2>3, <2>4 DEF Sending
  <2> QED BY <2>2, <2>5, <2>6 DEF Sending, Wired
<1>2. ASSUME NEW r \in Readers, LastLeaves(r) PROVE Sending'
  <2> DEFINE m == Request("stop", keyOf[r], preview[keyOf[r]])
  <2>1. m \in Requests /\ m.op = "stop"
    BY <1>2 DEF LastLeaves, Request
  <2>2. /\ line = "up" => requests' = Append(requests, m)
        /\ line # "up" => requests' = requests
        /\ info' = [info EXCEPT ![keyOf[r]] = NoHandle] /\ keyOf[r] \in Keys
        /\ UNCHANGED <<wire, sent, handle>>
    BY <1>2 DEF LastLeaves
  <2> HIDE DEF m
  <2>3. \A j \in Asked' : IsStart(j)' => j \in Asked /\ requests'[j] = requests[j] /\ IsStart(j)
    <3>1. line = "up" => Grown(m)
      BY <1>0, <2>1, <2>2, Growing
    <3> QED BY <2>1, <2>2, <3>1 DEF Grown, IsStart, Asked
  <2>4. \A k \in Keys : info'[k] # NoHandle => info'[k] = info[k]
    BY <1>0, <2>2 DEF TypeOK
  <2> QED BY <2>2, <2>3, <2>4 DEF Sending, Wired
<1>3. CASE TakeRequest
  <2>1. Shrunk /\ UNCHANGED <<info, wire, sent, handle>>
    BY <1>0, <1>3, Shrinking DEF TakeRequest, sharedVars
  <2>3. \A i \in Asked' : (IsStart(i)' <=> IsStart(i + 1))
    BY <2>1 DEF Shrunk, IsStart
  <2>4. \A j \in Asked' : IsStart(j)' => sent'[requests'[j].handle] = 0
    BY <2>1, <2>3 DEF Sending, Shrunk
  <2> QED BY <2>1, <2>4 DEF Sending, Wired
<1>4. CASE ConnectionOver
  <2>1. \A k \in Keys : info'[k] = NoHandle
    BY <1>4 DEF ConnectionOver
  <2> QED BY <1>4, <2>1 DEF ConnectionOver, Sending, recorderVars, IsStart, Asked, Wired
<1>5. CASE Route
  <2>1. WireShrunk /\ UNCHANGED <<handle, sent, requests>> /\ Head(wire) \in Message
    BY <1>0, <1>5, Routing DEF Route, recorderVars
  <2>2. sent[wire[1].handle] >= 1 /\ wire[1].handle \in Handles
    BY <1>0, <2>1, WireKnown DEF WireShrunk
  <2>3. \A k \in Keys : info'[k] = info[k] \/ info'[k] = wire[1].handle
    BY <1>0, <1>5, <2>1 DEF Route, TypeOK, Message, WireShrunk
  <2> QED BY <2>1, <2>2, <2>3 DEF WireShrunk, Sending, IsStart, Asked
<1>6. CASE LineFails
  <2>1. WireCut /\ UNCHANGED <<handle, info, sent, requests>>
    BY <1>0, <1>6, Cutting DEF LineFails, recorderVars, sharedVars
  <2> QED BY <2>1 DEF WireCut, Sending, IsStart, Asked
<1>7. ASSUME NEW k \in Keys, NEW h \in Handles, SendMedia([key |-> k, handle |-> h]) PROVE Sending'
  <2>1. PICK m \in Message : Sends(k, h, m)
    BY <1>0, <1>7, Sent
  <2>2. \A i \in Wired' : (i \in Wired /\ wire'[i] = wire[i]) \/ wire'[i] = m
    BY <2>1 DEF Sends, WireGrown
  <2>3. /\ sent' = [sent EXCEPT ![h] = @ + 1] /\ sent \in [Handles -> Nat]
        /\ m.handle = h /\ m.n = sent[h] + 1 /\ UNCHANGED <<handle, requests, info>>
    BY <1>0, <2>1 DEF Sends, Sequenced
  <2>4. \A x \in Handles : sent'[x] \in Nat /\ sent[x] \in Nat /\ sent[x] <= sent'[x]
                         /\ (x # h => sent'[x] = sent[x])
    BY <2>3
  <2>5. h <= handle /\ \A j \in Asked : IsStart(j) => h # requests[j].handle
    <3>1. [key |-> k, handle |-> h] \in serving
      BY <2>1 DEF Sends
    <3> QED BY <1>0, <3>1, AskedKnown DEF Queued
  <2>6. \A x \in Handles : x > handle => sent'[x] = 0
    BY <1>0, <2>4, <2>5 DEF Sending, TypeOK, Handles
  <2>7. \A j \in Asked : IsStart(j) => sent'[requests[j].handle] = 0
    BY <1>0, <2>4, <2>5, AskedKnown DEF Sending
  <2>8. \A i \in Wired' : wire'[i].n <= sent'[wire'[i].handle]
    <3>1. m.n <= sent'[m.handle]
      BY <2>3, <2>4
    <3>2. \A i \in Wired : wire[i].n <= sent'[wire[i].handle]
      BY <1>0, <2>4, WireKnown
    <3> QED BY <2>2, <3>1, <3>2
  <2>9. \A j \in Keys : info[j] # NoHandle => sent'[info[j]] >= 1
    BY <1>0, <2>4 DEF Sending, TypeOK, Handles, NoHandle
  <2> QED BY <2>3, <2>6, <2>7, <2>8, <2>9 DEF Sending, IsStart, Asked
<1>8. CASE Quiet
  BY <1>8 DEF Quiet, Sending, IsStart, Asked, Wired
<1> QED BY <1>1, <1>2, <1>3, <1>4, <1>5, <1>6, <1>7, <1>8, StepKinds

\* What is on the wire of a preview goes on without a gap, whatever is sent,
\* routed or lost.
LEMMA OnWireStep ==
  ASSUME Types, Ends, Queued, Sending, OnWire, Placed, [Next]_vars
  PROVE  OnWire'
<1>0. TypeOK /\ Sequenced /\ Attached
  BY DEF Types
<1>1. CASE UNCHANGED <<wire, sent>> /\ (line' = "up" => line = "up")
  BY <1>1 DEF OnWire, Wired, Before, End
<1>2. CASE \/ (\E r \in Readers : FirstComes(r) \/ LastLeaves(r)) \/ Quiet \/ TakeRequest
           \/ ConnectionOver
  BY <1>1, <1>2 DEF FirstComes, LastLeaves, Quiet, TakeRequest, ConnectionOver, recorderVars
<1>3. CASE LineFails
  <2>1. WireCut /\ line' = "down"
    BY <1>0, <1>3, Cutting
  <2>2. ASSUME NEW i \in Wired', NEW j \in Wired', i < j, wire'[i].handle = wire'[j].handle
        PROVE  Before(wire[j].handle, wire[j].n - 1, j)'
    <3>1. i \in Wired /\ j \in Wired /\ wire'[i] = wire[i] /\ wire'[j] = wire[j]
      BY <2>1 DEF WireCut
    <3>2. PICK l \in Wired : l < j /\ wire[l].handle = wire[j].handle /\ wire[l].n = wire[j].n - 1
      BY <2>2, <3>1 DEF OnWire, Before
    <3>3. l \in Wired' /\ wire'[l] = wire[l]
      BY <2>1, <2>2, <3>2 DEF WireCut
    <3> QED BY <3>1, <3>2, <3>3 DEF Before
  <2>3. \A i \in Wired' : IsKind(wire'[i])
    BY <2>1 DEF WireCut, OnWire
  <2>4. \A i \in Wired' : \A j \in Wired' : i < j => InOrder(wire'[i], wire'[j])
    BY <2>1 DEF WireCut, OnWire
  <2> QED BY <2>1, <2>2, <2>3, <2>4 DEF OnWire
<1>4. CASE Route
  <2>1. WireShrunk /\ sent' = sent /\ line' = line
    BY <1>0, <1>4, Routing DEF Route, recorderVars
  <2>2. ASSUME NEW j \in Wired, 1 < j, wire[1].handle = wire[j].handle
        PROVE  wire[1].n < wire[j].n /\ wire[1].n \in Nat /\ wire[j].n \in Nat
    BY <1>0, <2>1, <2>2, WireKnown DEF OnWire, InOrder, WireShrunk
  <2>3. ASSUME NEW i \in Wired', NEW j \in Wired', i < j, wire'[i].handle = wire'[j].handle
        PROVE  Before(wire[j].handle, wire[j].n - 1, j)'
    <3>1. /\ i + 1 \in Wired /\ j + 1 \in Wired /\ 1 < i + 1 /\ i + 1 < j + 1 /\ i \in Nat /\ j \in Nat
          /\ wire'[i] = wire[i + 1] /\ wire'[j] = wire[j + 1]
      BY <2>1, <2>3 DEF WireShrunk
    <3>2. PICK l \in Wired : l < j + 1 /\ wire[l].handle = wire[j + 1].handle /\ wire[l].n = wire[j + 1].n - 1
      BY <2>3, <3>1 DEF OnWire, Before
    <3>3. l # 1
      <4>1. wire[i + 1].n < wire[j + 1].n /\ wire[i + 1].n \in Nat /\ wire[j + 1].n \in Nat
        BY <1>0, <2>3, <3>1, WireKnown DEF OnWire, InOrder
      <4> QED BY <2>2, <2>3, <3>1, <3>2, <4>1
    <3>4. l \in Nat /\ l - 1 \in Wired' /\ wire'[l - 1] = wire[l] /\ l - 1 < j
      BY <2>1, <3>1, <3>2, <3>3 DEF WireShrunk
    <3> QED BY <3>1, <3>2, <3>4 DEF Before
  <2>4. ASSUME line' = "up", NEW i \in Wired' PROVE Before(wire[i].handle, sent[wire[i].handle], End)'
    <3>1. /\ i + 1 \in Wired /\ 1 < i + 1 /\ wire'[i] = wire[i + 1]
      BY <2>1, <2>4 DEF WireShrunk
    <3>2. PICK l \in Wired : l < End /\ wire[l].handle = wire[i + 1].handle /\ wire[l].n = sent[wire[i + 1].handle]
      BY <2>1, <2>4, <3>1 DEF OnWire, Before
    <3>3. l # 1
      BY <1>0, <2>2, <3>1, <3>2, WireKnown
    <3>4. l \in Nat /\ l - 1 \in Wired' /\ wire'[l - 1] = wire[l] /\ l - 1 < End'
      BY <2>1, <3>1, <3>2, <3>3 DEF WireShrunk
    <3> QED BY <2>1, <3>1, <3>2, <3>4 DEF Before
  <2>5. \A i \in Wired' : IsKind(wire'[i])
    BY <2>1 DEF WireShrunk, OnWire
  <2>6. ASSUME NEW i \in Wired', NEW j \in Wired', i < j PROVE InOrder(wire'[i], wire'[j])
    <3>1. i + 1 \in Wired /\ j + 1 \in Wired /\ i + 1 < j + 1 /\ wire'[i] = wire[i + 1] /\ wire'[j] = wire[j + 1]
      BY <2>1, <2>6 DEF WireShrunk
    <3> QED BY <3>1 DEF OnWire
  <2> QED BY <2>3, <2>4, <2>5, <2>6 DEF OnWire
<1>5. ASSUME NEW k \in Keys, NEW h \in Handles, SendMedia([key |-> k, handle |-> h]) PROVE OnWire'
  <2>1. PICK m \in Message : Sends(k, h, m)
    BY <1>0, <1>5, Sent
  <2>2. /\ line = "up" /\ [key |-> k, handle |-> h] \in serving /\ WireGrown(m)
        /\ m.key = k /\ m.handle = h /\ m.n = sent[h] + 1 /\ sent[h] \in Nat /\ sent'[h] = m.n
        /\ \A x \in Handles : x # h => sent'[x] = sent[x]
    BY <1>0, <2>1 DEF Sends, Sequenced
  <2>3. IsKind(m)
    BY <2>1, <2>2 DEF Sends, Kinds, IsKind
  <2>4. \A i \in Wired' : IsKind(wire'[i])
    BY <2>2, <2>3 DEF WireGrown, OnWire
  <2>5. \A i \in Wired : InOrder(wire[i], m)
    <3>1. \A i \in Wired : wire[i].key = k => wire[i].handle <= h
      BY <2>2 DEF Placed
    <3>2. \A i \in Wired : wire[i].handle = h => wire[i].n <= sent[h] /\ wire[i].n \in Nat
      BY <1>0, WireKnown
    <3> QED BY <2>2, <3>1, <3>2 DEF InOrder
  <2>6. ASSUME NEW i \in Wired', NEW j \in Wired', i < j PROVE InOrder(wire'[i], wire'[j])
    <3>1. i \in Wired /\ wire'[i] = wire[i]
      BY <2>2, <2>6 DEF WireGrown, Wired
    <3>2. CASE j \in Wired
      BY <2>2, <2>6, <3>1, <3>2 DEF WireGrown, OnWire
    <3>3. CASE j = Len(wire')
      BY <2>2, <2>5, <3>1, <3>3 DEF WireGrown
    <3> QED BY <2>2, <3>2, <3>3 DEF WireGrown
  <2>7. \A i \in Wired : i \in Wired' /\ wire'[i] = wire[i] /\ i < Len(wire') /\ i < End'
    BY <2>2 DEF WireGrown
  <2>8. ASSUME NEW i \in Wired', NEW j \in Wired', i < j, wire'[i].handle = wire'[j].handle
        PROVE  Before(wire[j].handle, wire[j].n - 1, j)'
    <3>1. i \in Wired /\ wire'[i] = wire[i]
      BY <2>2, <2>8 DEF WireGrown, Wired
    <3>2. CASE j \in Wired
      <4>1. PICK l \in Wired : l < j /\ wire[l].handle = wire[j].handle /\ wire[l].n = wire[j].n - 1
        BY <2>7, <2>8, <3>1, <3>2 DEF OnWire, Before
      <4> QED BY <2>7, <3>2, <4>1 DEF Before
    <3>3. CASE j = Len(wire')
      <4>1. wire'[j] = m /\ wire[i].handle = h
        BY <2>2, <2>8, <3>1, <3>3 DEF WireGrown
      <4>2. PICK l \in Wired : wire[l].handle = h /\ wire[l].n = sent[h]
        BY <2>2, <3>1, <4>1 DEF OnWire, Before
      <4>3. m.n - 1 = sent[h]
        BY <2>2
      <4> QED BY <2>2, <2>7, <3>3, <4>1, <4>2, <4>3 DEF Before
    <3> QED BY <2>2, <3>2, <3>3 DEF WireGrown
  <2>9. ASSUME NEW i \in Wired' PROVE Before(wire[i].handle, sent[wire[i].handle], End)'
    <3>1. CASE wire'[i].handle = h
      <4>1. Len(wire') \in Wired' /\ wire'[Len(wire')] = m /\ Len(wire') < End'
        BY <2>2 DEF WireGrown
      <4> QED BY <2>2, <3>1, <4>1 DEF Before
    <3>2. CASE wire'[i].handle # h
      <4>1. i \in Wired /\ wire'[i] = wire[i]
        BY <2>2, <3>2 DEF WireGrown
      <4>2. wire[i].handle \in Handles /\ wire[i].handle # h
        BY <1>0, <3>2, <4>1, WireKnown
      <4>3. PICK l \in Wired : wire[l].handle = wire[i].handle /\ wire[l].n = sent[wire[i].handle]
        BY <2>2, <4>1 DEF OnWire, Before
      <4> QED BY <2>2, <2>7, <4>1, <4>2, <4>3 DEF Before
    <3> QED BY <3>1, <3>2
  <2> QED BY <2>4, <2>6, <2>8, <2>9 DEF OnWire
<1> QED BY <1>2, <1>3, <1>4, <1>5, StepKinds

\* A request for a preview in use is on its way, or the recorder serves it.
LEMMA PreviewServed ==
  ASSUME Types, AskedOnce, line = "up", NEW k \in Keys, preview[k] # NoHandle
  PROVE  \/ [key |-> k, handle |-> preview[k]] \in serving
         \/ \E j \in Asked : IsStart(j) /\ Asks(j) = [key |-> k, handle |-> preview[k]]
<1>1. Result(requests, serving) = Previews
  BY OutcomeIs DEF AskedOnce, Previews, Types, Attached, TypeOK
<1>2. [key |-> k, handle |-> preview[k]] \in Previews
  BY DEF Previews
<1>3. \A i \in Asked : Item(requests[i]) = Asks(i)
  BY DEF Item, Asks
<1> QED BY <1>1, <1>2, <1>3 DEF Result, Asked, IsStart

\* The messages on the wire stay in their place between the previews.
LEMMA PlacedStep ==
  ASSUME Types, Ends, Queued, AskedOnce, Alternating, Sending, OnWire, Placed, [Next]_vars
  PROVE  Placed'
<1>0. TypeOK /\ Sequenced /\ Attached
  BY DEF Types
<1>1. ASSUME NEW r \in Readers, FirstComes(r) PROVE Placed'
  <2> DEFINE m == Request("start", keyOf[r], handle + 1)
  <2>1. m \in Requests /\ m.op = "start" /\ m.handle = handle + 1 /\ handle \in Nat
    BY <1>1 DEF FirstComes, Request
  <2>2. /\ line = "up" => requests' = Append(requests, m)
        /\ line # "up" => requests' = requests
        /\ preview' = [preview EXCEPT ![keyOf[r]] = handle + 1] /\ keyOf[r] \in Keys
        /\ UNCHANGED <<wire, serving, line>>
    BY <1>1 DEF FirstComes
  <2> HIDE DEF m
  <2>3. \A j \in Asked' : \/ j \in Asked /\ requests'[j] = requests[j] /\ (IsStart(j)' <=> IsStart(j))
                         \/ requests'[j] = m
    <3>1. line = "up" => Grown(m)
      BY <1>0, <2>1, <2>2, Growing
    <3> QED BY <2>2, <3>1 DEF Grown, IsStart, Asked
  <2>4. \A i \in Wired : wire[i].handle < handle + 1 /\ wire[i].handle <= handle + 1
    <3>1. \A i \in Wired : wire[i].handle <= handle /\ wire[i].handle \in Nat
      BY <1>0, WireKnown
    <3> QED BY <2>1, <3>1
  <2>5. \A i \in Wired : \A j \in Asked' : IsStart(j)' => wire[i].handle < requests'[j].handle
    BY <2>1, <2>3, <2>4 DEF Placed
  <2>6. \A i \in Wired : preview'[wire[i].key] # NoHandle => wire[i].handle <= preview'[wire[i].key]
    <3>1. \A i \in Wired : wire[i].key \in Keys
      BY <1>0, WireKnown
    <3>2. \A k \in Keys : preview'[k] = IF k = keyOf[r] THEN handle + 1 ELSE preview[k]
      BY <1>0, <2>2 DEF TypeOK
    <3> QED BY <2>4, <3>1, <3>2 DEF Placed
  <2> QED BY <2>2, <2>5, <2>6 DEF Placed, Wired
<1>2. ASSUME NEW r \in Readers, LastLeaves(r) PROVE Placed'
  <2> DEFINE m == Request("stop", keyOf[r], preview[keyOf[r]])
  <2>1. m \in Requests /\ m.op = "stop"
    BY <1>2 DEF LastLeaves, Request
  <2>2. /\ line = "up" => requests' = Append(requests, m)
        /\ line # "up" => requests' = requests
        /\ preview' = [preview EXCEPT ![keyOf[r]] = NoHandle] /\ keyOf[r] \in Keys
        /\ UNCHANGED <<wire, serving, line>>
    BY <1>2 DEF LastLeaves
  <2> HIDE DEF m
  <2>3. \A j \in Asked' : IsStart(j)' => j \in Asked /\ requests'[j] = requests[j] /\ IsStart(j)
    <3>1. line = "up" => Grown(m)
      BY <1>0, <2>1, <2>2, Growing
    <3> QED BY <2>1, <2>2, <3>1 DEF Grown, IsStart, Asked
  <2>4. \A i \in Wired : \A j \in Asked' : IsStart(j)' => wire[i].handle < requests'[j].handle
    BY <2>3 DEF Placed
  <2>5. \A i \in Wired : preview'[wire[i].key] # NoHandle => wire[i].handle <= preview'[wire[i].key]
    <3>1. \A i \in Wired : wire[i].key \in Keys
      BY <1>0, WireKnown
    <3>2. \A k \in Keys : preview'[k] # NoHandle => preview'[k] = preview[k]
      BY <1>0, <2>2 DEF TypeOK
    <3> QED BY <3>1, <3>2 DEF Placed
  <2> QED BY <2>2, <2>4, <2>5 DEF Placed, Wired
<1>3. CASE TakeRequest
  <2>1. Shrunk /\ UNCHANGED <<preview, wire, line>>
    BY <1>0, <1>3, Shrinking DEF TakeRequest, sharedVars
  <2>2. \A s \in serving' : s \in serving \/ (IsStart(1) /\ s = Asks(1))
    BY <1>3, <2>1 DEF TakeRequest, Shrunk, IsStart, Asks
  <2>3. \A i \in Asked' : (IsStart(i)' <=> IsStart(i + 1))
    BY <2>1 DEF Shrunk, IsStart
  <2>4. \A i \in Wired : \A j \in Asked' : IsStart(j)' => wire[i].handle < requests'[j].handle
    BY <2>1, <2>3 DEF Placed, Shrunk
  <2>5. ASSUME line = "up", NEW i \in Wired, NEW s \in serving', wire[i].key = s.key
        PROVE  wire[i].handle <= s.handle
    <3>1. CASE s \in serving
      BY <2>5, <3>1 DEF Placed
    <3>2. CASE IsStart(1) /\ s = Asks(1)
      <4>1. wire[i].handle < requests[1].handle /\ s.handle = requests[1].handle
        BY <2>1, <3>2 DEF Placed, Shrunk, Asks
      <4>2. wire[i].handle \in Nat /\ requests[1].handle \in Nat
        BY <1>0, <2>1, WireKnown, AskedKnown DEF Shrunk
      <4> QED BY <4>1, <4>2
    <3> QED BY <2>2, <3>1, <3>2
  <2> QED BY <2>1, <2>4, <2>5 DEF Placed, Wired
<1>4. CASE ConnectionOver
  <2>1. /\ \A i \in Wired : preview'[wire[i].key] = NoHandle
        /\ UNCHANGED <<wire, requests, serving, line>>
    BY <1>0, <1>4, WireKnown DEF ConnectionOver, recorderVars
  <2> QED BY <2>1 DEF Placed, Wired, Asked, IsStart
<1>5. CASE Route
  <2>1. WireShrunk /\ UNCHANGED <<preview, serving, requests, line>>
    BY <1>0, <1>5, Routing DEF Route, recorderVars
  <2>2. \A i \in Wired' : i + 1 \in Wired /\ wire'[i] = wire[i + 1]
    BY <2>1 DEF WireShrunk
  <2>3. \A i \in Wired' : \A j \in Asked : IsStart(j) => wire'[i].handle < requests[j].handle
    BY <2>2 DEF Placed
  <2>4. \A i \in Wired' : preview[wire'[i].key] # NoHandle => wire'[i].handle <= preview[wire'[i].key]
    BY <2>2 DEF Placed
  <2>5. line = "up" => \A i \in Wired' : \A s \in serving : wire'[i].key = s.key => wire'[i].handle <= s.handle
    BY <2>2 DEF Placed
  <2> QED BY <2>1, <2>3, <2>4, <2>5 DEF Placed, IsStart, Asked
<1>6. CASE LineFails
  <2>1. WireCut /\ line' = "down" /\ UNCHANGED <<preview, serving, requests>>
    BY <1>0, <1>6, Cutting DEF LineFails, recorderVars, sharedVars
  <2> QED BY <2>1 DEF WireCut, Placed, IsStart, Asked
<1>7. ASSUME NEW k \in Keys, NEW h \in Handles, SendMedia([key |-> k, handle |-> h]) PROVE Placed'
  <2>1. PICK m \in Message : Sends(k, h, m)
    BY <1>0, <1>7, Sent
  <2>2. \A i \in Wired' : (i \in Wired /\ wire'[i] = wire[i]) \/ wire'[i] = m
    BY <2>1 DEF Sends, WireGrown
  <2>3. /\ [key |-> k, handle |-> h] \in serving /\ m.key = k /\ m.handle = h /\ line = "up"
        /\ UNCHANGED <<preview, serving, requests, line>>
    BY <2>1 DEF Sends
  <2>4. \A j \in Asked : IsStart(j) => h < requests[j].handle
    BY <2>3 DEF Queued
  <2>5. ASSUME preview[k] # NoHandle PROVE h <= preview[k]
    <3>1. CASE [key |-> k, handle |-> preview[k]] \in serving
      <4>1. [key |-> k, handle |-> preview[k]] = [key |-> k, handle |-> h]
        BY <2>3, <3>1 DEF Alternating
      <4> QED BY <4>1 DEF Handles
    <3>2. CASE \E j \in Asked : IsStart(j) /\ Asks(j) = [key |-> k, handle |-> preview[k]]
      <4>1. PICK j \in Asked : IsStart(j) /\ Asks(j) = [key |-> k, handle |-> preview[k]]
        BY <3>2
      <4>2. requests[j].handle = preview[k] /\ h < requests[j].handle
        BY <2>4, <4>1 DEF Asks
      <4>3. preview[k] \in Nat
        BY <1>0, AskedKnown
      <4> QED BY <4>2, <4>3 DEF Handles
    <3> QED BY <2>3, <2>5, <3>1, <3>2, PreviewServed
  <2>6. \A s \in serving : s.key = k => h <= s.handle
    <3>1. \A s \in serving : s.key = k => s.handle = h
      BY <2>3 DEF Alternating
    <3> QED BY <3>1 DEF Handles
  <2>7. \A i \in Wired' : \A j \in Asked : IsStart(j) => wire'[i].handle < requests[j].handle
    BY <2>2, <2>3, <2>4 DEF Placed
  <2>8. \A i \in Wired' : preview[wire'[i].key] # NoHandle => wire'[i].handle <= preview[wire'[i].key]
    BY <2>2, <2>3, <2>5 DEF Placed
  <2>9. \A i \in Wired' : \A s \in serving : wire'[i].key = s.key => wire'[i].handle <= s.handle
    BY <2>2, <2>3, <2>6 DEF Placed
  <2> QED BY <2>3, <2>7, <2>8, <2>9 DEF Placed, IsStart, Asked
<1>8. CASE Quiet
  BY <1>8 DEF Quiet, Placed, IsStart, Asked, Wired
<1> QED BY <1>1, <1>2, <1>3, <1>4, <1>5, <1>6, <1>7, <1>8, StepKinds

\* The parts of Fresh, for one preview.
FreshInfo(k) == info[k] # NoHandle => \A i \in Wired : wire[i].handle = info[k] => wire[i].n > 1
FreshWire(k) ==
  \A i \in Wired : wire[i].handle = preview[k] =>
    /\ wire[i].n > 1 => Before(preview[k], 1, i)
    /\ wire[i].n > 2 => Before(preview[k], 2, i)
FreshSent(k) ==
  line = "up" =>
    /\ sent[preview[k]] >= 1 => Before(preview[k], 1, End)
    /\ sent[preview[k]] >= 2 => Before(preview[k], 2, End)
FreshStale(k) == \A i \in Wired : wire[i].key = k /\ wire[i].handle # preview[k] => info[k] # preview[k]
FreshOf(k) ==
  /\ FreshInfo(k)
  /\ preview[k] # NoHandle /\ info[k] # preview[k] => FreshWire(k) /\ FreshSent(k)
  /\ preview[k] # NoHandle => FreshStale(k)

\* Those parts are Fresh.
LEMMA FreshParts == (Fresh <=> \A k \in Keys : FreshOf(k)) /\ (Fresh <=> \A k \in Keys : FreshOf(k))'
  BY DEF Fresh, FreshOf, FreshInfo, FreshWire, FreshSent, FreshStale

\* A preview that only now begins, has ended or is not touched stays fresh.
LEMMA FreshQuiet ==
  ASSUME Types, Ends, Queued, Sending, OnWire, Fresh, NEW k \in Keys,
         \/ \E r \in Readers : FirstComes(r) \/ LastLeaves(r)
         \/ ConnectionOver \/ TakeRequest \/ Quiet
  PROVE  FreshOf(k)'
<1>0. TypeOK /\ Sequenced /\ FreshOf(k)
  BY FreshParts DEF Types
<1>1. ASSUME preview'[k] = NoHandle, info'[k] = NoHandle PROVE FreshOf(k)'
  BY <1>1 DEF FreshOf, FreshInfo
<1>2. ASSUME preview'[k] = preview[k], info'[k] = info[k], UNCHANGED <<wire, sent>>, line' = "up" => line = "up"
      PROVE  FreshOf(k)'
  BY <1>0, <1>2 DEF FreshOf, FreshInfo, FreshWire, FreshSent, FreshStale, Before, Wired, End
<1>3. ASSUME NEW r \in Readers, FirstComes(r) PROVE FreshOf(k)'
  <2>1. /\ preview' = [preview EXCEPT ![keyOf[r]] = handle + 1] /\ keyOf[r] \in Keys
        /\ handle \in Nat /\ handle + 1 \in Handles /\ UNCHANGED <<info, wire, sent, line>>
    BY <1>3 DEF FirstComes
  <2>2. CASE k # keyOf[r]
    <3>1. preview'[k] = preview[k]
      BY <1>0, <2>1, <2>2 DEF TypeOK
    <3> QED BY <1>2, <2>1, <3>1
  <2>3. CASE k = keyOf[r]
    <3>1. preview'[k] = handle + 1
      BY <1>0, <2>1, <2>3 DEF TypeOK
    <3>2. \A i \in Wired : wire[i].handle # handle + 1
      BY <1>0, WireKnown
    <3>3. sent[handle + 1] = 0
      BY <2>1 DEF Sending
    <3>4. info[k] # handle + 1
      <4>1. CASE info[k] \in Handles
        BY <2>1, <3>3, <4>1 DEF Sending, Handles, NoHandle
      <4>2. CASE info[k] \notin Handles
        BY <2>1, <4>2
      <4> QED BY <4>1, <4>2
    <3>5. FreshInfo(k)'
      BY <1>0, <2>1 DEF FreshOf, FreshInfo, Wired
    <3>6. FreshWire(k)'
      BY <2>1, <3>1, <3>2 DEF FreshWire, Wired
    <3>7. FreshSent(k)'
      BY <2>1, <3>1, <3>3 DEF FreshSent
    <3>8. FreshStale(k)'
      BY <2>1, <3>1, <3>4 DEF FreshStale
    <3> QED BY <3>5, <3>6, <3>7, <3>8 DEF FreshOf
  <2> QED BY <2>2, <2>3
<1>4. ASSUME NEW r \in Readers, LastLeaves(r) PROVE FreshOf(k)'
  <2>1. /\ preview' = [preview EXCEPT ![keyOf[r]] = NoHandle] /\ keyOf[r] \in Keys
        /\ info' = [info EXCEPT ![keyOf[r]] = NoHandle] /\ UNCHANGED <<wire, sent, line>>
    BY <1>4 DEF LastLeaves
  <2>2. \/ preview'[k] = NoHandle /\ info'[k] = NoHandle
        \/ preview'[k] = preview[k] /\ info'[k] = info[k]
    BY <1>0, <2>1 DEF TypeOK
  <2> QED BY <1>1, <1>2, <2>1, <2>2
<1>5. CASE ConnectionOver
  BY <1>1, <1>5 DEF ConnectionOver
<1>6. CASE TakeRequest \/ Quiet
  BY <1>2, <1>6 DEF TakeRequest, Quiet, sharedVars
<1> QED BY <1>3, <1>4, <1>5, <1>6

\* So does one when a message is routed: its info packet is kept then.
LEMMA FreshRoute ==
  ASSUME Types, OneKeyEach, Sending, OnWire, Placed, Fresh, Route, NEW k \in Keys
  PROVE  FreshOf(k)'
<1>0. TypeOK /\ Sequenced /\ FreshOf(k)
  BY FreshParts DEF Types
<1> DEFINE m == Head(wire)
<1>1. WireShrunk /\ UNCHANGED <<preview, sent, line>> /\ m = wire[1] /\ m \in Message
  BY <1>0, Routing DEF Route, recorderVars, WireShrunk
<1>2. info'[k] = IF m.kind = "info" /\ k = m.key /\ preview[k] # NoHandle THEN m.handle ELSE info[k]
  BY <1>0, <1>1 DEF Route, TypeOK, Message
<1>3. /\ 1 \in Wired /\ m.n \in Nat /\ 1 <= m.n /\ IsKind(m)
      /\ \A j \in Wired : 1 < j => InOrder(m, wire[j]) /\ wire[j].n \in Nat
  BY <1>0, <1>1, WireKnown DEF WireShrunk, OnWire
<1> HIDE DEF m
<1>4. \A i \in Wired' : i + 1 \in Wired /\ 1 < i + 1 /\ wire'[i] = wire[i + 1] /\ i \in Nat
  BY <1>1 DEF WireShrunk
<1>5. FreshInfo(k)'
  <2>1. CASE info'[k] = info[k]
    BY <1>0, <1>4, <2>1 DEF FreshOf, FreshInfo
  <2>2. CASE info'[k] = m.handle
    <3>1. \A j \in Wired : 1 < j /\ wire[j].handle = m.handle => wire[j].n > 1
      BY <1>3 DEF InOrder
    <3> QED BY <1>4, <2>2, <3>1 DEF FreshInfo
  <2> QED BY <1>2, <2>1, <2>2
<1>6. ASSUME preview'[k] # NoHandle, info'[k] # preview'[k] PROVE FreshWire(k)' /\ FreshSent(k)'
  <2>1. preview[k] # NoHandle /\ preview'[k] = preview[k] /\ info[k] # preview[k]
    <3>1. CASE info'[k] = info[k]
      BY <1>1, <1>6, <3>1
    <3>2. CASE m.key = k /\ info'[k] = m.handle
      BY <1>0, <1>1, <1>3, <1>6, <3>2 DEF FreshOf, FreshStale
    <3> QED BY <1>1, <1>2, <1>6, <3>1, <3>2
  <2>2. FreshWire(k) /\ FreshSent(k)
    BY <1>0, <2>1 DEF FreshOf
  <2>3. ~(m.handle = preview[k] /\ m.n = 1)
    <3> SUFFICES ASSUME m.handle = preview[k], m.n = 1 PROVE FALSE
      OBVIOUS
    <3>1. m.key = k
      BY <1>1, <1>3, <2>1 DEF OneKeyEach
    <3>2. m.kind = "info"
      BY <1>3 DEF IsKind
    <3> QED BY <1>2, <1>6, <2>1, <3>1, <3>2
  <2>4. ~(m.handle = preview[k] /\ m.n = 2)
    <3> SUFFICES ASSUME m.handle = preview[k], m.n = 2 PROVE FALSE
      OBVIOUS
    <3>1. Before(preview[k], 1, 1)
      BY <1>1, <1>3, <2>2 DEF FreshWire
    <3>2. \A j \in Wired : ~(j < 1)
      BY DEF Wired
    <3> QED BY <3>1, <3>2 DEF Before
  <2>5. ASSUME NEW n \in {1, 2}, NEW i \in Nat, Before(preview[k], n, i + 1) PROVE Before(preview[k], n, i)'
    <3>1. PICK l \in Wired : l < i + 1 /\ wire[l].handle = preview[k] /\ wire[l].n = n
      BY <2>5 DEF Before
    <3>2. l # 1
      BY <1>1, <2>3, <2>4, <3>1
    <3>3. l \in Nat /\ l - 1 \in Wired' /\ wire'[l - 1] = wire[l] /\ l - 1 < i
      BY <1>1, <2>5, <3>1, <3>2 DEF WireShrunk
    <3> QED BY <2>1, <3>1, <3>3 DEF Before
  <2>6. FreshWire(k)'
    <3> SUFFICES ASSUME NEW i \in Wired', wire'[i].handle = preview[k]
                 PROVE  /\ wire'[i].n > 1 => Before(preview[k], 1, i)'
                        /\ wire'[i].n > 2 => Before(preview[k], 2, i)'
      BY <1>1 DEF FreshWire
    <3> QED BY <1>4, <2>2, <2>5 DEF FreshWire
  <2>7. FreshSent(k)'
    <3>1. End' \in Nat /\ End = End' + 1
      BY <1>1 DEF WireShrunk, Wired, End
    <3>2. \A n \in {1, 2} : Before(preview[k], n, End) => Before(preview[k], n, End)'
      <4> SUFFICES ASSUME NEW n \in {1, 2}, Before(preview[k], n, End' + 1) PROVE Before(preview[k], n, End)'
        BY <3>1
      <4>1. PICK l \in Wired : l < End' + 1 /\ wire[l].handle = preview[k] /\ wire[l].n = n
        BY DEF Before
      <4>2. l # 1
        BY <1>1, <2>3, <2>4, <4>1
      <4>3. l \in Nat /\ l - 1 \in Wired' /\ wire'[l - 1] = wire[l] /\ l - 1 < End'
        BY <1>1, <3>1, <4>1, <4>2 DEF WireShrunk
      <4> QED BY <2>1, <4>1, <4>3 DEF Before
    <3> QED BY <1>1, <2>2, <3>2 DEF FreshSent
  <2> QED BY <2>6, <2>7
<1>7. ASSUME preview'[k] # NoHandle PROVE FreshStale(k)'
  <2> SUFFICES ASSUME NEW i \in Wired', wire'[i].key = k, wire'[i].handle # preview[k], info'[k] = preview[k]
               PROVE  FALSE
    BY <1>1 DEF FreshStale
  <2>1. i + 1 \in Wired /\ 1 < i + 1 /\ wire[i + 1].key = k /\ wire[i + 1].handle # preview[k]
    BY <1>4
  <2>2. info[k] # preview[k] /\ preview[k] # NoHandle
    BY <1>0, <1>1, <1>7, <2>1 DEF FreshOf, FreshStale
  <2>3. m.key = k /\ m.handle = preview[k]
    BY <1>2, <2>2
  <2>4. m.handle <= wire[i + 1].handle
    BY <1>3, <2>1, <2>3 DEF InOrder
  <2>5. wire[i + 1].handle <= preview[k] /\ wire[i + 1].handle \in Nat /\ preview[k] \in Nat
    BY <1>0, <2>1, <2>2, WireKnown DEF Placed, TypeOK
  <2> QED BY <2>1, <2>3, <2>4, <2>5
<1> QED BY <1>5, <1>6, <1>7 DEF FreshOf

\* And when one is sent: the recorder begins with the info packet.
LEMMA FreshSend ==
  ASSUME Types, Queued, AskedOnce, Alternating, Sending, OnWire, Fresh, NEW k \in Keys,
         NEW g \in Keys, NEW h \in Handles, NEW m \in Message, Sends(g, h, m)
  PROVE  FreshOf(k)'
<1>0. TypeOK /\ Sequenced /\ FreshOf(k)
  BY FreshParts DEF Types
<1>1. /\ line = "up" /\ [key |-> g, handle |-> h] \in serving
      /\ m.key = g /\ m.handle = h /\ m.n = sent[h] + 1 /\ sent[h] \in Nat /\ sent'[h] = m.n
      /\ WireGrown(m) /\ UNCHANGED <<preview, info>> /\ \A x \in Handles : x # h => sent'[x] = sent[x]
  BY <1>0 DEF Sends, Sequenced
<1>2. /\ \A i \in Wired : i \in Wired' /\ wire'[i] = wire[i] /\ i < Len(wire')
      /\ \A i \in Wired' : i \in Wired \/ i = Len(wire')
      /\ Len(wire') \in Wired' /\ wire'[Len(wire')] = m /\ Len(wire') < End'
      /\ Len(wire') = End
  BY <1>1 DEF WireGrown, End
<1>3. FreshInfo(k)'
  <2> SUFFICES ASSUME info[k] # NoHandle, NEW i \in Wired', wire'[i].handle = info[k] PROVE wire'[i].n > 1
    BY <1>1 DEF FreshInfo
  <2>1. CASE i \in Wired
    BY <1>0, <1>2, <2>1 DEF FreshOf, FreshInfo
  <2>2. CASE i = Len(wire')
    <3>1. h = info[k]
      BY <1>1, <1>2, <2>2
    <3>2. sent[h] >= 1
      BY <3>1 DEF Sending
    <3> QED BY <1>1, <1>2, <2>2, <3>2
  <2> QED BY <1>2, <2>1, <2>2
<1>4. ASSUME NEW n \in Nat, NEW i \in Wired, Before(preview[k], n, i) PROVE Before(preview[k], n, i)'
  BY <1>1, <1>2, <1>4 DEF Before
<1>5. ASSUME NEW n \in Nat, Before(preview[k], n, End)
      PROVE  Before(preview[k], n, Len(wire))' /\ Before(preview[k], n, End)'
  <2>1. PICK l \in Wired : wire[l].handle = preview[k] /\ wire[l].n = n
    BY <1>5 DEF Before
  <2>2. l \in Wired' /\ l < Len(wire') /\ l < End' /\ wire'[l] = wire[l]
    BY <1>1, <1>2, <2>1 DEF WireGrown
  <2> QED BY <1>1, <2>1, <2>2 DEF Before
<1>6. ASSUME preview[k] # NoHandle, info[k] # preview[k] PROVE FreshWire(k)' /\ FreshSent(k)'
  <2>1. FreshWire(k) /\ FreshSent(k)
    BY <1>0, <1>6 DEF FreshOf
  <2>2. FreshWire(k)'
    <3> SUFFICES ASSUME NEW i \in Wired', wire'[i].handle = preview[k]
                 PROVE  /\ wire'[i].n > 1 => Before(preview[k], 1, i)'
                        /\ wire'[i].n > 2 => Before(preview[k], 2, i)'
      BY <1>1 DEF FreshWire
    <3>1. CASE i \in Wired
      BY <1>2, <1>4, <2>1, <3>1 DEF FreshWire
    <3>2. CASE i = Len(wire')
      <4>1. h = preview[k] /\ wire'[i].n = sent[h] + 1
        BY <1>1, <1>2, <3>2
      <4>2. wire'[i].n > 1 => Before(preview[k], 1, End)
        BY <1>1, <2>1, <4>1 DEF FreshSent
      <4>3. wire'[i].n > 2 => Before(preview[k], 2, End)
        BY <1>1, <2>1, <4>1 DEF FreshSent
      <4> QED BY <1>5, <3>2, <4>2, <4>3
    <3> QED BY <1>2, <3>1, <3>2
  <2>3. FreshSent(k)'
    <3>1. CASE preview[k] = h
      <4>1. ASSUME sent[h] >= 1 PROVE Before(preview[k], 1, End)'
        BY <1>1, <1>5, <2>1, <3>1, <4>1 DEF FreshSent
      <4>2. ASSUME sent[h] >= 2 PROVE Before(preview[k], 2, End)'
        BY <1>1, <1>5, <2>1, <3>1, <4>2 DEF FreshSent
      <4>3. ASSUME NEW n \in Nat, m.n = n PROVE Before(preview[k], n, End)'
        BY <1>1, <1>2, <3>1, <4>3 DEF Before
      <4>4. m.n >= 1 => Before(preview[k], 1, End)'
        BY <1>1, <4>1, <4>3
      <4>5. m.n >= 2 => Before(preview[k], 2, End)'
        BY <1>1, <4>2, <4>3
      <4> QED BY <1>1, <3>1, <4>4, <4>5 DEF FreshSent
    <3>2. CASE preview[k] # h
      <4>1. preview[k] \in Handles
        BY <1>0, <1>6 DEF TypeOK, Handles, NoHandle
      <4>2. sent'[preview[k]] = sent[preview[k]]
        BY <1>1, <3>2, <4>1
      <4> QED BY <1>1, <1>5, <2>1, <4>2 DEF FreshSent
    <3> QED BY <3>1, <3>2
  <2> QED BY <2>2, <2>3
<1>7. ASSUME preview[k] # NoHandle PROVE FreshStale(k)'
  <2> SUFFICES ASSUME NEW i \in Wired', wire'[i].key = k, wire'[i].handle # preview[k] PROVE info[k] # preview[k]
    BY <1>1 DEF FreshStale
  <2>1. CASE i \in Wired
    BY <1>0, <1>2, <1>7, <2>1 DEF FreshOf, FreshStale
  <2>2. CASE i = Len(wire')
    <3>1. g = k /\ h # preview[k]
      BY <1>1, <1>2, <2>2
    <3>2. [key |-> k, handle |-> preview[k]] \notin serving
      BY <1>1, <3>1 DEF Alternating
    <3>3. PICK j \in Asked : IsStart(j) /\ Asks(j) = [key |-> k, handle |-> preview[k]]
      BY <1>1, <1>7, <3>2, PreviewServed
    <3>4. requests[j].handle = preview[k] /\ sent[requests[j].handle] = 0
      BY <3>3 DEF Asks, Sending
    <3>5. sent[preview[k]] = 0
      BY <3>4
    <3> QED BY <1>7, <3>5 DEF Sending
  <2> QED BY <1>2, <2>1, <2>2
<1> QED BY <1>1, <1>3, <1>6, <1>7 DEF FreshOf

\* A preview whose info packet is not kept is fresh after every step.
LEMMA FreshStep ==
  ASSUME Types, Ends, Queued, AskedOnce, Alternating, OneKeyEach, Sending, OnWire, Placed, Fresh, [Next]_vars
  PROVE  Fresh'
<1> SUFFICES ASSUME NEW k \in Keys PROVE FreshOf(k)'
  BY FreshParts
<1>0. TypeOK /\ Sequenced /\ FreshOf(k)
  BY FreshParts DEF Types
<1>1. CASE LineFails
  <2>1. WireCut /\ line' = "down" /\ UNCHANGED <<preview, info, sent>>
    BY <1>0, <1>1, Cutting DEF LineFails, recorderVars, sharedVars
  <2>2. FreshInfo(k)'
    BY <1>0, <2>1 DEF FreshOf, FreshInfo, WireCut
  <2>3. preview[k] # NoHandle => FreshStale(k)'
    BY <1>0, <2>1 DEF FreshOf, FreshStale, WireCut
  <2>4. ASSUME NEW n \in Nat, NEW i \in Wired', Before(preview[k], n, i) PROVE Before(preview[k], n, i)'
    BY <2>1, <2>4 DEF Before, WireCut
  <2>5. FreshWire(k) => FreshWire(k)'
    BY <2>1, <2>4 DEF FreshWire, WireCut
  <2>6. FreshSent(k)'
    BY <2>1 DEF FreshSent
  <2> QED BY <1>0, <2>1, <2>2, <2>3, <2>5, <2>6 DEF FreshOf
<1>2. ASSUME NEW g \in Keys, NEW h \in Handles, SendMedia([key |-> g, handle |-> h]) PROVE FreshOf(k)'
  BY <1>0, <1>2, Sent, FreshSend
<1> QED BY <1>1, <1>2, FreshQuiet, FreshRoute, StepKinds

-----------------------------------------------------------------------------
\* What is sent stays sent, and what a reader is handed was on the wire or is
\* a kept info packet.
LEMMA ReceivedStep ==
  ASSUME Types, Ends, Queued, Sending, OnWire, Received, [Next]_vars
  PROVE  Received'
<1>0. TypeOK /\ Sequenced /\ Attached
  BY DEF Types
<1>1. \A x \in Handles : sent'[x] \in Nat /\ sent[x] \in Nat /\ sent[x] <= sent'[x]
  <2>1. CASE sent' = sent
    BY <1>0, <2>1 DEF Sequenced
  <2>2. ASSUME NEW k \in Keys, NEW h \in Handles, SendMedia([key |-> k, handle |-> h])
        PROVE  \A x \in Handles : sent'[x] \in Nat /\ sent[x] \in Nat /\ sent[x] <= sent'[x]
    <3>1. sent' = [sent EXCEPT ![h] = @ + 1] /\ sent \in [Handles -> Nat]
      BY <1>0, <2>2 DEF SendMedia, Sequenced
    <3> QED BY <3>1
  <2> QED BY <2>1, <2>2, StepKinds DEF FirstComes, LastLeaves, Route, TakeRequest, LineFails,
             ConnectionOver, Quiet, recorderVars
<1>2. ASSUME NEW m \in Message, WasSent(m, sent) PROVE WasSent(m, sent')
  <2>1. m.handle \in Handles /\ m.n \in Nat
    BY DEF Message
  <2> QED BY <1>1, <1>2, <2>1 DEF WasSent
<1>3. ASSUME NEW r \in Readers, NEW i \in 1..Len(handed[r]) PROVE handed[r][i] \in Message /\ WasSent(handed[r][i], sent')
  <2>1. handed[r][i] \in Message
    BY <1>0, <1>3, ElementOfSeq DEF Sequenced
  <2> QED BY <1>2, <2>1 DEF Received
<1>4. UNCHANGED handed => \A r \in Readers : \A i \in 1..Len(handed'[r]) : WasSent(handed'[r][i], sent')
  BY <1>3
<1>5. demux \in {"handing", "dropping"} => WasSent(cur, sent')
  BY <1>0, <1>2 DEF Received, Sequenced
<1>6. demux' \in {"handing", "dropping"} => (demux \in {"handing", "dropping"} /\ cur' = cur) \/ Route
  BY DEF Next, ReaderStep, DemuxStep, vars, demuxVars, Subscribe, SubscribeFails, Take, Quit, Unsubscribe,
         CloseIfIdle, Route, Deliver, Stall, DropVictim, HandedAll, ConnectionOver, EndOne, TakeRequest,
         SendMedia, LineFails
<1>7. demux' \in {"handing", "dropping"} => WasSent(cur', sent')
  <2>1. CASE Route
    <3>1. cur' = wire[1] /\ 1 \in Wired
      BY <1>0, <2>1, Routing DEF Route, WireShrunk
    <3>2. wire[1] \in Message /\ WasSent(wire[1], sent)
      BY <1>0, <3>1, WireKnown DEF WasSent, OnWire
    <3> QED BY <1>2, <3>1, <3>2
  <2> QED BY <1>5, <1>6, <2>1 DEF WasSent
<1>8. \A r \in Readers : \A i \in 1..Len(handed'[r]) : WasSent(handed'[r][i], sent')
  <2>1. ASSUME NEW q \in Readers, NEW m \in Message, WasSent(m, sent), handed' = [handed EXCEPT ![q] = Append(@, m)]
        PROVE  \A r \in Readers : \A i \in 1..Len(handed'[r]) : WasSent(handed'[r][i], sent')
    <3> SUFFICES ASSUME NEW r \in Readers, NEW i \in 1..Len(handed'[r]) PROVE WasSent(handed'[r][i], sent')
      OBVIOUS
    <3>1. CASE r # q
      <4>1. handed'[r] = handed[r]
        BY <1>0, <2>1, <3>1 DEF Sequenced
      <4> QED BY <1>3, <4>1
    <3>2. CASE r = q
      <4>1. handed'[r] = Append(handed[r], m) /\ handed[r] \in Seq(Message)
        BY <1>0, <2>1, <3>2 DEF Sequenced
      <4>2. /\ Len(handed'[r]) = Len(handed[r]) + 1 /\ Len(handed[r]) \in Nat
            /\ \A j \in 1..Len(handed[r]) : handed'[r][j] = handed[r][j]
            /\ handed'[r][Len(handed[r]) + 1] = m
        BY <4>1, AppendProperties
      <4>3. i \in 1..Len(handed[r]) \/ i = Len(handed[r]) + 1
        BY <4>2
      <4> QED BY <1>2, <1>3, <2>1, <4>2, <4>3
    <3> QED BY <3>1, <3>2
  <2>2. ASSUME NEW q \in Readers, Subscribe(q)
        PROVE  \A r \in Readers : \A i \in 1..Len(handed'[r]) : WasSent(handed'[r][i], sent')
    <3>1. CASE UNCHANGED handed
      BY <1>4, <3>1
    <3>2. CASE info[keyOf[q]] # NoHandle /\ handed' = [handed EXCEPT ![q] = Append(@, InfoOf(keyOf[q]))]
      <4>1. keyOf[q] \in Keys /\ info[keyOf[q]] \in Handles
        BY <1>0, <3>2 DEF TypeOK, Handles, NoHandle
      <4>2. InfoOf(keyOf[q]) \in Message
        BY <4>1 DEF InfoOf, Message
      <4>3. sent[info[keyOf[q]]] >= 1
        BY <3>2, <4>1 DEF Sending
      <4>4. WasSent(InfoOf(keyOf[q]), sent)
        BY <4>1, <4>3 DEF InfoOf, WasSent, IsKind
      <4> QED BY <2>1, <3>2, <4>2, <4>4
    <3> QED BY <2>2, <3>1, <3>2 DEF Subscribe
  <2>3. ASSUME NEW q \in Readers, Deliver(q)
        PROVE  \A r \in Readers : \A i \in 1..Len(handed'[r]) : WasSent(handed'[r][i], sent')
    <3>1. CASE UNCHANGED handed
      BY <1>4, <3>1
    <3>2. CASE handed' = [handed EXCEPT ![q] = Append(@, cur)]
      <4>1. cur \in Message /\ WasSent(cur, sent)
        BY <1>0, <2>3 DEF Deliver, Sequenced, Received
      <4> QED BY <2>1, <3>2, <4>1
    <3> QED BY <2>3, <3>1, <3>2 DEF Deliver
  <2>4. ASSUME NEW q \in Readers, Quit(q)
        PROVE  \A r \in Readers : \A i \in 1..Len(handed'[r]) : WasSent(handed'[r][i], sent')
    <3>1. \A r \in Readers : handed'[r] = handed[r] \/ handed'[r] = <<>>
      BY <1>0, <2>4 DEF Quit, Sequenced
    <3> QED BY <1>3, <3>1
  <2>5. CASE UNCHANGED handed
    BY <1>4, <2>5
  <2>6. UNCHANGED handed \/ \E q \in Readers : Subscribe(q) \/ Deliver(q) \/ Quit(q)
    BY DEF Next, ReaderStep, DemuxStep, vars, queueVars, SubscribeFails, Take, Unsubscribe,
           CloseIfIdle, Route, Stall, DropVictim, HandedAll, ConnectionOver, EndOne, TakeRequest,
           SendMedia, LineFails
  <2> QED BY <2>2, <2>3, <2>4, <2>5, <2>6
<1> QED BY <1>7, <1>8 DEF Received

-----------------------------------------------------------------------------
\* The sequence t is s with m at its end.
Longer(s, m, t) ==
  /\ Len(s) \in Nat /\ Len(t) = Len(s) + 1 /\ Len(t) \in 1..Len(t) /\ t[Len(t)] = m
  /\ \A i \in 1..Len(s) : i \in 1..Len(t) /\ t[i] = s[i] /\ i < Len(t)
  /\ \A i \in 1..Len(t) : i \in 1..Len(s) \/ i = Len(t)

\* So is what Append gives.
LEMMA AppendLonger ==
  ASSUME NEW s \in Seq(Message), NEW m \in Message
  PROVE  Longer(s, m, Append(s, m)) /\ Append(s, m) \in Seq(Message)
<1> DEFINE t == Append(s, m)
<1>1. /\ t \in Seq(Message) /\ Len(t) = Len(s) + 1 /\ Len(s) \in Nat
      /\ \A i \in 1..Len(s) : t[i] = s[i]
      /\ t[Len(s) + 1] = m
  BY AppendProperties
<1> HIDE DEF t
<1>2. Longer(s, m, t)
  BY <1>1 DEF Longer
<1> QED BY <1>1, <1>2 DEF t

\* What a longer sequence has of a preview.
LEMMA OwnLonger ==
  ASSUME NEW s, NEW m, NEW t, NEW h, Longer(s, m, t)
  PROVE  /\ \A i \in Own(s, h) : i \in Own(t, h) /\ t[i] = s[i] /\ i < Len(t)
         /\ \A i \in Own(t, h) : i \in Own(s, h) \/ (i = Len(t) /\ m.handle = h)
         /\ m.handle = h => Len(t) \in Own(t, h)
         /\ \A i \in Pictures(s) : i \in Pictures(t) /\ t[i] = s[i] /\ i < Len(t)
         /\ \A i \in Pictures(t) : i \in Pictures(s) \/ (i = Len(t) /\ m.kind # "info")
         /\ m.kind # "info" => Len(t) \in Pictures(t)
         /\ t[Len(t)] = m
  BY DEF Longer, Own, Pictures

\* The message m goes on where the stream s of the preview h left off.
GoesOn(s, h, m) ==
  m.handle = h /\ m.kind # "info" =>
    /\ \E j \in Own(s, h) : s[j].kind = "info"
    /\ m.kind = "key" \/ \E j \in Own(s, h) \intersect Pictures(s) : s[j].kind = "key"
    /\ \A i \in Own(s, h) \intersect Pictures(s) : s[i].n < m.n
    /\ \/ Own(s, h) \intersect Pictures(s) = {}
       \/ \E i \in Own(s, h) \intersect Pictures(s) : m.n = s[i].n + 1

\* A whole stream that goes on is whole.
LEMMA WholeGrows ==
  ASSUME NEW s \in Seq(Message), NEW m \in Message, NEW h, Whole(s, h), GoesOn(s, h, m)
  PROVE  Whole(Append(s, m), h)
<1> DEFINE t == Append(s, m)
           old == Own(s, h) \intersect Pictures(s)
           new == Own(t, h) \intersect Pictures(t)
<1>1. Longer(s, m, t)
  BY AppendLonger
<1> HIDE DEF t
<1>2. /\ \A i \in old : i \in new /\ t[i] = s[i] /\ i < Len(t)
      /\ \A i \in new : i \in old \/ (i = Len(t) /\ m.handle = h /\ m.kind # "info")
      /\ \A i \in Own(s, h) : i \in Own(t, h) /\ t[i] = s[i] /\ i < Len(t)
      /\ t[Len(t)] = m
  BY <1>1, OwnLonger
<1>3. /\ \A i \in old : \E j \in Own(s, h) : j < i /\ s[j].kind = "info"
      /\ \A i \in old : s[i].kind = "key" \/ \E j \in old : j < i /\ s[j].kind = "key"
      /\ \A i \in old : \A j \in old : i < j => s[i].n < s[j].n
      /\ \A j \in old : (\A i \in old : j <= i) \/ \E i \in old : s[j].n = s[i].n + 1
  BY DEF Whole, KeyframeFirst
<1>4. ASSUME m.handle = h, m.kind # "info"
      PROVE  /\ \E j \in Own(s, h) : s[j].kind = "info"
             /\ m.kind = "key" \/ \E j \in old : s[j].kind = "key"
             /\ \A i \in old : s[i].n < m.n
             /\ old = {} \/ \E i \in old : m.n = s[i].n + 1
  BY <1>4 DEF GoesOn
<1>5. \A i \in old : i \in Nat /\ Len(t) \in Nat
  BY <1>1 DEF Own, Longer
<1> HIDE DEF old, new
<1>6. \A i \in new : \E j \in Own(t, h) : j < i /\ t[j].kind = "info"
  BY <1>2, <1>3, <1>4
<1>7. \A i \in new : t[i].kind = "key" \/ \E j \in new : j < i /\ t[j].kind = "key"
  BY <1>2, <1>3, <1>4
<1>8. ASSUME NEW i \in new, NEW j \in new, i < j PROVE t[i].n < t[j].n
  <2>1. i \in old
    BY <1>2, <1>5, <1>8
  <2> QED BY <1>2, <1>3, <1>4, <1>8, <2>1
<1>9. ASSUME NEW j \in new PROVE (\A i \in new : j <= i) \/ \E i \in new : t[j].n = t[i].n + 1
  <2>1. CASE j \in old
    BY <1>2, <1>3, <1>5, <2>1
  <2>2. CASE j \notin old
    <3>1. j = Len(t) /\ m.handle = h /\ m.kind # "info" /\ t[j] = m
      BY <1>2, <2>2
    <3>2. CASE old = {}
      <4>1. \A i \in new : i = j
        BY <1>2, <3>1, <3>2
      <4>2. j \in Nat
        BY <1>1, <3>1 DEF Longer
      <4> QED BY <4>1, <4>2
    <3>3. CASE \E i \in old : m.n = s[i].n + 1
      BY <1>2, <3>1, <3>3
    <3> QED BY <1>4, <3>1, <3>2, <3>3
  <2> QED BY <2>1, <2>2
<1>10. Whole(t, h)
  BY <1>6, <1>7, <1>8, <1>9 DEF Whole, KeyframeFirst, new
<1> QED BY <1>10 DEF t

\* A stream without its last message is as whole.
LEMMA WholeShrinks ==
  ASSUME NEW s \in Seq(Message), NEW m \in Message, NEW h, Whole(Append(s, m), h)
  PROVE  Whole(s, h)
<1> DEFINE t == Append(s, m)
           old == Own(s, h) \intersect Pictures(s)
           new == Own(t, h) \intersect Pictures(t)
<1>1. Longer(s, m, t)
  BY AppendLonger
<1>0. \A i \in 1..Len(t) : t[i].n \in Nat
  <2>1. t \in Seq(Message)
    BY AppendLonger
  <2>2. \A i \in 1..Len(t) : t[i] \in Message
    BY <2>1, ElementOfSeq
  <2> QED BY <2>2 DEF Message
<1>3. /\ \A i \in new : \E j \in Own(t, h) : j < i /\ t[j].kind = "info"
      /\ \A i \in new : t[i].kind = "key" \/ \E j \in new : j < i /\ t[j].kind = "key"
      /\ \A i \in new : \A j \in new : i < j => t[i].n < t[j].n
      /\ \A j \in new : (\A i \in new : j <= i) \/ \E i \in new : t[j].n = t[i].n + 1
  BY DEF Whole, KeyframeFirst
<1> HIDE DEF t
<1>2. /\ \A i \in old : i \in new /\ t[i] = s[i] /\ i < Len(t)
      /\ \A i \in new : i \in old \/ i = Len(t)
      /\ \A i \in Own(s, h) : i \in Own(t, h) /\ t[i] = s[i] /\ i < Len(t)
      /\ \A i \in Own(t, h) : i \in Own(s, h) \/ i = Len(t)
  BY <1>1, OwnLonger
<1>5. \A i \in old : i \in Nat /\ Len(t) \in Nat /\ i < Len(t) /\ t[i].n \in Nat
  BY <1>0, <1>1, <1>2 DEF Own, Longer
<1>4. Len(t) \in new => t[Len(t)].n \in Nat
  BY <1>0 DEF Own
<1> HIDE DEF old, new
<1>6. \A i \in old : \E j \in Own(s, h) : j < i /\ s[j].kind = "info"
  BY <1>2, <1>3, <1>5
<1>7. \A i \in old : s[i].kind = "key" \/ \E j \in old : j < i /\ s[j].kind = "key"
  BY <1>2, <1>3, <1>5
<1>8. \A i \in old : \A j \in old : i < j => s[i].n < s[j].n
  BY <1>2, <1>3
<1>9. ASSUME NEW j \in old PROVE (\A i \in old : j <= i) \/ \E i \in old : s[j].n = s[i].n + 1
  <2>1. ASSUME NEW i \in new, t[j].n = t[i].n + 1 PROVE i \in old
    <3> SUFFICES ASSUME i = Len(t) PROVE FALSE
      BY <1>2
    <3>1. t[j].n < t[i].n
      BY <1>2, <1>3, <1>9
    <3> QED BY <1>4, <1>5, <1>9, <2>1, <3>1
  <2> QED BY <1>2, <1>3, <2>1
<1>10. Whole(s, h)
  BY <1>6, <1>7, <1>8, <1>9 DEF Whole, KeyframeFirst, old
<1> QED BY <1>10

\* A message goes after its own preview's only if it is one of them.
LEMMA OwnLastGrows ==
  ASSUME NEW s \in Seq(Message), NEW m \in Message, NEW h, OwnLast(s, h),
         Own(s, h) # {} => m.handle = h
  PROVE  OwnLast(Append(s, m), h)
<1> DEFINE t == Append(s, m)
<1>1. Longer(s, m, t)
  BY AppendLonger
<1> HIDE DEF t
<1>2. \A i \in 1..Len(s) : s[i].handle = h => m.handle = h
  BY DEF Own
<1> QED BY <1>1, <1>2 DEF Longer, OwnLast, t

\* A stream cut short is one too.
LEMMA OwnLastShrinks ==
  ASSUME NEW s \in Seq(Message), NEW m \in Message, NEW h, OwnLast(Append(s, m), h)
  PROVE  OwnLast(s, h)
<1> DEFINE t == Append(s, m)
<1>1. Longer(s, m, t)
  BY AppendLonger
<1> HIDE DEF t
<1>2. OwnLast(t, h)
  BY DEF t
<1> QED BY <1>1, <1>2 DEF Longer, OwnLast

\* Likewise for "a keyframe first".
LEMMA KeyframeFirstGrows ==
  ASSUME NEW s \in Seq(Message), NEW m \in Message, KeyframeFirst(s, Pictures(s)),
         m.kind = "delta" => \E j \in Pictures(s) : s[j].kind = "key"
  PROVE  KeyframeFirst(Append(s, m), Pictures(Append(s, m)))
<1> DEFINE t == Append(s, m)
<1>1. Longer(s, m, t)
  BY AppendLonger
<1>2. m.kind \in {"info", "key", "delta"}
  BY DEF Message
<1> HIDE DEF t
<1>3. /\ \A i \in Pictures(s) : i \in Pictures(t) /\ t[i] = s[i] /\ i < Len(t)
      /\ \A i \in Pictures(t) : i \in Pictures(s) \/ (i = Len(t) /\ m.kind # "info")
      /\ t[Len(t)] = m
  BY <1>1, OwnLonger
<1>4. KeyframeFirst(t, Pictures(t))
  BY <1>2, <1>3 DEF KeyframeFirst
<1> QED BY <1>4 DEF t

\* And without the last message.
LEMMA KeyframeFirstShrinks ==
  ASSUME NEW s \in Seq(Message), NEW m \in Message,
         KeyframeFirst(Append(s, m), Pictures(Append(s, m)))
  PROVE  KeyframeFirst(s, Pictures(s))
<1> DEFINE t == Append(s, m)
<1>1. Longer(s, m, t) /\ KeyframeFirst(t, Pictures(t))
  BY AppendLonger
<1> HIDE DEF t
<1>2. /\ \A i \in Pictures(s) : i \in Pictures(t) /\ t[i] = s[i] /\ i < Len(t) /\ i \in Nat /\ Len(t) \in Nat
      /\ \A i \in Pictures(t) : i \in Pictures(s) \/ i = Len(t)
  BY <1>1, OwnLonger DEF Pictures, Longer
<1> QED BY <1>1, <1>2 DEF KeyframeFirst

\* A step leaves a reader's stream, and what it has to do with it, alone.
Same(r) ==
  /\ reader[r] = "reading" /\ Stream(r)' = Stream(r)
  /\ bornOf'[r] = bornOf[r] /\ keyOf' = keyOf
  /\ r \in synced' <=> r \in synced
  /\ r \in founder' <=> r \in founder
  /\ Joined(r)' => Joined(r)

\* Only four steps do anything to the stream of a reader that goes on reading.
LEMMA StreamKinds ==
  ASSUME Types, Ends, [Next]_vars, NEW r \in Readers, reader'[r] = "reading"
  PROVE  Same(r) \/ Subscribe(r) \/ Route \/ Stall(r)
<1>0. TypeOK /\ Sequenced /\ Attached
  BY DEF Types
<1>1. ASSUME UNCHANGED <<reader, handed, bornOf, keyOf, synced, founder, ended, demux, cur, to>>,
             \A k \in Keys : readers'[k] \subseteq readers[k]
      PROVE  Same(r)
  BY <1>0, <1>1 DEF Same, Stream, Pending, Joined, TypeOK
<1>2. ASSUME NEW q \in Readers, Subscribe(q), q # r PROVE Same(r)
  <2>1. reader'[r] = reader[r] /\ handed'[r] = handed[r] /\ bornOf'[r] = bornOf[r]
    <3>1. reader' = [reader EXCEPT ![q] = "reading"] /\ bornOf' = [bornOf EXCEPT ![q] = preview'[keyOf[q]]]
      BY <1>2 DEF Subscribe
    <3>2. handed' = handed \/ handed' = [handed EXCEPT ![q] = Append(@, InfoOf(keyOf[q]))]
      BY <1>2 DEF Subscribe
    <3> QED BY <1>0, <1>2, <3>1, <3>2 DEF TypeOK, Sequenced
  <2>2. synced' \in {synced, synced \union {q}} /\ founder' \in {founder, founder \union {q}}
    BY <1>2 DEF Subscribe
  <2>3. UNCHANGED <<keyOf, ended, demux, cur, to>>
    BY <1>2 DEF Subscribe, demuxVars
  <2>4. \A k \in Keys : readers'[k] \subseteq readers[k] \union {q}
    BY <1>0, <1>2 DEF Subscribe, TypeOK
  <2>5. Stream(r)' = Stream(r)
    BY <2>1, <2>3 DEF Stream, Pending
  <2>6. Joined(r)' => Joined(r)
    BY <1>0, <1>2, <2>1, <2>3, <2>4 DEF Joined, TypeOK
  <2> QED BY <1>2, <2>1, <2>2, <2>3, <2>5, <2>6 DEF Same
<1>3. ASSUME NEW q \in Readers, SubscribeFails(q) \/ Quit(q) \/ Unsubscribe(q) PROVE Same(r)
  <2>1. /\ reader' \in {[reader EXCEPT ![q] = "gone"], [reader EXCEPT ![q] = "quit"]}
        /\ handed' \in {handed, [handed EXCEPT ![q] = <<>>]}
        /\ UNCHANGED <<bornOf, keyOf, synced, founder, ended, demux, cur, to>>
    BY <1>3 DEF SubscribeFails, Quit, Unsubscribe, sharedVars, queueVars, demuxVars
  <2>2. q # r
    BY <1>0, <2>1 DEF TypeOK
  <2>3. reader'[r] = reader[r] /\ handed'[r] = handed[r]
    BY <1>0, <2>1, <2>2 DEF TypeOK, Sequenced
  <2>4. \A k \in Keys : readers'[k] \subseteq readers[k]
    <3>1. readers' = readers \/ readers' = [readers EXCEPT ![keyOf[q]] = @ \ {q}]
      BY <1>3 DEF SubscribeFails, Quit, Unsubscribe, Remove, sharedVars
    <3> QED BY <1>0, <3>1 DEF TypeOK
  <2>5. Stream(r)' = Stream(r)
    BY <2>1, <2>3 DEF Stream, Pending
  <2>6. Joined(r)' => Joined(r)
    BY <1>0, <2>1, <2>3, <2>4 DEF Joined, TypeOK
  <2> QED BY <2>1, <2>3, <2>5, <2>6 DEF Same
<1>4. ASSUME NEW q \in Readers, Take(q) PROVE Same(r)
  BY <1>1, <1>4 DEF Take, sharedVars, readerVars, demuxVars
<1>5. ASSUME NEW q \in Readers, Deliver(q) PROVE Same(r)
  <2>1. /\ demux = "handing" /\ q \in to /\ to' = to \ {q}
        /\ UNCHANGED <<reader, readers, bornOf, keyOf, synced, founder, ended, demux, cur>>
    BY <1>5 DEF Deliver, sharedVars, readerVars
  <2>2. CASE q = r
    <3>1. handed' = [handed EXCEPT ![r] = Append(@, cur)]
      BY <1>5, <2>1, <2>2 DEF Deliver
    <3>2. handed'[r] = Append(handed[r], cur)
      BY <1>0, <3>1 DEF Sequenced
    <3>3. Stream(r)' = Stream(r)
      BY <2>1, <2>2, <3>2 DEF Stream, Pending
    <3> QED BY <2>1, <3>3 DEF Same, Joined
  <2>3. CASE q # r
    <3>1. handed'[r] = handed[r]
      BY <1>0, <1>5, <2>3 DEF Deliver, Sequenced
    <3>2. Stream(r)' = Stream(r)
      BY <2>1, <2>3, <3>1 DEF Stream, Pending
    <3> QED BY <2>1, <3>2 DEF Same, Joined
  <2> QED BY <2>2, <2>3
<1>6. ASSUME NEW q \in Readers, Stall(q), q # r PROVE Same(r)
  <2>1. /\ demux = "handing" /\ to' = to \ {q} /\ demux' = "dropping"
        /\ ended' = [ended EXCEPT ![q] = @ + 1]
        /\ UNCHANGED <<reader, readers, handed, bornOf, keyOf, synced, founder, cur>>
    BY <1>6 DEF Stall, EndReader, sharedVars, readerVars
  <2>2. ended'[r] = ended[r]
    BY <1>0, <1>6, <2>1 DEF TypeOK
  <2>3. Stream(r)' = Stream(r)
    BY <1>6, <2>1 DEF Stream, Pending
  <2> QED BY <2>1, <2>2, <2>3 DEF Same, Joined
<1>7. CASE DropVictim
  <2>1. /\ demux = "dropping" /\ demux' = "handing"
        /\ UNCHANGED <<reader, handed, bornOf, keyOf, synced, founder, ended, cur, to>>
    BY <1>7 DEF DropVictim, readerVars, queueVars
  <2>2. \A k \in Keys : readers'[k] \subseteq readers[k]
    <3>1. readers' = readers \/ readers' = [readers EXCEPT ![keyOf[victim]] = @ \ {victim}]
      BY <1>7 DEF DropVictim, Remove
    <3> QED BY <1>0, <3>1 DEF TypeOK
  <2>3. Stream(r)' = Stream(r)
    BY <2>1 DEF Stream, Pending
  <2> QED BY <1>0, <2>1, <2>2, <2>3 DEF Same, Joined, TypeOK
<1>8. CASE HandedAll \/ ConnectionOver
  <2>1. /\ to = {} \/ demux = "ranging"
        /\ demux' \in {"ranging", "ending"}
        /\ UNCHANGED <<reader, handed, bornOf, keyOf, synced, founder, ended>>
    BY <1>8 DEF HandedAll, ConnectionOver, sharedVars, readerVars, queueVars
  <2>2. \A k \in Keys : readers'[k] \subseteq readers[k]
    BY <1>8 DEF HandedAll, ConnectionOver, sharedVars
  <2>3. Stream(r)' = Stream(r)
    BY <2>1 DEF Stream, Pending
  <2> QED BY <1>0, <2>1, <2>2, <2>3 DEF Same, Joined, TypeOK
<1>9. ASSUME NEW q \in Readers, EndOne(q) PROVE Same(r)
  <2>1. /\ demux = "ending" /\ demux' = demux
        /\ ended' = [ended EXCEPT ![q] = @ + 1]
        /\ UNCHANGED <<reader, readers, handed, bornOf, keyOf, synced, founder>>
    BY <1>9 DEF EndOne, EndReader, sharedVars, readerVars
  <2>2. Stream(r)' = Stream(r)
    BY <2>1 DEF Stream, Pending
  <2>3. ended'[r] = 0 => ended[r] = 0
    BY <1>0, <2>1 DEF TypeOK
  <2> QED BY <2>1, <2>2, <2>3 DEF Same, Joined
<1>10. ASSUME NEW c \in Readers \union {"demux"}, CloseIfIdle(c) PROVE Same(r)
  BY <1>1, <1>10 DEF CloseIfIdle, readerVars, queueVars, demuxVars
<1>11. CASE TakeRequest \/ LineFails \/ UNCHANGED vars
  BY <1>1, <1>11 DEF TakeRequest, LineFails, vars, sharedVars, readerVars, queueVars, demuxVars
<1>12. ASSUME NEW k \in Keys, NEW h \in Handles, SendMedia([key |-> k, handle |-> h]) PROVE Same(r)
  BY <1>1, <1>12 DEF SendMedia, sharedVars, readerVars, queueVars, demuxVars
<1>13. ASSUME NEW q \in Readers, ReaderStep(q) PROVE Same(r) \/ Subscribe(r)
  BY <1>2, <1>3, <1>4, <1>13 DEF ReaderStep
<1>14. CASE DemuxStep
  BY <1>5, <1>6, <1>7, <1>8, <1>9, <1>14 DEF DemuxStep
<1> QED BY <1>10, <1>11, <1>12, <1>13, <1>14 DEF Next

\* What routing m does to a reader.
Routed(r, m) ==
  /\ m = wire[1] /\ m \in Message /\ WireShrunk /\ Stream(r) \in Seq(Message)
  /\ r \in to' <=> r \in readers[m.key] /\ (r \in synced \/ Starts(m))
  /\ r \in to' => Stream(r)' = Append(Stream(r), m) /\ Joined(r)
  /\ r \notin to' => Stream(r)' = Stream(r)
  /\ r \in synced' <=> r \in synced \/ (m.kind = "key" /\ r \in readers[m.key])
  /\ r \in readers[m.key] <=> m.key = keyOf[r] /\ Joined(r)
  /\ Joined(r)' <=> Joined(r)
  /\ \A k \in Keys : info'[k] = IF m.kind = "info" /\ k = m.key /\ preview[k] # NoHandle
                                THEN m.handle ELSE info[k]
  /\ UNCHANGED <<reader, readers, bornOf, keyOf, founder, preview, sent, line>>

\* That is what Route does.
LEMMA RouteStream ==
  ASSUME Types, Ends, Route, NEW r \in Readers, reader[r] = "reading"
  PROVE  \E m \in Message : Routed(r, m)
<1>0. TypeOK /\ Sequenced /\ Attached
  BY DEF Types
<1> DEFINE m == Head(wire)
<1>1. m = wire[1] /\ m \in Message /\ m.key \in Keys /\ WireShrunk
  BY <1>0, Routing DEF WireShrunk, Message
<1>2. /\ demux = "ranging" /\ demux' = "handing" /\ cur' = m
      /\ UNCHANGED <<reader, readers, bornOf, keyOf, founder, preview, sent, line, handed, ended>>
  BY DEF Route, readerVars, queueVars, recorderVars
<1>3. (IF preview[m.key] = NoHandle THEN {} ELSE readers[m.key]) = readers[m.key]
  BY <1>0, <1>1 DEF Attached
<1>4. to' = {x \in readers[m.key] : x \in synced \/ Starts(m)}
  BY <1>3 DEF Route
<1>5. synced' = IF m.kind = "key" THEN synced \union readers[m.key] ELSE synced
  BY <1>3 DEF Route
<1>6. \A k \in Keys : info'[k] = IF m.kind = "info" /\ k = m.key /\ preview[k] # NoHandle
                                 THEN m.handle ELSE info[k]
  BY <1>0, <1>1 DEF Route, TypeOK
<1>7. Stream(r) = handed[r] /\ handed[r] \in Seq(Message)
  BY <1>0, <1>2 DEF Stream, Pending, Sequenced
<1>8. r \in readers[m.key] => m.key = keyOf[r] /\ Joined(r)
  BY <1>1, <1>2 DEF Ends, Joined
<1> HIDE DEF m
<1>9. /\ r \in to' => Stream(r)' = Append(Stream(r), m)
      /\ r \notin to' => Stream(r)' = Stream(r)
  BY <1>2, <1>7 DEF Stream, Pending
<1>10. Joined(r)' <=> Joined(r)
  BY <1>2 DEF Joined
<1>11. Routed(r, m)
  BY <1>1, <1>2, <1>4, <1>5, <1>6, <1>7, <1>8, <1>9, <1>10 DEF Routed, Joined
<1> QED BY <1>1, <1>11

\* With the first message of its own preview a reader is handed, that one's
\* info packet is kept.
LEMMA RoutedKept ==
  ASSUME Types, OneKeyEach, OnWire, Fresh, Joining, NEW r \in Readers, NEW m \in Message,
         Routed(r, m), r \in to', m.handle = bornOf[r], m.kind # "info"
  PROVE  info[keyOf[r]] = bornOf[r]
<1>1. Joined(r) /\ m.key = keyOf[r] /\ m = wire[1] /\ 1 \in Wired /\ m.n \in Nat /\ keyOf[r] \in Keys
  BY DEF Routed, WireShrunk, Message, Types, TypeOK
<1>2. r \in readers[keyOf[r]] /\ preview[keyOf[r]] # NoHandle /\ bornOf[r] = preview[keyOf[r]]
  BY <1>1 DEF Joined, Joining, Types, Attached
<1>3. m.n > 1 /\ IsKind(m)
  BY <1>1 DEF OnWire, IsKind
<1>4. ASSUME NEW h, NEW n, Before(h, n, 1) PROVE FALSE
  <2>1. \A j \in Wired : ~(j < 1)
    BY DEF Wired
  <2> QED BY <1>4, <2>1 DEF Before
<1> SUFFICES ASSUME info[keyOf[r]] # preview[keyOf[r]] PROVE FALSE
  BY <1>2
<1>5. FreshWire(keyOf[r])
  BY <1>1, <1>2, FreshParts DEF FreshOf
<1> QED BY <1>1, <1>2, <1>3, <1>4, <1>5 DEF FreshWire

\* After it, nothing of another preview comes.
LEMMA RoutedLast ==
  ASSUME Types, Fresh, Joining, NEW r \in Readers, NEW m \in Message,
         Routed(r, m), r \in to', OwnOf(r) # {}
  PROVE  m.handle = bornOf[r]
<1>1. Joined(r) /\ m.key = keyOf[r] /\ m = wire[1] /\ 1 \in Wired /\ keyOf[r] \in Keys
  BY DEF Routed, WireShrunk, Message, Types, TypeOK
<1>2. preview[keyOf[r]] # NoHandle /\ bornOf[r] = preview[keyOf[r]] /\ info[keyOf[r]] = bornOf[r]
  BY <1>1 DEF Joined, Joining, Types, Attached
<1>3. FreshStale(keyOf[r])
  BY <1>1, <1>2, FreshParts DEF FreshOf
<1> QED BY <1>1, <1>2, <1>3 DEF FreshStale

\* A message that is routed to a reader goes on where its stream left off.
LEMMA RouteGoesOn ==
  ASSUME Types, OneKeyEach, OnWire, Fresh, Joining, Synced, NEW r \in Readers, NEW m \in Message,
         Routed(r, m), r \in to'
  PROVE  GoesOn(Stream(r), bornOf[r], m)
<1> SUFFICES ASSUME m.handle = bornOf[r], m.kind # "info" PROVE GoesOn(Stream(r), bornOf[r], m)
  BY DEF GoesOn
<1>0. TypeOK /\ Sequenced
  BY DEF Types
<1>1. Joined(r) /\ m.key = keyOf[r] /\ m = wire[1] /\ 1 \in Wired /\ m.n \in Nat /\ keyOf[r] \in Keys
  BY <1>0 DEF Routed, WireShrunk, Message, TypeOK
<1>2. r \in readers[keyOf[r]] /\ preview[keyOf[r]] # NoHandle /\ bornOf[r] = preview[keyOf[r]]
  BY <1>1 DEF Joined, Joining, Types, Attached
<1>3. m.n > 1 /\ IsKind(m)
  BY <1>1 DEF OnWire, IsKind
<1>4. ASSUME NEW h, NEW n, Before(h, n, 1) PROVE FALSE
  <2>1. \A j \in Wired : ~(j < 1)
    BY DEF Wired
  <2> QED BY <1>4, <2>1 DEF Before
<1>5. info[keyOf[r]] = bornOf[r]
  BY RoutedKept
<1>6. \E j \in OwnOf(r) : Stream(r)[j].kind = "info"
  BY <1>1, <1>5 DEF Joining
<1>7. \A p \in OwnOf(r) : Stream(r)[p].n < m.n
  BY <1>1 DEF Joining
<1>8. CASE r \notin synced
  <2>1. m.kind = "key" /\ Pictures(Stream(r)) = {}
    BY <1>1, <1>8 DEF Routed, Starts, Joining
  <2> QED BY <1>6, <2>1 DEF GoesOn, OwnOf
<1>9. CASE r \in synced
  <2>1. /\ m.kind = "delta" => HasKey(r) \/ KeyBefore(bornOf[r], 1)
        /\ HasNumber(r, m.n - 1) \/ Before(bornOf[r], m.n - 1, 1) \/ OwnPictures(r) = {}
    BY <1>1, <1>9 DEF Synced
  <2>2. ~KeyBefore(bornOf[r], 1)
    <3>1. \A j \in Wired : ~(j < 1)
      BY DEF Wired
    <3> QED BY <3>1 DEF KeyBefore
  <2>3. m.kind = "key" \/ \E j \in OwnPictures(r) : Stream(r)[j].kind = "key"
    BY <2>1, <2>2 DEF HasKey, Message
  <2>4. OwnPictures(r) = {} \/ \E p \in OwnPictures(r) : Stream(r)[p].n = m.n - 1
    BY <1>4, <2>1 DEF HasNumber
  <2>5. OwnPictures(r) = {} \/ \E p \in OwnPictures(r) : m.n = Stream(r)[p].n + 1
    <3>1. \A p \in OwnPictures(r) : Stream(r)[p].n \in Nat
      <4>1. \A p \in 1..Len(Stream(r)) : Stream(r)[p] \in Message
        BY ElementOfSeq DEF Routed
      <4> QED BY <4>1 DEF OwnPictures, OwnOf, Own, Message
    <3>2. \A p \in OwnPictures(r) : Stream(r)[p].n = m.n - 1 => m.n = Stream(r)[p].n + 1
      BY <1>1, <3>1
    <3> QED BY <2>4, <3>2
  <2> QED BY <1>6, <1>7, <2>3, <2>5 DEF GoesOn, OwnPictures, OwnOf
<1> QED BY <1>8, <1>9

\* What a reader has been handed stays whole and, if it joined, begins with a
\* keyframe.
LEMMA StreamsStep ==
  ASSUME Types, Ends, OneKeyEach, OnWire, Fresh, Streams, Joining, Synced, [Next]_vars
  PROVE  Streams'
<1> SUFFICES ASSUME NEW r \in Readers, reader'[r] = "reading"
             PROVE  /\ Whole(Stream(r)', bornOf'[r]) /\ OwnLast(Stream(r)', bornOf'[r])
                    /\ r \notin founder' => KeyframeFirst(Stream(r)', Pictures(Stream(r)'))
  BY DEF Streams
<1>0. TypeOK /\ Sequenced /\ Attached
  BY DEF Types
<1>1. CASE Same(r)
  BY <1>1 DEF Same, Streams
<1>2. CASE Subscribe(r)
  <2>1. handed[r] = <<>> /\ r \notin to
    BY <1>0, <1>2 DEF Subscribe, Attached
  <2>2. Stream(r)' = handed'[r]
    BY <1>2, <2>1 DEF Subscribe, Stream, Pending, demuxVars
  <2>3. \/ handed'[r] = <<>>
        \/ handed'[r] = <<InfoOf(keyOf[r])>>
    BY <1>0, <1>2, <2>1 DEF Subscribe, Sequenced
  <2>4. Pictures(Stream(r)') = {} /\ Len(Stream(r)') \in 0..1
    <3>1. CASE handed'[r] = <<>>
      BY <2>2, <3>1 DEF Pictures
    <3>2. CASE handed'[r] = <<InfoOf(keyOf[r])>>
      BY <2>2, <3>2 DEF Pictures, InfoOf
    <3> QED BY <2>3, <3>1, <3>2
  <2>5. OwnLast(Stream(r)', bornOf'[r])
    BY <2>4 DEF OwnLast
  <2> QED BY <2>4, <2>5 DEF Whole, KeyframeFirst
<1>3. CASE Stall(r)
  <2>1. /\ demux = "handing" /\ r \in to /\ demux' = "dropping" /\ r \notin to' /\ reader[r] = "reading"
        /\ UNCHANGED <<handed, bornOf, founder>>
    BY <1>3 DEF Stall, readerVars
  <2>2. Stream(r) = Append(handed[r], cur) /\ Stream(r)' = handed[r]
    BY <2>1 DEF Stream, Pending
  <2>3. handed[r] \in Seq(Message) /\ cur \in Message
    BY <1>0, <2>1 DEF Sequenced
  <2>4. Whole(Append(handed[r], cur), bornOf[r]) /\ OwnLast(Append(handed[r], cur), bornOf[r])
    BY <2>1, <2>2 DEF Streams
  <2>5. Whole(handed[r], bornOf[r]) /\ OwnLast(handed[r], bornOf[r])
    BY <2>3, <2>4, WholeShrinks, OwnLastShrinks
  <2>6. r \notin founder => KeyframeFirst(handed[r], Pictures(handed[r]))
    BY <2>1, <2>2, <2>3, KeyframeFirstShrinks DEF Streams
  <2> QED BY <2>1, <2>2, <2>5, <2>6
<1>4. CASE Route
  <2>1. reader[r] = "reading"
    BY <1>4 DEF Route, readerVars
  <2>2. PICK m \in Message : Routed(r, m)
    BY <1>4, <2>1, RouteStream
  <2>3. CASE r \notin to'
    BY <2>1, <2>2, <2>3 DEF Routed, Streams
  <2>4. CASE r \in to'
    <3>1. Stream(r)' = Append(Stream(r), m) /\ Stream(r) \in Seq(Message) /\ bornOf' = bornOf /\ founder' = founder
      BY <2>2, <2>4 DEF Routed
    <3>2. Whole(Stream(r)', bornOf'[r])
      BY <2>1, <2>2, <2>4, <3>1, RouteGoesOn, WholeGrows DEF Streams
    <3>4. OwnLast(Stream(r)', bornOf'[r])
      BY <2>1, <2>2, <2>4, <3>1, RoutedLast, OwnLastGrows DEF Streams, OwnOf
    <3>3. ASSUME r \notin founder PROVE KeyframeFirst(Stream(r)', Pictures(Stream(r)'))
      <4>1. m.kind = "delta" => \E j \in Pictures(Stream(r)) : Stream(r)[j].kind = "key"
        BY <2>2, <2>4, <3>3 DEF Routed, Starts, Joining
      <4> QED BY <2>1, <3>1, <3>3, <4>1, KeyframeFirstGrows DEF Streams
    <3> QED BY <3>1, <3>2, <3>3, <3>4
  <2> QED BY <2>3, <2>4
<1> QED BY <1>1, <1>2, <1>3, <1>4, StreamKinds

\* The handle of a preview that begins is not one whose info packet is kept.
LEMMA NewHandle ==
  ASSUME TypeOK, Sending, NEW r \in Readers, FirstComes(r), NEW k \in Keys
  PROVE  info[k] # handle + 1 /\ sent[handle + 1] = 0
<1>1. handle \in Nat /\ handle + 1 \in Handles
  BY DEF FirstComes
<1>2. sent[handle + 1] = 0
  BY <1>1 DEF Sending
<1>3. info[k] # handle + 1
  BY <1>1, <1>2 DEF Sending, Handles, NoHandle
<1> QED BY <1>2, <1>3

\* A reader that has joined and stays keeps its preview.
LEMMA PreviewKept ==
  ASSUME Types, Types', Ends, [Next]_vars, NEW r \in Readers, Same(r), Joined(r)', ~Route
  PROVE  preview'[keyOf[r]] = preview[keyOf[r]] /\ info'[keyOf[r]] = info[keyOf[r]]
<1> DEFINE k == keyOf[r]
<1>0. TypeOK /\ Attached /\ k \in Keys
  BY DEF Types, TypeOK
<1>1. preview[k] # NoHandle
  BY <1>0 DEF Same, Joined, Attached
<1>2. preview'[k] # NoHandle
  <2>1. r \in readers'[k] /\ Attached'
    BY DEF Same, Joined, Types
  <2> QED BY <1>0, <2>1 DEF Attached
<1> HIDE DEF k
<1>3. ASSUME NEW q \in Readers, FirstComes(q) PROVE preview'[k] = preview[k] /\ info'[k] = info[k]
  BY <1>0, <1>1, <1>3 DEF FirstComes, TypeOK
<1>4. ASSUME NEW q \in Readers, LastLeaves(q) PROVE preview'[k] = preview[k] /\ info'[k] = info[k]
  <2>1. /\ preview' = [preview EXCEPT ![keyOf[q]] = NoHandle] /\ keyOf[q] \in Keys
        /\ info' = [info EXCEPT ![keyOf[q]] = NoHandle]
    BY <1>4 DEF LastLeaves
  <2> QED BY <1>0, <1>2, <2>1 DEF TypeOK
<1>5. ~ConnectionOver
  BY <1>0, <1>2 DEF ConnectionOver
<1>6. preview'[k] = preview[k] /\ info'[k] = info[k]
  BY <1>3, <1>4, <1>5, StepKinds DEF TakeRequest, LineFails, SendMedia, Quiet, sharedVars
<1> QED BY <1>6 DEF k

\* What is on the wire after a step that routes nothing was there before, in
\* its place, or has just been sent.
LEMMA WireSteps ==
  ASSUME Types, Ends, [Next]_vars, ~Route
  PROVE  \/ WireCut /\ line' = "down"
         \/ UNCHANGED <<wire, sent>> /\ (line' = "up" => line = "up")
         \/ \E k \in Keys, h \in Handles, m \in Message : Sends(k, h, m)
<1>0. Sequenced
  BY DEF Types
<1>1. ASSUME NEW k \in Keys, NEW h \in Handles, SendMedia([key |-> k, handle |-> h])
      PROVE  \E m \in Message : Sends(k, h, m)
  BY <1>0, <1>1, Sent
<1>2. CASE LineFails
  BY <1>0, <1>2, Cutting
<1>3. CASE \/ (\E r \in Readers : FirstComes(r) \/ LastLeaves(r)) \/ TakeRequest \/ ConnectionOver \/ Quiet
  BY <1>3 DEF FirstComes, LastLeaves, TakeRequest, ConnectionOver, Quiet, recorderVars
<1> QED BY <1>1, <1>2, <1>3, StepKinds

\* What a stream holds was sent, and is of the kind its number says.
LEMMA StreamSent ==
  ASSUME Types, Received, NEW r \in Readers
  PROVE  /\ Stream(r) \in Seq(Message) /\ Len(Stream(r)) \in Nat
         /\ \A p \in 1..Len(Stream(r)) :
              /\ WasSent(Stream(r)[p], sent) /\ Stream(r)[p] \in Message /\ Stream(r)[p].n \in Nat
              /\ sent[Stream(r)[p].handle] \in Nat
<1>0. TypeOK /\ Sequenced
  BY DEF Types
<1>1. handed[r] \in Seq(Message) /\ \A p \in 1..Len(handed[r]) : WasSent(handed[r][p], sent)
  BY <1>0 DEF Sequenced, Received
<1>2. ASSUME NEW s \in Seq(Message), \A p \in 1..Len(s) : WasSent(s[p], sent)
      PROVE  /\ s \in Seq(Message) /\ Len(s) \in Nat
             /\ \A p \in 1..Len(s) : /\ WasSent(s[p], sent) /\ s[p] \in Message /\ s[p].n \in Nat
                                     /\ sent[s[p].handle] \in Nat
  <2>1. \A p \in 1..Len(s) : s[p] \in Message
    BY ElementOfSeq
  <2> QED BY <1>0, <1>2, <2>1, LenProperties DEF Message, Sequenced
<1>3. CASE ~Pending(r)
  BY <1>1, <1>2, <1>3 DEF Stream
<1>4. CASE Pending(r)
  <2>1. cur \in Message /\ WasSent(cur, sent)
    BY <1>0, <1>4 DEF Pending, Sequenced, Received
  <2> DEFINE t == Append(handed[r], cur)
  <2>2. Longer(handed[r], cur, t) /\ t \in Seq(Message)
    BY <1>1, <2>1, AppendLonger
  <2> HIDE DEF t
  <2>3. \A p \in 1..Len(t) : WasSent(t[p], sent)
    BY <1>1, <2>1, <2>2 DEF Longer
  <2>4. Stream(r) = t
    BY <1>4 DEF Stream, t
  <2> QED BY <1>2, <2>2, <2>3, <2>4
<1> QED BY <1>3, <1>4

\* The parts of Joining, for one reader.
JoinedInfo(r) == info[keyOf[r]] = bornOf[r] => \E p \in OwnOf(r) : Stream(r)[p].kind = "info"
JoinedKept(r) == OwnOf(r) # {} => info[keyOf[r]] = bornOf[r]
JoinedFirst(r) ==
  \A p \in OwnOf(r) : \A j \in Wired : wire[j].handle = bornOf[r] => Stream(r)[p].n < wire[j].n
JoinedKey(r) ==
  /\ r \notin synced => Pictures(Stream(r)) = {}
  /\ r \in synced /\ r \notin founder => \E p \in Pictures(Stream(r)) : Stream(r)[p].kind = "key"
JoiningOf(r) ==
  Joined(r) => bornOf[r] = preview[keyOf[r]] /\ JoinedInfo(r) /\ JoinedKept(r) /\ JoinedFirst(r) /\ JoinedKey(r)

\* Those parts are Joining.
LEMMA JoiningParts == (Joining <=> \A r \in Readers : JoiningOf(r))
                      /\ (Joining <=> \A r \in Readers : JoiningOf(r))'
  BY DEF Joining, JoiningOf, JoinedInfo, JoinedKept, JoinedFirst, JoinedKey

\* A reader begins with nothing, or with the info packet that is kept.
LEMMA JoiningBegins ==
  ASSUME Types, Sending, Fresh, NEW r \in Readers, Subscribe(r)
  PROVE  JoiningOf(r)'
<1> DEFINE k == keyOf[r]
<1>0. TypeOK /\ Sequenced /\ Attached /\ k \in Keys
  BY DEF Types, TypeOK
<1>1. /\ handed[r] = <<>> /\ r \notin to /\ r \notin synced
      /\ UNCHANGED <<keyOf, info, wire, demux, cur, to, sent>>
  BY <1>0 DEF Subscribe, Attached, demuxVars, recorderVars
<1>2. Stream(r)' = handed'[r] /\ bornOf'[r] = preview'[k]
  BY <1>0, <1>1 DEF Subscribe, Stream, Pending, TypeOK
<1>3. CASE preview[k] = NoHandle
  <2>1. /\ handed' = handed /\ preview' = [preview EXCEPT ![k] = handle + 1] /\ handle < MaxHandle
        /\ synced' = synced \union {r} /\ founder' = founder \union {r}
    BY <1>3 DEF Subscribe, NextHandle
  <2>2. bornOf'[r] = handle + 1 /\ Stream(r)' = <<>>
    BY <1>0, <1>1, <1>2, <2>1 DEF TypeOK
  <2>3. info[k] # handle + 1
    <3>1. handle \in Nat /\ handle + 1 \in Handles
      BY <1>0, <2>1, SharedAssumption DEF TypeOK, Handles
    <3>2. sent[handle + 1] = 0
      BY <3>1 DEF Sending
    <3> QED BY <1>0, <3>1, <3>2 DEF Sending, Handles, NoHandle
  <2>4. JoinedInfo(r)' /\ JoinedKept(r)' /\ JoinedFirst(r)' /\ JoinedKey(r)'
    <3>1. OwnOf(r)' = {} /\ Pictures(Stream(r)') = {}
      BY <2>2 DEF OwnOf, Own, Pictures
    <3> QED BY <1>1, <2>1, <2>2, <2>3, <3>1 DEF JoinedInfo, JoinedKept, JoinedFirst, JoinedKey
  <2> QED BY <1>1, <1>2, <2>4 DEF JoiningOf
<1>4. CASE preview[k] # NoHandle
  <2>1. /\ preview' = preview /\ synced' = synced
        /\ handed' = IF info[k] = NoHandle THEN handed ELSE [handed EXCEPT ![r] = Append(@, InfoOf(k))]
    BY <1>4 DEF Subscribe
  <2>2. JoinedInfo(r)' /\ JoinedKept(r)' /\ JoinedFirst(r)' /\ JoinedKey(r)'
    <3>1. CASE info[k] = NoHandle
      <4>1. Stream(r)' = <<>> /\ bornOf'[r] # info'[k]
        BY <1>1, <1>2, <1>4, <2>1, <3>1
      <4>2. OwnOf(r)' = {} /\ Pictures(Stream(r)') = {}
        BY <4>1 DEF OwnOf, Own, Pictures
      <4> QED BY <1>1, <2>1, <4>1, <4>2 DEF JoinedInfo, JoinedKept, JoinedFirst, JoinedKey
    <3>2. CASE info[k] # NoHandle
      <4>1. Stream(r)' = <<InfoOf(k)>>
        BY <1>0, <1>1, <1>2, <2>1, <3>2 DEF Sequenced
      <4>2. /\ Len(Stream(r)') = 1 /\ Stream(r)'[1].kind = "info" /\ Stream(r)'[1].n = 1
            /\ Stream(r)'[1].handle = info[k]
        BY <4>1 DEF InfoOf
      <4>3. Pictures(Stream(r)') = {}
        BY <4>2 DEF Pictures
      <4>4. OwnOf(r)' = {p \in {1} : info[k] = bornOf'[r]}
        BY <4>2 DEF OwnOf, Own
      <4>5. JoinedInfo(r)' /\ JoinedKept(r)'
        BY <1>1, <4>2, <4>4 DEF JoinedInfo, JoinedKept
      <4>6. FreshInfo(k)
        BY <1>0, FreshParts DEF FreshOf
      <4>7. JoinedFirst(r)'
        BY <1>1, <3>2, <4>2, <4>4, <4>6 DEF JoinedFirst, FreshInfo, Wired
      <4> QED BY <1>1, <2>1, <4>3, <4>5, <4>7 DEF JoinedKey
    <3> QED BY <3>1, <3>2
  <2> QED BY <1>1, <1>2, <2>2 DEF JoiningOf
<1> QED BY <1>3, <1>4

\* What is routed to a reader puts it further, and a keyframe syncs it.
LEMMA JoiningRoute ==
  ASSUME Types, Ends, OneKeyEach, Sending, OnWire, Fresh, Streams, Joining, Synced,
         NEW r \in Readers, NEW m \in Message, Routed(r, m)
  PROVE  JoiningOf(r)'
<1> SUFFICES ASSUME Joined(r)'
             PROVE  /\ bornOf'[r] = preview'[keyOf'[r]]
                    /\ JoinedInfo(r)' /\ JoinedKept(r)' /\ JoinedFirst(r)' /\ JoinedKey(r)'
  BY DEF JoiningOf
<1> DEFINE k == keyOf[r]
<1>0. TypeOK /\ Sequenced /\ Attached /\ k \in Keys
  BY DEF Types, TypeOK
<1>1. /\ Joined(r) /\ m = wire[1] /\ WireShrunk /\ UNCHANGED <<keyOf, bornOf, founder, preview>>
      /\ r \in readers[k] /\ preview[k] # NoHandle
  BY <1>0 DEF Routed, Joined, Attached
<1>2. bornOf[r] = preview[k] /\ JoinedInfo(r) /\ JoinedKept(r) /\ JoinedFirst(r) /\ JoinedKey(r)
  BY <1>1, JoiningParts DEF JoiningOf
<1>3. \A j \in Wired' : j + 1 \in Wired /\ 1 < j + 1 /\ wire'[j] = wire[j + 1]
  BY <1>1 DEF WireShrunk
<1>4. m.key = k <=> r \in readers[m.key]
  BY <1>1 DEF Routed
<1>5. info'[k] = IF m.kind = "info" /\ k = m.key THEN m.handle ELSE info[k]
  BY <1>0, <1>1 DEF Routed
<1>6. CASE r \notin to'
  <2>1. Stream(r)' = Stream(r)
    BY <1>6 DEF Routed
  <2>2. ~(m.key = k /\ m.kind = "info") /\ ~(m.key = k /\ m.kind = "key")
    BY <1>4, <1>6 DEF Routed, Starts
  <2>3. r \in synced' <=> r \in synced
    BY <1>4, <2>2 DEF Routed
  <2>4. OwnOf(r)' = OwnOf(r)
    BY <1>1, <2>1 DEF OwnOf
  <2>5. JoinedInfo(r)'
    BY <1>1, <1>2, <1>5, <2>1, <2>2, <2>4 DEF JoinedInfo
  <2>8. JoinedKept(r)'
    BY <1>1, <1>2, <1>5, <2>2, <2>4 DEF JoinedKept
  <2>6. JoinedFirst(r)'
    BY <1>1, <1>2, <1>3, <2>1, <2>4 DEF JoinedFirst
  <2>7. JoinedKey(r)'
    BY <1>1, <1>2, <2>1, <2>3 DEF JoinedKey
  <2> QED BY <1>1, <1>2, <2>5, <2>6, <2>7, <2>8
<1>7. CASE r \in to'
  <2> DEFINE s == Stream(r)
             t == Stream(r)'
  <2>1. t = Append(s, m) /\ s \in Seq(Message)
    BY <1>7 DEF Routed
  <2>2. Longer(s, m, t)
    BY <2>1, AppendLonger
  <2>3. OwnOf(r) = Own(s, bornOf[r]) /\ OwnOf(r)' = Own(t, bornOf[r])
    BY <1>1 DEF OwnOf
  <2> HIDE DEF s, t
  <2>4. /\ \A i \in OwnOf(r) : i \in OwnOf(r)' /\ t[i] = s[i]
        /\ \A i \in OwnOf(r)' : i \in OwnOf(r) \/ (i = Len(t) /\ m.handle = bornOf[r])
        /\ m.handle = bornOf[r] => Len(t) \in OwnOf(r)'
        /\ \A i \in Pictures(s) : i \in Pictures(t) /\ t[i] = s[i]
        /\ \A i \in Pictures(t) : i \in Pictures(s) \/ (i = Len(t) /\ m.kind # "info")
        /\ m.kind # "info" => Len(t) \in Pictures(t)
        /\ t[Len(t)] = m
    BY <2>2, <2>3, OwnLonger
  <2>5. JoinedInfo(r)'
    <3> SUFFICES ASSUME info'[k] = bornOf[r] PROVE \E p \in OwnOf(r)' : t[p].kind = "info"
      BY <1>1 DEF JoinedInfo, t
    <3>1. CASE info[k] = bornOf[r]
      BY <1>2, <2>4, <3>1 DEF JoinedInfo, s
    <3>2. CASE info[k] # bornOf[r]
      <4>1. m.kind = "info" /\ m.handle = bornOf[r]
        BY <1>5, <3>2
      <4> QED BY <2>4, <4>1
    <3> QED BY <3>1, <3>2
  <2>8. JoinedKept(r)'
    <3> SUFFICES ASSUME OwnOf(r)' # {} PROVE info'[k] = bornOf[r]
      BY <1>1 DEF JoinedKept
    <3>1. m.key = k
      BY <1>4, <1>7 DEF Routed
    <3>2. CASE m.handle = bornOf[r]
      BY <1>5, <1>7, <3>1, <3>2, RoutedKept
    <3>3. CASE m.handle # bornOf[r]
      <4>1. OwnOf(r) # {}
        BY <2>4, <3>3
      <4> QED BY <1>7, <3>3, <4>1, RoutedLast
    <3> QED BY <3>2, <3>3
  <2>6. JoinedFirst(r)'
    <3> SUFFICES ASSUME NEW p \in OwnOf(r)', NEW j \in Wired', wire'[j].handle = bornOf[r]
                 PROVE  t[p].n < wire'[j].n
      BY <1>1 DEF JoinedFirst, t
    <3>1. CASE p \in OwnOf(r)
      BY <1>2, <1>3, <2>4, <3>1 DEF JoinedFirst, s
    <3>2. CASE p = Len(t) /\ m.handle = bornOf[r]
      <4>1. InOrder(wire[1], wire[j + 1])
        BY <1>1, <1>3 DEF OnWire, WireShrunk
      <4> QED BY <1>1, <1>3, <2>4, <3>2, <4>1 DEF InOrder
    <3> QED BY <2>4, <3>1, <3>2
  <2>7. JoinedKey(r)'
    <3>1. m.kind \in {"info", "key", "delta"} /\ r \in readers[m.key]
      BY <1>7 DEF Message, Routed
    <3>2. CASE r \in synced
      <4>1. r \in synced'
        BY <3>2 DEF Routed
      <4> QED BY <1>1, <1>2, <2>4, <3>2, <4>1 DEF JoinedKey, s, t
    <3>3. CASE r \notin synced /\ m.kind = "key"
      <4>1. r \in synced' /\ \E p \in Pictures(t) : t[p].kind = "key"
        BY <2>4, <3>1, <3>3 DEF Routed
      <4> QED BY <4>1 DEF JoinedKey, t
    <3>4. CASE r \notin synced /\ m.kind # "key"
      <4>1. m.kind = "info" /\ r \notin synced'
        BY <1>7, <3>1, <3>4 DEF Routed, Starts
      <4>2. Pictures(s) = {}
        BY <1>2, <3>4 DEF JoinedKey, s
      <4>3. Pictures(t) = {}
        BY <2>4, <4>1, <4>2
      <4> QED BY <4>1, <4>3 DEF JoinedKey, t
    <3> QED BY <3>2, <3>3, <3>4
  <2> QED BY <1>1, <1>2, <2>5, <2>6, <2>7, <2>8
<1> QED BY <1>6, <1>7

\* A reader that has joined is where its preview is.
LEMMA JoiningStep ==
  ASSUME Types, Types', Ends, OneKeyEach, Sending, OnWire, Fresh, Received, Streams, Joining, Synced,
         [Next]_vars
  PROVE  Joining'
<1> SUFFICES ASSUME NEW r \in Readers, Joined(r)' PROVE JoiningOf(r)'
  BY JoiningParts DEF JoiningOf
<1>0. TypeOK /\ Sequenced
  BY DEF Types
<1>1. CASE Route
  <2>1. reader[r] = "reading"
    BY <1>1 DEF Route, readerVars, Joined
  <2> QED BY <1>1, <2>1, RouteStream, JoiningRoute
<1>2. CASE Subscribe(r)
  BY <1>2, JoiningBegins
<1>3. CASE Stall(r)
  <2>1. ended'[r] # 0
    BY <1>0, <1>3 DEF Stall, EndReader, TypeOK
  <2> QED BY <2>1 DEF Joined
<1>4. CASE Same(r) /\ ~Route
  <2>1. preview'[keyOf[r]] = preview[keyOf[r]] /\ info'[keyOf[r]] = info[keyOf[r]]
    BY <1>4, PreviewKept
  <2>2. /\ keyOf' = keyOf /\ bornOf'[r] = bornOf[r] /\ Stream(r)' = Stream(r) /\ Joined(r)
        /\ (r \in synced' <=> r \in synced) /\ (r \in founder' <=> r \in founder)
    BY <1>4 DEF Same
  <2>3. bornOf[r] = preview[keyOf[r]] /\ JoinedInfo(r) /\ JoinedKept(r) /\ JoinedFirst(r) /\ JoinedKey(r)
    BY <2>2, JoiningParts DEF JoiningOf
  <2>4. OwnOf(r)' = OwnOf(r)
    BY <2>2 DEF OwnOf
  <2>5. JoinedInfo(r)' /\ JoinedKept(r)' /\ JoinedKey(r)'
    BY <2>1, <2>2, <2>3, <2>4 DEF JoinedInfo, JoinedKept, JoinedKey
  <2>6. JoinedFirst(r)'
    <3> SUFFICES ASSUME NEW p \in OwnOf(r), NEW j \in Wired', wire'[j].handle = bornOf[r]
                 PROVE  Stream(r)[p].n < wire'[j].n
      BY <2>2, <2>4 DEF JoinedFirst
    <3>1. CASE j \in Wired /\ wire'[j] = wire[j]
      BY <2>3, <3>1 DEF JoinedFirst
    <3>2. ASSUME NEW k \in Keys, NEW h \in Handles, NEW m \in Message, Sends(k, h, m), wire'[j] = m
          PROVE  Stream(r)[p].n < wire'[j].n
      <4>1. p \in 1..Len(Stream(r)) /\ Stream(r)[p].handle = h
        BY <3>2 DEF Sends, OwnOf, Own
      <4>2. Stream(r)[p].n <= sent[h] /\ Stream(r)[p].n \in Nat
        BY <4>1, StreamSent DEF WasSent
      <4> QED BY <3>2, <4>2 DEF Sends
    <3> QED BY <1>4, <3>1, <3>2, WireSteps DEF WireCut, Wired, Sends, WireGrown
  <2> QED BY <2>1, <2>2, <2>3, <2>5, <2>6 DEF JoiningOf
<1>5. reader'[r] = "reading"
  BY DEF Joined
<1> QED BY <1>1, <1>2, <1>3, <1>4, <1>5, StreamKinds

\* The parts of Synced, for a stream s of the preview h, a wire w and the
\* number n of the last message sent.
OwnIn(s, h) == Own(s, h) \intersect Pictures(s)
NumberIn(s, h, n) == \E p \in OwnIn(s, h) : s[p].n = n
KeyIn(s, h) == \E p \in OwnIn(s, h) : s[p].kind = "key"
NumberOn(w, h, n, i) == \E j \in 1..Len(w) : j < i /\ w[j].handle = h /\ w[j].n = n
KeyOn(w, h, i) == \E j \in 1..Len(w) : j < i /\ w[j].handle = h /\ w[j].kind = "key"
SyncedWire(s, h, w) ==
  \A i \in 1..Len(w) : w[i].handle = h /\ w[i].kind # "info" =>
    /\ w[i].kind = "delta" => KeyIn(s, h) \/ KeyOn(w, h, i)
    /\ \/ NumberIn(s, h, w[i].n - 1)
       \/ w[i].n > 2 /\ NumberOn(w, h, w[i].n - 1, i)
       \/ w[i].n = 2 /\ OwnIn(s, h) = {}
SyncedSent(s, h, w, n) ==
  n >= 2 => /\ NumberIn(s, h, n) \/ NumberOn(w, h, n, Len(w) + 1)
            /\ KeyIn(s, h) \/ KeyOn(w, h, Len(w) + 1)

\* Those parts are Synced.
LEMMA SyncedParts ==
  /\ Synced => \A r \in Readers : Joined(r) /\ r \in synced =>
       /\ SyncedWire(Stream(r), bornOf[r], wire)
       /\ line = "up" => SyncedSent(Stream(r), bornOf[r], wire, sent[bornOf[r]])
  /\ (\A r \in Readers : Joined(r) /\ r \in synced =>
       /\ SyncedWire(Stream(r), bornOf[r], wire)
       /\ line = "up" => SyncedSent(Stream(r), bornOf[r], wire, sent[bornOf[r]]))' => Synced'
<1>1. Synced => \A r \in Readers : Joined(r) /\ r \in synced =>
       /\ SyncedWire(Stream(r), bornOf[r], wire)
       /\ line = "up" => SyncedSent(Stream(r), bornOf[r], wire, sent[bornOf[r]])
  BY DEF Synced, SyncedWire, SyncedSent, OwnIn, NumberIn, KeyIn, NumberOn, KeyOn, OwnPictures, OwnOf,
         HasNumber, HasKey, Before, KeyBefore, Wired, End
<1>2. (\A r \in Readers : Joined(r) /\ r \in synced =>
       /\ SyncedWire(Stream(r), bornOf[r], wire)
       /\ line = "up" => SyncedSent(Stream(r), bornOf[r], wire, sent[bornOf[r]])) => Synced
  BY DEF Synced, SyncedWire, SyncedSent, OwnIn, NumberIn, KeyIn, NumberOn, KeyOn, OwnPictures, OwnOf,
         HasNumber, HasKey, Before, KeyBefore, Wired, End
<1> QED BY <1>1, <1>2, PTL

\* Nothing of a preview that only now begins has been sent.
LEMMA SyncedBegins ==
  ASSUME Types, Sending, OnWire, NEW r \in Readers, Subscribe(r), r \in synced'
  PROVE  /\ SyncedWire(Stream(r)', bornOf'[r], wire')
         /\ SyncedSent(Stream(r)', bornOf'[r], wire', sent'[bornOf'[r]])
<1> DEFINE k == keyOf[r]
<1>0. TypeOK /\ Sequenced /\ Attached /\ k \in Keys
  BY DEF Types, TypeOK
<1>1. r \notin synced /\ UNCHANGED <<wire, sent>>
  BY <1>0 DEF Subscribe, Attached, recorderVars
<1>2. /\ preview[k] = NoHandle /\ handle < MaxHandle
      /\ preview' = [preview EXCEPT ![k] = handle + 1] /\ bornOf'[r] = preview'[k]
  BY <1>0, <1>1 DEF Subscribe, NextHandle, TypeOK
<1>3. bornOf'[r] = handle + 1 /\ handle \in Nat /\ handle + 1 \in Handles
  BY <1>0, <1>2, SharedAssumption DEF TypeOK, Handles
<1>4. sent[handle + 1] = 0
  BY <1>3 DEF Sending
<1>5. \A i \in 1..Len(wire) : wire[i].handle # handle + 1
  BY <1>0, WireKnown DEF Wired
<1> QED BY <1>1, <1>3, <1>4, <1>5 DEF SyncedWire, SyncedSent

\* A line cut short takes off the end of what goes on.
LEMMA SyncedCut ==
  ASSUME NEW s, NEW h, SyncedWire(s, h, wire), WireCut
  PROVE  SyncedWire(s, h, wire')
<1> SUFFICES ASSUME NEW i \in 1..Len(wire'), wire'[i].handle = h, wire'[i].kind # "info"
             PROVE  /\ wire'[i].kind = "delta" => KeyIn(s, h) \/ KeyOn(wire', h, i)
                    /\ \/ NumberIn(s, h, wire'[i].n - 1)
                       \/ wire'[i].n > 2 /\ NumberOn(wire', h, wire'[i].n - 1, i)
                       \/ wire'[i].n = 2 /\ OwnIn(s, h) = {}
  BY DEF SyncedWire
<1>1. /\ i \in 1..Len(wire) /\ wire'[i] = wire[i]
      /\ \A j \in 1..Len(wire) : j < i => j \in 1..Len(wire') /\ wire'[j] = wire[j]
  BY DEF WireCut, Wired
<1>2. \A n : NumberOn(wire, h, n, i) => NumberOn(wire', h, n, i)
  BY <1>1 DEF NumberOn
<1>3. KeyOn(wire, h, i) => KeyOn(wire', h, i)
  BY <1>1 DEF KeyOn
<1> QED BY <1>1, <1>2, <1>3 DEF SyncedWire

\* A message the recorder sends goes on where a synced reader's stream and
\* the wire leave off.
LEMMA SyncedSend ==
  ASSUME NEW s, NEW h, NEW g \in Keys, NEW x \in Handles, NEW m \in Message, Sends(g, x, m), h \in Handles,
         SyncedWire(s, h, wire), SyncedSent(s, h, wire, sent[h]), sent \in [Handles -> Nat],
         \A p \in OwnIn(s, h) : s[p].n \in Nat /\ 2 <= s[p].n /\ s[p].n <= sent[h]
  PROVE  SyncedWire(s, h, wire') /\ SyncedSent(s, h, wire', sent'[h])
<1>1. /\ m.handle = x /\ m.n = sent[x] + 1 /\ sent[x] \in Nat /\ sent'[x] = m.n /\ m.kind \in Kinds(m.n)
      /\ WireGrown(m) /\ \A y \in Handles : y # x => sent'[y] = sent[y]
  BY DEF Sends
<1>2. /\ Len(wire') = Len(wire) + 1 /\ Len(wire) \in Nat
      /\ \A i \in 1..Len(wire) : i \in 1..Len(wire') /\ wire'[i] = wire[i] /\ i < Len(wire') /\ i < Len(wire') + 1
      /\ \A i \in 1..Len(wire') : i \in 1..Len(wire) \/ i = Len(wire')
      /\ Len(wire') \in 1..Len(wire') /\ wire'[Len(wire')] = m /\ Len(wire') < Len(wire') + 1
  BY <1>1 DEF WireGrown, Wired, End
<1>3. ASSUME NEW n, NEW i \in 1..Len(wire), NumberOn(wire, h, n, i) PROVE NumberOn(wire', h, n, i)
  BY <1>2, <1>3 DEF NumberOn
<1>4. ASSUME NEW i \in 1..Len(wire), KeyOn(wire, h, i) PROVE KeyOn(wire', h, i)
  BY <1>2, <1>4 DEF KeyOn
<1>5. ASSUME NEW n, NumberOn(wire, h, n, Len(wire) + 1)
      PROVE  NumberOn(wire', h, n, Len(wire')) /\ NumberOn(wire', h, n, Len(wire') + 1)
  BY <1>2, <1>5 DEF NumberOn
<1>6. ASSUME KeyOn(wire, h, Len(wire) + 1)
      PROVE  KeyOn(wire', h, Len(wire')) /\ KeyOn(wire', h, Len(wire') + 1)
  BY <1>2, <1>6 DEF KeyOn
<1>7. ASSUME x = h, m.kind # "info"
      PROVE  /\ m.kind = "delta" => KeyIn(s, h) \/ KeyOn(wire', h, Len(wire'))
             /\ \/ NumberIn(s, h, m.n - 1)
                \/ m.n > 2 /\ NumberOn(wire', h, m.n - 1, Len(wire'))
                \/ m.n = 2 /\ OwnIn(s, h) = {}
  <2>1. m.n >= 2 /\ m.n - 1 = sent[h]
    BY <1>1, <1>7 DEF Kinds
  <2>2. CASE m.n = 2
    <3>1. m.kind = "key" /\ sent[h] = 1
      BY <1>1, <1>7, <2>1, <2>2 DEF Kinds
    <3>2. OwnIn(s, h) = {}
      BY <3>1
    <3> QED BY <2>2, <3>1, <3>2
  <2>3. CASE m.n > 2
    <3>1. sent[h] >= 2
      BY <1>1, <1>7, <2>1, <2>3
    <3> QED BY <1>5, <1>6, <2>1, <2>3, <3>1 DEF SyncedSent
  <2> QED BY <1>1, <2>1, <2>2, <2>3
<1>8. SyncedWire(s, h, wire')
  <2> SUFFICES ASSUME NEW i \in 1..Len(wire'), wire'[i].handle = h, wire'[i].kind # "info"
               PROVE  /\ wire'[i].kind = "delta" => KeyIn(s, h) \/ KeyOn(wire', h, i)
                      /\ \/ NumberIn(s, h, wire'[i].n - 1)
                         \/ wire'[i].n > 2 /\ NumberOn(wire', h, wire'[i].n - 1, i)
                         \/ wire'[i].n = 2 /\ OwnIn(s, h) = {}
    BY DEF SyncedWire
  <2>1. CASE i \in 1..Len(wire)
    BY <1>2, <1>3, <1>4, <2>1 DEF SyncedWire
  <2>2. CASE i = Len(wire')
    BY <1>1, <1>2, <1>7, <2>2
  <2> QED BY <1>2, <2>1, <2>2
<1>9. SyncedSent(s, h, wire', sent'[h])
  <2>1. CASE x # h
    BY <1>1, <1>5, <1>6, <2>1 DEF SyncedSent
  <2>2. CASE x = h
    <3>1. NumberOn(wire', h, sent'[h], Len(wire') + 1)
      BY <1>1, <1>2, <2>2 DEF NumberOn
    <3>2. CASE m.kind = "key"
      <4>1. KeyOn(wire', h, Len(wire') + 1)
        BY <1>1, <1>2, <2>2, <3>2 DEF KeyOn
      <4> QED BY <3>1, <4>1 DEF SyncedSent
    <3>3. CASE m.n > 2
      <4>1. sent[h] >= 2
        BY <1>1, <2>2, <3>3
      <4>2. KeyIn(s, h) \/ KeyOn(wire', h, Len(wire') + 1)
        BY <1>6, <4>1 DEF SyncedSent
      <4> QED BY <3>1, <4>2 DEF SyncedSent
    <3>4. m.n >= 2 => m.kind = "key" \/ m.n > 2
      BY <1>1 DEF Kinds
    <3> QED BY <1>1, <2>2, <3>2, <3>3, <3>4 DEF SyncedSent
  <2> QED BY <2>1, <2>2
<1> QED BY <1>8, <1>9

\* Nothing but what is routed to a reader changes what it goes on with.
LEMMA SyncedStays ==
  ASSUME Types, Ends, Sending, Received, Joining, Synced, [Next]_vars, NEW r \in Readers,
         Same(r), ~Route, Joined(r)', r \in synced'
  PROVE  /\ SyncedWire(Stream(r)', bornOf'[r], wire')
         /\ line' = "up" => SyncedSent(Stream(r)', bornOf'[r], wire', sent'[bornOf'[r]])
<1> DEFINE s == Stream(r)
           b == bornOf[r]
<1>0. Joined(r) /\ r \in synced /\ Stream(r)' = s /\ bornOf'[r] = b
  BY DEF Same
<1>1. SyncedWire(s, b, wire) /\ (line = "up" => SyncedSent(s, b, wire, sent[b]))
  BY <1>0, SyncedParts
<1>2. sent \in [Handles -> Nat] /\ b \in Handles
  <2>1. TypeOK /\ Sequenced /\ Attached
    BY DEF Types
  <2>2. b = preview[keyOf[r]] /\ r \in readers[keyOf[r]] /\ keyOf[r] \in Keys
    BY <1>0, <2>1 DEF Joining, Joined, TypeOK
  <2>3. preview[keyOf[r]] # NoHandle
    BY <2>1, <2>2 DEF Attached
  <2> QED BY <2>1, <2>2, <2>3 DEF TypeOK, Sequenced, Handles, NoHandle
<1>3. ASSUME NEW p \in OwnIn(s, b) PROVE s[p].n \in Nat /\ 2 <= s[p].n /\ s[p].n <= sent[b]
  <2>1. p \in 1..Len(s) /\ s[p].handle = b /\ s[p].kind # "info"
    BY DEF OwnIn, Own, Pictures
  <2>2. WasSent(s[p], sent) /\ s[p].n \in Nat
    BY <2>1, StreamSent
  <2> QED BY <2>1, <2>2 DEF WasSent, IsKind
<1> HIDE DEF s, b
<1>4. CASE WireCut /\ line' = "down"
  BY <1>0, <1>1, <1>4, SyncedCut
<1>5. CASE UNCHANGED <<wire, sent>> /\ (line' = "up" => line = "up")
  BY <1>0, <1>1, <1>5
<1>6. ASSUME NEW k \in Keys, NEW h \in Handles, NEW m \in Message, Sends(k, h, m)
      PROVE  SyncedWire(s, b, wire') /\ SyncedSent(s, b, wire', sent'[b])
  <2>1. line = "up"
    BY <1>6 DEF Sends
  <2> QED BY <1>1, <1>2, <1>3, <1>6, <2>1, SyncedSend
<1> QED BY <1>0, <1>4, <1>5, <1>6, WireSteps

\* What is routed moves from the head of the wire to the end of the stream.
Moves(s, t, h, m) ==
  /\ \A n : NumberIn(s, h, n) => NumberIn(t, h, n)
  /\ KeyIn(s, h) => KeyIn(t, h)
  /\ m.handle = h /\ m.kind # "info" => NumberIn(t, h, m.n)
  /\ m.handle = h /\ m.kind = "key" => KeyIn(t, h)
  /\ OwnIn(s, h) = {} /\ ~(m.handle = h /\ m.kind # "info") => OwnIn(t, h) = {}

\* That is what becomes of a message of a joined, synced reader's preview.
LEMMA RouteMoves ==
  ASSUME Types, OneKeyEach, Joining, NEW r \in Readers, NEW m \in Message, Routed(r, m),
         Joined(r), r \in synced'
  PROVE  Moves(Stream(r), Stream(r)', bornOf[r], m)
<1> DEFINE s == Stream(r)
           t == Stream(r)'
           b == bornOf[r]
<1>1. b = preview[keyOf[r]] /\ keyOf[r] \in Keys /\ preview[keyOf[r]] # NoHandle
  BY DEF Joining, Joined, Types, TypeOK, Attached
<1>2. CASE r \notin to'
  <2>1. t = s
    BY <1>2 DEF Routed
  <2>2. m.handle # b
    <3> SUFFICES ASSUME m.handle = b PROVE FALSE
      OBVIOUS
    <3>1. m.key = keyOf[r]
      BY <1>1 DEF OneKeyEach, Routed, WireShrunk
    <3>2. r \in readers[m.key]
      BY <3>1 DEF Routed
    <3>3. r \notin synced /\ ~Starts(m)
      BY <1>2, <3>2 DEF Routed
    <3>4. m.kind = "key"
      BY <3>2, <3>3 DEF Routed
    <3> QED BY <3>3, <3>4 DEF Starts
  <2> QED BY <2>1, <2>2 DEF Moves
<1>3. CASE r \in to'
  <2>1. t = Append(s, m) /\ s \in Seq(Message)
    BY <1>3 DEF Routed
  <2>2. Longer(s, m, t)
    BY <2>1, AppendLonger
  <2> HIDE DEF s, t, b
  <2>3. /\ \A i \in OwnIn(s, b) : i \in OwnIn(t, b) /\ t[i] = s[i]
        /\ \A i \in OwnIn(t, b) : i \in OwnIn(s, b) \/ (m.handle = b /\ m.kind # "info")
        /\ m.handle = b /\ m.kind # "info" => Len(t) \in OwnIn(t, b) /\ t[Len(t)] = m
    <3>1. /\ \A i \in Own(s, b) : i \in Own(t, b) /\ t[i] = s[i]
          /\ \A i \in Own(t, b) : i \in Own(s, b) \/ (i = Len(t) /\ m.handle = b)
          /\ m.handle = b => Len(t) \in Own(t, b)
      BY <2>2, OwnLonger
    <3>2. /\ \A i \in Pictures(s) : i \in Pictures(t)
          /\ \A i \in Pictures(t) : i \in Pictures(s) \/ (i = Len(t) /\ m.kind # "info")
          /\ m.kind # "info" => Len(t) \in Pictures(t)
          /\ t[Len(t)] = m
      BY <2>2, OwnLonger
    <3>3. \A i \in Own(s, b) : i # Len(t)
      BY <2>2 DEF Longer, Own
    <3>4. \A i \in Pictures(s) : i # Len(t)
      BY <2>2 DEF Longer, Pictures
    <3> HIDE DEF t
    <3> QED BY <3>1, <3>2, <3>3, <3>4 DEF OwnIn
  <2>4. \A n : NumberIn(s, b, n) => NumberIn(t, b, n)
    BY <2>3 DEF NumberIn
  <2>5. KeyIn(s, b) => KeyIn(t, b)
    BY <2>3 DEF KeyIn
  <2>6. /\ m.handle = b /\ m.kind # "info" => NumberIn(t, b, m.n)
        /\ m.handle = b /\ m.kind = "key" => KeyIn(t, b)
    BY <2>3 DEF NumberIn, KeyIn
  <2>7. OwnIn(s, b) = {} /\ ~(m.handle = b /\ m.kind # "info") => OwnIn(t, b) = {}
    BY <2>3
  <2>8. Moves(s, t, b, m)
    BY <2>4, <2>5, <2>6, <2>7 DEF Moves
  <2> QED BY <2>8 DEF s, t, b
<1> QED BY <1>2, <1>3

\* A synced reader goes on with what is left on the wire, and one that syncs
\* at a keyframe has all that follows.
LEMMA SyncedRoute ==
  ASSUME Types, OneKeyEach, Sending, OnWire, Fresh, Joining, Synced, NEW r \in Readers, NEW m \in Message,
         Routed(r, m), Joined(r), r \in synced'
  PROVE  /\ SyncedWire(Stream(r)', bornOf[r], wire')
         /\ line = "up" => SyncedSent(Stream(r)', bornOf[r], wire', sent[bornOf[r]])
<1> DEFINE s == Stream(r)
           t == Stream(r)'
           b == bornOf[r]
           k == keyOf[r]
<1>0. TypeOK /\ Sequenced /\ m = wire[1] /\ WireShrunk /\ Moves(s, t, b, m)
  BY RouteMoves DEF Types, Routed
<1>1. b = preview[k] /\ k \in Keys /\ preview[k] # NoHandle /\ b \in Handles
  BY SharedAssumption DEF Joining, Joined, Types, TypeOK, Attached, Handles, NoHandle
<1>2. r \notin synced => Pictures(s) = {} /\ m.kind = "key" /\ m.key = k
  BY DEF Joining, Routed
<1>3. r \in synced => SyncedWire(s, b, wire) /\ (line = "up" => SyncedSent(s, b, wire, sent[b]))
  BY SyncedParts
<1> HIDE DEF s, t, b, k
<1>4. /\ 1 \in 1..Len(wire) /\ IsKind(m) /\ m.n \in Nat /\ sent[b] \in Nat
      /\ Len(wire') \in Nat /\ Len(wire) = Len(wire') + 1
      /\ \A i \in 1..Len(wire') : i \in Nat /\ i + 1 \in 1..Len(wire) /\ 1 < i + 1 /\ wire'[i] = wire[i + 1]
      /\ \A i \in 1..Len(wire) : i \in Nat /\ (i = 1 \/ (i - 1 \in 1..Len(wire') /\ wire'[i - 1] = wire[i]))
  <2>1. Len(wire) \in Nat /\ Len(wire') \in Nat /\ Len(wire) = Len(wire') + 1
    <3>1. Len(wire) \in Nat
      BY <1>0, LenProperties DEF Sequenced
    <3>2. Len(wire') + 1 = Len(wire) /\ Len(wire') \in Nat
      BY <1>0, <3>1, HeadTailProperties DEF WireShrunk, Wired, End
    <3> QED BY <3>1, <3>2
  <2>2. m.n \in Nat /\ sent[b] \in Nat
    BY <1>0, <1>1 DEF Sequenced, Message
  <2> QED BY <1>0, <2>1, <2>2 DEF WireShrunk, Wired, OnWire
<1>5. ASSUME NEW n, NEW i \in Nat, NumberOn(wire, b, n, i + 1), ~(m.handle = b /\ m.n = n)
      PROVE  NumberOn(wire', b, n, i)
  <2>1. PICK l \in 1..Len(wire) : l < i + 1 /\ wire[l].handle = b /\ wire[l].n = n
    BY <1>5 DEF NumberOn
  <2>2. l # 1
    BY <1>0, <1>5, <2>1
  <2>3. l \in Nat /\ l - 1 \in 1..Len(wire') /\ wire'[l - 1] = wire[l] /\ l - 1 < i
    BY <1>4, <2>1, <2>2
  <2> QED BY <2>1, <2>3 DEF NumberOn
<1>6. ASSUME NEW i \in Nat, KeyOn(wire, b, i + 1), ~(m.handle = b /\ m.kind = "key")
      PROVE  KeyOn(wire', b, i)
  <2>1. PICK l \in 1..Len(wire) : l < i + 1 /\ wire[l].handle = b /\ wire[l].kind = "key"
    BY <1>6 DEF KeyOn
  <2>2. l # 1
    BY <1>0, <1>6, <2>1
  <2>3. l \in Nat /\ l - 1 \in 1..Len(wire') /\ wire'[l - 1] = wire[l] /\ l - 1 < i
    BY <1>4, <2>1, <2>2
  <2> QED BY <2>1, <2>3 DEF KeyOn
<1>7. ASSUME NEW i \in 1..Len(wire')
      PROVE  InOrder(m, wire[i + 1]) /\ IsKind(wire[i + 1]) /\ wire[i + 1].n \in Nat
             /\ wire[i + 1].kind \in {"info", "key", "delta"} /\ i + 1 \in Wired
  <2>1. wire[i + 1] \in Message
    BY <1>0, <1>4, ElementOfSeq DEF Sequenced
  <2> QED BY <1>0, <1>4, <2>1 DEF OnWire, Wired, Message
\* What is left of b on the wire, of which there is a predecessor.
<1>8. ASSUME NEW i \in 1..Len(wire'), wire[i + 1].handle = b, wire[i + 1].kind # "info",
             \/ KeyIn(t, b) \/ KeyOn(wire', b, i) \/ wire[i + 1].kind = "key",
             \/ NumberIn(t, b, wire[i + 1].n - 1)
             \/ wire[i + 1].n > 2 /\ NumberOn(wire, b, wire[i + 1].n - 1, i + 1)
             \/ wire[i + 1].n = 2 /\ OwnIn(t, b) = {}
      PROVE  /\ wire'[i].kind = "delta" => KeyIn(t, b) \/ KeyOn(wire', b, i)
             /\ \/ NumberIn(t, b, wire'[i].n - 1)
                \/ wire'[i].n > 2 /\ NumberOn(wire', b, wire'[i].n - 1, i)
                \/ wire'[i].n = 2 /\ OwnIn(t, b) = {}
  <2>1. ASSUME wire[i + 1].n > 2, NumberOn(wire, b, wire[i + 1].n - 1, i + 1)
        PROVE  NumberIn(t, b, wire[i + 1].n - 1) \/ NumberOn(wire', b, wire[i + 1].n - 1, i)
    <3>1. CASE m.handle = b /\ m.n = wire[i + 1].n - 1
      <4>1. m.n # 1
        BY <1>7, <2>1, <3>1
      <4> QED BY <1>0, <1>4, <3>1, <4>1 DEF Moves, IsKind
    <3>2. CASE ~(m.handle = b /\ m.n = wire[i + 1].n - 1)
      BY <1>4, <1>5, <2>1, <3>2
    <3> QED BY <3>1, <3>2
  <2> QED BY <1>4, <1>8, <2>1
<1>9. CASE r \in synced
  <2>1. SyncedWire(t, b, wire')
    <3> SUFFICES ASSUME NEW i \in 1..Len(wire'), wire[i + 1].handle = b, wire[i + 1].kind # "info"
                 PROVE  /\ wire'[i].kind = "delta" => KeyIn(t, b) \/ KeyOn(wire', b, i)
                        /\ \/ NumberIn(t, b, wire'[i].n - 1)
                           \/ wire'[i].n > 2 /\ NumberOn(wire', b, wire'[i].n - 1, i)
                           \/ wire'[i].n = 2 /\ OwnIn(t, b) = {}
      BY <1>4 DEF SyncedWire
    <3>1. /\ wire[i + 1].kind = "delta" => KeyIn(s, b) \/ KeyOn(wire, b, i + 1)
          /\ \/ NumberIn(s, b, wire[i + 1].n - 1)
             \/ wire[i + 1].n > 2 /\ NumberOn(wire, b, wire[i + 1].n - 1, i + 1)
             \/ wire[i + 1].n = 2 /\ OwnIn(s, b) = {}
      BY <1>3, <1>4, <1>9 DEF SyncedWire
    <3>2. KeyIn(t, b) \/ KeyOn(wire', b, i) \/ wire[i + 1].kind = "key"
      BY <1>0, <1>4, <1>6, <1>7, <3>1 DEF Moves
    <3>3. wire[i + 1].n = 2 /\ OwnIn(s, b) = {} => OwnIn(t, b) = {}
      <4>1. wire[i + 1].n = 2 => ~(m.handle = b /\ m.kind # "info")
        BY <1>4, <1>7 DEF InOrder, IsKind
      <4> QED BY <1>0, <4>1 DEF Moves
    <3>4. \/ NumberIn(t, b, wire[i + 1].n - 1)
          \/ wire[i + 1].n > 2 /\ NumberOn(wire, b, wire[i + 1].n - 1, i + 1)
          \/ wire[i + 1].n = 2 /\ OwnIn(t, b) = {}
      BY <1>0, <3>1, <3>3 DEF Moves
    <3> QED BY <1>8, <3>2, <3>4
  <2>2. ASSUME line = "up", sent[b] >= 2
        PROVE  /\ NumberIn(t, b, sent[b]) \/ NumberOn(wire', b, sent[b], Len(wire') + 1)
               /\ KeyIn(t, b) \/ KeyOn(wire', b, Len(wire') + 1)
    <3>1. /\ NumberIn(s, b, sent[b]) \/ NumberOn(wire, b, sent[b], (Len(wire') + 1) + 1)
          /\ KeyIn(s, b) \/ KeyOn(wire, b, (Len(wire') + 1) + 1)
      BY <1>3, <1>4, <1>9, <2>2 DEF SyncedSent
    <3>2. m.handle = b /\ m.n = sent[b] => NumberIn(t, b, sent[b])
      BY <1>0, <1>4, <2>2 DEF Moves, IsKind
    <3>3. Len(wire') + 1 \in Nat
      BY <1>4
    <3> QED BY <1>0, <1>5, <1>6, <3>1, <3>2, <3>3 DEF Moves
  <2> QED BY <2>1, <2>2 DEF SyncedSent, t, b
<1>10. CASE r \notin synced
  <2>0. m.kind = "key" /\ m.key = k /\ OwnIn(s, b) = {} /\ m.n >= 2
    BY <1>2, <1>4, <1>10 DEF OwnIn, IsKind
  \* Of a preview whose info packet is not kept, all is still on the wire.
  <2>1. ASSUME m.handle # b
        PROVE  /\ FreshWire(k) /\ FreshSent(k) /\ OwnIn(t, b) = {}
    <3>1. info[k] # preview[k]
      <4>1. FreshStale(k)
        BY <1>1, FreshParts DEF FreshOf
      <4> QED BY <1>0, <1>1, <1>4, <2>0, <2>1, <4>1 DEF FreshStale, Wired
    <3>2. FreshWire(k) /\ FreshSent(k)
      BY <1>1, <3>1, FreshParts DEF FreshOf
    <3> QED BY <1>0, <2>0, <2>1, <3>2 DEF Moves
  <2>2. ASSUME NEW l \in 1..Len(wire), wire[l].handle = b, wire[l].n = 2 PROVE wire[l].kind = "key"
    BY <2>2 DEF OnWire, Wired, IsKind
  <2>3. ASSUME NEW i \in Nat, m.handle # b, Before(b, 2, i + 1) PROVE KeyOn(wire', b, i)
    <3>1. PICK l \in 1..Len(wire) : l < i + 1 /\ wire[l].handle = b /\ wire[l].n = 2
      BY <2>3 DEF Before, Wired
    <3>2. KeyOn(wire, b, i + 1)
      BY <2>2, <3>1 DEF KeyOn
    <3> QED BY <1>6, <2>3, <3>2
  <2>4. SyncedWire(t, b, wire')
    <3> SUFFICES ASSUME NEW i \in 1..Len(wire'), wire[i + 1].handle = b, wire[i + 1].kind # "info"
                 PROVE  /\ wire'[i].kind = "delta" => KeyIn(t, b) \/ KeyOn(wire', b, i)
                        /\ \/ NumberIn(t, b, wire'[i].n - 1)
                           \/ wire'[i].n > 2 /\ NumberOn(wire', b, wire'[i].n - 1, i)
                           \/ wire'[i].n = 2 /\ OwnIn(t, b) = {}
      BY <1>4 DEF SyncedWire
    <3>0. wire[i + 1].n \in Nat /\ wire[i + 1].n >= 2
      BY <1>7 DEF IsKind
    <3>1. CASE m.handle = b
      <4>1. Before(b, wire[i + 1].n - 1, i + 1)
        BY <1>0, <1>4, <1>7, <3>1 DEF OnWire, Wired
      <4>2. wire[i + 1].n > 2
        BY <1>4, <1>7, <2>0, <3>1 DEF InOrder
      <4>3. NumberOn(wire, b, wire[i + 1].n - 1, i + 1)
        BY <4>1 DEF Before, NumberOn, Wired
      <4>4. KeyIn(t, b)
        BY <1>0, <2>0, <3>1 DEF Moves
      <4> QED BY <1>8, <4>2, <4>3, <4>4
    <3>2. CASE m.handle # b /\ wire[i + 1].n = 2
      <4>1. wire[i + 1].kind = "key"
        BY <1>7, <3>2 DEF IsKind
      <4> QED BY <1>8, <2>1, <3>2, <4>1
    <3>3. CASE m.handle # b /\ wire[i + 1].n > 2
      <4>1. Before(b, 2, i + 1)
        BY <1>1, <1>7, <2>1, <3>3 DEF FreshWire
      <4>2. KeyOn(wire', b, i)
        BY <1>4, <2>3, <3>3, <4>1
      <4>3. PICK l \in 1..Len(wire) : l < i + 1 /\ wire[l].handle = b
        BY <4>1 DEF Before, Wired
      <4>4. Before(b, wire[i + 1].n - 1, i + 1)
        BY <1>7, <4>3 DEF OnWire, Wired
      <4>5. NumberOn(wire, b, wire[i + 1].n - 1, i + 1)
        BY <4>4 DEF Before, NumberOn, Wired
      <4> QED BY <1>8, <3>3, <4>2, <4>5
    <3> QED BY <3>0, <3>1, <3>2, <3>3
  <2>5. ASSUME line = "up", sent[b] >= 2
        PROVE  /\ NumberIn(t, b, sent[b]) \/ NumberOn(wire', b, sent[b], Len(wire') + 1)
               /\ KeyIn(t, b) \/ KeyOn(wire', b, Len(wire') + 1)
    <3>0. End = (Len(wire') + 1) + 1 /\ Len(wire') + 1 \in Nat
      BY <1>4 DEF End
    <3>1. ASSUME NEW l \in 1..Len(wire), wire[l].handle = b
          PROVE  NumberOn(wire, b, sent[b], (Len(wire') + 1) + 1)
      <4>1. Before(b, sent[b], End)
        BY <2>5, <3>1 DEF OnWire, Wired
      <4> QED BY <3>0, <4>1 DEF Before, NumberOn, Wired
    <3>2. CASE m.handle = b
      <4>1. KeyIn(t, b)
        BY <1>0, <2>0, <3>2 DEF Moves
      <4>2. NumberOn(wire, b, sent[b], (Len(wire') + 1) + 1)
        BY <1>0, <1>4, <3>1, <3>2
      <4>3. m.n = sent[b] => NumberIn(t, b, sent[b])
        BY <1>0, <2>0, <3>2 DEF Moves
      <4> QED BY <1>5, <3>0, <4>1, <4>2, <4>3
    <3>3. CASE m.handle # b
      <4>1. Before(b, 2, (Len(wire') + 1) + 1)
        BY <1>1, <2>1, <2>5, <3>0, <3>3 DEF FreshSent
      <4>2. KeyOn(wire', b, Len(wire') + 1)
        BY <2>3, <3>0, <3>3, <4>1
      <4>3. PICK l \in 1..Len(wire) : wire[l].handle = b
        BY <4>1 DEF Before, Wired
      <4>4. NumberOn(wire', b, sent[b], Len(wire') + 1)
        BY <1>5, <3>0, <3>1, <3>3, <4>3
      <4> QED BY <4>2, <4>4
    <3> QED BY <3>2, <3>3
  <2> QED BY <2>4, <2>5 DEF SyncedSent, t, b
<1> QED BY <1>9, <1>10

\* A reader that has synced misses nothing.
LEMMA SyncedStep ==
  ASSUME Types, Types', Ends, OneKeyEach, Sending, OnWire, Fresh, Received, Joining, Synced, [Next]_vars
  PROVE  Synced'
<1> SUFFICES ASSUME NEW r \in Readers, Joined(r)', r \in synced'
             PROVE  /\ SyncedWire(Stream(r)', bornOf'[r], wire')
                    /\ line' = "up" => SyncedSent(Stream(r)', bornOf'[r], wire', sent'[bornOf'[r]])
  BY SyncedParts
<1>1. CASE Route
  <2>1. reader[r] = "reading"
    BY <1>1 DEF Route, readerVars, Joined
  <2>2. PICK m \in Message : Routed(r, m)
    BY <1>1, <2>1, RouteStream
  <2>3. Joined(r) /\ UNCHANGED <<bornOf, sent, line>>
    BY <2>2 DEF Routed
  <2> QED BY <2>2, <2>3, SyncedRoute
<1>2. CASE Subscribe(r)
  BY <1>2, SyncedBegins
<1>3. CASE Stall(r)
  <2>1. ended'[r] # 0
    BY <1>3 DEF Stall, EndReader, Types, TypeOK
  <2> QED BY <2>1 DEF Joined
<1>4. CASE Same(r) /\ ~Route
  BY <1>4, SyncedStays
<1>5. reader'[r] = "reading"
  BY DEF Joined
<1> QED BY <1>1, <1>2, <1>3, <1>4, <1>5, StreamKinds

\* Every reader is served in every state: what it is handed of its preview
\* begins with the picture size and a keyframe, has no gap and nothing of
\* another preview in between; and it sees no picture before a keyframe at
\* all, unless it is the first reader of a preview started again and is handed
\* the tail of the one before.  However starts, stops, stalls, routing and the
\* connection's end interleave.
THEOREM ReaderServedCorrect == Spec => []ReaderServed
<1>1. Init => IInv
  BY InitInv
<1>2. IInv /\ [Next]_vars => IInv'
  <2> SUFFICES ASSUME IInv, [Next]_vars PROVE IInv'
    OBVIOUS
  <2>1. Types' /\ Ends' /\ Queued' /\ AskedOnce'
    BY TypeStep, SequencedStep, AttachedStep, EndsStep, QueuedStep, AskedOnceStep DEF IInv, OrderInv, Types
  <2>2. RecorderInv'
    BY AlternatingStep, OneKeyEachStep, SendingStep, OnWireStep, PlacedStep, FreshStep
    DEF IInv, OrderInv, RecorderInv
  <2>3. ReaderInv'
    BY <2>1, ReceivedStep, StreamsStep, JoiningStep, SyncedStep DEF IInv, OrderInv, RecorderInv, ReaderInv
  <2> QED BY <2>1, <2>2, <2>3 DEF IInv, OrderInv
<1>3. IInv => ReaderServed
  <2> SUFFICES ASSUME IInv, NEW r \in Readers
               PROVE  /\ Whole(handed[r], bornOf[r]) /\ OwnLast(handed[r], bornOf[r])
                      /\ r \notin founder => KeyframeFirst(handed[r], Pictures(handed[r]))
    <3> SUFFICES ASSUME NEW r \in Readers,
                        Whole(handed[r], bornOf[r]), OwnLast(handed[r], bornOf[r]),
                        r \notin founder => KeyframeFirst(handed[r], Pictures(handed[r]))
                 PROVE  KeyframeFirst(handed[r], Pictures(handed[r])) \/ HandedOldTail(r)
      BY DEF ReaderServed, OwnStreamWhole, TailFirst, StartsAtKeyframe
    <3>1. CASE \A i \in 1..Len(handed[r]) : handed[r][i].handle = bornOf[r]
      <4>1. Own(handed[r], bornOf[r]) \intersect Pictures(handed[r]) = Pictures(handed[r])
        BY <3>1 DEF Own, Pictures
      <4> QED BY <4>1 DEF Whole
    <3> QED BY <3>1 DEF HandedOldTail
  <2>1. TypeOK /\ Sequenced /\ Attached /\ Streams
    BY DEF IInv, OrderInv, ReaderInv, Types
  <2>2. CASE reader[r] # "reading"
    <3>1. Pictures(handed[r]) = {} /\ Len(handed[r]) = 0
      BY <2>1, <2>2 DEF Attached, Pictures
    <3> QED BY <3>1 DEF Whole, KeyframeFirst, OwnLast
  <2>3. CASE reader[r] = "reading" /\ ~Pending(r)
    BY <2>1, <2>3 DEF Streams, Stream
  <2>4. CASE reader[r] = "reading" /\ Pending(r)
    <3>1. handed[r] \in Seq(Message) /\ cur \in Message /\ Stream(r) = Append(handed[r], cur)
      BY <2>1, <2>4 DEF Sequenced, Pending, Stream
    <3>2. Whole(handed[r], bornOf[r]) /\ OwnLast(handed[r], bornOf[r])
      <4>1. Whole(Append(handed[r], cur), bornOf[r]) /\ OwnLast(Append(handed[r], cur), bornOf[r])
        BY <2>1, <2>4, <3>1 DEF Streams
      <4> QED BY <3>1, <4>1, WholeShrinks, OwnLastShrinks
    <3>3. r \notin founder => KeyframeFirst(handed[r], Pictures(handed[r]))
      BY <2>1, <2>4, <3>1, KeyframeFirstShrinks DEF Streams
    <3> QED BY <3>2, <3>3
  <2> QED BY <2>2, <2>3, <2>4
<1> QED BY <1>1, <1>2, <1>3, PTL DEF Spec

===============================================================================
