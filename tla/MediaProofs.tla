----------------------------- MODULE MediaProofs -----------------------------
(***************************************************************************)
(* The safety properties of what a stream passes on its way from a camera: *)
(* the hub that fans it out, for every set of subscribers, buffer size and *)
(* number of chunks; and the connection, the session, the presence stream  *)
(* and the talk, for every value of their constants.                       *)
(***************************************************************************)
EXTENDS Hub, MCMedia, TLAPS, FiniteSetTheorems, SequenceTheorems

-----------------------------------------------------------------------------
(* The hub. *)

\* The oldest buffered chunk becomes the newest one read.
LEMMA MoveHead ==
  ASSUME NEW S, NEW a \in Seq(S), NEW b \in Seq(S), b # <<>>
  PROVE  /\ Append(a, Head(b)) \in Seq(S)
         /\ Tail(b) \in Seq(S)
         /\ Append(a, Head(b)) \o Tail(b) = a \o b
<1> DEFINE h == <<Head(b)>>
<1>1. Head(b) \in S /\ Tail(b) \in Seq(S) /\ h \in Seq(S)
  BY HeadTailProperties
<1>2. Append(a, Head(b)) = a \o h
  BY <1>1, AppendIsConcat
<1>3. h \o Tail(b) = b
  BY <1>1, HeadTailProperties, ConcatProperties, SeqEqual
<1>4. (a \o h) \o Tail(b) = a \o (h \o Tail(b))
  BY <1>1, ConcatAssociative
<1>5. Append(a, Head(b)) \in Seq(S)
  BY <1>1, AppendProperties
<1> QED BY <1>1, <1>2, <1>3, <1>4, <1>5

\* Buffering a chunk puts it behind everything already handed over.
LEMMA PutLast ==
  ASSUME NEW S, NEW a \in Seq(S), NEW b \in Seq(S), NEW e \in S
  PROVE  /\ Append(b, e) \in Seq(S)
         /\ a \o Append(b, e) = Append(a \o b, e)
<1>1. <<e>> \in Seq(S) /\ a \o b \in Seq(S)
  BY ConcatProperties
<1>2. Append(b, e) = b \o <<e>> /\ Append(b, e) \in Seq(S)
  BY AppendIsConcat, AppendProperties
<1>3. Append(a \o b, e) = (a \o b) \o <<e>>
  BY <1>1, AppendIsConcat
<1>4. (a \o b) \o <<e>> = a \o (b \o <<e>>)
  BY <1>1, ConcatAssociative
<1> QED BY <1>2, <1>3, <1>4

-----------------------------------------------------------------------------
(* Type correctness *)

\* A channel closed by endLocked stays of its type.
LEMMA CloseOnceType ==
  ASSUME TypeOK, NEW s \in Subscribers, CloseOnce(s)
  PROVE  /\ closed' \in [Subscribers -> BOOLEAN]
         /\ closes' \in [Subscribers -> Nat]
BY DEF TypeOK, CloseOnce

\* Every step keeps the variables in their types.
LEMMA TypeStep == TypeOK /\ [Next]_vars => TypeOK'
<1> SUFFICES ASSUME TypeOK, [Next]_vars PROVE TypeOK'
  OBVIOUS
<1> USE HubAssumption
<1>1. ASSUME NEW s \in Subscribers, Subscribe(s) PROVE TypeOK'
  <2>1. CASE hub = "closed"
    BY <1>1, <2>1, CloseOnceType DEF TypeOK, Subscribe, pubVars, endVars
  <2>2. CASE hub # "closed"
    BY <1>1, <2>2 DEF TypeOK, Subscribe, pubVars, endVars
  <2> QED BY <2>1, <2>2
<1>2. ASSUME NEW s \in Subscribers, Receive(s) PROVE TypeOK'
  <2>1. ch[s] \in Seq(Nat) /\ got[s] \in Seq(Nat) /\ ch[s] # <<>>
    BY <1>2 DEF TypeOK, Receive
  <2>2. Append(got[s], Head(ch[s])) \in Seq(Nat) /\ Tail(ch[s]) \in Seq(Nat)
    BY <2>1, MoveHead
  <2> QED BY <1>2, <2>2 DEF TypeOK, Receive, hubVars, pubVars, endVars
<1>3. ASSUME NEW s \in Subscribers, Cancel(s) PROVE TypeOK'
  BY <1>3 DEF TypeOK, Cancel, CloseOnce, hubVars, pubVars, endVars
<1>4. ASSUME NEW s \in Subscribers, Unregister(s) PROVE TypeOK'
  BY <1>4 DEF TypeOK, Unregister, subVars, pubVars, endVars
<1>5. ASSUME NEW s \in Subscribers, EndOne(s) PROVE TypeOK'
  BY <1>5 DEF TypeOK, EndOne, CloseOnce, hubVars, pubVars
<1>6. ASSUME NEW key \in BOOLEAN, BeginPublish(key) PROVE TypeOK'
  BY <1>6 DEF TypeOK, BeginPublish, hubVars, subVars, endVars
<1>7. ASSUME NEW s \in Subscribers, Deliver(s) PROVE TypeOK'
  <2>1. CASE Skip(s)
    BY <2>1 DEF TypeOK, Skip, Visit, hubVars, subVars, endVars
  <2>2. CASE Send(s)
    <3>1. Len(log) \in Nat
      BY LenProperties DEF TypeOK
    <3>2. Append(ch[s], Len(log)) \in Seq(Nat)
      BY <3>1, AppendProperties DEF TypeOK
    <3> QED BY <2>2, <3>2 DEF TypeOK, Send, Visit, hubVars, endVars
  <2>3. CASE Drop(s)
    BY <2>3, CloseOnceType DEF TypeOK, Drop, Visit, hubVars, endVars
  <2> QED BY <1>7, <2>1, <2>2, <2>3 DEF Deliver
<1>8. CASE FinishPublish
  <2>1. IsFiniteSet(dead \intersect subs)
    BY FS_Subset DEF TypeOK
  <2>2. Cardinality(dead \intersect subs) \in Nat
    BY <2>1, FS_CardinalityType
  <2> QED BY <1>8, <2>2 DEF TypeOK, FinishPublish, subVars, endVars
<1>9. CASE Kick
  BY <1>9 DEF TypeOK, Kick, TakeAll, subVars, pubVars
<1>10. CASE Close
  BY <1>10 DEF TypeOK, Close, TakeAll, subVars, pubVars
<1>11. CASE UNCHANGED vars
  BY <1>11 DEF TypeOK, vars, hubVars, subVars, pubVars, endVars
<1> QED
  BY <1>1, <1>2, <1>3, <1>4, <1>5, <1>6, <1>7, <1>8, <1>9, <1>10, <1>11
     DEF Next, ClientStep, PublishStep

\* The hub's state is well typed in every reachable state.
THEOREM TypeCorrect == Spec => []TypeOK
<1>1. Init => TypeOK
  BY DEF Init, TypeOK
<1> QED BY <1>1, TypeStep, PTL DEF Spec

-----------------------------------------------------------------------------
(* The inductive invariant *)

\* A subscriber that does not exist yet is known to nobody.
Fresh ==
  \A s \in Subscribers : client[s] = "absent" =>
    /\ ~closed[s] /\ ~synced[s]
    /\ s \notin subs /\ s \notin todo /\ s \notin ending
    /\ s \notin stalled /\ s \notin kicked

\* A client that hung up closed its channel first.
HungUp ==
  \A s \in Subscribers : client[s] \in {"cancelling", "gone"} => closed[s]

\* Where the publisher's and the owner's snapshots may be stale.
Snapshots ==
  /\ publisher = "idle" => todo = {} /\ dead = {}
  /\ publisher = "sending" => log # <<>>
  /\ ending \subseteq kicked
  /\ kicked \intersect subs = {}
  /\ dead \subseteq stalled
  /\ \A s \in todo : closed[s] \/ s \in subs \/ s \in kicked

\* A subscriber the publisher dropped was open when it was dropped, and its
\* client had not hung up.
Stalled ==
  \A s \in stalled :
    /\ closed[s] /\ client[s] # "cancelling"
    /\ s \in subs => s \in dead

\* The newest chunk s must have been handed, when the publisher still has,
\* or may still come, to serve it.
Served(s) == Len(log) - (IF s \in todo THEN 1 ELSE 0)

Progress ==
  \A s \in Subscribers :
    /\ ~synced[s] => Handed(s) = <<>>
    /\ \A i \in 1..Len(Handed(s)) : Handed(s)[i] \in 1..Len(log)
    /\ (s \in subs \union todo /\ synced[s] /\ ~closed[s]) =>
         Handed(s) # <<>> /\ Handed(s)[Len(Handed(s))] = Served(s)

Structure == TypeOK /\ ClosedOnce /\ Fresh /\ HungUp /\ Snapshots /\ Stalled /\ NoLeak
IInv == Structure /\ Progress /\ KeyframeFirst /\ NoGap

\* Before any client, nothing is registered and nothing was published.
LEMMA InitInv == Init => IInv
<1> SUFFICES ASSUME Init PROVE IInv
  OBVIOUS
<1> USE HubAssumption
<1>1. TypeOK
  BY DEF Init, TypeOK
<1>2. ClosedOnce /\ Fresh /\ HungUp /\ Snapshots /\ Stalled /\ NoLeak
  BY DEF Init, ClosedOnce, Fresh, HungUp, Snapshots, Stalled, NoLeak
<1>3. \A s \in Subscribers : Handed(s) = <<>> /\ Len(Handed(s)) = 0
  <2>1. <<>> \o <<>> = <<>>
    BY ConcatEmptySeq, EmptySeq
  <2> QED BY <2>1 DEF Init, Handed
<1>4. Progress /\ KeyframeFirst /\ NoGap
  BY <1>3 DEF Init, Progress, KeyframeFirst, NoGap
<1> QED BY <1>1, <1>2, <1>4 DEF IInv, Structure

\* Who closes, registers and forgets a subscriber.
LEMMA StructureStep == Structure /\ [Next]_vars => Structure'
<1> SUFFICES ASSUME Structure, [Next]_vars PROVE Structure'
  OBVIOUS
<1> USE DEF Structure
<1>t. TypeOK'
  BY TypeStep
<1> DEFINE Rest == ClosedOnce /\ Fresh /\ HungUp /\ Snapshots /\ Stalled /\ NoLeak
<1> SUFFICES Rest'
  BY <1>t
<1>1. ASSUME NEW s \in Subscribers, Subscribe(s) PROVE Rest'
  <2>1. CASE hub = "closed"
    <3>1. subs' = subs /\ CloseOnce(s)
      BY <1>1, <2>1 DEF Subscribe
    <3>2. ClosedOnce'
      BY <3>1 DEF TypeOK, ClosedOnce, CloseOnce
    <3>3. Fresh' /\ HungUp' /\ Snapshots' /\ Stalled' /\ NoLeak'
      BY <1>1, <3>1 DEF Subscribe, TypeOK, CloseOnce, Fresh, HungUp, Snapshots, Stalled,
           NoLeak, pubVars, endVars
    <3> QED BY <3>2, <3>3
  <2>2. CASE hub # "closed"
    <3>1. subs' = subs \union {s} /\ closed' = closed /\ closes' = closes
      BY <1>1, <2>2 DEF Subscribe
    <3>2. ClosedOnce' /\ Fresh' /\ HungUp' /\ Snapshots' /\ Stalled' /\ NoLeak'
      BY <1>1, <3>1 DEF Subscribe, TypeOK, ClosedOnce, Fresh, HungUp, Snapshots, Stalled,
           NoLeak, pubVars, endVars
    <3> QED BY <3>2
  <2> QED BY <2>1, <2>2
<1>2. ASSUME NEW s \in Subscribers, Receive(s) PROVE Rest'
  BY <1>2 DEF Receive, TypeOK, ClosedOnce, Fresh, HungUp, Snapshots, Stalled, NoLeak,
       hubVars, pubVars, endVars
<1>3. ASSUME NEW s \in Subscribers, Cancel(s) PROVE Rest'
  <2>1. ClosedOnce'
    BY <1>3 DEF Cancel, CloseOnce, TypeOK, ClosedOnce
  <2>2. Fresh' /\ HungUp' /\ Snapshots' /\ Stalled' /\ NoLeak'
    BY <1>3 DEF Cancel, CloseOnce, TypeOK, Fresh, HungUp, Snapshots, Stalled, NoLeak,
         hubVars, pubVars, endVars
  <2> QED BY <2>1, <2>2
<1>4. ASSUME NEW s \in Subscribers, Unregister(s) PROVE Rest'
  BY <1>4 DEF Unregister, TypeOK, ClosedOnce, Fresh, HungUp, Snapshots, Stalled, NoLeak,
       subVars, pubVars, endVars
<1>5. ASSUME NEW s \in Subscribers, EndOne(s) PROVE Rest'
  <2>1. ClosedOnce'
    BY <1>5 DEF EndOne, CloseOnce, TypeOK, ClosedOnce
  <2>2. Fresh' /\ HungUp' /\ Snapshots' /\ Stalled' /\ NoLeak'
    BY <1>5 DEF EndOne, CloseOnce, TypeOK, Fresh, HungUp, Snapshots, Stalled, NoLeak,
         hubVars, pubVars
  <2> QED BY <2>1, <2>2
<1>6. ASSUME NEW key \in BOOLEAN, BeginPublish(key) PROVE Rest'
  <2>1. log' # <<>>
    BY <1>6, AppendProperties, EmptySeq DEF BeginPublish, TypeOK
  <2>2. Snapshots'
    BY <1>6, <2>1 DEF BeginPublish, Snapshots, hubVars, subVars, endVars
  <2>3. ClosedOnce' /\ Fresh' /\ HungUp' /\ Stalled' /\ NoLeak'
    BY <1>6 DEF BeginPublish, TypeOK, ClosedOnce, Fresh, HungUp, Snapshots,
         Stalled, NoLeak, hubVars, subVars, endVars
  <2> QED BY <2>2, <2>3
<1>7. ASSUME NEW s \in Subscribers, Deliver(s) PROVE Rest'
  <2>1. CASE Skip(s)
    BY <2>1 DEF Skip, Visit, TypeOK, ClosedOnce, Fresh, HungUp, Snapshots, Stalled, NoLeak,
         hubVars, subVars, endVars
  <2>2. CASE Send(s)
    BY <2>2 DEF Send, Visit, TypeOK, ClosedOnce, Fresh, HungUp, Snapshots, Stalled, NoLeak,
         hubVars, endVars
  <2>3. CASE Drop(s)
    <3>1. ClosedOnce'
      BY <2>3 DEF Drop, CloseOnce, TypeOK, ClosedOnce
    <3>2. client[s] # "absent" /\ client[s] # "cancelling"
      BY <2>3 DEF Drop, Visit, Fresh, HungUp
    <3>3. Fresh' /\ HungUp' /\ Snapshots' /\ Stalled' /\ NoLeak'
      BY <2>3, <3>2 DEF Drop, Visit, CloseOnce, TypeOK, Fresh, HungUp, Snapshots, Stalled,
           NoLeak, hubVars, endVars
    <3> QED BY <3>1, <3>3
  <2> QED BY <1>7, <2>1, <2>2, <2>3 DEF Deliver
<1>8. CASE FinishPublish
  <2>1. /\ subs' = subs \ dead /\ dead' = {} /\ todo' = {} /\ publisher' = "idle"
        /\ UNCHANGED <<subVars, stalled, endVars, client>>
    BY <1>8 DEF FinishPublish
  <2>2. ClosedOnce' /\ Fresh' /\ HungUp'
    BY <2>1 DEF ClosedOnce, Fresh, HungUp, subVars, endVars
  <2>3. Snapshots'
    BY <2>1 DEF Snapshots, endVars
  <2>4. Stalled' /\ NoLeak'
    BY <2>1 DEF Stalled, NoLeak, subVars
  <2> QED BY <2>2, <2>3, <2>4
<1>9. CASE Kick \/ Close
  BY <1>9 DEF Kick, Close, TakeAll, TypeOK, ClosedOnce, Fresh, HungUp, Snapshots, Stalled,
       NoLeak, subVars, pubVars
<1>10. CASE UNCHANGED vars
  BY <1>10 DEF TypeOK, ClosedOnce, Fresh, HungUp, Snapshots, Stalled, NoLeak, vars,
       hubVars, subVars, pubVars, endVars
<1> QED
  BY <1>1, <1>2, <1>3, <1>4, <1>5, <1>6, <1>7, <1>8, <1>9, <1>10
     DEF Next, ClientStep, PublishStep

\* Only Send puts anything into a subscriber's channel, and only behind what
\* is there.
LEMMA HandedStep ==
  ASSUME TypeOK, [Next]_vars
  PROVE  \A s \in Subscribers :
           /\ Send(s) => Handed(s)' = Append(Handed(s), Len(log))
           /\ ~Send(s) => Handed(s)' = Handed(s)
<1>1. ASSUME NEW s \in Subscribers, Receive(s)
      PROVE  \A r \in Subscribers : Handed(r)' = Handed(r)
  <2>1. got[s] \in Seq(Nat) /\ ch[s] \in Seq(Nat) /\ ch[s] # <<>>
    BY <1>1 DEF TypeOK, Receive
  <2>2. Append(got[s], Head(ch[s])) \o Tail(ch[s]) = got[s] \o ch[s]
    BY <2>1, MoveHead
  <2>3. /\ got'[s] = Append(got[s], Head(ch[s])) /\ ch'[s] = Tail(ch[s])
        /\ \A r \in Subscribers \ {s} : got'[r] = got[r] /\ ch'[r] = ch[r]
    BY <1>1 DEF TypeOK, Receive
  <2> QED BY <2>2, <2>3 DEF Handed
<1>2. ASSUME NEW s \in Subscribers, Send(s)
      PROVE  /\ Handed(s)' = Append(Handed(s), Len(log))
             /\ \A r \in Subscribers \ {s} : Handed(r)' = Handed(r)
  <2>1. got[s] \in Seq(Nat) /\ ch[s] \in Seq(Nat) /\ Len(log) \in Nat
    BY LenProperties DEF TypeOK
  <2>2. ASSUME NEW a \in Seq(Nat), NEW b \in Seq(Nat), NEW n \in Nat
        PROVE  a \o Append(b, n) = Append(a \o b, n)
    BY PutLast
  <2>3. got[s] \o Append(ch[s], Len(log)) = Append(got[s] \o ch[s], Len(log))
    BY <2>1, <2>2, Zenon
  <2>4. /\ got' = got /\ ch'[s] = Append(ch[s], Len(log))
        /\ \A r \in Subscribers \ {s} : ch'[r] = ch[r]
    BY <1>2 DEF TypeOK, Send, Visit
  <2> QED BY <2>3, <2>4 DEF Handed
<1>3. ASSUME got' = got /\ ch' = ch
      PROVE  \A r \in Subscribers : Handed(r)' = Handed(r)
  BY <1>3 DEF Handed
<1>4. \/ got' = got /\ ch' = ch
      \/ \E s \in Subscribers : Receive(s) \/ Send(s)
  BY DEF Next, ClientStep, PublishStep, Deliver, Subscribe, Cancel, Unregister,
    EndOne, BeginPublish, Skip, Drop, Visit, FinishPublish, Kick, Close, vars,
    subVars
<1> QED BY <1>1, <1>2, <1>3, <1>4

\* What a subscriber was handed is a sequence of chunks.
LEMMA HandedType == TypeOK => \A s \in Subscribers : Handed(s) \in Seq(Nat)
<1> SUFFICES ASSUME TypeOK, NEW s \in Subscribers PROVE Handed(s) \in Seq(Nat)
  OBVIOUS
<1>1. got[s] \in Seq(Nat) /\ ch[s] \in Seq(Nat)
  BY DEF TypeOK
<1> QED BY <1>1, ConcatProperties DEF Handed

\* The three facts about what one subscriber has been handed.
StreamOf(s) ==
  /\ ~synced[s] => Handed(s) = <<>>
  /\ \A i \in 1..Len(Handed(s)) : Handed(s)[i] \in 1..Len(log)
  /\ Handed(s) # <<>> => log[Handed(s)[1]]
  /\ \A i \in 1..(Len(Handed(s)) - 1) : Handed(s)[i + 1] = Handed(s)[i] + 1

\* Is the newest chunk s was handed the one before the next it will get?
UpToDate(s) ==
  (s \in subs \union todo /\ synced[s] /\ ~closed[s]) =>
    Handed(s) # <<>> /\ Handed(s)[Len(Handed(s))] = Served(s)

\* The parts of the invariant about streams, one subscriber at a time.
LEMMA StreamEquiv ==
  Progress /\ KeyframeFirst /\ NoGap <=>
    \A s \in Subscribers : StreamOf(s) /\ UpToDate(s)
BY DEF Progress, KeyframeFirst, NoGap, StreamOf, UpToDate

\* A step that sends nothing to s and does not touch the log keeps its stream.
LEMMA StreamKept ==
  ASSUME TypeOK, NEW s \in Subscribers, StreamOf(s),
         Handed(s)' = Handed(s), synced[s] => synced'[s],
         \/ log' = log
         \/ \E key \in BOOLEAN : log' = Append(log, key)
  PROVE  StreamOf(s)'
<1>1. log \in Seq(BOOLEAN) /\ Len(log) \in Nat
  BY LenProperties DEF TypeOK
<1>2. /\ Len(log') \in Nat /\ Len(log') >= Len(log)
      /\ \A i \in 1..Len(log) : log'[i] = log[i]
  BY <1>1, AppendProperties
<1>3. Handed(s) \in Seq(Nat) /\ Len(Handed(s)) \in Nat
  BY HandedType, LenProperties
<1>4. Handed(s) # <<>> => 1 \in 1..Len(Handed(s))
  BY <1>3, EmptySeq
<1> DEFINE h == Handed(s)
<1> HIDE DEF h
<1>5. (~synced[s])' => h = <<>>
  BY DEF StreamOf, h
<1>6. \A i \in 1..Len(h) : h[i] \in 1..Len(log')
  BY <1>1, <1>2, <1>3 DEF StreamOf, h
<1>7. h # <<>> => log'[h[1]]
  BY <1>2, <1>4 DEF StreamOf, h
<1>8. \A i \in 1..(Len(h) - 1) : h[i + 1] = h[i] + 1
  BY DEF StreamOf, h
<1> QED BY <1>5, <1>6, <1>7, <1>8 DEF StreamOf, h

\* The chunk being published continues the stream of a subscriber it is sent
\* to, or, as a keyframe, begins it.
LEMMA StreamSent ==
  ASSUME TypeOK, NEW s \in Subscribers, Send(s), ~closed[s],
         log # <<>>, StreamOf(s), UpToDate(s),
         Handed(s)' = Append(Handed(s), Len(log))
  PROVE  StreamOf(s)' /\ UpToDate(s)'
<1> DEFINE h == Handed(s)
           n == Len(log)
<1>1. n \in Nat \ {0}
  BY EmptySeq DEF TypeOK
<1>2. h \in Seq(Nat) /\ Len(h) \in Nat
  BY HandedType, LenProperties
<1>3. /\ s \in todo /\ todo' = todo \ {s} /\ log' = log
      /\ synced'[s] = TRUE /\ Legal(s)
  BY DEF Send, Visit, TypeOK
<1>4. h # <<>> => 1 \in 1..Len(h)
  BY <1>2, EmptySeq
<1>5. synced[s] => h # <<>> /\ h[Len(h)] = n - 1
  BY <1>3 DEF UpToDate, Served
<1>6. /\ ~synced[s] => h = <<>>
      /\ \A i \in 1..Len(h) : h[i] \in 1..n
      /\ h # <<>> => log[h[1]]
      /\ \A i \in 1..(Len(h) - 1) : h[i + 1] = h[i] + 1
  BY DEF StreamOf
<1>7. h = <<>> => log[n]
  BY <1>3, <1>5 DEF Legal
<1> HIDE DEF h, n
<1>8. h \in Seq(Nat) /\ n \in Nat /\ h # Append(h, n)
      /\ Append(h, n) \in Seq(Nat) /\ Len(Append(h, n)) = Len(h) + 1
      /\ \A i \in 1..Len(h) : Append(h, n)[i] = h[i]
      /\ Append(h, n)[Len(h) + 1] = n
  BY <1>1, <1>2, AppendProperties
<1> DEFINE g == Append(h, n)
<1>9. Len(g) = Len(h) + 1 /\ g # <<>> /\ g[Len(g)] = n
  BY <1>2, <1>8, EmptySeq
<1>10. \A i \in 1..Len(h) : g[i] = h[i]
  BY <1>8
<1> HIDE DEF g
<1>11. \A i \in 1..Len(g) : g[i] \in 1..n
  BY <1>1, <1>2, <1>6, <1>9, <1>10, SMTT(30)
<1>12. log[g[1]]
  <2>1. CASE h = <<>>
    BY <2>1, <1>7, <1>9, EmptySeq
  <2>2. CASE h # <<>>
    BY <2>2, <1>4, <1>6, <1>10
  <2> QED BY <2>1, <2>2
<1>13. \A i \in 1..(Len(g) - 1) : g[i + 1] = g[i] + 1
  <2> SUFFICES ASSUME NEW i \in 1..Len(h) PROVE g[i + 1] = g[i] + 1
    BY <1>9, <1>2
  <2>1. CASE i < Len(h)
    <3>1. i \in 1..(Len(h) - 1) /\ i + 1 \in 1..Len(h)
      BY <2>1, <1>2
    <3>2. g[i] = h[i] /\ g[i + 1] = h[i + 1]
      BY <3>1, <1>10
    <3>3. h[i + 1] = h[i] + 1
      BY <3>1, <1>6
    <3> QED BY <3>2, <3>3
  <2>2. CASE i = Len(h)
    <3>1. h # <<>> /\ synced[s]
      BY <2>2, <1>2, <1>6, EmptySeq
    <3> QED BY <2>2, <3>1, <1>1, <1>2, <1>5, <1>9, <1>10
  <2> QED BY <2>1, <2>2, <1>2
<1>14. Handed(s)' = g /\ Len(log') = n
  BY <1>3 DEF g, h, n
<1>15. StreamOf(s)'
  BY <1>3, <1>9, <1>11, <1>12, <1>13, <1>14 DEF StreamOf
<1>16. UpToDate(s)'
  <2>1. s \notin todo'
    BY <1>3
  <2>2. Served(s)' = n
    BY <2>1, <1>1, <1>14 DEF Served
  <2> QED BY <2>2, <1>9, <1>14 DEF UpToDate
<1> QED BY <1>15, <1>16

\* A subscriber that is sent nothing stays up to date: it has been visited, is
\* not due, or is closed.
LEMMA UpToDateKept ==
  ASSUME Structure, [Next]_vars, NEW s \in Subscribers,
         UpToDate(s), StreamOf(s), ~Send(s), Handed(s)' = Handed(s)
  PROVE  UpToDate(s)'
<1> SUFFICES ASSUME s \in (subs \union todo)', synced'[s], ~closed'[s]
             PROVE  Handed(s) # <<>> /\ Handed(s)[Len(Handed(s))] = Served(s)'
  BY DEF UpToDate
<1> USE DEF Structure
<1>n. Len(log) \in Nat /\ \A key \in BOOLEAN : Len(Append(log, key)) = Len(log) + 1
  BY LenProperties, AppendProperties DEF TypeOK
<1> DEFINE Same == /\ synced[s] /\ ~closed[s]
                   /\ s \in subs \union todo
                   /\ Served(s)' = Served(s)
<1> SUFFICES Same
  BY DEF UpToDate
<1>1. ASSUME NEW r \in Subscribers, Subscribe(r) PROVE Same
  <2>1. synced' = synced /\ log' = log /\ todo' = todo
    BY <1>1 DEF Subscribe, pubVars
  <2>2. r # s
    BY <1>1, <2>1 DEF Subscribe, Fresh
  <2>3. closed'[s] = closed[s] /\ (s \in subs' => s \in subs)
    BY <1>1, <2>2 DEF Subscribe, CloseOnce, TypeOK
  <2> QED BY <2>1, <2>3 DEF Served, TypeOK
<1>2. ASSUME NEW r \in Subscribers, Receive(r) PROVE Same
  BY <1>2 DEF Receive, hubVars, pubVars, Served
<1>3. ASSUME NEW r \in Subscribers, Cancel(r) \/ EndOne(r) PROVE Same
  BY <1>3 DEF Cancel, EndOne, CloseOnce, TypeOK, hubVars, pubVars, Served
<1>4. ASSUME NEW r \in Subscribers, Unregister(r) PROVE Same
  BY <1>4 DEF Unregister, subVars, pubVars, Served
<1>5. CASE Kick \/ Close
  BY <1>5 DEF Kick, Close, TakeAll, subVars, pubVars, Served
<1>6. CASE FinishPublish
  BY <1>6 DEF FinishPublish, subVars, Served
<1>7. CASE UNCHANGED vars
  BY <1>7 DEF vars, hubVars, subVars, pubVars, Served
<1>8. ASSUME NEW key \in BOOLEAN, BeginPublish(key)
      PROVE  Same
  <2>1. s \in subs /\ s \in todo' /\ synced[s] /\ ~closed[s]
    BY <1>8 DEF BeginPublish, hubVars, subVars
  <2>2. s \notin todo
    BY <1>8 DEF BeginPublish, Snapshots
  <2>3. Len(log') = Len(log) + 1
    BY <1>8, <1>n DEF BeginPublish
  <2> QED BY <2>1, <2>2, <2>3, <1>n DEF Served
<1>9. ASSUME NEW r \in Subscribers, Deliver(r) PROVE Same
  <2>1. CASE r # s
    <3>1. closed'[s] = closed[s] /\ synced'[s] = synced[s]
      BY <1>9, <2>1 DEF Deliver, Skip, Send, Drop, CloseOnce, TypeOK, subVars
    <3>2. subs' = subs /\ log' = log /\ todo' = todo \ {r}
      BY <1>9 DEF Deliver, Skip, Send, Drop, Visit, hubVars
    <3> QED BY <2>1, <3>1, <3>2 DEF Served
  <2>2. CASE r = s
    <3>1. Skip(s)
      BY <1>9, <2>2 DEF Deliver, Drop, CloseOnce, TypeOK
    <3>2. ~Legal(s) /\ synced[s]
      BY <3>1 DEF Skip, subVars
    <3> QED BY <3>2 DEF Legal
  <2> QED BY <2>1, <2>2
<1> QED
  BY <1>1, <1>2, <1>3, <1>4, <1>5, <1>6, <1>7, <1>8, <1>9
     DEF Next, ClientStep, PublishStep

-----------------------------------------------------------------------------
(* The invariant is inductive *)

\* Every step keeps the invariant.
LEMMA StepInv == IInv /\ [Next]_vars => IInv'
<1> SUFFICES ASSUME IInv, [Next]_vars PROVE IInv'
  OBVIOUS
<1>1. Structure'
  BY StructureStep DEF IInv
<1>2. TypeOK
  BY DEF IInv, Structure
<1>3. \A s \in Subscribers : StreamOf(s) /\ UpToDate(s)
  BY StreamEquiv DEF IInv
<1>4. \A s \in Subscribers : synced[s] => synced'[s]
  <2>1. CASE synced' = synced
    BY <2>1
  <2>2. ASSUME NEW s \in Subscribers, synced' = [synced EXCEPT ![s] = TRUE]
        PROVE  \A r \in Subscribers : synced[r] => synced'[r]
    BY <1>2, <2>2 DEF TypeOK
  <2>3. \/ synced' = synced
        \/ \E s \in Subscribers : synced' = [synced EXCEPT ![s] = TRUE]
    BY DEF Next, ClientStep, PublishStep, Deliver, Subscribe, Receive, Cancel,
      Unregister, EndOne, BeginPublish, Skip, Send, Drop, FinishPublish, Kick,
      Close, vars, subVars
  <2> QED BY <2>1, <2>2, <2>3
<1>5. log' = log \/ \E key \in BOOLEAN : log' = Append(log, key)
  BY DEF Next, ClientStep, PublishStep, Deliver, Subscribe, Receive, Cancel,
    Unregister, EndOne, BeginPublish, Skip, Send, Drop, Visit, FinishPublish,
    Kick, Close, vars, pubVars
<1>6. ASSUME NEW s \in Subscribers PROVE StreamOf(s)' /\ UpToDate(s)'
  <2>1. CASE Send(s)
    <3>1. log # <<>> /\ ~closed[s]
      BY <2>1 DEF Send, Visit, IInv, Structure, Snapshots
    <3>2. Handed(s)' = Append(Handed(s), Len(log))
      BY <1>2, <2>1, HandedStep
    <3> QED BY <1>2, <1>3, <2>1, <3>1, <3>2, StreamSent
  <2>2. CASE ~Send(s)
    <3>1. Handed(s)' = Handed(s)
      BY <1>2, <2>2, HandedStep
    <3>2. StreamOf(s)'
      BY <1>2, <1>3, <1>4, <1>5, <3>1, StreamKept
    <3>3. UpToDate(s)'
      BY <1>3, <2>2, <3>1, UpToDateKept DEF IInv
    <3> QED BY <3>2, <3>3
  <2> QED BY <2>1, <2>2
<1>7. (Progress /\ KeyframeFirst /\ NoGap)'
  BY <1>6 DEF Progress, KeyframeFirst, NoGap, StreamOf, UpToDate
<1> QED BY <1>1, <1>7 DEF IInv

\* The invariant holds of every reachable state.
LEMMA Invariance == Spec => []IInv
<1> QED BY InitInv, StepInv, PTL DEF Spec

\* Each channel is closed exactly once, by whichever of cancel, a drop, Kick
\* and Close comes first.
THEOREM ClosedOnceCorrect == Spec => []ClosedOnce
<1>1. IInv => ClosedOnce
  BY DEF IInv, Structure
<1> QED BY <1>1, Invariance, PTL

\* No closed subscriber stays registered without someone about to remove it.
THEOREM NoLeakCorrect == Spec => []NoLeak
<1>1. IInv => NoLeak
  BY DEF IInv, Structure
<1> QED BY <1>1, Invariance, PTL

\* Whatever a subscriber was handed begins at a keyframe and skips no chunk.
THEOREM StreamCorrect == Spec => []StreamWhole
<1>1. IInv => StreamWhole
  BY DEF IInv, StreamWhole
<1> QED BY <1>1, Invariance, PTL

-----------------------------------------------------------------------------
(* After the close *)

\* A closed channel stays closed.
LEMMA ClosedStays ==
  ASSUME TypeOK, [Next]_vars, NEW s \in Subscribers, closed[s]
  PROVE  closed'[s]
<1>1. ASSUME NEW r \in Subscribers, CloseOnce(r) PROVE closed'[s]
  BY <1>1 DEF CloseOnce, TypeOK
<1>2. closed' = closed \/ \E r \in Subscribers : CloseOnce(r)
  BY DEF Next, ClientStep, PublishStep, Deliver, Subscribe, Receive, Cancel,
    Unregister, EndOne, BeginPublish, Skip, Send, Drop, FinishPublish, Kick,
    Close, vars, subVars
<1> QED BY <1>1, <1>2

\* No channel is closed twice, and none is sent to once it is closed: who
\* sends holds the subscriber open (subscriber.mu).
THEOREM NeverPanicsCorrect == Spec => NeverPanics
<1>1. TypeOK /\ [Next]_vars => Sealed
  <2> SUFFICES ASSUME TypeOK, [Next]_vars, NEW s \in Subscribers, closed[s]
               PROVE  closed'[s] /\ Handed(s)' = Handed(s)
    BY DEF Sealed
  <2>1. ~Send(s)
    BY DEF Send
  <2> QED BY <2>1, HandedStep, ClosedStays
<1> QED BY <1>1, TypeCorrect, ClosedOnceCorrect, PTL DEF Spec, NeverPanics

-----------------------------------------------------------------------------
(* The count of the dropped *)

\* Those PublishKey found full, less those still registered or taken by Kick
\* or Close: the ones it has counted.
Counted == stalled \ (kicked \union subs)

\* Those counted as dropped are subscribers, and finitely many.
LEMMA CountedType ==
  TypeOK => IsFiniteSet(Counted) /\ Cardinality(Counted) \in Nat
<1> SUFFICES ASSUME TypeOK PROVE IsFiniteSet(Counted)
  BY FS_CardinalityType
<1> QED BY HubAssumption, FS_Subset DEF TypeOK, Counted

\* Only the end of a PublishKey counts anybody.
LEMMA CountedStep ==
  ASSUME Structure, [Next]_vars, ~FinishPublish
  PROVE  Counted' = Counted /\ dropped' = dropped
<1> USE DEF Structure
<1>1. ASSUME NEW s \in Subscribers, Subscribe(s) \/ Unregister(s)
      PROVE  Counted' = Counted /\ dropped' = dropped
  <2>1. s \notin stalled
    BY <1>1 DEF Subscribe, Unregister, Fresh, Stalled
  <2>2. /\ subs' \subseteq subs \union {s} /\ subs \subseteq subs' \union {s}
        /\ UNCHANGED <<stalled, kicked, dropped>>
    BY <1>1 DEF Subscribe, Unregister, pubVars, endVars
  <2> QED BY <2>1, <2>2 DEF Counted
<1>2. ASSUME NEW s \in Subscribers, Drop(s)
      PROVE  Counted' = Counted /\ dropped' = dropped
  <2>1. s \in subs \/ s \in kicked
    BY <1>2 DEF Drop, Visit, Snapshots
  <2> QED BY <1>2, <2>1 DEF Drop, Visit, hubVars, endVars, Counted
<1>3. CASE Kick \/ Close
  BY <1>3 DEF Kick, Close, TakeAll, pubVars, Counted
<1>4. CASE UNCHANGED <<stalled, kicked, subs, dropped>>
  BY <1>4 DEF Counted
<1> QED
  BY <1>1, <1>2, <1>3, <1>4 DEF Next, ClientStep, PublishStep, Deliver, Receive,
    Cancel, EndOne, BeginPublish, Skip, Send, Visit, vars, hubVars, pubVars, endVars

\* Every step keeps the count of the dropped exact.
LEMMA DroppedStep == Structure /\ DroppedExact /\ [Next]_vars => DroppedExact'
<1> SUFFICES ASSUME Structure, dropped = Cardinality(Counted), [Next]_vars
             PROVE  dropped' = Cardinality(Counted')
  BY DEF DroppedExact, Counted
<1>1. CASE ~FinishPublish
  BY <1>1, CountedStep
<1>2. CASE FinishPublish
  <2> DEFINE D == dead \intersect subs
  <2>1. Counted' = Counted \union D
    BY <1>2 DEF FinishPublish, Structure, Snapshots, Stalled, Counted, endVars
  <2>2. Counted \intersect D = {}
    BY DEF Counted
  <2>3. IsFiniteSet(Counted) /\ IsFiniteSet(D)
    BY CountedType, HubAssumption, FS_Subset DEF Structure, TypeOK
  <2>4. Cardinality(Counted \intersect D) = 0
    BY <2>2, FS_EmptySet
  <2>5. Cardinality(Counted \union D) = Cardinality(Counted) + Cardinality(D)
    <3>1. Cardinality(Counted) \in Nat /\ Cardinality(D) \in Nat
      BY <2>3, FS_CardinalityType
    <3>2. Cardinality(Counted \union D)
            = Cardinality(Counted) + Cardinality(D) - Cardinality(Counted \intersect D)
      <4> HIDE DEF D
      <4> QED BY <2>3, FS_Union, Zenon
    <3> HIDE DEF D
    <3> QED BY <2>4, <3>1, <3>2
  <2>6. dropped' = dropped + Cardinality(D)
    BY <1>2 DEF FinishPublish
  <2>7. Cardinality(Counted') = Cardinality(Counted \union D)
    BY <2>1
  <2> HIDE DEF D
  <2> QED BY <2>5, <2>6, <2>7
<1> QED BY <1>1, <1>2

\* Dropped counts each subscriber that fell behind exactly once, save those
\* Kick or Close removed first.
THEOREM DroppedCorrect == Spec => []DroppedExact
<1>1. Init => DroppedExact
  BY FS_EmptySet DEF Init, DroppedExact
<1>2. IInv => Structure
  BY DEF IInv
<1> QED BY <1>1, <1>2, DroppedStep, Invariance, PTL DEF Spec

-----------------------------------------------------------------------------
(* A connection to a camera. *)

\* Once it is up its watcher is over, so the deadline of the login that was
\* lifted then stays lifted; before that nothing reads it, and nothing was asked
\* of the camera.
LoginInv ==
  /\ owner \in [at : {"dialling", "failed", "using", "closing", "closed"},
                told : {None, "unreachable", "timeout", "refused", "broken"}, left : SUBSET Previews]
  /\ dial \in [at : {"none", "probe", "login", "in", "failed"}, why : {None, "refused", "timeout", "broken"}]
  /\ owner.at \in {"using", "closing", "closed"} => watcher = "over" /\ deadline = "none" /\ dial.at = "in"
  /\ owner.at \in {"dialling", "failed"} => loop = "none" /\ running = {}
  /\ dial.at = "none" => socket = "none"
  /\ owner.at = "failed" => socket # "open" /\ dial.at \in {"none", "failed"}

\* The camera runs nothing that Close does not stop.
AskedInv ==
  /\ asked \in [video : SUBSET Previews, also : SUBSET Previews] /\ running \subseteq Previews
  /\ owner.at = "using" /\ line = "up" => running \subseteq TheConn!ToStop
  /\ owner.at = "closing" /\ line = "up" => running \subseteq owner.left
  /\ owner.at = "closed" /\ line = "up" => running = {}

ConnInv == LoginInv /\ AskedInv

\* Each step of the login, the watcher, the loop that reads, the owner or the
\* line keeps it.
LEMMA ConnStep == ASSUME ConnInv, [TheConn!Next]_connVars PROVE ConnInv'
<1> USE DEF ConnInv, LoginInv, AskedInv, TheConn!ToStop
<1>1. CASE UNCHANGED connVars
  BY <1>1 DEF connVars
<1>2. CASE TheConn!Connect \/ TheConn!Unreachable \/ TheConn!Pass \/ TheConn!Done \/ TheConn!Break
  BY <1>2 DEF TheConn!Connect, TheConn!Unreachable, TheConn!Pass, TheConn!Done, TheConn!Break, TheConn!AfterLogin
<1>3. CASE TheConn!Watch
  BY <1>3 DEF TheConn!Watch, TheConn!Wake, TheConn!PullIn, TheConn!Leave, TheConn!AfterLogin
<1>4. CASE TheConn!Login
  <2>1. \E at \in {"login", "in", "failed"}, why \in {None, "refused", "timeout", "broken"} : TheConn!Logs(at, why)
    BY <1>4 DEF TheConn!Login, TheConn!Nonce, TheConn!Accept, TheConn!Refuse, TheConn!Hangs, TheConn!Broken
  <2> QED BY <2>1 DEF TheConn!Logs, TheConn!AfterLogin
<1>5. CASE TheConn!Return
  BY <1>5 DEF TheConn!Return, TheConn!Fail, TheConn!Up, TheConn!WatcherDone, TheConn!AfterLogin
<1>6. CASE TheConn!LoopStep
  BY <1>6 DEF TheConn!LoopStep, TheConn!Read, TheConn!ReadFails, TheConn!AnswerKeepAlive, TheConn!Offer,
              TheConn!Discard, TheConn!BeforeLogin, TheConn!Ending
<1>7. CASE TheConn!Take \/ TheConn!Close \/ TheConn!Closed
  <2>1. CASE TheConn!Take
    BY <2>1 DEF TheConn!Take, TheConn!BeforeLogin
  <2>2. CASE TheConn!Close
    BY <2>2 DEF TheConn!Close, TheConn!BeforeLogin
  <2>3. CASE TheConn!Closed
    BY <2>3 DEF TheConn!Closed, TheConn!AfterLogin
  <2> QED BY <1>7, <2>1, <2>2, <2>3
<1>8. ASSUME NEW p \in Previews, TheConn!StartVideo(p) \/ TheConn!StartVideoOn(p) \/ TheConn!StopVideoOn(p)
      PROVE  ConnInv'
  BY <1>8 DEF TheConn!StartVideo, TheConn!StartVideoOn, TheConn!StopVideoOn, TheConn!Runs, TheConn!BeforeLogin
<1>9. CASE TheConn!StopVideo
  BY <1>9 DEF TheConn!StopVideo, TheConn!Runs, TheConn!BeforeLogin
<1> QED BY <1>1, <1>2, <1>3, <1>4, <1>5, <1>6, <1>7, <1>8, <1>9 DEF TheConn!Next, TheConn!Use

\* A connection begins with nothing of it there.
LEMMA ConnInit == TheConn!Init => ConnInv
  BY DEF TheConn!Init, ConnInv, LoginInv, AskedInv, TheConn!ToStop

\* What it says of a connection that is up, failed or closed.
LEMMA ConnKeeps == ConnInv => TheConn!ConnKept
  BY DEF ConnInv, LoginInv, AskedInv, TheConn!ConnKept, TheConn!ToStop

-----------------------------------------------------------------------------
(* Two-way audio. *)

Doings == {"none", "loop", "dial", "ask", "config", "open", "closing", "gone"}

\* The camera talks only with one that asked it to and has not hung up, and a
\* session is open only with the one the camera talks with.
TalkInv ==
  /\ doing \in [TheTalk!Talkers -> Doings]
  /\ mic \in [with : TheTalk!Talkers \cup {None}, hung : {"no", "opening", "unanswered"}]
  /\ \A g \in TheTalk!Talkers : mic.with = g => doing[g] \in {"config", "open", "closing"}
  /\ \A g \in TheTalk!Talkers : doing[g] = "open" => mic.with = g

\* Each step of whoever talks, or of the camera, keeps it.
LEMMA TalkStep == ASSUME TalkInv, [TheTalk!Next]_talkVars PROVE TalkInv'
<1> USE TalkAssumption DEF TalkInv, Doings, TheTalk!Talkers, TheTalk!At, TheTalk!Goes
<1>1. CASE UNCHANGED talkVars
  BY <1>1 DEF talkVars
<1>2. CASE TheTalk!Reboot
  BY <1>2 DEF TheTalk!Reboot
<1>3. ASSUME NEW g \in TheTalk!Talkers,
             \/ TheTalk!Listen(g) \/ TheTalk!Press(g) \/ TheTalk!Packet(g) \/ TheTalk!Hush(g)
             \/ TheTalk!Leave(g) \/ TheTalk!Retry(g) \/ TheTalk!Dialled(g) \/ TheTalk!Lull(g)
      PROVE  TalkInv'
  BY <1>3 DEF TheTalk!Listen, TheTalk!Press, TheTalk!Packet, TheTalk!Hush, TheTalk!Leave,
              TheTalk!Retry, TheTalk!Dialled, TheTalk!Lull
<1>4. ASSUME NEW g \in TheTalk!Talkers, TheTalk!TalkConfig(g) PROVE TalkInv'
  BY <1>4 DEF TheTalk!TalkConfig
<1>5. ASSUME NEW g \in TheTalk!Talkers, TheTalk!Break(g) \/ TheTalk!Closes(g) PROVE TalkInv'
  BY <1>5 DEF TheTalk!Break, TheTalk!Closes
<1>6. ASSUME NEW g \in TheTalk!Talkers,
             \/ TheTalk!Stopped(g) \/ TheTalk!Take(g) \/ TheTalk!Opened(g)
             \/ TheTalk!Write(g) \/ TheTalk!Release(g) \/ TheTalk!Unpress(g)
      PROVE  TalkInv'
  BY <1>6 DEF TheTalk!Stopped, TheTalk!Take, TheTalk!Opened, TheTalk!Write, TheTalk!Release,
              TheTalk!Unpress, TheTalk!AfterStop, TheTalk!Rests
<1>7. ASSUME NEW g \in TheTalk!Talkers, TheTalk!OpenFails(g) PROVE TalkInv'
  BY <1>7 DEF TheTalk!OpenFails, TheTalk!Opening, TheTalk!HangUp
<1>8. ASSUME NEW g \in TheTalk!Talkers, TheTalk!Closed(g) PROVE TalkInv'
  BY <1>8 DEF TheTalk!Closed, TheTalk!Waited, TheTalk!HangUp
<1> QED BY <1>1, <1>2, <1>3, <1>4, <1>5, <1>6, <1>7, <1>8 DEF TheTalk!Next, TheTalk!Step

\* Nobody talks when it begins.
LEMMA TalkInit == TheTalk!Init => TalkInv
  BY TalkAssumption DEF TheTalk!Init, TalkInv, Doings, TheTalk!Talkers

\* A camera is let go by whoever is done with it, and talks with one at a time.
LEMMA TalkReleased == TalkInv => TheTalk!Released
  BY DEF TalkInv, TheTalk!Released, TheTalk!Talkers

-----------------------------------------------------------------------------
(* The presence stream. *)

Cuts == Clips \cup {ThePlayer!NoClip}
Reels == [at : {"loop", "check", "seed", "play"}, clip : Cuts, i : Nat, started : BOOLEAN]
Pictures == [src : {"none", "still", "live", "clip"}, clip : Cuts, i : Int]
Shows == [last : Pictures, codecs : SUBSET Codecs, torn : BOOLEAN, quiet : BOOLEAN, foreign : BOOLEAN]

PlayerTypes == codec \in Codecs \cup {""} /\ waiting \in Seq(Clips) /\ reel \in Reels /\ shown \in Shows

\* The first picture settles the codec.  The clip that plays has the stream to
\* itself, so what was shown last is its last sample, if it is of that codec.
PlayerInv ==
  /\ PlayerTypes
  /\ ~shown.torn /\ shown.codecs \subseteq {codec} /\ still \in {"", codec}
  /\ reel.at # "loop" => reel.clip \in Clips
  /\ reel.at = "play" => playing /\ reel.i \in Nat \ {0}
  /\ reel.started => reel.at = "play" /\ codec # ""
  /\ reel.started /\ codec = reel.clip.codec => shown.last = [src |-> "clip", clip |-> reel.clip, i |-> reel.i - 1]

\* A clip's codec and keyframes.
LEMMA ClipIs == ASSUME NEW clip \in Clips PROVE clip.codec \in Codecs /\ clip.keys \in Seq(BOOLEAN)
<1>1. clip \in [codec : Codecs, keys : Seq(BOOLEAN), broken : BOOLEAN]
  BY PlayerAssumption
<1> QED BY <1>1

\* The loop that waits for a clip.
LEMMA LoopReel == ThePlayer!Loop \in Reels /\ ThePlayer!Loop.at = "loop" /\ ~ThePlayer!Loop.started
  BY DEF ThePlayer!Loop, Reels, Cuts

\* A picture, of the stream's codec or another: the first keyframe settles the
\* codec, and one of another codec is not shown.
LEMMA Fed ==
  ASSUME PlayerInv, NEW c \in Codecs, NEW key \in BOOLEAN, NEW what \in Pictures,
         IF key THEN ThePlayer!Adopt(c) ELSE UNCHANGED <<codec, still>>
  PROVE  LET s == ThePlayer!Emit(IF key THEN ThePlayer!Prime(shown, c) ELSE shown, c, what)
         IN  /\ codec' \in Codecs \cup {""} /\ still' \in {"", codec'}
             /\ codec # "" => codec' = codec
             /\ key => codec' # ""
             /\ s \in Shows /\ ~s.torn /\ s.codecs \subseteq {codec'}
             /\ s.last = IF c = codec' THEN what ELSE shown.last
<1> DEFINE primed == IF key THEN ThePlayer!Prime(shown, c) ELSE shown
<1>1. /\ codec' \in Codecs \cup {""} /\ still' \in {"", codec'}
      /\ codec # "" => codec' = codec
      /\ key => codec' \in Codecs
      /\ key /\ codec = "" => codec' = c
      /\ ~key => codec' = codec
  BY PlayerAssumption DEF PlayerInv, PlayerTypes, ThePlayer!Adopt, ThePlayer!Fits
<1>2. shown \in Shows /\ ~shown.torn /\ shown.codecs \subseteq {codec}
  BY DEF PlayerInv, PlayerTypes
<1>3. /\ primed \in Shows /\ ~primed.torn /\ primed.codecs \subseteq {codec'}
      /\ c # codec' => primed = shown
  <2>1. [ThePlayer!Nothing EXCEPT !.src = "still"] \in Pictures
    BY DEF Pictures, Cuts, ThePlayer!Nothing
  <2>2. CASE ~key
    BY <1>1, <1>2, <2>2
  <2>3. CASE key /\ codec = ""
    <3>1. c \in Codecs /\ ""  \notin Codecs /\ shown.codecs \subseteq {""} /\ shown.codecs \subseteq Codecs
      BY <1>2, <2>3, PlayerAssumption DEF Shows
    <3>2. shown.codecs = {}
      BY <3>1
    <3> QED BY <1>1, <1>2, <2>1, <2>3, <3>2 DEF Shows, ThePlayer!Prime, ThePlayer!Emit, ThePlayer!Emits
  <2>4. CASE key /\ codec # ""
    BY <1>1, <1>2, <2>4 DEF ThePlayer!Prime
  <2> QED BY <2>2, <2>3, <2>4
<1> HIDE DEF primed
<1>4. LET s == ThePlayer!Emit(primed, c, what)
      IN  /\ s \in Shows /\ ~s.torn /\ s.codecs \subseteq {codec'}
          /\ s.last = IF c = codec' THEN what ELSE shown.last
  BY <1>1, <1>3 DEF Shows, ThePlayer!Emit, ThePlayer!Emits
<1> QED BY <1>1, <1>4, PlayerAssumption DEF primed

\* A sample that is not skipped.
Plays(clip, i, k, c) ==
  /\ k \/ reel.started
  /\ reel' = [reel EXCEPT !.i = i + 1, !.started = TRUE]
  /\ IF k THEN ThePlayer!Adopt(c) ELSE UNCHANGED <<codec, still>>
  /\ LET this == [src |-> "clip", clip |-> clip, i |-> i]
         s == ThePlayer!Emit(IF k THEN ThePlayer!Prime(shown, c) ELSE shown, c, this)
     IN shown' = [s EXCEPT !.torn = @ \/ (ThePlayer!Emits(c) /\ ~k /\ shown.last # [this EXCEPT !.i = i - 1])]

\* It comes right after the one before it, or begins with a keyframe.
LEMMA Shown ==
  ASSUME PlayerInv, NEW clip \in Clips, NEW i \in Nat \ {0}, NEW k \in BOOLEAN, NEW c \in Codecs,
         reel.at = "play", playing, reel.clip = clip, reel.i = i, c = clip.codec,
         Plays(clip, i, k, c), UNCHANGED <<playing, waiting>>
  PROVE  PlayerInv'
<1> DEFINE this == [src |-> "clip", clip |-> clip, i |-> i]
           s == ThePlayer!Emit(IF k THEN ThePlayer!Prime(shown, c) ELSE shown, c, this)
<1>1. /\ k \/ reel.started
      /\ reel' = [reel EXCEPT !.i = i + 1, !.started = TRUE]
      /\ IF k THEN ThePlayer!Adopt(c) ELSE UNCHANGED <<codec, still>>
      /\ shown' = [s EXCEPT !.torn = s.torn \/ (ThePlayer!Emits(c) /\ ~k /\ shown.last # [this EXCEPT !.i = i - 1])]
  BY DEF Plays
<1>2. this \in Pictures
  BY DEF Pictures, Cuts
<1> HIDE DEF this
<1>3. /\ codec' \in Codecs \cup {""} /\ still' \in {"", codec'}
      /\ codec # "" => codec' = codec
      /\ k => codec' # ""
      /\ s \in Shows /\ ~s.torn /\ s.codecs \subseteq {codec'}
      /\ s.last = IF c = codec' THEN this ELSE shown.last
  <2>1. IF k THEN ThePlayer!Adopt(c) ELSE UNCHANGED <<codec, still>>
    BY <1>1
  <2>2. codec' \in Codecs \cup {""} /\ still' \in {"", codec'} /\ (codec # "" => codec' = codec) /\ (k => codec' # "")
    BY <1>2, <2>1, Fed
  <2>3. s \in Shows /\ ~s.torn /\ s.codecs \subseteq {codec'}
    BY <1>2, <2>1, Fed
  <2>4. s.last = IF c = codec' THEN this ELSE shown.last
    BY <1>2, <2>1, Fed
  <2> QED BY <2>2, <2>3, <2>4
<1> HIDE DEF s
<1>4. codec' # ""
  BY <1>1, <1>3 DEF PlayerInv
<1>5. (ThePlayer!Emits(c) /\ ~k /\ shown.last # [this EXCEPT !.i = i - 1]) = FALSE
  <2>1. SUFFICES ASSUME c = codec', ~k PROVE shown.last = [this EXCEPT !.i = i - 1]
    BY DEF ThePlayer!Emits
  <2>2. codec = clip.codec /\ reel.started
    BY <1>1, <1>3, <2>1 DEF PlayerInv
  <2>3. shown.last = [src |-> "clip", clip |-> clip, i |-> i - 1]
    BY <2>2 DEF PlayerInv
  <2> QED BY <2>3 DEF this
<1>6. shown' = [s EXCEPT !.torn = s.torn \/ FALSE]
  BY <1>1, <1>5
<1>7. shown' \in Shows /\ ~shown'.torn /\ shown'.codecs = s.codecs /\ shown'.last = s.last
  BY <1>3, <1>6 DEF Shows
<1>8. reel' \in Reels /\ reel'.started /\ reel'.at = "play" /\ reel'.clip = clip /\ reel'.i = i + 1
  <2>1. reel \in Reels
    BY DEF PlayerInv, PlayerTypes
  <2>2. i + 1 \in Nat
    OBVIOUS
  <2> QED BY <1>1, <2>1, <2>2 DEF Reels
<1>9. codec' = clip.codec => shown'.last = [src |-> "clip", clip |-> reel'.clip, i |-> reel'.i - 1]
  <2>1. reel'.clip = clip /\ reel'.i - 1 = i
    BY <1>8
  <2>2. codec' = c => shown'.last = this
    BY <1>3, <1>7
  <2> QED BY <2>1, <2>2 DEF this
<1>10. shown'.codecs \subseteq {codec'} /\ waiting' \in Seq(Clips) /\ reel'.i \in Nat \ {0} /\ playing'
  <2>1. waiting \in Seq(Clips)
    BY DEF PlayerInv, PlayerTypes
  <2>2. waiting' \in Seq(Clips)
    BY <2>1
  <2>3. shown'.codecs \subseteq {codec'}
    BY <1>3, <1>7
  <2>4. reel'.i \in Nat \ {0}
    BY <1>8
  <2> QED BY <2>2, <2>3, <2>4
<1> QED BY <1>3, <1>4, <1>7, <1>8, <1>9, <1>10 DEF PlayerInv, PlayerTypes

\* Each step of the goroutines keeps it.
LEMMA PlayerStep == ASSUME PlayerInv, [ThePlayer!Next]_playerVars PROVE PlayerInv'
<1>1. ASSUME UNCHANGED playerVars PROVE PlayerInv'
  BY <1>1 DEF playerVars, PlayerInv, PlayerTypes
<1>2. CASE ThePlayer!Live
  <2>1. UNCHANGED <<playing, waiting, reel>>
    BY <1>2 DEF ThePlayer!Live
  <2>2. CASE ThePlayer!Busy
    <3>1. UNCHANGED playerVars
      BY <1>2, <2>1, <2>2 DEF ThePlayer!Live, playerVars
    <3> QED BY <1>1, <3>1
  <2>3. CASE ~ThePlayer!Busy
    <3>1. reel.at # "play" /\ ~reel.started
      BY <2>3 DEF ThePlayer!Busy, PlayerInv
    <3> DEFINE what == [ThePlayer!Nothing EXCEPT !.src = "live"]
    <3> PICK key \in BOOLEAN, c \in Codecs :
          /\ IF key THEN ThePlayer!Adopt(c) ELSE UNCHANGED <<codec, still>>
          /\ shown' = [ThePlayer!Emit(IF key THEN ThePlayer!Prime(shown, c) ELSE shown, c, what)
                       EXCEPT !.foreign = ~ThePlayer!Emits(c)]
      BY <1>2, <2>3 DEF ThePlayer!Live
    <3>2. what \in Pictures
      BY DEF Pictures, ThePlayer!Nothing, Cuts
    <3> DEFINE s == ThePlayer!Emit(IF key THEN ThePlayer!Prime(shown, c) ELSE shown, c, what)
    <3>3. /\ codec' \in Codecs \cup {""} /\ still' \in {"", codec'}
          /\ s \in Shows /\ ~s.torn /\ s.codecs \subseteq {codec'}
      BY <3>2, Fed
    <3>4. shown' = [s EXCEPT !.foreign = ~ThePlayer!Emits(c)]
      OBVIOUS
    <3>5. shown' \in Shows /\ ~shown'.torn /\ shown'.codecs = s.codecs
      <4> HIDE DEF s
      <4> QED BY <3>3, <3>4 DEF Shows
    <3> QED BY <2>1, <3>1, <3>3, <3>5 DEF PlayerInv, PlayerTypes
  <2> QED BY <2>2, <2>3
<1>3. ASSUME NEW c \in Codecs, ThePlayer!Adopt(c), shown' = ThePlayer!Prime(shown, c),
             UNCHANGED <<playing, waiting>>, reel' = reel \/ (reel.at = "seed" /\ reel' = ThePlayer!Loop)
      PROVE  PlayerInv'
  <2>1. [ThePlayer!Nothing EXCEPT !.src = "still"] \in Pictures
    BY DEF Pictures, Cuts, ThePlayer!Nothing
  <2>2. /\ codec' \in Codecs /\ still' \in {"", codec'}
        /\ codec # "" => codec' = codec /\ shown' = shown
        /\ codec = "" => codec' = c
    BY <1>3 DEF PlayerInv, PlayerTypes, ThePlayer!Adopt, ThePlayer!Fits, ThePlayer!Prime
  <2>3. shown' \in Shows /\ ~shown'.torn /\ shown'.codecs \subseteq {codec'}
    <3>1. CASE codec # ""
      BY <2>2, <3>1 DEF PlayerInv, PlayerTypes
    <3>2. CASE codec = ""
      <4>1. shown.codecs = {}
        <5>1. shown.codecs \subseteq {""} /\ shown.codecs \subseteq Codecs
          BY <3>2 DEF PlayerInv, PlayerTypes, Shows
        <5> QED BY <5>1, PlayerAssumption
      <4> QED BY <1>3, <2>1, <2>2, <3>2, <4>1 DEF PlayerInv, PlayerTypes, Shows, ThePlayer!Prime, ThePlayer!Emit, ThePlayer!Emits
    <3> QED BY <3>1, <3>2
  <2>4. ThePlayer!Loop \in Reels /\ ThePlayer!Loop.at = "loop" /\ ~ThePlayer!Loop.started
    BY LoopReel
  <2>5. reel' = reel \/ reel' = ThePlayer!Loop
    BY <1>3
  <2>6. CASE reel' = reel
    <3>1. reel.started => codec' = codec /\ shown' = shown
      BY <2>2 DEF PlayerInv
    <3> QED BY <1>3, <2>2, <2>3, <2>6, <3>1 DEF PlayerInv, PlayerTypes
  <2>7. CASE reel' = ThePlayer!Loop
    BY <1>3, <2>2, <2>3, <2>4, <2>7 DEF PlayerInv, PlayerTypes
  <2> QED BY <2>5, <2>6, <2>7
<1>4. CASE ThePlayer!SeedFrame
  BY <1>3, <1>4 DEF ThePlayer!SeedFrame
<1>5. CASE ThePlayer!SeedClip
  <2>1. reel.clip \in Clips
    BY <1>5 DEF ThePlayer!SeedClip, PlayerInv
  <2>2. reel.clip.codec \in Codecs
    BY <2>1, ClipIs
  <2> QED BY <1>3, <1>5, <2>2 DEF ThePlayer!SeedClip
<1>6. CASE ThePlayer!Play
  <2>1. waiting' \in Seq(Clips)
    <3>1. waiting \in Seq(Clips)
      BY DEF PlayerInv, PlayerTypes
    <3> QED BY <1>6, <3>1 DEF ThePlayer!Play
  <2> QED BY <1>6, <2>1 DEF ThePlayer!Play, PlayerInv, PlayerTypes
<1>7. ASSUME NEW f \in BOOLEAN, NEW q \in BOOLEAN, shown' = [shown EXCEPT !.foreign = f, !.quiet = q],
             UNCHANGED <<codec, still, playing, waiting, reel>>
      PROVE  PlayerInv'
  <2>1. shown \in Shows
    BY DEF PlayerInv, PlayerTypes
  <2>2. shown' \in Shows /\ shown'.torn = shown.torn /\ shown'.codecs = shown.codecs /\ shown'.last = shown.last
    BY <1>7, <2>1 DEF Shows
  <2> QED BY <1>7, <2>2 DEF PlayerInv, PlayerTypes
<1>8. CASE ThePlayer!Expire \/ ThePlayer!Quiet
  <2>1. shown \in Shows
    BY DEF PlayerInv, PlayerTypes
  <2>2. /\ shown.foreign \in BOOLEAN /\ shown.quiet \in BOOLEAN
        /\ [shown EXCEPT !.foreign = FALSE] = [shown EXCEPT !.foreign = FALSE, !.quiet = shown.quiet]
        /\ [shown EXCEPT !.quiet = TRUE] = [shown EXCEPT !.foreign = shown.foreign, !.quiet = TRUE]
    BY <2>1 DEF Shows
  <2>3. CASE ThePlayer!Expire
    BY <1>7, <2>2, <2>3 DEF ThePlayer!Expire
  <2>4. CASE ThePlayer!Quiet
    BY <1>7, <2>2, <2>4 DEF ThePlayer!Quiet
  <2> QED BY <1>8, <2>3, <2>4
<1>9. CASE ThePlayer!Repeat
  <2>1. UNCHANGED <<codec, still, playing, waiting, reel>> /\ reel.at = "loop"
    BY <1>9 DEF ThePlayer!Repeat
  <2>2. [ThePlayer!Nothing EXCEPT !.src = "still"] \in Pictures
    BY DEF Pictures, Cuts, ThePlayer!Nothing
  <2>3. shown \in Shows /\ ~shown.torn /\ shown.codecs \subseteq {codec} /\ still \in {"", codec} /\ codec \in Codecs \cup {""}
    BY DEF PlayerInv, PlayerTypes
  <2>4. CASE ThePlayer!Due
    <3>1. /\ still = codec /\ codec \in Codecs
          /\ shown' = [shown EXCEPT !.last = [ThePlayer!Nothing EXCEPT !.src = "still"],
                                   !.codecs = @ \cup {still}, !.quiet = FALSE]
      BY <1>9, <2>3, <2>4 DEF ThePlayer!Repeat, ThePlayer!Due
    <3>2. shown' \in Shows /\ ~shown'.torn /\ shown'.codecs \subseteq {codec}
      BY <2>2, <2>3, <3>1 DEF Shows
    <3> QED BY <2>1, <3>2 DEF PlayerInv, PlayerTypes
  <2>5. CASE ~ThePlayer!Due
    BY <1>1, <1>9, <2>1, <2>5 DEF ThePlayer!Repeat, PlayerInv, PlayerTypes
  <2> QED BY <2>4, <2>5
<1>10. CASE ThePlayer!Take \/ ThePlayer!ClipEnds \/ ThePlayer!Check
  <2>1. reel \in Reels /\ waiting \in Seq(Clips)
    BY DEF PlayerInv, PlayerTypes
  <2>2. CASE ThePlayer!Take
    <3>1. /\ Head(waiting) \in Clips /\ waiting' = Tail(waiting) /\ waiting' \in Seq(Clips)
          /\ reel' \in {ThePlayer!Loop, [ThePlayer!Loop EXCEPT !.at = "check", !.clip = Head(waiting)]}
          /\ UNCHANGED <<codec, still, playing, recent, shown>>
      BY <2>1, <2>2 DEF ThePlayer!Take
    <3>2. /\ reel' \in Reels /\ ~reel'.started
          /\ reel'.at = "loop" \/ (reel'.at = "check" /\ reel'.clip \in Clips)
      BY <3>1, LoopReel DEF Reels, Cuts
    <3> QED BY <3>1, <3>2 DEF PlayerInv, PlayerTypes
  <2>3. CASE ThePlayer!ClipEnds
    BY <2>3, LoopReel DEF ThePlayer!ClipEnds, PlayerInv, PlayerTypes
  <2>4. CASE ThePlayer!Check
    <3>1. /\ UNCHANGED <<codec, still, waiting, shown>> /\ reel.clip \in Clips /\ ~reel.started
          /\ \/ reel' = [reel EXCEPT !.at = "play", !.i = 1] /\ playing' = TRUE
             \/ reel' = [reel EXCEPT !.at = "seed"]
      BY <2>4 DEF ThePlayer!Check, PlayerInv
    <3>2. CASE reel' = [reel EXCEPT !.at = "play", !.i = 1] /\ playing' = TRUE
      <4>1. reel' \in Reels /\ ~reel'.started /\ reel'.clip = reel.clip /\ reel'.at = "play" /\ reel'.i = 1
        BY <2>1, <3>1, <3>2 DEF Reels
      <4>2. playing'
        BY <3>2
      <4>3. UNCHANGED <<codec, still, waiting, shown>> /\ reel.clip \in Clips
        BY <3>1
      <4>4. /\ PlayerTypes'
            /\ ~shown'.torn /\ shown'.codecs \subseteq {codec'} /\ still' \in {"", codec'}
        BY <4>1, <4>3 DEF PlayerInv, PlayerTypes
      <4>5. reel'.i \in Nat \ {0}
        BY <4>1
      <4> QED BY <4>1, <4>2, <4>3, <4>4, <4>5 DEF PlayerInv
    <3>3. CASE reel' = [reel EXCEPT !.at = "seed"]
      <4>1. reel' \in Reels /\ ~reel'.started /\ reel'.clip = reel.clip /\ reel'.at = "seed"
        BY <2>1, <3>1, <3>3 DEF Reels
      <4> QED BY <3>1, <4>1 DEF PlayerInv, PlayerTypes
    <3> QED BY <3>1, <3>2, <3>3
  <2> QED BY <1>10, <2>2, <2>3, <2>4
<1>11. CASE ThePlayer!Sample
  <2> DEFINE k == reel.clip.keys[reel.i]
             clip == reel.clip
             c == clip.codec
             i == reel.i
  <2>1. /\ reel.at = "play" /\ clip \in Clips /\ i \in Nat /\ i # 0 /\ UNCHANGED <<playing, waiting>>
        /\ playing /\ reel \in Reels
    BY <1>11 DEF ThePlayer!Sample, PlayerInv, PlayerTypes
  <2>2. c \in Codecs /\ k \in BOOLEAN
    <3>1. c \in Codecs /\ clip.keys \in Seq(BOOLEAN)
      BY <2>1, ClipIs
    <3>2. i <= Len(clip.keys)
      BY <1>11 DEF ThePlayer!Sample
    <3> QED BY <2>1, <3>1, <3>2
  <2>3. \/ ~reel.started /\ reel' = [reel EXCEPT !.i = i + 1] /\ UNCHANGED <<codec, still, shown>>
        \/ Plays(clip, i, k, c)
    BY <1>11 DEF ThePlayer!Sample, ThePlayer!Skips, Plays
  <2> HIDE DEF k, c, clip, i
  <2>4. CASE ~reel.started /\ reel' = [reel EXCEPT !.i = i + 1] /\ UNCHANGED <<codec, still, shown>>
    <3>1. reel' \in Reels /\ ~reel'.started /\ reel'.clip = reel.clip /\ reel'.i \in Nat \ {0} /\ reel'.at = "play"
      BY <2>1, <2>4 DEF Reels
    <3> QED BY <2>1, <2>4, <3>1 DEF PlayerInv, PlayerTypes, clip
  <2>5. CASE Plays(clip, i, k, c)
    BY <2>1, <2>2, <2>5, Shown DEF clip, i, c
  <2> QED BY <2>3, <2>4, <2>5
<1> QED BY <1>1, <1>2, <1>4, <1>5, <1>6, <1>7, <1>8, <1>9, <1>10, <1>11 DEF ThePlayer!Next

\* It begins with nothing shown and no codec.
LEMMA PlayerInit == ThePlayer!Init => PlayerInv
<1> SUFFICES ASSUME ThePlayer!Init PROVE PlayerInv
  OBVIOUS
<1>1. ThePlayer!Nothing \in Pictures
  BY DEF ThePlayer!Nothing, Pictures, Cuts
<1>2. shown \in Shows /\ ~shown.torn /\ shown.codecs = {}
  BY <1>1 DEF ThePlayer!Init, Shows
<1>3. waiting = <<>> /\ reel = ThePlayer!Loop /\ codec = "" /\ still = ""
  BY DEF ThePlayer!Init
<1>4. <<>> \in Seq(Clips)
  OBVIOUS
<1> QED BY <1>2, <1>3, <1>4, LoopReel DEF PlayerInv, PlayerTypes

\* What it says of what a recorder is given.
LEMMA PlayerWhole == PlayerInv => ThePlayer!ClipWhole
  BY DEF PlayerInv, ThePlayer!ClipWhole

-----------------------------------------------------------------------------
(* The session. *)

Videos == TheSession!Video
None0 == TheSession!Nothing
Packets == Videos \cup TheSession!Others
Runs == [waitKey : BOOLEAN, mux : {"none", "new", "tables"}, video : BOOLEAN, fresh : BOOLEAN, info : BOOLEAN,
         last : Videos \cup {None0}, turned : BOOLEAN, torn : BOOLEAN]

\* What is published goes on from where the camera is: all of what came is out,
\* or a keyframe is waited for.
Published(s, at) == s.mux = "tables" /\ ~s.waitKey => s.last = at

\* The camera is amid f: all before it is out.
Amid(s, at, f) ==
  /\ TheSession!IsVideo(f) => at = f
  /\ s.mux = "tables" /\ ~s.waitKey =>
       (f.kind = "P" => s.last = TheSession!Follows(f)) /\ (~TheSession!IsVideo(f) => s.last = at)

\* The stream is turned for a reason it has, and where there is one to be seen.
Rightly(t) ==
  /\ t => TheSession!Asks
  /\ TheSession!Asks /\ (cfg.turn = "camera" => cfg.readable) => t

\* No frame went out torn off, and the stream is turned rightly since a keyframe.
Sound(s) == s \in Runs /\ s.torn = FALSE /\ (s.mux = "tables" => Rightly(s.turned))

\* A frame is a keyframe, one that refers to another, or no picture.
LEMMA VideoIs ==
  ASSUME SessionAssumption, NEW f \in Videos
  PROVE  /\ f.kind \in {"I", "P"} /\ f # None0 /\ TheSession!IsVideo(f) /\ f \in Packets
         /\ f.gop \in Int /\ f.pos \in Int
         /\ f.kind = "I" => f = TheSession!I(f.gop) /\ f.pos = 0
         /\ f.kind = "P" => f = TheSession!P(f.gop, f.pos) /\ f.pos \in 1 .. MaxPos
         /\ f.gop \in 0 .. Groups - 1
  BY DEF SessionAssumption, Videos, Packets, None0, TheSession!Video, TheSession!I, TheSession!P, TheSession!Nothing,
         TheSession!IsVideo

\* Sound and size are no picture.
LEMMA OtherIs ==
  ASSUME NEW f \in TheSession!Others
  PROVE  f.kind \in {"Audio", "Info"} /\ ~TheSession!IsVideo(f) /\ f # None0 /\ f \notin Videos /\ f \in Packets
  BY DEF Videos, Packets, None0, TheSession!Video, TheSession!I, TheSession!P, TheSession!Nothing,
         TheSession!IsVideo, TheSession!Others, TheSession!Other

\* What comes next goes on from where the camera is.
LEMMA Next0 ==
  ASSUME SessionAssumption, NEW at \in Videos, NEW f \in TheSession!After(at)
  PROVE  /\ f \in Packets
         /\ TheSession!Onward(at, f) \in Videos
         /\ TheSession!IsVideo(f) => TheSession!Onward(at, f) = f
         /\ ~TheSession!IsVideo(f) => TheSession!Onward(at, f) = at
         /\ f.kind = "P" => at = TheSession!Follows(f)
<1>1. CASE f \in TheSession!Others
  BY <1>1, OtherIs DEF TheSession!Onward
<1>2. CASE f = TheSession!I((at.gop + 1) % Groups)
  <2>1. at.gop \in 0 .. Groups - 1 /\ Groups \in Nat \ {0}
    BY VideoIs DEF SessionAssumption
  <2>2. (at.gop + 1) % Groups \in 0 .. Groups - 1
    BY <2>1
  <2>3. f \in Videos
    BY <1>2, <2>2 DEF Videos, TheSession!Video
  <2> QED BY <1>2, <2>3, VideoIs DEF TheSession!Onward, TheSession!I
<1>3. CASE at.pos < MaxPos /\ f = TheSession!P(at.gop, at.pos + 1)
  <2>1. at.gop \in 0 .. Groups - 1 /\ at.pos \in 0 .. MaxPos - 1 /\ MaxPos \in Nat
    BY <1>3, VideoIs DEF SessionAssumption
  <2>2. f \in Videos
    BY <1>3, <2>1 DEF Videos, TheSession!Video
  <2>3. at = TheSession!Follows(f)
    <3>1. f.pos = at.pos + 1 /\ f.gop = at.gop
      BY <1>3 DEF TheSession!P
    <3>2. CASE at.kind = "I"
      BY <3>1, <3>2, VideoIs DEF TheSession!Follows
    <3>3. CASE at.kind = "P"
      <4>1. at = TheSession!P(at.gop, at.pos) /\ at.pos # 0
        BY <3>3, VideoIs
      <4>2. f.pos # 1 /\ f.pos - 1 = at.pos
        BY <2>1, <3>1, <4>1
      <4> QED BY <3>1, <4>1, <4>2 DEF TheSession!Follows
    <3> QED BY <3>2, <3>3, VideoIs
  <2> QED BY <2>2, <2>3, VideoIs DEF TheSession!Onward
<1> QED BY <1>1, <1>2, <1>3 DEF TheSession!After

\* A frame that is handled leaves what is published where the camera is.
LEMMA Handled ==
  ASSUME SessionAssumption, NEW s, Sound(s), NEW f \in Packets, NEW at \in Videos, Amid(s, at, f)
  PROVE  Sound(TheSession!Handle(s, f)) /\ Published(TheSession!Handle(s, f), at)
<1> DEFINE h == TheSession!Handle(s, f)
<1>1. CASE f \in TheSession!Others
  <2>1. f.kind \in {"Audio", "Info"} /\ ~TheSession!IsVideo(f)
    BY <1>1, OtherIs
  <2>2. h = s \/ h = [s EXCEPT !.info = TRUE]
    BY <2>1 DEF TheSession!Handle
  <2>3. h \in Runs /\ h.mux = s.mux /\ h.waitKey = s.waitKey /\ h.last = s.last /\ h.torn = s.torn /\ h.turned = s.turned
    BY <2>2 DEF Sound, Runs
  <2> HIDE DEF h
  <2>4. Sound(h)
    BY <2>3 DEF Sound
  <2>5. Published(h, at)
    BY <2>1, <2>3 DEF Published, Amid
  <2> QED BY <2>4, <2>5 DEF h
<1>2. CASE f \in Videos /\ s.waitKey /\ f.kind = "P"
  BY <1>2 DEF TheSession!Handle, Published
<1>3. CASE f \in Videos /\ ~(s.waitKey /\ f.kind = "P")
  <2> DEFINE made == IF s.mux = "none" THEN [s EXCEPT !.mux = "new"] ELSE s
             seen == [made EXCEPT !.video = TRUE, !.fresh = TRUE]
             turn == TheSession!Turned(seen)
  <2>1. f.kind \in {"I", "P"} /\ at = f
    BY <1>3, VideoIs DEF Amid
  <2>2. /\ made \in Runs /\ made.torn = FALSE /\ made.turned = s.turned /\ made.last = s.last
        /\ made.waitKey = s.waitKey
        /\ made.mux = "tables" => s.mux = "tables"
    BY DEF Sound, Runs
  <2> HIDE DEF made
  <2>3. /\ seen \in Runs /\ seen.torn = FALSE /\ seen.turned = s.turned /\ seen.last = s.last
        /\ seen.waitKey = s.waitKey
        /\ seen.mux = "tables" => s.mux = "tables"
    BY <2>2 DEF Runs
  <2>4. turn \in BOOLEAN /\ Rightly(turn)
    BY DEF TheSession!Turned, Rightly, TheSession!Asks
  <2>5. CASE f.kind = "I"
    <3>1. h = TheSession!Publish([seen EXCEPT !.waitKey = FALSE, !.turned = turn], f)
      BY <2>5 DEF TheSession!Handle, TheSession!VideoFrame, TheSession!SetRotate, made
    <3> HIDE DEF turn, seen
    <3> DEFINE q == [seen EXCEPT !.waitKey = FALSE, !.turned = turn]
    <3>2. q \in Runs /\ q.torn = FALSE /\ q.turned = turn
      BY <2>3, <2>4 DEF Runs
    <3> HIDE DEF q
    <3>3. h = [q EXCEPT !.mux = "tables", !.last = f, !.torn = q.torn \/ FALSE]
      <4>1. (f.kind = "P" /\ q.last # TheSession!Follows(f)) = FALSE
        BY <2>5
      <4> QED BY <2>5, <3>1, <4>1 DEF TheSession!Publish, q
    <3>4. h \in Runs /\ h.torn = FALSE /\ h.turned = turn /\ h.last = f
      <4> HIDE DEF h
      <4> QED BY <1>3, <3>2, <3>3 DEF Runs
    <3> HIDE DEF h
    <3> QED BY <2>1, <2>4, <3>4 DEF Sound, Published, h
  <2>6. CASE f.kind = "P"
    <3>1. ~s.waitKey /\ h = TheSession!Publish(seen, f)
      BY <1>3, <2>6 DEF TheSession!Handle, TheSession!VideoFrame, made
    <3> HIDE DEF seen
    <3>2. CASE seen.mux = "tables"
      <4>1. s.last = TheSession!Follows(f)
        BY <2>3, <2>6, <3>1, <3>2 DEF Amid
      <4>2. (f.kind = "P" /\ seen.last # TheSession!Follows(f)) = FALSE
        BY <2>3, <4>1
      <4>3. h = [seen EXCEPT !.mux = "tables", !.last = f, !.torn = seen.torn \/ FALSE]
        BY <3>1, <3>2, <4>2 DEF TheSession!Publish
      <4> HIDE DEF h
      <4>4. h \in Runs /\ h.torn = FALSE /\ h.turned = s.turned /\ h.last = f /\ s.mux = "tables"
        BY <1>3, <2>3, <3>2, <4>3 DEF Runs
      <4>5. Sound(h) /\ Published(h, at)
        BY <2>1, <4>4 DEF Sound, Published
      <4> QED BY <4>5 DEF h
    <3>3. CASE seen.mux # "tables"
      <4>1. h = seen
        BY <2>6, <3>1, <3>3 DEF TheSession!Publish
      <4> HIDE DEF h
      <4>2. Sound(h) /\ Published(h, at)
        BY <2>3, <3>3, <4>1 DEF Sound, Published
      <4> QED BY <4>2 DEF h
    <3> QED BY <3>2, <3>3
  <2> QED BY <2>1, <2>5, <2>6
<1> QED BY <1>1, <1>2, <1>3 DEF Packets

\* What the loop over Next works on.
State(s, b) == [s |-> s, left |-> b]

\* One unit before another.
LEMMA JoinTwo == ASSUME NEW x, NEW y PROVE <<x>> \o <<y>> = <<x, y>>
<1> DEFINE S == {x, y}
           s == <<x>> \o <<y>>
           t == <<x, y>>
<1>1. <<x>> \in Seq(S) /\ <<y>> \in Seq(S)  /\ t \in Seq(S) /\ Len(t) = 2 /\ t[1] = x /\ t[2] = y
  OBVIOUS
<1>2. s \in Seq(S) /\ Len(s) = 2 /\ s[1] = x /\ s[2] = y
  BY <1>1
<1> HIDE DEF s, t
<1>3. \A i \in 1 .. Len(s) : s[i] = t[i]
  BY <1>1, <1>2
<1>4. s = t
  BY <1>1, <1>2, <1>3, SeqEqual
<1> QED BY <1>4 DEF s, t

\* One unit before two.
LEMMA JoinThree == ASSUME NEW x, NEW y, NEW z PROVE <<x>> \o <<y, z>> = <<x, y, z>>
<1> DEFINE S == {x, y, z}
           s == <<x>> \o <<y, z>>
           t == <<x, y, z>>
<1>1. <<x>> \in Seq(S) /\ <<y, z>> \in Seq(S)  /\ t \in Seq(S) /\ Len(t) = 3 /\ t[1] = x /\ t[2] = y /\ t[3] = z
  OBVIOUS
<1>2. s \in Seq(S) /\ Len(s) = 3 /\ s[1] = x /\ s[2] = y /\ s[3] = z
  BY <1>1
<1> HIDE DEF s, t
<1>3. \A i \in 1 .. Len(s) : s[i] = t[i]
  BY <1>1, <1>2
<1>4. s = t
  BY <1>1, <1>2, <1>3, SeqEqual
<1> QED BY <1>4 DEF s, t

\* An empty buffer has no packet.
LEMMA NoPacket == TheSession!NextPacket(<<>>) = [got |-> <<>>, left |-> <<>>]
<1> DEFINE b == IF <<>> # <<>> /\ Head(<<>>).is = "pad" /\ Len(<<>>) > 1 /\ <<>>[2].is \in {"whole", "head"}
                THEN Tail(<<>>) ELSE <<>>
           one == b # <<>> /\ Head(b).is = "whole"
           two == Len(b) > 1 /\ Head(b).is = "head" /\ b[2] = TheSession!TailOf(Head(b).f)
           x == [got |-> <<Head(b).f>>, left |-> Tail(b)]
           y == [got |-> <<Head(b).f>>, left |-> Tail(Tail(b))]
           z == [got |-> <<>>, left |-> b]
<1>1. b = <<>>
  BY Zenon
<1> HIDE DEF b
<1>2. ~one /\ ~two
  <2>1. (Len(<<>>) > 1) = FALSE
    OBVIOUS
  <2> QED BY <1>1, <2>1, Zenon
<1> HIDE DEF one, two, x, y, z
<1>3. (CASE one -> x [] two -> y [] OTHER -> z) = z
  BY <1>2, SMT
<1>4. z = [got |-> <<>>, left |-> <<>>]
  BY <1>1 DEF z
<1> QED BY <1>3, <1>4, Zenon DEF one, two, x, y, z, b, TheSession!NextPacket

\* A turn over what it does nothing with.
LEMMA TurnsOver ==
  ASSUME NEW s, NEW f
  PROVE  /\ TheSession!Turn(State(s, <<>>)) = State(s, <<>>)
         /\ TheSession!Turn(State(s, <<TheSession!Filler>>)) = State(s, <<TheSession!Filler>>)
         /\ TheSession!Turn(State(s, <<TheSession!HeadOf(f)>>)) = State(s, <<TheSession!HeadOf(f)>>)
         /\ TheSession!Turn(State(s, <<TheSession!TailOf(f)>>)) = State(s, <<TheSession!TailOf(f)>>)
         /\ TheSession!Turn(State(s, <<TheSession!TailOf(f), TheSession!Filler>>))
              = State(s, <<TheSession!TailOf(f), TheSession!Filler>>)
<1> DEFINE H == TheSession!HeadOf(f)
           T1 == TheSession!TailOf(f)
           Q == TheSession!Filler
           Same(b) == TheSession!Turn(State(s, b)) = State(s, b)
<1>1. Same(<<>>)
  BY NoPacket DEF TheSession!Turn, State
<1>2. /\ H.is = "head" /\ T1.is = "tail" /\ Q.is = "filler"
  BY DEF TheSession!HeadOf, TheSession!TailOf, TheSession!Filler, TheSession!Unit
<1> HIDE DEF H, T1, Q
<1>3. ASSUME NEW b, TheSession!NextPacket(b) = [got |-> <<>>, left |-> b] PROVE Same(b)
  BY <1>3 DEF TheSession!Turn, State
<1>4. TheSession!NextPacket(<<Q>>) = [got |-> <<>>, left |-> <<Q>>]
  BY <1>2 DEF TheSession!NextPacket
<1>5. TheSession!NextPacket(<<H>>) = [got |-> <<>>, left |-> <<H>>]
  BY <1>2 DEF TheSession!NextPacket
<1>6. TheSession!NextPacket(<<T1>>) = [got |-> <<>>, left |-> <<T1>>]
  BY <1>2 DEF TheSession!NextPacket
<1>7. TheSession!NextPacket(<<T1, Q>>) = [got |-> <<>>, left |-> <<T1, Q>>]
  BY <1>2 DEF TheSession!NextPacket
<1>8. Same(<<>>) /\ Same(<<Q>>) /\ Same(<<H>>) /\ Same(<<T1>>) /\ Same(<<T1, Q>>)
  BY <1>1, <1>3, <1>4, <1>5, <1>6, <1>7
<1> QED BY <1>8 DEF H, T1, Q

\* A turn that finds a packet.
LEMMA TurnTakes ==
  ASSUME NEW s, NEW f, NEW g
  PROVE  LET h == TheSession!Handle(s, f)
             F == TheSession!Whole(f)
             G == TheSession!Whole(g)
             H == TheSession!HeadOf(g)
             P0 == TheSession!Pad
             Q == TheSession!Filler
         IN /\ TheSession!Turn(State(s, <<F>>)) = State(h, <<>>)
            /\ TheSession!Turn(State(s, <<F, Q>>)) = State(h, <<Q>>)
            /\ TheSession!Turn(State(s, <<P0, F>>)) = State(h, <<>>)
            /\ TheSession!Turn(State(s, <<P0, H>>)) = State(s, <<H>>)
            /\ TheSession!Turn(State(s, <<TheSession!HeadOf(f), TheSession!TailOf(f)>>)) = State(h, <<>>)
            /\ TheSession!Turn(State(s, <<TheSession!HeadOf(f), TheSession!TailOf(f), Q>>)) = State(h, <<Q>>)
<1> DEFINE h == TheSession!Handle(s, f)
           F == TheSession!Whole(f)
           G == TheSession!Whole(g)
           H == TheSession!HeadOf(g)
           H1 == TheSession!HeadOf(f)
           T1 == TheSession!TailOf(f)
           P0 == TheSession!Pad
           Q == TheSession!Filler
<1> HIDE DEF h
<1>0. /\ F.is = "whole" /\ F.f = f /\ G.is = "whole" /\ G.f = g /\ H.is = "head" /\ H1.is = "head" /\ H1.f = f
      /\ P0.is = "pad" /\ T1 = TheSession!TailOf(H1.f)
  BY DEF TheSession!Whole, TheSession!HeadOf, TheSession!TailOf, TheSession!Pad, TheSession!Unit
<1> HIDE DEF F, G, H, H1, T1, P0, Q
<1>1. ASSUME NEW b, NEW left, TheSession!NextPacket(b) = [got |-> <<f>>, left |-> left]
      PROVE  TheSession!Turn(State(s, b)) = State(h, left)
  BY <1>1 DEF TheSession!Turn, State, h
<1>2. TheSession!NextPacket(<<F>>) = [got |-> <<f>>, left |-> <<>>]
  BY <1>0 DEF TheSession!NextPacket
<1>3. TheSession!NextPacket(<<F, Q>>) = [got |-> <<f>>, left |-> <<Q>>]
  BY <1>0 DEF TheSession!NextPacket
<1>6. TheSession!NextPacket(<<P0, F>>) = [got |-> <<f>>, left |-> <<>>]
  BY <1>0 DEF TheSession!NextPacket
<1>7. TheSession!NextPacket(<<H1, T1>>) = [got |-> <<f>>, left |-> <<>>]
  BY <1>0 DEF TheSession!NextPacket
<1>8. TheSession!NextPacket(<<H1, T1, Q>>) = [got |-> <<f>>, left |-> <<Q>>]
  BY <1>0 DEF TheSession!NextPacket
<1>9. TheSession!Turn(State(s, <<P0, H>>)) = State(s, <<H>>)
  <2>1. TheSession!NextPacket(<<P0, H>>) = [got |-> <<>>, left |-> <<H>>]
    BY <1>0 DEF TheSession!NextPacket
  <2> QED BY <2>1 DEF TheSession!Turn, State
<1>10. /\ TheSession!Turn(State(s, <<F>>)) = State(h, <<>>)
       /\ TheSession!Turn(State(s, <<F, Q>>)) = State(h, <<Q>>)
       /\ TheSession!Turn(State(s, <<P0, F>>)) = State(h, <<>>)
       /\ TheSession!Turn(State(s, <<H1, T1>>)) = State(h, <<>>)
       /\ TheSession!Turn(State(s, <<H1, T1, Q>>)) = State(h, <<Q>>)
  BY <1>1, <1>2, <1>3, <1>6, <1>7, <1>8
<1> QED BY <1>9, <1>10 DEF h, F, G, H, H1, T1, P0, Q

\* A turn over a packet with another behind it.
LEMMA TurnPads ==
  ASSUME NEW s, NEW f, NEW x
  PROVE  TheSession!Turn(State(s, <<TheSession!Whole(f), TheSession!Pad, x>>))
           = State(TheSession!Handle(s, f), <<TheSession!Pad, x>>)
<1> DEFINE F == TheSession!Whole(f)
           P0 == TheSession!Pad
<1>1. F.is = "whole" /\ F.f = f
  BY DEF TheSession!Whole, TheSession!Unit
<1> HIDE DEF F, P0
<1>2. TheSession!NextPacket(<<F, P0, x>>) = [got |-> <<f>>, left |-> <<P0, x>>]
  BY <1>1 DEF TheSession!NextPacket
<1>3. TheSession!Turn(State(s, <<F, P0, x>>)) = State(TheSession!Handle(s, f), <<P0, x>>)
  BY <1>2 DEF TheSession!Turn, State
<1> QED BY <1>3 DEF F, P0

\* What comes of a message that brings a packet, or ends one.
LEMMA Drained ==
  ASSUME NEW s, NEW f
  PROVE  LET h == TheSession!Handle(s, f)
             F == TheSession!Whole(f)
             H == TheSession!HeadOf(f)
             T1 == TheSession!TailOf(f)
             Q == TheSession!Filler
         IN /\ TheSession!Drain(s, <<F>>) = State(h, <<>>)
            /\ TheSession!Drain(s, <<F, Q>>) = State(h, <<Q>>)
            /\ TheSession!Drain(s, <<H>>) = State(s, <<H>>)
            /\ TheSession!Drain(s, <<H, T1>>) = State(h, <<>>)
            /\ TheSession!Drain(s, <<H, T1, Q>>) = State(h, <<Q>>)
            /\ TheSession!Drain(s, <<T1>>) = State(s, <<T1>>)
            /\ TheSession!Drain(s, <<T1, Q>>) = State(s, <<T1, Q>>)
<1> DEFINE h == TheSession!Handle(s, f)
           F == TheSession!Whole(f)
           H == TheSession!HeadOf(f)
           T1 == TheSession!TailOf(f)
           Q == TheSession!Filler
<1>1. \A b : TheSession!Drain(s, b) = TheSession!Turn(TheSession!Turn(TheSession!Turn(State(s, b))))
  BY DEF TheSession!Drain, State
<1>2. \A z : /\ TheSession!Turn(State(z, <<>>)) = State(z, <<>>)
             /\ TheSession!Turn(State(z, <<Q>>)) = State(z, <<Q>>)
             /\ TheSession!Turn(State(z, <<H>>)) = State(z, <<H>>)
             /\ TheSession!Turn(State(z, <<T1>>)) = State(z, <<T1>>)
             /\ TheSession!Turn(State(z, <<T1, Q>>)) = State(z, <<T1, Q>>)
  BY TurnsOver
<1>3. TheSession!Turn(State(s, <<F>>)) = State(h, <<>>)
  BY TurnTakes, Zenon
<1>4. TheSession!Turn(State(s, <<F, Q>>)) = State(h, <<Q>>)
  BY TurnTakes, Zenon
<1>5. TheSession!Turn(State(s, <<H, T1>>)) = State(h, <<>>)
  BY TurnTakes, Zenon
<1>6. TheSession!Turn(State(s, <<H, T1, Q>>)) = State(h, <<Q>>)
  BY TurnTakes, Zenon
<1> HIDE DEF h, F, H, T1, Q
<1>7. /\ TheSession!Drain(s, <<F>>) = State(h, <<>>)
      /\ TheSession!Drain(s, <<F, Q>>) = State(h, <<Q>>)
      /\ TheSession!Drain(s, <<H>>) = State(s, <<H>>)
  BY <1>1, <1>2, <1>3, <1>4, Zenon
<1>8. /\ TheSession!Drain(s, <<H, T1>>) = State(h, <<>>)
      /\ TheSession!Drain(s, <<H, T1, Q>>) = State(h, <<Q>>)
      /\ TheSession!Drain(s, <<T1>>) = State(s, <<T1>>)
      /\ TheSession!Drain(s, <<T1, Q>>) = State(s, <<T1, Q>>)
  BY <1>1, <1>2, <1>5, <1>6, Zenon
<1> QED BY <1>7, <1>8 DEF h, F, H, T1, Q

\* What comes of one that has several, the last of them whole or not.
LEMMA DrainedTwo ==
  ASSUME NEW s, NEW f, NEW g
  PROVE  LET h == TheSession!Handle(s, f)
             F == TheSession!Whole(f)
         IN /\ TheSession!Drain(s, <<F, TheSession!Pad, TheSession!Whole(g)>>) = State(TheSession!Handle(h, g), <<>>)
            /\ TheSession!Drain(s, <<F, TheSession!Pad, TheSession!HeadOf(g)>>) = State(h, <<TheSession!HeadOf(g)>>)
<1> DEFINE h == TheSession!Handle(s, f)
           h2 == TheSession!Handle(h, g)
           F == TheSession!Whole(f)
           G == TheSession!Whole(g)
           H == TheSession!HeadOf(g)
           P0 == TheSession!Pad
<1>1. \A b : TheSession!Drain(s, b) = TheSession!Turn(TheSession!Turn(TheSession!Turn(State(s, b))))
  BY DEF TheSession!Drain, State
<1>2. \A z : /\ TheSession!Turn(State(z, <<>>)) = State(z, <<>>)
             /\ TheSession!Turn(State(z, <<H>>)) = State(z, <<H>>)
  BY TurnsOver
<1>3. \A x : TheSession!Turn(State(s, <<F, P0, x>>)) = State(h, <<P0, x>>)
  BY TurnPads
<1>4. TheSession!Turn(State(h, <<P0, G>>)) = State(h2, <<>>)
  BY TurnTakes, Zenon
<1>5. TheSession!Turn(State(h, <<P0, H>>)) = State(h, <<H>>)
  BY TurnTakes, Zenon
<1> HIDE DEF h, h2, F, G, H, P0
<1>6. TheSession!Drain(s, <<F, P0, G>>) = State(h2, <<>>)
  BY <1>1, <1>2, <1>3, <1>4, Zenon
<1>7. TheSession!Drain(s, <<F, P0, H>>) = State(h, <<H>>)
  BY <1>1, <1>2, <1>3, <1>5, Zenon
<1> QED BY <1>6, <1>7 DEF h, h2, F, G, H, P0

\* What a message is: whole packets, the start of one, or the end of the one
\* the camera is amid.
Sent(m, at, rest) ==
  \/ m.start /\ \E f \in TheSession!After(at) :
       LET F == TheSession!Whole(f)
           now == TheSession!Onward(at, f)
       IN \/ /\ m.units \in {<<F>>, <<F, TheSession!Filler>>}
             /\ m.camera = [at |-> now, rest |-> None0]
          \/ m.units = <<TheSession!HeadOf(f)>> /\ m.camera = [at |-> now, rest |-> f]
          \/ \E g \in TheSession!After(now) :
               \/ /\ m.units = <<F, TheSession!Pad, TheSession!Whole(g)>>
                  /\ m.camera = [at |-> TheSession!Onward(now, g), rest |-> None0]
               \/ /\ m.units = <<F, TheSession!Pad, TheSession!HeadOf(g)>>
                  /\ m.camera = [at |-> TheSession!Onward(now, g), rest |-> g]
  \/ /\ ~m.start /\ rest # None0
     /\ m.units \in {<<TheSession!TailOf(rest)>>, <<TheSession!TailOf(rest), TheSession!Filler>>}
     /\ m.camera = [at |-> at, rest |-> None0]

\* The messages of a camera are of these.
LEMMA MessageIs ==
  ASSUME NEW c \in [at : Videos, rest : Packets \cup {None0}], NEW m \in TheSession!Messages[c]
  PROVE  Sent(m, c.at, c.rest)
<1> DEFINE at == c.at
           Says(start, units, now, rest) == [start |-> start, units |-> units, camera |-> [at |-> now, rest |-> rest]]
           One(f) == {Says(TRUE, <<TheSession!Whole(f)>>, TheSession!Onward(at, f), None0),
                      Says(TRUE, <<TheSession!Whole(f), TheSession!Filler>>, TheSession!Onward(at, f), None0),
                      Says(TRUE, <<TheSession!HeadOf(f)>>, TheSession!Onward(at, f), f)}
           Two(f, g) == {Says(TRUE, <<TheSession!Whole(f), TheSession!Pad, TheSession!Whole(g)>>,
                              TheSession!Onward(TheSession!Onward(at, f), g), None0),
                         Says(TRUE, <<TheSession!Whole(f), TheSession!Pad, TheSession!HeadOf(g)>>,
                              TheSession!Onward(TheSession!Onward(at, f), g), g)}
           Ended == {Says(FALSE, <<TheSession!TailOf(c.rest)>>, at, None0),
                     Says(FALSE, <<TheSession!TailOf(c.rest), TheSession!Filler>>, at, None0)}
           A == UNION {One(f) : f \in TheSession!After(at)}
           B == UNION {UNION {Two(f, g) : g \in TheSession!After(TheSession!Onward(at, f))} : f \in TheSession!After(at)}
<1>1. TheSession!Messages[c] = (A \cup B) \cup (IF c.rest = None0 THEN {} ELSE Ended)
  <2>1. c \in [at : TheSession!Video, rest : TheSession!Video \cup TheSession!Others \cup {TheSession!Nothing}]
    BY DEF Packets, Videos, None0
  <2> QED BY <2>1, Zenon DEF TheSession!Messages, None0, One, Two, Ended, Says
<1> HIDE DEF One, Two, Ended
<1>2. \/ \E f \in TheSession!After(at) : m \in One(f)
      \/ \E f \in TheSession!After(at) : \E g \in TheSession!After(TheSession!Onward(at, f)) : m \in Two(f, g)
      \/ c.rest # None0 /\ m \in Ended
  <2>1. m \in A \/ m \in B \/ (c.rest # None0 /\ m \in Ended)
    <3> HIDE DEF A, B
    <3> QED BY <1>1
  <2>2. m \in A => \E f \in TheSession!After(at) : m \in One(f)
    OBVIOUS
  <2>3. m \in B => \E f \in TheSession!After(at) : \E g \in TheSession!After(TheSession!Onward(at, f)) : m \in Two(f, g)
    OBVIOUS
  <2> HIDE DEF A, B
  <2> QED BY <2>1, <2>2, <2>3, Zenon
<1>3. ASSUME NEW f \in TheSession!After(at), m \in One(f) PROVE Sent(m, at, c.rest)
  BY <1>3 DEF One, Sent
<1>4. ASSUME NEW f \in TheSession!After(at), NEW g \in TheSession!After(TheSession!Onward(at, f)), m \in Two(f, g)
      PROVE  Sent(m, at, c.rest)
  BY <1>4 DEF Two, Sent
<1>5. ASSUME c.rest # None0, m \in Ended PROVE Sent(m, at, c.rest)
  BY <1>5 DEF Ended, Sent
<1> QED BY <1>2, <1>3, <1>4, <1>5

-----------------------------------------------------------------------------
\* What the buffer has is the head of the packet the camera is amid, or is
\* thrown away when the next packet starts; and all before it is published,
\* unless a keyframe is waited for.
SessTypes ==
  /\ cfg \in Streams /\ rtsp \in BOOLEAN /\ phase \in {"down", "run", "native"}
  /\ camera \in [at : Videos, rest : Packets \cup {None0}]
  /\ frames \in Seq(Videos) /\ Len(frames) <= Frames
  /\ clock \in [media : 0 .. MediaTimeout, quiet : 0 .. IdleTimeout]

InStep(c, b, s) ==
  /\ c.rest = None0 => Published(s, c.at) /\ (b = <<>> \/ Head(b).is # "head")
  /\ c.rest # None0 => /\ Amid(s, c.at, c.rest)
                       /\ b = <<TheSession!HeadOf(c.rest)>> \/ (b = <<>> /\ s.mux = "none")

\* Only a zoom lens is taken over RTSP, and then never again over Baichuan: no
\* frame went out torn off before.
Taken ==
  /\ run \in Runs /\ (rtsp => cfg.zoom)
  /\ ~ rtsp => run.torn = FALSE

SessInv ==
  /\ SessTypes /\ Taken
  /\ phase = "down" => buf = <<>> /\ run.mux = "none"
  /\ phase = "native" => buf = <<>> /\ rtsp
  /\ phase = "run" => ~ rtsp /\ Sound(run) /\ InStep(camera, buf, run)

\* What comes next, when all before it is out, is waited for or handled.
LEMMA Onwards ==
  ASSUME SessionAssumption, NEW y, Sound(y), NEW at \in Videos, Published(y, at), NEW f \in TheSession!After(at)
  PROVE  LET now == TheSession!Onward(at, f)
         IN  /\ now \in Videos /\ f \in Packets \ {None0} /\ Amid(y, now, f)
             /\ Sound(TheSession!Handle(y, f)) /\ Published(TheSession!Handle(y, f), now)
<1> DEFINE now == TheSession!Onward(at, f)
<1>1. /\ f \in Packets /\ now \in Videos
      /\ TheSession!IsVideo(f) => now = f
      /\ ~TheSession!IsVideo(f) => now = at
      /\ f.kind = "P" => at = TheSession!Follows(f)
  BY Next0
<1> HIDE DEF now
<1>2. Amid(y, now, f)
  BY <1>1 DEF Amid, Published
<1>3. f # None0
  BY <1>1, VideoIs, OtherIs DEF Packets
<1>4. Sound(TheSession!Handle(y, f)) /\ Published(TheSession!Handle(y, f), now)
  BY <1>1, <1>2, Handled
<1> QED BY <1>1, <1>2, <1>3, <1>4 DEF now

\* A message's units are a sequence.
LEMMA UnitsAre ==
  ASSUME NEW m, NEW at, NEW rest, Sent(m, at, rest), m.start
  PROVE  <<>> \o m.units = m.units
<1>1. \E a : m.units = <<a>> \/ \E q : m.units = <<a, q>> \/ \E w : m.units = <<a, q, w>>
  BY DEF Sent
<1> QED BY <1>1

\* A message leaves the session in step with the camera.
LEMMA Messaged ==
  ASSUME SessionAssumption, NEW c \in [at : Videos, rest : Packets \cup {None0}], NEW b, NEW s,
         Sound(s), InStep(c, b, s), NEW m, Sent(m, c.at, c.rest), b = buf
  PROVE  LET z == [s EXCEPT !.waitKey = @ \/ TheSession!TakeGap(m.start), !.fresh = FALSE]
             d == TheSession!Drain(z, (IF m.start THEN <<>> ELSE b) \o m.units)
         IN /\ Sound(d.s) /\ InStep(m.camera, d.left, d.s)
            /\ m.camera \in [at : Videos, rest : Packets \cup {None0}]
<1> DEFINE gap == TheSession!TakeGap(m.start)
           z == [s EXCEPT !.waitKey = s.waitKey \/ gap, !.fresh = FALSE]
           u == (IF m.start THEN <<>> ELSE b) \o m.units
           d == TheSession!Drain(z, u)
           Right == /\ Sound(d.s) /\ InStep(m.camera, d.left, d.s)
                    /\ m.camera \in [at : Videos, rest : Packets \cup {None0}]
<1> SUFFICES Right
  OBVIOUS
<1>1. gap = (m.start /\ b # <<>> /\ Head(b).is = "head" /\ TheSession!IsVideo(Head(b).f))
  BY DEF TheSession!TakeGap
<1>2. gap \in BOOLEAN
  BY <1>1
<1> HIDE DEF gap
<1>3. Sound(z) /\ z.mux = s.mux /\ z.last = s.last /\ z.waitKey = (s.waitKey \/ gap)
  BY <1>2 DEF Sound, Runs
<1>4. c.at \in Videos /\ c.rest \in Packets \cup {None0}
  OBVIOUS
<1> HIDE DEF z
<1>5. ASSUME m.start PROVE Published(z, c.at)
  <2>1. CASE c.rest = None0
    BY <1>3, <2>1 DEF InStep, Published
  <2>2. CASE c.rest # None0 /\ b = <<>> /\ s.mux = "none"
    BY <1>3, <2>2 DEF Published
  <2>3. CASE c.rest # None0 /\ b = <<TheSession!HeadOf(c.rest)>>
    <3>1. TheSession!IsVideo(c.rest) => gap
      <4>1. b # <<>> /\ Head(b) = TheSession!HeadOf(c.rest)
        BY <2>3
      <4>2. TheSession!HeadOf(c.rest).is = "head" /\ TheSession!HeadOf(c.rest).f = c.rest
        BY DEF TheSession!HeadOf, TheSession!Unit
      <4> QED BY <1>1, <1>5, <4>1, <4>2, Zenon
    <3> QED BY <1>3, <2>3, <3>1 DEF Published, Amid, InStep
  <2> QED BY <2>1, <2>2, <2>3 DEF InStep
<1>6. CASE m.start
  <2>1. Published(z, c.at) /\ u = m.units
    BY <1>5, <1>6, UnitsAre
  <2> PICK f \in TheSession!After(c.at) :
       LET F == TheSession!Whole(f)
           now == TheSession!Onward(c.at, f)
       IN \/ /\ m.units \in {<<F>>, <<F, TheSession!Filler>>}
             /\ m.camera = [at |-> now, rest |-> None0]
          \/ m.units = <<TheSession!HeadOf(f)>> /\ m.camera = [at |-> now, rest |-> f]
          \/ \E g \in TheSession!After(now) :
               \/ /\ m.units = <<F, TheSession!Pad, TheSession!Whole(g)>>
                  /\ m.camera = [at |-> TheSession!Onward(now, g), rest |-> None0]
               \/ /\ m.units = <<F, TheSession!Pad, TheSession!HeadOf(g)>>
                  /\ m.camera = [at |-> TheSession!Onward(now, g), rest |-> g]
    BY <1>6 DEF Sent
  <2> DEFINE F == TheSession!Whole(f)
             now == TheSession!Onward(c.at, f)
             h == TheSession!Handle(z, f)
  <2>2. now \in Videos /\ f \in Packets \ {None0} /\ Amid(z, now, f) /\ Sound(h) /\ Published(h, now)
    BY <1>3, <1>4, <2>1, Onwards
  <2>3. CASE m.units = <<F>> /\ m.camera = [at |-> now, rest |-> None0]
    <3>1. d = State(h, <<>>)
      <4>1. u = <<F>>
        BY <2>1, <2>3
      <4>2. TheSession!Drain(z, <<F>>) = State(h, <<>>)
        BY Drained, Zenon
      <4> HIDE DEF u
      <4> QED BY <4>1, <4>2, Zenon
    <3> HIDE DEF d, h, now
    <3> QED BY <2>2, <2>3, <3>1 DEF State, InStep
  <2>4. CASE m.units = <<F, TheSession!Filler>> /\ m.camera = [at |-> now, rest |-> None0]
    <3>1. d = State(h, <<TheSession!Filler>>)
      <4>1. u = <<F, TheSession!Filler>>
        BY <2>1, <2>4
      <4>2. TheSession!Drain(z, <<F, TheSession!Filler>>) = State(h, <<TheSession!Filler>>)
        BY Drained, Zenon
      <4> HIDE DEF u
      <4> QED BY <4>1, <4>2, Zenon
    <3> HIDE DEF d, h, now
    <3> QED BY <2>2, <2>4, <3>1 DEF State, InStep, TheSession!Filler, TheSession!Unit
  <2>5. CASE m.units = <<TheSession!HeadOf(f)>> /\ m.camera = [at |-> now, rest |-> f]
    <3>1. d = State(z, <<TheSession!HeadOf(f)>>)
      <4>1. u = <<TheSession!HeadOf(f)>>
        BY <2>1, <2>5
      <4>2. TheSession!Drain(z, <<TheSession!HeadOf(f)>>) = State(z, <<TheSession!HeadOf(f)>>)
        BY Drained, Zenon
      <4> HIDE DEF u
      <4> QED BY <4>1, <4>2, Zenon
    <3> HIDE DEF d, h, now
    <3> QED BY <1>3, <2>2, <2>5, <3>1 DEF State, InStep
  <2>6. ASSUME NEW g \in TheSession!After(now), m.units = <<F, TheSession!Pad, TheSession!Whole(g)>>,
               m.camera = [at |-> TheSession!Onward(now, g), rest |-> None0]
        PROVE  Right
    <3> DEFINE h2 == TheSession!Handle(h, g)
               next == TheSession!Onward(now, g)
    <3>1. d = State(h2, <<>>)
      <4>1. u = <<F, TheSession!Pad, TheSession!Whole(g)>>
        BY <2>1, <2>6
      <4>2. TheSession!Drain(z, <<F, TheSession!Pad, TheSession!Whole(g)>>) = State(h2, <<>>)
        BY DrainedTwo, ZenonT(40)
      <4> HIDE DEF u
      <4> QED BY <4>1, <4>2, Zenon
    <3>2. next \in Videos /\ Sound(h2) /\ Published(h2, next)
      BY <2>2, Onwards
    <3>3. m.camera = [at |-> next, rest |-> None0]
      BY <2>6
    <3> HIDE DEF d, h2, next
    <3> QED BY <3>1, <3>2, <3>3 DEF State, InStep
  <2>7. ASSUME NEW g \in TheSession!After(now), m.units = <<F, TheSession!Pad, TheSession!HeadOf(g)>>,
               m.camera = [at |-> TheSession!Onward(now, g), rest |-> g]
        PROVE  Right
    <3> DEFINE next == TheSession!Onward(now, g)
    <3>1. d = State(h, <<TheSession!HeadOf(g)>>)
      <4>1. u = <<F, TheSession!Pad, TheSession!HeadOf(g)>>
        BY <2>1, <2>7
      <4>2. TheSession!Drain(z, <<F, TheSession!Pad, TheSession!HeadOf(g)>>) = State(h, <<TheSession!HeadOf(g)>>)
        BY DrainedTwo, ZenonT(40)
      <4> HIDE DEF u
      <4> QED BY <4>1, <4>2, Zenon
    <3>2. next \in Videos /\ g \in Packets \ {None0} /\ Amid(h, next, g)
      BY <2>2, Onwards
    <3>3. m.camera = [at |-> next, rest |-> g]
      BY <2>7
    <3> HIDE DEF d, h, next
    <3> QED BY <2>2, <3>1, <3>2, <3>3 DEF State, InStep
  <2> QED BY <2>3, <2>4, <2>5, <2>6, <2>7
<1>7. CASE ~m.start
  <2> DEFINE r == c.rest
             T1 == TheSession!TailOf(r)
             Q == TheSession!Filler
             h == TheSession!Handle(z, r)
  <2>1. /\ r # None0 /\ r \in Packets /\ m.units \in {<<T1>>, <<T1, Q>>} /\ m.camera = [at |-> c.at, rest |-> None0]
        /\ Amid(s, c.at, r) /\ (b = <<TheSession!HeadOf(r)>> \/ (b = <<>> /\ s.mux = "none"))
    BY <1>4, <1>7 DEF Sent, InStep
  <2>2. Amid(z, c.at, r)
    <3>1. ~gap
      BY <1>1, <1>7
    <3> QED BY <1>3, <2>1, <3>1 DEF Amid
  <2>3. Sound(h) /\ Published(h, c.at)
    BY <1>3, <1>4, <2>1, <2>2, Handled
  <2>4. CASE b = <<TheSession!HeadOf(r)>> /\ m.units = <<T1>>
    <3>1. u = <<TheSession!HeadOf(r), T1>>
      <4> HIDE DEF T1, r
      <4>1. u = b \o m.units
        BY <1>7, Zenon
      <4> QED BY <2>4, <4>1, JoinTwo, Zenon
    <3>2. d = State(h, <<>>)
      <4>1. TheSession!Drain(z, <<TheSession!HeadOf(r), T1>>) = State(h, <<>>)
        BY Drained, Zenon
      <4> HIDE DEF u
      <4> QED BY <3>1, <4>1, Zenon
    <3> HIDE DEF d, h
    <3> QED BY <1>4, <2>1, <2>3, <3>2 DEF State, InStep
  <2>5. CASE b = <<TheSession!HeadOf(r)>> /\ m.units = <<T1, Q>>
    <3>1. u = <<TheSession!HeadOf(r), T1, Q>>
      <4> HIDE DEF T1, r, Q
      <4>1. u = b \o m.units
        BY <1>7, Zenon
      <4> QED BY <2>5, <4>1, JoinThree, Zenon
    <3>2. d = State(h, <<Q>>)
      <4>1. TheSession!Drain(z, <<TheSession!HeadOf(r), T1, Q>>) = State(h, <<Q>>)
        BY Drained, Zenon
      <4> HIDE DEF u
      <4> QED BY <3>1, <4>1, Zenon
    <3> HIDE DEF d, h
    <3> QED BY <1>4, <2>1, <2>3, <3>2 DEF State, InStep, TheSession!Filler, TheSession!Unit
  <2>6. CASE b = <<>> /\ s.mux = "none"
    <3>1. Published(z, c.at)
      BY <1>3, <2>6 DEF Published
    <3>2. u = m.units
      BY <1>7, <2>1, <2>6
    <3>3. d = State(z, <<T1>>) \/ d = State(z, <<T1, Q>>)
      <4>1. TheSession!Drain(z, <<T1>>) = State(z, <<T1>>) /\ TheSession!Drain(z, <<T1, Q>>) = State(z, <<T1, Q>>)
        BY Drained, Zenon
      <4>2. u = <<T1>> \/ u = <<T1, Q>>
        BY <2>1, <3>2
      <4> HIDE DEF u
      <4> QED BY <4>1, <4>2, Zenon
    <3>4. d.s = z /\ Head(d.left).is # "head"
      <4> HIDE DEF d
      <4> QED BY <3>3 DEF State, TheSession!TailOf, TheSession!Unit
    <3> HIDE DEF d
    <3> QED BY <1>3, <1>4, <2>1, <3>1, <3>4 DEF InStep
  <2> QED BY <2>1, <2>4, <2>5, <2>6
<1> QED BY <1>6, <1>7

\* Each step of the session, of its readers or of the camera keeps it.
LEMMA SessionStep == ASSUME SessionAssumption, SessInv, [TheSession!Go]_sessionVars PROVE SessInv'
<1>1. CASE UNCHANGED sessionVars
  BY <1>1 DEF sessionVars, SessInv, SessTypes, Taken, Sound, Rightly, TheSession!Asks
<1>2. SessTypes /\ Taken /\ MediaTimeout \in Nat \ {0} /\ IdleTimeout \in Nat \ {0} /\ Frames \in Nat
  BY DEF SessInv, SessionAssumption
<1>3. ASSUME NEW s \in Runs, TheSession!Return(s), cfg' = cfg, rtsp' \in BOOLEAN, rtsp' => cfg.zoom,
             ~ rtsp' => s.torn = FALSE,
             camera' \in [at : Videos, rest : Packets \cup {None0}]
      PROVE  SessInv'
  <2>1. TheSession!Anew(s) \in Runs /\ TheSession!Anew(s).torn = s.torn /\ TheSession!Anew(s).mux = "none"
    BY <1>3 DEF TheSession!Anew, Runs, None0
  <2>2. TheSession!Clock0 \in [media : 0 .. MediaTimeout, quiet : 0 .. IdleTimeout]
    BY <1>2 DEF TheSession!Clock0
  <2>3. Taken' /\ run'.mux = "none"
    BY <1>3, <2>1 DEF TheSession!Return, Taken
  <2>4. phase' = "down" /\ buf' = <<>> /\ frames' = <<>> /\ clock' = TheSession!Clock0
    BY <1>3 DEF TheSession!Return
  <2>5. frames' \in Seq(Videos) /\ Len(frames') <= Frames
    BY <1>2, <2>4
  <2> QED BY <1>2, <1>3, <2>2, <2>3, <2>4, <2>5 DEF SessInv, SessTypes
<1>4. CASE TheSession!Connect
  <2>1. /\ phase' = "run" /\ buf = <<>> /\ run.mux = "none" /\ UNCHANGED <<rtsp, buf, run, clock, frames>>
        /\ ~ (cfg.zoom /\ rtsp) /\ cfg' \in Streams /\ cfg'.zoom = cfg.zoom
        /\ \E at \in Videos : camera' \in {[at |-> at, rest |-> None0], [at |-> at, rest |-> at]}
    BY <1>4 DEF TheSession!Connect, TheSession!Reshaped, SessInv, Videos, None0
  <2>2. camera' \in [at : Videos, rest : Packets \cup {None0}] /\ (camera'.rest # None0 => camera'.at = camera'.rest)
    BY <2>1, VideoIs
  <2>3. InStep(camera', buf', run')
    BY <2>1, <2>2 DEF InStep, Published, Amid
  <2>4. ~ rtsp' /\ Taken' /\ Sound(run)'
    BY <1>2, <2>1 DEF Taken, Sound
  <2> QED BY <1>2, <2>1, <2>2, <2>3, <2>4 DEF SessInv, SessTypes
<1>5. CASE TheSession!Message
  <2> DEFINE z(m) == [run EXCEPT !.waitKey = run.waitKey \/ TheSession!TakeGap(m.start), !.fresh = FALSE]
             d(m) == TheSession!Drain(z(m), (IF m.start THEN <<>> ELSE buf) \o m.units)
  <2>1. phase = "run" /\ cfg' = cfg /\ ~ rtsp
    BY <1>5 DEF TheSession!Message, SessInv
  <2>2. PICK m \in TheSession!Messages[camera] :
          /\ camera' = m.camera
          /\ \/ rtsp' = (rtsp \/ (cfg.zoom /\ ~d(m).s.video)) /\ TheSession!Return(d(m).s)
             \/ /\ buf' = d(m).left /\ run' = d(m).s
                /\ \E media \in {0, clock.media} : media < MediaTimeout /\ clock' = [media |-> media, quiet |-> 0]
                /\ UNCHANGED <<rtsp, phase, frames>>
    <3> HIDE DEF z, d
    <3> QED BY <1>5 DEF TheSession!Message, z, d
  <2>3. Sent(m, camera.at, camera.rest)
    BY <1>2, MessageIs DEF SessTypes
  <2>4. /\ Sound(d(m).s) /\ InStep(m.camera, d(m).left, d(m).s)
        /\ m.camera \in [at : Videos, rest : Packets \cup {None0}]
    BY <1>2, <2>1, <2>3, Messaged DEF SessInv, SessTypes
  <2> HIDE DEF d
  <2>5. CASE rtsp' = (rtsp \/ (cfg.zoom /\ ~d(m).s.video)) /\ TheSession!Return(d(m).s)
    <3>1. rtsp' \in BOOLEAN /\ (rtsp' => cfg.zoom) /\ d(m).s \in Runs /\ d(m).s.torn = FALSE
      BY <2>1, <2>4, <2>5 DEF Sound
    <3> QED BY <1>3, <2>1, <2>2, <2>4, <2>5, <3>1
  <2>6. CASE /\ buf' = d(m).left /\ run' = d(m).s
             /\ \E media \in {0, clock.media} : media < MediaTimeout /\ clock' = [media |-> media, quiet |-> 0]
             /\ UNCHANGED <<rtsp, phase, frames>>
    <3>1. clock' \in [media : 0 .. MediaTimeout, quiet : 0 .. IdleTimeout]
      BY <1>2, <2>6 DEF SessTypes
    <3>2. Sound(run)' /\ InStep(camera', buf', run')
      BY <2>1, <2>2, <2>4, <2>6 DEF Sound, Rightly, TheSession!Asks
    <3>3. Taken' /\ ~ rtsp'
      BY <1>2, <2>1, <2>6, <3>2 DEF Taken, Sound
    <3> QED BY <1>2, <2>1, <2>2, <2>4, <2>6, <3>1, <3>2, <3>3 DEF SessInv, SessTypes
  <2> QED BY <2>2, <2>5, <2>6
<1>6. CASE TheSession!Watch \/ TheSession!Idle \/ TheSession!Break \/ TheSession!NativeTimeout
  <2>1. TheSession!Return(run) /\ UNCHANGED <<cfg, rtsp, camera>>
    BY <1>6 DEF TheSession!Watch, TheSession!Idle, TheSession!Break, TheSession!NativeTimeout
  <2> QED BY <1>2, <1>3, <2>1 DEF SessTypes, Taken
<1>7. CASE TheSession!Tick \/ TheSession!Unlocking
  <2>1. /\ UNCHANGED <<cfg, rtsp, phase, camera, buf, run, frames>>
        /\ \E x \in {clock.media, clock.media + 1, MediaTimeout}, y \in {0, clock.quiet + 1, IdleTimeout} :
             clock' = [media |-> x, quiet |-> y] /\ x <= MediaTimeout /\ y <= IdleTimeout
    <3>1. clock \in [media : 0 .. MediaTimeout, quiet : 0 .. IdleTimeout]
      BY <1>2 DEF SessTypes
    <3> QED BY <1>2, <1>7, <3>1 DEF TheSession!Tick, TheSession!Unlocking
  <2>2. clock' \in [media : 0 .. MediaTimeout, quiet : 0 .. IdleTimeout]
    BY <1>2, <2>1 DEF SessTypes
  <2>3. Sound(run)' <=> Sound(run)
    BY <2>1 DEF Sound, Rightly, TheSession!Asks
  <2> QED BY <2>1, <2>2, <2>3 DEF SessInv, SessTypes, Taken
<1>8. CASE TheSession!NativeConnect
  <2>1. /\ phase = "down" /\ phase' = "native" /\ rtsp /\ UNCHANGED <<rtsp, buf, run, clock, frames>>
        /\ \E at \in Videos : camera' = [at |-> at, rest |-> None0]
    BY <1>8 DEF TheSession!NativeConnect, Videos, None0
  <2>2. camera' \in [at : Videos, rest : Packets \cup {None0}]
    BY <2>1
  <2>3. cfg' \in Streams /\ cfg'.zoom = cfg.zoom
    BY <1>8 DEF TheSession!NativeConnect, TheSession!Reshaped
  <2> QED BY <2>1, <2>2, <2>3 DEF SessInv, SessTypes, Taken
<1>9. CASE TheSession!NativePacket
  <2>1. /\ phase = "native" /\ UNCHANGED <<cfg, rtsp, phase, buf, run, clock>>
        /\ \E f \in Videos : camera' = [camera EXCEPT !.at = f]
                             /\ \/ Len(frames) < Frames /\ frames' = Append(frames, f)
                                \/ frames' = frames
    BY <1>9 DEF TheSession!NativePacket, Videos
  <2>2. camera' \in [at : Videos, rest : Packets \cup {None0}]
    BY <1>2, <2>1 DEF SessTypes
  <2>3. frames' \in Seq(Videos) /\ Len(frames') <= Frames
    BY <1>2, <2>1 DEF SessTypes
  <2> QED BY <2>1, <2>2, <2>3 DEF SessInv, SessTypes, Taken
<1>10. CASE TheSession!NativeFrame
  <2>1. /\ phase = "native" /\ UNCHANGED <<cfg, rtsp, phase, camera, buf>> /\ frames # <<>>
        /\ run' = TheSession!Publish(run, Head(frames)) /\ rtsp
        /\ frames' = Tail(frames) /\ clock' = [clock EXCEPT !.media = 0]
    BY <1>10 DEF TheSession!NativeFrame, SessInv
  <2>2. Head(frames) \in Videos /\ frames' \in Seq(Videos) /\ Len(frames') <= Frames
    BY <1>2, <2>1 DEF SessTypes
  <2>3. clock' \in [media : 0 .. MediaTimeout, quiet : 0 .. IdleTimeout]
    <3>1. clock \in [media : 0 .. MediaTimeout, quiet : 0 .. IdleTimeout] /\ 0 \in 0 .. MediaTimeout
      BY <1>2 DEF SessTypes
    <3>2. clock' = [clock EXCEPT !.media = 0]
      BY <2>1
    <3> QED BY <3>1, <3>2
  <2>4. run' \in Runs
    <3>1. PICK torn \in BOOLEAN :
            run' = run \/ run' = [run EXCEPT !.mux = "tables", !.last = Head(frames), !.torn = torn]
      <4> DEFINE lost == run.torn \/ (Head(frames).kind = "P" /\ run.last # TheSession!Follows(Head(frames)))
      <4>1. run' = run \/ run' = [run EXCEPT !.mux = "tables", !.last = Head(frames), !.torn = lost]
        BY <2>1 DEF TheSession!Publish
      <4>2. lost \in BOOLEAN
        BY <1>2 DEF Taken, Runs
      <4> QED BY <4>1, <4>2
    <3> QED BY <1>2, <2>2, <3>1 DEF Taken, Runs
  <2>5. Taken'
    BY <1>2, <2>1, <2>4 DEF Taken
  <2> QED BY <1>2, <2>1, <2>2, <2>3, <2>5 DEF SessInv, SessTypes
<1> QED BY <1>1, <1>4, <1>5, <1>6, <1>7, <1>8, <1>9, <1>10 DEF TheSession!Go

\* A stream begins down, with a camera at the start of a group of pictures.
LEMMA SessionInit == SessionAssumption /\ TheSession!Init => SessInv
<1> SUFFICES ASSUME SessionAssumption, TheSession!Init PROVE SessInv
  OBVIOUS
<1>1. MediaTimeout \in Nat /\ IdleTimeout \in Nat /\ Frames \in Nat /\ Groups \in Nat \ {0}
  BY DEF SessionAssumption
<1>2. TheSession!I(0) \in Videos
  BY <1>1 DEF Videos, TheSession!Video
<1>3. run \in Runs /\ run.torn = FALSE /\ run.turned = FALSE /\ run.mux = "none"
  BY DEF TheSession!Init, TheSession!New, Runs, None0
<1>4. camera \in [at : Videos, rest : Packets \cup {None0}]
  BY <1>2 DEF TheSession!Init, None0
<1>5. clock \in [media : 0 .. MediaTimeout, quiet : 0 .. IdleTimeout]
  BY <1>1 DEF TheSession!Init, TheSession!Clock0
<1>6. frames = <<>> /\ buf = <<>> /\ phase = "down" /\ rtsp = FALSE /\ cfg \in Streams
  BY DEF TheSession!Init
<1>7. frames \in Seq(Videos) /\ Len(frames) <= Frames
  BY <1>1, <1>6
<1> QED BY <1>3, <1>4, <1>5, <1>6, <1>7 DEF SessInv, SessTypes, Taken

\* What it says of what is published.
LEMMA SessionDecodable == SessInv => TheSession!Decodable /\ TheSession!TurnedRight
<1> SUFFICES ASSUME SessInv PROVE TheSession!Decodable /\ TheSession!TurnedRight
  OBVIOUS
<1>1. TheSession!TypeOK
  <2>1. run.mux \in {"none", "new", "tables"}
    BY DEF SessInv, Taken, Runs
  <2>2. camera.at \in Videos /\ camera.rest \in Packets \cup {None0}
    BY DEF SessInv, SessTypes
  <2> QED BY <2>1, <2>2 DEF SessInv, SessTypes, TheSession!TypeOK, Videos, Packets, None0
<1>2. ~rtsp => ~run.torn
  BY DEF SessInv, Taken
<1>3. phase = "run" /\ run.mux = "tables" /\ ~run.waitKey /\ camera.rest = None0 => run.last = camera.at
  BY DEF SessInv, InStep, Published
<1>4. TheSession!TurnedRight
  BY DEF SessInv, Sound, Rightly, TheSession!TurnedRight
<1> QED BY <1>1, <1>2, <1>3, <1>4 DEF TheSession!Decodable, None0

-----------------------------------------------------------------------------
(* The parts together: one runs, and the others are as they began. *)

MediaInv == ConnInv /\ TalkInv /\ PlayerInv /\ SessInv

\* What holds of every part holds of a part that runs beside parts that do not.
LEMMA MediaInvariance == MediaSpec => []MediaInv
<1>1. MediaInit => MediaInv
  BY SessionAssumption, ConnInit, TalkInit, PlayerInit, SessionInit DEF MediaInit, MediaInv
<1>2. ASSUME MediaInv, [MediaNext]_mediaVars PROVE MediaInv'
  <2>1. [TheConn!Next]_connVars
    BY <1>2 DEF MediaNext, mediaVars, Alone
  <2>2. [TheTalk!Next]_talkVars
    BY <1>2 DEF MediaNext, mediaVars, Alone
  <2>3. [ThePlayer!Next]_playerVars
    BY <1>2 DEF MediaNext, mediaVars, Alone
  <2>4. [TheSession!Go]_sessionVars
    BY <1>2 DEF MediaNext, mediaVars, Alone
  <2>5. ConnInv'
    BY <1>2, <2>1, ConnStep DEF MediaInv
  <2>6. TalkInv'
    BY <1>2, <2>2, TalkStep DEF MediaInv
  <2>7. PlayerInv'
    BY <1>2, <2>3, PlayerStep DEF MediaInv
  <2>8. SessInv'
    BY <1>2, <2>4, SessionAssumption, SessionStep DEF MediaInv
  <2> QED BY <2>5, <2>6, <2>7, <2>8 DEF MediaInv
<1> QED BY <1>1, <1>2, PTL DEF MediaSpec

\* However a camera cuts its packets into messages, stops amid one or sends no
\* more, over Baichuan no frame goes out without the one it refers to, what came
\* is out unless a keyframe is waited for, and the picture is turned when it was
\* set to be, or the camera asks and its keyframes say so, and for no other
\* reason (stream.go Run, media.go).  A zoom lens taken over RTSP is left out:
\* what its loop has no room for is not missed (native.go:105-127).
THEOREM DecodableCorrect == MediaSpec => []Decodable
<1>1. MediaInv => Decodable
  BY SessionDecodable DEF MediaInv, Decodable
<1> QED BY <1>1, MediaInvariance, PTL

\* Whatever live frames, stills and further clips come meanwhile, a clip plays
\* from a keyframe on without a gap, and the stream keeps its codec (presence.go).
THEOREM ClipWholeCorrect == MediaSpec => []ClipWhole
<1>1. MediaInv => ClipWhole
  BY PlayerWhole DEF MediaInv, ClipWhole
<1> QED BY <1>1, MediaInvariance, PTL

\* Whenever a login is refused, a button let go, a camera reboots or a line
\* breaks: a connection that is up is not cut by its login's deadline, one that
\* failed is not left open, a camera runs nothing for one that was closed, and it
\* is let go by whoever is done talking (conn.go, rtsp/talk.go).
THEOREM ReleasedCorrect == MediaSpec => []Released
<1>1. MediaInv => Released
  BY TalkReleased, ConnKeeps DEF MediaInv, Released
<1> QED BY <1>1, MediaInvariance, PTL
=============================================================================
