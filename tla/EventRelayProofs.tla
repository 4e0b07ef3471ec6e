--------------------------- MODULE EventRelayProofs ---------------------------
(***************************************************************************)
(* Theorems about EventRelay, for any cameras and any number of relays.    *)
(*                                                                         *)
(* A relay that has been replaced is shut before the next one starts       *)
(* (OldShut), and one that has not been started yet does nothing           *)
(* (Unstarted), so only the relay started last is ever heard.  The one     *)
(* connection that is up is its own, but for a client reconnected between  *)
(* the halves of Shutdown (Sessions), and each event that runs at Frigate  *)
(* is one a relay remembers or a call left behind (Remembered).            *)
(***************************************************************************)
EXTENDS EventRelay, FiniteSetTheorems, TLAPS

Outcomes == {"delivered", "lost", "failed"}

\* A relay that has not been started has no Watch, no handle, no announcer.
Unstarted ==
  \A g \in Relays : g > relay =>
    /\ announcer[g] = "ended"
    /\ \A c \in Cameras : watch[g][c] = "ended" /\ cur[g][c] = "off" /\ handle[g][c] = "none"

\* Where syncRelay is: it replaces a relay that has been cancelled, by one
\* that there may be.
Syncing ==
  /\ cancelled \subseteq 1..relay
  /\ sync \in {"closing", "shutting"} => relay \in cancelled
  /\ sync = "starting" => relay = Nobody \/ relay \in cancelled
  /\ sync # "idle" /\ wanted = "yes" => relay < MaxRelays

\* A relay that has been replaced, or cancelled and shut, publishes nothing.
OldShut ==
  \A g \in Relays :
    g < relay \/ (g = relay /\ g \in cancelled /\ sync \in {"idle", "starting"})
      => shut[g] = "yes"

\* The broker has heard from relays that have been started.
SaidByStarted == said <= relay

\* Before the first relay nothing is retained; while it runs, what was
\* published last is what its Watch heard last.
Published ==
  /\ relay = Nobody => \A c \in Cameras : retained[c] = "unset"
  /\ \A c \in Cameras :
       relay = 1 /\ cancelled = {} /\ c \notin missed
         /\ handle[1][c] \in {"none", "event", "frigate"}
           => (retained[c] = "on" <=> cur[1][c] = "on")

\* The connection that holds the client id is the one connection that is up.
\* But for a client that was reconnected between the halves of Shutdown, it is
\* of the running relay, and ended before that is replaced.
Sessions ==
  /\ session # Nobody => conn[session] = "up"
  /\ \A g \in Relays : conn[g] = "up" => session = g
  /\ reopened = "no" /\ session # Nobody =>
       session = relay /\ (relay \notin cancelled \/ sync = "closing")

\* Frigate has an event for every one that is remembered, and the orphans.
OpenBy(c) == {g \in Relays : <<g, c>> \in open}
Remembered ==
  \A c \in Cameras : events[c] = Cardinality(OpenBy(c)) + orphans[c]

\* A running relay remembers an event only while there is motion, or a change
\* it has yet to deal with.
OpenSeen ==
  \A g \in Relays : \A c \in Cameras :
    <<g, c>> \in open => g \in cancelled \/ cur[g][c] = "on" \/ handle[g][c] # "none"

IInv ==
  TypeOK /\ PresenceTold /\ Sessions /\ Unstarted /\ Syncing /\ OldShut /\ SaidByStarted
  /\ Published /\ Remembered /\ OpenSeen

-----------------------------------------------------------------------------
(* What a Publish does. *)

\* The types of what the broker owes.
Wills ==
  /\ wills \in Nat /\ late \in {"yes", "no"}
  /\ losses \in Nat /\ reopened \in {"yes", "no"}

\* Publish leaves the client and the broker in a state they may be in.
LEMMA PublishTypes ==
  ASSUME TypeOK, NEW g \in Relays, NEW outcome, Publish(g, outcome)
  PROVE  /\ conn' \in [Relays -> {"none", "up", "dead"}]
         /\ session' \in 0..MaxRelays /\ said' \in {said, g} /\ said' \in 0..MaxRelays
         /\ status' \in {"unset", "online", "offline"} /\ Wills'
<1>1. conn' \in [Relays -> {"none", "up", "dead"}]
  BY DEF Publish, Connect, TypeOK
<1>2. session' \in {session, g} /\ said' \in {said, g} /\ status' \in {status, "online"}
  BY DEF Publish, Connect, brokerVars
<1>3. session \in 0..MaxRelays /\ said \in 0..MaxRelays /\ g \in 0..MaxRelays
  BY RelayAssumption DEF TypeOK, Relays
<1>4. Wills /\ wills + 1 \in Nat
  BY DEF TypeOK, Wills
<1>5. Wills'
  BY <1>4 DEF Publish, Connect, brokerVars, willVars, Wills
<1> QED BY <1>1, <1>2, <1>3, <1>5 DEF TypeOK

\* Only a client that is not shut is heard.
LEMMA PublishSaid ==
  ASSUME NEW g \in Relays, NEW outcome, Publish(g, outcome), said' # said
  PROVE  said' = g /\ shut[g] = "no"
  BY DEF Publish, brokerVars

\* StartNew publishes nothing, or by the new relay.
LEMMA StartNewPublish ==
  ASSUME TypeOK, Syncing, StartNew
  PROVE  \/ UNCHANGED <<conn, brokerVars>>
         \/ relay' \in Relays /\ \E outcome : Publish(relay', outcome)
<1>1. CASE wanted = "yes"
  <2>1. relay < MaxRelays
    BY <1>1 DEF StartNew, Syncing
  <2>2. relay' = relay + 1
    BY <1>1 DEF StartNew
  <2>3. relay' \in Relays
    BY <2>1, <2>2, RelayAssumption DEF TypeOK, Relays
  <2> QED BY <1>1, <2>3 DEF StartNew
<1>2. CASE wanted # "yes"
  BY <1>2 DEF StartNew
<1> QED BY <1>1, <1>2

\* A relay whose announcer or handle is at work has been started.
LEMMA WhoIsStarted ==
  ASSUME TypeOK, Unstarted, NEW g \in Relays
  PROVE  /\ announcer[g] # "ended" => g <= relay
         /\ \A c \in Cameras : handle[g][c] # "none" => g <= relay
  BY RelayAssumption DEF TypeOK, Unstarted, Relays

-----------------------------------------------------------------------------
(* One part of the invariant at a time. *)

\* Initially no relay has been started.
LEMMA InitInv == Init => IInv
<1> SUFFICES ASSUME Init PROVE IInv
  OBVIOUS
<1>1. TypeOK
  BY RelayAssumption DEF Init, TypeOK, Each, OnOff, Relays, Nobody
<1>2. PresenceTold /\ Sessions /\ Unstarted /\ Syncing
  BY RelayAssumption DEF Init, PresenceTold, Sessions, Unstarted, Syncing, Each, Relays, Nobody
<1>3. OldShut /\ SaidByStarted /\ Published
  BY RelayAssumption DEF Init, OldShut, SaidByStarted, Published, Relays, Nobody
<1>4. Remembered
  <2>1. \A c \in Cameras : OpenBy(c) = {}
    BY DEF Init, OpenBy
  <2> QED BY <2>1, FS_EmptySet DEF Init, Remembered
<1>5. OpenSeen
  BY DEF Init, OpenSeen
<1> QED BY <1>1, <1>2, <1>3, <1>4, <1>5 DEF IInv

\* A camera's events are remembered by finitely many relays.
LEMMA OpenByFinite ==
  ASSUME NEW c \in Cameras
  PROVE  IsFiniteSet(OpenBy(c)) /\ Cardinality(OpenBy(c)) \in Nat
<1>1. IsFiniteSet(Relays)
  BY FS_Interval, RelayAssumption DEF Relays
<1>2. OpenBy(c) \subseteq Relays
  BY DEF OpenBy
<1> QED BY <1>1, <1>2, FS_Subset, FS_CardinalityType

\* Every step keeps the types; an event that is ended had been begun.
LEMMA TypesStep ==
  ASSUME TypeOK, Syncing, Remembered, [Next]_vars
  PROVE  TypeOK'
<1>1. CASE BeginSync
  BY <1>1
  DEF BeginSync, TypeOK, OnOff, Relays, Nobody, clientVars, brokerVars, willVars, syncVars, handleVars, frigateVars
<1>2. CASE CloseOld
  <2>1. conn' = [conn EXCEPT ![relay] = "none"]
        /\ session' \in {session, 0} /\ said' \in {said, relay} /\ status' \in {status, "offline"}
    BY <1>2 DEF CloseOld, Close, brokerVars, willVars, Nobody
  <2>2. conn' \in [Relays -> {"none", "up", "dead"}] /\ session' \in 0..MaxRelays
        /\ said' \in 0..MaxRelays /\ status' \in {"unset", "online", "offline"} /\ Wills'
    <3>1. conn' \in [Relays -> {"none", "up", "dead"}]
      BY <2>1 DEF TypeOK
    <3>2. 0 \in 0..MaxRelays
      BY RelayAssumption
    <3>3. Wills'
      BY <1>2 DEF CloseOld, Close, TypeOK, Wills, brokerVars, willVars
    <3> QED BY <2>1, <3>1, <3>2, <3>3 DEF TypeOK
  <2> QED BY <1>2, <2>2 DEF CloseOld, TypeOK, Wills, handleVars, frigateVars
<1>3. CASE ShutOld
  BY <1>3
  DEF ShutOld, Shut, TypeOK, OnOff, Relays, Nobody, clientVars, brokerVars, willVars, syncVars, handleVars, frigateVars
<1>4. CASE StartNew
  <2>1. conn' \in [Relays -> {"none", "up", "dead"}] /\ session' \in 0..MaxRelays
        /\ said' \in 0..MaxRelays /\ status' \in {"unset", "online", "offline"} /\ Wills'
    BY <1>4, StartNewPublish, PublishTypes DEF TypeOK, Wills, brokerVars, willVars
  <2>2. relay' \in 0..MaxRelays /\ watch' \in [Relays -> [Cameras -> {"ended", "dialing", "following", "ending"}]]
        /\ announcer' \in [Relays -> {"ended", "looking", "publishing"}]
    BY <1>4, RelayAssumption DEF StartNew, Syncing, TypeOK
  <2> QED BY <1>4, <2>1, <2>2 DEF StartNew, TypeOK, Wills, handleVars, frigateVars
<1>5. ASSUME NEW g \in Relays, AnnounceLook(g) PROVE TypeOK'
  BY <1>5
  DEF AnnounceLook, TypeOK, OnOff, Relays, Nobody, clientVars, brokerVars, willVars, syncVars, handleVars, frigateVars
<1>6. ASSUME NEW g \in Relays, AnnouncePublish(g) PROVE TypeOK'
  <2>1. PICK outcome \in Outcomes : Publish(g, outcome)
    BY <1>6 DEF AnnouncePublish, Outcomes
  <2>2. conn' \in [Relays -> {"none", "up", "dead"}] /\ session' \in 0..MaxRelays
        /\ said' \in 0..MaxRelays /\ status' \in {"unset", "online", "offline"} /\ Wills'
    BY <2>1, PublishTypes
  <2>3. announcer' \in [Relays -> {"ended", "looking", "publishing"}]
    BY <1>6 DEF AnnouncePublish, TypeOK
  <2> QED BY <1>6, <2>2, <2>3 DEF AnnouncePublish, TypeOK, Wills, handleVars, syncVars, frigateVars
<1>7. ASSUME NEW g \in Relays, NEW c \in Cameras, Dial(g, c)
     PROVE  TypeOK'
  <2>1. PICK w \in {"ending", "following"} : watch' = [watch EXCEPT ![g][c] = w]
    BY <1>7 DEF Dial, Ends
  <2> QED BY <1>7, <2>1 DEF Dial, TypeOK, syncVars, handleVars, clientVars, brokerVars, willVars, frigateVars
<1>8. ASSUME NEW g \in Relays, NEW c \in Cameras, Hear(g, c)
     PROVE  TypeOK'
  BY <1>8
  DEF Hear, Call, TypeOK, OnOff, Relays, Nobody, clientVars, brokerVars, willVars, syncVars, handleVars, frigateVars
<1>9. ASSUME NEW g \in Relays, NEW c \in Cameras, StopFollowing(g, c)
     PROVE  TypeOK'
  BY <1>9
  DEF StopFollowing, Ends, TypeOK, OnOff, Relays, Nobody, clientVars, brokerVars, willVars, syncVars, handleVars, frigateVars
<1>10. ASSUME NEW g \in Relays, NEW c \in Cameras, EndCurrent(g, c)
     PROVE  TypeOK'
  BY <1>10
  DEF EndCurrent, Call, TypeOK, OnOff, Relays, Nobody, clientVars, brokerVars, willVars, syncVars, handleVars, frigateVars
<1>11. ASSUME NEW g \in Relays, NEW c \in Cameras, WatchAgain(g, c)
     PROVE  TypeOK'
  BY <1>11
  DEF WatchAgain, TypeOK, OnOff, Relays, Nobody, clientVars, brokerVars, willVars, syncVars, handleVars, frigateVars
<1>12. ASSUME NEW g \in Relays, NEW c \in Cameras, Enter(g, c)
     PROVE  TypeOK'
  <2>1. PICK h \in {"none", "state"} : handle' = [handle EXCEPT ![g][c] = h]
    BY <1>12 DEF Enter, Goto
  <2>2. pubMu' = pubMu \/ pubMu' = [pubMu EXCEPT ![g] = c]
    BY <1>12 DEF Enter
  <2>3. pubMu' \in [Relays -> Cameras \union {NoCamera}]
    BY <2>2 DEF TypeOK
  <2> QED BY <1>12, <2>1, <2>3 DEF Enter, TypeOK, syncVars, clientVars, brokerVars, willVars, frigateVars
<1>13. ASSUME NEW g \in Relays, NEW c \in Cameras, PublishState(g, c)
     PROVE  TypeOK'
  <2>1. PICK outcome \in Outcomes : Publish(g, outcome)
    BY <1>13 DEF PublishState, Outcomes
  <2>2. conn' \in [Relays -> {"none", "up", "dead"}] /\ session' \in 0..MaxRelays
        /\ said' \in 0..MaxRelays /\ status' \in {"unset", "online", "offline"} /\ Wills'
    BY <2>1, PublishTypes
  <2>3. (retained' = retained \/ retained' = [retained EXCEPT ![c] = cur[g][c]])
        /\ missed' \subseteq missed \union {c}
    BY <1>13 DEF PublishState
  <2>4. cur[g][c] \in OnOff
    BY DEF TypeOK
  <2>5. retained' \in [Cameras -> OnOff \union {"unset"}] /\ missed' \subseteq Cameras
    BY <2>3, <2>4 DEF TypeOK
  <2> QED BY <1>13, <2>2, <2>5 DEF PublishState, TypeOK, Wills, Goto, syncVars, frigateVars
<1>14. ASSUME NEW g \in Relays, NEW c \in Cameras, PublishEvent(g, c)
     PROVE  TypeOK'
  <2>1. PICK outcome \in Outcomes : Publish(g, outcome)
    BY <1>14 DEF PublishEvent, Outcomes
  <2>2. conn' \in [Relays -> {"none", "up", "dead"}] /\ session' \in 0..MaxRelays
        /\ said' \in 0..MaxRelays /\ status' \in {"unset", "online", "offline"} /\ Wills'
    BY <2>1, PublishTypes
  <2> QED BY <1>14, <2>2 DEF PublishEvent, TypeOK, Wills, Goto, syncVars, frigateVars
<1>15. ASSUME NEW g \in Relays, NEW c \in Cameras, Frigate(g, c)
     PROVE  TypeOK'
  <2>1. open' \subseteq Relays \X Cameras
    BY <1>15 DEF Frigate, Opens, Closes, TypeOK, frigateVars
  <2>2. ASSUME <<g, c>> \in open PROVE events[c] - 1 \in Nat
    <3>1. g \in OpenBy(c) /\ IsFiniteSet(OpenBy(c))
      BY <2>2, OpenByFinite DEF OpenBy
    <3>2. Cardinality(OpenBy(c)) # 0 /\ Cardinality(OpenBy(c)) \in Nat
      BY <3>1, FS_EmptySet, FS_CardinalityType
    <3>3. events[c] = Cardinality(OpenBy(c)) + orphans[c] /\ orphans[c] \in Nat
      BY DEF Remembered, TypeOK
    <3> QED BY <3>2, <3>3
  <2>3. \/ events' = events
        \/ events' = [events EXCEPT ![c] = events[c] + 1]
        \/ <<g, c>> \in open /\ events' = [events EXCEPT ![c] = events[c] - 1]
    BY <1>15 DEF Frigate, Opens, Closes, frigateVars
  <2>4. events[c] \in Nat /\ events[c] + 1 \in Nat /\ orphans[c] \in Nat /\ orphans[c] + 1 \in Nat
    BY DEF TypeOK
  <2>5. events' \in [Cameras -> Nat]
    <3>1. PICK n \in Nat : events' = events \/ events' = [events EXCEPT ![c] = n]
      BY <2>2, <2>3, <2>4
    <3> QED BY <3>1 DEF TypeOK
  <2>6. orphans' = orphans \/ orphans' = [orphans EXCEPT ![c] = orphans[c] + 1]
    BY <1>15 DEF Frigate, Opens, Closes, frigateVars
  <2>7. orphans' \in [Cameras -> Nat]
    BY <2>4, <2>6 DEF TypeOK
  <2> QED BY <1>15, <2>1, <2>5, <2>7 DEF Frigate, TypeOK, Goto, syncVars, clientVars, brokerVars, willVars
<1>16. CASE PublishWill
  <2>1. wills' = wills - 1 /\ wills - 1 \in Nat /\ status' = "offline" /\ late' \in {late, "yes"}
    BY <1>16 DEF PublishWill, TypeOK
  <2> QED BY <1>16, <2>1 DEF PublishWill, TypeOK, syncVars, handleVars, clientVars, frigateVars
<1>17. CASE BrokerDrops
  <2>1. /\ conn' = [conn EXCEPT ![session] = "dead"] /\ session' = 0 /\ late' = "no"
        /\ wills' = wills + 1 /\ losses' = losses + 1 /\ UNCHANGED <<status, said, reopened>>
    BY <1>17 DEF BrokerDrops, Nobody
  <2>2. conn' \in [Relays -> {"none", "up", "dead"}] /\ session' \in 0..MaxRelays
    <3>1. conn' \in [Relays -> {"none", "up", "dead"}]
      BY <2>1 DEF TypeOK
    <3>2. 0 \in 0..MaxRelays
      BY RelayAssumption
    <3> QED BY <2>1, <3>1, <3>2 DEF TypeOK
  <2>3. Wills'
    BY <2>1 DEF TypeOK, Wills
  <2> QED BY <1>17, <2>1, <2>2, <2>3 DEF BrokerDrops, TypeOK, Wills, syncVars, handleVars, frigateVars
<1>18. CASE UNCHANGED vars
  BY <1>18 DEF TypeOK, vars, clientVars, brokerVars, willVars, syncVars, handleVars, frigateVars
<1> QED
  BY <1>1, <1>2, <1>3, <1>4, <1>5, <1>6, <1>7, <1>8, <1>9, <1>10, <1>11,
     <1>12, <1>13, <1>14, <1>15, <1>16, <1>17, <1>18
  DEF Next, SyncStep, WatchStep, HandleStep

\* A step that leaves the connections and syncRelay alone leaves this too.
LEMMA PresenceSame ==
  ASSUME PresenceTold, Sessions, UNCHANGED <<relay, sync, cancelled, conn, brokerVars>>
  PROVE  PresenceTold' /\ Sessions'
  BY DEF PresenceTold, Sessions, brokerVars, willVars

\* A Publish by the relay started last, which has been let run or is still to
\* be closed, may say online; it takes no connection over unless a client was
\* reconnected between the halves of Shutdown.
LEMMA PublishPresence ==
  ASSUME TypeOK, PresenceTold, Sessions, NEW g \in Relays, NEW outcome, Publish(g, outcome),
         reopened = "no" => session \in {Nobody, g},
         relay' = relay => (sync' = sync /\ cancelled' = cancelled),
         reopened = "no" /\ relay' # relay => session = Nobody,
         shut[g] = "no" => g = relay',
         shut[g] = "no" /\ sync # "shutting" => relay' \notin cancelled' \/ sync' = "closing"
  PROVE  PresenceTold' /\ Sessions'
<1>1. CASE UNCHANGED <<conn, brokerVars>>
  <2>1. PresenceTold'
    BY <1>1 DEF PresenceTold, brokerVars, willVars
  <2> QED BY <1>1, <2>1 DEF Sessions, brokerVars, willVars
<1>2. CASE UNCHANGED <<conn, session, status, willVars>>
  <2>1. PresenceTold'
    BY <1>2 DEF PresenceTold, willVars
  <2> QED BY <1>2, <2>1 DEF Sessions, willVars
<1>3. CASE shut[g] = "no" /\ conn[g] # "up" /\ Connect(g)
  <2>1. session' = g /\ status' = "online" /\ late' = "no" /\ losses' = losses
        /\ wills' = (IF session = Nobody THEN wills ELSE wills + 1)
        /\ reopened' = IF sync = "shutting" THEN "yes" ELSE reopened
    BY <1>3 DEF Connect
  <2>2. conn' = [h \in Relays |-> IF h = g THEN "up" ELSE IF h = session THEN "dead" ELSE conn[h]]
    BY <1>3 DEF Connect
  <2>3. reopened' = "no" => reopened = "no" /\ sync # "shutting" /\ session = Nobody
    BY <1>3, <2>1 DEF Sessions, Nobody
  <2>4. g # Nobody
    BY DEF Relays, Nobody
  <2>5. PresenceTold'
    BY <2>1, <2>3, <2>4 DEF PresenceTold
  <2>6. \A h \in Relays : conn'[h] = "up" => session' = h
    BY <2>1, <2>2 DEF Sessions
  <2> QED BY <1>3, <2>1, <2>2, <2>3, <2>5, <2>6 DEF Sessions
<1>4. CASE conn[g] # "up" /\ conn' = [conn EXCEPT ![g] = "none"] /\ UNCHANGED brokerVars
  <2>1. PresenceTold'
    BY <1>4 DEF PresenceTold, brokerVars, willVars
  <2>2. session # g
    <3>1. CASE session = Nobody
      BY <3>1 DEF Relays, Nobody
    <3>2. CASE session # Nobody
      BY <1>4, <3>2 DEF Sessions
    <3> QED BY <3>1, <3>2
  <2>3. UNCHANGED <<session, reopened>> /\ session \in 0..MaxRelays
    BY <1>4 DEF brokerVars, willVars, TypeOK
  <2>4. \A h \in Relays : conn'[h] = IF h = g THEN "none" ELSE conn[h]
    BY <1>4 DEF TypeOK
  <2>5. session # Nobody => session \in Relays
    BY <2>3, RelayAssumption DEF Nobody, Relays
  <2> QED BY <2>1, <2>2, <2>3, <2>4, <2>5 DEF Sessions
<1> QED BY <1>1, <1>2, <1>3, <1>4 DEF Publish

\* The relay that announces or handles may publish.
LEMMA StartedPublish ==
  ASSUME TypeOK, PresenceTold, Sessions, Unstarted, Syncing, OldShut, NEW g \in Relays, g <= relay,
         NEW outcome, Publish(g, outcome), UNCHANGED syncVars
  PROVE  PresenceTold' /\ Sessions'
<1>1. UNCHANGED <<relay, sync, cancelled>> /\ relay \in 0..MaxRelays /\ g \in Nat
  BY DEF syncVars, TypeOK, Relays
<1>2. shut[g] = "no" => g = relay
  BY <1>1 DEF OldShut
<1>3. shut[g] = "no" /\ sync # "shutting" => relay \notin cancelled \/ sync = "closing"
  BY <1>2 DEF OldShut, TypeOK
<1>4. CASE shut[g] = "no"
  <2>1. reopened = "no" => session \in {Nobody, g}
    BY <1>2, <1>4 DEF Sessions
  <2> QED BY <1>1, <1>2, <1>3, <1>4, <2>1, PublishPresence
<1>5. CASE shut[g] # "no"
  <2>1. UNCHANGED <<conn, brokerVars>>
    BY <1>5 DEF Publish
  <2> QED BY <1>1, <2>1, PresenceSame
<1> QED BY <1>4, <1>5

\* Presence follows the connection, but for wills that come late.
LEMMA PresenceStep ==
  ASSUME TypeOK, PresenceTold, Sessions, Unstarted, Syncing, OldShut, [Next]_vars
  PROVE  PresenceTold' /\ Sessions'
<1>1. CASE BeginSync
  <2>1. UNCHANGED <<relay, conn, brokerVars>> /\ sync = "idle"
        /\ cancelled' = (IF relay = Nobody THEN cancelled ELSE cancelled \union {relay})
        /\ sync' = IF relay = Nobody \/ relay \in cancelled THEN "starting" ELSE "closing"
    BY <1>1 DEF BeginSync, clientVars
  <2>2. PresenceTold'
    BY <2>1 DEF PresenceTold, brokerVars, willVars
  <2> QED BY <2>1, <2>2 DEF Sessions, brokerVars, willVars
<1>2. CASE CloseOld
  <2>1. UNCHANGED <<relay, cancelled, losses, reopened, wills>> /\ sync = "closing"
        /\ conn' = [conn EXCEPT ![relay] = "none"]
        /\ \/ conn[relay] = "up" /\ session' = Nobody /\ status' = "offline" /\ late' = "no"
           \/ conn[relay] # "up" /\ UNCHANGED <<session, status, late>>
    BY <1>2 DEF CloseOld, Close, brokerVars, willVars
  <2>2. relay \in Relays /\ relay # Nobody
    BY <2>1 DEF Syncing, Relays, TypeOK, Nobody
  <2>3. \A h \in Relays : conn'[h] = IF h = relay THEN "none" ELSE conn[h]
    BY <2>1, <2>2 DEF TypeOK
  <2>4. session # Nobody => session \in Relays
    BY RelayAssumption DEF TypeOK, Relays, Nobody
  <2>5. CASE conn[relay] = "up"
    <3>1. session = relay /\ session' = Nobody /\ status' = "offline" /\ late' = "no"
      BY <2>1, <2>2, <2>5 DEF Sessions
    <3>2. \A h \in Relays : conn'[h] # "up"
      BY <2>3, <3>1 DEF Sessions
    <3> QED BY <2>1, <3>1, <3>2 DEF PresenceTold, Sessions
  <2>6. CASE conn[relay] # "up"
    <3>1. session # relay /\ UNCHANGED <<session, status, late>>
      BY <2>1, <2>2, <2>6 DEF Sessions
    <3>2. PresenceTold'
      BY <2>1, <3>1 DEF PresenceTold
    <3> QED BY <2>1, <2>3, <2>4, <3>1, <3>2 DEF Sessions
  <2> QED BY <2>5, <2>6
<1>3. CASE ShutOld
  <2>1. UNCHANGED <<relay, cancelled, conn, brokerVars>> /\ sync = "shutting"
    BY <1>3 DEF ShutOld
  <2>2. PresenceTold'
    BY <2>1 DEF PresenceTold, brokerVars, willVars
  <2>3. relay \in cancelled /\ relay # Nobody
    BY <2>1 DEF Syncing, Nobody, TypeOK
  <2> QED BY <2>1, <2>2, <2>3 DEF Sessions, brokerVars, willVars
<1>4. CASE StartNew
  <2>1. sync = "starting" /\ (relay = Nobody \/ relay \in cancelled) /\ cancelled' = cancelled
    BY <1>4 DEF StartNew, Syncing
  <2>2. reopened = "no" => session = Nobody
    BY <2>1 DEF Sessions
  <2>3. CASE UNCHANGED <<conn, brokerVars>>
    <3>1. PresenceTold'
      BY <2>3 DEF PresenceTold, brokerVars, willVars
    <3> QED BY <2>2, <2>3, <3>1 DEF Sessions, brokerVars, willVars
  <2>4. CASE ~ UNCHANGED <<conn, brokerVars>>
    <3>1. PICK outcome : relay' \in Relays /\ Publish(relay', outcome)
      BY <1>4, <2>4, StartNewPublish
    <3>2. relay' = relay + 1 /\ relay \in Nat
      BY <1>4, <2>4 DEF StartNew, TypeOK
    <3>3. relay' \notin cancelled'
      BY <2>1, <3>2 DEF Syncing
    <3>4. relay' # relay
      BY <3>2
    <3> QED BY <2>2, <3>1, <3>3, <3>4, PublishPresence
  <2> QED BY <2>3, <2>4
<1>5. ASSUME NEW g \in Relays, AnnouncePublish(g) PROVE PresenceTold' /\ Sessions'
  <2>1. PICK outcome : Publish(g, outcome)
    BY <1>5 DEF AnnouncePublish
  <2>2. g <= relay /\ UNCHANGED syncVars
    BY <1>5, WhoIsStarted DEF AnnouncePublish
  <2> QED BY <2>1, <2>2, StartedPublish
<1>6. ASSUME NEW g \in Relays, NEW c \in Cameras, PublishState(g, c) \/ PublishEvent(g, c)
      PROVE  PresenceTold' /\ Sessions'
  <2>1. PICK outcome : Publish(g, outcome)
    BY <1>6 DEF PublishState, PublishEvent
  <2>2. g <= relay /\ UNCHANGED syncVars
    BY <1>6, WhoIsStarted DEF PublishState, PublishEvent, At
  <2> QED BY <2>1, <2>2, StartedPublish
<1>7. CASE BrokerDrops
  <2>1. /\ session # Nobody /\ session' = Nobody /\ conn' = [conn EXCEPT ![session] = "dead"]
        /\ wills' = wills + 1 /\ losses' = losses + 1 /\ UNCHANGED <<reopened, status>>
    BY <1>7 DEF BrokerDrops
  <2>2. wills \in Nat /\ losses \in Nat
    BY DEF TypeOK
  <2>3. PresenceTold'
    BY <2>1, <2>2 DEF PresenceTold
  <2>4. \A h \in Relays : conn'[h] # "up"
    BY <2>1 DEF Sessions, TypeOK
  <2> QED BY <2>1, <2>3, <2>4 DEF Sessions
<1>8. CASE PublishWill
  <2>1. /\ wills > 0 /\ wills' = wills - 1 /\ status' = "offline"
        /\ late' = IF session = Nobody THEN late ELSE "yes"
    BY <1>8 DEF PublishWill
  <2>2. UNCHANGED <<session, losses, reopened, conn, relay, cancelled, sync>>
    BY <1>8 DEF PublishWill, syncVars, clientVars
  <2>3. wills # 0
    BY <2>1
  <2>4. PresenceTold'
    BY <2>1, <2>2, <2>3 DEF PresenceTold
  <2> QED BY <2>2, <2>4 DEF Sessions
<1>9. CASE UNCHANGED <<relay, sync, cancelled, conn, brokerVars>>
  BY <1>9, PresenceSame
<1>10. ASSUME NEW g \in Relays, AnnounceLook(g)
       PROVE  UNCHANGED <<relay, sync, cancelled, conn, brokerVars>>
  BY <1>10 DEF AnnounceLook, syncVars, clientVars
<1>11. ASSUME NEW g \in Relays, NEW c \in Cameras, WatchStep(g, c) \/ Enter(g, c) \/ Frigate(g, c)
       PROVE  UNCHANGED <<relay, sync, cancelled, conn, brokerVars>>
  BY <1>11 DEF WatchStep, Dial, Hear, StopFollowing, EndCurrent, WatchAgain, Enter, Frigate, syncVars, clientVars
<1>12. CASE UNCHANGED vars
  BY <1>9, <1>12 DEF vars, syncVars, clientVars
<1> QED
  BY <1>1, <1>2, <1>3, <1>4, <1>5, <1>6, <1>7, <1>8, <1>9, <1>10, <1>11, <1>12
  DEF Next, SyncStep, HandleStep

\* A relay does nothing before it is started.
LEMMA UnstartedStep ==
  ASSUME TypeOK, Syncing, Unstarted, [Next]_vars
  PROVE  Unstarted'
<1>1. CASE BeginSync
  BY <1>1
  DEF BeginSync, TypeOK, Unstarted, clientVars, brokerVars, syncVars, handleVars, frigateVars
<1>2. CASE CloseOld
  BY <1>2
  DEF CloseOld, Close, TypeOK, Unstarted, clientVars, brokerVars, syncVars, handleVars, frigateVars
<1>3. CASE ShutOld
  BY <1>3
  DEF ShutOld, Shut, TypeOK, Unstarted, clientVars, brokerVars, syncVars, handleVars, frigateVars
<1>4. CASE StartNew
  <2>1. CASE wanted = "no"
    BY <1>4, <2>1 DEF StartNew, Unstarted, handleVars
  <2>2. CASE wanted = "yes"
    <3>1. relay' = relay + 1 /\ relay \in Nat
      BY <1>4, <2>2 DEF StartNew, TypeOK
    <3>2. \A g \in Relays : g > relay' => g > relay /\ g # relay'
      BY <3>1 DEF Relays
    <3>3. \A g \in Relays : g # relay' => watch'[g] = watch[g] /\ announcer'[g] = announcer[g]
      BY <1>4, <2>2 DEF StartNew, TypeOK
    <3> QED BY <1>4, <3>2, <3>3 DEF StartNew, Unstarted, handleVars
  <2> QED BY <1>4, <2>1, <2>2 DEF StartNew
<1>5. ASSUME NEW g \in Relays, AnnounceLook(g) PROVE Unstarted'
  BY <1>5
  DEF AnnounceLook, TypeOK, Unstarted, clientVars, brokerVars, syncVars, handleVars, frigateVars
<1>6. ASSUME NEW g \in Relays, AnnouncePublish(g) PROVE Unstarted'
  BY <1>6
  DEF AnnouncePublish, TypeOK, Unstarted, clientVars, brokerVars, syncVars, handleVars, frigateVars
<1>7. ASSUME NEW g \in Relays, NEW c \in Cameras, Dial(g, c)
     PROVE  Unstarted'
  <2>1. PICK w : watch' = [watch EXCEPT ![g][c] = w]
    BY <1>7 DEF Dial, Ends
  <2> QED BY <1>7, <2>1 DEF Dial, TypeOK, Unstarted, syncVars, handleVars
<1>8. ASSUME NEW g \in Relays, NEW c \in Cameras, Hear(g, c)
     PROVE  Unstarted'
  BY <1>8
  DEF Hear, Call, TypeOK, Unstarted, clientVars, brokerVars, syncVars, handleVars, frigateVars
<1>9. ASSUME NEW g \in Relays, NEW c \in Cameras, StopFollowing(g, c)
     PROVE  Unstarted'
  BY <1>9
  DEF StopFollowing, Ends, TypeOK, Unstarted, clientVars, brokerVars, syncVars, handleVars, frigateVars
<1>10. ASSUME NEW g \in Relays, NEW c \in Cameras, EndCurrent(g, c)
     PROVE  Unstarted'
  BY <1>10
  DEF EndCurrent, Call, TypeOK, Unstarted, clientVars, brokerVars, syncVars, handleVars, frigateVars
<1>11. ASSUME NEW g \in Relays, NEW c \in Cameras, WatchAgain(g, c)
     PROVE  Unstarted'
  BY <1>11
  DEF WatchAgain, TypeOK, Unstarted, clientVars, brokerVars, syncVars, handleVars, frigateVars
<1>12. ASSUME NEW g \in Relays, NEW c \in Cameras, Enter(g, c)
     PROVE  Unstarted'
  <2>1. PICK h : handle' = [handle EXCEPT ![g][c] = h]
    BY <1>12 DEF Enter, Goto
  <2> QED BY <1>12, <2>1 DEF Enter, TypeOK, Unstarted, syncVars
<1>13. ASSUME NEW g \in Relays, NEW c \in Cameras, PublishState(g, c)
     PROVE  Unstarted'
  BY <1>13
  DEF PublishState, Goto, At, TypeOK, Unstarted, clientVars, brokerVars, syncVars, handleVars, frigateVars
<1>14. ASSUME NEW g \in Relays, NEW c \in Cameras, PublishEvent(g, c)
     PROVE  Unstarted'
  BY <1>14
  DEF PublishEvent, Goto, At, TypeOK, Unstarted, clientVars, brokerVars, syncVars, handleVars, frigateVars
<1>15. ASSUME NEW g \in Relays, NEW c \in Cameras, Frigate(g, c)
     PROVE  Unstarted'
  BY <1>15
  DEF Frigate, Goto, At, Opens, Closes, TypeOK, Unstarted, clientVars, brokerVars, syncVars, handleVars, frigateVars
<1>16. CASE PublishWill
  BY <1>16
  DEF PublishWill, TypeOK, Unstarted, clientVars, brokerVars, syncVars, handleVars, frigateVars
<1>17. CASE BrokerDrops
  BY <1>17
  DEF BrokerDrops, TypeOK, Unstarted, clientVars, brokerVars, syncVars, handleVars, frigateVars
<1>18. CASE UNCHANGED vars
  BY <1>18 DEF Unstarted, vars, clientVars, brokerVars, syncVars, handleVars, frigateVars
<1> QED
  BY <1>1, <1>2, <1>3, <1>4, <1>5, <1>6, <1>7, <1>8, <1>9, <1>10, <1>11,
     <1>12, <1>13, <1>14, <1>15, <1>16, <1>17, <1>18
  DEF Next, SyncStep, WatchStep, HandleStep

\* syncRelay replaces a relay only after it has cancelled it.
LEMMA SyncingStep ==
  ASSUME TypeOK, Syncing, [Next]_vars
  PROVE  Syncing'
<1>1. CASE BeginSync
  BY <1>1
  DEF BeginSync, TypeOK, Syncing, Relays, Nobody, clientVars, brokerVars, syncVars, handleVars, frigateVars
<1>2. CASE CloseOld
  BY <1>2
  DEF CloseOld, Close, TypeOK, Syncing, Relays, Nobody, clientVars, brokerVars, syncVars, handleVars, frigateVars
<1>3. CASE ShutOld
  BY <1>3
  DEF ShutOld, Shut, TypeOK, Syncing, Relays, Nobody, clientVars, brokerVars, syncVars, handleVars, frigateVars
<1>4. CASE StartNew
  BY <1>4
  DEF StartNew, TypeOK, Syncing, Relays, Nobody, clientVars, brokerVars, syncVars, handleVars, frigateVars
<1>5. ASSUME NEW g \in Relays, AnnounceLook(g) PROVE Syncing'
  BY <1>5
  DEF AnnounceLook, TypeOK, Syncing, Relays, Nobody, clientVars, brokerVars, syncVars, handleVars, frigateVars
<1>6. ASSUME NEW g \in Relays, AnnouncePublish(g) PROVE Syncing'
  BY <1>6
  DEF AnnouncePublish, TypeOK, Syncing, Relays, Nobody, clientVars, brokerVars, syncVars, handleVars, frigateVars
<1>7. ASSUME NEW g \in Relays, NEW c \in Cameras, Dial(g, c)
     PROVE  Syncing'
  BY <1>7
  DEF Dial, Ends, TypeOK, Syncing, Relays, Nobody, clientVars, brokerVars, syncVars, handleVars, frigateVars
<1>8. ASSUME NEW g \in Relays, NEW c \in Cameras, Hear(g, c)
     PROVE  Syncing'
  BY <1>8
  DEF Hear, Call, TypeOK, Syncing, Relays, Nobody, clientVars, brokerVars, syncVars, handleVars, frigateVars
<1>9. ASSUME NEW g \in Relays, NEW c \in Cameras, StopFollowing(g, c)
     PROVE  Syncing'
  BY <1>9
  DEF StopFollowing, Ends, TypeOK, Syncing, Relays, Nobody, clientVars, brokerVars, syncVars, handleVars, frigateVars
<1>10. ASSUME NEW g \in Relays, NEW c \in Cameras, EndCurrent(g, c)
     PROVE  Syncing'
  BY <1>10
  DEF EndCurrent, Call, TypeOK, Syncing, Relays, Nobody, clientVars, brokerVars, syncVars, handleVars, frigateVars
<1>11. ASSUME NEW g \in Relays, NEW c \in Cameras, WatchAgain(g, c)
     PROVE  Syncing'
  BY <1>11
  DEF WatchAgain, TypeOK, Syncing, Relays, Nobody, clientVars, brokerVars, syncVars, handleVars, frigateVars
<1>12. ASSUME NEW g \in Relays, NEW c \in Cameras, Enter(g, c)
     PROVE  Syncing'
  BY <1>12
  DEF Enter, Goto, TypeOK, Syncing, Relays, Nobody, clientVars, brokerVars, syncVars, handleVars, frigateVars
<1>13. ASSUME NEW g \in Relays, NEW c \in Cameras, PublishState(g, c)
     PROVE  Syncing'
  BY <1>13
  DEF PublishState, Goto, At, TypeOK, Syncing, Relays, Nobody, clientVars, brokerVars, syncVars, handleVars, frigateVars
<1>14. ASSUME NEW g \in Relays, NEW c \in Cameras, PublishEvent(g, c)
     PROVE  Syncing'
  BY <1>14
  DEF PublishEvent, Goto, At, TypeOK, Syncing, Relays, Nobody, clientVars, brokerVars, syncVars, handleVars, frigateVars
<1>15. ASSUME NEW g \in Relays, NEW c \in Cameras, Frigate(g, c)
     PROVE  Syncing'
  BY <1>15
  DEF Frigate, Goto, At, Opens, Closes, TypeOK, Syncing, Relays, Nobody, clientVars, brokerVars, syncVars, handleVars, frigateVars
<1>16. CASE PublishWill
  BY <1>16
  DEF PublishWill, TypeOK, Syncing, Relays, Nobody, clientVars, brokerVars, syncVars, handleVars, frigateVars
<1>17. CASE BrokerDrops
  BY <1>17
  DEF BrokerDrops, TypeOK, Syncing, Relays, Nobody, clientVars, brokerVars, syncVars, handleVars, frigateVars
<1>18. CASE UNCHANGED vars
  BY <1>18 DEF Syncing, vars, clientVars, brokerVars, syncVars, handleVars, frigateVars
<1> QED
  BY <1>1, <1>2, <1>3, <1>4, <1>5, <1>6, <1>7, <1>8, <1>9, <1>10, <1>11,
     <1>12, <1>13, <1>14, <1>15, <1>16, <1>17, <1>18
  DEF Next, SyncStep, WatchStep, HandleStep

\* A relay is shut before its successor starts, and stays so.
LEMMA OldShutStep ==
  ASSUME TypeOK, Syncing, OldShut, [Next]_vars
  PROVE  OldShut'
<1>1. CASE BeginSync
  BY <1>1
  DEF BeginSync, TypeOK, Syncing, OldShut, Relays, Nobody, clientVars, brokerVars, syncVars, handleVars, frigateVars
<1>2. CASE CloseOld
  BY <1>2
  DEF CloseOld, Close, TypeOK, Syncing, OldShut, Relays, Nobody, clientVars, brokerVars, syncVars, handleVars, frigateVars
<1>3. CASE ShutOld
  BY <1>3
  DEF ShutOld, Shut, TypeOK, Syncing, OldShut, Relays, Nobody, clientVars, brokerVars, syncVars, handleVars, frigateVars
<1>4. CASE StartNew
  BY <1>4
  DEF StartNew, TypeOK, Syncing, OldShut, Relays, Nobody, clientVars, brokerVars, syncVars, handleVars, frigateVars
<1>5. ASSUME NEW g \in Relays, AnnounceLook(g) PROVE OldShut'
  BY <1>5
  DEF AnnounceLook, TypeOK, Syncing, OldShut, Relays, Nobody, clientVars, brokerVars, syncVars, handleVars, frigateVars
<1>6. ASSUME NEW g \in Relays, AnnouncePublish(g) PROVE OldShut'
  BY <1>6
  DEF AnnouncePublish, TypeOK, Syncing, OldShut, Relays, Nobody, clientVars, brokerVars, syncVars, handleVars, frigateVars
<1>7. ASSUME NEW g \in Relays, NEW c \in Cameras, Dial(g, c)
     PROVE  OldShut'
  BY <1>7
  DEF Dial, Ends, TypeOK, Syncing, OldShut, Relays, Nobody, clientVars, brokerVars, syncVars, handleVars, frigateVars
<1>8. ASSUME NEW g \in Relays, NEW c \in Cameras, Hear(g, c)
     PROVE  OldShut'
  BY <1>8
  DEF Hear, Call, TypeOK, Syncing, OldShut, Relays, Nobody, clientVars, brokerVars, syncVars, handleVars, frigateVars
<1>9. ASSUME NEW g \in Relays, NEW c \in Cameras, StopFollowing(g, c)
     PROVE  OldShut'
  BY <1>9
  DEF StopFollowing, Ends, TypeOK, Syncing, OldShut, Relays, Nobody, clientVars, brokerVars, syncVars, handleVars, frigateVars
<1>10. ASSUME NEW g \in Relays, NEW c \in Cameras, EndCurrent(g, c)
     PROVE  OldShut'
  BY <1>10
  DEF EndCurrent, Call, TypeOK, Syncing, OldShut, Relays, Nobody, clientVars, brokerVars, syncVars, handleVars, frigateVars
<1>11. ASSUME NEW g \in Relays, NEW c \in Cameras, WatchAgain(g, c)
     PROVE  OldShut'
  BY <1>11
  DEF WatchAgain, TypeOK, Syncing, OldShut, Relays, Nobody, clientVars, brokerVars, syncVars, handleVars, frigateVars
<1>12. ASSUME NEW g \in Relays, NEW c \in Cameras, Enter(g, c)
     PROVE  OldShut'
  BY <1>12
  DEF Enter, Goto, TypeOK, Syncing, OldShut, Relays, Nobody, clientVars, brokerVars, syncVars, handleVars, frigateVars
<1>13. ASSUME NEW g \in Relays, NEW c \in Cameras, PublishState(g, c)
     PROVE  OldShut'
  BY <1>13
  DEF PublishState, Goto, At, TypeOK, Syncing, OldShut, Relays, Nobody, clientVars, brokerVars, syncVars, handleVars, frigateVars
<1>14. ASSUME NEW g \in Relays, NEW c \in Cameras, PublishEvent(g, c)
     PROVE  OldShut'
  BY <1>14
  DEF PublishEvent, Goto, At, TypeOK, Syncing, OldShut, Relays, Nobody, clientVars, brokerVars, syncVars, handleVars, frigateVars
<1>15. ASSUME NEW g \in Relays, NEW c \in Cameras, Frigate(g, c)
     PROVE  OldShut'
  BY <1>15
  DEF Frigate, Goto, At, Opens, Closes, TypeOK, Syncing, OldShut, Relays, Nobody, clientVars, brokerVars, syncVars, handleVars, frigateVars
<1>16. CASE PublishWill
  BY <1>16
  DEF PublishWill, TypeOK, Syncing, OldShut, Relays, Nobody, clientVars, brokerVars, syncVars, handleVars, frigateVars
<1>17. CASE BrokerDrops
  BY <1>17
  DEF BrokerDrops, TypeOK, Syncing, OldShut, Relays, Nobody, clientVars, brokerVars, syncVars, handleVars, frigateVars
<1>18. CASE UNCHANGED vars
  BY <1>18 DEF OldShut, vars, clientVars, brokerVars, syncVars, handleVars, frigateVars
<1> QED
  BY <1>1, <1>2, <1>3, <1>4, <1>5, <1>6, <1>7, <1>8, <1>9, <1>10, <1>11,
     <1>12, <1>13, <1>14, <1>15, <1>16, <1>17, <1>18
  DEF Next, SyncStep, WatchStep, HandleStep

\* Only relays that have been started are heard.
LEMMA SaidStep ==
  ASSUME TypeOK, Unstarted, Syncing, SaidByStarted, [Next]_vars
  PROVE  SaidByStarted'
<1>1. CASE BeginSync
  BY <1>1
  DEF BeginSync, TypeOK, SaidByStarted, clientVars, brokerVars, syncVars, handleVars, frigateVars
<1>2. CASE CloseOld
  BY <1>2
  DEF CloseOld, Close, TypeOK, SaidByStarted, clientVars, brokerVars, syncVars, handleVars, frigateVars
<1>3. CASE ShutOld
  BY <1>3
  DEF ShutOld, Shut, TypeOK, SaidByStarted, clientVars, brokerVars, syncVars, handleVars, frigateVars
<1>4. CASE StartNew
  <2>1. relay' \in {relay, relay + 1}
    BY <1>4 DEF StartNew
  <2>2. said' = said \/ said' = relay'
    BY <1>4, StartNewPublish, PublishTypes DEF brokerVars
  <2> QED BY <2>1, <2>2 DEF SaidByStarted, TypeOK
<1>5. ASSUME NEW g \in Relays, AnnounceLook(g) PROVE SaidByStarted'
  BY <1>5
  DEF AnnounceLook, TypeOK, SaidByStarted, clientVars, brokerVars, syncVars, handleVars, frigateVars
<1>6. ASSUME NEW g \in Relays, AnnouncePublish(g) PROVE SaidByStarted'
  <2>1. PICK outcome : Publish(g, outcome)
    BY <1>6 DEF AnnouncePublish
  <2>2. g <= relay /\ relay' = relay
    BY <1>6, WhoIsStarted DEF AnnouncePublish, syncVars
  <2>3. said' \in {said, g}
    BY <2>1, PublishTypes
  <2> QED BY <2>2, <2>3 DEF SaidByStarted
<1>7. ASSUME NEW g \in Relays, NEW c \in Cameras, Dial(g, c)
     PROVE  SaidByStarted'
  BY <1>7
  DEF Dial, Ends, TypeOK, SaidByStarted, clientVars, brokerVars, syncVars, handleVars, frigateVars
<1>8. ASSUME NEW g \in Relays, NEW c \in Cameras, Hear(g, c)
     PROVE  SaidByStarted'
  BY <1>8
  DEF Hear, Call, TypeOK, SaidByStarted, clientVars, brokerVars, syncVars, handleVars, frigateVars
<1>9. ASSUME NEW g \in Relays, NEW c \in Cameras, StopFollowing(g, c)
     PROVE  SaidByStarted'
  BY <1>9
  DEF StopFollowing, Ends, TypeOK, SaidByStarted, clientVars, brokerVars, syncVars, handleVars, frigateVars
<1>10. ASSUME NEW g \in Relays, NEW c \in Cameras, EndCurrent(g, c)
     PROVE  SaidByStarted'
  BY <1>10
  DEF EndCurrent, Call, TypeOK, SaidByStarted, clientVars, brokerVars, syncVars, handleVars, frigateVars
<1>11. ASSUME NEW g \in Relays, NEW c \in Cameras, WatchAgain(g, c)
     PROVE  SaidByStarted'
  BY <1>11
  DEF WatchAgain, TypeOK, SaidByStarted, clientVars, brokerVars, syncVars, handleVars, frigateVars
<1>12. ASSUME NEW g \in Relays, NEW c \in Cameras, Enter(g, c)
     PROVE  SaidByStarted'
  BY <1>12
  DEF Enter, Goto, TypeOK, SaidByStarted, clientVars, brokerVars, syncVars, handleVars, frigateVars
<1>13. ASSUME NEW g \in Relays, NEW c \in Cameras, PublishState(g, c)
     PROVE  SaidByStarted'
  <2>1. PICK outcome : Publish(g, outcome)
    BY <1>13 DEF PublishState
  <2>2. g <= relay /\ relay' = relay
    BY <1>13, WhoIsStarted DEF PublishState, syncVars, At
  <2>3. said' \in {said, g}
    BY <2>1, PublishTypes
  <2> QED BY <2>2, <2>3 DEF SaidByStarted
<1>14. ASSUME NEW g \in Relays, NEW c \in Cameras, PublishEvent(g, c)
     PROVE  SaidByStarted'
  <2>1. PICK outcome : Publish(g, outcome)
    BY <1>14 DEF PublishEvent
  <2>2. g <= relay /\ relay' = relay
    BY <1>14, WhoIsStarted DEF PublishEvent, syncVars, At
  <2>3. said' \in {said, g}
    BY <2>1, PublishTypes
  <2> QED BY <2>2, <2>3 DEF SaidByStarted
<1>15. ASSUME NEW g \in Relays, NEW c \in Cameras, Frigate(g, c)
     PROVE  SaidByStarted'
  BY <1>15
  DEF Frigate, Goto, At, Opens, Closes, TypeOK, SaidByStarted, clientVars, brokerVars, syncVars, handleVars, frigateVars
<1>16. CASE PublishWill
  BY <1>16
  DEF PublishWill, TypeOK, SaidByStarted, clientVars, brokerVars, syncVars, handleVars, frigateVars
<1>17. CASE BrokerDrops
  BY <1>17
  DEF BrokerDrops, TypeOK, SaidByStarted, clientVars, brokerVars, syncVars, handleVars, frigateVars
<1>18. CASE UNCHANGED vars
  BY <1>18 DEF SaidByStarted, vars, clientVars, brokerVars, syncVars, handleVars, frigateVars
<1> QED
  BY <1>1, <1>2, <1>3, <1>4, <1>5, <1>6, <1>7, <1>8, <1>9, <1>10, <1>11,
     <1>12, <1>13, <1>14, <1>15, <1>16, <1>17, <1>18
  DEF Next, SyncStep, WatchStep, HandleStep

\* The broker hears from the relay started last, or from none.
LEMMA LaterStep ==
  ASSUME TypeOK, Unstarted, Syncing, OldShut, SaidByStarted, [Next]_vars
  PROVE  said' >= said
<1>1. CASE BeginSync
  BY <1>1
  DEF BeginSync, TypeOK, SaidByStarted, clientVars, brokerVars, syncVars, handleVars, frigateVars
<1>2. CASE CloseOld
  BY <1>2
  DEF CloseOld, Close, TypeOK, SaidByStarted, clientVars, brokerVars, syncVars, handleVars, frigateVars
<1>3. CASE ShutOld
  BY <1>3
  DEF ShutOld, Shut, TypeOK, SaidByStarted, clientVars, brokerVars, syncVars, handleVars, frigateVars
<1>4. CASE StartNew
  <2>1. relay' \in {relay, relay + 1}
    BY <1>4 DEF StartNew
  <2>2. said' = said \/ said' = relay'
    BY <1>4, StartNewPublish, PublishTypes DEF brokerVars
  <2> QED BY <2>1, <2>2 DEF SaidByStarted, TypeOK
<1>5. ASSUME NEW g \in Relays, AnnounceLook(g) PROVE said' >= said
  BY <1>5
  DEF AnnounceLook, TypeOK, SaidByStarted, clientVars, brokerVars, syncVars, handleVars, frigateVars
<1>6. ASSUME NEW g \in Relays, AnnouncePublish(g) PROVE said' >= said
  <2>1. PICK outcome : Publish(g, outcome)
    BY <1>6 DEF AnnouncePublish
  <2>2. g <= relay
    BY <1>6, WhoIsStarted DEF AnnouncePublish
  <2>3. said' # said => said' = g /\ shut[g] = "no"
    BY <2>1, PublishSaid
  <2>4. shut[g] = "no" => ~ (g < relay)
    BY DEF OldShut
  <2> QED BY <2>2, <2>3, <2>4 DEF SaidByStarted, TypeOK, Relays
<1>7. ASSUME NEW g \in Relays, NEW c \in Cameras, Dial(g, c)
     PROVE  said' >= said
  BY <1>7
  DEF Dial, Ends, TypeOK, SaidByStarted, clientVars, brokerVars, syncVars, handleVars, frigateVars
<1>8. ASSUME NEW g \in Relays, NEW c \in Cameras, Hear(g, c)
     PROVE  said' >= said
  BY <1>8
  DEF Hear, Call, TypeOK, SaidByStarted, clientVars, brokerVars, syncVars, handleVars, frigateVars
<1>9. ASSUME NEW g \in Relays, NEW c \in Cameras, StopFollowing(g, c)
     PROVE  said' >= said
  BY <1>9
  DEF StopFollowing, Ends, TypeOK, SaidByStarted, clientVars, brokerVars, syncVars, handleVars, frigateVars
<1>10. ASSUME NEW g \in Relays, NEW c \in Cameras, EndCurrent(g, c)
     PROVE  said' >= said
  BY <1>10
  DEF EndCurrent, Call, TypeOK, SaidByStarted, clientVars, brokerVars, syncVars, handleVars, frigateVars
<1>11. ASSUME NEW g \in Relays, NEW c \in Cameras, WatchAgain(g, c)
     PROVE  said' >= said
  BY <1>11
  DEF WatchAgain, TypeOK, SaidByStarted, clientVars, brokerVars, syncVars, handleVars, frigateVars
<1>12. ASSUME NEW g \in Relays, NEW c \in Cameras, Enter(g, c)
     PROVE  said' >= said
  BY <1>12
  DEF Enter, Goto, TypeOK, SaidByStarted, clientVars, brokerVars, syncVars, handleVars, frigateVars
<1>13. ASSUME NEW g \in Relays, NEW c \in Cameras, PublishState(g, c)
     PROVE  said' >= said
  <2>1. PICK outcome : Publish(g, outcome)
    BY <1>13 DEF PublishState
  <2>2. g <= relay
    BY <1>13, WhoIsStarted DEF PublishState, At
  <2>3. said' # said => said' = g /\ shut[g] = "no"
    BY <2>1, PublishSaid
  <2>4. shut[g] = "no" => ~ (g < relay)
    BY DEF OldShut
  <2> QED BY <2>2, <2>3, <2>4 DEF SaidByStarted, TypeOK, Relays
<1>14. ASSUME NEW g \in Relays, NEW c \in Cameras, PublishEvent(g, c)
     PROVE  said' >= said
  <2>1. PICK outcome : Publish(g, outcome)
    BY <1>14 DEF PublishEvent
  <2>2. g <= relay
    BY <1>14, WhoIsStarted DEF PublishEvent, At
  <2>3. said' # said => said' = g /\ shut[g] = "no"
    BY <2>1, PublishSaid
  <2>4. shut[g] = "no" => ~ (g < relay)
    BY DEF OldShut
  <2> QED BY <2>2, <2>3, <2>4 DEF SaidByStarted, TypeOK, Relays
<1>15. ASSUME NEW g \in Relays, NEW c \in Cameras, Frigate(g, c)
     PROVE  said' >= said
  BY <1>15
  DEF Frigate, Goto, At, Opens, Closes, TypeOK, SaidByStarted, clientVars, brokerVars, syncVars, handleVars, frigateVars
<1>16. CASE PublishWill
  BY <1>16
  DEF PublishWill, TypeOK, SaidByStarted, clientVars, brokerVars, syncVars, handleVars, frigateVars
<1>17. CASE BrokerDrops
  BY <1>17
  DEF BrokerDrops, TypeOK, SaidByStarted, clientVars, brokerVars, syncVars, handleVars, frigateVars
<1>18. CASE UNCHANGED vars
  BY <1>18 DEF TypeOK, vars, clientVars, brokerVars, syncVars, handleVars, frigateVars
<1> QED
  BY <1>1, <1>2, <1>3, <1>4, <1>5, <1>6, <1>7, <1>8, <1>9, <1>10, <1>11,
     <1>12, <1>13, <1>14, <1>15, <1>16, <1>17, <1>18
  DEF Next, SyncStep, WatchStep, HandleStep

\* What the first relay published last is what its Watch heard last.
LEMMA PublishedStep ==
  ASSUME TypeOK, Unstarted, Syncing, Published, [Next]_vars
  PROVE  Published'
<1>1. CASE BeginSync
  BY <1>1
  DEF BeginSync, TypeOK, OnOff, Published, Nobody, clientVars, brokerVars, syncVars, handleVars, frigateVars
<1>2. CASE CloseOld
  BY <1>2
  DEF CloseOld, Close, TypeOK, OnOff, Published, Nobody, clientVars, brokerVars, syncVars, handleVars, frigateVars
<1>3. CASE ShutOld
  BY <1>3
  DEF ShutOld, Shut, TypeOK, OnOff, Published, Nobody, clientVars, brokerVars, syncVars, handleVars, frigateVars
<1>4. CASE StartNew
  <2>1. relay' = relay \/ relay' = relay + 1
    BY <1>4 DEF StartNew
  <2>2. UNCHANGED <<cancelled, cur, handle, retained, missed>>
    BY <1>4 DEF StartNew, handleVars
  <2>3. relay \in Nat /\ (relay = 0 => \A c \in Cameras : 1 \in Relays => cur[1][c] = "off")
    <3>1. relay \in Nat
      BY DEF TypeOK
    <3>2. relay = 0 => 1 > relay
      OBVIOUS
    <3> QED BY <3>1, <3>2 DEF Unstarted
  <2>4. relay' = 1 => 1 \in Relays
    BY <1>4, RelayAssumption DEF StartNew, Syncing, TypeOK, Relays
  <2> QED BY <2>1, <2>2, <2>3, <2>4 DEF Published, Nobody
<1>5. ASSUME NEW g \in Relays, AnnounceLook(g) PROVE Published'
  BY <1>5
  DEF AnnounceLook, TypeOK, OnOff, Published, Nobody, clientVars, brokerVars, syncVars, handleVars, frigateVars
<1>6. ASSUME NEW g \in Relays, AnnouncePublish(g) PROVE Published'
  BY <1>6
  DEF AnnouncePublish, TypeOK, OnOff, Published, Nobody, clientVars, brokerVars, syncVars, handleVars, frigateVars
<1>7. ASSUME NEW g \in Relays, NEW c \in Cameras, Dial(g, c)
     PROVE  Published'
  BY <1>7
  DEF Dial, Ends, TypeOK, OnOff, Published, Nobody, clientVars, brokerVars, syncVars, handleVars, frigateVars
<1>8. ASSUME NEW g \in Relays, NEW c \in Cameras, Hear(g, c)
     PROVE  Published'
  BY <1>8
  DEF Hear, Call, TypeOK, OnOff, Published, Nobody, clientVars, brokerVars, syncVars, handleVars, frigateVars
<1>9. ASSUME NEW g \in Relays, NEW c \in Cameras, StopFollowing(g, c)
     PROVE  Published'
  BY <1>9
  DEF StopFollowing, Ends, TypeOK, OnOff, Published, Nobody, clientVars, brokerVars, syncVars, handleVars, frigateVars
<1>10. ASSUME NEW g \in Relays, NEW c \in Cameras, EndCurrent(g, c)
     PROVE  Published'
  BY <1>10
  DEF EndCurrent, Call, TypeOK, OnOff, Published, Nobody, clientVars, brokerVars, syncVars, handleVars, frigateVars
<1>11. ASSUME NEW g \in Relays, NEW c \in Cameras, WatchAgain(g, c)
     PROVE  Published'
  BY <1>11
  DEF WatchAgain, TypeOK, OnOff, Published, Nobody, clientVars, brokerVars, syncVars, handleVars, frigateVars
<1>12. ASSUME NEW g \in Relays, NEW c \in Cameras, Enter(g, c)
     PROVE  Published'
  <2>1. handle' = [handle EXCEPT ![g][c] = IF g \in cancelled THEN "none" ELSE "state"]
    BY <1>12 DEF Enter, Goto
  <2> QED BY <1>12, <2>1 DEF Enter, TypeOK, Published, syncVars
<1>13. ASSUME NEW g \in Relays, NEW c \in Cameras, PublishState(g, c)
     PROVE  Published'
  <2>1. g <= relay /\ g \in Nat \ {0} /\ relay' = relay /\ cancelled' = cancelled /\ cur' = cur
    BY <1>13, WhoIsStarted DEF PublishState, At, Relays, syncVars
  <2>2. relay = 1 => g = 1
    BY <2>1
  <2>3. handle' = [handle EXCEPT ![g][c] = "event"]
    BY <1>13 DEF PublishState, Goto
  <2>4. \/ retained' = [retained EXCEPT ![c] = cur[g][c]] /\ missed' = missed \ {c}
        \/ retained' = retained /\ missed' = missed \union {c}
    BY <1>13 DEF PublishState
  <2>5. ASSUME NEW d \in Cameras, relay' = 1, cancelled' = {}, d \notin missed',
               handle'[1][d] \in {"none", "event", "frigate"}
        PROVE  retained'[d] = "on" <=> cur'[1][d] = "on"
    <3>1. CASE d = c
      BY <2>1, <2>2, <2>4, <2>5, <3>1 DEF TypeOK
    <3>2. CASE d # c
      <4>1. handle[1][d] = handle'[1][d]
        BY <2>2, <2>1, <2>3, <2>5, <3>2 DEF TypeOK
      <4> QED BY <2>1, <2>4, <2>5, <3>2, <4>1 DEF Published, TypeOK
    <3> QED BY <3>1, <3>2
  <2>6. relay # Nobody
    BY <2>1 DEF TypeOK, Nobody
  <2> QED BY <2>1, <2>5, <2>6 DEF Published
<1>14. ASSUME NEW g \in Relays, NEW c \in Cameras, PublishEvent(g, c)
     PROVE  Published'
  BY <1>14
  DEF PublishEvent, Goto, At, TypeOK, OnOff, Published, Nobody, clientVars, brokerVars, syncVars, handleVars, frigateVars
<1>15. ASSUME NEW g \in Relays, NEW c \in Cameras, Frigate(g, c)
     PROVE  Published'
  BY <1>15
  DEF Frigate, Goto, At, Opens, Closes, TypeOK, OnOff, Published, Nobody, clientVars, brokerVars, syncVars, handleVars, frigateVars
<1>16. CASE PublishWill
  BY <1>16
  DEF PublishWill, TypeOK, OnOff, Published, Nobody, clientVars, brokerVars, syncVars, handleVars, frigateVars
<1>17. CASE BrokerDrops
  BY <1>17
  DEF BrokerDrops, TypeOK, OnOff, Published, Nobody, clientVars, brokerVars, syncVars, handleVars, frigateVars
<1>18. CASE UNCHANGED vars
  BY <1>18 DEF Published, vars, clientVars, brokerVars, syncVars, handleVars, frigateVars
<1> QED
  BY <1>1, <1>2, <1>3, <1>4, <1>5, <1>6, <1>7, <1>8, <1>9, <1>10, <1>11,
     <1>12, <1>13, <1>14, <1>15, <1>16, <1>17, <1>18
  DEF Next, SyncStep, WatchStep, HandleStep

-----------------------------------------------------------------------------
(* Events at Frigate. *)

\* What is remembered of a camera depends on open alone.
LEMMA SameRemembered ==
  ASSUME Remembered, UNCHANGED frigateVars
  PROVE  Remembered'
<1>1. \A c \in Cameras : OpenBy(c)' = OpenBy(c)
  BY DEF OpenBy, frigateVars
<1> QED BY <1>1 DEF Remembered, frigateVars

\* A call for motion begins an event that is remembered, or an orphan.
LEMMA OpensRemembered ==
  ASSUME TypeOK, Remembered, NEW g \in Relays, NEW c \in Cameras, Opens(g, c)
  PROVE  Remembered'
<1>1. CASE UNCHANGED frigateVars
  BY <1>1, SameRemembered
<1>2. CASE ~ UNCHANGED frigateVars
  <2>1. <<g, c>> \notin open /\ events' = [events EXCEPT ![c] = @ + 1]
        /\ \/ open' = open \union {<<g, c>>} /\ UNCHANGED orphans
           \/ orphans' = [orphans EXCEPT ![c] = @ + 1] /\ UNCHANGED open
    BY <1>2 DEF Opens
  <2>2. ASSUME NEW d \in Cameras
        PROVE  events'[d] = Cardinality(OpenBy(d)') + orphans'[d]
    <3>1. /\ events[d] \in Nat /\ IsFiniteSet(OpenBy(d)) /\ Cardinality(OpenBy(d)) \in Nat
          /\ orphans[d] \in Nat /\ events[d] = Cardinality(OpenBy(d)) + orphans[d]
      BY OpenByFinite DEF TypeOK, Remembered
    <3>2. CASE d # c
      <4>1. OpenBy(d)' = OpenBy(d) /\ events'[d] = events[d] /\ orphans'[d] = orphans[d]
        BY <2>1, <3>2 DEF OpenBy, TypeOK
      <4> QED BY <3>1, <4>1
    <3>3. CASE d = c /\ open' = open \union {<<g, c>>} /\ UNCHANGED orphans
      <4>1. OpenBy(d)' = OpenBy(d) \union {g} /\ g \notin OpenBy(d)
        BY <2>1, <3>3 DEF OpenBy
      <4>2. Cardinality(OpenBy(d)') = Cardinality(OpenBy(d)) + 1
        BY <3>1, <4>1, FS_AddElement
      <4>3. events'[d] = events[d] + 1
        BY <2>1, <3>3 DEF TypeOK
      <4> QED BY <3>1, <3>3, <4>2, <4>3
    <3>4. CASE d = c /\ orphans' = [orphans EXCEPT ![c] = @ + 1] /\ UNCHANGED open
      <4>1. OpenBy(d)' = OpenBy(d) /\ orphans'[d] = orphans[d] + 1 /\ events'[d] = events[d] + 1
        BY <2>1, <3>4 DEF OpenBy, TypeOK
      <4> QED BY <3>1, <4>1
    <3> QED BY <2>1, <3>2, <3>3, <3>4
  <2> QED BY <2>2 DEF Remembered
<1> QED BY <1>1, <1>2

\* A call for its end forgets an event, and ends it or leaves an orphan.
LEMMA ClosesRemembered ==
  ASSUME TypeOK, Remembered, NEW g \in Relays, NEW c \in Cameras, Closes(g, c)
  PROVE  Remembered'
<1>1. CASE UNCHANGED frigateVars
  BY <1>1, SameRemembered
<1>2. CASE ~ UNCHANGED frigateVars
  <2>1. <<g, c>> \in open /\ open' = open \ {<<g, c>>}
        /\ \/ events' = [events EXCEPT ![c] = @ - 1] /\ UNCHANGED orphans
           \/ orphans' = [orphans EXCEPT ![c] = @ + 1] /\ UNCHANGED events
    BY <1>2 DEF Closes
  <2>2. ASSUME NEW d \in Cameras
        PROVE  events'[d] = Cardinality(OpenBy(d)') + orphans'[d]
    <3>1. /\ events[d] \in Nat /\ IsFiniteSet(OpenBy(d)) /\ Cardinality(OpenBy(d)) \in Nat
          /\ orphans[d] \in Nat /\ events[d] = Cardinality(OpenBy(d)) + orphans[d]
      BY OpenByFinite DEF TypeOK, Remembered
    <3>2. CASE d # c
      <4>1. OpenBy(d)' = OpenBy(d) /\ events'[d] = events[d] /\ orphans'[d] = orphans[d]
        BY <2>1, <3>2 DEF OpenBy, TypeOK
      <4> QED BY <3>1, <4>1
    <3>3. CASE d = c
      <4>1. OpenBy(d)' = OpenBy(d) \ {g} /\ g \in OpenBy(d)
        BY <2>1, <3>3 DEF OpenBy
      <4>2. Cardinality(OpenBy(d)') = Cardinality(OpenBy(d)) - 1
        BY <3>1, <4>1, FS_RemoveElement
      <4>3. \/ events'[d] = events[d] - 1 /\ orphans'[d] = orphans[d]
            \/ events'[d] = events[d] /\ orphans'[d] = orphans[d] + 1
        BY <2>1, <3>3 DEF TypeOK
      <4> QED BY <3>1, <4>2, <4>3
    <3> QED BY <3>2, <3>3
  <2> QED BY <2>2 DEF Remembered
<1> QED BY <1>1, <1>2

\* Every other step leaves Frigate and what is remembered of it alone.
LEMMA RememberedStep ==
  ASSUME TypeOK, Remembered, [Next]_vars
  PROVE  Remembered'
<1>1. ASSUME NEW g \in Relays, NEW c \in Cameras, Frigate(g, c) PROVE Remembered'
  <2>1. CASE cur[g][c] = "on"
    BY <1>1, <2>1, OpensRemembered DEF Frigate
  <2>2. CASE cur[g][c] # "on"
    BY <1>1, <2>2, ClosesRemembered DEF Frigate
  <2> QED BY <2>1, <2>2
<1>2. CASE ~ \E g \in Relays, c \in Cameras : Frigate(g, c)
  <2>1. UNCHANGED frigateVars
    BY <1>2
    DEF Next, SyncStep, BeginSync, CloseOld, ShutOld, StartNew, AnnounceLook, AnnouncePublish,
        WatchStep, Dial, Hear, StopFollowing, EndCurrent, WatchAgain, HandleStep, Enter,
        PublishState, PublishEvent, BrokerDrops, PublishWill, vars
  <2> QED BY <2>1, SameRemembered
<1> QED BY <1>1, <1>2

\* An event is begun for motion, and the Off that follows is handled before
\* its Watch has nothing more to say, unless the relay was replaced.
LEMMA OpenSeenStep ==
  ASSUME TypeOK, OpenSeen, [Next]_vars
  PROVE  OpenSeen'
<1>1. CASE BeginSync
  <2>1. UNCHANGED <<open, cur, handle>> /\ cancelled \subseteq cancelled'
    BY <1>1 DEF BeginSync, handleVars, frigateVars
  <2> QED BY <2>1 DEF OpenSeen
<1>2. CASE UNCHANGED <<open, cur, handle, cancelled>>
  BY <1>2 DEF OpenSeen
<1>3. CASE CloseOld \/ ShutOld \/ StartNew \/ BrokerDrops \/ PublishWill \/ UNCHANGED vars
  <2>1. UNCHANGED <<open, cur, handle, cancelled>>
    BY <1>3 DEF CloseOld, ShutOld, StartNew, BrokerDrops, PublishWill, vars, syncVars, handleVars, frigateVars
  <2> QED BY <1>2, <2>1
<1>4. ASSUME NEW g \in Relays, AnnounceLook(g) \/ AnnouncePublish(g)
      PROVE  OpenSeen'
  <2>1. UNCHANGED <<open, cur, handle, cancelled>>
    BY <1>4 DEF AnnounceLook, AnnouncePublish, syncVars, handleVars, frigateVars
  <2> QED BY <1>2, <2>1
<1>5. ASSUME NEW g \in Relays, NEW c \in Cameras, Dial(g, c) \/ StopFollowing(g, c) \/ WatchAgain(g, c)
      PROVE  OpenSeen'
  <2>1. UNCHANGED <<open, cur, handle, cancelled>>
    BY <1>5 DEF Dial, StopFollowing, WatchAgain, syncVars, handleVars, frigateVars
  <2> QED BY <1>2, <2>1
<1>6. ASSUME NEW g \in Relays, NEW c \in Cameras, Hear(g, c) \/ EndCurrent(g, c)
      PROVE  OpenSeen'
  <2>1. PICK on : Call(g, c, on)
    BY <1>6 DEF Hear, EndCurrent
  <2>2. UNCHANGED <<open, cancelled>>
    BY <1>6 DEF Hear, EndCurrent, syncVars, frigateVars
  <2>3. handle' = [handle EXCEPT ![g][c] = "called"] /\ cur' = [cur EXCEPT ![g][c] = on]
    BY <2>1 DEF Call
  <2>4. \A h \in Relays : \A d \in Cameras :
          \/ handle'[h][d] = "called"
          \/ handle'[h][d] = handle[h][d] /\ cur'[h][d] = cur[h][d]
    BY <2>3 DEF TypeOK
  <2> QED BY <2>2, <2>4 DEF OpenSeen
<1>7. ASSUME NEW g \in Relays, NEW c \in Cameras, Enter(g, c)
      PROVE  OpenSeen'
  <2>1. UNCHANGED <<open, cancelled, cur>>
        /\ handle' = [handle EXCEPT ![g][c] = IF g \in cancelled THEN "none" ELSE "state"]
    BY <1>7 DEF Enter, Goto, syncVars, frigateVars
  <2>2. \A h \in Relays : \A d \in Cameras :
          \/ h \in cancelled \/ handle'[h][d] = "state" \/ handle'[h][d] = handle[h][d]
    BY <2>1 DEF TypeOK
  <2> QED BY <2>1, <2>2 DEF OpenSeen
<1>8. ASSUME NEW g \in Relays, NEW c \in Cameras, PublishState(g, c) \/ PublishEvent(g, c)
      PROVE  OpenSeen'
  <2>1. PICK pc \in {"event", "frigate"} : handle' = [handle EXCEPT ![g][c] = pc]
    BY <1>8 DEF PublishState, PublishEvent, Goto
  <2>2. UNCHANGED <<open, cancelled, cur>>
    BY <1>8 DEF PublishState, PublishEvent, syncVars, frigateVars
  <2>3. \A h \in Relays : \A d \in Cameras :
          handle'[h][d] # "none" \/ handle'[h][d] = handle[h][d]
    BY <2>1 DEF TypeOK
  <2> QED BY <2>2, <2>3 DEF OpenSeen
<1>9. ASSUME NEW g \in Relays, NEW c \in Cameras, Frigate(g, c)
      PROVE  OpenSeen'
  <2>1. UNCHANGED <<cancelled, cur>> /\ handle' = [handle EXCEPT ![g][c] = "none"]
    BY <1>9 DEF Frigate, Goto, syncVars
  <2>2. \A h \in Relays : \A d \in Cameras : <<h, d>> # <<g, c>> => handle'[h][d] = handle[h][d]
    BY <2>1 DEF TypeOK
  <2>3. CASE cur[g][c] = "on"
    <3>1. open' \subseteq open \union {<<g, c>>}
      BY <1>9, <2>3 DEF Frigate, Opens, frigateVars
    <3> QED BY <2>1, <2>2, <2>3, <3>1 DEF OpenSeen
  <2>4. CASE cur[g][c] # "on"
    <3>1. open' \subseteq open \ {<<g, c>>}
      BY <1>9, <2>4 DEF Frigate, Closes, frigateVars
    <3> QED BY <2>1, <2>2, <3>1 DEF OpenSeen
  <2> QED BY <2>3, <2>4
<1> QED BY <1>1, <1>3, <1>4, <1>5, <1>6, <1>7, <1>8, <1>9
        DEF Next, SyncStep, WatchStep, HandleStep

\* The relays that remember an event see motion, or have been replaced.
LEMMA OpenSplits ==
  ASSUME TypeOK, OpenSeen, NEW c \in Cameras
  PROVE  /\ Cardinality(Seeing(c)) \in Nat /\ Cardinality(Dropped(c)) \in Nat
         /\ Cardinality(OpenBy(c)) <= Cardinality(Seeing(c)) + Cardinality(Dropped(c))
<1>1. IsFiniteSet(Relays)
  BY FS_Interval, RelayAssumption DEF Relays
<1>2. Seeing(c) \subseteq Relays /\ Dropped(c) \subseteq Relays
  BY DEF Seeing, Dropped, TypeOK
<1>3. IsFiniteSet(Seeing(c)) /\ IsFiniteSet(Dropped(c))
  BY <1>1, <1>2, FS_Subset
<1>4. Cardinality(Seeing(c)) \in Nat /\ Cardinality(Dropped(c)) \in Nat
  BY <1>3, FS_CardinalityType
<1> DEFINE Both == Seeing(c) \union Dropped(c)
<1>5. OpenBy(c) \subseteq Both
  BY DEF OpenBy, OpenSeen, Seeing, Dropped
<1>6. IsFiniteSet(Both) /\ IsFiniteSet(Seeing(c) \intersect Dropped(c))
      /\ Cardinality(Both) = Cardinality(Seeing(c)) + Cardinality(Dropped(c))
                              - Cardinality(Seeing(c) \intersect Dropped(c))
  BY <1>3, FS_Union, FS_Intersection
<1>7. Cardinality(Seeing(c) \intersect Dropped(c)) \in Nat /\ Cardinality(Both) \in Nat
  BY <1>6, FS_CardinalityType
<1>8. Cardinality(OpenBy(c)) <= Cardinality(Both) /\ Cardinality(OpenBy(c)) \in Nat
  BY <1>5, <1>6, FS_Subset, OpenByFinite
<1> QED BY <1>4, <1>6, <1>7, <1>8

-----------------------------------------------------------------------------
(* The theorems. *)

\* The invariant is inductive.
LEMMA NextInv == IInv /\ [Next]_vars => IInv'
<1> SUFFICES ASSUME IInv, [Next]_vars PROVE IInv'
  OBVIOUS
<1> USE DEF IInv
<1>1. TypeOK'
  BY TypesStep
<1>2. PresenceTold' /\ Sessions'
  BY PresenceStep
<1>3. Unstarted'
  BY UnstartedStep
<1>4. Syncing'
  BY SyncingStep
<1>5. OldShut'
  BY OldShutStep
<1>6. SaidByStarted'
  BY SaidStep
<1>7. Published'
  BY PublishedStep
<1>8. Remembered'
  BY RememberedStep
<1>9. OpenSeen'
  BY OpenSeenStep
<1> QED BY <1>1, <1>2, <1>3, <1>4, <1>5, <1>6, <1>7, <1>8, <1>9

\* Every reachable state satisfies the invariant.
LEMMA Invariant == Spec => []IInv
<1>1. Init => IInv
  BY InitInv
<1>2. IInv /\ [Next]_vars => IInv'
  BY NextInv
<1> QED BY <1>1, <1>2, PTL DEF Spec

\* What the broker retains is so, whatever publishes failed, connections were
\* lost or taken over, wills came late and relays were replaced on the way: the
\* motion, and the presence but for a will that came after "online"; and no
\* will is owed as long as no connection was lost and no client reconnected
\* between the halves of Shutdown.
THEOREM RetainedTrueCorrect == Spec => []RetainedTrue
<1>1. IInv => RetainedTrue
  BY DEF IInv, RetainedTrue, RetainedFollows, Published
<1> QED BY <1>1, Invariant, PTL

\* The events that run at Frigate are of motion that is seen or being handled,
\* but for those a replaced relay had open and one for each call that went
\* wrong, whatever connections to cameras were lost in the middle.
THEOREM EventsEndCorrect == Spec => []EventsEnd
<1>1. IInv => EventsEnd
  <2> SUFFICES ASSUME IInv, NEW c \in Cameras
               PROVE  events[c] <= Cardinality(Seeing(c)) + Cardinality(Dropped(c)) + orphans[c]
    BY DEF EventsEnd
  <2>1. events[c] = Cardinality(OpenBy(c)) + orphans[c] /\ orphans[c] \in Nat
    BY DEF IInv, Remembered, TypeOK
  <2>2. /\ Cardinality(OpenBy(c)) \in Nat /\ Cardinality(Seeing(c)) \in Nat /\ Cardinality(Dropped(c)) \in Nat
        /\ Cardinality(OpenBy(c)) <= Cardinality(Seeing(c)) + Cardinality(Dropped(c))
    BY OpenByFinite, OpenSplits DEF IInv
  <2> QED BY <2>1, <2>2
<1> QED BY <1>1, Invariant, PTL

\* The broker hears no relay after one that was started later: goroutines of an
\* old one that are still about are not heard any more.
THEOREM LaterRelayLastCorrect == Spec => LaterRelayLast
<1>1. IInv /\ [Next]_vars => [said' >= said]_vars
  BY LaterStep DEF IInv
<1> QED BY <1>1, Invariant, PTL DEF Spec, LaterRelayLast

===============================================================================
