----------------------------- MODULE EventRelay -----------------------------
(***************************************************************************)
(* internal/control/events.go with internal/alarms and internal/mqtt: the  *)
(* relay follows every camera's alerts and publishes motion as a retained  *)
(* MQTT topic and as Frigate events.  A change of the configuration        *)
(* replaces the whole relay: its context is cancelled, its MQTT client     *)
(* shut down, and a new relay with a new client, of the same client id, is *)
(* started, while goroutines of the old one are still on their way.        *)
(*                                                                         *)
(* relay.mu is held by syncRelay throughout, pubMu by one call of handle,  *)
(* and c.mu by one Publish, so a Publish is one step.  Kinds of alert other*)
(* than motion behave alike and are left out.  The broker, Frigate and the *)
(* cameras are external.                                                   *)
(***************************************************************************)
EXTENDS Naturals, FiniteSets

CONSTANTS
  Cameras,
  MaxRelays,   \* bound on the relays started; the last one is not replaced
  MaxEvents,   \* bound on a camera's events running at Frigate
  MaxLosses    \* bound on the connections the broker loses

ASSUME RelayAssumption ==
  /\ IsFiniteSet(Cameras)
  /\ MaxRelays \in Nat /\ MaxEvents \in Nat /\ MaxLosses \in Nat

Relays == 1..MaxRelays
Nobody == 0
NoCamera == "none"

VARIABLES
  relay,       \* the relay started last
  sync,        \* syncRelay: where it is
  wanted,      \* syncRelay: does the new configuration want a relay?
  cancelled,   \* relays whose context has ended
  watch,       \* alarms.Watch of one relay and camera: what it is doing
  cur,         \* Watch: the state heard last
  handle,      \* the relay's handle, called by that Watch: where it is
  pubMu,       \* holder of the relay's pubMu
  announcer,   \* announce, of the relay's Home Assistant discovery
  conn,        \* Client.conn of the relay: none, up, or dead unnoticed
  shut,        \* Client.shut
  session,     \* broker: the relay whose connection holds the client id
  status,      \* broker: the retained presence
  wills,       \* broker: last wills it has yet to publish
  late,        \* broker: has one come since the client at hand said online?
  losses,      \* broker: connections lost (history)
  reopened,    \* has a client connected between the halves of Shutdown? (history)
  retained,    \* broker: the retained motion topic
  said,        \* broker: the relay it last heard from (history)
  open,        \* frigateEvents.open: the events a relay remembers
  events,      \* Frigate: the number of events begun and not ended
  orphans,     \* Frigate: those of them no relay has the id of (history)
  missed       \* cameras a publish for which failed or was lost (history)

clientVars == <<conn, shut>>
willVars   == <<wills, late, losses, reopened>>
brokerVars == <<session, status, said, willVars>>
syncVars   == <<relay, sync, wanted, cancelled>>
handleVars == <<handle, pubMu>>
frigateVars == <<open, events, orphans>>
vars == <<syncVars, watch, cur, handleVars, announcer,
          clientVars, brokerVars, retained, frigateVars, missed>>

Each(v) == [g \in Relays |-> [c \in Cameras |-> v]]

Init ==
  /\ relay = Nobody /\ sync = "idle" /\ wanted = "no" /\ cancelled = {}
  /\ watch = Each("ended") /\ cur = Each("off")
  /\ handle = Each("none")
  /\ pubMu = [g \in Relays |-> NoCamera]
  /\ announcer = [g \in Relays |-> "ended"]
  /\ conn = [g \in Relays |-> "none"] /\ shut = [g \in Relays |-> "no"]
  /\ session = Nobody /\ status = "unset" /\ said = Nobody
  /\ wills = 0 /\ late = "no" /\ losses = 0 /\ reopened = "no"
  /\ retained = [c \in Cameras |-> "unset"]
  /\ open = {}
  /\ events = [c \in Cameras |-> 0] /\ orphans = [c \in Cameras |-> 0]
  /\ missed = {}

-----------------------------------------------------------------------------
(* mqtt.Client *)

\* ensure: every connection says online.  The broker ends an older one of the
\* same client id, without a goodbye; its owner does not notice.  An older
\* one there is if the client was reconnected between the halves of Shutdown.
Connect(g) ==
  /\ session' = g
  /\ status' = "online" /\ late' = "no"
  /\ wills' = IF session = Nobody THEN wills ELSE wills + 1
  /\ reopened' = IF sync = "shutting" THEN "yes" ELSE reopened
  /\ UNCHANGED losses
  /\ conn' = [h \in Relays |-> IF h = g THEN "up"
                               ELSE IF h = session THEN "dead" ELSE conn[h]]

\* Publish at QoS 0, with what becomes of the message.  Writing to a
\* connection that died unnoticed succeeds: the message goes nowhere.
Publish(g, outcome) ==
  \/ /\ shut[g] = "yes" /\ outcome = "failed"
     /\ UNCHANGED <<conn, brokerVars>>
  \/ /\ shut[g] = "no" /\ conn[g] = "up" /\ outcome = "delivered"
     /\ said' = g
     /\ UNCHANGED <<conn, session, status, willVars>>
  \/ /\ shut[g] = "no" /\ conn[g] = "dead" /\ outcome = "lost"
     /\ UNCHANGED <<conn, brokerVars>>
  \/ /\ shut[g] = "no" /\ conn[g] # "up" /\ outcome = "delivered"
     /\ Connect(g)
     /\ said' = g
  \/ /\ shut[g] = "no" /\ conn[g] # "up" /\ outcome = "failed"
     /\ conn' = [conn EXCEPT ![g] = "none"]
     /\ UNCHANGED brokerVars

\* Mutant: without the DISCONNECT.
CloseRudely(g) ==
  /\ conn' = [conn EXCEPT ![g] = "none"]
  /\ IF conn[g] = "up"
       THEN /\ session' = Nobody /\ status' = "offline" /\ late' = "no" /\ said' = g
            /\ wills' = wills + 1
            /\ UNCHANGED <<losses, reopened>>
       ELSE UNCHANGED brokerVars

\* Close: offline is said, then the DISCONNECT, on which the broker discards
\* the will.
Close(g) ==
  /\ conn' = [conn EXCEPT ![g] = "none"]
  /\ IF conn[g] = "up"
       THEN /\ session' = Nobody /\ status' = "offline" /\ late' = "no" /\ said' = g
            /\ UNCHANGED <<wills, losses, reopened>>
       ELSE UNCHANGED brokerVars

\* Mutant: Shutdown is no more than Close.
NotShut(g) == UNCHANGED shut
Shut(g) == shut' = [shut EXCEPT ![g] = "yes"]

-----------------------------------------------------------------------------
(* syncRelay *)

\* Cancels the running relay's context.
BeginSync ==
  /\ sync = "idle" /\ relay < MaxRelays
  /\ wanted' = "yes" \/ (wanted' = "no" /\ relay # Nobody /\ relay \notin cancelled)
  /\ cancelled' = IF relay = Nobody THEN cancelled ELSE cancelled \union {relay}
  /\ sync' = IF relay = Nobody \/ relay \in cancelled THEN "starting" ELSE "closing"
  /\ UNCHANGED <<relay, watch, cur, handleVars, announcer,
                 clientVars, brokerVars, retained, frigateVars, missed>>

\* Shutdown, in two steps: Close gives c.mu up before shut is set.
CloseOld ==
  /\ sync = "closing"
  /\ Close(relay)
  /\ sync' = "shutting"
  /\ UNCHANGED <<relay, wanted, cancelled, watch, cur,
                 handleVars, announcer, shut, retained, frigateVars, missed>>

ShutOld ==
  /\ sync = "shutting"
  /\ Shut(relay)
  /\ sync' = "starting"
  /\ UNCHANGED <<relay, wanted, cancelled, watch, cur,
                 handleVars, announcer, conn, brokerVars, retained, frigateVars,
                 missed>>

\* "Entities the last relay announced and this one does not are removed":
\* the new client may have something to publish at once.
StartNew ==
  /\ sync = "starting"
  /\ sync' = "idle" /\ wanted' = "no"
  /\ \/ /\ wanted = "no"
        /\ UNCHANGED <<relay, watch, announcer, conn, brokerVars>>
     \/ /\ wanted = "yes"
        /\ relay' = relay + 1
        /\ watch' = [watch EXCEPT ![relay'] = [c \in Cameras |-> "dialing"]]
        /\ announcer' = [announcer EXCEPT ![relay'] = "looking"]
        /\ \/ UNCHANGED <<conn, brokerVars>>
           \/ \E outcome \in {"delivered", "lost", "failed"} : Publish(relay', outcome)
  /\ UNCHANGED <<cancelled, cur, handleVars, shut, retained,
                  frigateVars, missed>>

\* announce looks at its context before every message.
AnnounceLook(g) ==
  /\ announcer[g] = "looking"
  /\ announcer' = [announcer EXCEPT ![g] = IF g \in cancelled THEN "ended" ELSE "publishing"]
  /\ UNCHANGED <<syncVars, watch, cur, handleVars, clientVars,
                 brokerVars, retained, frigateVars, missed>>

AnnouncePublish(g) ==
  /\ announcer[g] = "publishing"
  /\ \E outcome \in {"delivered", "lost", "failed"} : Publish(g, outcome)
  /\ \E next \in {"looking", "ended"} : announcer' = [announcer EXCEPT ![g] = next]
  /\ UNCHANGED <<syncVars, watch, cur, handleVars, shut, retained,
                 frigateVars, missed>>

-----------------------------------------------------------------------------
(* alarms.Watch *)

Ends(g, c) == watch' = [watch EXCEPT ![g][c] = "ending"]

Dial(g, c) ==
  /\ watch[g][c] = "dialing"
  /\ IF g \in cancelled THEN Ends(g, c)
                        ELSE watch' = [watch EXCEPT ![g][c] = "following"]
  /\ UNCHANGED <<syncVars, cur, handleVars, announcer, clientVars,
                 brokerVars, retained, frigateVars, missed>>

\* Calls handle, in Watch's own goroutine: until it returns, cur is c.On.
Call(g, c, on) ==
  /\ handle' = [handle EXCEPT ![g][c] = "called"]
  /\ cur' = [cur EXCEPT ![g][c] = on]

\* The camera, which is external, sees motion or sees it stop at any time.
Hear(g, c) ==
  /\ watch[g][c] = "following" /\ handle[g][c] = "none"
  /\ Call(g, c, IF cur[g][c] = "on" THEN "off" ELSE "on")
  /\ UNCHANGED <<syncVars, watch, pubMu, announcer, clientVars,
                 brokerVars, retained, frigateVars, missed>>

\* follow returns: its context ended, or the camera's connection did, at any
\* time.
StopFollowing(g, c) ==
  /\ watch[g][c] = "following" /\ handle[g][c] = "none"
  /\ Ends(g, c)
  /\ UNCHANGED <<syncVars, cur, handleVars, announcer, clientVars,
                 brokerVars, retained, frigateVars, missed>>

\* Mutant: forgets what was on.
ForgetCurrent(g, c) ==
  /\ watch[g][c] = "ending" /\ handle[g][c] = "none" /\ cur[g][c] = "on"
  /\ cur' = [cur EXCEPT ![g][c] = "off"]
  /\ UNCHANGED <<syncVars, watch, handleVars, announcer, clientVars,
                 brokerVars, retained, frigateVars, missed>>

\* "A lost connection ends whatever was on".
EndCurrent(g, c) ==
  /\ watch[g][c] = "ending" /\ handle[g][c] = "none" /\ cur[g][c] = "on"
  /\ Call(g, c, "off")
  /\ UNCHANGED <<syncVars, watch, pubMu, announcer, clientVars,
                 brokerVars, retained, frigateVars, missed>>

WatchAgain(g, c) ==
  /\ watch[g][c] = "ending" /\ handle[g][c] = "none" /\ cur[g][c] = "off"
  /\ watch' = [watch EXCEPT ![g][c] = IF g \in cancelled THEN "ended" ELSE "dialing"]
  /\ UNCHANGED <<syncVars, cur, handleVars, announcer, clientVars,
                 brokerVars, retained, frigateVars, missed>>

-----------------------------------------------------------------------------
(* handle *)

At(g, c, pc) == handle[g][c] = pc /\ pubMu[g] = c
Goto(g, c, pc) == handle' = [handle EXCEPT ![g][c] = pc]

\* "A change that raced the relay being replaced is dropped."
Enter(g, c) ==
  /\ handle[g][c] = "called" /\ pubMu[g] = NoCamera
  /\ IF g \in cancelled
       THEN Goto(g, c, "none") /\ UNCHANGED pubMu
       ELSE Goto(g, c, "state") /\ pubMu' = [pubMu EXCEPT ![g] = c]
  /\ UNCHANGED <<syncVars, watch, cur, announcer, clientVars,
                 brokerVars, retained, frigateVars, missed>>

PublishState(g, c) ==
  /\ At(g, c, "state")
  /\ \E outcome \in {"delivered", "lost", "failed"} :
       /\ Publish(g, outcome)
       /\ IF outcome = "delivered"
            THEN /\ retained' = [retained EXCEPT ![c] = cur[g][c]]
                 /\ missed' = missed \ {c}
            ELSE /\ missed' = missed \union {c}
                 /\ UNCHANGED retained
  /\ Goto(g, c, "event")
  /\ UNCHANGED <<syncVars, watch, cur, pubMu, announcer, shut,
                 frigateVars>>

PublishEvent(g, c) ==
  /\ At(g, c, "event")
  /\ \E outcome \in {"delivered", "lost", "failed"} : Publish(g, outcome)
  /\ Goto(g, c, "frigate")
  /\ UNCHANGED <<syncVars, watch, cur, pubMu, announcer, shut,
                 retained, frigateVars, missed>>

\* frigateEvents.change for On: the call may fail, or its answer be lost.
Opens(g, c) ==
  IF <<g, c>> \in open THEN UNCHANGED frigateVars
  ELSE \/ /\ events[c] < MaxEvents
          /\ events' = [events EXCEPT ![c] = @ + 1]
          /\ \/ open' = open \union {<<g, c>>} /\ UNCHANGED orphans
             \/ orphans' = [orphans EXCEPT ![c] = @ + 1] /\ UNCHANGED open
       \/ UNCHANGED frigateVars

\* For Off: the event is forgotten, then ended, which may fail.
Closes(g, c) ==
  IF <<g, c>> \notin open THEN UNCHANGED frigateVars
  ELSE /\ open' = open \ {<<g, c>>}
       /\ \/ events' = [events EXCEPT ![c] = @ - 1] /\ UNCHANGED orphans
          \/ orphans' = [orphans EXCEPT ![c] = @ + 1] /\ UNCHANGED events

Frigate(g, c) ==
  /\ At(g, c, "frigate")
  /\ IF cur[g][c] = "on" THEN Opens(g, c) ELSE Closes(g, c)
  /\ Goto(g, c, "none")
  /\ pubMu' = [pubMu EXCEPT ![g] = NoCamera]
  /\ UNCHANGED <<syncVars, watch, cur, announcer, clientVars,
                 brokerVars, retained, missed>>

-----------------------------------------------------------------------------
(* External *)

\* The broker loses the connection, and owes its will from then on.
BrokerDrops ==
  /\ session # Nobody /\ losses < MaxLosses
  /\ conn' = [conn EXCEPT ![session] = "dead"]
  /\ session' = Nobody /\ late' = "no"
  /\ wills' = wills + 1 /\ losses' = losses + 1
  /\ UNCHANGED <<syncVars, watch, cur, handleVars, announcer, shut, status,
                 reopened, said, retained, frigateVars, missed>>

\* It publishes a will "at a moment of its choosing -- possibly after a
\* replacement client has already said online".
PublishWill ==
  /\ wills > 0
  /\ wills' = wills - 1
  /\ status' = "offline"
  /\ late' = IF session = Nobody THEN late ELSE "yes"
  /\ UNCHANGED <<syncVars, watch, cur, handleVars, announcer, clientVars,
                 session, said, losses, reopened, retained, frigateVars, missed>>

-----------------------------------------------------------------------------
SyncStep == BeginSync \/ CloseOld \/ ShutOld \/ StartNew

WatchStep(g, c) ==
  \/ Dial(g, c) \/ Hear(g, c) \/ StopFollowing(g, c)
  \/ EndCurrent(g, c) \/ WatchAgain(g, c)

HandleStep(g, c) ==
  \/ Enter(g, c) \/ PublishState(g, c) \/ PublishEvent(g, c) \/ Frigate(g, c)

Next ==
  \/ SyncStep
  \/ \E g \in Relays : AnnounceLook(g) \/ AnnouncePublish(g)
  \/ \E g \in Relays, c \in Cameras : WatchStep(g, c) \/ HandleStep(g, c)
  \/ BrokerDrops \/ PublishWill

Spec == Init /\ [][Next]_vars
-----------------------------------------------------------------------------
OnOff == {"on", "off"}

TypeOK ==
  /\ relay \in 0..MaxRelays /\ wanted \in {"yes", "no"}
  /\ sync \in {"idle", "closing", "shutting", "starting"}
  /\ cancelled \subseteq Relays
  /\ watch \in [Relays -> [Cameras -> {"ended", "dialing", "following", "ending"}]]
  /\ cur \in [Relays -> [Cameras -> OnOff]]
  /\ handle \in [Relays -> [Cameras -> {"none", "called", "state", "event", "frigate"}]]
  /\ pubMu \in [Relays -> Cameras \union {NoCamera}]
  /\ announcer \in [Relays -> {"ended", "looking", "publishing"}]
  /\ conn \in [Relays -> {"none", "up", "dead"}] /\ shut \in [Relays -> {"yes", "no"}]
  /\ session \in 0..MaxRelays /\ said \in 0..MaxRelays
  /\ status \in {"unset", "online", "offline"}
  /\ wills \in Nat /\ late \in {"yes", "no"}
  /\ losses \in Nat /\ reopened \in {"yes", "no"}
  /\ retained \in [Cameras -> OnOff \union {"unset"}]
  /\ open \subseteq Relays \X Cameras
  /\ events \in [Cameras -> Nat] /\ orphans \in [Cameras -> Nat]
  /\ missed \subseteq Cameras

\* The broker never takes a message of a relay after one of a later relay,
\* whichever goroutines of the old one are still about (Shutdown).
LaterRelayLast == [][said' >= said]_vars

\* With a connection up the entities are available, unless a will came after
\* it had said online; without one they are not, or will not be once the
\* broker has published what it owes.  And the broker owes no will, so that
\* they are available exactly while a connection is up, as long as it has
\* lost none and nothing was published between the halves of Shutdown: the
\* goodbye of Close is what a replacement relies on.
PresenceTold ==
  /\ session # Nobody => status = "online" \/ late = "yes"
  /\ status = "online" => session # Nobody \/ wills > 0
  /\ losses = 0 /\ reopened = "no" => wills = 0 /\ late = "no"

\* Not so, after a late will: nothing says online again until the next
\* connection.
AvailableWhileUp ==
  session # Nobody => status = "online"

\* A Watch whose change has been handled and published agrees with what the
\* broker retains, as long as no relay has been replaced.
RetainedFollows ==
  \A c \in Cameras :
    (relay = 1 /\ cancelled = {} /\ handle[1][c] = "none" /\ c \notin missed)
      => (retained[c] = "on" <=> cur[1][c] = "on")

\* What the broker retains is so: the presence and the motion.
RetainedTrue == TypeOK /\ PresenceTold /\ RetainedFollows

\* An event at Frigate ends with the motion it was begun for, also when the
\* camera's connection is lost in the middle.  One that runs on is of a
\* running relay whose Watch sees motion or is being handled; of a relay that
\* was replaced while it had it open (events.go:293 drops what its Watch says
\* then); or left behind by a call that went wrong, and a call leaves one.
Seeing(c) == {g \in Relays \ cancelled : cur[g][c] = "on" \/ handle[g][c] # "none"}
Dropped(c) == {g \in cancelled : <<g, c>> \in open}
EventsEnd ==
  \A c \in Cameras :
    events[c] <= Cardinality(Seeing(c)) + Cardinality(Dropped(c)) + orphans[c]

\* "A listener is never left believing motion continues": with nothing going
\* on any more, the topic of a camera without motion does not say ON.
AtRest(c) ==
  /\ sync = "idle"
  /\ \A g \in Relays : handle[g][c] = "none" /\ cur[g][c] = "off"
  /\ \A g \in Relays : watch[g][c] = IF g \in 1..relay \ cancelled THEN "following" ELSE "ended"
NeverLeftOn ==
  \A c \in Cameras : AtRest(c) /\ c \notin missed => retained[c] # "on"
=============================================================================
