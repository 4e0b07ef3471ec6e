---------------------------- MODULE RecorderPool ----------------------------
(***************************************************************************)
(* internal/baichuan/pool.go over shared.go: the streams of one recorder   *)
(* (one poolGroup) spread over shared connections, each carrying at most   *)
(* MaxPreviews of them.  What a connection does with media is SharedConn;  *)
(* here it is a set of readers.                                            *)
(*                                                                         *)
(* p.mu is a variable because Open keeps it from choosing a connection to  *)
(* subscribing on it, while readers come off connections under s.mu alone. *)
(* A dial runs without any lock.                                           *)
(***************************************************************************)
EXTENDS Integers, FiniteSets, Sequences, FiniteSetsExt

CONSTANTS
  Readers,      \* the streams of the fleet behind this recorder
  Keys,         \* previews: (channel, stream)
  Conns,        \* connections; one that is over may be used again
  MaxPreviews   \* Pool.MaxPreviews

None == "none"

ASSUME PoolAssumption ==
  /\ IsFiniteSet(Readers) /\ IsFiniteSet(Keys) /\ IsFiniteSet(Conns)
  /\ MaxPreviews \in Nat \ {0}
  /\ None \notin Readers \union Conns

VARIABLES
  opener,     \* where the reader's stream is: in Open, reading, in Close, ...
  keyOf,      \* what it reads
  at,         \* the connection it is concerned with
  result,     \* what Open will return once its dial is over
  mu,         \* holder of p.mu across the steps of Open
  pool,       \* poolGroup.conns
  dialing,    \* poolGroup.dialing: the stream whose dial the others wait for
  device,     \* poolGroup.camera
  state,      \* is the connection open? (Shared.closed)
  on,         \* the readers subscribed on each connection
  idlers,     \* connections whose demux is in onIdle
  session     \* is the login still held at the recorder?

poolVars == <<mu, pool, dialing, device>>
connVars == <<state, on, idlers, session>>
openVars == <<opener, at, result>>
vars == <<poolVars, connVars, openVars, keyOf>>

Previews(c) == {keyOf[r] : r \in on[c]}

Init ==
  /\ opener = [r \in Readers |-> "absent"]
  /\ keyOf \in [Readers -> Keys]
  /\ at = [r \in Readers |-> None]
  /\ result = [r \in Readers |-> None]
  /\ mu = None /\ pool = <<>> /\ dialing = None /\ device = "unknown"
  /\ state = [c \in Conns |-> "closed"]
  /\ on = [c \in Conns |-> {}]
  /\ idlers = {}
  /\ session = [c \in Conns |-> "released"]

Goto(r, pc) == opener' = [opener EXCEPT ![r] = pc]

-----------------------------------------------------------------------------
(* Open *)

Open(r) ==
  /\ opener[r] = "absent"
  /\ Goto(r, "trying")
  /\ UNCHANGED <<poolVars, connVars, at, result, keyOf>>

IsOpen(c) == state[c] = "open"

\* What of the sequence s is in T, in its order: SelectSeq as a recursive
\* function, which a proof can unfold.
Keeping(s, T) ==
  LET kept[n \in 0..Len(s)] ==
        IF n = 0 THEN <<>>
        ELSE IF s[n] \in T THEN Append(kept[n - 1], s[n]) ELSE kept[n - 1]
  IN kept[Len(s)]

Live == Keeping(pool, {c \in Conns : IsOpen(c)})

Carrying(k) == {i \in 1..Len(Live) : k \in Previews(Live[i])}

\* MUTANTS: the limit off by one, either way.
HasRoomForOneMore(c) == Cardinality(Previews(c)) <= MaxPreviews

HasRoom(c) == Cardinality(Previews(c)) < MaxPreviews
Roomy == {i \in 1..Len(Live) : HasRoom(Live[i])}

\* First a connection that carries the stream already, else the first with
\* room.
Candidates(k) == IF Carrying(k) # {} THEN Carrying(k) ELSE Roomy

\* A critical section of p.mu at the top of Open's loop.
Consider(r) ==
  /\ opener[r] = "trying"
  /\ mu = None

Choose(r) ==
  /\ Consider(r) /\ device # "camera"
  /\ Candidates(keyOf[r]) # {}
  /\ at' = [at EXCEPT ![r] = Live[Min(Candidates(keyOf[r]))]]
  /\ pool' = Live
  /\ mu' = r
  /\ Goto(r, "chosen")
  /\ UNCHANGED <<dialing, device, connVars, result, keyOf>>

Wait(r) ==
  /\ Consider(r) /\ device # "camera"
  /\ Candidates(keyOf[r]) = {}
  /\ dialing # None
  /\ pool' = Live
  /\ Goto(r, "waiting")
  /\ UNCHANGED <<mu, dialing, device, connVars, at, result, keyOf>>

BeginDial(r) ==
  /\ Consider(r) /\ device # "camera"
  /\ Candidates(keyOf[r]) = {}
  /\ dialing = None
  /\ dialing' = r
  /\ pool' = Live
  /\ Goto(r, "dialing")
  /\ UNCHANGED <<mu, device, connVars, at, result, keyOf>>

BeginCameraDial(r) ==
  /\ Consider(r) /\ device = "camera"
  /\ Goto(r, "cameraDialing")
  /\ UNCHANGED <<poolVars, connVars, at, result, keyOf>>

\* Subscribe on the chosen connection, still under p.mu.  It may have ended
\* since it was chosen (Open goes round again), and a start that cannot be
\* written fails the Open.
SubscribeChosen(r) ==
  LET c == at[r]
  IN /\ opener[r] = "chosen"
     /\ mu' = None
     /\ \/ /\ ~IsOpen(c)
           /\ Goto(r, "trying")
           /\ at' = [at EXCEPT ![r] = None]
           /\ UNCHANGED on
        \/ /\ IsOpen(c)
           /\ on' = [on EXCEPT ![c] = @ \union {r}]
           /\ Goto(r, "reading")
           /\ UNCHANGED at
        \/ /\ IsOpen(c) /\ keyOf[r] \notin Previews(c)
           /\ Goto(r, "absent")
           /\ at' = [at EXCEPT ![r] = None]
           /\ UNCHANGED on
     /\ UNCHANGED <<pool, dialing, device, state, idlers, session, result, keyOf>>

\* ctx.Done while waiting for someone else's dial.
GiveUp(r) ==
  /\ opener[r] = "waiting"
  /\ Goto(r, "absent")
  /\ UNCHANGED <<poolVars, connVars, at, result, keyOf>>

-----------------------------------------------------------------------------
(* openNew and openCamera *)

\* Nobody refers to c any more: it can stand for a new connection.
Unused(c) ==
  /\ ~IsOpen(c) /\ session[c] = "released" /\ c \notin idlers
  /\ \A i \in 1..Len(pool) : pool[i] # c
  /\ \A r \in Readers : at[r] # c

\* The dial fails, or the first start on the new connection does, which
\* closes it again.
DialFails(r) ==
  /\ opener[r] = "dialing"
  /\ result' = [result EXCEPT ![r] = "absent"]
  /\ Goto(r, "dialed")
  /\ UNCHANGED <<poolVars, connVars, at, keyOf>>

DialFindsCamera(r) ==
  /\ opener[r] = "dialing"
  /\ mu = None
  /\ device' = "camera"
  /\ result' = [result EXCEPT ![r] = "owning"]
  /\ Goto(r, "dialed")
  /\ UNCHANGED <<mu, pool, dialing, connVars, at, keyOf>>

\* Subscribed before it is published.
DialFindsRecorder(r) ==
  /\ opener[r] = "dialing"
  /\ \E c \in {d \in Conns : Unused(d)} :
       /\ state' = [state EXCEPT ![c] = "open"]
       /\ session' = [session EXCEPT ![c] = "held"]
       /\ on' = [on EXCEPT ![c] = {r}]
       /\ at' = [at EXCEPT ![r] = c]
  /\ Goto(r, "subscribed")
  /\ UNCHANGED <<poolVars, idlers, result, keyOf>>

Publish(r) ==
  /\ opener[r] = "subscribed"
  /\ mu = None
  /\ pool' = Append(pool, at[r])
  /\ result' = [result EXCEPT ![r] = "reading"]
  /\ Goto(r, "dialed")
  /\ UNCHANGED <<mu, dialing, device, connVars, at, keyOf>>

\* Mutant: clears g.dialing without closing it.
EndDialUnclosed(r) ==
  /\ opener[r] = "dialed"
  /\ mu = None
  /\ dialing' = None
  /\ Goto(r, result[r])
  /\ result' = [result EXCEPT ![r] = None]
  /\ UNCHANGED <<mu, pool, device, connVars, at, keyOf>>

\* Back in Open: g.dialing is closed, which wakes the waiters, and cleared.
EndDial(r) ==
  /\ opener[r] = "dialed"
  /\ mu = None
  /\ dialing' = None
  /\ opener' = [s \in Readers |-> IF s = r THEN result[r]
                                  ELSE IF opener[s] = "waiting" THEN "trying"
                                  ELSE opener[s]]
  /\ result' = [result EXCEPT ![r] = None]
  /\ UNCHANGED <<mu, pool, device, connVars, at, keyOf>>

\* openCamera: its own connection, of whatever it turns out to be.
CameraDialEnds(r) ==
  /\ opener[r] = "cameraDialing"
  /\ \/ Goto(r, "absent") /\ UNCHANGED device
     \/ Goto(r, "owning") /\ UNCHANGED device
     \/ Goto(r, "owning") /\ mu = None /\ device' = "unknown"
  /\ UNCHANGED <<mu, pool, dialing, connVars, at, result, keyOf>>

CloseOwn(r) ==
  /\ opener[r] = "owning"
  /\ Goto(r, "absent")
  /\ UNCHANGED <<poolVars, connVars, at, result, keyOf>>

-----------------------------------------------------------------------------
(* Close, and what ends a connection *)

\* unsubscribe under s.mu; only the last preview's end is reported to idle.
Close(r) ==
  LET c == at[r]
  IN /\ opener[r] = "reading"
     /\ on' = [on EXCEPT ![c] = @ \ {r}]
     /\ IF r \in on[c] /\ on[c] = {r} /\ IsOpen(c)
          THEN Goto(r, "idling") /\ UNCHANGED at
          ELSE Goto(r, "absent") /\ at' = [at EXCEPT ![r] = None]
     /\ UNCHANGED <<poolVars, state, idlers, session, result, keyOf>>

\* Mutant: demux takes the reader off without asking whether it was the last.
StallUnreported(r) ==
  LET c == at[r]
  IN /\ c # None /\ c \notin idlers
     /\ r \in on[c] /\ IsOpen(c)
     /\ on' = [on EXCEPT ![c] = @ \ {r}]
     /\ UNCHANGED <<poolVars, state, idlers, session, openVars, keyOf>>

\* demux drops a reader that stalled, one that Open has not returned yet
\* included.
Stall(r) ==
  LET c == at[r]
  IN /\ c # None /\ c \notin idlers
     /\ r \in on[c] /\ IsOpen(c)
     /\ on' = [on EXCEPT ![c] = @ \ {r}]
     /\ idlers' = IF on[c] = {r} THEN idlers \union {c} ELSE idlers
     /\ UNCHANGED <<poolVars, state, session, openVars, keyOf>>

\* Mutant: closes without looking again.
IdleCloseUnchecked(c) ==
  /\ mu = None
  /\ state' = [state EXCEPT ![c] = "closed"]
  /\ session' = [session EXCEPT ![c] = "released"]
  /\ pool' = Keeping(pool, Conns \ {c})

\* Pool.idle with closeIfIdle, under p.mu.
IdleClose(c) ==
  /\ mu = None
  /\ IF IsOpen(c) /\ on[c] = {}
       THEN /\ state' = [state EXCEPT ![c] = "closed"]
            /\ session' = [session EXCEPT ![c] = "released"]
            /\ pool' = Keeping(pool, Conns \ {c})
       ELSE UNCHANGED <<state, session, pool>>

IdleByReader(r) ==
  /\ opener[r] = "idling"
  /\ IdleClose(at[r])
  /\ Goto(r, "absent")
  /\ at' = [at EXCEPT ![r] = None]
  /\ UNCHANGED <<mu, dialing, device, on, idlers, result, keyOf>>

IdleByDemux(c) ==
  /\ c \in idlers
  /\ IdleClose(c)
  /\ idlers' = idlers \ {c}
  /\ UNCHANGED <<mu, dialing, device, on, openVars, keyOf>>

\* demux is over: the connection broke, or the recorder fell silent until
\* the read timed out.  Nothing closes the socket then.
ConnectionEnds(c) ==
  /\ IsOpen(c) /\ c \notin idlers
  /\ state' = [state EXCEPT ![c] = "closed"]
  /\ on' = [on EXCEPT ![c] = {}]
  /\ \/ session' = [session EXCEPT ![c] = "released"]
     \/ UNCHANGED session
  /\ UNCHANGED <<poolVars, idlers, openVars, keyOf>>

\* External: the runtime closes the socket of a connection nobody refers to.
Collect(c) ==
  /\ ~IsOpen(c) /\ session[c] = "held"
  /\ c \notin idlers
  /\ \A i \in 1..Len(pool) : pool[i] # c
  /\ \A r \in Readers : at[r] # c
  /\ session' = [session EXCEPT ![c] = "released"]
  /\ UNCHANGED <<poolVars, state, on, idlers, openVars, keyOf>>

-----------------------------------------------------------------------------
OpenStep(r) ==
  \/ Choose(r) \/ Wait(r) \/ BeginDial(r) \/ BeginCameraDial(r)
  \/ SubscribeChosen(r)

DialStep(r) ==
  \/ DialFails(r) \/ DialFindsCamera(r) \/ DialFindsRecorder(r)
  \/ Publish(r) \/ EndDial(r) \/ CameraDialEnds(r)

Next ==
  \/ \E r \in Readers :
       \/ Open(r) \/ OpenStep(r) \/ DialStep(r) \/ GiveUp(r) \/ CloseOwn(r)
       \/ Close(r) \/ Stall(r) \/ IdleByReader(r)
  \/ \E c \in Conns : IdleByDemux(c) \/ ConnectionEnds(c) \/ Collect(c)

Spec == Init /\ [][Next]_vars

\* A dial comes to an end, and so does a call of idle once p.mu is free.
Fairness ==
  /\ \A r \in Readers : WF_vars(SubscribeChosen(r)) /\ SF_vars(DialStep(r))
                        /\ SF_vars(IdleByReader(r))
  /\ \A c \in Conns : SF_vars(IdleByDemux(c))

FairSpec == Spec /\ Fairness
-----------------------------------------------------------------------------
TypeOK ==
  /\ opener \in [Readers -> {"absent", "trying", "chosen", "waiting", "dialing",
                             "subscribed", "dialed", "cameraDialing", "reading",
                             "owning", "idling"}]
  /\ keyOf \in [Readers -> Keys]
  /\ at \in [Readers -> Conns \union {None}]
  /\ result \in [Readers -> {"absent", "reading", "owning", None}]
  /\ mu \in Readers \union {None}
  /\ pool \in Seq(Conns)
  /\ dialing \in Readers \union {None}
  /\ device \in {"unknown", "camera"}
  /\ state \in [Conns -> {"open", "closed"}]
  /\ on \in [Conns -> SUBSET Readers]
  /\ idlers \subseteq Conns
  /\ session \in [Conns -> {"held", "released"}]

\* No connection carries more than MaxPreviews streams, however readers come
\* and go between Open's choice of it and its Subscribe.
AtMostMaxPreviews == \A c \in Conns : Cardinality(Previews(c)) <= MaxPreviews

\* "Streams starting together wait for one login": only one dials.
OneDial ==
  Cardinality({r \in Readers : opener[r] \in {"dialing", "subscribed", "dialed"}}) <= 1

\* The limits Open keeps: previews on a connection, logins at a time.
WithinLimits == TypeOK /\ AtMostMaxPreviews /\ OneDial

\* An open connection with nothing on it has someone about to close it or to
\* subscribe to it: none is ever left in the pool for good.
NoneForgotten ==
  \A c \in Conns : (IsOpen(c) /\ on[c] = {}) =>
    \/ c \in idlers
    \/ \E r \in Readers : at[r] = c /\ opener[r] = "idling"

\* An open connection can be found by the streams that could share it: it is
\* in the pool, once, or its dial is still under way.
NoneHidden ==
  \A c \in Conns : IsOpen(c) =>
    Cardinality({i \in 1..Len(pool) : pool[i] = c})
      + Cardinality({r \in Readers : opener[r] = "subscribed" /\ at[r] = c}) = 1

\* The pool accounts for every open connection: it can be found, and it will
\* be closed when it is no longer used.
PoolAccounts == NoneForgotten /\ NoneHidden

\* Closing for idleness takes no stream away from a reader, and no choice
\* from an Open that holds the lock.
IdleCloseHarmless ==
  [][\A c \in Conns :
       ((\E r \in Readers : IdleByReader(r)) \/ IdleByDemux(c)) /\ state'[c] # state[c]
         => on[c] = {} /\ \A r \in Readers : ~(opener[r] = "chosen" /\ at[r] = c)]_vars

\* A stream waiting for another's dial is woken, whatever comes of the dial.
WaitersWake == \A r \in Readers : opener[r] = "waiting" ~> opener[r] # "waiting"

\* Connections counts the connections that are held open: a login is held at
\* the recorder only by a connection the pool still counts.
HeldIsCounted == \A c \in Conns : session[c] = "held" => IsOpen(c)
=============================================================================
