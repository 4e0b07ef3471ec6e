-------------------------------- MODULE BcUdp --------------------------------
(***************************************************************************)
(* internal/bcudp: one UDP session with a battery camera as a byte stream. *)
(* Packets carry a 32-bit id that wraps, are sent again until acknowledged *)
(* and are put back in order; an ack names the last id in order and the    *)
(* later ones already here.  c.mu covers each step.  The timer loop sends  *)
(* what it collected after unlocking: the delay is the network's.          *)
(*                                                                         *)
(* Ids stand for payloads.  The camera and the network, which drops,       *)
(* delays, reorders and repeats packets, are external.  Resolution, the    *)
(* cipher and the checksum are left out, and so are heartbeats, whose only *)
(* effect is on the silence, here free to fall at any tick.                *)
(***************************************************************************)
EXTENDS Naturals, Sequences, FiniteSets

CONSTANTS
  Mod,        \* 2^32 in the code
  MaxAhead,   \* maxAhead
  Sessions    \* the sessions considered

\* What the application, the camera and the network may do besides.
Events == {"deadline", "close", "disc", "refuse", "silence", "socket"}

\* start: packets a session has already carried each way, all acknowledged;
\* ours, theirs: packets each side still sends; acks: bound on the acks in
\* flight each way; events: what may happen in it.
SessionType ==
  [start : 0..Mod - 1, ours : 0..Mod - 1, theirs : 0..Mod - 1, acks : Nat,
   events : SUBSET Events]

ASSUME BcUdpAssumption ==
  /\ Mod \in Nat \ {0} /\ MaxAhead \in 1..Mod \div 2
  /\ Sessions \subseteq SessionType

\* An ack may be late without bound here, so only in a session of at most
\* half the ids each way (2^31 packets) is a late one always told from a new.
ASSUME ShortSessions ==
  \A s \in Sessions : s.ours <= Mod \div 2 /\ s.theirs <= Mod \div 2

VARIABLES
  session,   \* the session considered
  dial,      \* connect: "none", "asking", "open", "refused" or "timeout"
  sent,      \* number of packets written: nextID follows from it
  unacked,   \* Conn.unacked
  expect,    \* Conn.expect
  ahead,     \* Conn.ahead
  buf,       \* Conn.buf
  err,       \* Conn.err
  closed,    \* Conn.closed, and done with it
  readDL,    \* Conn.readDL
  reader,    \* the goroutine in Read: where it is
  held,      \* the deadline it took with it to the wait
  read,      \* what Read has returned (history)
  recv,      \* recvLoop
  timer,     \* timerLoop
  closer,    \* Close: where it is
  ours,      \* ours.open of the camera's address
  cam,       \* camera: what it knows
  toUs,      \* packets on their way to us
  toCam      \* packets on their way to the camera

streamVars == <<expect, ahead, buf>>
readVars == <<readDL, held, read>>
netVars == <<toUs, toCam>>
lifeVars == <<dial, recv, timer, closer, closed, ours>>
vars == <<session, sent, unacked, streamVars, err, reader, readVars,
          lifeVars, cam, netVars>>

-----------------------------------------------------------------------------
(* Ids, as uint32 *)

Ids == 0..Mod - 1
Plus(id, n) == (id + n) % Mod
Gap(id, base) == (id + Mod - base) % Mod

Behind(id, base) == Gap(id, base) >= Mod \div 2

NextID == Plus(session.start, sent)
NextTheirs == Plus(session.start, cam.sent)
FirstIds(n) == [i \in 1..n |-> Plus(session.start, i - 1)]

Data(id) == [kind |-> "data", id |-> id]
Discovery(k) == [kind |-> k]
AckPackets(w) == {p \in w : p.kind = "ack"}

Init ==
  /\ session \in Sessions
  /\ dial = "none" /\ ours = 0
  /\ sent = 0 /\ unacked = {}
  /\ expect = session.start /\ ahead = {} /\ buf = <<>>
  /\ err = "none" /\ closed = "no"
  /\ readDL = "none" /\ reader = "away" /\ held = "none" /\ read = <<>>
  /\ recv = "off" /\ timer = "off" /\ closer = "no"
  /\ cam = [state |-> "away", sent |-> 0, unacked |-> {},
            expect |-> session.start, ahead |-> {}]
  /\ toUs = {} /\ toCam = {}

-----------------------------------------------------------------------------
(* Dial *)

Dial ==
  /\ dial = "none"
  /\ dial' = "asking" /\ ours' = ours + 1
  /\ UNCHANGED <<session, sent, unacked, streamVars, err, reader, readVars,
                 recv, timer, closer, closed, cam, netVars>>

Ask ==
  /\ dial = "asking"
  /\ toCam' = toCam \cup {Discovery("connect")}
  /\ UNCHANGED <<session, sent, unacked, streamVars, err, reader, readVars,
                 lifeVars, cam, toUs>>

\* Later copies of the handshake change nothing and are dropped here.
Connected ==
  /\ dial = "asking" /\ Discovery("accept") \in toUs
  /\ dial' = "open" /\ recv' = "on" /\ timer' = "on"
  /\ toUs' = {} /\ toCam' = {}
  /\ UNCHANGED <<session, sent, unacked, streamVars, err, reader, readVars,
                 closer, closed, ours, cam>>

NotConnected ==
  /\ dial = "asking"
  /\ \/ dial' = "timeout"
     \/ Discovery("refuse") \in toUs /\ dial' = "refused"
  /\ ours' = ours - 1
  /\ UNCHANGED <<session, sent, unacked, streamVars, err, reader, readVars,
                 recv, timer, closer, closed, cam, netVars>>

-----------------------------------------------------------------------------
(* What arrives *)

Signal(r) == IF r = "waiting" THEN "woken" ELSE r
Fail(why) == IF err = "none" THEN why ELSE err

\* A run of ids from id on, the later ones kept: what appending id appends.
Run(id, kept) ==
  CHOOSE r \in {[i \in 1..n |-> Plus(id, i - 1)] : n \in 1..Cardinality(kept) + 1} :
    /\ \A i \in 2..Len(r) : r[i] \in kept
    /\ Plus(id, Len(r)) \notin kept

\* A receiver, ours or the camera's, that meets a data packet.
Arrived(id, base, kept) ==
  CASE id = base ->
         LET r == Run(id, kept)
         IN  [run |-> r, kept |-> kept \ {r[i] : i \in 1..Len(r)}]
    [] id # base /\ ~Behind(id, base) /\ Gap(id, base) < MaxAhead ->
         [run |-> <<>>, kept |-> kept \cup {id}]
    [] OTHER -> [run |-> <<>>, kept |-> kept]

\* A sender, ours or the camera's, that meets an ack.
Unconfirmed(ids, a) ==
  {id \in ids : ~Behind(id, Plus(a.last, 1)) /\ id \notin a.have}

AckLocked(base, kept) ==
  [kind |-> "ack", last |-> Plus(base, Mod - 1), have |-> kept]

Receives == recv = "on" /\ closer \in {"no", "telling", "told"}

\* Mutant: expect counts the packet that arrived, not the ones it released.
HandleDataOne(id) ==
  /\ Receives /\ Data(id) \in toUs
  /\ LET a == Arrived(id, expect, ahead)
     IN  /\ ahead' = a.kept /\ buf' = buf \o a.run
         /\ expect' = IF id = expect THEN Plus(expect, 1) ELSE expect
         /\ reader' = IF id = expect THEN Signal(reader) ELSE reader
  /\ UNCHANGED <<session, sent, unacked, err, readVars, lifeVars, cam, netVars>>

HandleData(id) ==
  /\ Receives /\ Data(id) \in toUs
  /\ LET a == Arrived(id, expect, ahead)
     IN  /\ ahead' = a.kept /\ buf' = buf \o a.run
         /\ expect' = Plus(expect, Len(a.run))
         /\ reader' = IF id = expect THEN Signal(reader) ELSE reader
  /\ UNCHANGED <<session, sent, unacked, err, readVars, lifeVars, cam, netVars>>

\* Mutant: D2C_DISC recorded without the signal.
HandleDiscQuietly ==
  /\ Receives /\ Discovery("disc") \in toUs
  /\ err' = Fail("eof")
  /\ UNCHANGED <<session, sent, unacked, streamVars, reader, readVars,
                 lifeVars, cam, netVars>>

HandleAck ==
  /\ Receives
  /\ \E a \in AckPackets(toUs) : unacked' = Unconfirmed(unacked, a)
  /\ UNCHANGED <<session, sent, streamVars, err, reader, readVars, lifeVars,
                 cam, netVars>>

HandleDisc ==
  /\ Receives /\ Discovery("disc") \in toUs
  /\ err' = Fail("eof") /\ reader' = Signal(reader)
  /\ UNCHANGED <<session, sent, unacked, streamVars, readVars, lifeVars, cam,
                 netVars>>

RecvEnds ==
  /\ recv = "on" /\ (closer = "waiting" \/ "socket" \in session.events)
  /\ recv' = "over" /\ err' = Fail("socket") /\ reader' = Signal(reader)
  /\ UNCHANGED <<session, dial, sent, unacked, streamVars, readVars, timer,
                 closer, closed, ours, cam, netVars>>

-----------------------------------------------------------------------------
(* timerLoop *)

\* An ack sent while as many as the bound are on their way is lost.
Carry(w, a) ==
  IF a \in w \/ Cardinality(AckPackets(w)) < session.acks THEN w \cup {a} ELSE w

\* Mutant: only acks and heartbeats are sent at a tick.
TickAcksOnly(due) ==
  /\ timer = "on" /\ err = "none" /\ due = {}
  /\ toCam' = Carry(toCam, AckLocked(expect, ahead))
  /\ UNCHANGED <<session, sent, unacked, streamVars, err, reader, readVars,
                 lifeVars, cam, toUs>>

Tick(due) ==
  /\ timer = "on" /\ err = "none"
  /\ due \subseteq unacked
  /\ toCam' = IF closer = "waiting" THEN toCam
              ELSE Carry(toCam, AckLocked(expect, ahead))
                     \cup {Data(id) : id \in due}
  /\ \/ UNCHANGED <<err, reader>>
     \/ "silence" \in session.events /\ err' = Fail("silent") /\ reader' = Signal(reader)
  /\ UNCHANGED <<session, sent, unacked, streamVars, readVars, lifeVars, cam,
                 toUs>>

TimerEnds ==
  /\ timer = "on" /\ (closed = "yes" \/ err # "none")
  /\ timer' = "over"
  /\ UNCHANGED <<session, dial, sent, unacked, streamVars, err, reader,
                 readVars, recv, closer, closed, ours, cam, netVars>>

-----------------------------------------------------------------------------
(* Conn *)

\* A read returns some of the buffer, gives up, or waits for the next signal
\* with the deadline of now.
Read ==
  /\ dial = "open" /\ reader = "away" /\ reader' = "looking"
  /\ UNCHANGED <<session, sent, unacked, streamVars, err, readVars, lifeVars,
                 cam, netVars>>

Look ==
  /\ reader = "looking"
  /\ \/ /\ buf # <<>> /\ closed = "no"
        /\ \E n \in 1..Len(buf) :
             /\ read' = read \o SubSeq(buf, 1, n)
             /\ buf' = SubSeq(buf, n + 1, Len(buf))
        /\ reader' = "away" /\ UNCHANGED held
     \/ /\ ~(buf # <<>> /\ closed = "no")
        /\ \/ err # "none" /\ reader' = "away" /\ UNCHANGED held
           \/ err = "none" /\ reader' = "waiting" /\ held' = readDL
           \/ err = "none" /\ readDL = "set" /\ reader' = "away" /\ UNCHANGED held
        /\ UNCHANGED <<read, buf>>
  /\ UNCHANGED <<session, sent, unacked, expect, ahead, err, readDL, lifeVars,
                 cam, netVars>>

Woken ==
  /\ reader = "woken" /\ reader' = "looking" /\ held' = "none"
  /\ UNCHANGED <<session, sent, unacked, streamVars, err, readDL, read,
                 lifeVars, cam, netVars>>

Expire ==
  /\ reader \in {"waiting", "woken"} /\ held = "set"
  /\ reader' = "away" /\ held' = "none"
  /\ UNCHANGED <<session, sent, unacked, streamVars, err, readDL, read,
                 lifeVars, cam, netVars>>

SetReadDeadline ==
  /\ dial = "open" /\ "deadline" \in session.events
  /\ readDL' \in {"none", "set"} \ {readDL}
  /\ reader' = Signal(reader)
  /\ UNCHANGED <<session, sent, unacked, streamVars, err, held, read, lifeVars,
                 cam, netVars>>

\* n packets are numbered and queued; if the socket refuses the last of them,
\* Write stops there with an error and leaves it queued.
Write(n) ==
  /\ dial = "open" /\ closed = "no" /\ err \in {"none", "eof"}
  /\ sent + n <= session.ours
  /\ sent' = sent + n
  /\ LET ids == {Plus(NextID, i) : i \in 0..n - 1}
     IN  /\ unacked' = unacked \cup ids
         /\ \E lost \in {{}, {Plus(NextID, n - 1)}} :
              toCam' = toCam \cup {Data(id) : id \in ids \ lost}
  /\ UNCHANGED <<session, streamVars, err, reader, readVars, lifeVars, cam,
                 toUs>>

Close ==
  /\ dial = "open" /\ closer = "no" /\ "close" \in session.events
  /\ closer' = "telling" /\ closed' = "yes"
  /\ err' = Fail("closed") /\ reader' = Signal(reader)
  /\ UNCHANGED <<session, sent, unacked, streamVars, readVars, dial, recv,
                 timer, ours, cam, netVars>>

CloseTell ==
  /\ closer = "telling" /\ closer' = "told"
  /\ toCam' = toCam \cup {Discovery("disc")}
  /\ UNCHANGED <<session, sent, unacked, streamVars, err, reader, readVars,
                 dial, recv, timer, closed, ours, cam, toUs>>

CloseSocket ==
  /\ closer = "told" /\ closer' = "waiting"
  /\ UNCHANGED <<session, sent, unacked, streamVars, err, reader, readVars,
                 dial, recv, timer, closed, ours, cam, netVars>>

CloseReturns ==
  /\ closer = "waiting" /\ recv = "over" /\ timer = "over"
  /\ closer' = "returned" /\ ours' = ours - 1
  /\ UNCHANGED <<session, sent, unacked, streamVars, err, reader, readVars,
                 dial, recv, timer, closed, cam, netVars>>

-----------------------------------------------------------------------------
(* The camera and the network: external *)

ourVars == <<session, sent, unacked, streamVars, err, reader, readVars, lifeVars>>

CamAnswer ==
  /\ Discovery("connect") \in toCam
  /\ \/ /\ cam.state \in {"away", "in"} /\ cam' = [cam EXCEPT !.state = "in"]
        /\ toUs' = toUs \cup {Discovery("accept")}
     \/ /\ cam.state = "away" /\ "refuse" \in session.events /\ UNCHANGED cam
        /\ toUs' = toUs \cup {Discovery("refuse")}
  /\ UNCHANGED <<ourVars, toCam>>

\* connect drops what a camera sends before it is done: as if sent later.
CamSend ==
  /\ cam.state = "in" /\ dial = "open" /\ cam.sent < session.theirs
  /\ cam' = [cam EXCEPT !.sent = @ + 1, !.unacked = @ \cup {NextTheirs}]
  /\ toUs' = toUs \cup {Data(NextTheirs)}
  /\ UNCHANGED <<ourVars, toCam>>

CamResend(id) ==
  /\ cam.state = "in" /\ id \in cam.unacked
  /\ toUs' = toUs \cup {Data(id)}
  /\ UNCHANGED <<ourVars, cam, toCam>>

CamAck ==
  /\ cam.state = "in" /\ dial = "open"
  /\ toUs' = Carry(toUs, AckLocked(cam.expect, cam.ahead))
  /\ UNCHANGED <<ourVars, cam, toCam>>

CamHandleData(id) ==
  /\ cam.state = "in" /\ Data(id) \in toCam
  /\ LET a == Arrived(id, cam.expect, cam.ahead)
     IN  cam' = [cam EXCEPT !.expect = Plus(@, Len(a.run)), !.ahead = a.kept]
  /\ UNCHANGED <<ourVars, netVars>>

CamHandleAck ==
  /\ cam.state = "in"
  /\ \E a \in AckPackets(toCam) : cam' = [cam EXCEPT !.unacked = Unconfirmed(@, a)]
  /\ UNCHANGED <<ourVars, netVars>>

CamLeave ==
  /\ cam.state = "in" /\ cam' = [cam EXCEPT !.state = "left"]
  /\ \/ Discovery("disc") \in toCam /\ UNCHANGED toUs
     \/ "disc" \in session.events /\ dial = "open"
        /\ toUs' = toUs \cup {Discovery("disc")}
  /\ UNCHANGED <<ourVars, toCam>>

Lose ==
  /\ \/ (\E p \in toUs : toUs' = toUs \ {p}) /\ UNCHANGED toCam
     \/ (\E p \in toCam : toCam' = toCam \ {p}) /\ UNCHANGED toUs
  /\ UNCHANGED <<ourVars, cam>>

-----------------------------------------------------------------------------

Next ==
  \/ Dial \/ Ask \/ Connected \/ NotConnected
  \/ \E id \in Ids : HandleData(id)
  \/ HandleAck \/ HandleDisc \/ RecvEnds
  \/ \E due \in SUBSET unacked : Tick(due)
  \/ TimerEnds
  \/ Read \/ Look \/ Woken \/ Expire \/ SetReadDeadline
  \/ \E n \in 1..session.ours : Write(n)
  \/ Close \/ CloseTell \/ CloseSocket \/ CloseReturns
  \/ CamAnswer \/ CamSend \/ CamAck \/ CamHandleAck \/ CamLeave
  \/ \E id \in cam.unacked : CamResend(id)
  \/ \E id \in Ids : CamHandleData(id)
  \/ Lose

\* Goroutines run on and the application keeps reading.  Of what is sent over
\* and over, the packet the other side waits for gets through now and then.
Fairness ==
  /\ WF_vars(Read) /\ WF_vars(Look) /\ WF_vars(Woken)
  /\ WF_vars(\E due \in SUBSET unacked : cam.expect \in due /\ Tick(due))
  /\ WF_vars(CamResend(expect))
  /\ SF_vars(HandleData(expect)) /\ SF_vars(CamHandleData(cam.expect))
  /\ WF_vars(closer = "waiting" /\ RecvEnds) /\ WF_vars(TimerEnds)
  /\ WF_vars(CloseTell) /\ WF_vars(CloseSocket) /\ WF_vars(CloseReturns)

Spec == Init /\ [][Next]_vars /\ Fairness

-----------------------------------------------------------------------------
(* Properties *)

\* The state of a session stays of its types, and its address is counted as
\* ours exactly from the dial to its failure or the end of Close.
TypeOK ==
  /\ session \in Sessions
  /\ dial \in {"none", "asking", "open", "refused", "timeout"}
  /\ sent \in 0..session.ours /\ unacked \subseteq Ids
  /\ expect \in Ids /\ ahead \subseteq Ids /\ buf \in Seq(Ids)
  /\ err \in {"none", "eof", "silent", "closed", "socket"}
  /\ closed \in {"no", "yes"} /\ (closed = "no") = (closer = "no")
  /\ readDL \in {"none", "set"} /\ held \in {"none", "set"}
  /\ reader \in {"away", "looking", "waiting", "woken"} /\ read \in Seq(Ids)
  /\ recv \in {"off", "on", "over"} /\ timer \in {"off", "on", "over"}
  /\ closer \in {"no", "telling", "told", "waiting", "returned"}
  /\ ours = IF dial = "asking" \/ (dial = "open" /\ closer # "returned")
            THEN 1 ELSE 0
  /\ cam \in [state : {"away", "in", "left"}, sent : 0..session.theirs,
              unacked : SUBSET Ids, expect : Ids, ahead : SUBSET Ids]

\* What either side has stopped resending the other side has: a late, repeated
\* or reordered ack never makes a sender forget a packet that is still missing,
\* also when ids wrap (handle, ackLocked).
Holds(base, kept, i) ==
  i < Gap(base, session.start) \/ Plus(session.start, i) \in kept
NothingForgotten ==
  /\ \A i \in 0..sent - 1 :
       Plus(session.start, i) \in unacked \/ Holds(cam.expect, cam.ahead, i)
  /\ \A i \in 0..cam.sent - 1 :
       Plus(session.start, i) \in cam.unacked \/ Holds(expect, ahead, i)

\* A Read sleeps only while there is nothing to return and nothing went wrong:
\* no wake-up is lost between its look and its wait (Read, signalLocked).
ReaderAwake ==
  reader = "waiting" => buf = <<>> /\ err = "none"

\* Nothing is lost on either side of the session's lock: no packet by the
\* acks, no wake-up by the reader.
NothingLost == TypeOK /\ NothingForgotten /\ ReaderAwake

\* The camera's bytes are read in the order sent, each once, none after Close.
Wire == INSTANCE ByteStream WITH
  Pieces <- Ids, sent <- FirstIds(cam.sent), got <- read, shut <- closed
Stream == Wire!Spec

\* While a session lasts, all that either side sent arrives in the end, the
\* packets a receiver dropped for being too far ahead included; and Close,
\* which waits for both loops, returns.
CaughtUp == cam.expect = NextID /\ Len(read) = cam.sent
Ended == err # "none" \/ cam.state = "left"
Arrives == dial = "open" ~> CaughtUp \/ Ended
Settles == Arrives /\ (closer = "telling" ~> closer = "returned")
=============================================================================
