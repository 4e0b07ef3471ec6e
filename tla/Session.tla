------------------------------ MODULE Session ------------------------------
(***************************************************************************)
(* One run of a stream (internal/stream): from the connection to a camera, *)
(* through the packets its messages are cut into (baichuan.Depacketizer)   *)
(* and the muxer's first keyframe (ts.Muxer), to what the hub publishes.   *)
(*                                                                         *)
(* A video frame is its place: the group of pictures it is in, and how many *)
(* frames after that group's keyframe it comes.  A message is a sequence   *)
(* of units: a whole packet, its head or its tail, padding, or filler.     *)
(* The camera may stop in the middle of a packet and begin another one, or *)
(* send several packets in a message.  runNative, the camera's own RTSP,   *)
(* takes the run's place once the zoom lens has sent nothing over Baichuan. *)
(***************************************************************************)
EXTENDS Integers, Sequences

CONSTANTS MaxPos,        \* P frames of a group of pictures (bound)
          Groups,        \* groups of pictures are numbered modulo this (bound)
          MediaTimeout,  \* DefaultMediaTimeout, in ticks
          IdleTimeout,   \* baichuan.DefaultIdleTimeout, in ticks
          Frames,        \* how many frames runNative's channel holds
          Streams        \* the settings of the streams looked at

VARIABLES cfg,      \* the stream: is it a zoom lens, on a shared connection, is it turned, and the picture's shape
          rtsp,     \* zoomRTSP: this camera's zoom sent no video over Baichuan
          phase,    \* "down", "run" or "native"
          camera,   \* the last video frame begun, and the packet the camera is amid
          buf,      \* Depacketizer.buf
          run,      \* Run's waitKey, mux, gotVideo and infoW/infoH, and what it told the hub
          clock,    \* ticks since lastMedia and since the last message
          frames    \* runNative's channel of frames

vars == <<cfg, rtsp, phase, camera, buf, run, clock, frames>>

-----------------------------------------------------------------------------
(* Frames and messages. *)

Nothing == [kind |-> "none", gop |-> 0, pos |-> 0]
I(g) == [kind |-> "I", gop |-> g, pos |-> 0]
P(g, n) == [kind |-> "P", gop |-> g, pos |-> n]
Other(k) == [Nothing EXCEPT !.kind = k]
IsVideo(f) == f.kind \in {"I", "P"}

Video == {I(g) : g \in 0 .. Groups - 1} \cup {P(g, n) : g \in 0 .. Groups - 1, n \in 1 .. MaxPos}
Others == {Other(k) : k \in {"Audio", "Info"}}

\* What a camera at frame `at` may send next.
After(at) ==
    {I((at.gop + 1) % Groups)} \cup Others
        \cup (IF at.pos < MaxPos THEN {P(at.gop, at.pos + 1)} ELSE {})

Onward(at, f) == IF IsVideo(f) THEN f ELSE at

Unit(is, f) == [is |-> is, f |-> f]
Whole(f) == Unit("whole", f)
HeadOf(f) == Unit("head", f)
TailOf(f) == Unit("tail", f)
Pad == Unit("pad", Nothing)
Filler == Unit("filler", Nothing)

\* Mutant: padding between packets is left for the next packet start to throw away.
padKept(b) ==
    CASE b # <<>> /\ Head(b).is = "whole" -> [got |-> <<Head(b).f>>, left |-> Tail(b)]
      [] Len(b) > 1 /\ Head(b).is = "head" /\ b[2] = TailOf(Head(b).f) ->
            [got |-> <<Head(b).f>>, left |-> Tail(Tail(b))]
      [] OTHER -> [got |-> <<>>, left |-> b]

\* Next: the packet at the head of the buffer once it is all there, stepping over padding
\* in front of a packet and waiting otherwise.
NextPacket(buffer) ==
    LET pads == buffer # <<>> /\ Head(buffer).is = "pad" /\ Len(buffer) > 1 /\ buffer[2].is \in {"whole", "head"}
        b == IF pads THEN Tail(buffer) ELSE buffer
    IN CASE b # <<>> /\ Head(b).is = "whole" -> [got |-> <<Head(b).f>>, left |-> Tail(b)]
         [] Len(b) > 1 /\ Head(b).is = "head" /\ b[2] = TailOf(Head(b).f) ->
               [got |-> <<Head(b).f>>, left |-> Tail(Tail(b))]
         [] OTHER -> [got |-> <<>>, left |-> b]

\* Mutant: whatever is left in the buffer is taken for filler.
fillerOnly(start) == FALSE

\* Write at a packet's start: a video packet still waiting for its bytes was cut short.
TakeGap(start) == start /\ buf # <<>> /\ Head(buf).is = "head" /\ IsVideo(Head(buf).f)

-----------------------------------------------------------------------------
(* What Run does with a frame: `s` holds its own state and the hub's. *)

Follows(f) == IF f.pos = 1 THEN I(f.gop) ELSE P(f.gop, f.pos - 1)

\* FrameWithKey and PublishKey: nothing before the first keyframe. `torn` remembers that a frame
\* was published without the one it refers to.
Publish(s, f) ==
    IF f.kind = "P" /\ s.mux # "tables" THEN s
    ELSE [s EXCEPT !.mux = "tables", !.last = f, !.torn = @ \/ (f.kind = "P" /\ s.last # Follows(f))]

\* rotate: as set, or as the camera asks for if the picture is taller than wide. The size is
\* the keyframe's own if it can be read, else the last info packet's.
Turned(s) ==
    \/ cfg.turn = "setting"
    \/ cfg.turn = "camera" /\ cfg.tall /\ (cfg.readable \/ s.info)

\* Mutant: a camera that asks to be turned is, whatever the shape of the stream.
alwaysTurned(s) == cfg.turn # "none"

SetRotate(s) == Turned(s)

\* A video frame: the first one makes the muxer.
VideoFrame(s, f) ==
    LET made == IF s.mux = "none" THEN [s EXCEPT !.mux = "new"] ELSE s
        seen == [made EXCEPT !.video = TRUE, !.fresh = TRUE]
        shown == IF f.kind = "I" THEN [seen EXCEPT !.waitKey = FALSE, !.turned = SetRotate(seen)]
                 ELSE seen
    IN Publish(shown, f)

\* Mutant: frames after a lost packet are published as if it had come.
publishesOn(s, f) ==
    IF IsVideo(f) THEN VideoFrame([s EXCEPT !.waitKey = FALSE], f)
    ELSE [s EXCEPT !.info = @ \/ f.kind = "Info"]

\* Audio changes nothing that is looked at here: it is published, or dropped, between the frames.
Handle(s, f) ==
    CASE s.waitKey /\ f.kind = "P" -> s
      [] f.kind = "I" \/ (f.kind = "P" /\ ~s.waitKey) -> VideoFrame(s, f)
      [] f.kind = "Info" -> [s EXCEPT !.info = TRUE]
      [] f.kind = "Audio" -> s

\* One turn of the loop over Next: a frame is handled; without one nothing comes of it.
Turn(d) ==
    LET n == NextPacket(d.left)
    IN IF n.got = <<>> THEN [d EXCEPT !.left = n.left]
       ELSE [s |-> Handle(d.s, n.got[1]), left |-> n.left]

\* The loop, until the buffer holds no whole packet: a message ends two at most (Messages), so
\* its third turn finds none.
Drain(s, b) == Turn(Turn(Turn([s |-> s, left |-> b])))

-----------------------------------------------------------------------------
(* The session. *)

\* The locals of a new Run; what the hub was told stays.
Anew(s) == [s EXCEPT !.waitKey = FALSE, !.mux = "none", !.video = FALSE, !.fresh = FALSE, !.info = FALSE,
                     !.last = Nothing]
New == [waitKey |-> FALSE, mux |-> "none", video |-> FALSE, fresh |-> FALSE, info |-> FALSE, last |-> Nothing,
        turned |-> FALSE, torn |-> FALSE]
Clock0 == [media |-> 0, quiet |-> 0]

Init ==
    /\ cfg \in Streams
    /\ rtsp = FALSE /\ phase = "down"
    /\ camera = [at |-> I(0), rest |-> Nothing]
    /\ buf = <<>> /\ run = New /\ clock = Clock0 /\ frames = <<>>

\* Every return of Run and runNative: the connection, or the reader, is closed.
Return(s) == phase' = "down" /\ buf' = <<>> /\ run' = Anew(s) /\ clock' = Clock0 /\ frames' = <<>>

\* The camera's picture may have been set otherwise since it was last reached.
Reshaped(c) == {s \in Streams : s.zoom = c.zoom /\ s.shared = c.shared /\ s.turn = c.turn}

\* Dial, or a reader of the pool, and StartVideo. The camera is wherever it is in its packets.
Connect ==
    /\ phase = "down" /\ ~(cfg.zoom /\ rtsp)
    /\ phase' = "run" /\ cfg' \in Reshaped(cfg)
    /\ \E at \in Video : camera' \in {[at |-> at, rest |-> Nothing], [at |-> at, rest |-> at]}
    /\ UNCHANGED <<rtsp, buf, run, clock, frames>>

\* The messages of this stream: the tail of the packet the camera is amid, or the start of a
\* new one, alone or with more after it; each with where it leaves the camera.
Messages == [camera_ \in [at : Video, rest : Video \cup Others \cup {Nothing}] |->
    LET at == camera_.at
        Send(start, units, now, rest) == [start |-> start, units |-> units, camera |-> [at |-> now, rest |-> rest]]
        Alone == UNION { {Send(TRUE, <<Whole(f)>>, Onward(at, f), Nothing),
                          Send(TRUE, <<Whole(f), Filler>>, Onward(at, f), Nothing),
                          Send(TRUE, <<HeadOf(f)>>, Onward(at, f), f)} : f \in After(at) }
        Several == UNION { UNION { {Send(TRUE, <<Whole(f), Pad, Whole(g)>>, Onward(Onward(at, f), g), Nothing),
                                    Send(TRUE, <<Whole(f), Pad, HeadOf(g)>>, Onward(Onward(at, f), g), g)}
                                   : g \in After(Onward(at, f)) } : f \in After(at) }
        Ended == {Send(FALSE, <<TailOf(camera_.rest)>>, at, Nothing),
                  Send(FALSE, <<TailOf(camera_.rest), Filler>>, at, Nothing)}
    IN Alone \cup Several \cup (IF camera_.rest = Nothing THEN {} ELSE Ended)]

\* A message: its frames, then the check for a session that sends no video, which a zoom that
\* never sent any leaves for the camera's RTSP. The ping that is due in between is not modelled:
\* one the camera refuses is a Break.
Message ==
    /\ phase = "run"
    /\ \E m \in Messages[camera] :
        LET d == Drain([run EXCEPT !.waitKey = @ \/ TakeGap(m.start), !.fresh = FALSE],
                       (IF m.start THEN <<>> ELSE buf) \o m.units)
            media == IF d.s.fresh THEN 0 ELSE clock.media
        IN /\ camera' = m.camera
           /\ \/ /\ media >= MediaTimeout
                 /\ rtsp' = (rtsp \/ (cfg.zoom /\ ~d.s.video))
                 /\ Return(d.s)
              \/ /\ media < MediaTimeout
                 /\ buf' = d.left /\ run' = d.s
                 /\ clock' = [media |-> media, quiet |-> 0]
                 /\ UNCHANGED <<rtsp, phase, frames>>
    /\ UNCHANGED cfg

\* A message of channel 0, which a zoom on a connection of its own asked for only to unlock the
\* lens: nothing after the test for it is done.
Unlocking ==
    /\ phase = "run" /\ cfg.zoom /\ ~cfg.shared
    /\ clock' = [clock EXCEPT !.quiet = 0]
    /\ UNCHANGED <<cfg, rtsp, phase, camera, buf, run, frames>>

\* Mutant: only messages make a stream that shares its connection look at its own silence.
noTicker == FALSE

\* The ticker of a stream that shares its connection.
Watch ==
    /\ phase = "run" /\ cfg.shared /\ clock.media >= MediaTimeout
    /\ Return(run) /\ UNCHANGED <<cfg, rtsp, camera>>

\* A connection on which nothing arrives is closed by its own reader.
Idle ==
    /\ phase = "run" /\ ~cfg.shared /\ clock.quiet >= IdleTimeout
    /\ Return(run) /\ UNCHANGED <<cfg, rtsp, camera>>

\* The camera closes the connection, refuses the ping or says it is in privacy mode; the context
\* ends; a frame makes Run panic.
Break ==
    /\ phase # "down"
    /\ Return(run) /\ UNCHANGED <<cfg, rtsp, camera>>

Tick ==
    /\ phase # "down"
    /\ clock' = [media |-> IF clock.media < MediaTimeout THEN clock.media + 1 ELSE MediaTimeout,
                 quiet |-> IF clock.quiet < IdleTimeout THEN clock.quiet + 1 ELSE IdleTimeout]
    /\ UNCHANGED <<cfg, rtsp, phase, camera, buf, run, frames>>

-----------------------------------------------------------------------------
(* runNative. *)

NativeConnect ==
    /\ phase = "down" /\ cfg.zoom /\ rtsp
    /\ phase' = "native" /\ cfg' \in Reshaped(cfg)
    /\ \E at \in Video : camera' = [at |-> at, rest |-> Nothing]
    /\ UNCHANGED <<rtsp, buf, run, clock, frames>>

\* The library's callback: a frame that cannot be decoded, or that the loop has no room for, is
\* dropped.
NativePacket ==
    /\ phase = "native"
    /\ \E f \in After(camera.at) \cap Video :
        /\ camera' = [camera EXCEPT !.at = f]
        /\ \/ Len(frames) < Frames /\ frames' = Append(frames, f)
           \/ UNCHANGED frames
    /\ UNCHANGED <<cfg, rtsp, phase, buf, run, clock>>

\* Frames before the first keyframe are thrown away, and keep the timer from firing all the same.
\* What was dropped is not missed, and nothing is said of turning the picture.
NativeFrame ==
    /\ phase = "native" /\ frames # <<>>
    /\ run' = Publish(run, Head(frames))
    /\ frames' = Tail(frames) /\ clock' = [clock EXCEPT !.media = 0]
    /\ UNCHANGED <<cfg, rtsp, phase, camera, buf>>

NativeTimeout ==
    /\ phase = "native" /\ clock.media >= MediaTimeout
    /\ Return(run) /\ UNCHANGED <<cfg, rtsp, camera>>

Go == \/ Connect \/ Message \/ Unlocking \/ Watch \/ Idle \/ Break \/ Tick
      \/ NativeConnect \/ NativePacket \/ NativeFrame \/ NativeTimeout

\* Time passes, and a loop takes what is ready. The camera owes nothing.
Fairness == WF_vars(Tick) /\ WF_vars(Watch) /\ WF_vars(Idle) /\ WF_vars(NativeFrame) /\ WF_vars(NativeTimeout)

Spec == Init /\ [][Go]_vars /\ Fairness

-----------------------------------------------------------------------------
(* Properties. *)

TypeOK ==
    /\ cfg \in Streams /\ rtsp \in BOOLEAN /\ phase \in {"down", "run", "native"}
    /\ camera.at \in Video /\ camera.rest \in Video \cup Others \cup {Nothing}
    /\ Len(frames) <= Frames /\ run.mux \in {"none", "new", "tables"}
    /\ clock \in [media : 0 .. MediaTimeout, quiet : 0 .. IdleTimeout]

\* What a decoder is given over Baichuan can be decoded, and is all there is: no frame is
\* published without the one it refers to, however packets are cut and packed into messages,
\* and once a keyframe has gone out, everything whole that came is published unless a lost
\* packet made it wait for the next keyframe (stream.go:325-459, media.go:232-533). Not so of a
\* zoom lens that is taken over RTSP, which it then stays: see AlwaysDecodable.
Decodable ==
    /\ TypeOK
    /\ ~rtsp => ~run.torn
    /\ phase = "run" /\ run.mux = "tables" /\ ~run.waitKey /\ camera.rest = Nothing => run.last = camera.at

\* The stream of a session over Baichuan is turned if it was set to be, or the camera asks for
\* it and its keyframes say they are taller than wide; and only if it was set to be, or the
\* camera asks for it and the picture is taller; whatever an earlier session left it at
\* (stream.go:426-444).
Asks == cfg.turn = "setting" \/ (cfg.turn = "camera" /\ cfg.tall)
TurnedRight ==
    phase = "run" /\ run.mux = "tables" =>
        /\ run.turned => Asks
        /\ Asks /\ (cfg.turn = "camera" => cfg.readable) => run.turned

\* Not so over RTSP: frames after one that was dropped go out (native.go:105, 160), and "A
\* rotate setting applies as written" (stream.go:421) of none of them.
AlwaysDecodable == ~run.torn
TurnedAsSet == run.mux = "tables" /\ cfg.turn = "setting" => run.turned

\* A session that gets no video does not last: its timeout ends it (stream.go:502-528,
\* native.go:103), for every stream but a zoom lens that has channel 0 beside it.
Starved == phase # "down" /\ clock.media = MediaTimeout
GivesUp == (Starved /\ ~(cfg.zoom /\ ~cfg.shared)) ~> ~Starved

\* "DefaultMediaTimeout bounds how long Run tolerates zero decoded video frames before giving
\* up" (stream.go:25), whatever else the connection carries.
AlwaysGivesUp == Starved ~> ~Starved
=============================================================================
