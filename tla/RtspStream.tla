----------------------------- MODULE RtspStream -----------------------------
(***************************************************************************)
(* One path of the RTSP server (internal/rtsp): the Stream that a camera's *)
(* goroutine and Hold's goroutine both send frames through, and the        *)
(* sessions that read it.  A Stream outlives the camera's connections: the *)
(* first frame of a new one rebases its clock, and the first keyframe of   *)
(* it decides whether the description still holds.                         *)
(*                                                                         *)
(* A frame is a keyframe or not, the parameter sets it carries (0 if they  *)
(* cannot be read), and the boot of the camera whose clock it was stamped  *)
(* by.  The library (gortsplib) is external: it calls OnSetup, OnPlay and  *)
(* OnSessionClose, closes the sessions of a server stream that is closed,  *)
(* and lets a client send PLAY again.                                      *)
(***************************************************************************)
EXTENDS Integers

CONSTANTS Sessions,    \* the clients' sessions
          Boots,       \* how often the camera is started (bound)
          MaxReaders,  \* PLAY requests counted at a time (bound)
          Probe,       \* audioProbeFrames
          Holding      \* what hold_picture may be set to, of BOOLEAN

VARIABLES source,   \* is it connected, which boot, which parameter sets it sends
          holding,  \* is hold_picture set
          st,       \* the Stream of the path
          old,      \* the Stream a reload replaced: the picture its Hold still shows
          pc,       \* where the camera's goroutine and Hold's are in videoFrame
          session,  \* the sessions: their state, and the Stream they were set up on
          wrong     \* what a reader was given: a time of another timeline, sets not described

vars == <<source, holding, st, old, pc, session, wrong>>

Procs == {"camera", "hold"}
Sets == {1, 2}
NoFrame == [key |-> FALSE, sets |-> 0, boot |-> 0]
Frame == [key : BOOLEAN, sets : {0} \cup Sets, boot : 0 .. Boots]
Idle == [at |-> "idle", f |-> NoFrame, key |-> NoFrame]

New == [ready |-> FALSE, desc |-> 0, pending |-> NoFrame, waited |-> 0,
        rebase |-> FALSE, check |-> FALSE, clock |-> 0, readers |-> 0,
        hold |-> NoFrame, real |-> 0, quiet |-> FALSE]

Init ==
    /\ source = [up |-> FALSE, boot |-> 1, sets |-> 1]
    /\ holding \in Holding
    /\ st = New /\ old = NoFrame
    /\ pc = [g \in Procs |-> Idle]
    /\ session = [s \in Sessions |-> [state |-> "none", on |-> "st"]]
    /\ wrong = {}

At(g, where) == pc[g].at = where
Goes(g, where) == pc' = [pc EXCEPT ![g].at = where]
Returns(g) == pc' = [pc EXCEPT ![g] = Idle]

-----------------------------------------------------------------------------
(* The camera's goroutine. *)

\* Mutant: a new connection is not told to the clock.
keepsClock(s) == [s EXCEPT !.check = TRUE]

Connected(s) == [s EXCEPT !.rebase = TRUE, !.check = TRUE]

\* A connection: of the same boot, or after a restart that may change its settings.
Connect ==
    /\ At("camera", "idle") /\ ~source.up
    /\ \/ source' = [source EXCEPT !.up = TRUE]
       \/ source.boot < Boots /\ \E n \in Sets : source' = [up |-> TRUE, boot |-> source.boot + 1, sets |-> n]
    /\ st' = Connected(st)
    /\ UNCHANGED <<holding, old, pc, session, wrong>>

Disconnect ==
    /\ At("camera", "idle") /\ source.up
    /\ source' = [source EXCEPT !.up = FALSE]
    /\ UNCHANGED <<holding, st, old, pc, session, wrong>>

\* Frame: noteRealVideo, then videoFrame.
VideoFrame ==
    /\ At("camera", "idle") /\ source.up
    /\ \E key \in BOOLEAN, sets \in {0, source.sets} :
        /\ ~key => sets = 0
        /\ LET f == [key |-> key, sets |-> sets, boot |-> source.boot]
           IN /\ pc' = [pc EXCEPT !["camera"] = [at |-> "ready", f |-> f, key |-> NoFrame]]
              /\ st' = [st EXCEPT !.real = source.boot, !.quiet = FALSE, !.hold = IF key THEN f ELSE @]
    /\ UNCHANGED <<source, holding, old, session, wrong>>

\* aacFrame before the description: the audio's settings, and no more waiting for them.
ObserveAudio ==
    /\ At("camera", "idle") /\ source.up /\ ~st.ready /\ st.waited < Probe
    /\ st' = [st EXCEPT !.waited = Probe]
    /\ pc' = IF st.pending = NoFrame THEN pc
             ELSE [pc EXCEPT !["camera"] = [at |-> "init", f |-> NoFrame, key |-> st.pending]]
    /\ UNCHANGED <<source, holding, old, session, wrong>>

-----------------------------------------------------------------------------
(* Hold. *)

\* holdAfter passes with no frame from the camera, which only Hold looks at.
Quieten ==
    /\ holding /\ At("camera", "idle") /\ ~st.quiet /\ st.real # 0
    /\ st' = [st EXCEPT !.quiet = TRUE]
    /\ UNCHANGED <<source, holding, old, pc, session, wrong>>

\* holdFrame: the last keyframe, on the clock of the last real frame.
Hold ==
    /\ holding /\ At("hold", "idle") /\ st.hold # NoFrame /\ st.quiet
    /\ pc' = [pc EXCEPT !["hold"] = [at |-> "ready", f |-> [st.hold EXCEPT !.boot = st.real], key |-> NoFrame]]
    /\ UNCHANGED <<source, holding, st, old, session, wrong>>

-----------------------------------------------------------------------------
(* videoFrame, by either of them. *)

Ready(g) ==
    /\ At(g, "ready")
    /\ Goes(g, IF st.ready THEN "refresh" ELSE "observe")
    /\ UNCHANGED <<source, holding, st, old, session, wrong>>

\* observeVideo: the first keyframe is kept, and then audio is waited for: `waited` is probed, and
\* Probe once the audio's settings are known, since nothing more is waited for then.
Observe(g) ==
    /\ At(g, "observe")
    /\ IF st.pending = NoFrame /\ ~pc[g].f.key
       THEN Returns(g) /\ UNCHANGED st
       ELSE LET key == IF st.pending = NoFrame THEN pc[g].f ELSE st.pending
                waited == IF st.waited < Probe THEN st.waited + 1 ELSE Probe
            IN /\ st' = [st EXCEPT !.pending = key, !.waited = waited]
               /\ IF waited = Probe
                  THEN pc' = [pc EXCEPT ![g].at = "init", ![g].key = key]
                  ELSE Returns(g)
    /\ UNCHANGED <<source, holding, old, session, wrong>>

\* initialize: nothing without parameter sets, and nothing if someone else did it.
Described(s, key) ==
    IF key.sets = 0 \/ s.ready THEN s ELSE [s EXCEPT !.ready = TRUE, !.desc = key.sets, !.pending = NoFrame]

Initialize(g) ==
    /\ At(g, "init")
    /\ st' = Described(st, pc[g].key)
    /\ IF st'.ready /\ pc[g].f # NoFrame THEN Goes(g, "refresh") ELSE Returns(g)
    /\ UNCHANGED <<source, holding, old, session, wrong>>

\* Mutant: a keyframe whose sets cannot be read decides that they are the same.
badKeyDecides(s, f) == IF f.key /\ s.check /\ f.sets = 0 THEN "decide" ELSE IF f.key /\ s.check THEN "compare" ELSE "clock"

\* refreshParameterSets: is this the first keyframe of the connection with sets to compare?
Refreshes(s, f) == IF f.key /\ s.check /\ f.sets # 0 THEN "compare" ELSE "clock"

Refresh(g) ==
    /\ At(g, "refresh")
    /\ IF Refreshes(st, pc[g].f) = "decide"
       THEN st' = [st EXCEPT !.check = FALSE] /\ Goes(g, "clock")
       ELSE UNCHANGED st /\ Goes(g, Refreshes(st, pc[g].f))
    /\ UNCHANGED <<source, holding, old, session, wrong>>

Compare(g) ==
    /\ At(g, "compare")
    /\ st' = [st EXCEPT !.check = FALSE]
    /\ Goes(g, IF st.desc = pc[g].f.sets THEN "clock" ELSE "close")
    /\ UNCHANGED <<source, holding, old, session, wrong>>

\* close: the library ends every session of the server stream.
CloseStream(g) ==
    /\ At(g, "close")
    /\ st' = [st EXCEPT !.ready = FALSE] /\ Goes(g, "rebuild")
    /\ session' = [s \in Sessions |-> IF session[s].state # "none" /\ session[s].on = "st"
                                      THEN [session[s] EXCEPT !.state = "ended"] ELSE session[s]]
    /\ UNCHANGED <<source, holding, old, wrong>>

\* pendingKey = nil, then initialize with this keyframe: nobody else can have described the
\* stream in between, unless it was still without a description when they looked.
Rebuild(g) ==
    /\ At(g, "rebuild")
    /\ st' = [st EXCEPT !.pending = NoFrame]
    /\ Goes(g, "describe")
    /\ UNCHANGED <<source, holding, old, session, wrong>>

Describe(g) ==
    /\ At(g, "describe")
    /\ st' = Described(st, pc[g].f)
    /\ Goes(g, "clock")
    /\ UNCHANGED <<source, holding, old, session, wrong>>

\* The clock: started or resumed by the frame, or asked for a time on the timeline it is on.
Clock(g) ==
    /\ At(g, "clock")
    /\ LET f == pc[g].f
           starts == st.clock = 0 \/ st.rebase
       IN /\ st' = [st EXCEPT !.clock = IF starts THEN f.boot ELSE @, !.rebase = FALSE]
          /\ wrong' = IF ~starts /\ f.boot # st.clock THEN wrong \cup {"time"} ELSE wrong
    /\ Goes(g, "write")
    /\ UNCHANGED <<source, holding, old, session>>

Playing(s) == session[s].state = "play" /\ session[s].on = "st"

\* Packets, if anyone is counted as reading and there is a server stream to write to.
Write(g) ==
    /\ At(g, "write")
    /\ wrong' = IF st.readers > 0 /\ st.ready /\ pc[g].f.sets \notin {0, st.desc} /\ (\E s \in Sessions : Playing(s))
                THEN wrong \cup {"sets"} ELSE wrong
    /\ Returns(g)
    /\ UNCHANGED <<source, holding, st, old, session>>

-----------------------------------------------------------------------------
(* The server's callbacks, and a reload. *)

\* OnDescribe and OnSetup.
Setup(s) ==
    /\ session[s].state = "none" /\ st.ready
    /\ session' = [session EXCEPT ![s] = [state |-> "setup", on |-> "st"]]
    /\ UNCHANGED <<source, holding, st, old, pc, wrong>>

\* OnPlay, of which the library allows a second.
Play(s) ==
    /\ session[s].state \in {"setup", "play"}
    /\ session' = [session EXCEPT ![s].state = "play"]
    /\ session[s].on = "st" => st.readers < MaxReaders
    /\ st' = IF session[s].on = "st" THEN [st EXCEPT !.readers = @ + 1] ELSE st
    /\ UNCHANGED <<source, holding, old, pc, wrong>>

\* OnSessionClose, whatever the session had come to.
SessionClose(s) ==
    /\ session[s].state # "none"
    /\ session' = [session EXCEPT ![s].state = "none"]
    /\ st' = IF session[s].on = "st" /\ st.readers > 0 THEN [st EXCEPT !.readers = @ - 1] ELSE st
    /\ UNCHANGED <<source, holding, old, pc, wrong>>

\* The camera's entry is replaced: Add puts a new Stream in the path's place. The one before it
\* is not closed: its sessions stay, and its Hold goes on for as long as the process.
Add ==
    /\ old = NoFrame /\ ~source.up /\ pc = [g \in Procs |-> Idle] /\ st.hold # NoFrame
    /\ old' = st.hold /\ st' = New
    /\ session' = [s \in Sessions |-> [session[s] EXCEPT !.on = "old"]]
    /\ UNCHANGED <<source, holding, pc, wrong>>

Step(g) ==
    \/ Ready(g) \/ Observe(g) \/ Initialize(g) \/ Refresh(g) \/ Compare(g) \/ CloseStream(g)
    \/ Rebuild(g) \/ Describe(g) \/ Clock(g) \/ Write(g)

Next ==
    \/ Connect \/ Disconnect \/ VideoFrame \/ ObserveAudio \/ Quieten \/ Hold \/ Add
    \/ \E g \in Procs : Step(g)
    \/ \E s \in Sessions : Setup(s) \/ Play(s) \/ SessionClose(s)

Spec == Init /\ [][Next]_vars

-----------------------------------------------------------------------------
(* Properties. *)

TypeOK ==
    /\ source \in [up : BOOLEAN, boot : 1 .. Boots, sets : Sets]
    /\ st.desc \in {0} \cup Sets /\ st.readers \in 0 .. MaxReaders /\ {st.pending, st.hold, old} \subseteq Frame
    /\ wrong \subseteq {"time", "sets"}

\* Without hold_picture, nothing a reader is given is timed on a camera clock that is gone, and
\* no keyframe carries parameter sets other than those described, whatever the camera does
\* between its connections and however a session comes and goes (stream.go:343-422, 705-731).
Faithful == TypeOK /\ (~holding => wrong = {})

\* "A clock that is not told either freezes or jumps": every frame is timed on the timeline of
\* the connection it came by (stream.go:220-223), with hold_picture as well, whose Hold is to
\* leave "the clock, and the reconnect rebase" with "a stream that simply kept going" (258-260).
PaceKept == "time" \notin wrong

\* The description is that of the keyframes sent, with hold_picture as well.
DescriptionKept == "sets" \notin wrong

\* A session that plays is sent frames: "OnPlay is where a reader starts counting"
\* (server.go:340), and one that only set up "costs nothing".
PlayingIsFed == (\E s \in Sessions : Playing(s)) => st.readers > 0

\* A stream waits for the next keyframe when the first has no parameter sets
\* (stream.go:733-737).
NextKeyframeServes == st.pending # NoFrame => st.pending.sets # 0 \/ st.waited < Probe

\* "Live video takes over again as soon as it returns" (stream.go:260) for whoever is watching.
NoneLeftBehind == holding /\ old # NoFrame /\ source.up => \A s \in Sessions : session[s].state = "play" => session[s].on = "st"
=============================================================================
