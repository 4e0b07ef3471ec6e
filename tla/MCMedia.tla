------------------------------ MODULE MCMedia ------------------------------
(***************************************************************************)
(* A connection to a camera, a stream's session on one, a battery camera's *)
(* presence stream and two-way audio, checked together: they share no      *)
(* variable, and a behaviour is one of them alone, with the others in      *)
(* their initial states.                                                   *)
(***************************************************************************)
EXTENDS Integers, Sequences

VARIABLE part  \* the part that runs
Alone(name) == part = name /\ UNCHANGED part

-----------------------------------------------------------------------------
(* The session. *)

CONSTANTS MaxPos, Groups, MediaTimeout, IdleTimeout, Frames, Streams
VARIABLES cfg, rtsp, phase, camera, buf, run, clock, frames
sessionVars == <<cfg, rtsp, phase, camera, buf, run, clock, frames>>
TheSession == INSTANCE Session

Setup(z, s, t, a, r) == [zoom |-> z, shared |-> s, turn |-> t, tall |-> a, readable |-> r]
\* An ordinary camera on a connection of its own, and as a channel of a recorder;
\* a zoom lens on each.
MCStreams == {Setup(FALSE, FALSE, "camera", TRUE, TRUE), Setup(FALSE, FALSE, "camera", FALSE, TRUE),
              Setup(FALSE, TRUE, "camera", FALSE, TRUE), Setup(TRUE, FALSE, "setting", FALSE, TRUE),
              Setup(TRUE, TRUE, "camera", TRUE, FALSE)}

ASSUME SessionAssumption ==
    /\ {MaxPos, Groups, MediaTimeout, IdleTimeout, Frames} \subseteq Nat \ {0}
    /\ IdleTimeout < MediaTimeout
    /\ Streams \subseteq [zoom : BOOLEAN, shared : BOOLEAN, turn : {"none", "setting", "camera"},
                         tall : BOOLEAN, readable : BOOLEAN]

-----------------------------------------------------------------------------
(* The presence stream. *)

CONSTANTS Codecs, Clips, MaxWaiting
VARIABLES codec, still, playing, recent, waiting, reel, shown
playerVars == <<codec, still, playing, recent, waiting, reel, shown>>
ThePlayer == INSTANCE Presence

Clip(c, k, b) == [codec |-> c, keys |-> k, broken |-> b]
MCClips == {Clip("h264", <<FALSE, TRUE, FALSE>>, FALSE), Clip("h265", <<TRUE, FALSE>>, TRUE),
            Clip("h264", <<TRUE, FALSE, TRUE>>, TRUE)}

\* A clip is all of one codec, and "" is none.
ASSUME PlayerAssumption ==
    /\ "" \notin Codecs
    /\ Clips \subseteq [codec : Codecs, keys : Seq(BOOLEAN), broken : BOOLEAN]

-----------------------------------------------------------------------------
(* Two-way audio. *)

CONSTANTS Channels, Buttons, MaxSaid, None
VARIABLES doing, said, pressed, leaving, later, lull, mic
talkVars == <<doing, said, pressed, leaving, later, lull, mic>>
TheTalk == INSTANCE Talk

ASSUME TalkAssumption == None \notin Channels \cup Buttons

-----------------------------------------------------------------------------
(* The connection. *)

CONSTANTS Previews, Cap, MaxSent
VARIABLES dial, giving, watcher, deadline, socket, line, loop, inbox, owner, asked, running
connVars == <<dial, giving, watcher, deadline, socket, line, loop, inbox, owner, asked, running>>
TheConn == INSTANCE CameraConn

-----------------------------------------------------------------------------
MediaInit ==
    /\ part \in {"conn", "session", "player", "talk"}
    /\ TheConn!Init /\ TheSession!Init /\ ThePlayer!Init /\ TheTalk!Init
    /\ part # "session" => cfg = CHOOSE s \in Streams : TRUE

MediaNext ==
    \/ Alone("conn") /\ TheConn!Next /\ UNCHANGED <<sessionVars, playerVars, talkVars>>
    \/ Alone("session") /\ TheSession!Go /\ UNCHANGED <<connVars, playerVars, talkVars>>
    \/ Alone("player") /\ ThePlayer!Next /\ UNCHANGED <<connVars, sessionVars, talkVars>>
    \/ Alone("talk") /\ TheTalk!Next /\ UNCHANGED <<connVars, sessionVars, playerVars>>

mediaVars == <<part, connVars, sessionVars, playerVars, talkVars>>

\* A part that does not run has nothing to be fair about.
MediaFairness == TheConn!Fairness /\ TheSession!Fairness /\ ThePlayer!Fairness /\ TheTalk!Fairness

MediaSpec == MediaInit /\ [][MediaNext]_mediaVars /\ MediaFairness

-----------------------------------------------------------------------------
(* The properties are those of the parts. *)

\* Over Baichuan no frame is published without the one it refers to, however a
\* camera cuts its packets, and the stream is turned as it should be (stream.go Run).
Decodable == TheSession!Decodable /\ TheSession!TurnedRight

\* A clip plays whole, whatever comes meanwhile, in the stream's one codec
\* (presence.go).
ClipWhole == ThePlayer!ClipWhole

\* What was taken of the camera is given back when a connection or a talk ends
\* (conn.go Close, rtsp/talk.go).
Released == TheTalk!Released /\ TheConn!ConnKept

\* A session and a connection whose camera falls silent end (stream.go watchdogs,
\* conn.go newConn and readLoop).
GivesUp == TheSession!GivesUp /\ TheConn!ConnEnds

\* The presence stream does not stay without a picture (presence.go Run).
Present == ThePlayer!Present

\* A camera is given back when nobody talks, and a session that ends does end
\* (rtsp/talk.go, talk/talk.go).
Hushed == TheTalk!Hushed
=============================================================================
