------------------------------ MODULE MCServices ------------------------------
(***************************************************************************)
(* What this process serves, and asks of cameras on somebody's behalf: the *)
(* RTSP stream, the MPEG-TS muxer, recordings on a camera's card, the pan  *)
(* and tilt pad, the FTP server and the receiver it is, and the search for *)
(* cameras. Checked together: they share no variable, and a behaviour is   *)
(* one of them alone, with the variables of the others empty.              *)
(***************************************************************************)
EXTENDS Integers, Sequences, FiniteSets, TLC

VARIABLE part  \* the part that runs
Alone(name) == part = name /\ UNCHANGED part
Idle == <<>>
CONSTANT None

-----------------------------------------------------------------------------
(* An RTSP stream. *)

CONSTANTS Sessions, Boots, MaxReaders, Probe, Holding
VARIABLES source, holding, st, old, pc, session, wrong
rtspVars == <<source, holding, st, old, pc, session, wrong>>
TheRtsp == INSTANCE RtspStream
ASSUME RtspAssumption == Boots \in Nat \ {0} /\ MaxReaders \in Nat /\ Probe \in Nat

NoRtsp == /\ source = Idle /\ holding = Idle /\ st = Idle /\ old = Idle /\ pc = Idle /\ session = Idle /\ wrong = Idle

-----------------------------------------------------------------------------
(* The muxer. *)

CONSTANTS Wrap, Num, Den, Second, Rates, Samples, Starts, Steps, Gaps, MaxTime, MaxAudio, Resumes
VARIABLES capture, pts, audio, astray, resumes
muxVars == <<capture, pts, audio, astray, resumes>>
TheMuxer == INSTANCE Muxer
ASSUME MuxerAssumption ==
  /\ Wrap \in Nat \ {0, 1} /\ Num \in Nat /\ Den \in Nat \ {0} /\ Second \in Nat
  /\ Rates \subseteq Nat \ {0} /\ Samples \subseteq Nat /\ Starts \subseteq 0 .. Wrap - 1 /\ Gaps \subseteq Nat
  /\ Steps \subseteq Nat /\ \A step \in Steps : step + 1 < Wrap \div 2  \* a camera that is silent for longer is given up

NoMuxer == /\ capture = Idle /\ pts = Idle /\ audio = Idle /\ astray = Idle /\ resumes = Idle

-----------------------------------------------------------------------------
(* Recordings. *)

CONSTANTS Jobs, MaxLinks, SdIdle, Stalls
VARIABLES slot, kept, links, timers, job
sdVars == <<slot, kept, links, timers, job>>
TheSd == INSTANCE SdSessions
ASSUME SdAssumption == 0 \notin Jobs /\ SdIdle \in Nat

NoSd == /\ slot = Idle /\ kept = Idle /\ links = Idle /\ timers = Idle /\ job = Idle

-----------------------------------------------------------------------------
(* The pan and tilt pad. *)

CONSTANTS Commands, MaxConns
VARIABLES hold, fired, conns, cmd
holdVars == <<hold, fired, conns, cmd>>
ThePad == INSTANCE PtzHold
ASSUME PadAssumption == None \notin Commands

NoPad == /\ hold = Idle /\ fired = Idle /\ conns = Idle /\ cmd = Idle

-----------------------------------------------------------------------------
(* The FTP server. *)

CONSTANTS Clients, Files, Uploaded, Ports, MaxUploads, MaxBytes
VARIABLES ftp, next, lent, dir, disk, bytes, sent, stored, tangled
ftpVars == <<ftp, next, lent, dir, disk, bytes, sent, stored, tangled>>
TheFtp == INSTANCE FtpServer
ASSUME FtpAssumption == IsFiniteSet(Ports) /\ Uploaded \subseteq Files /\ None \notin Files

NoFtp == /\ ftp = Idle /\ next = Idle /\ lent = Idle /\ dir = Idle /\ disk = Idle /\ bytes = Idle
         /\ sent = Idle /\ stored = Idle /\ tangled = Idle

\* The connections of a camera are alike.
ClientsAlike == Permutations(Clients)

-----------------------------------------------------------------------------
(* The receiver of clips. *)

CONSTANTS Keys, Savers, Forms, MaxSaves, MaxStarts, Blocked
VARIABLES section, held, receiver, servers, sync, asks, janitors, task, edits
clipVars == <<section, held, receiver, servers, sync, asks, janitors, task, edits>>
TheClips == INSTANCE Clips
NoClips == /\ section = Idle /\ held = Idle /\ receiver = Idle /\ servers = Idle /\ sync = Idle /\ asks = Idle
           /\ janitors = Idle /\ task = Idle /\ edits = Idle

Key(p, h, s) == [port |-> p, host |-> h, pass |-> s]
MCKeys == {Key(1, 1, 1), Key(1, 2, 1), Key(1, 1, 2), Key(2, 1, 1)}

-----------------------------------------------------------------------------
(* The search for cameras. *)

CONSTANTS Hosts, Recorders, Scans, Asks, Pages, AtOnce, MaxEdits
VARIABLES fleet, recorders, silent, sweeping, inFlight, scan, probe, page, changes
findVars == <<fleet, recorders, silent, sweeping, inFlight, scan, probe, page, changes>>
TheSearch == INSTANCE Discovery
ASSUME SearchAssumption == Scans \cap Asks = {}

NoSearch == /\ fleet = Idle /\ recorders = Idle /\ silent = Idle /\ sweeping = Idle /\ inFlight = Idle
            /\ scan = Idle /\ probe = Idle /\ page = Idle /\ changes = Idle

-----------------------------------------------------------------------------
servicesVars == <<part, rtspVars, muxVars, sdVars, holdVars, ftpVars, clipVars, findVars>>

ServicesInit ==
    \/ part = "rtsp" /\ TheRtsp!Init /\ NoMuxer /\ NoSd /\ NoPad /\ NoFtp /\ NoClips /\ NoSearch
    \/ part = "muxer" /\ NoRtsp /\ TheMuxer!Init /\ NoSd /\ NoPad /\ NoFtp /\ NoClips /\ NoSearch
    \/ part = "sd" /\ NoRtsp /\ NoMuxer /\ TheSd!Init /\ NoPad /\ NoFtp /\ NoClips /\ NoSearch
    \/ part = "pad" /\ NoRtsp /\ NoMuxer /\ NoSd /\ ThePad!Init /\ NoFtp /\ NoClips /\ NoSearch
    \/ part = "ftp" /\ NoRtsp /\ NoMuxer /\ NoSd /\ NoPad /\ TheFtp!Init /\ NoClips /\ NoSearch
    \/ part = "clips" /\ NoRtsp /\ NoMuxer /\ NoSd /\ NoPad /\ NoFtp /\ TheClips!Init /\ NoSearch
    \/ part = "search" /\ NoRtsp /\ NoMuxer /\ NoSd /\ NoPad /\ NoFtp /\ NoClips /\ TheSearch!Init

ServicesNext ==
    \/ Alone("rtsp") /\ TheRtsp!Next /\ UNCHANGED <<muxVars, sdVars, holdVars, ftpVars, clipVars, findVars>>
    \/ Alone("muxer") /\ TheMuxer!Next /\ UNCHANGED <<rtspVars, sdVars, holdVars, ftpVars, clipVars, findVars>>
    \/ Alone("sd") /\ TheSd!Next /\ UNCHANGED <<rtspVars, muxVars, holdVars, ftpVars, clipVars, findVars>>
    \/ Alone("pad") /\ ThePad!Next /\ UNCHANGED <<rtspVars, muxVars, sdVars, ftpVars, clipVars, findVars>>
    \/ Alone("ftp") /\ TheFtp!Next /\ UNCHANGED <<rtspVars, muxVars, sdVars, holdVars, clipVars, findVars>>
    \/ Alone("clips") /\ TheClips!Next /\ UNCHANGED <<rtspVars, muxVars, sdVars, holdVars, ftpVars, findVars>>
    \/ Alone("search") /\ TheSearch!Next /\ UNCHANGED <<rtspVars, muxVars, sdVars, holdVars, ftpVars, clipVars>>

ServicesSpec == ServicesInit /\ [][ServicesNext]_servicesVars

-----------------------------------------------------------------------------
(* The properties are those of the parts. *)

\* What a reader of RTSP or MPEG-TS is sent keeps time and matches what was
\* described to it (rtsp/stream.go videoFrame, ts/clock.go).
Timed == (part = "rtsp" => TheRtsp!Faithful) /\ (part = "muxer" => TheMuxer!Timed)

\* Sessions with a camera that outlive a request are used by one at a time and
\* closed in the end (recordings.go sdConn and sdDone, ptzhold.go withPtzConn).
LinksTidy == (part = "sd" => TheSd!SdTidy) /\ (part = "pad" => ThePad!HeldWell)

\* A clip that was received is whole, and the receiver is the one of the
\* configuration's keys that runs (ftpd/server.go store, clips.go syncReceiver).
ClipsKept == (part = "ftp" => TheFtp!ClipsKept) /\ (part = "clips" => TheClips!ReceiverKept)

\* An address is probed by one at a time, and one scan sweeps at a time
\* (probe.go beginProbe, discover.go beginSweep).
ProbedAlone == part = "search" => TheSearch!ProbedAlone
=============================================================================
