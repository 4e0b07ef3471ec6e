# A TLA+ model of reostream

reostream pulls video from Reolink cameras, recorders and battery cameras over their own
protocol (Baichuan) and serves it over HTTP and RTSP, with a control page, alert relays and
a clip receiver beside it. This directory models the parts of it that run concurrently,
checks them with TLC on small instances and proves theorems about them with TLAPS.

## Running

    tlc -config hub.cfg MCHub.tla        (any run of PROJECT.json, likewise)
    tlapm MediaProofs.tla                (any module named ...Proofs)

## The system: components, state, interactions

One **supervisor** owns one goroutine per configured stream. Each goroutine runs a session
with the camera again and again; the session writes what it receives into the stream's
**hub**, from which HTTP clients, the RTSP server and the presence player take it.

    camera ──Conn──► stream.Run ──PublishKey──► Hub ──► HTTP client / RTSP / presence
    recorder ─Conn─► Shared ──Sub──► stream.Run            (one connection, many streams)
                       ▲
                     Pool.Open
    camera ──alarms.Watch──► handle ──► mqtt.Client ──► broker,  Frigate
    camera ──FTP upload──► ftpd ──Stored──► presence player, clips on disk
    browser ──form──► control page ──► config.toml ──Reload──► supervisor
                                 ├──► camera (settings, recordings, PTZ, talk)
                                 └──► goroutines that follow the file: relay, clip receiver

| component | source | state | operations | what is hard about it | what makes it correct |
|---|---|---|---|---|---|
| Hub | internal/hub | subscribers with bounded channels, header, counters, closed | Subscribe, cancel, PublishKey, Kick, Close | four goroutines end the same subscriber; publish works on a snapshot | channels close once and are never sent to afterwards; a stream handed out starts at a keyframe and has no hole; counts are right; nobody blocks the camera |
| Shared connection | internal/baichuan/shared.go | readers by handle, previews, closed | Subscribe, Sub.Close, demux, drop, closeIfIdle | a reader leaves while demux is handing it a message; idleness is decided and acted on under different locks | one start and one stop per preview; no reader misses a message it did not ask to; a stuck reader cannot stop the others |
| Pool | internal/baichuan/pool.go | connections per recorder, a dial in progress | Open, idle | waiting for another stream's dial; connections break while they are chosen | limits, one login at a time, no connection forgotten, no waiter left behind |
| Conn | internal/baichuan/conn.go, login.go | deadline, watcher of the login, previews asked for, channel of messages | Dial, Login, readLoop, StartVideoOn, StopVideoOn, Close | a caller that gives up while another goroutine waits in a read; Close against a full channel nobody reads | no preview is left running on the camera; a login ends by its deadline; everything the connection began ends |
| Battery transport | internal/bcudp | send window, receive window, acks | Dial, Read, Write, Close | lost, duplicated and reordered packets; ids wrap | a reliable byte stream |
| Supervisor | internal/supervisor/supervisor.go | entries and hubs by key, Run's context | Run, Reload, Stats, CameraConfig, PrivacyOff | Reload gives its lock up while it waits for cameras; shutdown in the middle of it | one run per stream, nothing left running, the fleet is the last configuration |
| On-demand streams | internal/supervisor/ondemand.go, wakewatch.go | motion until, fails, stills on disk | runOnDemand, wakeSession, firstStill, watchWakes, Motion | timers against viewers; telling our own wake from the camera's | the camera sleeps when nobody needs it; a viewer is served or let go |
| One session | internal/stream, baichuan/media.go | depacketizer buffer, keyframe wait, muxer, rotation, watchdogs | Run, runNative | a camera cuts packets anywhere and stops in the middle of one; a zoom lens that changes protocol | over Baichuan no frame goes out without the one it refers to; a session without video ends |
| Clock and muxer | internal/ts | last timestamp, wraps, offset, the end of the audio | Next, Resume, Stamp | 32 bit wrap, frames out of order, gaps, audio without a clock | timestamps keep pace with the camera and do not go back over a reconnection |
| RTSP | internal/rtsp | stream description, parameter sets, readers, held picture | OnDescribe, OnSetup, OnPlay, OnSessionClose, videoFrame, Connected, Hold | the camera's goroutine and Hold's both send; callbacks of the library between their steps | readers get the stream that was described to them, on one timeline |
| Presence | internal/presence | codec, still, playing clip, queue of clips | Frame, Clip, Still, Run | three sources share one stream | a clip plays whole; the stream does not fall silent for good, unless what is live has another codec |
| Alerts, events relay | internal/alarms, internal/control/events.go, hadiscovery.go, internal/mqtt | relay, handle, client, open Frigate events | Watch, syncRelay, handle, Publish, Shutdown | the relay is replaced while its goroutines are on their way; the broker publishes a last will when it pleases | the broker hears the running relay last; what is retained is true until a will comes late; an event at Frigate ends |
| Clip receiver | internal/ftpd, internal/control/clips.go | command connections, data ports, names and files; the one receiver and its key | FTP commands, janitor; syncReceiver, pointClips | a camera that comes back while its old upload hangs; a goroutine per save that makes the receiver match | a clip that is told of is whole; one server, of the key it has |
| Configuration file | internal/control/configfile.go, configpage.go, camerapage.go, password.go, claim.go, cmd/reostream | config.toml, its backup, configMu, claim token | one handler per page, writeAndApply, start of the daemon | crashes between backup and write; two browsers at once; a text that people edit too | an edit changes what it is about; a whole copy survives; the file that was saved is the one that runs; claimed once |
| Camera settings | internal/control/settings.go, camerapage.go and others, internal/cgi | none of its own: documents of the camera, read, changed and written back | one handler per form | two forms on one document; answers that are lost; a document that carries the clock | "confirmed" is true; a form changes only its own leaves |
| Recordings | internal/control/recordings.go, baichuan/sd.go | a slot per camera, a kept session, timers | list, download, sdAcquire, sdConn, sdDone | a download that was given up leaves its rest on the wire; timers of earlier jobs | nobody is sent another's recording; sessions are closed |
| PTZ pad | internal/control/ptzhold.go | one connection, its timer | withPtzConn | answers that come too late; the timer against the next command | one command at a time, no answer of another one, closed when quiet |
| Discovery | internal/control/discover.go, probe.go, camprobe.go | sweep in progress, probes in flight, what was learned of addresses | sweep, probe, identify | several scans and probes of one address while the fleet changes | one probe of an address at a time |
| Talk | internal/talk, internal/rtsp/talk.go, internal/control/talk.go | session, packets waiting, retry time | listen, Start, Write, Release | two speakers at once; a camera that is hung up on | the camera is released by whoever is done, and falls silent |

The `components` list of PROJECT.json says of each part what is modelled, partly or not, and
why; its `hazards` list names, line by line, what a test would hardly reach, with the
properties that catch it or the reason why none does yet.

## Modules

| module | models | instantiated by | proofs |
|---|---|---|---|
| Hub | internal/hub, and the client loop of internal/server | MCHub | MediaProofs |
| SharedConn | internal/baichuan/shared.go over the Conn operations it calls | MCSharedConn | SharedConnProofs |
| RecorderPool | internal/baichuan/pool.go | MCRecorderPool | RecorderPoolProofs |
| Supervisor | internal/supervisor/supervisor.go | MCSupervisor | SupervisorProofs |
| EventRelay | events.go, alarms.go, mqtt.go, hadiscovery.go | MCEventRelay | EventRelayProofs |
| BcUdp | internal/bcudp: one session | MCBcUdp | BcUdpProofs |
| ByteStream | what BcUdp promises of the camera's stream (abstract) | by BcUdp, with a refinement mapping | BcUdpProofs |
| OnDemand | internal/supervisor/ondemand.go, wakewatch.go | MCOnDemand | ServicesProofs |
| CameraConn | internal/baichuan/conn.go: dial, login, read loop, previews, Close | MCMedia | MediaProofs |
| Session | internal/stream over the depacketizer, and runNative | MCMedia | MediaProofs |
| Presence | internal/presence | MCMedia | MediaProofs |
| Talk | internal/talk with the back channel and the page's button | MCMedia | MediaProofs |
| ConfigText | what each form does to the lines of config.toml | MCConfig | |
| ConfigData | what a form promises of the cameras and sections the loader reads (abstract) | by ConfigText, with a refinement mapping | |
| ConfigFile | saves, the backup, the claim, crashes, the start of the daemon | MCConfig | ConfigFileProofs |
| CameraForms | every form that writes to a camera | MCConfig | ConfigFileProofs |
| RtspStream | internal/rtsp: one path, its readers, Hold | MCServices | ServicesProofs |
| Muxer | internal/ts: Clock and AudioClock | MCServices | ServicesProofs |
| SdSessions | recordings.go with baichuan/sd.go | MCServices, and by itself | ServicesProofs |
| PtzHold | ptzhold.go with the wait for a reply by its id | MCServices | ServicesProofs |
| FtpServer | internal/ftpd with the janitor | MCServices | ServicesProofs |
| Clips | clips.go: the receiver that follows the file, the clips form | MCServices | ServicesProofs |
| Discovery | discover.go, probe.go, camprobe.go | MCServices | ServicesProofs |

Each action is a critical section of the code, or the code between two of them: `h.mu`,
`s.mu`, `p.mu`, `c.mu` and `pubMu` are never variables of their own when they are held for
one action, and are when they are held across several (`reloadMu`, `pubMu`). Reading a
snapshot and using it are separate actions, so anything may happen between them. Data is
abstracted to what the properties tell apart: a chunk is its number in the publish order, with
whether that number starts a keyframe; a message of a recorder is its preview and its place in the
picture sequence. Waits for a time may end at any moment, except in OnDemand, which is about
them and counts time.

**Hub.** `hub`, `subs`, `dropped`, `closed`, `synced` and `ch` are the fields of Hub and
subscriber; `publisher`, `todo` and `dead` are PublishKey's call, its snapshot and its list of
the dead; `ending` is the snapshot of Kick and Close. `closes`, `got`, `log`, `stalled` and
`kicked` are histories. `Subscribe`, `Cancel`/`Unregister` (the two critical sections of the
cancel function), `BeginPublish`, one `Skip`, `Send` or `Drop` per subscriber of the snapshot,
`FinishPublish`, `Kick`, `Close`, `EndOne`, and `Receive` for serveStream's loop. One
publisher, as in the code: only the stream's goroutine publishes.

**SharedConn.** `preview`, `readers`, `info`, `synced`, `handle` and `closed` are the fields of
Shared, preview and Sub; `handed`, `taken` and `ended` are a reader's channel. demux is a
program counter with the message it hands round (`cur`), the readers it collected (`to`), and
the one it drops (`victim`). `requests` and `wire` are what is on its way to and from the
recorder, which is external: it serves a preview between its start and its stop, an info
packet and a keyframe first. What a reader that has quit is handed is forgotten, since nobody
reads it.

**RecorderPool.** The group of one recorder: `pool` (conns), `dialing`, `device`, and for every
connection its readers, whether it is open and whether the login is still held. `p.mu` is a
variable because Open keeps it from choosing a connection to subscribing on it. A connection
that nothing refers to is collected by the runtime, the only thing that then closes its socket.

**Supervisor.** `entries` (hubs changes with it), `cfg`, the goroutine of every entry ever made,
Run, and the callers of Reload. An entry is its key and the number of entries made for the key
before it. A stop signal may come at any moment. One call of Run: a second is refused by a
compare-and-swap before it touches anything.

**EventRelay.** One Watch and one handle per relay and camera, which may hear of motion at any time,
one MQTT client per relay with the same client id, and the broker's side of it: whose connection it
accepts, what is retained, and the last wills it owes (`wills`), of connections it lost or ended for
another of the same id. It publishes one when it pleases, also after a later client has said online
(`late`). Frigate's side is `events`, how many run for a camera; `open` are those a relay has the id of, and
`orphans` those whose id an answer that was lost, or an end that failed, left to nobody.

**BcUdp.** The fields of Conn, one goroutine in Read (`reader`, with the deadline it took with
it), both loops, Close step by step (`closer`), the noted address (`ours`), the camera (`cam`)
and what is in flight each way. Ids are uint32 in the code and modulo `Mod` here; an id stands
for its payload. A packet stays in flight until the network drops it, so it can be delivered
late, again and in any order. Handling a packet under `c.mu` is one action; the drain of `ahead`
(`Run`) and both comparisons (`Behind`, `Gap`) are those of handle. That the camera's stream,
`read` and `closed` behave as **ByteStream** is checked as a property of the run.

**OnDemand.** runOnDemand and firstStill are one program counter (`phase`) with the time it still
waits (`left`), the session's inner goroutine is `age`, `quiet` and `Limit`, watchWakes is
`watch`, `known`, `until` and `told`. Tick passes one poll and is held back while a goroutine has
something to do (`Urgent`): goroutines are taken to be quick against a poll. Ours is that of
internal/bcudp, for the one address. Hub.Kick and Hub.Close are what they do to the count of
viewers; Hub has them in detail.

**CameraConn.** `dial` is newConn's progress, `watcher` the goroutine that pulls the deadline of
the socket in when the caller's context ends (`giving`), `loop` is readLoop with the channel it
fills (`inbox`), `asked` is Conn.stream and Conn.also, `running` what the camera runs. The owner's
calls come one at a time, as its callers make them. Writes never block here: a camera that stays
connected and reads nothing would park a writer. That the caller gives up while the deadline of
the login passes is told as the timeout.

**Session.** `buf` is the depacketizer's buffer, `run` the local variables of Run, `clock` its two
watchdogs, `frames` runNative's channel. The camera chooses what a message holds: one packet, several
with padding, the head of one, its rest later or never. A frame is its place in its group of pictures,
so a frame published without the one it refers to is a torn picture (`run.torn`), in Run and in runNative
alike. Between two sessions the camera's picture may be set to another shape (`Reshaped`). A ping that is
refused is the end of the connection (Break).

**Presence.** The fields of Player (`codec`, `still`, `playing`, `recent`), the channel `waiting`, Run's
place in `reel`. `Live`, `Still` and `Clip` are the other goroutines' calls; `Check`, `SeedClip`,
`Sample`, `ClipEnds` and `Repeat` are Run's. `shown` is what the sink was given.

**Talk.** Each back channel and each button is a talker with its place in the code (`doing`); a button's
session and a back channel's are the same steps of internal/talk. The camera (`mic`) talks with
one, answers or not, and remembers how it was left.

**ConfigText, ConfigData.** A file is a sequence of lines: headers, names, the keys that forms look
at, comments, blank lines, and quotes that open or close a multi-line string. The operators are the
functions of configfile.go and its neighbours, line by line. ConfigData is what the forms promise of
the decoded data; ConfigText is shown to implement it under `cams <- CamsOf(text)`,
`sections <- SectionsOf(text)` (the loader's reading). The edits of sections and single keys do not
know about multi-line strings, so for them the file has none that holds a header (`Plain`).

**ConfigFile.** A request reads the file, makes its edit, takes configMu (`lock`), backs up, then
renames a new file into place or, on a file mounted alone, truncates and writes it; then the reload.
The process may die at every step and a write may stop half way. `fleet`, `pw`, `settled` and
`tok` are the daemon's memory. A person may put a file where there is none, at any time and so also
after writeClaim has looked (`late`), or copy the backup back. `astray` says what of this happened that
a property leaves out.

**CameraForms.** A form is the list of its steps (read, read once more, write, read back) with what it
answers when one fails; `Program` has one list per form of the page. `cam` is the camera's
documents, leaf by leaf, and `clock` the time it keeps, which two of the documents carry. A fault is a
write that is ignored, refused or taken with its answer lost, or a read without an answer. Two reads
that change nothing a form sends (of the lamp's document before, and of the NTP settings) are left
out.

**RtspStream.** `st` is the Stream of a path, `pc` where the camera's goroutine and Hold's are between
the locks of videoFrame, `session` the library's sessions, which it opens, plays and closes as it likes.
`old` is the Stream that a reload replaced and whose Hold still shows its last picture.

**Muxer.** Clock and AudioClock over a camera that stamps frames with a wrapping counter, sends some
out of order, goes away and comes back. The multiplier 9/100, the second and the wrap are constants.

**SdSessions.** `slot` is sdAcquire's, `kept` the kept session with the ticks since it was last used,
`timers` the AfterFunc of each job that handed it back, `links` the sessions with what the camera
still sends on them.

**PtzHold.** `hold` is ptzHold with its mutex, `fired` the timers that wait for it, `conns` the
connections with the answers on their way. All commands have one message id, so an answer belongs to
whoever waits.

**FtpServer.** A command connection is where it is in its loop, with its data port, its file and the
name; a file is a number that names may point to, and its bytes are whose upload they are of. The
janitor prunes files and folders at any time.

**Clips.** `receiver` is the one clipReceiver, `servers` every server it started with its listener,
`sync` the goroutines that make it match the file, `asks` the form that points a camera at it.

**Discovery.** Scans, asked-for probes and pages; a probe is where it is between the locks of probe.go;
`silent` and `recorders` are what earlier dials taught. The fleet is the set of its addresses.

Modules that share no variable are checked together in one run (MCMedia, MCConfig, MCServices): a
variable `part` says which one runs, the others stay as they began, and a property of the run is the
conjunction of one property of each part it is about. Nothing is gained or lost by it but one run.

## Runs, bounds and what they show

| run | instance | what holds |
|---|---|---|
| hub | 2 subscribers, buffer of 1, 3 chunks | StreamWhole: a stream starts at a keyframe and has no hole. NoLeak: nothing ended stays registered. NeverPanics: no double close, no send after one. CloseEndsAll: a closed hub lets everyone go |
| shared | 2 readers of 1 preview, queue of 1, 2 handles, 3 messages per handle, 2 in flight | Orderly (types, EndedOnce, AskedOnce): one start and one stop per preview. ReaderServed: of its own preview a reader has info, a keyframe, then every message (OwnStreamWhole), after what the one before had on the wire still (TailFirst), which alone may start in mid-GOP (StartsAtKeyframe). DemuxGoesOn, AllTold |
| pool | 2 streams, 2 keys, 2 connections of 1 preview | WithinLimits (types, AtMostMaxPreviews, OneDial). PoolAccounts: none forgotten, none hidden. IdleCloseHarmless, WaitersWake |
| supervisor | 2 streams, 2 connection settings, 2 Reloads | OneRunPerStream, NoneLeftRunning, FleetMatches, RunEnds |
| relay | 1 camera, 2 relays, 2 open events, 1 lost connection | RetainedTrue (types, PresenceTold, RetainedFollows): presence and motion. EventsEnd: an event runs on only for motion that is seen, for a relay that was replaced, or after a call that went wrong. LaterRelayLast |
| bcudp | 4 sessions: ids modulo 8, window of 2, up to 3 packets one way | Stream (ByteStream). NothingLost (types, NothingForgotten, ReaderAwake). Settles |
| ondemand | 1 viewer, 2 demands, every option, limits of 1 to 3 polls | ToldTruth, LetsGo, Rests |
| media | conn: 2 previews, channel of 1, 3 messages. session: groups of 2 frames, 4 kinds of camera, timeouts of 1 and 2 ticks. presence: 2 codecs, 3 clips, 1 waiting. talk: 1 back channel, 1 button | Released: no preview left running on a camera, no talk left open (ConnKept, Talk's Released). GivesUp: a login, a read loop and a session without video end. Decodable: over Baichuan no frame without its reference, turned as asked (TurnedRight). ClipWhole, Present: clips play whole, the stream does not fall silent unless what is live has another codec. Hushed: the camera is given back |
| config | text: 189 files of up to 2 pieces, 7 lines. file: 2 requests, 1 camera, 1 fault, both mounts. forms: every form of the page, 2 at a time, 2 leaves, 1 fault, 3 ticks | EditsData: ConfigText implements ConfigData, and the file still loads. FileSound: a whole copy survives every crash, the running fleet is the file's. ClaimedOnce: one claim, over no file but one that came after its last look. ConfirmedHeld: "confirmed" was true, the camera's clock is not set back. OnlyItsOwn: a form changes its own leaves |
| services | rtsp: 1 session, 2 boots, 2 readers. muxer: wrap of 8, 2 connections. sd: 2 jobs, 2 sessions. pad: 2 commands, 3 connections. ftp: 2 cameras' connections, 2 names, 1 data port, 2 uploads. clips: 2 savers, 1 form, 4 keys, 3 servers. search: a camera and a recorder, 2 scans, 1 asked-for probe, 1 page | Timed: one timeline but for a late frame across a wrap, sets as described without hold_picture, audio in step. LinksTidy: kept sessions serve one, with the pictures asked for if the camera does not pause, answer who asked, and are closed. ClipsKept: a clip told of is whole unless two uploads wrote to one file; one server, of its key. ProbedAlone: one probe of an address at a time |
| pool_held | as pool | HeldIsCounted is violated (finding) |
| sd_idle | SdSessions as in services, idle after 1 tick | ClosesOnceIdle is violated (finding) |

Every run checks its types, safety, action and liveness properties together, on one
instance, under the fairness of the specification. The runs of hub, shared, bcudp, ondemand, media,
config, services and sd_idle switch deadlock off: there every client, request or session may have
ended for good. The others check it. config takes symmetric requests of ConfigFile as one, services
the connections of FtpServer; both check only safety, for which that is sound.

Why the bounds are enough. *hub*: two subscribers with a buffer of one reach every order of two
goroutines ending the same or different subscribers, and a drop in the middle of a walk; three
chunks are a keyframe, one that fills the buffer and one too many. *shared*: an info packet, a
keyframe and a third message that may be either; two handles are a preview stopped and started
again with messages of the first still in flight, which two in flight allow. *pool*: two keys on
connections of one preview reach a full connection, a second one, sharing, and a connection
that becomes free while another is dialed. *supervisor*: two Reloads are one at work and one
waiting or arriving late; two streams are one changed and one not. *relay*: two relays are one
replacement, the only interaction relays have; a lost connection is a will that may come at any time
after, and another is that of the connection between the halves of Shutdown; two events are one a relay left and the next
one's own; one camera is enough for the relay's own state
and the client: `pubMu`, which a second camera would contend, holds one call of handle together
and adds nothing the broker or Frigate could tell. *bcudp*: the sessions divide the questions: two
packets of ours with two acks in flight (acks in the wrong order), three of the camera's with a
window of two (one dropped for being too far ahead), both across the wrap of the ids; one packet
each way with Close and silence; and everything else that can happen (deadlines, D2C_DISC, a
refusal, a socket error) around one packet. An acknowledged id is half the id space away from
being taken for a new one in the code; at 8 ids and 3 packets it is still out of reach. *ondemand*:
the grace is longer than the searches lost in a row, as 5 s is than four searches; the idle time
is shorter than the limit, two tries are a retry and a last one.

*media*: a channel of one is full with the loop at the second message, and the third comes when it
hangs; two previews are the first, stopped by StopVideoOn or by Close, and one beside it. Groups of
two frames, numbered modulo two, tell a P frame of the group before from one of its own; the cameras
are an ordinary one on a connection of its own that asks for the picture to be turned, and may change its
shape between sessions, one on a shared connection, a zoom lens set to be turned and one on a shared
connection whose settings cannot be read. The three clips are one that starts between keyframes, one of the
other codec that breaks, one that breaks at its end. A back channel and a button are two speakers of the
two kinds. *config*: two requests are all that can contend for a lock and a file; one fault is a death or a
torn write at every step of either, and the properties exempt what a second one does to a file that is
torn already. Two pieces put every kind of section before and after every other. Two forms
are an overlap, or an undo after the form it undoes; forms that share no document cannot disturb
each other and are not paired (`Meets`), time passes only when a form is about the clock
(`AboutClock`), and at most a tick while a form is served, since a form is over within probeTimeout.
*services*: two boots are a reconnection with another clock and other parameter sets;
hold_picture is off, since with it on the code does otherwise (further divergences), and for the
same reason the card's camera does not pause (`Stalls`). A wrap at 8
is passed twice within 10, with steps out of order on both sides of it. Two jobs on the
card are one that hands its session back and one that takes it, and two sessions one that was
left behind. Two commands and three connections are one that dials, one that finds what the first
left, and the second try of a command. Two connections that upload are a camera back before its old
connection gave up. Two savers and a form are three goroutines of different ages; four keys differ
in one thing at a time. Three askers contend for an address, and `AtOnce` of 1 makes the second
probe of a scan wait.

`MaxHandle`, `MaxSent`, `MaxWire`, `MaxChunks`, `MaxRelays`, `MaxEvents`, `MaxLosses`, `MaxClients`, `MaxDemands`,
`MaxRequests`, `MaxFaults`, `MaxTicks`, `MaxLines`, `Boots`, `MaxReaders`, `MaxTime`, `MaxAudio`, `Resumes`,
`MaxLinks`, `MaxConns`, `MaxUploads`, `MaxBytes`, `MaxSaves`, `MaxStarts` and `MaxEdits` only end behaviours;
nothing in the code depends on them.

## Fairness

Weak fairness of goroutines, which the Go scheduler gives, on what the code has begun:

- Hub: a publish goes on (PublishStep), and so do a Kick or Close (EndOne) and a cancel
  (Unregister). No client ever has to read, and none has to hang up.
- SharedConn: demux goes on (DemuxStep; its stall timer fires), and so do a Sub.Close that was
  begun (Unsubscribe) and an onIdle (CloseIfIdle). Neither readers nor the recorder owe anything.
- RecorderPool: a chosen connection is subscribed on (weak, the lock is held), and a dial and an
  idle come to an end (strong: they need `p.mu`, which others take again and again, and Go's
  mutexes do not starve a waiter). A dial ends because it has a deadline.
- Supervisor: Run and Reload go on (RunStep, ReloadStep), and a run whose context has ended
  returns (LeaveIdle, LeaveRun), as stream.Run does once it has sent its stop. Nothing makes a
  stream start or break.
- EventRelay: none; its properties are safety.
- BcUdp: the loops, Close and the reader go on, the application reads again after a read, each
  side resends what the other waits for (weak, the ticker), and of the copies of that packet one
  arrives in the end (strong: a network that drops every copy is the silence Settles excepts).
- OnDemand: goroutines take their steps and time passes (weak); a camera nobody holds awake
  falls asleep (strong: it may be woken again before it does).
- CameraConn: newConn and its watcher go on, the loop hangs up or breaks, a login is answered or its
  deadline passes, keep-alives and stray messages are dealt with, and a read of a closed socket fails
  (all weak). Nobody has to read the messages.
- Session: time passes, both watchdogs fire, and runNative takes the frames of its channel (weak).
  The camera owes nothing.
- Presence: Run goes on with a clip it has begun (weak); its ticker is served in the end though
  clips follow one another in the same select (strong); liveGrace passes (weak).
- Talk: a dial and an opening end, a close and a write end, the idle timer fires, whoever presses the
  button lets it go (weak); a goroutine told to stop and one that should release do so (strong: select
  may take the other ready channel, but not for ever).
- The runs config and services: none; their properties are safety.

## Proofs

Every safety invariant that a run checks is a theorem, for every value of the constants its
assumptions allow, and so are the safety properties of steps NeverPanics, ToldTruth, ClaimedOnce and the
refinement Stream. A proof module may cover several components that share nothing.

**MediaProofs** proves of the hub, for any finite set of subscribers, any buffer and any number of chunks:
`TypeCorrect`, `ClosedOnceCorrect`, `NoLeakCorrect`, `DroppedCorrect` (the dropped counter is
exact), `StreamCorrect` (StreamWhole) and `NeverPanicsCorrect`, from `HubAssumption` alone. The
inductive invariant is

    IInv == Structure /\ Progress /\ KeyframeFirst /\ NoGap

`Structure` holds the facts the closing goroutines rely on: channels close once (ClosedOnce), a
subscriber not yet handed out is untouched (Fresh), whoever hung up is closed (HungUp), the
publisher's snapshot and list of the dead are what they were taken to be (Snapshots, Stalled),
and NoLeak. `Progress` says how far into the publish order each open subscriber must be, seen
from where the walk is: without it, that a stream has no hole is not inductive, since a
subscriber could have been skipped by an earlier publish. NeverPanics is an action property: it
follows from ClosedOnce and from the type, since only Send puts a chunk into a channel and it
looks at `closed` under the lock the closers take.

Of what comes before and after the hub it proves `DecodableCorrect`, `ClipWholeCorrect` and `ReleasedCorrect`,
theorems of the whole of MCMedia (`MediaSpec`), whose invariant is

    MediaInv == ConnInv /\ TalkInv /\ PlayerInv /\ SessInv

- Decodable, from `SessionAssumption` (the timeouts are positive and the shorter one is shorter) and any length
  of the groups and of the channel. It speaks of sessions over Baichuan: a zoom lens that was taken over RTSP
  stays there (Taken), and its frames go out over holes. SessInv says where the session is in what the camera sends: between
  packets, all before is published or a keyframe is waited for (Published) and the buffer starts with
  no head; in the middle of one, the buffer is exactly its head (InStep, Amid). `MessageIs` and `Sent` take
  apart what a message can be, and the loop over the buffer (`Turn`, `Drain`) is followed packet by packet. The
  picture is turned where there is a reason and only there, from the first keyframe of a session (Rightly).
- ClipWhole, from `PlayerAssumption` (what a clip is), for any clips, codecs and room for clips that wait.
  Once a clip has begun, what the stream showed last is its sample before the one at hand, since live
  view and stills are not shown while it plays (PlayerInv).
- Released, from `TalkAssumption` for talks and none for the connection. A connection in use has the
  login's watcher over and its deadline lifted, and one that failed has no open socket (LoginInv); the
  camera runs nothing that Close would not stop (AskedInv); whoever the camera talks with has
  asked it to and not hung up (TalkInv).

**SupervisorProofs** proves, for any streams, configurations and finite set of Reloads:
`TypeCorrect`, `OneRunCorrect`, `NoneLeftRunningCorrect`, `FleetCorrect` and `ServedHubCorrect`
(a hub that can be looked up is open until the process stops), from `SupervisorAssumption`. The
inductive invariant is

    IInv == TypeOK /\ Bounded /\ NoneForgotten /\ Latest /\ Phases /\ Fleet /\ Hubs

An entry taken out of the map stays with the Reload that stops it until its goroutine has ended
(NoneForgotten); so whoever makes another entry for a key has waited for the last one, a live
goroutine belongs to the entry made last (Latest), and two runs of a key are one. Phases says
what each stage of Run relies on (no Reload past the fence, every live goroutine among those
Run waits for), Fleet that what is in the map is what was applied last and what is missing is
being started, Hubs that only entries out of the map are cancelled. Bounded keeps the numbering
of entries inside the finite set the model gives it.

**SharedConnProofs** proves `OrderlyCorrect` and `ReaderServedCorrect` from `SharedAssumption`, for
any readers, keys and lengths of queue. Orderly needs two facts. The handles only grow, so a stop in
the queue of requests never comes before its start and the recorder is never asked for a preview
it still serves (Queued, Alternating). And who is in a set of readers has not been ended, but for
the one demux is about to drop (Ends). ReaderServed is about the stream a reader will have been handed
once demux is done with the message at hand (`Stream`). Its invariant follows a message from
the recorder to the reader:

    RecorderInv == Alternating, OneKeyEach, Sending, OnWire, Placed, Fresh
    ReaderInv   == Received, Streams, Joining, Synced

What is on the wire of a preview has no gap and ends with what was sent last (OnWire); messages of
a preview that was stopped come before those of the next one of its key (Placed); nothing has
been routed of a preview whose info packet is not kept (Fresh); so a reader that has synced has every
message since (Synced), and one that has not has no picture (Joining). A first reader, which starts synced, may be
handed messages of the preview before, all of them before the first of its own (Streams). A reader's own messages are
told by their positions (`Own`, `Pictures`) and not by SelectSeq, which is recursive.

**RecorderPoolProofs** proves `WithinLimitsCorrect`, `PoolAccountsCorrect` and `IdleCloseCorrect` from
`PoolAssumption`. The invariant is

    IInv == TypeOK /\ Attached /\ Holders /\ Subscribed /\ AtMostMaxPreviews /\ ChoiceHolds
              /\ Found /\ NoneForgotten

Open decides that a connection has room and subscribes on it in a later step: ChoiceHolds says that
in between readers only leave it, because the one that chose holds `p.mu` (Holders). Found says that
an open connection is in the pool once or at the end of a dial that is not. Taking a connection out of
the pool is `Keeping`, a recursive function over the sequence; its lemma goes by the least counterexample,
since induction rules take an operator and cannot be cited: the existence of a least number comes
from the well-foundedness of inclusion on finite sets (`LeastNat`).

**EventRelayProofs** proves `RetainedTrueCorrect`, `EventsEndCorrect` and `LaterRelayLastCorrect`
from `RelayAssumption`, for any finite set of cameras and any number of relays, events and lost connections. The
invariant is

    IInv == TypeOK /\ PresenceTold /\ Sessions /\ Unstarted /\ Syncing /\ OldShut /\ SaidByStarted
              /\ Published /\ Remembered /\ OpenSeen

A relay that was replaced is shut before the next one starts (OldShut, Syncing), one not yet started does
nothing (Unstarted), so whoever the broker hears is the relay started last (SaidByStarted); and the
retained motion is what its Watch heard last unless a publish was missed (Published). The connection that
holds the client id is the only one that is up, and the running relay's (Sessions), but for a client reconnected
between the halves of Shutdown; so only such a one, or a lost connection, leaves the broker a will to publish.
Every event at Frigate is one that some relay has the id of or an orphan (Remembered), and a running
relay has an id only while there is motion or a change to deal with (OpenSeen).

**BcUdpProofs** proves `NothingLostCorrect` and `StreamCorrect`: every step of a session is a step of
ByteStream or a stutter, and the initial states map to initial states. The assumptions are
`BcUdpAssumption` and `ShortSessions`, that no session carries more packets one way than half the ids. The
second is needed: TLC finds NothingLost false without it (8 ids, 3 packets of ours in a longer
session), because an ack may be delivered arbitrarily late and its id, half the space away, then
acknowledges a packet that was never received. In the code that is 2^31 packets of up to 1.3 kB
(conn.go:227, 256). Ids are turned into places, their distance from the session's first
(`BehindIs`), and each direction is one link with one invariant (Recv, Resending, DataSent, AcksTrue):
what is not resent is held by the other side, and an ack on its way says only what is so.
Closing and ReaderAwake say what each stage of Close has done and that a reader that
sleeps has nothing to read. Delivered joins the links to what was read.

**ServicesProofs** proves of OnDemand `HeldAtMostCorrect` (one demand holds the camera for at most wakeMax a try) and
`ToldTruthCorrect`, from `OnDemandAssumption` and `GraceOutlastsLosses`: the searches lost in a row are
at least two fewer than the seconds of the grace (wakewatch.go:20, 25), without which telling is not true (further
divergences). The bound setup.md gives, wakeMax whatever happens, is false for the same code
(`StopsAtCap`); the one proved is what the code does keep. KnowsInTime is the heart: while the
watcher's last answer is stale, our session ended no more polls ago than searches were lost since.

Of MCServices (`ServicesSpec`) it proves `TimedCorrect`, `LinksTidyCorrect`, `ClipsKeptCorrect` and
`ProbedAloneCorrect`. `ServicesInv` has one invariant per service:

- RtspInv (`RtspAssumption`), while hold_picture is off, as the property is: the frame at hand is of the
  connection that is up (FrameOfNow), the clock is on the camera's timeline or told that it is not
  (PacedOrTold), the description is of the sets the camera sends or the next keyframe is compared with it
  (DescribedOrChecked), and each step knows what the one before has found out.
- MuxInv, but for streams that had a late frame across a wrap (`astray`) (`MuxerAssumption`: any wrap of two or more, any ratio of clocks and any rates above zero; a camera is
  given up before it is silent for half a turn, without which no counter can be unwrapped). The wraps and
  the counter are the time the camera has run, within one count; a picture is where that puts it, rounded
  down once, so each reconnection costs at most two ticks (ClockInv). Audio is where counting its samples from its
  anchor puts it (AudioInv); both rest on lemmas about `\div` and `%`.
- SdInv (`SdAssumption`): no session is open but the kept one, its job has the slot or it has a timer that does not fire
  too early (SdHeld, SdTimed), and with a camera that does not pause what it still sends is what the job reads
  (SdOwn).
- PadInv (`PadAssumption`): a command has the mutex from dialling to its answer, the held connection is
  the open one, and the only answer on its way is the one awaited (PadHeld, PadOpen, PadAnswers).
- FtpInv (`FtpAssumption`): at most one upload writes to what a name points to, unless names got
  entangled (`tangled`, which the property leaves out); its bytes are that upload's so far (FileTidy), and a port is
  lent to the one connection that waits at it (PortsLent).
- ClipInv: the server that listens is the receiver's (OneReceiver), and what a form gives a camera was in the
  file first (KeysHeld).
- SearchInv (`SearchAssumption`): an address is claimed exactly as long as one dials it (ClaimInv), and a scan
  sweeps alone (ScanInv).

**ConfigFileProofs** proves of ConfigFile `RecoverableCorrect`, `FleetFollowsFileCorrect` and with them `FileSoundCorrect`,
and `ClaimedOnceCorrect`, for any requests, cameras, passwords and way of mangling them, under
`ConfigFileAssumption`: no password, as typed or as written, is one of the model's words for none. A
password that would be written as nothing is refused (config.Validate) and so is not among them. The
invariant is

    IInv == Types /\ Roles /\ Sound /\ Locked /\ Copies /\ Claims /\ Vacant /\ Claiming
              /\ Secrets /\ FleetInv

configMu is held by exactly the request in the middle of a save (Locked); what it writes would load
(Sound), beside a whole copy (Copies). Claims: a claim is written only where none was granted,
since writeClaim looks again once it has the lock. Where there is no file nothing has been saved
and the page asks for nothing (Vacant); so a claim that finds none overwrites none and is granted
where nobody has answered, unless a person's file came after it had looked (Claiming). Secrets: in a folder every file has a password
or says it needs none, and on a file mounted alone a page that is served asks for a password of its own; so
no save can undo a claim. FleetInv: with nothing astray the fleet is the file's unless a request is
writing, a claim finds no fleet, and the listen flags, saved without the lock, fell between two saves.

Of the forms it proves `ConfirmedHeldCorrect`, a theorem of `ConfigSpec`, for any finite number of forms
(`FormsAssumption`), any leaves, faults and ticks; the run has two forms. FormsInv says of a form that is being
served:

- that among the steps it has left is one that decides (Deciding): it reads back the document the form is
  about and, unless it finds what was sent, does not let the form go on to "confirmed"; and no step
  after which the form would go on is about the same document, so a failure does not take the deciding step away.
  Or the camera has held the values already.
- that for each document with a clock it sends, it has a copy whose clock is fresh, or the step that reads one is
  still before the step that writes it (Clocked). Fresh is at most `Behind` ticks old, the number of forms that
  are over or have seen a tick; a tick makes every form being served one of them, and none sees two.

`ProgramListed` shows that each of the page's lists begins so. `ReadsHeld` is the step that matters: what
reads as it was sent is held at that moment. That the clock is never behind by more than a tick for each form
(ClockKept) needs no bound on how old the document of an undo is.

Every inductive invariant was also checked by TLC, as an invariant of the instance of its run
(ConfigFile's with both mounts, 2 requests and 2 faults): none is kept only because no state satisfies it.

Only model-checked:

- liveness everywhere (CloseEndsAll, DemuxGoesOn, AllTold, WaitersWake, RunEnds, Settles, LetsGo, Rests, GivesUp,
  Present, Hushed): fairness and ENABLED are out of the prover's reach;
- EditsData, that ConfigText implements ConfigData: what the operators on lines compute takes
  induction over the lines of a file, and induction rules take an operator and cannot be cited;
- OnlyItsOwn, in that a leaf that is not a form's own goes back to what it was when the form was *sent*. The run
  has two forms, and for two it is so. With three it need not be: the document a form sends back was read after
  it was sent, so it may put back what a second form wrote in between and a third has since replaced, which is
  neither the form's own nor the start's.

## Findings

Each is a run of one property that quotes the code's own words.

1. `pool_held` - shared.go:283. A connection that fell silent is dropped from the pool without
   a stop and with its socket open.
2. `sd_idle` - recordings.go:136. The timer of the job before closes the kept session under a
   job that started within the idle time and still runs when it fires: a download ends in the middle.

Further divergences met while modelling. The models show them (a property in parentheses is in
the module and is violated there), but no run states them. The fleet and its recorders:

- shared.go:154. Messages of a stopped preview still on the wire are handed to the first reader
  of the same preview started again, in mid-GOP, although "the first reader sees the preview
  from its first message" (`FirstReaderServed`). In SharedConn the founder of the second handle is handed
  the tail of the first; ReaderServed holds of it from the first message of its own preview on.
- pool.go:119. A stream being dialed on a new connection is not seen by another Open of the same
  stream that finds room on an old one: it is fetched twice, against setup.md:206.
- mqtt.go:108. The first QoS 0 message after a broker restart is lost (mqtt.go:84 says the retry
  "heals a broker restart without losing the event"). RetainedFollows excepts those cameras.
- mqtt.go:122. A Publish between the halves of Shutdown reconnects a client that is then shut
  with its connection open, against mqtt.go:117. The next client takes the id over, and the will of
  the connection it displaced may come after it has said online.
- mqtt.go:131. A last will that comes after the next client has said online leaves the entities offline while that
  one is connected (`AvailableWhileUp`). Shutdown is there to prevent it; after a connection lost
  on the way nothing does, since online is said once per connection.
- conn.go:344 (bcudp). D2C_DISC is not numbered and can overtake data: Read then returns io.EOF
  before what the camera sent ahead of it, though "a D2C_DISC from the camera reads as io.EOF once
  everything before it has been read". HandleDisc is enabled whatever is still in flight.
- wakewatch.go:96. A report of motion that Motion stores between watchWakes' read of motionUntil
  and its write is overwritten with the earlier end (StoreMotion), against "motionHold is how long
  one report of motion keeps the camera awake" (ondemand.go:38).
- wakewatch.go:82. With as many searches lost in a row as the grace has seconds, a wake of our own
  is taken for motion, against setup.md's "reostream's own sessions never do"; ToldTruth holds up
  to that number (`MaxLost`).
- ondemand.go:255. sub's second try for a first picture lasts from 23 to 43 s, main's first from 25
  to 45 s, so the two do ask the camera for a session at the same time.
- supervisor.go:563. A Reload that changes only hold_picture or rotate changes nothing until a
  restart (`CameraConfigCurrent`).
- ondemand.go:95. A session that breaks gets a successor with a limit of its own while its viewers
  stay: a stream can run for almost four times the five minutes after which setup.md says it stops
  "whatever happens" (`StopsAtCap`).
- events.go:293. Replacing the relay while motion is on leaves the topic ON (`NeverLeftOn`) and its
  event running at Frigate.

One stream and what is made of it:

- stream.go:343. A zoom lens on its own connection with channel 0 beside it waits on without a bound,
  though DefaultMediaTimeout (stream.go:25) "bounds how long Run tolerates zero decoded video frames"
  (`AlwaysGivesUp`).
- native.go:160. Frames that find the channel full are dropped one by one, so P frames follow a hole
  (`AlwaysDecodable`). runNative never sets the rotation, against "A rotate setting applies as
  written" (stream.go:421) and setup.md:164 (`TurnedAsSet`).
- presence.go:105. Live view of another codec keeps the still from being repeated, so the stream falls
  silent for as long as it is watched, against presence.go:7-9 (`AlwaysPresent`). After a clip or
  a still, live P frames go on without the picture they refer to.
- clock.go:58. A frame out of order that was stamped before a wrap already counted is taken for a
  whole wrap later (`astray` in Muxer).
- mux.go:250. A frame of ADPCM between the muxer made by a P frame and its tables is not counted.
- rtsp/stream.go:375. A frame that Hold sends uses up the rebase meant for the camera's next frame
  (`PaceKept`), and its sets can differ from those described (`DescriptionKept`).
- rtsp/stream.go:427. A first keyframe without parameter sets stays the pending one, though 733-737 waits
  for the next (`NextKeyframeServes`).
- rtsp/stream.go:260, server.go:194. A reload's Add replaces a Stream without closing it: its readers stay with
  the held picture (`NoneLeftBehind`).
- rtsp/server.go:391. OnSessionClose takes a reader off for a session that never played, so a playing
  one may go unfed (`PlayingIsFed`); PLAY sent twice counts twice and leaks the first back channel (372).
- talk/talk.go:52. A talk that gives up while the camera considers the configuration is hung up on,
  which line 120 says an RLC-833A does not survive (`NeverHungUpOn`).

The control page:

- password.go:98. A new password with a `$` in it is written cut, so the page asks for another than
  the one typed (`PageTakesFilePassword` with a `Mangled` that cuts; the run's password has no `$` in it).
- events.go:208, clips.go:88. syncRelay and syncReceiver read the file before they take their lock, in
  a goroutine per save: the one that read an older file may be the last (`ReceiverMatches`). A receiver
  restarted on the port of the one just cancelled may find it taken (ftpd/server.go:73).
- configfile.go:257. A form that read the file before another was saved overwrites that save.
- configfile.go:203. A file that a person puts there between writeClaim's look (claim.go:610) and the rename is
  overwritten (`NeverOverwritten`), though claim.go:364 says "It will not be overwritten"; a copy is left
  in the backup only if it came before saveConfig made one.
- Forms that say "confirmed" without comparing what the camera holds: siren, encoding, sound, copy,
  rename, rule (`AllConfirmedHeld`; setup.md:246-247 promises it of all). Siren and netport say "refused"
  though an earlier write of the form took; two forms on one document, each sending it back whole as it was read, can put the other's leaf back to what it
  was (a lost update, which OnlyItsOwn permits); undo puts
  the whole document back. "auto-save is on" is said though the receiver did not start or the camera
  ignored the write.
- applyCameraForm drops a camera's `rotate` (setup.md:164). Comments above the next camera's header
  go with an edit of the camera before. A camera found and added under a name in use overwrites that camera.
- recordings.go:87. With a camera that pauses in a download for longer than idle, the rest of an
  abandoned clip goes into the next (`NoOldClip`, with `Stalls`).
- ftpd/server.go:378. An upload that hung and fails removes the clip its camera uploaded again
  meanwhile (`NeverTakenBack`); a failed APPE removes the file it added to. Two uploads of one name
  write to one file or take its name from each other (`tangled`), and ClipsKept leaves such names out.
- probe.go:266. A camera added while it is probed is probed beside its own streams (`NeverBeside`), and
  an unreadable file counts as no camera. ptzhold.go: connections are kept by name, so a
  camera whose address is edited keeps the old one until it is quiet.

## Plan

The safety invariants of the runs are proved. What is left to prove is EditsData, for which the operators
of ConfigText would have to be stated line by line, and a form of OnlyItsOwn for any number of forms, which
needs a history of what each document held while a form was served.

If the models grow: motion from clips, topics and wakes into EventRelay; sinks into Supervisor;
firmware flashes and the daily clock sync beside CameraForms.

## Not modelled

- XML documents, JSON bodies and CGI tokens, MP4 and elementary stream parsing (frames), encryption
  and checksums, ADPCM, HTML templates: they transform data and keep no state between calls.
- Logins of the page and their sessions: a map under one lock, with one step per request.
- The search for battery cameras on the network, and the address ranges to sweep: what comes of them
  is external to OnDemand and Discovery.
- MQTT QoS 1 and Subscribe, which the relay does not use; statistics of streams; sinks of the supervisor.
- A process that dies in the middle of an upload: ConfigFile alone models crashes, and what an upload
  leaves behind then is a file the janitor prunes like any other.
- Command-line tools, the test doubles and the vendored RTSP library, which is external to RtspStream.
