------------------------------- MODULE Muxer -------------------------------
(***************************************************************************)
(* Time on a stream (internal/ts): Clock turns the camera's wrapping count *)
(* of microseconds into presentation timestamps, and AudioClock places     *)
(* audio, which carries no time at all, by counting samples from a place   *)
(* on the video's timeline.  The muxer stamps by them what follows its     *)
(* first keyframe, and the RTSP stream resumes its Clock on a camera's     *)
(* next connection.  What frames are cut into packets for is left out.     *)
(***************************************************************************)
EXTENDS Integers

CONSTANTS Wrap,      \* 2^32, the camera's counter
          Num, Den,  \* 9 and 100: timestamp ticks per microsecond
          Second,    \* timestamp ticks per second, which is audioResyncTicks too
          Rates,     \* the sample rates of ADTS headers
          Samples,   \* how many samples a frame of audio holds
          Starts,    \* where the camera's counter is when a timeline begins
          Steps,     \* camera time between two frames
          Gaps,      \* how long a camera is away
          MaxTime,   \* camera time of a timeline (bound)
          MaxAudio,  \* timestamps of audio (bound)
          Resumes    \* connections after the first (bound)

VARIABLES capture,  \* the camera: its counter at a timeline's first frame, the time of the newest
                    \* frame since, and how long the timelines before it lasted, with the gaps
          pts,      \* Clock
          audio,    \* AudioClock, `end` being where the frame before ended, `video` where the picture was
          astray,   \* a frame out of order came from before a wrap that was counted
          resumes

vars == <<capture, pts, audio, astray, resumes>>

DefaultRate == CHOOSE r \in Rates : \A q \in Rates : r <= q
DefaultSamples == CHOOSE n \in Samples : \A m \in Samples : n <= m
Threshold == Wrap \div 2

Micros(t) == (capture.start + t) % Wrap
Later(a, b) == IF a > b THEN a ELSE b

-----------------------------------------------------------------------------
(* Clock. *)

First(c, micros) == [c EXCEPT !.started = TRUE, !.base = micros, !.last = micros, !.wraps = 0, !.at = c.offset]

\* Mutant: every step backwards is a wrap.
anyStepWraps(c, micros) == micros < c.last

Wrapped(c, micros) == micros < c.last /\ c.last - micros > Threshold

\* Mutant: what the conversion cut off is not made up for: time is added frame by frame.
addsSteps(c, micros) ==
    LET wraps == IF Wrapped(c, micros) THEN 1 ELSE 0
        step == Later(wraps * Wrap + micros - c.last, 0)
    IN [c EXCEPT !.last = micros, !.wraps = @ + wraps, !.at = @ + (step * Num) \div Den]

\* Signed, so that a step back smaller than a wrap is clamped.
Advance(c, micros) ==
    LET wraps == IF Wrapped(c, micros) THEN c.wraps + 1 ELSE c.wraps
        elapsed == wraps * Wrap + micros - c.base
    IN [c EXCEPT !.last = micros, !.wraps = wraps,
                 !.at = Later(@, c.offset + (Later(elapsed, 0) * Num) \div Den)]

PTS(c, micros) == IF c.started THEN Advance(c, micros) ELSE First(c, micros)

\* Mutant: a resumed timeline joins where the last one began.
forgetsPlace(c, gap) == IF c.started THEN [c EXCEPT !.started = FALSE, !.offset = (gap * Num) \div Den] ELSE c

ResumeClock(c, gap) == IF c.started THEN [c EXCEPT !.started = FALSE, !.offset = c.at + (gap * Num) \div Den] ELSE c

-----------------------------------------------------------------------------
(* AudioClock. *)

Ticks(samples, rate) == (samples * Second) \div rate

\* Mutant: audio is put where the picture is, though it has gone on past it.
stepsBack(a, video) == [a EXCEPT !.anchor = video, !.samples = 0]

Reanchor(a, video) ==
    LET next == IF a.started THEN a.at + Ticks(a.frame, a.rate) ELSE 0
    IN [a EXCEPT !.anchor = Later(video, next), !.samples = 0]

Apart(a, b) == IF a > b THEN a - b ELSE b - a

\* Mutant: audio that has fallen behind is counted on.
neverResyncs(at, video) == FALSE

Resyncs(at, video) == Apart(at, video) > Second

\* A frame of audio with video at `video`; `known` says whether its header can be read.
AudioPTS(a, video, known, n, r) ==
    LET rate == IF known THEN r ELSE IF a.rate = 0 THEN DefaultRate ELSE a.rate
        samples == IF known THEN n ELSE DefaultSamples
        kept == a.started /\ rate = a.rate
        on == IF kept THEN a ELSE [Reanchor([a EXCEPT !.rate = rate], video) EXCEPT !.started = TRUE]
        at == on.anchor + Ticks(on.samples, rate)
        placed == IF Resyncs(at, video) THEN Reanchor(on, video) ELSE on
    IN [placed EXCEPT !.samples = @ + samples, !.frame = samples,
                      !.at = IF Resyncs(at, video) THEN placed.anchor ELSE at,
                      !.end = IF kept THEN a.at + Ticks(a.frame, rate) ELSE a.at, !.video = video]

-----------------------------------------------------------------------------
Init ==
    /\ \E s \in Starts : capture = [start |-> s, now |-> 0, before |-> 0]
    /\ pts = [started |-> FALSE, base |-> 0, last |-> 0, wraps |-> 0, at |-> 0, offset |-> 0]
    /\ audio = [started |-> FALSE, anchor |-> 0, samples |-> 0, rate |-> 0, frame |-> 0, at |-> 0, end |-> 0, video |-> 0]
    /\ astray = FALSE /\ resumes = 0

\* A video frame, the first of which is a keyframe. What becomes of a timeline that went astray
\* is not followed.
Frame ==
    /\ ~astray
    /\ \E step \in Steps :
        LET now == IF pts.started THEN capture.now + step ELSE capture.now
        IN /\ now <= MaxTime
           /\ capture' = [capture EXCEPT !.now = now]
           /\ pts' = PTS(pts, Micros(now))
    /\ UNCHANGED <<audio, astray, resumes>>

\* A video frame captured before the one it comes after.
LateFrame ==
    /\ pts.started /\ ~astray /\ capture.now > 0
    /\ pts' = PTS(pts, Micros(capture.now - 1))
    /\ astray' = (astray \/ (pts.last # Wrap - 1 /\ Micros(capture.now - 1) = Wrap - 1))
    /\ UNCHANGED <<capture, audio, resumes>>

\* audioFrame: none before the tables.
AudioFrame ==
    /\ pts.started /\ audio.at <= pts.at + Second /\ audio.at < MaxAudio
    /\ \E known \in BOOLEAN, n \in Samples, r \in Rates : audio' = AudioPTS(audio, pts.at, known, n, r)
    /\ UNCHANGED <<capture, pts, astray, resumes>>

\* The first frame of the camera's next connection, of a camera that may have started again.
Resume ==
    /\ pts.started /\ ~astray /\ resumes < Resumes
    /\ \E gap \in Gaps, s \in Starts :
        /\ pts' = PTS(ResumeClock(pts, gap), s)
        /\ capture' = [start |-> s, now |-> 0, before |-> capture.before + capture.now + gap]
    /\ resumes' = resumes + 1
    /\ UNCHANGED <<audio, astray>>

Next == Frame \/ LateFrame \/ AudioFrame \/ Resume

Spec == Init /\ [][Next]_vars

-----------------------------------------------------------------------------
(* Properties. *)

\* The picture keeps real time: a frame's timestamp is as far from the first one's as the time
\* between them, over every wrap of the counter, every connection and whatever frames came
\* late, unless one came from before a wrap. Only what the conversion cuts off, once or twice
\* per connection, is lost (clock.go:50-132).
KeepsTime ==
    LET elapsed == (capture.before + capture.now) * Num
    IN ~astray => pts.at * Den \in elapsed - Den * (2 * resumes + 1) .. elapsed

\* Audio never starts before the frame before it has ended, and is never placed more than a
\* second behind the picture (clock.go:159-211).
InStep == audio.at >= audio.end /\ audio.at + Second >= audio.video

Timed == KeepsTime /\ InStep
=============================================================================
