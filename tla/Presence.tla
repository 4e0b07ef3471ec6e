----------------------------- MODULE Presence -----------------------------
(***************************************************************************)
(* A battery camera's presence stream (internal/presence): one Player that *)
(* three goroutines feed: Run, which repeats the last picture and plays    *)
(* clips; the on-demand stream, with live frames; and whoever has a still  *)
(* for it.  Each takes the Player's lock for a frame at a time.            *)
(*                                                                         *)
(* A clip is its codec, for each sample whether that is a keyframe, and    *)
(* whether one of them cannot be read.                                     *)
(***************************************************************************)
EXTENDS Integers, Sequences

CONSTANTS Codecs, Clips,
          MaxWaiting  \* how many clips may wait: 8

VARIABLES codec,    \* the Player's codec, "" before its first picture
          still,    \* the codec of the picture it repeats, "" if none
          playing,  \* the clip that has the stream has set this
          recent,   \* a live or clip frame came within liveGrace
          waiting,  \* the clips channel
          reel,     \* Run: where it is, with which clip and sample
          shown     \* what the sink was given last, all its codecs, whether a clip was torn, it was
            \* given nothing for long, and live view sends another codec

vars == <<codec, still, playing, recent, waiting, reel, shown>>

NoClip == [codec |-> "", keys |-> <<>>, broken |-> FALSE]
Loop == [at |-> "loop", clip |-> NoClip, i |-> 0, started |-> FALSE]
Nothing == [src |-> "none", clip |-> NoClip, i |-> 0]

Init ==
    /\ codec = "" /\ still = "" /\ playing = FALSE /\ recent = FALSE
    /\ waiting = <<>> /\ reel = Loop
    /\ shown = [last |-> Nothing, codecs |-> {}, torn |-> FALSE, quiet |-> FALSE, foreign |-> FALSE]

-----------------------------------------------------------------------------
(* What the lock is held for. *)

Fits(c) == codec = "" \/ c = codec

\* Mutant: any picture becomes the still, and its codec the stream's.
adoptsAny(c) == codec' = c /\ still' = c

\* adoptLocked, of a picture: the first one fixes the codec.
Adopt(c) == IF Fits(c) THEN codec' = c /\ still' = c ELSE UNCHANGED <<codec, still>>

\* emitLocked after Adopt: a frame of another codec is dropped.
Emits(c) == c = codec'

Emit(s, c, what) == IF Emits(c) THEN [s EXCEPT !.last = what, !.codecs = @ \cup {c}, !.quiet = FALSE] ELSE s

\* primeLocked, when Adopt took the stream's first picture.
Prime(s, c) == IF codec = "" THEN Emit(s, c, [Nothing EXCEPT !.src = "still"]) ELSE s

-----------------------------------------------------------------------------
(* The other goroutines. *)

\* Mutant: live frames go on while a clip plays.
neverBusy == FALSE

Busy == playing

Live ==
    /\ \E key \in BOOLEAN, c \in Codecs :
        IF Busy THEN UNCHANGED <<codec, still, recent, shown>>
        ELSE /\ IF key THEN Adopt(c) ELSE UNCHANGED <<codec, still>>
             /\ LET s == Emit(IF key THEN Prime(shown, c) ELSE shown, c, [Nothing EXCEPT !.src = "live"])
                IN shown' = [s EXCEPT !.foreign = ~Emits(c)]
             /\ recent' = TRUE
    /\ UNCHANGED <<playing, waiting, reel>>

\* SeedFrame, and Seed with the last keyframe of a clip.
SeedFrame ==
    /\ \E c \in Codecs : Adopt(c) /\ shown' = Prime(shown, c)
    /\ UNCHANGED <<playing, recent, waiting, reel>>

\* Play: a clip is skipped if too many wait.
Play ==
    /\ \E clip \in Clips : waiting' = IF Len(waiting) < MaxWaiting THEN Append(waiting, clip) ELSE waiting
    /\ UNCHANGED <<codec, still, playing, recent, reel, shown>>

\* liveGrace passes.
Expire ==
    /\ recent /\ recent' = FALSE
    /\ shown' = [shown EXCEPT !.foreign = FALSE]
    /\ UNCHANGED <<codec, still, playing, waiting, reel>>

-----------------------------------------------------------------------------
(* Run. *)

\* Mutant: the still is shown just when there is something else.
whileBusy == still # "" /\ recent

Due == still # "" /\ ~recent

\* A second passes: the still is repeated, unless something was shown just now.
Repeat ==
    /\ reel.at = "loop"
    /\ shown' = IF Due
                THEN [shown EXCEPT !.last = [Nothing EXCEPT !.src = "still"], !.codecs = @ \cup {still}, !.quiet = FALSE]
                ELSE shown
    /\ UNCHANGED <<codec, still, playing, recent, waiting, reel>>

\* A clip, which may not open; one of another codec is only seeded from.
Take ==
    /\ reel.at = "loop" /\ waiting # <<>>
    /\ waiting' = Tail(waiting)
    /\ reel' \in {Loop, [Loop EXCEPT !.at = "check", !.clip = Head(waiting)]}
    /\ UNCHANGED <<codec, still, playing, recent, shown>>

Check ==
    /\ reel.at = "check"
    /\ IF Fits(reel.clip.codec)
       THEN playing' = TRUE /\ reel' = [reel EXCEPT !.at = "play", !.i = 1]
       ELSE UNCHANGED playing /\ reel' = [reel EXCEPT !.at = "seed"]
    /\ UNCHANGED <<codec, still, recent, waiting, shown>>

SeedClip ==
    /\ reel.at = "seed"
    /\ Adopt(reel.clip.codec) /\ shown' = Prime(shown, reel.clip.codec)
    /\ reel' = Loop
    /\ UNCHANGED <<playing, recent, waiting>>

\* Mutant: the samples before the clip's first keyframe are shown as well.
skipsNone(i) == FALSE

Skips(i) == ~reel.started /\ ~reel.clip.keys[i]

\* One sample of the clip, and the wait for its duration.
Sample ==
    /\ reel.at = "play" /\ reel.i <= Len(reel.clip.keys)
    /\ LET i == reel.i
           key == reel.clip.keys[i]
           c == reel.clip.codec
           this == [src |-> "clip", clip |-> reel.clip, i |-> i]
           before == [this EXCEPT !.i = i - 1]
       IN IF Skips(i)
          THEN reel' = [reel EXCEPT !.i = i + 1] /\ UNCHANGED <<codec, still, recent, shown>>
          ELSE /\ reel' = [reel EXCEPT !.i = i + 1, !.started = TRUE]
               /\ IF key THEN Adopt(c) ELSE UNCHANGED <<codec, still>>
               /\ LET s == Emit(IF key THEN Prime(shown, c) ELSE shown, c, this)
                  IN shown' = [s EXCEPT !.torn = @ \/ (Emits(c) /\ ~key /\ shown.last # before)]
               /\ recent' = TRUE
    /\ UNCHANGED <<playing, waiting>>

\* After the last sample, one that cannot be read, or the end of the context.
ClipEnds ==
    /\ reel.at = "play"
    /\ reel.i <= Len(reel.clip.keys) => reel.clip.broken
    /\ playing' = FALSE /\ reel' = Loop
    /\ UNCHANGED <<codec, still, recent, waiting, shown>>

\* A recorder that holds the stream is given nothing for a while.
Quiet ==
    /\ still # "" /\ ~shown.quiet /\ shown' = [shown EXCEPT !.quiet = TRUE]
    /\ UNCHANGED <<codec, still, playing, recent, waiting, reel>>

Next == \/ Live \/ SeedFrame \/ Play \/ Expire \/ Repeat \/ Take \/ Check \/ SeedClip \/ Sample \/ ClipEnds \/ Quiet

\* Run's loop goes on; time passes; clips do not come faster than they can be played for ever.
Fairness == /\ WF_vars(Check) /\ WF_vars(SeedClip) /\ WF_vars(Sample) /\ WF_vars(ClipEnds)
            /\ SF_vars(Repeat) /\ WF_vars(Expire)

Spec == Init /\ [][Next]_vars /\ Fairness

-----------------------------------------------------------------------------
(* Properties. *)

\* A clip is played from its first keyframe on with nothing in between, whatever live frames
\* and stills come meanwhile (presence.go:105, 170-236), and the stream never changes its
\* codec, whichever of two pictures of different codecs is the first.
ClipWhole == ~shown.torn /\ shown.codecs \subseteq {codec} /\ still \in {"", codec}

\* A recorder that holds the stream goes on being given pictures: when neither clip nor live
\* view shows, the still does (presence.go:84-98). Live view of another codec is left out.
Present == shown.quiet ~> (~shown.quiet \/ shown.foreign)

\* A recorder "can then hold the stream open around the clock" (presence.go:7-9), whatever is
\* watched meanwhile.
AlwaysPresent == shown.quiet ~> ~shown.quiet
=============================================================================
