------------------------------ MODULE OnDemand ------------------------------
(***************************************************************************)
(* internal/supervisor/ondemand.go and wakewatch.go: the main stream of a  *)
(* battery camera, asleep until somebody watches it or motion is seen, and *)
(* the watcher that takes a camera awake on its own for motion.            *)
(*                                                                         *)
(* Time is counted in polls; no poll passes while a goroutine has a step   *)
(* to take.  A session (Supervisor.run) may end by itself at any time.     *)
(* Viewers, Motion's caller, the camera and its answers to a search, which *)
(* may be lost, are external.                                              *)
(***************************************************************************)
EXTENDS Naturals

CONSTANTS
  WakeIdle, WakeMax, WakeCooldown, WakeTries, WakeRetry, MotionHold,
  StillWait, StillTimeout, StillTries,
  WakeMotionHold, WakeOursGrace,
  MaxLost,     \* bound on the searches lost in a row
  MaxClients,  \* bound on the viewers at one time
  MaxDemands   \* bound on what asks for the stream in a behaviour

Times == {WakeIdle, WakeMax, WakeCooldown, WakeRetry, MotionHold, StillWait,
          StillTimeout, WakeMotionHold, WakeOursGrace}

ASSUME OnDemandAssumption ==
  /\ \A t \in Times : t \in Nat \ {0}
  /\ WakeTries \in Nat \ {0} /\ StillTries \in Nat
  /\ MaxLost \in Nat /\ MaxClients \in Nat /\ MaxDemands \in Nat

\* Of the searches within the grace after a session one is answered: the
\* watcher asks once a second, and the grace is five.
ASSUME GraceOutlastsLosses == MaxLost + 2 <= WakeOursGrace

VARIABLES
  always,    \* entry.alwaysOn
  ctx,       \* has the entry's context ended?
  phase,     \* runOnDemand: where it is
  left,      \* the time left of what it waits for
  tries,     \* firstStill's try, or runOnDemand's fails
  age,       \* wakeSession: time since start
  quiet,     \* wakeSession: time since lastSeen
  spell,     \* time in session since viewers were last let go (history)
  clients,   \* Hub.Clients
  motion,    \* time left until entry.motionUntil
  picture,   \* has the hub a keyframe?
  keep,      \* is there a directory for stills?
  watch,     \* watchWakes: where it is
  known,     \* watchWakes: what the last answer said
  until,     \* watchWakes: time left of the motion it saw
  told,      \* what the motion hook was told last
  lost,      \* searches lost in a row
  cam,       \* camera: is it asleep?
  itself,    \* camera: did it wake by itself? (history)
  ended,     \* time since a session of ours ended, up to the grace
  demands    \* what has asked for the stream so far

runVars == <<phase, left, tries, age, quiet, spell>>
watchVars == <<watch, known, until, told, lost>>
camVars == <<cam, itself>>
optionVars == <<always, keep>>
vars == <<optionVars, ctx, runVars, clients, motion, picture, watchVars,
          camVars, ended, demands>>

InSession == phase \in {"still", "awake"}
Wanted == always = "yes" \/ clients > 0 \/ motion > 0

Init ==
  /\ always \in {"yes", "no"} /\ keep \in {"yes", "no"}
  /\ picture \in {"none", "kept"} /\ (picture = "kept" => keep = "yes")
  /\ ctx = "live"
  /\ phase = IF picture = "none" /\ keep = "yes" THEN "stillWait" ELSE "asleep"
  /\ left = IF phase = "stillWait" THEN StillWait ELSE 0
  /\ tries = 0 /\ age = 0 /\ quiet = 0 /\ spell = 0
  /\ clients = 0 /\ motion = 0
  /\ watch = IF always = "yes" THEN "off" ELSE "due"
  /\ known = "unknown" /\ until = 0 /\ told = "off" /\ lost = 0
  /\ cam \in {"asleep", "awake"} /\ itself = "no"
  /\ ended = WakeOursGrace /\ demands = 0

-----------------------------------------------------------------------------
(* Sessions *)

Opens ==
  /\ cam' = "awake" /\ itself' = IF cam = "awake" THEN itself ELSE "no"
  /\ age' = 0 /\ quiet' = 0

Waits(p, t) == phase' = p /\ left' = t

\* saveStill
Saved == IF picture # "none" /\ keep = "yes" THEN "kept" ELSE picture

KeyframeComes ==
  /\ InSession /\ picture = "none"
  /\ picture' = "new"
  /\ UNCHANGED <<optionVars, ctx, runVars, clients, motion, watchVars, camVars,
                 ended, demands>>

-----------------------------------------------------------------------------
(* firstStill *)

\* Mutant: tries are not counted.
StillBeginsAgain ==
  /\ ctx = "live" /\ phase \in {"stillWait", "stillRetry"} /\ left = 0
  /\ Waits("still", StillTimeout) /\ UNCHANGED tries
  /\ Opens
  /\ UNCHANGED <<optionVars, ctx, spell, clients, motion, picture, watchVars,
                 ended, demands>>

StillBegins ==
  /\ ctx = "live" /\ phase \in {"stillWait", "stillRetry"} /\ left = 0
  /\ tries < StillTries
  /\ Waits("still", StillTimeout) /\ tries' = tries + 1
  /\ Opens
  /\ UNCHANGED <<optionVars, ctx, spell, clients, motion, picture, watchVars,
                 ended, demands>>

StillEnds ==
  /\ phase = "still"
  /\ IF picture # "none" THEN Waits("asleep", 0) ELSE Waits("stillRetry", WakeRetry)
  /\ picture' = Saved
  /\ ended' = 0
  /\ UNCHANGED <<optionVars, ctx, tries, age, quiet, spell, clients, motion,
                 watchVars, camVars, demands>>

StillGivesUp ==
  /\ ctx = "live" /\ phase = "stillRetry" /\ left = 0 /\ tries >= StillTries
  /\ Waits("asleep", 0)
  /\ UNCHANGED <<optionVars, ctx, tries, age, quiet, spell, clients, motion,
                 picture, watchVars, camVars, ended, demands>>

-----------------------------------------------------------------------------
(* runOnDemand *)

Wake ==
  /\ ctx = "live" /\ phase = "asleep" /\ Wanted
  /\ Waits("awake", 0) /\ tries' = 0 /\ spell' = 0
  /\ Opens
  /\ UNCHANGED <<optionVars, ctx, clients, motion, picture, watchVars, ended,
                 demands>>

\* Mutant: the viewers stay.
LetGoKeeping ==
  /\ Waits("cooldown", WakeCooldown) /\ picture' = Saved /\ UNCHANGED clients

\* What follows the inner loop: Kick and saveStill.
LetGo ==
  /\ Waits("cooldown", WakeCooldown) /\ picture' = Saved /\ clients' = 0

\* wakeSession's inner goroutine, at a poll
Limit ==
  \/ quiet >= WakeIdle
  \/ always = "no" /\ age >= WakeMax

LimitReached ==
  /\ ctx = "live" /\ phase = "awake" /\ Limit
  /\ LetGo /\ ended' = 0
  /\ UNCHANGED <<optionVars, ctx, tries, age, quiet, spell, motion, watchVars,
                 camVars, demands>>

CameraEnds ==
  /\ ctx = "live" /\ phase = "awake"
  /\ LetGo /\ ended' = 0
  /\ UNCHANGED <<optionVars, ctx, tries, age, quiet, spell, motion, watchVars,
                 camVars, demands>>

SessionFails ==
  /\ ctx = "live" /\ phase = "awake"
  /\ Waits("retry", WakeRetry) /\ tries' = tries + 1
  /\ ended' = 0
  /\ UNCHANGED <<optionVars, ctx, age, quiet, spell, clients, motion, picture,
                 watchVars, camVars, demands>>

WakeAgain ==
  /\ ctx = "live" /\ phase = "retry" /\ left = 0
  /\ tries < WakeTries /\ Wanted
  /\ Waits("awake", 0) /\ Opens
  /\ UNCHANGED <<optionVars, ctx, tries, spell, clients, motion, picture,
                 watchVars, ended, demands>>

NoMoreTries ==
  /\ ctx = "live" /\ phase = "retry" /\ left = 0
  /\ ~(tries < WakeTries /\ Wanted)
  /\ LetGo
  /\ UNCHANGED <<optionVars, ctx, tries, age, quiet, spell, motion, watchVars,
                 camVars, ended, demands>>

CooledDown ==
  /\ ctx = "live" /\ phase = "cooldown" /\ left = 0
  /\ Waits("asleep", 0)
  /\ UNCHANGED <<optionVars, ctx, tries, age, quiet, spell, clients, motion,
                 picture, watchVars, camVars, ended, demands>>

\* The deferred Close of the hub ends its viewers.
Returns ==
  /\ ctx = "ended" /\ phase # "over" /\ phase # "still"
  /\ Waits("over", 0) /\ clients' = 0
  /\ ended' = IF phase = "awake" THEN 0 ELSE ended
  /\ UNCHANGED <<optionVars, ctx, tries, age, quiet, spell, motion, picture,
                 watchVars, camVars, demands>>

-----------------------------------------------------------------------------
(* watchWakes *)

Ours == InSession \/ ended < WakeOursGrace
StillOn == IF until = 0 THEN "off" ELSE told

SearchLost ==
  /\ watch = "due" /\ lost < MaxLost
  /\ watch' = "done" /\ lost' = lost + 1 /\ told' = StillOn
  /\ UNCHANGED <<optionVars, ctx, runVars, clients, motion, picture, known,
                 until, camVars, ended, demands>>

\* Mutant: a wake is motion whoever had a session.
SearchAnyone ==
  /\ watch = "due"
  /\ lost' = 0 /\ known' = cam
  /\ IF known = "asleep" /\ cam = "awake"
       THEN /\ told' = "on" /\ until' = WakeMotionHold
            /\ watch' = IF WakeMotionHold > motion THEN "store" ELSE "done"
       ELSE told' = StillOn /\ watch' = "done" /\ UNCHANGED until
  /\ UNCHANGED <<optionVars, ctx, runVars, clients, motion, picture, camVars,
                 ended, demands>>

Search ==
  /\ watch = "due"
  /\ lost' = 0 /\ known' = cam
  /\ IF known = "asleep" /\ cam = "awake" /\ ~Ours
       THEN /\ told' = "on" /\ until' = WakeMotionHold
            /\ watch' = IF WakeMotionHold > motion THEN "store" ELSE "done"
       ELSE told' = StillOn /\ watch' = "done" /\ UNCHANGED until
  /\ UNCHANGED <<optionVars, ctx, runVars, clients, motion, picture, camVars,
                 ended, demands>>

\* motionUntil was read in Search: a report of motion in between is lost.
StoreMotion ==
  /\ watch = "store"
  /\ watch' = "done" /\ motion' = until
  /\ UNCHANGED <<optionVars, ctx, runVars, clients, picture, known, until, told,
                 lost, camVars, ended, demands>>

WatchReturns ==
  /\ ctx = "ended" /\ watch \in {"due", "done"}
  /\ watch' = "over" /\ told' = "off"
  /\ UNCHANGED <<optionVars, ctx, runVars, clients, motion, picture, known,
                 until, lost, camVars, ended, demands>>

-----------------------------------------------------------------------------
(* Viewers, Motion's caller, the supervisor and the camera *)

Demand == demands < MaxDemands /\ demands' = demands + 1

Subscribe ==
  /\ phase # "over" /\ clients < MaxClients /\ Demand
  /\ clients' = clients + 1
  /\ UNCHANGED <<optionVars, ctx, runVars, motion, picture, watchVars, camVars,
                 ended>>

Leave ==
  /\ clients > 0 /\ clients' = clients - 1
  /\ UNCHANGED <<optionVars, ctx, runVars, motion, picture, watchVars, camVars,
                 ended, demands>>

Motion ==
  /\ \/ motion' = MotionHold /\ Demand
     \/ motion > 0 /\ motion' = 0 /\ UNCHANGED demands
  /\ UNCHANGED <<optionVars, ctx, runVars, clients, picture, watchVars, camVars,
                 ended>>

Cancel ==
  /\ ctx = "live" /\ ctx' = "ended"
  /\ UNCHANGED <<optionVars, runVars, clients, motion, picture, watchVars,
                 camVars, ended, demands>>

WakesItself ==
  /\ cam = "asleep" /\ Demand
  /\ cam' = "awake" /\ itself' = "yes"
  /\ UNCHANGED <<optionVars, ctx, runVars, clients, motion, picture, watchVars,
                 ended>>

FallsAsleep ==
  /\ cam = "awake" /\ ~InSession
  /\ cam' = "asleep" /\ itself' = "no"
  /\ UNCHANGED <<optionVars, ctx, runVars, clients, motion, picture, watchVars,
                 ended, demands>>

-----------------------------------------------------------------------------

Less(t) == IF t = 0 THEN 0 ELSE t - 1
More(t, max) == IF t < max THEN t + 1 ELSE t
MaxSpell == WakeTries * WakeMax

Urgent ==
  \/ ctx = "ended" /\ (phase # "over" \/ watch \in {"due", "done"})
  \/ watch \in {"due", "store"}
  \/ phase \in {"stillWait", "stillRetry", "retry", "cooldown"} /\ left = 0
  \/ phase = "still" /\ (left = 0 \/ picture # "none")
  \/ phase = "asleep" /\ Wanted
  \/ phase = "awake" /\ Limit

Tick ==
  /\ ~Urgent /\ phase # "over"
  /\ left' = Less(left) /\ motion' = Less(motion) /\ until' = Less(until)
  /\ age' = IF phase = "awake" THEN More(age, WakeMax) ELSE age
  /\ quiet' = IF phase = "awake" /\ ~Wanted THEN quiet + 1 ELSE 0
  /\ spell' = IF phase = "awake" THEN More(spell, MaxSpell) ELSE spell
  /\ ended' = More(ended, WakeOursGrace)
  /\ watch' = IF watch = "done" THEN "due" ELSE watch
  /\ UNCHANGED <<optionVars, ctx, phase, tries, clients, picture, known, told,
                 lost, camVars, demands>>

RunStep ==
  \/ StillBegins \/ StillEnds \/ StillGivesUp
  \/ Wake \/ LimitReached \/ CameraEnds \/ SessionFails \/ WakeAgain
  \/ NoMoreTries \/ CooledDown \/ Returns
WatchStep == SearchLost \/ Search \/ StoreMotion \/ WatchReturns
Elsewhere ==
  Subscribe \/ Leave \/ Motion \/ Cancel \/ KeyframeComes \/ WakesItself
    \/ FallsAsleep

Next == RunStep \/ WatchStep \/ Elsewhere \/ Tick

\* Goroutines take the steps they have, time passes, and a camera nobody
\* holds awake goes back to sleep.
Fairness ==
  /\ WF_vars(StillBegins) /\ WF_vars(StillGivesUp) /\ WF_vars(Wake)
  /\ WF_vars((left = 0 \/ picture # "none" \/ ctx = "ended") /\ StillEnds)
  /\ WF_vars(LimitReached) /\ WF_vars(WakeAgain) /\ WF_vars(NoMoreTries)
  /\ WF_vars(CooledDown) /\ WF_vars(Returns)
  /\ WF_vars(WatchStep) /\ WF_vars(Tick) /\ SF_vars(FallsAsleep)

Spec == Init /\ [][Next]_vars /\ Fairness

-----------------------------------------------------------------------------
(* Properties *)

\* Every variable keeps its type; a session is never older than its limit
\* unless always on, nor idle for longer than wakeIdle.
TypeOK ==
  /\ always \in {"yes", "no"} /\ keep \in {"yes", "no"}
  /\ ctx \in {"live", "ended"}
  /\ phase \in {"stillWait", "still", "stillRetry", "asleep", "awake", "retry",
                "cooldown", "over"}
  /\ left \in 0..StillTimeout + WakeCooldown + WakeRetry + StillWait
  /\ tries \in 0..WakeTries + StillTries
  /\ age \in 0..WakeMax /\ quiet \in 0..WakeIdle /\ spell \in 0..MaxSpell
  /\ clients \in 0..MaxClients /\ motion \in 0..MotionHold + WakeMotionHold
  /\ picture \in {"none", "new", "kept"}
  /\ watch \in {"off", "due", "done", "store", "over"}
  /\ known \in {"unknown", "asleep", "awake"}
  /\ until \in 0..WakeMotionHold /\ told \in {"on", "off"} /\ lost \in 0..MaxLost
  /\ cam \in {"asleep", "awake"} /\ itself \in {"yes", "no"}
  /\ ended \in 0..WakeOursGrace /\ demands \in 0..MaxDemands

\* Motion is reported only of a camera that woke by itself, never of one a
\* session of ours woke, and a report has ended when the watcher is gone.
ToldTruth ==
  [][/\ told = "off" /\ told' = "on" => itself = "yes"
     /\ watch' = "over" => told' = "off"]_vars

\* Whoever subscribes is let go in the end, also if the camera never wakes or a
\* tab is left open: after wakeTries or at wakeMax (always on has no limit).
LetsGo == always = "no" => (clients > 0 ~> clients = 0)

\* A camera nobody asks for goes back to sleep and stays asleep: what reostream
\* does by itself (stills, retries, its watcher) does not hold it awake.
Rests ==
  (always = "no" /\ <>[](clients = 0))
    => <>[](phase \in {"asleep", "over"} /\ cam = "asleep")

\* "They stop 10 seconds after the last viewer leaves, and after 5 minutes
\* whatever happens" (docs/setup.md).
StopsAtCap == always = "no" /\ phase = "awake" => spell <= WakeMax
=============================================================================
