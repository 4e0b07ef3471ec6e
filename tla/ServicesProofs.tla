---------------------------- MODULE ServicesProofs ----------------------------
(***************************************************************************)
(* The safety properties of the services a process runs beside its         *)
(* streams: the main stream of a battery camera that is woken for whoever  *)
(* watches, and of MCServices the RTSP stream, the muxer, the recordings   *)
(* on a camera's card, the pan and tilt pad, the FTP server, the receiver  *)
(* of clips and the search for cameras, for every value of their constants *)
(* that its assumptions allow.                                             *)
(***************************************************************************)
EXTENDS OnDemand, MCServices, TLAPS, FiniteSetTheorems, SequenceTheorems, WellFoundedInduction

-----------------------------------------------------------------------------
(* A battery camera's main stream.                                         *)
(*                                                                         *)
(* The watcher tells of motion when its answer goes from asleep to awake   *)
(* with no session of ours now or lately.  What it knows may be stale, for *)
(* a search can be lost; but while it is, the time since our session ended *)
(* is at most the searches lost since (KnowsInTime).                       *)

\* A camera that our session woke, and that the watcher last knew asleep, is
\* in that session still or has left it for no longer than the searches lost.
KnowsInTime ==
  watch \in {"due", "done", "store"} /\ known = "asleep" /\ cam = "awake" /\ itself = "no"
    => InSession \/ ended <= lost + (IF watch = "due" THEN 1 ELSE 0)

\* The watcher takes its report back when it ends.
Retracted == watch = "over" => told = "off"

\* A session is one of the tries of its demand.
TriesLeft == phase = "awake" => tries < WakeTries

\* Whoever holds a camera awake, the tries of one demand do so for no longer
\* than wakeMax each (runOnDemand, wakeSession), unless it is always on.
HeldAtMost ==
  always = "no" =>
    /\ phase = "awake" => spell <= tries * WakeMax + age
    /\ phase = "retry" => spell <= tries * WakeMax

IInv == TypeOK /\ TriesLeft /\ Retracted /\ KnowsInTime /\ HeldAtMost

-----------------------------------------------------------------------------
(* The types *)

\* The constants are natural numbers.
LEMMA Consts ==
  /\ WakeIdle \in Nat \ {0} /\ WakeMax \in Nat \ {0} /\ WakeCooldown \in Nat \ {0}
  /\ WakeTries \in Nat \ {0} /\ WakeRetry \in Nat \ {0} /\ MotionHold \in Nat \ {0}
  /\ StillWait \in Nat \ {0} /\ StillTimeout \in Nat \ {0} /\ StillTries \in Nat
  /\ WakeMotionHold \in Nat \ {0} /\ WakeOursGrace \in Nat \ {0}
  /\ MaxLost \in Nat /\ MaxClients \in Nat /\ MaxDemands \in Nat
  BY OnDemandAssumption DEF Times

\* A product is a number, and one factor more is that much more.
LEMMA Times1 ==
  ASSUME NEW t \in Nat, NEW w \in Nat
  PROVE  /\ t * w \in Nat /\ 0 * w = 0
         /\ (t + 1) * w = t * w + w
  OBVIOUS

\* The bound on the history of a spell is a number.
LEMMA MaxSpellIs == MaxSpell \in Nat
<1>1. WakeTries \in Nat /\ WakeMax \in Nat
  BY Consts
<1> QED BY <1>1, Times1 DEF MaxSpell

\* At first nobody has asked for anything.
LEMMA InitInv == Init => IInv
<1> SUFFICES ASSUME Init PROVE IInv
  OBVIOUS
<1>1. TypeOK
  BY Consts, MaxSpellIs DEF Init, TypeOK
<1>2. TriesLeft /\ Retracted /\ KnowsInTime /\ HeldAtMost
  BY DEF Init, TriesLeft, Retracted, KnowsInTime, HeldAtMost
<1> QED BY <1>1, <1>2 DEF IInv

\* Every step keeps the types.
LEMMA TypesStep ==
  ASSUME TypeOK, TriesLeft, [Next]_vars
  PROVE  TypeOK'
<1>1. CASE StillBegins
  BY <1>1, Consts, MaxSpellIs
  DEF StillBegins, Waits, Opens, TypeOK, TriesLeft, Saved, runVars, watchVars, camVars, optionVars
<1>2. CASE StillEnds
  BY <1>2, Consts, MaxSpellIs
  DEF StillEnds, Waits, Saved, TypeOK, TriesLeft, Saved, runVars, watchVars, camVars, optionVars
<1>3. CASE StillGivesUp
  BY <1>3, Consts, MaxSpellIs
  DEF StillGivesUp, Waits, TypeOK, TriesLeft, Saved, runVars, watchVars, camVars, optionVars
<1>4. CASE Wake
  BY <1>4, Consts, MaxSpellIs
  DEF Wake, Waits, Opens, TypeOK, TriesLeft, Saved, runVars, watchVars, camVars, optionVars
<1>5. CASE LimitReached
  BY <1>5, Consts, MaxSpellIs
  DEF LimitReached, LetGo, Waits, Saved, TypeOK, TriesLeft, Saved, runVars, watchVars, camVars, optionVars
<1>6. CASE CameraEnds
  BY <1>6, Consts, MaxSpellIs
  DEF CameraEnds, LetGo, Waits, Saved, TypeOK, TriesLeft, Saved, runVars, watchVars, camVars, optionVars
<1>7. CASE SessionFails
  BY <1>7, Consts, MaxSpellIs
  DEF SessionFails, Waits, TypeOK, TriesLeft, Saved, runVars, watchVars, camVars, optionVars
<1>8. CASE WakeAgain
  BY <1>8, Consts, MaxSpellIs
  DEF WakeAgain, Waits, Opens, TypeOK, TriesLeft, Saved, runVars, watchVars, camVars, optionVars
<1>9. CASE NoMoreTries
  BY <1>9, Consts, MaxSpellIs
  DEF NoMoreTries, LetGo, Waits, Saved, TypeOK, TriesLeft, Saved, runVars, watchVars, camVars, optionVars
<1>10. CASE CooledDown
  BY <1>10, Consts, MaxSpellIs
  DEF CooledDown, Waits, TypeOK, TriesLeft, Saved, runVars, watchVars, camVars, optionVars
<1>11. CASE Returns
  BY <1>11, Consts, MaxSpellIs
  DEF Returns, Waits, TypeOK, TriesLeft, Saved, runVars, watchVars, camVars, optionVars
<1>12. CASE SearchLost
  BY <1>12, Consts, MaxSpellIs
  DEF SearchLost, StillOn, TypeOK, TriesLeft, Saved, runVars, watchVars, camVars, optionVars
<1>13. CASE Search
  BY <1>13, Consts, MaxSpellIs
  DEF Search, StillOn, TypeOK, TriesLeft, Saved, runVars, watchVars, camVars, optionVars
<1>14. CASE StoreMotion
  BY <1>14, Consts, MaxSpellIs
  DEF StoreMotion, TypeOK, TriesLeft, Saved, runVars, watchVars, camVars, optionVars
<1>15. CASE WatchReturns
  BY <1>15, Consts, MaxSpellIs
  DEF WatchReturns, TypeOK, TriesLeft, Saved, runVars, watchVars, camVars, optionVars
<1>16. CASE Subscribe
  BY <1>16, Consts, MaxSpellIs
  DEF Subscribe, Demand, TypeOK, TriesLeft, Saved, runVars, watchVars, camVars, optionVars
<1>17. CASE Leave
  BY <1>17, Consts, MaxSpellIs
  DEF Leave, TypeOK, TriesLeft, Saved, runVars, watchVars, camVars, optionVars
<1>18. CASE Motion
  BY <1>18, Consts, MaxSpellIs
  DEF Motion, Demand, TypeOK, TriesLeft, Saved, runVars, watchVars, camVars, optionVars
<1>19. CASE Cancel
  BY <1>19, Consts, MaxSpellIs
  DEF Cancel, TypeOK, TriesLeft, Saved, runVars, watchVars, camVars, optionVars
<1>20. CASE KeyframeComes
  BY <1>20, Consts, MaxSpellIs
  DEF KeyframeComes, TypeOK, TriesLeft, Saved, runVars, watchVars, camVars, optionVars
<1>21. CASE WakesItself
  BY <1>21, Consts, MaxSpellIs
  DEF WakesItself, Demand, TypeOK, TriesLeft, Saved, runVars, watchVars, camVars, optionVars
<1>22. CASE FallsAsleep
  BY <1>22, Consts, MaxSpellIs
  DEF FallsAsleep, TypeOK, TriesLeft, Saved, runVars, watchVars, camVars, optionVars
<1>23. CASE Tick
  <2>1. left' \in 0..StillTimeout + WakeCooldown + WakeRetry + StillWait
        /\ motion' \in 0..MotionHold + WakeMotionHold /\ until' \in 0..WakeMotionHold
    BY <1>23, Consts DEF Tick, Less, TypeOK
  <2>2. age' \in 0..WakeMax /\ ended' \in 0..WakeOursGrace
    BY <1>23, Consts DEF Tick, More, TypeOK
  <2>3. spell' \in 0..MaxSpell
    BY <1>23, MaxSpellIs DEF Tick, More, TypeOK
  <2>4. quiet' \in 0..WakeIdle
    <3>1. CASE phase = "awake" /\ ~Wanted
      <4>1. ~ (quiet >= WakeIdle)
        BY <1>23, <3>1 DEF Tick, Urgent, Limit
      <4> QED BY <1>23, <3>1, <4>1, Consts DEF Tick, TypeOK
    <3>2. CASE ~ (phase = "awake" /\ ~Wanted)
      BY <1>23, <3>2, Consts DEF Tick
    <3> QED BY <3>1, <3>2
  <2>5. watch' \in {"off", "due", "done", "store", "over"}
    BY <1>23 DEF Tick, TypeOK
  <2> QED BY <1>23, <2>1, <2>2, <2>3, <2>4, <2>5 DEF Tick, TypeOK, optionVars, camVars
<1>24. CASE UNCHANGED vars
  BY <1>24 DEF TypeOK, vars, runVars, watchVars, camVars, optionVars
<1> QED
  BY <1>1, <1>2, <1>3, <1>4, <1>5, <1>6, <1>7, <1>8, <1>9, <1>10, <1>11, <1>12,
     <1>13, <1>14, <1>15, <1>16, <1>17, <1>18, <1>19, <1>20, <1>21, <1>22, <1>23, <1>24 DEF Next, RunStep, WatchStep, Elsewhere

\* A session is begun only while there is a try left.
LEMMA TriesStep ==
  ASSUME TypeOK, TriesLeft, [Next]_vars
  PROVE  TriesLeft'
<1>1. CASE StillBegins
  BY <1>1, Consts
  DEF StillBegins, Waits, Opens, TypeOK, TriesLeft, runVars, watchVars, camVars, optionVars
<1>2. CASE StillEnds
  BY <1>2, Consts
  DEF StillEnds, Waits, Saved, TypeOK, TriesLeft, runVars, watchVars, camVars, optionVars
<1>3. CASE StillGivesUp
  BY <1>3, Consts
  DEF StillGivesUp, Waits, TypeOK, TriesLeft, runVars, watchVars, camVars, optionVars
<1>4. CASE Wake
  BY <1>4, Consts
  DEF Wake, Waits, Opens, TypeOK, TriesLeft, runVars, watchVars, camVars, optionVars
<1>5. CASE LimitReached
  BY <1>5, Consts
  DEF LimitReached, LetGo, Waits, Saved, TypeOK, TriesLeft, runVars, watchVars, camVars, optionVars
<1>6. CASE CameraEnds
  BY <1>6, Consts
  DEF CameraEnds, LetGo, Waits, Saved, TypeOK, TriesLeft, runVars, watchVars, camVars, optionVars
<1>7. CASE SessionFails
  BY <1>7, Consts
  DEF SessionFails, Waits, TypeOK, TriesLeft, runVars, watchVars, camVars, optionVars
<1>8. CASE WakeAgain
  BY <1>8, Consts
  DEF WakeAgain, Waits, Opens, TypeOK, TriesLeft, runVars, watchVars, camVars, optionVars
<1>9. CASE NoMoreTries
  BY <1>9, Consts
  DEF NoMoreTries, LetGo, Waits, Saved, TypeOK, TriesLeft, runVars, watchVars, camVars, optionVars
<1>10. CASE CooledDown
  BY <1>10, Consts
  DEF CooledDown, Waits, TypeOK, TriesLeft, runVars, watchVars, camVars, optionVars
<1>11. CASE Returns
  BY <1>11, Consts
  DEF Returns, Waits, TypeOK, TriesLeft, runVars, watchVars, camVars, optionVars
<1>12. CASE SearchLost
  BY <1>12, Consts
  DEF SearchLost, StillOn, TypeOK, TriesLeft, runVars, watchVars, camVars, optionVars
<1>13. CASE Search
  BY <1>13, Consts
  DEF Search, StillOn, TypeOK, TriesLeft, runVars, watchVars, camVars, optionVars
<1>14. CASE StoreMotion
  BY <1>14, Consts
  DEF StoreMotion, TypeOK, TriesLeft, runVars, watchVars, camVars, optionVars
<1>15. CASE WatchReturns
  BY <1>15, Consts
  DEF WatchReturns, TypeOK, TriesLeft, runVars, watchVars, camVars, optionVars
<1>16. CASE Subscribe
  BY <1>16, Consts
  DEF Subscribe, Demand, TypeOK, TriesLeft, runVars, watchVars, camVars, optionVars
<1>17. CASE Leave
  BY <1>17, Consts
  DEF Leave, TypeOK, TriesLeft, runVars, watchVars, camVars, optionVars
<1>18. CASE Motion
  BY <1>18, Consts
  DEF Motion, Demand, TypeOK, TriesLeft, runVars, watchVars, camVars, optionVars
<1>19. CASE Cancel
  BY <1>19, Consts
  DEF Cancel, TypeOK, TriesLeft, runVars, watchVars, camVars, optionVars
<1>20. CASE KeyframeComes
  BY <1>20, Consts
  DEF KeyframeComes, TypeOK, TriesLeft, runVars, watchVars, camVars, optionVars
<1>21. CASE WakesItself
  BY <1>21, Consts
  DEF WakesItself, Demand, TypeOK, TriesLeft, runVars, watchVars, camVars, optionVars
<1>22. CASE FallsAsleep
  BY <1>22, Consts
  DEF FallsAsleep, TypeOK, TriesLeft, runVars, watchVars, camVars, optionVars
<1>23. CASE Tick
  BY <1>23, Consts
  DEF Tick, TypeOK, TriesLeft, runVars, watchVars, camVars, optionVars
<1>24. CASE UNCHANGED vars
  BY <1>24 DEF TriesLeft, vars, runVars, watchVars, camVars, optionVars
<1> QED
  BY <1>1, <1>2, <1>3, <1>4, <1>5, <1>6, <1>7, <1>8, <1>9, <1>10, <1>11, <1>12,
     <1>13, <1>14, <1>15, <1>16, <1>17, <1>18, <1>19, <1>20, <1>21, <1>22, <1>23, <1>24 DEF Next, RunStep, WatchStep, Elsewhere

\* The watcher ends with its report taken back, and says nothing after.
LEMMA RetractedStep ==
  ASSUME TypeOK, Retracted, [Next]_vars
  PROVE  Retracted'
<1>1. CASE StillBegins
  BY <1>1
  DEF StillBegins, Waits, Opens, TypeOK, Retracted, runVars, watchVars, camVars, optionVars
<1>2. CASE StillEnds
  BY <1>2
  DEF StillEnds, Waits, Saved, TypeOK, Retracted, runVars, watchVars, camVars, optionVars
<1>3. CASE StillGivesUp
  BY <1>3
  DEF StillGivesUp, Waits, TypeOK, Retracted, runVars, watchVars, camVars, optionVars
<1>4. CASE Wake
  BY <1>4
  DEF Wake, Waits, Opens, TypeOK, Retracted, runVars, watchVars, camVars, optionVars
<1>5. CASE LimitReached
  BY <1>5
  DEF LimitReached, LetGo, Waits, Saved, TypeOK, Retracted, runVars, watchVars, camVars, optionVars
<1>6. CASE CameraEnds
  BY <1>6
  DEF CameraEnds, LetGo, Waits, Saved, TypeOK, Retracted, runVars, watchVars, camVars, optionVars
<1>7. CASE SessionFails
  BY <1>7
  DEF SessionFails, Waits, TypeOK, Retracted, runVars, watchVars, camVars, optionVars
<1>8. CASE WakeAgain
  BY <1>8
  DEF WakeAgain, Waits, Opens, TypeOK, Retracted, runVars, watchVars, camVars, optionVars
<1>9. CASE NoMoreTries
  BY <1>9
  DEF NoMoreTries, LetGo, Waits, Saved, TypeOK, Retracted, runVars, watchVars, camVars, optionVars
<1>10. CASE CooledDown
  BY <1>10
  DEF CooledDown, Waits, TypeOK, Retracted, runVars, watchVars, camVars, optionVars
<1>11. CASE Returns
  BY <1>11
  DEF Returns, Waits, TypeOK, Retracted, runVars, watchVars, camVars, optionVars
<1>12. CASE SearchLost
  BY <1>12
  DEF SearchLost, StillOn, TypeOK, Retracted, runVars, watchVars, camVars, optionVars
<1>13. CASE Search
  BY <1>13
  DEF Search, StillOn, TypeOK, Retracted, runVars, watchVars, camVars, optionVars
<1>14. CASE StoreMotion
  BY <1>14
  DEF StoreMotion, TypeOK, Retracted, runVars, watchVars, camVars, optionVars
<1>15. CASE WatchReturns
  BY <1>15
  DEF WatchReturns, TypeOK, Retracted, runVars, watchVars, camVars, optionVars
<1>16. CASE Subscribe
  BY <1>16
  DEF Subscribe, Demand, TypeOK, Retracted, runVars, watchVars, camVars, optionVars
<1>17. CASE Leave
  BY <1>17
  DEF Leave, TypeOK, Retracted, runVars, watchVars, camVars, optionVars
<1>18. CASE Motion
  BY <1>18
  DEF Motion, Demand, TypeOK, Retracted, runVars, watchVars, camVars, optionVars
<1>19. CASE Cancel
  BY <1>19
  DEF Cancel, TypeOK, Retracted, runVars, watchVars, camVars, optionVars
<1>20. CASE KeyframeComes
  BY <1>20
  DEF KeyframeComes, TypeOK, Retracted, runVars, watchVars, camVars, optionVars
<1>21. CASE WakesItself
  BY <1>21
  DEF WakesItself, Demand, TypeOK, Retracted, runVars, watchVars, camVars, optionVars
<1>22. CASE FallsAsleep
  BY <1>22
  DEF FallsAsleep, TypeOK, Retracted, runVars, watchVars, camVars, optionVars
<1>23. CASE Tick
  BY <1>23
  DEF Tick, TypeOK, Retracted, runVars, watchVars, camVars, optionVars
<1>24. CASE UNCHANGED vars
  BY <1>24 DEF Retracted, vars, runVars, watchVars, camVars, optionVars
<1> QED
  BY <1>1, <1>2, <1>3, <1>4, <1>5, <1>6, <1>7, <1>8, <1>9, <1>10, <1>11, <1>12,
     <1>13, <1>14, <1>15, <1>16, <1>17, <1>18, <1>19, <1>20, <1>21, <1>22, <1>23, <1>24 DEF Next, RunStep, WatchStep, Elsewhere

\* What the watcher knows is made stale only by a search lost.
LEMMA KnowsStep ==
  ASSUME TypeOK, KnowsInTime, [Next]_vars
  PROVE  KnowsInTime'
<1>1. CASE StillBegins
  BY <1>1, Consts
  DEF StillBegins, Waits, Opens, TypeOK, KnowsInTime, InSession, More, Urgent, runVars, watchVars, camVars, optionVars
<1>2. CASE StillEnds
  BY <1>2, Consts
  DEF StillEnds, Waits, Saved, TypeOK, KnowsInTime, InSession, More, Urgent, runVars, watchVars, camVars, optionVars
<1>3. CASE StillGivesUp
  BY <1>3, Consts
  DEF StillGivesUp, Waits, TypeOK, KnowsInTime, InSession, More, Urgent, runVars, watchVars, camVars, optionVars
<1>4. CASE Wake
  BY <1>4, Consts
  DEF Wake, Waits, Opens, TypeOK, KnowsInTime, InSession, More, Urgent, runVars, watchVars, camVars, optionVars
<1>5. CASE LimitReached
  BY <1>5, Consts
  DEF LimitReached, LetGo, Waits, Saved, TypeOK, KnowsInTime, InSession, More, Urgent, runVars, watchVars, camVars, optionVars
<1>6. CASE CameraEnds
  BY <1>6, Consts
  DEF CameraEnds, LetGo, Waits, Saved, TypeOK, KnowsInTime, InSession, More, Urgent, runVars, watchVars, camVars, optionVars
<1>7. CASE SessionFails
  BY <1>7, Consts
  DEF SessionFails, Waits, TypeOK, KnowsInTime, InSession, More, Urgent, runVars, watchVars, camVars, optionVars
<1>8. CASE WakeAgain
  BY <1>8, Consts
  DEF WakeAgain, Waits, Opens, TypeOK, KnowsInTime, InSession, More, Urgent, runVars, watchVars, camVars, optionVars
<1>9. CASE NoMoreTries
  BY <1>9, Consts
  DEF NoMoreTries, LetGo, Waits, Saved, TypeOK, KnowsInTime, InSession, More, Urgent, runVars, watchVars, camVars, optionVars
<1>10. CASE CooledDown
  BY <1>10, Consts
  DEF CooledDown, Waits, TypeOK, KnowsInTime, InSession, More, Urgent, runVars, watchVars, camVars, optionVars
<1>11. CASE Returns
  BY <1>11, Consts
  DEF Returns, Waits, TypeOK, KnowsInTime, InSession, More, Urgent, runVars, watchVars, camVars, optionVars
<1>12. CASE SearchLost
  BY <1>12, Consts
  DEF SearchLost, StillOn, TypeOK, KnowsInTime, InSession, More, Urgent, runVars, watchVars, camVars, optionVars
<1>13. CASE Search
  BY <1>13, Consts
  DEF Search, StillOn, TypeOK, KnowsInTime, InSession, More, Urgent, runVars, watchVars, camVars, optionVars
<1>14. CASE StoreMotion
  BY <1>14, Consts
  DEF StoreMotion, TypeOK, KnowsInTime, InSession, More, Urgent, runVars, watchVars, camVars, optionVars
<1>15. CASE WatchReturns
  BY <1>15, Consts
  DEF WatchReturns, TypeOK, KnowsInTime, InSession, More, Urgent, runVars, watchVars, camVars, optionVars
<1>16. CASE Subscribe
  BY <1>16, Consts
  DEF Subscribe, Demand, TypeOK, KnowsInTime, InSession, More, Urgent, runVars, watchVars, camVars, optionVars
<1>17. CASE Leave
  BY <1>17, Consts
  DEF Leave, TypeOK, KnowsInTime, InSession, More, Urgent, runVars, watchVars, camVars, optionVars
<1>18. CASE Motion
  BY <1>18, Consts
  DEF Motion, Demand, TypeOK, KnowsInTime, InSession, More, Urgent, runVars, watchVars, camVars, optionVars
<1>19. CASE Cancel
  BY <1>19, Consts
  DEF Cancel, TypeOK, KnowsInTime, InSession, More, Urgent, runVars, watchVars, camVars, optionVars
<1>20. CASE KeyframeComes
  BY <1>20, Consts
  DEF KeyframeComes, TypeOK, KnowsInTime, InSession, More, Urgent, runVars, watchVars, camVars, optionVars
<1>21. CASE WakesItself
  BY <1>21, Consts
  DEF WakesItself, Demand, TypeOK, KnowsInTime, InSession, More, Urgent, runVars, watchVars, camVars, optionVars
<1>22. CASE FallsAsleep
  BY <1>22, Consts
  DEF FallsAsleep, TypeOK, KnowsInTime, InSession, More, Urgent, runVars, watchVars, camVars, optionVars
<1>23. CASE Tick
  BY <1>23, Consts
  DEF Tick, TypeOK, KnowsInTime, InSession, More, Urgent, runVars, watchVars, camVars, optionVars
<1>24. CASE UNCHANGED vars
  BY <1>24 DEF KnowsInTime, InSession, vars, runVars, watchVars, camVars, optionVars
<1> QED
  BY <1>1, <1>2, <1>3, <1>4, <1>5, <1>6, <1>7, <1>8, <1>9, <1>10, <1>11, <1>12,
     <1>13, <1>14, <1>15, <1>16, <1>17, <1>18, <1>19, <1>20, <1>21, <1>22, <1>23, <1>24 DEF Next, RunStep, WatchStep, Elsewhere

\* Each try adds at most wakeMax to the spell.
LEMMA HeldStep ==
  ASSUME TypeOK, HeldAtMost, [Next]_vars
  PROVE  HeldAtMost'
<1>1. CASE StillBegins
  BY <1>1
  DEF StillBegins, Waits, Opens, HeldAtMost, TypeOK, runVars, watchVars, camVars, optionVars
<1>2. CASE StillEnds
  BY <1>2
  DEF StillEnds, Waits, Saved, HeldAtMost, TypeOK, runVars, watchVars, camVars, optionVars
<1>3. CASE StillGivesUp
  BY <1>3
  DEF StillGivesUp, Waits, HeldAtMost, TypeOK, runVars, watchVars, camVars, optionVars
<1>4. CASE Wake
  <2>1. phase' = "awake" /\ spell' = 0 /\ tries' = 0 /\ age' = 0
    BY <1>4 DEF Wake, Waits, Opens
  <2>2. 0 * WakeMax = 0
    BY Consts, Times1
  <2> QED BY <2>1, <2>2 DEF HeldAtMost
<1>5. CASE LimitReached
  BY <1>5
  DEF LimitReached, LetGo, Waits, Saved, HeldAtMost, TypeOK, runVars, watchVars, camVars, optionVars
<1>6. CASE CameraEnds
  BY <1>6
  DEF CameraEnds, LetGo, Waits, Saved, HeldAtMost, TypeOK, runVars, watchVars, camVars, optionVars
<1>7. CASE SessionFails
  <2>1. tries' = tries + 1 /\ phase' = "retry" /\ UNCHANGED <<always, spell>> /\ phase = "awake"
    BY <1>7 DEF SessionFails, Waits, optionVars
  <2>2. tries \in Nat /\ WakeMax \in Nat /\ age \in Nat /\ age <= WakeMax /\ spell \in Nat
    BY Consts DEF TypeOK
  <2>3. tries * WakeMax \in Nat /\ (tries + 1) * WakeMax = tries * WakeMax + WakeMax
    BY <2>2, Times1
  <2> DEFINE t == tries * WakeMax
  <2>4. always = "no" => spell <= t + age
    BY <2>1 DEF HeldAtMost
  <2>5. tries' * WakeMax = t + WakeMax
    BY <2>1, <2>3
  <2>6. t \in Nat
    BY <2>3
  <2> HIDE DEF t
  <2>7. always = "no" => spell <= t + WakeMax
    BY <2>2, <2>4, <2>6
  <2> QED BY <2>1, <2>5, <2>7 DEF HeldAtMost
<1>8. CASE WakeAgain
  <2>1. phase = "retry" /\ phase' = "awake" /\ age' = 0 /\ UNCHANGED <<always, spell, tries>>
    BY <1>8 DEF WakeAgain, Waits, Opens, optionVars
  <2>2. tries * WakeMax \in Nat
    <3>1. tries \in Nat /\ WakeMax \in Nat
      BY Consts DEF TypeOK
    <3> QED BY <3>1, Times1
  <2> DEFINE t == tries * WakeMax
  <2>3. always = "no" => spell <= t
    BY <2>1 DEF HeldAtMost
  <2>4. tries' * WakeMax = t /\ t \in Nat
    BY <2>1, <2>2
  <2> HIDE DEF t
  <2>5. always = "no" => spell' <= t + age'
    BY <2>1, <2>3, <2>4
  <2> QED BY <2>1, <2>4, <2>5 DEF HeldAtMost
<1>9. CASE NoMoreTries
  BY <1>9
  DEF NoMoreTries, LetGo, Waits, Saved, HeldAtMost, TypeOK, runVars, watchVars, camVars, optionVars
<1>10. CASE CooledDown
  BY <1>10
  DEF CooledDown, Waits, HeldAtMost, TypeOK, runVars, watchVars, camVars, optionVars
<1>11. CASE Returns
  BY <1>11
  DEF Returns, Waits, HeldAtMost, TypeOK, runVars, watchVars, camVars, optionVars
<1>12. CASE SearchLost
  BY <1>12
  DEF SearchLost, StillOn, HeldAtMost, TypeOK, runVars, watchVars, camVars, optionVars
<1>13. CASE Search
  BY <1>13
  DEF Search, StillOn, HeldAtMost, TypeOK, runVars, watchVars, camVars, optionVars
<1>14. CASE StoreMotion
  BY <1>14
  DEF StoreMotion, HeldAtMost, TypeOK, runVars, watchVars, camVars, optionVars
<1>15. CASE WatchReturns
  BY <1>15
  DEF WatchReturns, HeldAtMost, TypeOK, runVars, watchVars, camVars, optionVars
<1>16. CASE Subscribe
  BY <1>16
  DEF Subscribe, Demand, HeldAtMost, TypeOK, runVars, watchVars, camVars, optionVars
<1>17. CASE Leave
  BY <1>17
  DEF Leave, HeldAtMost, TypeOK, runVars, watchVars, camVars, optionVars
<1>18. CASE Motion
  BY <1>18
  DEF Motion, Demand, HeldAtMost, TypeOK, runVars, watchVars, camVars, optionVars
<1>19. CASE Cancel
  BY <1>19
  DEF Cancel, HeldAtMost, TypeOK, runVars, watchVars, camVars, optionVars
<1>20. CASE KeyframeComes
  BY <1>20
  DEF KeyframeComes, HeldAtMost, TypeOK, runVars, watchVars, camVars, optionVars
<1>21. CASE WakesItself
  BY <1>21
  DEF WakesItself, Demand, HeldAtMost, TypeOK, runVars, watchVars, camVars, optionVars
<1>22. CASE FallsAsleep
  BY <1>22
  DEF FallsAsleep, HeldAtMost, TypeOK, runVars, watchVars, camVars, optionVars
<1>23. CASE Tick
  <2>1. CASE always = "no" /\ phase = "awake"
    <3>1. ~ (age >= WakeMax)
      BY <1>23, <2>1 DEF Tick, Urgent, Limit
    <3>2. age' = age + 1 /\ UNCHANGED <<always, phase, tries>>
      BY <1>23, <2>1, <3>1, Consts DEF Tick, More, TypeOK, optionVars
    <3>3. spell' <= spell + 1 /\ spell' \in Nat
      BY <1>23, <2>1, MaxSpellIs DEF Tick, More, TypeOK
    <3>4. tries * WakeMax \in Nat
      <4>1. tries \in Nat /\ WakeMax \in Nat
        BY Consts DEF TypeOK
      <4> QED BY <4>1, Times1
    <3> DEFINE t == tries * WakeMax
    <3>5. spell <= t + age
      BY <2>1 DEF HeldAtMost
    <3>6. tries' * WakeMax = t
      BY <3>2
    <3> HIDE DEF t
    <3>7. spell' <= t + age'
      <4>1. spell \in Nat /\ age \in Nat
        BY DEF TypeOK
      <4> QED BY <3>2, <3>3, <3>4, <3>5, <4>1 DEF t
    <3> QED BY <2>1, <3>2, <3>6, <3>7 DEF HeldAtMost
  <2>2. CASE ~ (always = "no" /\ phase = "awake")
    BY <1>23, <2>2 DEF Tick, HeldAtMost, optionVars
  <2> QED BY <2>1, <2>2
<1>24. CASE UNCHANGED vars
  BY <1>24 DEF HeldAtMost, vars, runVars, watchVars, camVars, optionVars
<1> QED
  BY <1>1, <1>2, <1>3, <1>4, <1>5, <1>6, <1>7, <1>8, <1>9, <1>10, <1>11, <1>12,
     <1>13, <1>14, <1>15, <1>16, <1>17, <1>18, <1>19, <1>20, <1>21, <1>22, <1>23, <1>24 DEF Next, RunStep, WatchStep, Elsewhere

\* The invariant holds of every reachable state.
LEMMA Invariant == Spec => []IInv
<1>1. IInv /\ [Next]_vars => IInv'
  BY TypesStep, TriesStep, RetractedStep, KnowsStep, HeldStep DEF IInv
<1> QED BY <1>1, InitInv, PTL DEF Spec

-----------------------------------------------------------------------------
(* The theorems *)

\* Every variable of an on-demand stream keeps its type (the ages and the idle
\* time count no further than their limits: what ends at a limit is not said
\* here but by HeldAtMost).
THEOREM TypeCorrect == Spec => []TypeOK
<1>1. IInv => TypeOK
  BY DEF IInv
<1> QED BY <1>1, Invariant, PTL

\* However often its sessions fail, one demand holds a battery camera awake
\* for at most wakeMax a try (runOnDemand).
THEOREM HeldAtMostCorrect == Spec => []HeldAtMost
<1>1. IInv => HeldAtMost
  BY DEF IInv
<1> QED BY <1>1, Invariant, PTL

\* Motion is told only of a camera that woke by itself, never of one a session
\* of ours woke, whatever searches are lost and whenever sessions end; and
\* the report is over when the watcher is (watchWakes).
THEOREM ToldTruthCorrect == Spec => ToldTruth
<1> DEFINE Tells == told = "off" /\ told' = "on" => itself = "yes"
           Ends == watch' = "over" => told' = "off"
<1>1. IInv /\ [Next]_vars => Tells
  <2> SUFFICES ASSUME IInv, [Next]_vars, told = "off", told' = "on" PROVE itself = "yes"
    OBVIOUS
  <2>1. SearchLost \/ Search \/ WatchReturns
    BY DEF Next, RunStep, Elsewhere, WatchStep, vars, watchVars, StillBegins, StillEnds,
      StillGivesUp, Wake, LimitReached, CameraEnds, SessionFails, WakeAgain, NoMoreTries,
      CooledDown, Returns, StoreMotion, Subscribe, Leave, Motion, Cancel, KeyframeComes,
      WakesItself, FallsAsleep, Tick
  <2>2. Search /\ known = "asleep" /\ cam = "awake" /\ ~Ours
    BY <2>1 DEF SearchLost, Search, WatchReturns, StillOn
  <2>3. ~InSession /\ ended >= WakeOursGrace /\ watch = "due"
    BY <2>2, Consts DEF Ours, Search, IInv, TypeOK
  <2>4. itself = "no" => ended <= lost + 1
    BY <2>2, <2>3 DEF IInv, KnowsInTime
  <2>5. lost + 1 < WakeOursGrace
    BY Consts, GraceOutlastsLosses DEF IInv, TypeOK
  <2> QED BY <2>3, <2>4, <2>5, Consts DEF IInv, TypeOK
<1>2. IInv /\ [Next]_vars => Ends
  BY RetractedStep DEF IInv, Retracted
<1> QED BY <1>1, <1>2, Invariant, PTL DEF Spec, ToldTruth

-----------------------------------------------------------------------------
(* The FTP server. *)

FtpSessions == [at : {"gone", "hello", "in", "data", "copy", "closed"}, pasv : Int, port : BOOLEAN,
                name : Files \cup {None}, from : Files \cup {None}, add : BOOLEAN,
                up : Nat, file : Nat, off : Nat]

FtpTypes ==
  /\ ftp \in [Clients -> FtpSessions]
  /\ next \in Int
  /\ lent \in [Ports -> SUBSET Clients]
  /\ disk \in [Files -> Nat] /\ stored \in [Files -> Nat]
  /\ bytes \in Seq(Seq(Nat)) /\ sent \in Seq(Int)
  /\ \A f \in Files : disk[f] <= Len(bytes) /\ stored[f] <= Len(sent)

Writes(c) == ftp[c].at \in {"copy", "closed"}
On(c, f) == Writes(c) /\ (ftp[c].name = f \/ (disk[f] # 0 /\ ftp[c].file = disk[f]))

\* A port that is open is the one its connection waits at.
PortsLent == \A p \in Ports : \A c \in lent[p] : lent[p] = {c} /\ ftp[c].pasv = p /\ ftp[c].at # "gone"

\* What a connection that uploads is at.
UploadAt(c) ==
  /\ Writes(c) => /\ ftp[c].up \in 1..Len(sent) /\ ftp[c].file \in 1..Len(bytes) /\ ftp[c].name \in Files
                  /\ ftp[c].pasv = 0
  /\ ftp[c].at = "copy" => sent[ftp[c].up] = -1
  /\ ~Writes(c) => ftp[c].off = 0
  /\ ftp[c].at = "data" => ftp[c].name \in Files

\* No two names have one file, and no two uploads one number.
FtpPlain ==
  /\ \A f, g \in Files : disk[f] # 0 /\ disk[f] = disk[g] => f = g
  /\ \A c \in Clients : UploadAt(c)
  /\ \A c, d \in Clients : Writes(c) /\ Writes(d) /\ ftp[c].up = ftp[d].up => c = d

\* A file on the disk is that of the one upload that is on it, so far, or of one that ended.
FileTidy(f) ==
  /\ \A c, d \in Clients : On(c, f) /\ On(d, f) => c = d
  /\ \A c \in Clients : On(c, f) =>
        /\ ftp[c].name = f /\ ftp[c].file = disk[f]
        /\ ftp[c].at = "copy" => bytes[disk[f]] = [i \in 1..ftp[c].off |-> ftp[c].up] /\ stored[f] = 0
        /\ ftp[c].at = "closed" => TheFtp!IsOf(disk[f], ftp[c].up)
  /\ (\A c \in Clients : ~On(c, f)) => \E up \in 1..Len(sent) : TheFtp!IsOf(disk[f], up)

NameTidy(f) ==
  /\ stored[f] # 0 => disk[f] # 0 /\ TheFtp!IsOf(disk[f], stored[f])
  /\ disk[f] # 0 => FileTidy(f)

FtpInv == FtpTypes /\ PortsLent /\ FtpPlain /\ \A f \in Files \ tangled : NameTidy(f)

\* Nothing is uploaded at first.
LEMMA FtpInit == ASSUME TheFtp!Init PROVE FtpInv
<1>1. /\ ftp = [c \in Clients |-> TheFtp!Gone] /\ next = 1 /\ lent = [p \in Ports |-> {}]
      /\ disk = [f \in Files |-> 0] /\ bytes = <<>> /\ sent = <<>> /\ stored = [f \in Files |-> 0] /\ tangled = {}
  BY DEF TheFtp!Init
<1>2. TheFtp!Gone \in FtpSessions /\ TheFtp!Gone.at = "gone" /\ TheFtp!Gone.off = 0
  BY DEF TheFtp!Gone, FtpSessions
<1>3. bytes \in Seq(Seq(Nat)) /\ sent \in Seq(Int) /\ Len(bytes) = 0 /\ Len(sent) = 0
  BY <1>1
<1>4. FtpTypes
  BY <1>1, <1>2, <1>3 DEF FtpTypes
<1>5. PortsLent
  BY <1>1 DEF PortsLent
<1>6. FtpPlain
  BY <1>1, <1>2 DEF FtpPlain, UploadAt, Writes
<1>7. \A f \in Files : NameTidy(f)
  BY <1>1 DEF NameTidy
<1> QED BY <1>4, <1>5, <1>6, <1>7 DEF FtpInv

\* Of a set of numbers, the first is one.
LEMMA FirstOf ==
  ASSUME NEW T, T \subseteq Nat, T # {}
  PROVE  \E n \in T : \A m \in T : n <= m
<1> DEFINE less == OpToRel(<, Nat)
<1>1. IsWellFoundedOn(less, Nat)
  BY NatLessThanWellFounded
<1>2. \A n, m \in Nat : n < m => <<n, m>> \in less
  BY DEF OpToRel
<1> HIDE DEF less
<1>3. PICK n \in T : \A m \in T : ~(<<m, n>> \in less)
  BY <1>1, WFMin
<1>4. ASSUME NEW m \in T PROVE n <= m
  <2>1. n \in Nat /\ m \in Nat /\ ~(m < n)
    BY <1>2, <1>3
  <2> QED BY <2>1
<1> QED BY <1>4

\* What a connection is at can be read off the invariant one at a time.
LEMMA FtpReads ==
  ASSUME FtpInv, NEW c \in Clients
  PROVE  /\ ftp[c] \in FtpSessions /\ UploadAt(c)
         /\ lent \in [Ports -> SUBSET Clients] /\ ftp \in [Clients -> FtpSessions]
         /\ disk \in [Files -> Nat] /\ stored \in [Files -> Nat]
         /\ bytes \in Seq(Seq(Nat)) /\ sent \in Seq(Int) /\ Len(bytes) \in Nat /\ Len(sent) \in Nat
  BY DEF FtpInv, FtpTypes, FtpPlain

\* Ports stay lent to the one that waits there if a connection keeps its own, or closes it.
LEMMA LentKept ==
  ASSUME FtpInv, NEW c \in Clients, NEW r \in FtpSessions, ftp' = [ftp EXCEPT ![c] = r],
         lent' = TheFtp!Closed(c) \/ (lent' = lent /\ r.pasv = ftp[c].pasv /\ r.at # "gone")
  PROVE  PortsLent' /\ lent' \in [Ports -> SUBSET Clients] /\ ftp' \in [Clients -> FtpSessions]
<1>1. lent \in [Ports -> SUBSET Clients] /\ ftp \in [Clients -> FtpSessions] /\ PortsLent
  BY DEF FtpInv, FtpTypes
<1>2. CASE lent' = TheFtp!Closed(c)
  <2>1. ASSUME NEW p \in Ports PROVE lent'[p] \in SUBSET Clients /\ lent'[p] = lent[p] \ IF ftp[c].pasv = p THEN {c} ELSE {}
    BY <1>1, <1>2 DEF TheFtp!Closed
  <2>2. lent' \in [Ports -> SUBSET Clients]
    BY <1>2, <2>1 DEF TheFtp!Closed
  <2>3. ASSUME NEW p \in Ports, NEW d \in lent'[p] PROVE lent'[p] = {d} /\ ftp'[d].pasv = p /\ ftp'[d].at # "gone"
    <3>1. d \in lent[p] /\ lent[p] = {d} /\ ftp[d].pasv = p /\ ftp[d].at # "gone" /\ d \in Clients
      BY <1>1, <2>1, <2>3 DEF PortsLent
    <3>2. d # c
      BY <2>1, <2>3, <3>1
    <3> QED BY <1>1, <2>1, <2>3, <3>1, <3>2
  <2> QED BY <1>1, <2>2, <2>3 DEF PortsLent
<1>3. CASE lent' = lent /\ r.pasv = ftp[c].pasv /\ r.at # "gone"
  <2>1. ASSUME NEW p \in Ports, NEW d \in lent[p] PROVE lent[p] = {d} /\ ftp'[d].pasv = p /\ ftp'[d].at # "gone"
    BY <1>1, <1>3, <2>1 DEF PortsLent
  <2> QED BY <1>1, <1>3, <2>1 DEF PortsLent
<1> QED BY <1>2, <1>3

\* A name whose file nobody touches stays tidy.
LEMMA NameKept ==
  ASSUME FtpInv, NEW f \in Files, f \notin tangled,
         disk'[f] = disk[f], stored'[f] = stored[f], disk[f] # 0 => bytes'[disk[f]] = bytes[disk[f]],
         disk[f] # 0 => \A c \in Clients : /\ On(c, f)' <=> On(c, f)
                                           /\ On(c, f) => /\ ftp'[c].at = ftp[c].at /\ ftp'[c].name = ftp[c].name
                                                          /\ ftp'[c].file = ftp[c].file /\ ftp'[c].up = ftp[c].up
                                                          /\ ftp'[c].off = ftp[c].off,
         Len(sent') \in Nat, Len(sent') >= Len(sent),
         \A u \in 1..Len(sent) : sent[u] >= 0 => sent'[u] = sent[u]
  PROVE  NameTidy(f)'
<1>1. NameTidy(f) /\ disk[f] \in Nat /\ stored[f] \in 0..Len(sent) /\ Len(sent) \in Nat
  BY DEF FtpInv, FtpTypes
<1>2. ASSUME disk[f] # 0, NEW u \in 1..Len(sent), TheFtp!IsOf(disk[f], u) PROVE TheFtp!IsOf(disk[f], u)'
  BY <1>2 DEF TheFtp!IsOf
<1>3. CASE disk[f] = 0
  BY <1>1, <1>3 DEF NameTidy
<1>4. CASE disk[f] # 0
  <2>1. stored'[f] # 0 => TheFtp!IsOf(disk[f], stored[f])'
    <3> SUFFICES ASSUME stored[f] # 0 PROVE TheFtp!IsOf(disk[f], stored[f])'
      OBVIOUS
    <3>1. TheFtp!IsOf(disk[f], stored[f]) /\ stored[f] \in 1..Len(sent)
      BY <1>1 DEF NameTidy
    <3>2. PICK u \in 1..Len(sent) : u = stored[f]
      BY <3>1
    <3>3. TheFtp!IsOf(disk[f], u)'
      BY <1>2, <1>4, <3>1, <3>2
    <3> QED BY <3>2, <3>3 DEF TheFtp!IsOf
  <2>2. FileTidy(f)
    BY <1>1, <1>4 DEF NameTidy
  <2>3. ASSUME NEW c \in Clients, NEW d \in Clients, On(c, f)', On(d, f)' PROVE c = d
    BY <1>4, <2>2, <2>3 DEF FileTidy
  <2>4. ASSUME NEW c \in Clients, On(c, f)'
        PROVE  /\ ftp'[c].name = f /\ ftp'[c].file = disk'[f]
               /\ ftp'[c].at = "copy" => bytes'[disk'[f]] = [i \in 1..ftp'[c].off |-> ftp'[c].up] /\ stored'[f] = 0
               /\ ftp'[c].at = "closed" => TheFtp!IsOf(disk[f], ftp[c].up)'
    <3>1. /\ On(c, f) /\ ftp'[c].at = ftp[c].at /\ ftp'[c].name = ftp[c].name
          /\ ftp'[c].file = ftp[c].file /\ ftp'[c].up = ftp[c].up /\ ftp'[c].off = ftp[c].off
      BY <1>4, <2>4
    <3>2. /\ ftp[c].name = f /\ ftp[c].file = disk[f]
          /\ ftp[c].at = "copy" => bytes[disk[f]] = [i \in 1..ftp[c].off |-> ftp[c].up] /\ stored[f] = 0
          /\ ftp[c].at = "closed" => TheFtp!IsOf(disk[f], ftp[c].up)
      BY <2>2, <3>1 DEF FileTidy
    <3>3. ftp[c].up \in 1..Len(sent)
      BY <3>1, FtpReads DEF UploadAt, On
    <3>4. ftp[c].at = "closed" => TheFtp!IsOf(disk[f], ftp[c].up)'
      <4>1. PICK u \in 1..Len(sent) : u = ftp[c].up
        BY <3>3
      <4>2. ftp[c].at = "closed" => TheFtp!IsOf(disk[f], u)'
        BY <1>2, <1>4, <3>2, <4>1
      <4> QED BY <3>1, <4>1, <4>2 DEF TheFtp!IsOf
    <3> QED BY <1>4, <3>1, <3>2, <3>4
  <2>5. ASSUME \A c \in Clients : ~On(c, f)' PROVE \E u \in 1..Len(sent') : TheFtp!IsOf(disk[f], u)'
    <3>1. \A c \in Clients : ~On(c, f)
      BY <1>4, <2>5
    <3>2. PICK u \in 1..Len(sent) : TheFtp!IsOf(disk[f], u)
      BY <2>2, <3>1 DEF FileTidy
    <3>3. TheFtp!IsOf(disk[f], u)' /\ u \in 1..Len(sent')
      BY <1>1, <1>2, <1>4, <3>2
    <3> QED BY <3>3
  <2>6. FileTidy(f)'
    BY <2>3, <2>4, <2>5 DEF FileTidy, TheFtp!IsOf
  <2> QED BY <1>4, <2>1, <2>6 DEF NameTidy, TheFtp!IsOf
<1> QED BY <1>3, <1>4

\* A connection that uploads nothing, before or after, disturbs no file.
LEMMA FtpQuiet ==
  ASSUME FtpInv, NEW c \in Clients, NEW r \in FtpSessions, ftp' = [ftp EXCEPT ![c] = r],
         ~Writes(c), r.at \notin {"copy", "closed"}, r.off = 0, r.at = "data" => r.name \in Files,
         PortsLent', lent' \in [Ports -> SUBSET Clients], next' \in Int,
         UNCHANGED <<disk, bytes, sent, stored, tangled>>
  PROVE  FtpInv'
<1>1. ftp \in [Clients -> FtpSessions] /\ FtpTypes /\ FtpPlain
  BY DEF FtpInv, FtpTypes
<1>2. FtpTypes'
  BY <1>1 DEF FtpTypes
<1>3. ASSUME NEW d \in Clients PROVE Writes(d)' <=> Writes(d)
  BY <1>1 DEF Writes
<1>4. ASSUME NEW d \in Clients, Writes(d) PROVE d # c /\ ftp'[d] = ftp[d]
  BY <1>1, <1>4
<1>5. ASSUME NEW d \in Clients PROVE UploadAt(d)'
  <2>1. UploadAt(d)
    BY <1>1 DEF FtpPlain
  <2>2. CASE d = c
    BY <1>1, <2>2 DEF UploadAt, Writes
  <2>3. CASE d # c
    BY <1>1, <2>1, <2>3 DEF UploadAt, Writes
  <2> QED BY <2>2, <2>3
<1>6. FtpPlain'
  <2>1. ASSUME NEW d \in Clients, NEW e \in Clients, Writes(d)', Writes(e)', ftp'[d].up = ftp'[e].up PROVE d = e
    BY <1>1, <1>3, <1>4, <2>1 DEF FtpPlain
  <2> QED BY <1>1, <1>5, <2>1 DEF FtpPlain
<1>7. ASSUME NEW f \in Files \ tangled PROVE NameTidy(f)'
  <2>1. ASSUME NEW d \in Clients
        PROVE  /\ On(d, f)' <=> On(d, f)
               /\ On(d, f) => ftp'[d] = ftp[d]
    BY <1>3, <1>4 DEF On
  <2>2. Len(sent') \in Nat /\ Len(sent') >= Len(sent) /\ \A u \in 1..Len(sent) : sent[u] >= 0 => sent'[u] = sent[u]
    BY FtpReads
  <2>3. f \in Files /\ f \notin tangled
    OBVIOUS
  <2> QED BY <2>1, <2>2, <2>3, NameKept
<1> QED BY <1>2, <1>6, <1>7 DEF FtpInv

\* A session told of a port to dial is still one.
LEMMA PortGiven ==
  ASSUME NEW s \in FtpSessions, NEW port \in BOOLEAN
  PROVE  /\ [s EXCEPT !.pasv = 0, !.port = port] \in FtpSessions
         /\ [s EXCEPT !.pasv = 0, !.port = port].at = s.at
         /\ [s EXCEPT !.pasv = 0, !.port = port].off = s.off
<1>0. [s EXCEPT !.pasv = 0] \in FtpSessions
  BY DEF FtpSessions
<1>1. PICK t \in FtpSessions : t = [s EXCEPT !.pasv = 0]
  BY <1>0
<1>2. t.at = s.at /\ t.off = s.off
  BY <1>1 DEF FtpSessions
<1>3. [s EXCEPT !.pasv = 0, !.port = port] = [t EXCEPT !.port = port]
  BY <1>1
<1>4. [t EXCEPT !.port = port] \in FtpSessions /\ [t EXCEPT !.port = port].at = t.at /\ [t EXCEPT !.port = port].off = t.off
  BY DEF FtpSessions
<1> QED BY <1>2, <1>3, <1>4

\* What an upload leaves of a session is one.
LEMMA IdleType ==
  ASSUME NEW c \in Clients, ftp[c] \in FtpSessions
  PROVE  TheFtp!Idle(c) \in FtpSessions /\ TheFtp!Idle(c).at = "in" /\ TheFtp!Idle(c).off = 0 /\ TheFtp!Idle(c).pasv = 0
<1>1. TheFtp!Gone \in FtpSessions /\ TheFtp!Gone.off = 0 /\ TheFtp!Gone.pasv = 0
  BY DEF TheFtp!Gone, FtpSessions
<1>2. PICK gone \in FtpSessions : gone = TheFtp!Gone
  BY <1>1
<1>3. PICK from \in Files \cup {None} : from = ftp[c].from
  BY DEF FtpSessions
<1>4. TheFtp!Idle(c) = [gone EXCEPT !.at = "in", !.from = from]
  BY <1>2, <1>3 DEF TheFtp!Idle
<1>5. /\ [gone EXCEPT !.at = "in", !.from = from] \in FtpSessions /\ [gone EXCEPT !.at = "in", !.from = from].at = "in"
      /\ [gone EXCEPT !.at = "in", !.from = from].off = gone.off
      /\ [gone EXCEPT !.at = "in", !.from = from].pasv = gone.pasv
  BY DEF FtpSessions
<1> QED BY <1>1, <1>2, <1>4, <1>5

\* Logging in and out, asking for a port, being told to send, or not to.
LEMMA FtpCommands ==
  ASSUME FtpInv, NEW c \in Clients,
         \/ TheFtp!Connect(c) \/ TheFtp!Login(c) \/ TheFtp!User(c) \/ TheFtp!Quit(c) \/ TheFtp!Active(c)
         \/ TheFtp!NoData(c) \/ \E f \in Uploaded, add \in BOOLEAN : TheFtp!Store(c, f, add)
         \/ \E f \in Files : TheFtp!RenameFrom(c, f)
  PROVE  FtpInv'
<1>1. /\ ftp[c] \in FtpSessions /\ UploadAt(c) /\ ftp \in [Clients -> FtpSessions] /\ next \in Int
  BY FtpReads DEF FtpInv, FtpTypes
<1>2. TheFtp!Gone \in FtpSessions /\ TheFtp!Gone.at = "gone" /\ TheFtp!Gone.off = 0
  BY DEF TheFtp!Gone, FtpSessions
<1>3. ASSUME NEW r \in FtpSessions, ftp' = [ftp EXCEPT ![c] = r], ftp[c].at \in {"gone", "hello", "in", "data"},
             r.at \in {"gone", "hello", "in", "data"}, r.off = 0, r.at = "data" => r.name \in Files,
             lent' = TheFtp!Closed(c) \/ (lent' = lent /\ r.pasv = ftp[c].pasv /\ r.at # "gone"),
             UNCHANGED <<next, disk, bytes, sent, stored, tangled>>
      PROVE  FtpInv'
  <2>1. PortsLent' /\ lent' \in [Ports -> SUBSET Clients]
    BY <1>3, LentKept
  <2>2. ~Writes(c)
    BY <1>3 DEF Writes
  <2> QED BY <1>1, <1>3, <2>1, <2>2, FtpQuiet
<1>4. ftp[c].at \in {"gone", "hello", "in", "data"} => ftp[c].off = 0
  BY <1>1 DEF UploadAt, Writes
<1>5. ASSUME NEW at \in {"hello", "in"}, TheFtp!Goto(c, at), ftp[c].at \in {"gone", "hello", "in"}, TheFtp!UnchangedPorts,
             UNCHANGED <<disk, bytes, sent, stored, tangled>>
      PROVE  FtpInv'
  <2> DEFINE r == [ftp[c] EXCEPT !.at = at]
  <2>1. r \in FtpSessions /\ r.at = at /\ r.off = ftp[c].off /\ r.pasv = ftp[c].pasv
    BY <1>1 DEF FtpSessions
  <2>2. ftp' = [ftp EXCEPT ![c] = r]
    BY <1>5 DEF TheFtp!Goto
  <2> HIDE DEF r
  <2> QED BY <1>3, <1>4, <1>5, <2>1, <2>2 DEF TheFtp!UnchangedPorts
<1>6. CASE TheFtp!Connect(c)
  BY <1>5, <1>6 DEF TheFtp!Connect, TheFtp!UnchangedDisk
<1>7. CASE TheFtp!Login(c)
  BY <1>5, <1>7 DEF TheFtp!Login
<1>8. CASE TheFtp!User(c)
  BY <1>5, <1>8 DEF TheFtp!User, TheFtp!UnchangedDisk
<1>9. CASE TheFtp!Quit(c)
  BY <1>2, <1>3, <1>9 DEF TheFtp!Quit, TheFtp!UnchangedDisk
<1>10. CASE TheFtp!Active(c)
  <2>1. PICK port \in BOOLEAN : ftp' = [ftp EXCEPT ![c].pasv = 0, ![c].port = port]
    BY <1>10 DEF TheFtp!Active
  <2> DEFINE r == [ftp[c] EXCEPT !.pasv = 0, !.port = port]
  <2>2. r \in FtpSessions /\ r.at = ftp[c].at /\ r.off = ftp[c].off
    BY <1>1, PortGiven
  <2>3. ftp' = [ftp EXCEPT ![c] = r]
    BY <2>1
  <2> HIDE DEF r
  <2> QED BY <1>3, <1>4, <1>10, <2>2, <2>3 DEF TheFtp!Active, TheFtp!UnchangedDisk
<1>11. TheFtp!Idle(c) \in FtpSessions /\ TheFtp!Idle(c).at = "in" /\ TheFtp!Idle(c).off = 0
  BY <1>1, IdleType
<1>12. CASE TheFtp!NoData(c)
  BY <1>3, <1>11, <1>12 DEF TheFtp!NoData, TheFtp!UnchangedDisk
<1>13. ASSUME NEW f \in Uploaded, NEW add \in BOOLEAN, TheFtp!Store(c, f, add) PROVE FtpInv'
  <2> DEFINE r == [ftp[c] EXCEPT !.at = "data", !.name = f, !.add = add]
  <2>1. r \in FtpSessions /\ r.at = "data" /\ r.off = ftp[c].off /\ r.pasv = ftp[c].pasv /\ r.name = f /\ f \in Files
    BY <1>1, FtpAssumption DEF FtpSessions
  <2>2. ftp' = [ftp EXCEPT ![c] = r]
    BY <1>13 DEF TheFtp!Store
  <2> HIDE DEF r
  <2> QED BY <1>3, <1>4, <1>13, <2>1, <2>2 DEF TheFtp!Store, TheFtp!UnchangedPorts
<1>14. ASSUME NEW f \in Files, TheFtp!RenameFrom(c, f) PROVE FtpInv'
  <2> DEFINE r == [ftp[c] EXCEPT !.from = f]
  <2>1. r \in FtpSessions /\ r.at = ftp[c].at /\ r.off = ftp[c].off /\ r.pasv = ftp[c].pasv
    BY <1>1 DEF FtpSessions
  <2>2. ftp' = [ftp EXCEPT ![c] = r]
    BY <1>14 DEF TheFtp!RenameFrom
  <2> HIDE DEF r
  <2> QED BY <1>3, <1>4, <1>14, <2>1, <2>2 DEF TheFtp!RenameFrom, TheFtp!UnchangedPorts, TheFtp!UnchangedDisk
<1> QED BY <1>6, <1>7, <1>8, <1>9, <1>10, <1>12, <1>13, <1>14

\* A port that could be opened is lent to the one that asked.
LEMMA FtpPassive == ASSUME FtpInv, NEW c \in Clients, TheFtp!Passive(c) PROVE FtpInv'
<1>1. /\ ftp[c] \in FtpSessions /\ UploadAt(c) /\ ftp \in [Clients -> FtpSessions] /\ next \in Int
      /\ lent \in [Ports -> SUBSET Clients] /\ PortsLent
  BY FtpReads DEF FtpInv, FtpTypes
<1>2. Cardinality(Ports) \in Nat /\ TheFtp!Cardinality(Ports) = Cardinality(Ports)
  <2>1. TheFtp!Cardinality(Ports) = Cardinality(Ports)
    BY DEF Cardinality, TheFtp!Cardinality
  <2> QED BY <2>1, FtpAssumption, FS_CardinalityType
<1>3. ASSUME NEW n \in Int, Cardinality(Ports) # 0 PROVE TheFtp!Nth(n) \in Int
  <2>1. next + n - 1 \in Int /\ Cardinality(Ports) > 0
    BY <1>1, <1>2, <1>3
  <2>2. (next + n - 1) % Cardinality(Ports) \in Int
    BY <1>2, <2>1
  <2> QED BY <1>2, <2>2 DEF TheFtp!Nth
<1>4. ~Writes(c) /\ ftp[c].at = "in" /\ ftp[c].off = 0 /\ UNCHANGED <<disk, bytes, sent, stored, tangled>>
  BY <1>1 DEF TheFtp!Passive, UploadAt, Writes, TheFtp!UnchangedDisk
<1>5. ASSUME NEW p \in Int, ftp' = [ftp EXCEPT ![c].pasv = p, ![c].port = FALSE]
      PROVE  \E r \in FtpSessions : r.at = "in" /\ r.off = 0 /\ r.pasv = p /\ ftp' = [ftp EXCEPT ![c] = r]
  <2> DEFINE r == [ftp[c] EXCEPT !.pasv = p, !.port = FALSE]
  <2>1. r \in FtpSessions /\ r.at = ftp[c].at /\ r.off = ftp[c].off /\ r.pasv = p
    BY <1>1, <1>5 DEF FtpSessions
  <2>2. ftp' = [ftp EXCEPT ![c] = r]
    BY <1>5
  <2> HIDE DEF r
  <2> QED BY <1>4, <2>1, <2>2
<1> DEFINE free == {n \in 0..(TheFtp!Cardinality(Ports) - 1) : TheFtp!Closed(c)[TheFtp!Nth(n)] = {}}
           first == CHOOSE n \in free : \A m \in free : n <= m
<1>6. CASE free = {}
  <2>1. ftp' = [ftp EXCEPT ![c].pasv = 0, ![c].port = FALSE] /\ lent' = TheFtp!Closed(c) /\ next' = next
    BY <1>6 DEF TheFtp!Passive
  <2> HIDE DEF free, first
  <2>0. PICK p \in Int : p = 0
    OBVIOUS
  <2>2. PICK r \in FtpSessions : r.at = "in" /\ r.off = 0 /\ ftp' = [ftp EXCEPT ![c] = r]
    BY <1>5, <2>0, <2>1
  <2>3. PortsLent' /\ lent' \in [Ports -> SUBSET Clients]
    BY <2>1, <2>2, LentKept
  <2> QED BY <1>1, <1>4, <2>1, <2>2, <2>3, FtpQuiet
<1>7. CASE free # {}
  <2>1. first \in Int /\ Cardinality(Ports) # 0
    <3>1. free \subseteq Nat /\ (free # {} => Cardinality(Ports) # 0)
      BY <1>2
    <3> HIDE DEF free
    <3>2. \E n \in free : \A m \in free : n <= m
      BY <1>7, <3>1, FirstOf
    <3>3. first \in free
      BY <3>2
    <3> HIDE DEF first
    <3> QED BY <1>7, <3>1, <3>3
  <2>2. /\ ftp' = [ftp EXCEPT ![c].pasv = TheFtp!Nth(first), ![c].port = FALSE]
        /\ lent' = [TheFtp!Closed(c) EXCEPT ![TheFtp!Nth(first)] = {c}] /\ next' = TheFtp!Nth(first + 1)
    BY <1>7 DEF TheFtp!Passive
  <2>3. PICK q \in Int : q = TheFtp!Nth(first)
    BY <1>3, <2>1
  <2>4. next' \in Int
    BY <1>3, <2>1, <2>2
  <2> HIDE DEF free, first
  <2>5. PICK r \in FtpSessions : r.at = "in" /\ r.off = 0 /\ r.pasv = q /\ ftp' = [ftp EXCEPT ![c] = r]
    BY <1>5, <2>2, <2>3
  <2>6. ASSUME NEW p \in Ports
        PROVE  lent'[p] = IF p = q THEN {c} ELSE lent[p] \ IF ftp[c].pasv = p THEN {c} ELSE {}
    BY <2>2, <2>3 DEF TheFtp!Closed
  <2>7. lent' \in [Ports -> SUBSET Clients]
    <3>1. lent' = [p \in Ports |-> lent'[p]]
      BY <2>2 DEF TheFtp!Closed
    <3> QED BY <1>1, <2>6, <3>1
  <2>8. ASSUME NEW p \in Ports, NEW d \in lent'[p] PROVE lent'[p] = {d} /\ ftp'[d].pasv = p /\ ftp'[d].at # "gone"
    <3>1. CASE p = q
      <4>1. lent'[p] = {c} /\ d = c
        BY <2>6, <2>8, <3>1
      <4> QED BY <1>1, <2>5, <3>1, <4>1
    <3>2. CASE p # q
      <4>0. lent'[p] = lent[p] \ IF ftp[c].pasv = p THEN {c} ELSE {}
        BY <2>6, <3>2
      <4>1. d \in lent[p] /\ lent[p] = {d} /\ ftp[d].pasv = p /\ ftp[d].at # "gone" /\ d \in Clients
        BY <1>1, <2>8, <4>0 DEF PortsLent
      <4>2. d # c
        BY <2>8, <4>0, <4>1
      <4> QED BY <1>1, <2>5, <2>8, <4>0, <4>1, <4>2
    <3> QED BY <3>1, <3>2
  <2>9. PortsLent'
    BY <2>8 DEF PortsLent
  <2> QED BY <1>4, <2>4, <2>5, <2>7, <2>9, FtpQuiet
<1> QED BY <1>6, <1>7

\* One more write of an upload that has its file for itself.
LEMMA WrittenNext ==
  ASSUME NEW n \in Nat, NEW up
  PROVE  TheFtp!Written([i \in 1..n |-> up], n + 1, up) = [i \in 1..(n + 1) |-> up]
<1> DEFINE was == [i \in 1..n |-> up]
<1>1. Len(was) = n
  OBVIOUS
<1>2. \A i \in 1..n : was[i] = up
  OBVIOUS
<1> HIDE DEF was
<1>3. TheFtp!Written(was, n + 1, up) = [i \in 1..(n + 1) |-> up]
  BY <1>1, <1>2 DEF TheFtp!Written
<1> QED BY <1>3 DEF was

\* A write leaves a file that is one.
LEMMA WrittenType ==
  ASSUME NEW was \in Seq(Nat), NEW at \in Nat, NEW up \in Nat
  PROVE  TheFtp!Written(was, at, up) \in Seq(Nat)
<1>1. PICK n \in Nat : n = IF at > Len(was) THEN at ELSE Len(was)
  OBVIOUS
<1>2. TheFtp!Written(was, at, up) \in [1..n -> Nat]
  BY <1>1 DEF TheFtp!Written
<1> QED BY <1>1, <1>2

\* An upload that starts has the file for itself, or the name is a tangled one.
LEMMA FtpOpen == ASSUME FtpInv, NEW c \in Clients, TheFtp!Open(c) PROVE FtpInv'
<1>1. /\ ftp[c] \in FtpSessions /\ UploadAt(c) /\ ftp \in [Clients -> FtpSessions] /\ next \in Int
      /\ disk \in [Files -> Nat] /\ stored \in [Files -> Nat]
      /\ bytes \in Seq(Seq(Nat)) /\ sent \in Seq(Int) /\ Len(bytes) \in Nat /\ Len(sent) \in Nat
      /\ \A h \in Files : disk[h] <= Len(bytes) /\ stored[h] <= Len(sent)
  BY FtpReads DEF FtpInv, FtpTypes
<1>a. ftp[c].at = "data" /\ ~Writes(c) /\ ftp[c].off = 0 /\ ftp[c].name \in Files
  BY <1>1 DEF TheFtp!Open, UploadAt, Writes
<1>b. PICK f \in Files : f = ftp[c].name
  BY <1>a
<1>c. PICK file \in Nat : file = IF disk[f] = 0 THEN Len(bytes) + 1 ELSE disk[f]
  BY <1>1
<1>d. PICK up \in Nat : up = Len(sent) + 1
  BY <1>1
<1>e. PICK remains : remains = IF disk[f] # 0 /\ ftp[c].add THEN bytes[file] ELSE <<>>
  OBVIOUS
<1>2. /\ lent' = TheFtp!Closed(c)
      /\ ftp' = [ftp EXCEPT ![c] = [@ EXCEPT !.at = "copy", !.pasv = 0, !.port = FALSE, !.up = up, !.file = file]]
      /\ disk' = [disk EXCEPT ![f] = file]
      /\ bytes' = IF disk[f] = 0 THEN Append(bytes, <<>>) ELSE [bytes EXCEPT ![file] = remains]
      /\ sent' = Append(sent, -1) /\ stored' = [stored EXCEPT ![f] = 0] /\ next' = next
      /\ tangled' = IF TheFtp!Uploading(f) # {} \/ remains # <<>> THEN tangled \union {f} ELSE tangled \ {f}
  BY <1>b, <1>c, <1>d, <1>e DEF TheFtp!Open
<1>3. PICK r \in FtpSessions : /\ ftp' = [ftp EXCEPT ![c] = r] /\ r.at = "copy" /\ r.pasv = 0 /\ r.up = up /\ r.file = file
                               /\ r.off = 0 /\ r.name = f
  <2> DEFINE r == [ftp[c] EXCEPT !.at = "copy", !.pasv = 0, !.port = FALSE, !.up = up, !.file = file]
  <2>2. ftp' = [ftp EXCEPT ![c] = r]
    BY <1>2
  <2>3. r.at = "copy" /\ r.pasv = 0 /\ r.up = up /\ r.file = file /\ r.off = ftp[c].off /\ r.name = f
    BY <1>1, <1>b DEF FtpSessions
  <2>4. r \in FtpSessions
    <3> DEFINE a == [ftp[c] EXCEPT !.at = "copy"]
               b == [a EXCEPT !.pasv = 0, !.port = FALSE]
               d == [b EXCEPT !.up = up]
    <3>2. r = [d EXCEPT !.file = file]
      OBVIOUS
    <3> HIDE DEF r
    <3>3. a \in FtpSessions
      BY <1>1 DEF FtpSessions
    <3> HIDE DEF a
    <3>4. b \in FtpSessions
      BY <3>3, PortGiven
    <3> HIDE DEF b
    <3>5. d \in FtpSessions
      BY <3>4 DEF FtpSessions
    <3> HIDE DEF d
    <3>6. [d EXCEPT !.file = file] \in FtpSessions
      BY <3>5 DEF FtpSessions
    <3> QED BY <3>2, <3>6
  <2> HIDE DEF r
  <2> QED BY <1>a, <2>2, <2>3, <2>4
<1>4. /\ PortsLent' /\ lent' \in [Ports -> SUBSET Clients] /\ ftp' \in [Clients -> FtpSessions]
  BY <1>2, <1>3, LentKept
<1>5. /\ file \in 1..Len(bytes') /\ bytes' \in Seq(Seq(Nat)) /\ Len(bytes') \in Nat /\ Len(bytes') >= Len(bytes)
      /\ bytes'[file] = remains /\ \A n \in 1..Len(bytes) : n # file => bytes'[n] = bytes[n]
  <2>1. CASE disk[f] = 0
    <3>1. <<>> \in Seq(Nat) /\ bytes' = Append(bytes, <<>>) /\ remains = <<>> /\ file = Len(bytes) + 1
      BY <1>2, <1>c, <1>e, <2>1
    <3> QED BY <1>1, <3>1
  <2>2. CASE disk[f] # 0
    <3>1. file \in 1..Len(bytes) /\ bytes' = [bytes EXCEPT ![file] = remains]
      BY <1>1, <1>2, <1>c, <2>2
    <3>2. remains \in Seq(Nat)
      BY <1>1, <1>e, <3>1
    <3> QED BY <1>1, <3>1, <3>2
  <2> QED BY <2>1, <2>2
<1>6. /\ Len(sent') = Len(sent) + 1 /\ sent' \in Seq(Int) /\ sent'[up] = -1
      /\ \A u \in 1..Len(sent) : sent'[u] = sent[u]
  BY <1>1, <1>2, <1>d
<1>7. \A h \in Files : disk'[h] = (IF h = f THEN file ELSE disk[h]) /\ stored'[h] = (IF h = f THEN 0 ELSE stored[h])
  BY <1>1, <1>2
<1>8. disk' \in [Files -> Nat] /\ stored' \in [Files -> Nat]
  BY <1>1, <1>2
<1>10. FtpTypes'
  <2>1. ASSUME NEW h \in Files PROVE disk'[h] <= Len(bytes') /\ stored'[h] <= Len(sent')
    <3>1. disk[h] <= Len(bytes) /\ stored[h] <= Len(sent) /\ disk[h] \in Nat /\ stored[h] \in Nat
      BY <1>1
    <3>2. disk'[h] = (IF h = f THEN file ELSE disk[h]) /\ stored'[h] = (IF h = f THEN 0 ELSE stored[h])
      BY <1>7
    <3> QED BY <1>1, <1>5, <1>6, <3>1, <3>2
  <2> QED BY <1>1, <1>2, <1>4, <1>5, <1>6, <1>8, <2>1 DEF FtpTypes
<1>11. ASSUME NEW d \in Clients, d # c PROVE ftp'[d] = ftp[d] /\ (Writes(d)' <=> Writes(d))
  BY <1>1, <1>3, <1>11 DEF Writes
<1>12. ASSUME NEW d \in Clients, Writes(d)
       PROVE  d # c /\ ftp[d].up \in 1..Len(sent) /\ ftp[d].file \in 1..Len(bytes) /\ ftp[d].name \in Files /\ ftp[d].pasv = 0
  BY <1>a, <1>12, FtpReads DEF UploadAt
<1>13. ftp'[c] = r
  BY <1>1, <1>3
<1>14. FtpPlain'
  <2>1. ASSUME NEW g \in Files, NEW h \in Files, disk'[g] # 0, disk'[g] = disk'[h] PROVE g = h
    <3>1. /\ disk[g] <= Len(bytes) /\ disk[h] <= Len(bytes) /\ disk[g] \in Nat /\ disk[h] \in Nat
          /\ disk[g] # 0 /\ disk[g] = disk[h] => g = h
          /\ disk[f] # 0 /\ disk[f] = disk[h] => f = h
          /\ disk[g] # 0 /\ disk[g] = disk[f] => g = f
      BY <1>1, <1>2 DEF FtpInv, FtpPlain
    <3> QED BY <1>1, <1>7, <1>c, <1>d, <2>1, <3>1
  <2>2. ASSUME NEW d \in Clients PROVE UploadAt(d)'
    <3>1. CASE d = c
      <4>1. /\ ftp'[c].up = up /\ ftp'[c].file = file /\ ftp'[c].name = f /\ ftp'[c].pasv = 0 /\ ftp'[c].at = "copy"
        BY <1>3, <1>13
      <4>2. up \in 1..Len(sent') /\ file \in 1..Len(bytes') /\ sent'[up] = -1 /\ f \in Files
        BY <1>1, <1>5, <1>6, <1>d
      <4>3. Writes(c)'
        BY <4>1 DEF Writes
      <4>4. UploadAt(c)'
        BY <4>1, <4>2, <4>3 DEF UploadAt
      <4> QED BY <3>1, <4>4
    <3>2. CASE d # c
      <4>1. UploadAt(d)
        BY FtpReads
      <4>2. CASE Writes(d)
        <5>1. ftp'[d].up \in 1..Len(sent') /\ ftp'[d].file \in 1..Len(bytes') /\ ftp'[d].name \in Files /\ ftp'[d].pasv = 0
          <6>1. ftp'[d] = ftp[d] /\ ftp[d].up \in 1..Len(sent) /\ ftp[d].file \in 1..Len(bytes) /\ ftp[d].name \in Files
                /\ ftp[d].pasv = 0
            BY <1>11, <1>12, <3>2, <4>2
          <6>2. /\ Len(sent) \in Nat /\ Len(bytes) \in Nat /\ Len(bytes') \in Nat
                /\ Len(sent') = Len(sent) + 1 /\ Len(bytes') >= Len(bytes)
            BY <1>1, <1>5, <1>6
          <6> QED BY <6>1, <6>2
        <5>2. ftp'[d].at = "copy" => sent'[ftp'[d].up] = -1
          BY <1>6, <1>11, <1>12, <3>2, <4>1, <4>2 DEF UploadAt
        <5>3. Writes(d)' /\ ftp'[d].at # "data"
          BY <1>11, <3>2, <4>2 DEF Writes
        <5> QED BY <5>1, <5>2, <5>3 DEF UploadAt
      <4>3. CASE ~Writes(d)
        BY <1>11, <3>2, <4>1, <4>3 DEF UploadAt, Writes
      <4> QED BY <4>2, <4>3
    <3> QED BY <3>1, <3>2
  <2>3. ASSUME NEW d \in Clients, NEW e \in Clients, Writes(d)', Writes(e)', ftp'[d].up = ftp'[e].up PROVE d = e
    <3>1. CASE d # c /\ e # c
      BY <1>11, <2>3, <3>1 DEF FtpInv, FtpPlain
    <3>2. CASE d = c /\ e # c
      BY <1>1, <1>3, <1>c, <1>d, <1>11, <1>12, <1>13, <2>3, <3>2
    <3>3. CASE d # c /\ e = c
      BY <1>1, <1>3, <1>c, <1>d, <1>11, <1>12, <1>13, <2>3, <3>3
    <3> QED BY <3>1, <3>2, <3>3
  <2> QED BY <2>1, <2>2, <2>3 DEF FtpPlain
<1>15. ASSUME NEW g \in Files, g # f, g \notin tangled PROVE NameTidy(g)'
  <2>1. disk'[g] = disk[g] /\ stored'[g] = stored[g] /\ disk[g] \in Nat /\ disk[g] <= Len(bytes)
    BY <1>1, <1>7, <1>15
  <2>2. disk[g] # 0 => disk[g] # file
    BY <1>1, <1>2, <1>c, <1>d, <1>15, <2>1 DEF FtpInv, FtpPlain
  <2>3. disk[g] # 0 => bytes'[disk[g]] = bytes[disk[g]]
    <3>1. disk[g] # 0 => disk[g] \in 1..Len(bytes)
      BY <1>1, <2>1
    <3> QED BY <1>5, <2>2, <3>1
  <2>4. ASSUME NEW d \in Clients, disk[g] # 0
        PROVE  /\ On(d, g)' <=> On(d, g)
               /\ On(d, g) => ftp'[d] = ftp[d]
    <3>1. CASE d = c
      BY <1>a, <1>3, <1>13, <1>15, <2>1, <2>2, <2>4, <3>1 DEF On
    <3>2. CASE d # c
      BY <1>11, <2>1, <3>2 DEF On
    <3> QED BY <3>1, <3>2
  <2>5. Len(sent') \in Nat /\ Len(sent') >= Len(sent) /\ \A u \in 1..Len(sent) : sent[u] >= 0 => sent'[u] = sent[u]
    BY <1>1, <1>6
  <2> QED BY <1>15, <2>1, <2>3, <2>4, <2>5, NameKept
<1>16. ASSUME f \notin tangled' PROVE NameTidy(f)'
  <2>1. TheFtp!Uploading(f) = {} /\ remains = <<>>
    BY <1>2, <1>16
  <2>2. ASSUME NEW d \in Clients, d # c PROVE ~On(d, f)'
    <3>1. ~(Writes(d) /\ (ftp[d].name = f \/ (disk[f] # 0 /\ ftp[d].file = disk[f])))
      BY <2>1 DEF TheFtp!Uploading, Writes
    <3>2. disk'[f] = file
      BY <1>7
    <3> QED BY <1>1, <1>c, <1>d, <1>11, <1>12, <2>2, <3>1, <3>2 DEF On
  <2>3. /\ ftp'[c].name = f /\ ftp'[c].file = disk'[f] /\ ftp'[c].at = "copy" /\ disk'[f] = file /\ stored'[f] = 0
        /\ bytes'[disk'[f]] = <<>> /\ ftp'[c].off = 0
    BY <1>3, <1>5, <1>7, <1>13, <2>1
  <2>4. [i \in 1..ftp'[c].off |-> ftp'[c].up] = <<>>
    BY <2>3
  <2>5. On(c, f)'
    BY <2>3 DEF On, Writes
  <2>6. FileTidy(f)'
    BY <2>2, <2>3, <2>4, <2>5 DEF FileTidy
  <2> QED BY <2>3, <2>6 DEF NameTidy
<1>17. ASSUME NEW g \in Files, g \notin tangled' PROVE NameTidy(g)'
  <2>1. g # f => g \notin tangled
    BY <1>2, <1>17
  <2> QED BY <1>15, <1>16, <1>17, <2>1
<1> QED BY <1>4, <1>10, <1>14, <1>17 DEF FtpInv

\* What the other connections upload stays theirs while one goes on with its own.
LEMMA UploadsKept ==
  ASSUME FtpInv, NEW c \in Clients, NEW r \in FtpSessions, ftp' = [ftp EXCEPT ![c] = r], Writes(c),
         Len(sent') = Len(sent), Len(bytes') = Len(bytes),
         \A u \in 1..Len(sent) : u # ftp[c].up => sent'[u] = sent[u],
         UploadAt(c)', r.at \in {"copy", "closed"} => r.up = ftp[c].up
  PROVE  /\ \A d \in Clients : UploadAt(d)'
         /\ \A d, e \in Clients : Writes(d)' /\ Writes(e)' /\ ftp'[d].up = ftp'[e].up => d = e
<1>1. ftp \in [Clients -> FtpSessions] /\ ftp'[c] = r
      /\ \A d, e \in Clients : Writes(d) /\ Writes(e) /\ ftp[d].up = ftp[e].up => d = e
  BY DEF FtpInv, FtpTypes, FtpPlain
<1>2. ASSUME NEW d \in Clients, d # c PROVE UploadAt(d)'
  <2>1. UploadAt(d) /\ ftp'[d] = ftp[d] /\ (Writes(d)' <=> Writes(d))
    BY <1>1, <1>2, FtpReads DEF Writes
  <2>2. Writes(d) => ftp[d].up # ftp[c].up
    BY <1>1, <1>2
  <2>3. Writes(d) => sent'[ftp[d].up] = sent[ftp[d].up]
    BY <2>1, <2>2 DEF UploadAt
  <2>4. ftp[d].at = "copy" => Writes(d)
    BY DEF Writes
  <2> QED BY <2>1, <2>3, <2>4 DEF UploadAt
<1>3. ASSUME NEW d \in Clients, Writes(d)' PROVE Writes(d) /\ ftp'[d].up = ftp[d].up
  BY <1>1, <1>3 DEF Writes
<1> QED BY <1>1, <1>2, <1>3

\* A write goes where the one upload of a file is, or to a tangled one.
LEMMA FtpCopy == ASSUME FtpInv, NEW c \in Clients, TheFtp!Copy(c) PROVE FtpInv'
<1>1. /\ ftp[c] \in FtpSessions /\ UploadAt(c) /\ ftp \in [Clients -> FtpSessions] /\ next \in Int
      /\ disk \in [Files -> Nat] /\ stored \in [Files -> Nat]
      /\ bytes \in Seq(Seq(Nat)) /\ sent \in Seq(Int) /\ Len(bytes) \in Nat /\ Len(sent) \in Nat
      /\ \A h \in Files : disk[h] <= Len(bytes) /\ stored[h] <= Len(sent)
  BY FtpReads DEF FtpInv, FtpTypes
<1>2. /\ ftp[c].at = "copy" /\ Writes(c) /\ ftp[c].up \in 1..Len(sent) /\ ftp[c].file \in 1..Len(bytes)
      /\ sent[ftp[c].up] = -1 /\ ftp[c].off \in Nat /\ ftp[c].name \in Files /\ ftp[c].pasv = 0
  BY <1>1 DEF TheFtp!Copy, UploadAt, Writes, FtpSessions
<1>3. PICK file \in 1..Len(bytes) : file = ftp[c].file
  BY <1>2
<1>4. PICK at \in Nat : at = 1 + IF ftp[c].add THEN Len(bytes[file]) ELSE ftp[c].off
  <2>1. bytes[file] \in Seq(Nat)
    BY <1>1, <1>3
  <2>2. Len(bytes[file]) \in Nat
    BY <2>1
  <2> QED BY <1>2, <2>2
<1>5. /\ bytes' = [bytes EXCEPT ![file] = TheFtp!Written(@, at, ftp[c].up)]
      /\ ftp' = [ftp EXCEPT ![c].off = @ + 1]
      /\ UNCHANGED <<next, lent, disk, sent, stored, tangled>>
  BY <1>3, <1>4 DEF TheFtp!Copy, TheFtp!UnchangedPorts
<1>6. PICK r \in FtpSessions : /\ ftp' = [ftp EXCEPT ![c] = r] /\ r.off = ftp[c].off + 1 /\ r.at = ftp[c].at
                               /\ r.up = ftp[c].up /\ r.file = ftp[c].file /\ r.name = ftp[c].name /\ r.pasv = ftp[c].pasv
  <2>0. PICK n \in Nat : n = ftp[c].off + 1
    BY <1>2
  <2> DEFINE r == [ftp[c] EXCEPT !.off = n]
  <2>1. ftp' = [ftp EXCEPT ![c] = r]
    BY <1>5, <2>0
  <2>2. r \in FtpSessions
    BY <1>1 DEF FtpSessions
  <2>3. r.off = n /\ r.at = ftp[c].at
        /\ r.up = ftp[c].up /\ r.file = ftp[c].file /\ r.name = ftp[c].name /\ r.pasv = ftp[c].pasv
    BY <1>1 DEF FtpSessions
  <2> HIDE DEF r
  <2> QED BY <2>0, <2>1, <2>2, <2>3
<1>7. ftp'[c] = r /\ ftp' \in [Clients -> FtpSessions]
  BY <1>1, <1>6
<1>8. /\ bytes' \in Seq(Seq(Nat)) /\ Len(bytes') = Len(bytes)
      /\ bytes'[file] = TheFtp!Written(bytes[file], at, ftp[c].up) /\ \A n \in 1..Len(bytes) : n # file => bytes'[n] = bytes[n]
  <2>a. bytes[file] \in Seq(Nat)
    BY <1>1, <1>2
  <2>b. ftp[c].up \in Nat
    BY <1>1, <1>2
  <2>1. bytes[file] \in Seq(Nat) /\ ftp[c].up \in Nat
    BY ONLY <2>a, <2>b
  <2>2. PICK w \in Seq(Nat) : w = TheFtp!Written(bytes[file], at, ftp[c].up)
    BY <2>1, WrittenType
  <2>3. bytes' = [bytes EXCEPT ![file] = w]
    BY <1>5, <2>2
  <2>4. bytes'[file] = w /\ bytes' \in Seq(Seq(Nat)) /\ Len(bytes') = Len(bytes)
        /\ \A n \in 1..Len(bytes) : n # file => bytes'[n] = bytes[n]
    BY <1>1, <2>3
  <2> QED BY <2>2, <2>4
<1>9. PortsLent' /\ lent' \in [Ports -> SUBSET Clients]
  BY <1>2, <1>5, <1>6, LentKept
<1>10. FtpTypes'
  BY <1>1, <1>5, <1>7, <1>8, <1>9 DEF FtpTypes
<1>11. ASSUME NEW d \in Clients
       PROVE /\ Writes(d)' <=> Writes(d)
             /\ ftp'[d].at = ftp[d].at /\ ftp'[d].up = ftp[d].up /\ ftp'[d].file = ftp[d].file /\ ftp'[d].name = ftp[d].name
             /\ d # c => ftp'[d] = ftp[d]
  <2>1. CASE d = c
    BY <1>6, <1>7, <2>1 DEF Writes
  <2>2. CASE d # c
    BY <1>1, <1>6, <2>2 DEF Writes
  <2> QED BY <2>1, <2>2
<1>12. FtpPlain'
  <2>1. UploadAt(c)'
    BY <1>2, <1>5, <1>6, <1>7, <1>8, <1>11 DEF UploadAt
  <2>2. /\ \A d \in Clients : UploadAt(d)'
        /\ \A d, e \in Clients : Writes(d)' /\ Writes(e)' /\ ftp'[d].up = ftp'[e].up => d = e
    BY <1>2, <1>5, <1>6, <1>8, <2>1, UploadsKept
  <2> QED BY <1>5, <2>2 DEF FtpPlain, FtpInv
<1>13. ASSUME NEW f \in Files, f \notin tangled PROVE NameTidy(f)'
  <2>1. ASSUME NEW d \in Clients PROVE On(d, f)' <=> On(d, f)
    BY <1>5, <1>11 DEF On
  <2>2. disk'[f] = disk[f] /\ stored'[f] = stored[f] /\ disk[f] \in Nat /\ disk[f] <= Len(bytes)
    BY <1>1, <1>5
  <2>3. CASE disk[f] = 0 \/ ~On(c, f)
    <3>1. disk[f] # 0 => disk[f] \in 1..Len(bytes) /\ disk[f] # file
      BY <1>1, <1>2, <1>3, <2>2, <2>3 DEF On
    <3>2. disk[f] # 0 => bytes'[disk[f]] = bytes[disk[f]]
      BY <1>8, <3>1
    <3>3. disk[f] # 0 => \A d \in Clients : /\ On(d, f)' <=> On(d, f)
                                            /\ On(d, f) => ftp'[d] = ftp[d]
      BY <1>11, <2>1, <2>3
    <3>4. Len(sent') \in Nat /\ Len(sent') >= Len(sent) /\ \A u \in 1..Len(sent) : sent[u] >= 0 => sent'[u] = sent[u]
      BY <1>1, <1>5
    <3> QED BY <1>13, <2>2, <3>2, <3>3, <3>4, NameKept
  <2>4. CASE disk[f] # 0 /\ On(c, f)
    <3>1. FileTidy(f)
      BY <1>13, <2>4 DEF FtpInv, NameTidy
    <3>2. /\ ftp[c].name = f /\ disk[f] = file /\ bytes[file] = [i \in 1..ftp[c].off |-> ftp[c].up] /\ stored[f] = 0
          /\ \A d \in Clients : On(d, f) => d = c
      BY <1>2, <1>3, <2>4, <3>1 DEF FileTidy
    <3>3. at = ftp[c].off + 1
      BY <1>2, <1>4, <3>2
    <3>4. bytes'[file] = [i \in 1..(ftp[c].off + 1) |-> ftp[c].up]
      <4>0. PICK up : up = ftp[c].up
        OBVIOUS
      <4>a. PICK n \in Nat : n = ftp[c].off
        BY <1>2
      <4>1. n = ftp[c].off /\ up = ftp[c].up
        BY <4>0, <4>a
      <4>2. TheFtp!Written(bytes[file], at, up) = TheFtp!Written([i \in 1..n |-> up], n + 1, up)
        BY <3>2, <3>3, <4>1
      <4>3. TheFtp!Written(bytes[file], at, up) = [i \in 1..(n + 1) |-> up]
        BY <4>2, WrittenNext
      <4> QED BY <1>8, <4>1, <4>3
    <3>5. bytes'[disk'[f]] = [i \in 1..ftp'[c].off |-> ftp'[c].up]
      BY <1>6, <1>7, <2>2, <3>2, <3>4
    <3>6. ftp'[c].name = f /\ ftp'[c].file = disk'[f] /\ ftp'[c].at = "copy" /\ stored'[f] = 0
      BY <1>2, <1>3, <1>11, <2>2, <3>2
    <3>7. \A d \in Clients : On(d, f)' => d = c
      BY <2>1, <3>2
    <3>8. On(c, f)'
      BY <2>1, <2>4
    <3>9. FileTidy(f)'
      BY <3>5, <3>6, <3>7, <3>8 DEF FileTidy
    <3> QED BY <3>6, <3>9 DEF NameTidy
  <2> QED BY <2>3, <2>4
<1> QED BY <1>5, <1>9, <1>10, <1>12, <1>13 DEF FtpInv

\* What was sent is all there when an upload that has its file for itself ends.
LEMMA FtpEnd == ASSUME FtpInv, NEW c \in Clients, TheFtp!End(c) PROVE FtpInv'
<1>1. /\ ftp[c] \in FtpSessions /\ UploadAt(c) /\ ftp \in [Clients -> FtpSessions] /\ next \in Int
      /\ disk \in [Files -> Nat] /\ stored \in [Files -> Nat]
      /\ bytes \in Seq(Seq(Nat)) /\ sent \in Seq(Int) /\ Len(bytes) \in Nat /\ Len(sent) \in Nat
      /\ \A h \in Files : disk[h] <= Len(bytes) /\ stored[h] <= Len(sent)
  BY FtpReads DEF FtpInv, FtpTypes
<1>2. /\ ftp[c].at = "copy" /\ Writes(c) /\ ftp[c].up \in 1..Len(sent) /\ ftp[c].file \in 1..Len(bytes)
      /\ sent[ftp[c].up] = -1 /\ ftp[c].off \in Nat /\ ftp[c].name \in Files /\ ftp[c].pasv = 0
      /\ sent' = [sent EXCEPT ![ftp[c].up] = ftp[c].off]
      /\ ftp' = [ftp EXCEPT ![c].at = "closed"]
      /\ UNCHANGED <<next, lent, disk, bytes, stored, tangled>>
  BY <1>1 DEF TheFtp!End, UploadAt, Writes, FtpSessions, TheFtp!Goto, TheFtp!UnchangedPorts
<1>3. PICK r \in FtpSessions : /\ ftp' = [ftp EXCEPT ![c] = r] /\ r.off = ftp[c].off /\ r.at = "closed"
                               /\ r.up = ftp[c].up /\ r.file = ftp[c].file /\ r.name = ftp[c].name /\ r.pasv = ftp[c].pasv
  <2> DEFINE r == [ftp[c] EXCEPT !.at = "closed"]
  <2>1. ftp' = [ftp EXCEPT ![c] = r]
    BY <1>2
  <2>2. r \in FtpSessions
    BY <1>1 DEF FtpSessions
  <2>3. r.off = ftp[c].off /\ r.at = "closed"
        /\ r.up = ftp[c].up /\ r.file = ftp[c].file /\ r.name = ftp[c].name /\ r.pasv = ftp[c].pasv
    BY <1>1 DEF FtpSessions
  <2> HIDE DEF r
  <2> QED BY <2>1, <2>2, <2>3
<1>4. ftp'[c] = r /\ ftp' \in [Clients -> FtpSessions]
  BY <1>1, <1>3
<1>5. /\ sent' \in Seq(Int) /\ Len(sent') = Len(sent) /\ sent'[ftp[c].up] = ftp[c].off
      /\ \A u \in 1..Len(sent) : u # ftp[c].up => sent'[u] = sent[u]
  <2>1. PICK up \in 1..Len(sent) : up = ftp[c].up
    BY <1>2
  <2>2. PICK off \in Nat : off = ftp[c].off
    BY <1>2
  <2>3. sent' = [sent EXCEPT ![up] = off] /\ off \in Int
    BY <1>2, <2>1, <2>2
  <2>4. /\ sent' \in Seq(Int) /\ Len(sent') = Len(sent) /\ sent'[up] = off
        /\ \A u \in 1..Len(sent) : u # up => sent'[u] = sent[u]
    BY <1>1, <2>3
  <2> QED BY <2>1, <2>2, <2>4
<1>6. PortsLent' /\ lent' \in [Ports -> SUBSET Clients]
  BY <1>2, <1>3, LentKept
<1>7. FtpTypes'
  BY <1>1, <1>2, <1>4, <1>5, <1>6 DEF FtpTypes
<1>8. ASSUME NEW d \in Clients
       PROVE /\ Writes(d)' <=> Writes(d)
             /\ ftp'[d].off = ftp[d].off
             /\ ftp'[d].up = ftp[d].up /\ ftp'[d].file = ftp[d].file /\ ftp'[d].name = ftp[d].name
             /\ d # c => ftp'[d] = ftp[d]
  <2>1. CASE d = c
    BY <1>2, <1>3, <1>4, <2>1 DEF Writes
  <2>2. CASE d # c
    BY <1>1, <1>3, <2>2 DEF Writes
  <2> QED BY <2>1, <2>2
<1>9. FtpPlain'
  <2>1. UploadAt(c)'
    BY <1>2, <1>3, <1>4, <1>5, <1>8 DEF UploadAt
  <2>2. /\ \A d \in Clients : UploadAt(d)'
        /\ \A d, e \in Clients : Writes(d)' /\ Writes(e)' /\ ftp'[d].up = ftp'[e].up => d = e
    BY <1>2, <1>3, <1>5, <2>1, UploadsKept
  <2> QED BY <1>2, <2>2 DEF FtpPlain, FtpInv
<1>10. ASSUME NEW f \in Files, f \notin tangled PROVE NameTidy(f)'
  <2>1. ASSUME NEW d \in Clients PROVE On(d, f)' <=> On(d, f)
    BY <1>2, <1>8 DEF On
  <2>2. disk'[f] = disk[f] /\ stored'[f] = stored[f] /\ disk[f] \in Nat /\ disk[f] <= Len(bytes)
    BY <1>1, <1>2
  <2>3. CASE disk[f] = 0 \/ ~On(c, f)
    <3>1. disk[f] # 0 => \A d \in Clients : /\ On(d, f)' <=> On(d, f)
                                            /\ On(d, f) => ftp'[d] = ftp[d]
      BY <1>8, <2>1, <2>3
    <3>2. Len(sent') \in Nat /\ Len(sent') >= Len(sent)
      BY <1>1, <1>5
    <3>3. \A u \in 1..Len(sent) : sent[u] >= 0 => sent'[u] = sent[u]
      BY <1>2, <1>5
    <3> QED BY <1>2, <1>10, <2>2, <3>1, <3>2, <3>3, NameKept
  <2>4. CASE disk[f] # 0 /\ On(c, f)
    <3>1. FileTidy(f)
      BY <1>10, <2>4 DEF FtpInv, NameTidy
    <3>2. /\ ftp[c].name = f /\ ftp[c].file = disk[f] /\ stored[f] = 0
          /\ bytes[disk[f]] = [i \in 1..ftp[c].off |-> ftp[c].up]
          /\ \A d \in Clients : On(d, f) => d = c
      BY <1>2, <2>4, <3>1 DEF FileTidy
    <3>3. ftp'[c].name = f /\ ftp'[c].file = disk'[f] /\ ftp'[c].at = "closed" /\ stored'[f] = 0
      BY <1>3, <1>4, <1>8, <2>2, <3>2
    <3>4. TheFtp!IsOf(disk[f], ftp[c].up)'
      <4>1. PICK off \in Nat : off = ftp[c].off
        BY <1>2
      <4>2. /\ sent'[ftp'[c].up] = off /\ disk'[f] = disk[f] /\ bytes' = bytes /\ ftp'[c].up = ftp[c].up
            /\ bytes[disk[f]] = [i \in 1..off |-> ftp[c].up]
        BY <1>2, <1>5, <1>8, <3>2, <4>1
      <4>3. bytes'[disk'[f]] = [i \in 1..sent'[ftp'[c].up] |-> ftp'[c].up] /\ sent'[ftp'[c].up] >= 0
        BY <4>2
      <4> QED BY <4>3 DEF TheFtp!IsOf
    <3>5. \A d \in Clients : On(d, f)' => d = c
      BY <2>1, <3>2
    <3>6. On(c, f)'
      BY <2>1, <2>4
    <3>7. FileTidy(f)'
      BY <3>3, <3>4, <3>5, <3>6 DEF FileTidy
    <3> QED BY <3>3, <3>7 DEF NameTidy
  <2> QED BY <2>3, <2>4
<1> QED BY <1>2, <1>6, <1>7, <1>9, <1>10 DEF FtpInv

\* What an upload is over with, its file is on the disk whole, or gone.
LEMMA FtpDone == ASSUME FtpInv, NEW c \in Clients, TheFtp!Tell(c) \/ TheFtp!Fail(c) PROVE FtpInv'
<1>1. /\ ftp[c] \in FtpSessions /\ UploadAt(c) /\ ftp \in [Clients -> FtpSessions] /\ next \in Int
      /\ disk \in [Files -> Nat] /\ stored \in [Files -> Nat]
      /\ bytes \in Seq(Seq(Nat)) /\ sent \in Seq(Int) /\ Len(bytes) \in Nat /\ Len(sent) \in Nat
      /\ \A h \in Files : disk[h] <= Len(bytes) /\ stored[h] <= Len(sent)
  BY FtpReads DEF FtpInv, FtpTypes
<1>2. /\ Writes(c) /\ ftp[c].up \in 1..Len(sent) /\ ftp[c].name \in Files /\ ftp[c].pasv = 0
      /\ ftp' = [ftp EXCEPT ![c] = TheFtp!Idle(c)]
      /\ UNCHANGED <<next, lent, bytes, sent, tangled>>
  BY <1>1 DEF TheFtp!Tell, TheFtp!Fail, UploadAt, Writes, TheFtp!UnchangedPorts
<1>3. PICK up \in Nat : up = ftp[c].up
  BY <1>2
<1>4. PICK g \in Files : g = ftp[c].name
  BY <1>2
<1>5. PICK r \in FtpSessions : ftp' = [ftp EXCEPT ![c] = r] /\ r.at = "in" /\ r.off = 0 /\ r.pasv = 0
  BY <1>1, <1>2, IdleType
<1>6. ftp'[c] = r /\ ftp' \in [Clients -> FtpSessions] /\ ~Writes(c)'
  BY <1>1, <1>5 DEF Writes
<1>7. ASSUME NEW d \in Clients, d # c PROVE ftp'[d] = ftp[d] /\ (Writes(d)' <=> Writes(d))
  BY <1>1, <1>5, <1>7 DEF Writes
<1>8. PortsLent' /\ lent' \in [Ports -> SUBSET Clients]
  BY <1>2, <1>5, LentKept
<1>9. \/ ftp[c].at = "closed" /\ disk' = disk /\ (stored' = IF disk[g] = 0 THEN stored ELSE [stored EXCEPT ![g] = up])
      \/ disk' = [disk EXCEPT ![g] = 0] /\ stored' = [stored EXCEPT ![g] = 0]
  BY <1>3, <1>4 DEF TheFtp!Tell, TheFtp!Fail, TheFtp!Removes
<1>10. \A h \in Files : h # g => disk'[h] = disk[h] /\ stored'[h] = stored[h]
  BY <1>1, <1>9
<1>11. disk' \in [Files -> Nat] /\ stored' \in [Files -> Nat] /\ disk'[g] \in {0, disk[g]} /\ stored'[g] \in {0, stored[g], up}
  <2>1. CASE disk' = disk /\ (stored' = IF disk[g] = 0 THEN stored ELSE [stored EXCEPT ![g] = up])
    <3>1. CASE stored' = stored
      BY <1>1, <2>1, <3>1
    <3>2. CASE stored' = [stored EXCEPT ![g] = up]
      BY <1>1, <2>1, <3>2
    <3> QED BY <2>1, <3>1, <3>2
  <2>2. CASE disk' = [disk EXCEPT ![g] = 0] /\ stored' = [stored EXCEPT ![g] = 0]
    BY <1>1, <2>2
  <2> QED BY <1>9, <2>1, <2>2
<1>12. FtpTypes'
  <2>1. ASSUME NEW h \in Files PROVE disk'[h] <= Len(bytes') /\ stored'[h] <= Len(sent')
    <3>1. up <= Len(sent) /\ disk[h] <= Len(bytes) /\ stored[h] <= Len(sent) /\ disk[h] \in Nat /\ stored[h] \in Nat
      BY <1>1, <1>2, <1>3
    <3>2. Len(bytes') = Len(bytes) /\ Len(sent') = Len(sent) /\ Len(sent) \in Nat /\ Len(bytes) \in Nat
      BY <1>1, <1>2
    <3>3. disk'[h] \in {0, disk[h]} /\ stored'[h] \in {0, stored[h], up}
      BY <1>10, <1>11
    <3> QED BY <3>1, <3>2, <3>3
  <2> QED BY <1>1, <1>2, <1>6, <1>8, <1>11, <2>1 DEF FtpTypes
<1>13. FtpPlain'
  <2>1. UploadAt(c)'
    BY <1>5, <1>6 DEF UploadAt
  <2>2. /\ \A d \in Clients : UploadAt(d)'
        /\ \A d, e \in Clients : Writes(d)' /\ Writes(e)' /\ ftp'[d].up = ftp'[e].up => d = e
    BY <1>2, <1>5, <2>1, UploadsKept
  <2>3. \A f, h \in Files : disk[f] # 0 /\ disk[f] = disk[h] => f = h
    BY DEF FtpInv, FtpPlain
  <2>4. \A f, h \in Files : disk'[f] # 0 /\ disk'[f] = disk'[h] => f = h
    BY <1>10, <1>11, <2>3
  <2> QED BY <2>2, <2>4 DEF FtpPlain
<1>14. ASSUME NEW f \in Files, f # g, f \notin tangled PROVE NameTidy(f)'
  <2>1. disk[f] # 0 => ~On(c, f)
    BY <1>4, <1>14 DEF FtpInv, NameTidy, FileTidy
  <2>2. ASSUME NEW d \in Clients, disk[f] # 0
        PROVE  /\ On(d, f)' <=> On(d, f)
               /\ On(d, f) => ftp'[d] = ftp[d]
    <3>1. CASE d = c
      BY <1>6, <2>1, <2>2, <3>1 DEF On
    <3>2. CASE d # c
      BY <1>7, <1>10, <1>14, <3>2 DEF On
    <3> QED BY <3>1, <3>2
  <2>3. Len(sent') \in Nat /\ Len(sent') >= Len(sent) /\ \A u \in 1..Len(sent) : sent[u] >= 0 => sent'[u] = sent[u]
    BY <1>1, <1>2
  <2>4. disk'[f] = disk[f] /\ stored'[f] = stored[f] /\ bytes' = bytes
    BY <1>2, <1>10, <1>14
  <2> QED BY <1>14, <2>2, <2>3, <2>4, NameKept
<1>15. ASSUME g \notin tangled PROVE NameTidy(g)'
  <2>1. NameTidy(g)
    BY <1>15 DEF FtpInv
  <2>2. CASE ftp[c].at = "closed" /\ disk' = disk /\ disk[g] = 0 /\ stored' = stored
    BY <2>1, <2>2 DEF NameTidy
  <2>3. CASE ftp[c].at = "closed" /\ disk' = disk /\ disk[g] # 0 /\ stored' = [stored EXCEPT ![g] = up]
    <3>1. On(c, g) /\ FileTidy(g)
      BY <1>2, <1>4, <2>1, <2>3 DEF On, NameTidy
    <3>2. TheFtp!IsOf(disk[g], up) /\ \A d \in Clients : On(d, g) => d = c
      BY <1>3, <2>3, <3>1 DEF FileTidy
    <3>3. TheFtp!IsOf(disk[g], up)'
      BY <1>2, <2>3, <3>2 DEF TheFtp!IsOf
    <3>4. stored'[g] = up /\ up \in 1..Len(sent')
      BY <1>1, <1>2, <1>3, <2>3
    <3>5. ASSUME NEW d \in Clients PROVE ~On(d, g)'
      <4>1. CASE d = c
        BY <1>6, <4>1 DEF On
      <4>2. CASE d # c
        BY <1>7, <2>3, <3>2, <4>2 DEF On
      <4> QED BY <4>1, <4>2
    <3>6. FileTidy(g)'
      BY <2>3, <3>3, <3>4, <3>5 DEF FileTidy, TheFtp!IsOf
    <3> QED BY <2>3, <3>3, <3>4, <3>6 DEF NameTidy, TheFtp!IsOf
  <2>4. CASE disk' = [disk EXCEPT ![g] = 0] /\ stored' = [stored EXCEPT ![g] = 0]
    <3>1. disk'[g] = 0 /\ stored'[g] = 0
      BY <1>1, <2>4
    <3> QED BY <3>1 DEF NameTidy
  <2> QED BY <1>9, <2>2, <2>3, <2>4
<1>16. ASSUME NEW f \in Files, f \notin tangled PROVE NameTidy(f)'
  BY <1>14, <1>15, <1>16
<1> QED BY <1>2, <1>8, <1>12, <1>13, <1>16 DEF FtpInv

\* A file that is removed is told of no more, and no other is touched.
LEMMA FtpWithout ==
  ASSUME FtpInv, NEW f \in Files, TheFtp!Without(f), UNCHANGED <<ftp, next, lent>>
  PROVE  FtpInv'
<1>1. /\ ftp \in [Clients -> FtpSessions]
      /\ disk \in [Files -> Nat] /\ stored \in [Files -> Nat] /\ Len(sent) \in Nat
      /\ \A h \in Files : disk[h] <= Len(bytes) /\ stored[h] <= Len(sent)
  BY DEF FtpInv, FtpTypes
<1>2. /\ disk' = [disk EXCEPT ![f] = 0] /\ stored' = [stored EXCEPT ![f] = 0] /\ UNCHANGED <<bytes, sent, tangled>>
  BY DEF TheFtp!Without
<1>3. \A h \in Files : disk'[h] = (IF h = f THEN 0 ELSE disk[h]) /\ stored'[h] = (IF h = f THEN 0 ELSE stored[h])
  BY <1>1, <1>2
<1>4. FtpTypes'
  <2>1. disk' \in [Files -> Nat] /\ stored' \in [Files -> Nat]
    BY <1>1, <1>2
  <2>2. \A h \in Files : disk'[h] <= Len(bytes') /\ stored'[h] <= Len(sent')
    BY <1>1, <1>2, <1>3 DEF FtpInv, FtpTypes
  <2> QED BY <1>2, <2>1, <2>2 DEF FtpInv, FtpTypes
<1>5. PortsLent'
  BY DEF FtpInv, PortsLent
<1>6. FtpPlain'
  <2>1. \A g, h \in Files : disk'[g] # 0 /\ disk'[g] = disk'[h] => g = h
    BY <1>3 DEF FtpInv, FtpPlain
  <2>2. \A c \in Clients : UploadAt(c)'
    BY <1>2, FtpReads DEF UploadAt, Writes
  <2>3. \A c, d \in Clients : Writes(c)' /\ Writes(d)' /\ ftp'[c].up = ftp'[d].up => c = d
    BY DEF FtpInv, FtpPlain, Writes
  <2> QED BY <2>1, <2>2, <2>3 DEF FtpPlain
<1>7. ASSUME NEW g \in Files, g \notin tangled PROVE NameTidy(g)'
  <2>1. CASE g = f
    BY <1>3, <2>1 DEF NameTidy
  <2>2. CASE g # f
    <3>1. disk'[g] = disk[g] /\ stored'[g] = stored[g] /\ bytes' = bytes
      BY <1>2, <1>3, <2>2
    <3>2. \A c \in Clients : On(c, g)' <=> On(c, g)
      BY <3>1 DEF On, Writes
    <3>3. Len(sent') \in Nat /\ Len(sent') >= Len(sent) /\ \A u \in 1..Len(sent) : sent[u] >= 0 => sent'[u] = sent[u]
      BY <1>1, <1>2
    <3> QED BY <1>7, <3>1, <3>2, <3>3, NameKept
  <2> QED BY <2>1, <2>2
<1> QED BY <1>2, <1>4, <1>5, <1>6, <1>7 DEF FtpInv

\* A file that takes another name is whole under that name too, if no upload is on either.
LEMMA FtpRename == ASSUME FtpInv, NEW c \in Clients, NEW g \in Files, TheFtp!RenameTo(c, g) PROVE FtpInv'
<1>1. /\ ftp[c] \in FtpSessions /\ UploadAt(c) /\ ftp \in [Clients -> FtpSessions] /\ next \in Int
      /\ disk \in [Files -> Nat] /\ stored \in [Files -> Nat] /\ Len(sent) \in Nat
      /\ lent \in [Ports -> SUBSET Clients]
      /\ \A h \in Files : disk[h] <= Len(bytes) /\ stored[h] <= Len(sent)
  BY FtpReads DEF FtpInv, FtpTypes
<1>2. /\ ftp[c].at = "in" /\ ~Writes(c) /\ ftp[c].off = 0 /\ UNCHANGED <<next, lent>>
      /\ ftp' = [ftp EXCEPT ![c].from = None]
  BY <1>1 DEF TheFtp!RenameTo, UploadAt, Writes, TheFtp!UnchangedPorts
<1>3. PICK r \in FtpSessions : ftp' = [ftp EXCEPT ![c] = r] /\ r.at = "in" /\ r.off = 0 /\ r.pasv = ftp[c].pasv
  <2> DEFINE r == [ftp[c] EXCEPT !.from = None]
  <2>1. ftp' = [ftp EXCEPT ![c] = r]
    BY <1>2
  <2>2. r \in FtpSessions
    BY <1>1 DEF FtpSessions
  <2>3. r.off = ftp[c].off /\ r.at = ftp[c].at /\ r.pasv = ftp[c].pasv
    BY <1>1 DEF FtpSessions
  <2> HIDE DEF r
  <2> QED BY <1>2, <2>1, <2>2, <2>3
<1>4. PortsLent' /\ lent' \in [Ports -> SUBSET Clients] /\ ftp' \in [Clients -> FtpSessions]
  BY <1>2, <1>3, LentKept
<1>5. PICK f : f = ftp[c].from
  OBVIOUS
<1>6. CASE UNCHANGED <<disk, bytes, sent, stored, tangled>>
  BY <1>1, <1>2, <1>3, <1>4, <1>6, FtpQuiet
<1>7. CASE /\ f # None /\ f # g /\ disk[f] # 0
           /\ disk' = [disk EXCEPT ![f] = 0, ![g] = disk[f]]
           /\ stored' = [stored EXCEPT ![f] = 0, ![g] = stored[f]]
           /\ tangled' = IF f \in tangled \/ TheFtp!Uploading(f) \union TheFtp!Uploading(g) # {}
                         THEN tangled \union {g} ELSE tangled \ {g}
           /\ UNCHANGED <<dir, bytes, sent>>
  <2>1. f \in Files
    BY <1>1, <1>5, <1>7 DEF FtpSessions
  <2>2. ASSUME NEW h \in Files
        PROVE  /\ disk'[h] = IF h = g THEN disk[f] ELSE IF h = f THEN 0 ELSE disk[h]
               /\ stored'[h] = IF h = g THEN stored[f] ELSE IF h = f THEN 0 ELSE stored[h]
    BY <1>1, <1>7, <2>1
  <2>3. disk' \in [Files -> Nat] /\ stored' \in [Files -> Nat]
    BY <1>1, <1>7, <2>1
  <2>4. FtpTypes'
    <3>1. ASSUME NEW h \in Files PROVE disk'[h] <= Len(bytes') /\ stored'[h] <= Len(sent')
      <4>1. /\ disk[f] <= Len(bytes) /\ stored[f] <= Len(sent) /\ disk[h] <= Len(bytes) /\ stored[h] <= Len(sent)
            /\ disk[h] \in Nat /\ stored[h] \in Nat
        BY <1>1, <2>1
      <4>2. Len(bytes') = Len(bytes) /\ Len(sent') = Len(sent) /\ Len(bytes) \in Nat /\ Len(sent) \in Nat
        BY <1>7, FtpReads
      <4>3. disk'[h] \in {0, disk[h], disk[f]} /\ stored'[h] \in {0, stored[h], stored[f]}
        BY <2>2
      <4> QED BY <4>1, <4>2, <4>3
    <3> QED BY <1>2, <1>4, <1>7, <2>3, <3>1 DEF FtpInv, FtpTypes
  <2>5. ASSUME NEW d \in Clients
        PROVE  /\ Writes(d)' <=> Writes(d)
               /\ Writes(d) => ftp'[d] = ftp[d]
    <3>1. CASE d = c
      BY <1>1, <1>2, <1>3, <3>1 DEF Writes
    <3>2. CASE d # c
      BY <1>1, <1>3, <3>2 DEF Writes
    <3> QED BY <3>1, <3>2
  <2>6. FtpPlain'
    <3>1. \A k, h \in Files : disk[k] # 0 /\ disk[k] = disk[h] => k = h
      BY DEF FtpInv, FtpPlain
    <3>2. ASSUME NEW k \in Files, NEW h \in Files, disk'[k] # 0, disk'[k] = disk'[h] PROVE k = h
      BY <2>1, <2>2, <3>1, <3>2
    <3>3. ASSUME NEW d \in Clients PROVE UploadAt(d)'
      <4>1. CASE d = c
        <5>1. ftp'[c] = r
          BY <1>1, <1>3
        <5> QED BY <1>3, <4>1, <5>1 DEF UploadAt, Writes
      <4>2. CASE d # c
        <5>1. ftp'[d] = ftp[d] /\ UploadAt(d)
          BY <1>1, <1>3, <4>2, FtpReads
        <5> QED BY <1>7, <5>1 DEF UploadAt, Writes
      <4> QED BY <4>1, <4>2
    <3>4. ASSUME NEW d \in Clients, NEW e \in Clients, Writes(d)', Writes(e)', ftp'[d].up = ftp'[e].up PROVE d = e
      BY <2>5, <3>4 DEF FtpInv, FtpPlain
    <3> QED BY <3>2, <3>3, <3>4 DEF FtpPlain
  <2>7. ASSUME NEW h \in Files, h # g, h # f, h \notin tangled PROVE NameTidy(h)'
    <3>1. disk'[h] = disk[h] /\ stored'[h] = stored[h] /\ bytes' = bytes
      BY <1>7, <2>2, <2>7
    <3>2. ASSUME NEW d \in Clients
          PROVE  /\ On(d, h)' <=> On(d, h)
                 /\ On(d, h) => ftp'[d] = ftp[d]
      BY <2>5, <3>1 DEF On
    <3>3. Len(sent') \in Nat /\ Len(sent') >= Len(sent) /\ \A u \in 1..Len(sent) : sent[u] >= 0 => sent'[u] = sent[u]
      BY <1>1, <1>7
    <3> QED BY <2>7, <3>1, <3>2, <3>3, NameKept
  <2>8. NameTidy(f)'
    BY <1>7, <2>1, <2>2 DEF NameTidy
  <2>9. ASSUME g \notin tangled' PROVE NameTidy(g)'
    <3>1. f \notin tangled /\ TheFtp!Uploading(f) = {} /\ TheFtp!Uploading(g) = {}
      BY <1>7, <2>9
    <3>2. \A d \in Clients : ~(Writes(d) /\ (ftp[d].name = f \/ ftp[d].file = disk[f])) /\ ~(Writes(d) /\ ftp[d].name = g)
      BY <1>7, <3>1 DEF TheFtp!Uploading, Writes
    <3>3. disk'[g] = disk[f] /\ stored'[g] = stored[f] /\ bytes' = bytes /\ sent' = sent
      BY <1>7, <2>2
    <3>4. NameTidy(f) /\ FileTidy(f)
      BY <1>7, <2>1, <3>1 DEF FtpInv, NameTidy
    <3>5. \A d \in Clients : ~On(d, g)'
      BY <2>5, <3>2, <3>3 DEF On
    <3>6. \A d \in Clients : ~On(d, f)
      BY <3>2 DEF On
    <3>7. PICK u \in 1..Len(sent) : TheFtp!IsOf(disk[f], u)
      BY <3>4, <3>6 DEF FileTidy
    <3>8. TheFtp!IsOf(disk[g], u)'
      BY <3>3, <3>7 DEF TheFtp!IsOf
    <3>9. FileTidy(g)'
      BY <3>3, <3>5, <3>7, <3>8 DEF FileTidy
    <3>10. stored'[g] # 0 => TheFtp!IsOf(disk[g], stored[g])'
      BY <3>3, <3>4 DEF NameTidy, TheFtp!IsOf
    <3> QED BY <1>7, <3>3, <3>9, <3>10 DEF NameTidy
  <2>10. ASSUME NEW h \in Files, h \notin tangled' PROVE NameTidy(h)'
    <3>1. h # g => h \notin tangled
      BY <1>7, <2>10
    <3> QED BY <2>7, <2>8, <2>9, <2>10, <3>1
  <2> QED BY <1>4, <2>4, <2>6, <2>10 DEF FtpInv
<1> QED BY <1>5, <1>6, <1>7 DEF TheFtp!RenameTo, TheFtp!UnchangedDisk

\* What the receiver is sent and asked keeps its files tidy.
LEMMA FtpStep == ASSUME FtpInv, [TheFtp!Next]_ftpVars PROVE FtpInv'
<1>1. ASSUME UNCHANGED <<ftp, next, lent, disk, bytes, sent, stored, tangled>> PROVE FtpInv'
  <2>1. FtpTypes' /\ PortsLent'
    BY <1>1 DEF FtpInv, FtpTypes, PortsLent
  <2>2. FtpPlain'
    BY <1>1 DEF FtpInv, FtpPlain, UploadAt, Writes
  <2>3. \A f \in Files \ tangled : NameTidy(f)'
    BY <1>1 DEF FtpInv, NameTidy, FileTidy, On, Writes, TheFtp!IsOf
  <2> QED BY <1>1, <2>1, <2>2, <2>3 DEF FtpInv
<1>2. CASE UNCHANGED ftpVars
  BY <1>1, <1>2 DEF ftpVars
<1>3. CASE TheFtp!PruneFolder
  BY <1>1, <1>3 DEF TheFtp!PruneFolder, TheFtp!UnchangedPorts
<1>4. ASSUME NEW f \in Files, TheFtp!Prune(f) PROVE FtpInv'
  BY <1>4, FtpWithout DEF TheFtp!Prune, TheFtp!UnchangedPorts
<1>5. ASSUME NEW c \in Clients, NEW f \in Files, TheFtp!Delete(c, f) PROVE FtpInv'
  BY <1>5, FtpWithout DEF TheFtp!Delete, TheFtp!UnchangedPorts
<1>6. ASSUME NEW c \in Clients, NEW f \in Files, TheFtp!RenameTo(c, f) PROVE FtpInv'
  BY <1>6, FtpRename
<1>7. ASSUME NEW c \in Clients,
             \/ TheFtp!Connect(c) \/ TheFtp!Login(c) \/ TheFtp!User(c) \/ TheFtp!Quit(c) \/ TheFtp!Active(c)
             \/ TheFtp!NoData(c) \/ \E f \in Uploaded, add \in BOOLEAN : TheFtp!Store(c, f, add)
             \/ \E f \in Files : TheFtp!RenameFrom(c, f)
      PROVE FtpInv'
  BY <1>7, FtpCommands
<1>8. ASSUME NEW c \in Clients,
             TheFtp!Passive(c) \/ TheFtp!Open(c) \/ TheFtp!Copy(c) \/ TheFtp!End(c) \/ TheFtp!Fail(c) \/ TheFtp!Tell(c)
      PROVE FtpInv'
  BY <1>8, FtpPassive, FtpOpen, FtpCopy, FtpEnd, FtpDone
<1>9. CASE TheFtp!Next
  <2>1. \/ TheFtp!PruneFolder \/ \E f \in Files : TheFtp!Prune(f)
        \/ \E c \in Clients :
             \/ \E f \in Files : TheFtp!Delete(c, f) \/ TheFtp!RenameTo(c, f)
             \/ TheFtp!Passive(c) \/ TheFtp!Open(c) \/ TheFtp!Copy(c) \/ TheFtp!End(c) \/ TheFtp!Fail(c) \/ TheFtp!Tell(c)
             \/ TheFtp!Connect(c) \/ TheFtp!Login(c) \/ TheFtp!User(c) \/ TheFtp!Quit(c) \/ TheFtp!Active(c)
             \/ TheFtp!NoData(c) \/ (\E f \in Uploaded, add \in BOOLEAN : TheFtp!Store(c, f, add))
             \/ \E f \in Files : TheFtp!RenameFrom(c, f)
    BY <1>9 DEF TheFtp!Next
  <2> QED BY <1>3, <1>4, <1>5, <1>6, <1>7, <1>8, <2>1
<1> QED BY <1>2, <1>9

\* A clip that was told of is there and whole, and no port is forgotten.
LEMMA FtpKeeps == FtpInv => TheFtp!ClipsKept
<1> SUFFICES ASSUME FtpInv PROVE TheFtp!ClipsKept
  OBVIOUS
<1>1. ASSUME NEW f \in Files \ tangled
      PROVE  /\ stored[f] # 0 => disk[f] # 0 /\ TheFtp!IsOf(disk[f], stored[f])
             /\ disk[f] # 0 => \/ TheFtp!Uploading(f) # {}
                               \/ \E up \in 1..Len(sent) : TheFtp!IsOf(disk[f], up)
  <2>1. NameTidy(f)
    BY DEF FtpInv
  <2>2. \A c \in Clients : On(c, f) => c \in TheFtp!Uploading(f)
    BY DEF On, Writes, TheFtp!Uploading
  <2> QED BY <2>1, <2>2 DEF NameTidy, FileTidy
<1> QED BY <1>1 DEF TheFtp!ClipsKept, FtpInv, PortsLent

-----------------------------------------------------------------------------
(* An RTSP stream. *)

RtspSources == [up : BOOLEAN, boot : 1..Boots, sets : TheRtsp!Sets]
RtspStreams == [ready : BOOLEAN, desc : {0} \cup TheRtsp!Sets, pending : TheRtsp!Frame, waited : Int,
                rebase : BOOLEAN, check : BOOLEAN, clock : 0..Boots, readers : 0..MaxReaders,
                hold : TheRtsp!Frame, real : 0..Boots, quiet : BOOLEAN]
RtspPlaces == [at : {"idle", "ready", "observe", "init", "refresh", "compare", "close", "rebuild", "describe", "clock", "write"},
               f : TheRtsp!Frame, key : TheRtsp!Frame]

RtspTypes ==
  /\ source \in RtspSources
  /\ st \in RtspStreams
  /\ old \in TheRtsp!Frame
  /\ pc \in [TheRtsp!Procs -> RtspPlaces]
  /\ wrong \subseteq {"time", "sets"}

Camera == pc["camera"]

\* The frame at hand is of the connection that is up, and its parameter sets are those the camera sends.
FrameOfNow ==
  Camera.at # "idle" => /\ Camera.f.sets \in {0, source.sets} /\ (Camera.f.sets # 0 => Camera.f.key)
                        /\ Camera.f.boot = source.boot \/ (Camera.f = TheRtsp!NoFrame /\ Camera.at = "init")

\* The clock is on the camera's timeline, or told that it is not.
PacedOrTold == st.rebase \/ st.clock \in {0, source.boot}

\* The description is of the sets the camera sends, or the next keyframe is compared with it.
DescribedOrChecked ==
  /\ st.ready => st.pending = TheRtsp!NoFrame
  /\ ~st.check => /\ st.pending.sets \in {0, source.sets}
                  /\ Camera.at = "init" => Camera.key.sets \in {0, source.sets}
                  /\ st.ready /\ Camera.at # "close" => st.desc = source.sets

\* What the steps before have found out, for those that go on from it.
FoundOut ==
  /\ Camera.at \in {"observe", "rebuild", "describe"} => ~st.ready
  /\ Camera.at \in {"refresh", "compare"} => st.ready
  /\ Camera.at \in {"compare", "close", "rebuild", "describe"} => Camera.f.sets # 0
  /\ Camera.at \in {"clock", "write"} /\ Camera.f.sets # 0 /\ st.ready => st.desc = Camera.f.sets

Steady == pc["hold"].at = "idle" /\ wrong = {} /\ FrameOfNow /\ PacedOrTold /\ DescribedOrChecked /\ FoundOut

RtspInv == RtspTypes /\ (~holding => Steady)

\* A frame that is none is one, and a goroutine that has returned is somewhere.
LEMMA RtspNothing ==
  /\ TheRtsp!NoFrame \in TheRtsp!Frame /\ TheRtsp!Idle \in RtspPlaces /\ TheRtsp!New \in RtspStreams
  /\ TheRtsp!NoFrame.sets = 0 /\ TheRtsp!Idle.at = "idle" /\ TheRtsp!Idle.f = TheRtsp!NoFrame
  /\ TheRtsp!New.ready = FALSE /\ TheRtsp!New.check = FALSE /\ TheRtsp!New.clock = 0
  /\ TheRtsp!New.pending = TheRtsp!NoFrame
<1>1. TheRtsp!NoFrame \in TheRtsp!Frame /\ TheRtsp!NoFrame.sets = 0
  BY RtspAssumption DEF TheRtsp!NoFrame, TheRtsp!Frame
<1>2. TheRtsp!Idle \in RtspPlaces /\ TheRtsp!Idle.at = "idle" /\ TheRtsp!Idle.f = TheRtsp!NoFrame
  BY <1>1 DEF TheRtsp!Idle, RtspPlaces
<1>3. /\ TheRtsp!New.ready = FALSE /\ TheRtsp!New.check = FALSE /\ TheRtsp!New.clock = 0
      /\ TheRtsp!New.pending = TheRtsp!NoFrame
  BY DEF TheRtsp!New
<1>4. TheRtsp!New \in RtspStreams
  BY <1>1, RtspAssumption DEF TheRtsp!New, RtspStreams, TheRtsp!Sets
<1> QED BY <1>1, <1>2, <1>3, <1>4

\* Nothing was sent at first, and no camera is up.
LEMMA RtspInit == ASSUME TheRtsp!Init PROVE RtspInv
<1>1. /\ source = [up |-> FALSE, boot |-> 1, sets |-> 1] /\ st = TheRtsp!New /\ old = TheRtsp!NoFrame
      /\ pc = [g \in TheRtsp!Procs |-> TheRtsp!Idle] /\ wrong = {}
  BY DEF TheRtsp!Init
<1>2. source \in RtspSources
  BY <1>1, RtspAssumption DEF RtspSources, TheRtsp!Sets
<1>3. pc["camera"] = TheRtsp!Idle /\ pc["hold"] = TheRtsp!Idle /\ pc \in [TheRtsp!Procs -> RtspPlaces]
  BY <1>1, RtspNothing, RtspAssumption DEF TheRtsp!Procs
<1>4. RtspTypes
  BY <1>1, <1>2, <1>3, RtspNothing, RtspAssumption DEF RtspTypes
<1>5. Steady
  BY <1>1, <1>3, RtspNothing, RtspAssumption DEF Steady, FrameOfNow, PacedOrTold, DescribedOrChecked, FoundOut, Camera
<1> QED BY <1>4, <1>5 DEF RtspInv

\* A stream that one thing is set of is one.
LEMMA StreamWith ==
  ASSUME NEW s \in RtspStreams
  PROVE  /\ [s EXCEPT !.ready = TRUE] \in RtspStreams /\ [s EXCEPT !.ready = FALSE] \in RtspStreams
         /\ [s EXCEPT !.rebase = TRUE] \in RtspStreams /\ [s EXCEPT !.rebase = FALSE] \in RtspStreams
         /\ [s EXCEPT !.check = TRUE] \in RtspStreams /\ [s EXCEPT !.check = FALSE] \in RtspStreams
         /\ [s EXCEPT !.quiet = TRUE] \in RtspStreams /\ [s EXCEPT !.quiet = FALSE] \in RtspStreams
         /\ \A n \in {0} \cup TheRtsp!Sets : [s EXCEPT !.desc = n] \in RtspStreams
         /\ \A f \in TheRtsp!Frame : [s EXCEPT !.pending = f] \in RtspStreams
         /\ \A f \in TheRtsp!Frame : [s EXCEPT !.hold = f] \in RtspStreams
         /\ \A n \in Int : [s EXCEPT !.waited = n] \in RtspStreams
         /\ \A n \in 0..Boots : [s EXCEPT !.clock = n] \in RtspStreams
         /\ \A n \in 0..Boots : [s EXCEPT !.real = n] \in RtspStreams
         /\ \A n \in 0..MaxReaders : [s EXCEPT !.readers = n] \in RtspStreams
<1>1. [s EXCEPT !.ready = TRUE] \in RtspStreams /\ [s EXCEPT !.ready = FALSE] \in RtspStreams
  BY DEF RtspStreams
<1>2. [s EXCEPT !.rebase = TRUE] \in RtspStreams /\ [s EXCEPT !.rebase = FALSE] \in RtspStreams
  BY DEF RtspStreams
<1>3. [s EXCEPT !.check = TRUE] \in RtspStreams /\ [s EXCEPT !.check = FALSE] \in RtspStreams
  BY DEF RtspStreams
<1>4. [s EXCEPT !.quiet = TRUE] \in RtspStreams /\ [s EXCEPT !.quiet = FALSE] \in RtspStreams
  BY DEF RtspStreams
<1>5. ASSUME NEW n \in {0} \cup TheRtsp!Sets PROVE [s EXCEPT !.desc = n] \in RtspStreams
  BY DEF RtspStreams
<1>6. ASSUME NEW f \in TheRtsp!Frame PROVE [s EXCEPT !.pending = f] \in RtspStreams /\ [s EXCEPT !.hold = f] \in RtspStreams
  BY DEF RtspStreams
<1>7. ASSUME NEW n \in Int PROVE [s EXCEPT !.waited = n] \in RtspStreams
  BY DEF RtspStreams
<1>8. ASSUME NEW n \in 0..Boots PROVE [s EXCEPT !.clock = n] \in RtspStreams /\ [s EXCEPT !.real = n] \in RtspStreams
  BY DEF RtspStreams
<1>9. ASSUME NEW n \in 0..MaxReaders PROVE [s EXCEPT !.readers = n] \in RtspStreams
  BY DEF RtspStreams
<1> QED BY <1>1, <1>2, <1>3, <1>4, <1>5, <1>6, <1>7, <1>8, <1>9

\* A goroutine that goes on is somewhere, with the frame it has.
LEMMA PlaceWith ==
  ASSUME NEW p \in RtspPlaces
  PROVE  /\ \A at \in {"ready", "observe", "init", "refresh", "compare", "close", "rebuild", "describe", "clock", "write"} :
              /\ [p EXCEPT !.at = at] \in RtspPlaces /\ [p EXCEPT !.at = at].at = at
              /\ [p EXCEPT !.at = at].f = p.f /\ [p EXCEPT !.at = at].key = p.key
         /\ \A f \in TheRtsp!Frame : [p EXCEPT !.key = f] \in RtspPlaces
  BY DEF RtspPlaces

\* One goroutine goes on, and the other is where it was.
LEMMA RtspGoes ==
  ASSUME RtspTypes, NEW g \in TheRtsp!Procs,
         NEW at \in {"ready", "observe", "init", "refresh", "compare", "close", "rebuild", "describe", "clock", "write"},
         TheRtsp!Goes(g, at)
  PROVE  /\ pc' \in [TheRtsp!Procs -> RtspPlaces]
         /\ pc'[g].at = at /\ pc'[g].f = pc[g].f /\ pc'[g].key = pc[g].key
         /\ \A h \in TheRtsp!Procs : h # g => pc'[h] = pc[h]
<1>1. pc \in [TheRtsp!Procs -> RtspPlaces] /\ pc[g] \in RtspPlaces
  BY DEF RtspTypes
<1> DEFINE p == [pc[g] EXCEPT !.at = at]
<1>2. p \in RtspPlaces /\ p.at = at /\ p.f = pc[g].f /\ p.key = pc[g].key
  BY <1>1 DEF RtspPlaces
<1>3. pc' = [pc EXCEPT ![g] = p]
  BY DEF TheRtsp!Goes
<1> HIDE DEF p
<1> QED BY <1>1, <1>2, <1>3

\* One goroutine returns, and the other is where it was.
LEMMA RtspReturns ==
  ASSUME RtspTypes, NEW g \in TheRtsp!Procs, TheRtsp!Returns(g)
  PROVE  /\ pc' \in [TheRtsp!Procs -> RtspPlaces]
         /\ pc'[g].at = "idle"
         /\ \A h \in TheRtsp!Procs : h # g => pc'[h] = pc[h]
<1>1. pc \in [TheRtsp!Procs -> RtspPlaces] /\ TheRtsp!Idle \in RtspPlaces /\ TheRtsp!Idle.at = "idle"
  BY RtspNothing DEF RtspTypes
<1>2. pc' = [pc EXCEPT ![g] = TheRtsp!Idle]
  BY DEF TheRtsp!Returns
<1> QED BY <1>1, <1>2

\* Without hold_picture, whoever is at work is the camera.
LEMMA OnlyCamera ==
  ASSUME RtspInv, ~holding, NEW g \in TheRtsp!Procs, pc[g].at # "idle"
  PROVE  /\ g = "camera" /\ "hold" # g /\ "hold" \in TheRtsp!Procs
         /\ pc["hold"].at = "idle" /\ wrong = {} /\ FrameOfNow /\ PacedOrTold /\ DescribedOrChecked /\ FoundOut
         /\ Camera = pc[g]
  BY DEF RtspInv, Steady, TheRtsp!Procs, Camera

\* What is known of the goroutine at hand.
LEMMA RtspReads ==
  ASSUME RtspInv, NEW g \in TheRtsp!Procs
  PROVE  /\ RtspTypes /\ source \in RtspSources /\ st \in RtspStreams /\ old \in TheRtsp!Frame
         /\ pc \in [TheRtsp!Procs -> RtspPlaces] /\ pc[g] \in RtspPlaces /\ wrong \subseteq {"time", "sets"}
         /\ pc[g].f \in TheRtsp!Frame /\ pc[g].key \in TheRtsp!Frame
         /\ st.pending \in TheRtsp!Frame /\ st.hold \in TheRtsp!Frame /\ st.waited \in Int
         /\ st.real \in 0..Boots /\ st.clock \in 0..Boots /\ st.readers \in 0..MaxReaders
<1>1. /\ RtspTypes /\ source \in RtspSources /\ st \in RtspStreams /\ old \in TheRtsp!Frame
      /\ pc \in [TheRtsp!Procs -> RtspPlaces] /\ pc[g] \in RtspPlaces /\ wrong \subseteq {"time", "sets"}
  BY DEF RtspInv, RtspTypes
<1>2. pc[g].f \in TheRtsp!Frame /\ pc[g].key \in TheRtsp!Frame
  BY <1>1 DEF RtspPlaces
<1>3. /\ st.pending \in TheRtsp!Frame /\ st.hold \in TheRtsp!Frame /\ st.waited \in Int
      /\ st.real \in 0..Boots /\ st.clock \in 0..Boots /\ st.readers \in 0..MaxReaders
  BY <1>1 DEF RtspStreams
<1> QED BY <1>1, <1>2, <1>3

\* A frame that arrives finds the stream described, or not.
LEMMA RtspReady == ASSUME RtspInv, NEW g \in TheRtsp!Procs, TheRtsp!Ready(g) PROVE RtspInv'
<1>1. pc[g].at = "ready" /\ UNCHANGED <<source, holding, st, old, wrong>>
  BY DEF TheRtsp!Ready, TheRtsp!At
<1>2. PICK at \in {"refresh", "observe"} : at = (IF st.ready THEN "refresh" ELSE "observe") /\ TheRtsp!Goes(g, at)
  BY DEF TheRtsp!Ready
<1>3. /\ pc' \in [TheRtsp!Procs -> RtspPlaces]
      /\ pc'[g].at = at /\ pc'[g].f = pc[g].f /\ pc'[g].key = pc[g].key
      /\ \A h \in TheRtsp!Procs : h # g => pc'[h] = pc[h]
  BY <1>2, RtspGoes, RtspReads
<1>4. RtspTypes'
  BY <1>1, <1>3 DEF RtspTypes, RtspInv
<1>5. ASSUME ~holding PROVE Steady'
  <2>1. /\ g = "camera" /\ "hold" # g /\ "hold" \in TheRtsp!Procs /\ Camera = pc[g]
        /\ pc["hold"].at = "idle" /\ wrong = {} /\ FrameOfNow /\ PacedOrTold /\ DescribedOrChecked /\ FoundOut
    BY <1>1, <1>5, OnlyCamera
  <2>2. pc'["hold"].at = "idle" /\ Camera' = pc'[g] /\ wrong' = {}
    BY <1>1, <1>3, <2>1 DEF Camera
  <2>3. FrameOfNow'
    BY <1>1, <1>2, <1>3, <2>1, <2>2 DEF FrameOfNow
  <2>4. PacedOrTold' /\ DescribedOrChecked'
    BY <1>1, <1>2, <1>3, <2>1, <2>2 DEF PacedOrTold, DescribedOrChecked
  <2>5. FoundOut'
    BY <1>1, <1>2, <1>3, <2>1, <2>2 DEF FoundOut
  <2> QED BY <2>2, <2>3, <2>4, <2>5 DEF Steady
<1> QED BY <1>1, <1>4, <1>5 DEF RtspInv

\* A stream is described by a keyframe with parameter sets, unless it is already.
LEMMA RtspDescribed ==
  ASSUME NEW s \in RtspStreams, NEW key \in TheRtsp!Frame, NEW t, t = TheRtsp!Described(s, key)
  PROVE  /\ t \in RtspStreams
         /\ t.rebase = s.rebase /\ t.check = s.check /\ t.clock = s.clock
         /\ \/ t = s /\ (key.sets = 0 \/ s.ready)
            \/ key.sets # 0 /\ ~s.ready /\ t.ready /\ t.desc = key.sets /\ t.pending = TheRtsp!NoFrame
<1>1. CASE key.sets = 0 \/ s.ready
  BY <1>1 DEF TheRtsp!Described
<1>2. CASE ~(key.sets = 0 \/ s.ready)
  <2> DEFINE a == [s EXCEPT !.ready = TRUE]
             b == [a EXCEPT !.desc = key.sets]
             c == [b EXCEPT !.pending = TheRtsp!NoFrame]
  <2>1. t = [s EXCEPT !.ready = TRUE, !.desc = key.sets, !.pending = TheRtsp!NoFrame]
    BY <1>2 DEF TheRtsp!Described
  <2>2. /\ t.rebase = s.rebase /\ t.check = s.check /\ t.clock = s.clock
        /\ t.ready = TRUE /\ t.desc = key.sets /\ t.pending = TheRtsp!NoFrame
    BY <2>1 DEF RtspStreams
  <2>3. t = c
    BY <2>1
  <2>4. key.sets \in {0} \cup TheRtsp!Sets
    BY DEF TheRtsp!Frame
  <2>5. a \in RtspStreams
    BY StreamWith
  <2> HIDE DEF a
  <2>6. b \in RtspStreams
    BY <2>4, <2>5, StreamWith
  <2> HIDE DEF b
  <2>7. c \in RtspStreams
    BY <2>6, StreamWith, RtspNothing
  <2> QED BY <1>2, <2>2, <2>3, <2>7
<1> QED BY <1>1, <1>2

\* The first keyframe is kept until the stream is described.
LEMMA RtspObserve == ASSUME RtspInv, NEW g \in TheRtsp!Procs, TheRtsp!Observe(g) PROVE RtspInv'
<1>1. pc[g].at = "observe" /\ UNCHANGED <<source, holding, old, wrong>>
  BY DEF TheRtsp!Observe, TheRtsp!At
<1>2. CASE TheRtsp!Returns(g) /\ UNCHANGED st
  <2>1. /\ pc' \in [TheRtsp!Procs -> RtspPlaces] /\ pc'[g].at = "idle"
        /\ \A h \in TheRtsp!Procs : h # g => pc'[h] = pc[h]
    BY <1>2, RtspReturns, RtspReads
  <2>2. RtspTypes'
    BY <1>1, <1>2, <2>1 DEF RtspTypes, RtspInv
  <2>3. ASSUME ~holding PROVE Steady'
    <3>1. /\ g = "camera" /\ "hold" # g /\ "hold" \in TheRtsp!Procs /\ Camera = pc[g]
          /\ pc["hold"].at = "idle" /\ wrong = {} /\ FrameOfNow /\ PacedOrTold /\ DescribedOrChecked /\ FoundOut
      BY <1>1, <2>3, OnlyCamera
    <3>2. pc'["hold"].at = "idle" /\ Camera'.at = "idle" /\ wrong' = {}
      BY <1>1, <2>1, <3>1 DEF Camera
    <3>3. FrameOfNow' /\ FoundOut'
      BY <3>2 DEF FrameOfNow, FoundOut
    <3>4. PacedOrTold' /\ DescribedOrChecked'
      BY <1>1, <1>2, <3>1, <3>2 DEF PacedOrTold, DescribedOrChecked
    <3> QED BY <3>2, <3>3, <3>4 DEF Steady
  <2> QED BY <1>1, <2>2, <2>3 DEF RtspInv
<1>3. CASE ~(st.pending = TheRtsp!NoFrame /\ ~pc[g].f.key)
  <2>1. PICK key \in TheRtsp!Frame : key = IF st.pending = TheRtsp!NoFrame THEN pc[g].f ELSE st.pending
    BY RtspReads
  <2>2. PICK waited \in Int : waited = IF st.waited < Probe THEN st.waited + 1 ELSE Probe
    BY RtspReads, RtspAssumption
  <2>3. /\ st' = [st EXCEPT !.pending = key, !.waited = waited]
        /\ IF waited = Probe THEN pc' = [pc EXCEPT ![g].at = "init", ![g].key = key] ELSE TheRtsp!Returns(g)
    BY <1>3, <2>1, <2>2 DEF TheRtsp!Observe
  <2>4. /\ st' \in RtspStreams /\ st'.ready = st.ready /\ st'.check = st.check /\ st'.rebase = st.rebase
        /\ st'.clock = st.clock /\ st'.desc = st.desc /\ st'.pending = key
    <3> DEFINE a == [st EXCEPT !.pending = key]
               b == [a EXCEPT !.waited = waited]
    <3>1. /\ st'.ready = st.ready /\ st'.check = st.check /\ st'.rebase = st.rebase
          /\ st'.clock = st.clock /\ st'.desc = st.desc /\ st'.pending = key
      BY <2>3, RtspReads DEF RtspStreams
    <3>2. st' = b
      BY <2>3
    <3>3. a \in RtspStreams
      BY StreamWith, RtspReads
    <3> HIDE DEF a
    <3>4. b \in RtspStreams
      BY <3>3, StreamWith
    <3> QED BY <3>1, <3>2, <3>4
  <2>5. /\ pc' \in [TheRtsp!Procs -> RtspPlaces] /\ (pc'[g].at = "idle" \/ (pc'[g].at = "init" /\ pc'[g].f = pc[g].f /\ pc'[g].key = key))
        /\ \A h \in TheRtsp!Procs : h # g => pc'[h] = pc[h]
    <3>1. CASE waited = Probe
      <4> DEFINE a == [pc[g] EXCEPT !.at = "init"]
                 p == [a EXCEPT !.key = key]
      <4>1. pc' = [pc EXCEPT ![g] = p]
        BY <2>3, <3>1
      <4>2. a \in RtspPlaces /\ a.at = "init" /\ a.f = pc[g].f
        BY RtspReads DEF RtspPlaces
      <4> HIDE DEF a
      <4>3. p \in RtspPlaces /\ p.at = a.at /\ p.f = a.f /\ p.key = key
        BY <4>2 DEF RtspPlaces
      <4> HIDE DEF p
      <4> QED BY <4>1, <4>2, <4>3, RtspReads
    <3>2. CASE TheRtsp!Returns(g)
      BY <3>2, RtspReturns, RtspReads
    <3> QED BY <2>3, <3>1, <3>2
  <2>6. RtspTypes'
    BY <1>1, <2>4, <2>5 DEF RtspTypes, RtspInv
  <2>7. ASSUME ~holding PROVE Steady'
    <3>1. /\ g = "camera" /\ "hold" # g /\ "hold" \in TheRtsp!Procs /\ Camera = pc[g]
          /\ pc["hold"].at = "idle" /\ wrong = {} /\ FrameOfNow /\ PacedOrTold /\ DescribedOrChecked /\ FoundOut
      BY <1>1, <2>7, OnlyCamera
    <3>2. pc'["hold"].at = "idle" /\ wrong' = {} /\ ~st.ready
          /\ (Camera'.at = "idle" \/ (Camera'.at = "init" /\ Camera'.f = Camera.f /\ Camera'.key = key))
      BY <1>1, <2>5, <3>1 DEF Camera, FoundOut
    <3>3. FrameOfNow'
      BY <1>1, <3>1, <3>2 DEF FrameOfNow
    <3>4. PacedOrTold'
      BY <1>1, <2>4, <3>1 DEF PacedOrTold
    <3>5. Camera.f.sets \in {0, source.sets}
      BY <1>1, <3>1 DEF FrameOfNow
    <3>6. ~st.check => key.sets \in {0, source.sets}
      BY <2>1, <3>1, <3>5 DEF DescribedOrChecked
    <3>7. DescribedOrChecked'
      BY <1>1, <2>4, <3>2, <3>6 DEF DescribedOrChecked
    <3>8. FoundOut'
      BY <3>2 DEF FoundOut
    <3> QED BY <3>2, <3>3, <3>4, <3>7, <3>8 DEF Steady
  <2> QED BY <1>1, <2>6, <2>7 DEF RtspInv
<1> QED BY <1>2, <1>3 DEF TheRtsp!Observe

\* The stream is described by the keyframe that was kept.
LEMMA RtspInitialize == ASSUME RtspInv, NEW g \in TheRtsp!Procs, TheRtsp!Initialize(g) PROVE RtspInv'
<1>1. pc[g].at = "init" /\ UNCHANGED <<source, holding, old, wrong>> /\ st' = TheRtsp!Described(st, pc[g].key)
  BY DEF TheRtsp!Initialize, TheRtsp!At
<1>2. /\ st' \in RtspStreams
      /\ st'.rebase = st.rebase /\ st'.check = st.check /\ st'.clock = st.clock
      /\ \/ st' = st /\ (pc[g].key.sets = 0 \/ st.ready)
         \/ /\ pc[g].key.sets # 0 /\ ~st.ready /\ st'.ready /\ st'.desc = pc[g].key.sets
            /\ st'.pending = TheRtsp!NoFrame
  <2>1. st \in RtspStreams /\ pc[g].key \in TheRtsp!Frame
    BY RtspReads
  <2> QED BY <1>1, <2>1, RtspDescribed
<1>3. \/ TheRtsp!Returns(g)
      \/ st'.ready /\ pc[g].f # TheRtsp!NoFrame /\ TheRtsp!Goes(g, "refresh")
  BY DEF TheRtsp!Initialize
<1>4. /\ pc' \in [TheRtsp!Procs -> RtspPlaces]
      /\ \/ pc'[g].at = "idle"
         \/ pc'[g].at = "refresh" /\ pc'[g].f = pc[g].f /\ st'.ready /\ pc[g].f # TheRtsp!NoFrame
      /\ \A h \in TheRtsp!Procs : h # g => pc'[h] = pc[h]
  BY <1>3, RtspReturns, RtspGoes, RtspReads
<1>5. RtspTypes'
  BY <1>1, <1>2, <1>4 DEF RtspTypes, RtspInv
<1>6. ASSUME ~holding PROVE Steady'
  <2>1. /\ g = "camera" /\ "hold" # g /\ "hold" \in TheRtsp!Procs /\ Camera = pc[g]
        /\ pc["hold"].at = "idle" /\ wrong = {} /\ FrameOfNow /\ PacedOrTold /\ DescribedOrChecked /\ FoundOut
    BY <1>1, <1>6, OnlyCamera
  <2>2. /\ pc'["hold"].at = "idle" /\ wrong' = {}
        /\ \/ Camera'.at = "idle"
           \/ Camera'.at = "refresh" /\ Camera'.f = Camera.f /\ st'.ready /\ Camera.f # TheRtsp!NoFrame
    BY <1>1, <1>4, <2>1 DEF Camera
  <2>3. FrameOfNow'
    BY <1>1, <2>1, <2>2 DEF FrameOfNow
  <2>4. PacedOrTold'
    BY <1>1, <1>2, <2>1 DEF PacedOrTold
  <2>5. st'.ready => st'.pending = TheRtsp!NoFrame
    BY <1>2, <2>1 DEF DescribedOrChecked
  <2>6. ~st.check => /\ st.pending.sets \in {0, source.sets} /\ Camera.key.sets \in {0, source.sets}
                     /\ st.ready => st.desc = source.sets
    BY <1>1, <2>1 DEF DescribedOrChecked
  <2>7. TheRtsp!NoFrame.sets = 0
    BY RtspNothing
  <2>8. DescribedOrChecked'
    BY <1>1, <1>2, <2>1, <2>2, <2>5, <2>6, <2>7 DEF DescribedOrChecked
  <2>9. FoundOut'
    BY <2>2 DEF FoundOut
  <2> QED BY <2>2, <2>3, <2>4, <2>8, <2>9 DEF Steady
<1> QED BY <1>1, <1>5, <1>6 DEF RtspInv

\* A keyframe with sets to compare is compared, once per connection.
LEMMA RtspRefresh == ASSUME RtspInv, NEW g \in TheRtsp!Procs, TheRtsp!Refresh(g) PROVE RtspInv'
<1>1. pc[g].at = "refresh" /\ UNCHANGED <<source, holding, old, wrong>>
  BY DEF TheRtsp!Refresh, TheRtsp!At
<1>2. PICK at \in {"compare", "clock"} :
        /\ at = IF pc[g].f.key /\ st.check /\ pc[g].f.sets # 0 THEN "compare" ELSE "clock"
        /\ UNCHANGED st /\ TheRtsp!Goes(g, at)
  BY DEF TheRtsp!Refresh, TheRtsp!Refreshes
<1>3. /\ pc' \in [TheRtsp!Procs -> RtspPlaces]
      /\ pc'[g].at = at /\ pc'[g].f = pc[g].f /\ pc'[g].key = pc[g].key
      /\ \A h \in TheRtsp!Procs : h # g => pc'[h] = pc[h]
  BY <1>2, RtspGoes, RtspReads
<1>4. RtspTypes'
  BY <1>1, <1>2, <1>3 DEF RtspTypes, RtspInv
<1>5. ASSUME ~holding PROVE Steady'
  <2>1. /\ g = "camera" /\ "hold" # g /\ "hold" \in TheRtsp!Procs /\ Camera = pc[g]
        /\ pc["hold"].at = "idle" /\ wrong = {} /\ FrameOfNow /\ PacedOrTold /\ DescribedOrChecked /\ FoundOut
    BY <1>1, <1>5, OnlyCamera
  <2>2. pc'["hold"].at = "idle" /\ Camera' = pc'[g] /\ wrong' = {}
    BY <1>1, <1>3, <2>1 DEF Camera
  <2>3. FrameOfNow'
    BY <1>1, <1>2, <1>3, <2>1, <2>2 DEF FrameOfNow
  <2>4. PacedOrTold' /\ DescribedOrChecked'
    BY <1>1, <1>2, <1>3, <2>1, <2>2 DEF PacedOrTold, DescribedOrChecked
  <2>5. st.ready /\ (Camera.f.sets # 0 => Camera.f.key /\ Camera.f.sets = source.sets)
    BY <1>1, <2>1 DEF FrameOfNow, FoundOut
  <2>6. at = "clock" /\ Camera.f.sets # 0 => st.desc = Camera.f.sets
    BY <1>1, <1>2, <2>1, <2>5 DEF DescribedOrChecked
  <2>7. at = "compare" => Camera.f.sets # 0
    BY <1>2, <2>1
  <2>8. FoundOut'
    BY <1>2, <1>3, <2>1, <2>2, <2>5, <2>6, <2>7 DEF FoundOut
  <2> QED BY <2>2, <2>3, <2>4, <2>8 DEF Steady
<1> QED BY <1>1, <1>4, <1>5 DEF RtspInv

\* A keyframe of other sets closes the stream; either way the next is not compared.
LEMMA RtspCompare == ASSUME RtspInv, NEW g \in TheRtsp!Procs, TheRtsp!Compare(g) PROVE RtspInv'
<1>1. pc[g].at = "compare" /\ UNCHANGED <<source, holding, old, wrong>> /\ st' = [st EXCEPT !.check = FALSE]
  BY DEF TheRtsp!Compare, TheRtsp!At
<1>2. PICK at \in {"clock", "close"} : at = (IF st.desc = pc[g].f.sets THEN "clock" ELSE "close") /\ TheRtsp!Goes(g, at)
  BY DEF TheRtsp!Compare
<1>3. /\ pc' \in [TheRtsp!Procs -> RtspPlaces]
      /\ pc'[g].at = at /\ pc'[g].f = pc[g].f /\ pc'[g].key = pc[g].key
      /\ \A h \in TheRtsp!Procs : h # g => pc'[h] = pc[h]
  BY <1>2, RtspGoes, RtspReads
<1>4. st' \in RtspStreams
  BY <1>1, StreamWith, RtspReads
<1>5. st'.ready = st.ready /\ st'.pending = st.pending /\ st'.desc = st.desc /\ st'.rebase = st.rebase /\ st'.clock = st.clock
  BY <1>1, RtspReads DEF RtspStreams
<1>6. RtspTypes'
  BY <1>1, <1>3, <1>4 DEF RtspTypes, RtspInv
<1>7. ASSUME ~holding PROVE Steady'
  <2>1. /\ g = "camera" /\ "hold" # g /\ "hold" \in TheRtsp!Procs /\ Camera = pc[g]
        /\ pc["hold"].at = "idle" /\ wrong = {} /\ FrameOfNow /\ PacedOrTold /\ DescribedOrChecked /\ FoundOut
    BY <1>1, <1>7, OnlyCamera
  <2>2. pc'["hold"].at = "idle" /\ Camera' = pc'[g] /\ wrong' = {}
    BY <1>1, <1>3, <2>1 DEF Camera
  <2>3. FrameOfNow'
    BY <1>1, <1>2, <1>3, <2>1, <2>2 DEF FrameOfNow
  <2>4. PacedOrTold'
    BY <1>1, <1>5, <2>1 DEF PacedOrTold
  <2>5. st.ready /\ Camera.f.sets # 0 /\ Camera.f.sets = source.sets
    BY <1>1, <2>1 DEF FrameOfNow, FoundOut
  <2>6. TheRtsp!NoFrame.sets = 0
    BY RtspNothing
  <2>7. DescribedOrChecked'
    BY <1>1, <1>2, <1>3, <1>5, <2>1, <2>2, <2>5, <2>6 DEF DescribedOrChecked
  <2>8. FoundOut'
    BY <1>2, <1>3, <1>5, <2>1, <2>2, <2>5 DEF FoundOut
  <2> QED BY <2>2, <2>3, <2>4, <2>7, <2>8 DEF Steady
<1> QED BY <1>1, <1>6, <1>7 DEF RtspInv

\* A stream that is closed is described by the keyframe that closed it.
LEMMA RtspRebuilt ==
  ASSUME RtspInv, NEW g \in TheRtsp!Procs,
         TheRtsp!CloseStream(g) \/ TheRtsp!Rebuild(g) \/ TheRtsp!Describe(g)
  PROVE  RtspInv'
<1>1. UNCHANGED <<source, holding, old, wrong>>
  BY DEF TheRtsp!CloseStream, TheRtsp!Rebuild, TheRtsp!Describe
<1>2. PICK at \in {"rebuild", "describe", "clock"} :
        /\ TheRtsp!Goes(g, at)
        /\ \/ pc[g].at = "close" /\ at = "rebuild" /\ st' = [st EXCEPT !.ready = FALSE]
           \/ pc[g].at = "rebuild" /\ at = "describe" /\ st' = [st EXCEPT !.pending = TheRtsp!NoFrame]
           \/ pc[g].at = "describe" /\ at = "clock" /\ st' = TheRtsp!Described(st, pc[g].f)
  BY DEF TheRtsp!CloseStream, TheRtsp!Rebuild, TheRtsp!Describe, TheRtsp!At
<1>3. /\ pc' \in [TheRtsp!Procs -> RtspPlaces]
      /\ pc'[g].at = at /\ pc'[g].f = pc[g].f /\ pc'[g].key = pc[g].key
      /\ \A h \in TheRtsp!Procs : h # g => pc'[h] = pc[h]
  BY <1>2, RtspGoes, RtspReads
<1>4. /\ st' \in RtspStreams /\ st'.check = st.check /\ st'.rebase = st.rebase /\ st'.clock = st.clock
      /\ \/ at = "rebuild" /\ ~st'.ready /\ st'.pending = st.pending
         \/ at = "describe" /\ st'.ready = st.ready /\ st'.pending = TheRtsp!NoFrame /\ st'.desc = st.desc
         \/ at = "clock" /\ \/ st' = st /\ (pc[g].f.sets = 0 \/ st.ready)
                            \/ /\ st'.ready /\ st'.desc = pc[g].f.sets
                               /\ st'.pending = TheRtsp!NoFrame
  <2>1. st \in RtspStreams /\ pc[g].f \in TheRtsp!Frame /\ TheRtsp!NoFrame \in TheRtsp!Frame
    BY RtspReads, RtspNothing
  <2>2. CASE at = "rebuild" /\ st' = [st EXCEPT !.ready = FALSE]
    <3>1. st' \in RtspStreams
      BY <2>1, <2>2, StreamWith
    <3>2. st'.check = st.check /\ st'.rebase = st.rebase /\ st'.clock = st.clock /\ st'.ready = FALSE /\ st'.pending = st.pending
      BY <2>1, <2>2 DEF RtspStreams
    <3> QED BY <2>2, <3>1, <3>2
  <2>3. CASE at = "describe" /\ st' = [st EXCEPT !.pending = TheRtsp!NoFrame]
    <3>1. st' \in RtspStreams
      BY <2>1, <2>3, StreamWith
    <3>2. /\ st'.check = st.check /\ st'.rebase = st.rebase /\ st'.clock = st.clock /\ st'.ready = st.ready
          /\ st'.pending = TheRtsp!NoFrame /\ st'.desc = st.desc
      BY <2>1, <2>3 DEF RtspStreams
    <3> QED BY <2>3, <3>1, <3>2
  <2>4. CASE at = "clock" /\ st' = TheRtsp!Described(st, pc[g].f)
    BY <2>1, <2>4, RtspDescribed
  <2> QED BY <1>2, <2>2, <2>3, <2>4
<1>5. RtspTypes'
  BY <1>1, <1>3, <1>4 DEF RtspTypes, RtspInv
<1>6. ASSUME ~holding PROVE Steady'
  <2>0. pc[g].at \in {"close", "rebuild", "describe"}
    BY <1>2
  <2>1. /\ g = "camera" /\ "hold" # g /\ "hold" \in TheRtsp!Procs /\ Camera = pc[g]
        /\ pc["hold"].at = "idle" /\ wrong = {} /\ FrameOfNow /\ PacedOrTold /\ DescribedOrChecked /\ FoundOut
    BY <2>0, <1>6, OnlyCamera
  <2>2. pc'["hold"].at = "idle" /\ Camera' = pc'[g] /\ wrong' = {}
    BY <1>1, <1>3, <2>1 DEF Camera
  <2>3. FrameOfNow'
    BY <1>1, <1>2, <1>3, <2>0, <2>1, <2>2 DEF FrameOfNow
  <2>4. PacedOrTold'
    BY <1>1, <1>4, <2>1 DEF PacedOrTold
  <2>5. /\ Camera.f.sets # 0 /\ Camera.f.sets = source.sets
        /\ Camera.at \in {"rebuild", "describe"} => ~st.ready
    BY <2>0, <2>1 DEF FrameOfNow, FoundOut
  <2>6. TheRtsp!NoFrame.sets = 0
    BY RtspNothing
  <2>7. DescribedOrChecked'
    <3>1. ~st.check => st.pending.sets \in {0, source.sets}
      BY <2>1 DEF DescribedOrChecked
    <3>2. Camera'.at \notin {"init", "close"}
      BY <1>2, <1>3, <2>2
    <3>3. at = "clock" => st'.ready /\ st'.desc = source.sets /\ st'.pending = TheRtsp!NoFrame
      BY <1>2, <1>4, <2>1, <2>5
    <3>4. at # "clock" => ~st'.ready
      BY <1>2, <1>4, <2>1, <2>5
    <3>5. ~st.check => st'.pending.sets \in {0, source.sets}
      BY <1>4, <2>6, <3>1, <3>3
    <3> QED BY <1>1, <1>4, <3>2, <3>3, <3>4, <3>5 DEF DescribedOrChecked
  <2>8. FoundOut'
    <3>1. at = "clock" => st'.desc = Camera.f.sets
      BY <1>2, <1>4, <2>1, <2>5
    <3>2. at # "clock" => ~st'.ready
      BY <1>2, <1>4, <2>1, <2>5
    <3> QED BY <1>2, <1>3, <2>1, <2>2, <2>5, <3>1, <3>2 DEF FoundOut
  <2> QED BY <2>2, <2>3, <2>4, <2>7, <2>8 DEF Steady
<1> QED BY <1>1, <1>5, <1>6 DEF RtspInv

\* The first frame of a connection puts the clock on its timeline.
LEMMA RtspClock == ASSUME RtspInv, NEW g \in TheRtsp!Procs, TheRtsp!Clock(g) PROVE RtspInv'
<1>1. pc[g].at = "clock" /\ UNCHANGED <<source, holding, old>>
  BY DEF TheRtsp!Clock, TheRtsp!At
<1>2. PICK clock \in 0..Boots : clock = IF st.clock = 0 \/ st.rebase THEN pc[g].f.boot ELSE st.clock
  BY RtspReads DEF TheRtsp!Frame
<1>3. /\ st' = [st EXCEPT !.clock = clock, !.rebase = FALSE]
      /\ wrong' = IF ~(st.clock = 0 \/ st.rebase) /\ pc[g].f.boot # st.clock THEN wrong \cup {"time"} ELSE wrong
      /\ TheRtsp!Goes(g, "write")
  <2>1. st' = [st EXCEPT !.clock = IF st.clock = 0 \/ st.rebase THEN pc[g].f.boot ELSE @, !.rebase = FALSE]
    BY DEF TheRtsp!Clock
  <2> QED BY <1>2, <2>1 DEF TheRtsp!Clock
<1>4. /\ pc' \in [TheRtsp!Procs -> RtspPlaces]
      /\ pc'[g].at = "write" /\ pc'[g].f = pc[g].f /\ pc'[g].key = pc[g].key
      /\ \A h \in TheRtsp!Procs : h # g => pc'[h] = pc[h]
  BY <1>3, RtspGoes, RtspReads
<1>5. st' \in RtspStreams
  <2> DEFINE a == [st EXCEPT !.clock = clock]
             b == [a EXCEPT !.rebase = FALSE]
  <2>1. st' = b
    BY <1>3
  <2>2. a \in RtspStreams
    BY StreamWith, RtspReads
  <2> HIDE DEF a
  <2> QED BY <2>1, <2>2, StreamWith
<1>6. /\ st'.ready = st.ready /\ st'.pending = st.pending /\ st'.desc = st.desc /\ st'.check = st.check
      /\ st'.clock = clock
  BY <1>3, RtspReads DEF RtspStreams
<1>7. wrong' \subseteq {"time", "sets"}
  BY <1>3, RtspReads
<1>8. RtspTypes'
  BY <1>1, <1>4, <1>5, <1>7 DEF RtspTypes, RtspInv
<1>9. ASSUME ~holding PROVE Steady'
  <2>1. /\ g = "camera" /\ "hold" # g /\ "hold" \in TheRtsp!Procs /\ Camera = pc[g]
        /\ pc["hold"].at = "idle" /\ wrong = {} /\ FrameOfNow /\ PacedOrTold /\ DescribedOrChecked /\ FoundOut
    BY <1>1, <1>9, OnlyCamera
  <2>2. pc'["hold"].at = "idle" /\ Camera' = pc'[g]
    BY <1>4, <2>1 DEF Camera
  <2>3. Camera.f.boot = source.boot
    BY <1>1, <2>1 DEF FrameOfNow
  <2>4. clock = source.boot /\ wrong' = {}
    BY <1>2, <1>3, <2>1, <2>3 DEF PacedOrTold
  <2>5. FrameOfNow'
    BY <1>1, <1>4, <2>1, <2>2 DEF FrameOfNow
  <2>6. PacedOrTold'
    BY <1>1, <1>6, <2>4 DEF PacedOrTold
  <2>7. DescribedOrChecked'
    BY <1>1, <1>4, <1>6, <2>1, <2>2 DEF DescribedOrChecked
  <2>8. FoundOut'
    BY <1>1, <1>4, <1>6, <2>1, <2>2 DEF FoundOut
  <2> QED BY <2>2, <2>4, <2>5, <2>6, <2>7, <2>8 DEF Steady
<1> QED BY <1>1, <1>8, <1>9 DEF RtspInv

\* What is written is described.
LEMMA RtspWrite == ASSUME RtspInv, NEW g \in TheRtsp!Procs, TheRtsp!Write(g) PROVE RtspInv'
<1>1. pc[g].at = "write" /\ UNCHANGED <<source, holding, old, st>> /\ TheRtsp!Returns(g)
  BY DEF TheRtsp!Write, TheRtsp!At
<1>2. wrong' = wrong \/ (wrong' = wrong \cup {"sets"} /\ st.ready /\ pc[g].f.sets \notin {0, st.desc})
  BY DEF TheRtsp!Write
<1>3. /\ pc' \in [TheRtsp!Procs -> RtspPlaces] /\ pc'[g].at = "idle"
      /\ \A h \in TheRtsp!Procs : h # g => pc'[h] = pc[h]
  BY <1>1, RtspReturns, RtspReads
<1>4. wrong' \subseteq {"time", "sets"}
  BY <1>2, RtspReads
<1>5. RtspTypes'
  BY <1>1, <1>3, <1>4 DEF RtspTypes, RtspInv
<1>6. ASSUME ~holding PROVE Steady'
  <2>1. /\ g = "camera" /\ "hold" # g /\ "hold" \in TheRtsp!Procs /\ Camera = pc[g]
        /\ pc["hold"].at = "idle" /\ wrong = {} /\ FrameOfNow /\ PacedOrTold /\ DescribedOrChecked /\ FoundOut
    BY <1>1, <1>6, OnlyCamera
  <2>2. pc'["hold"].at = "idle" /\ Camera'.at = "idle"
    BY <1>3, <2>1 DEF Camera
  <2>3. wrong' = {}
    BY <1>1, <1>2, <2>1 DEF FoundOut
  <2>4. FrameOfNow' /\ FoundOut'
    BY <2>2 DEF FrameOfNow, FoundOut
  <2>5. PacedOrTold' /\ DescribedOrChecked'
    BY <1>1, <2>1, <2>2 DEF PacedOrTold, DescribedOrChecked
  <2> QED BY <2>2, <2>3, <2>4, <2>5 DEF Steady
<1> QED BY <1>1, <1>5, <1>6 DEF RtspInv

\* A camera that connects is to be timed anew, and its description compared.
LEMMA RtspConnect == ASSUME RtspInv, TheRtsp!Connect PROVE RtspInv'
<1>1. pc["camera"].at = "idle" /\ UNCHANGED <<holding, old, pc, wrong>> /\ st' = [st EXCEPT !.rebase = TRUE, !.check = TRUE]
  BY DEF TheRtsp!Connect, TheRtsp!At, TheRtsp!Connected
<1>2. source \in RtspSources /\ st \in RtspStreams /\ RtspTypes
  BY DEF RtspInv, RtspTypes
<1>3. source' \in RtspSources
  <2>1. CASE source' = [source EXCEPT !.up = TRUE]
    BY <1>2, <2>1 DEF RtspSources
  <2>2. ASSUME source.boot < Boots, NEW n \in TheRtsp!Sets, source' = [up |-> TRUE, boot |-> source.boot + 1, sets |-> n]
        PROVE  source' \in RtspSources
    <3>1. source.boot + 1 \in 1..Boots
      BY <1>2, <2>2, RtspAssumption DEF RtspSources
    <3> QED BY <2>2, <3>1 DEF RtspSources
  <2> QED BY <2>1, <2>2 DEF TheRtsp!Connect
<1>4. st' \in RtspStreams
  <2> DEFINE a == [st EXCEPT !.rebase = TRUE]
             b == [a EXCEPT !.check = TRUE]
  <2>1. st' = b
    BY <1>1
  <2>2. a \in RtspStreams
    BY <1>2, StreamWith
  <2> HIDE DEF a
  <2> QED BY <2>1, <2>2, StreamWith
<1>5. st'.rebase /\ st'.check /\ st'.ready = st.ready /\ st'.pending = st.pending
  BY <1>1, <1>2 DEF RtspStreams
<1>6. RtspTypes'
  BY <1>1, <1>2, <1>3, <1>4 DEF RtspTypes
<1>7. ASSUME ~holding PROVE Steady'
  <2>1. Steady /\ Camera'.at = "idle"
    BY <1>1, <1>7 DEF RtspInv, Camera
  <2>2. FrameOfNow' /\ FoundOut' /\ PacedOrTold'
    BY <1>5, <2>1 DEF FrameOfNow, FoundOut, PacedOrTold
  <2>3. DescribedOrChecked'
    BY <1>5, <2>1 DEF Steady, DescribedOrChecked
  <2> QED BY <1>1, <2>1, <2>2, <2>3 DEF Steady
<1> QED BY <1>1, <1>6, <1>7 DEF RtspInv

\* What changes nothing the camera's goroutine looks at keeps what it knows.
LEMMA RtspBeside ==
  ASSUME RtspInv, UNCHANGED <<holding, old, pc, wrong>>, source' \in RtspSources, st' \in RtspStreams,
         source'.boot = source.boot, source'.sets = source.sets,
         st'.ready = st.ready, st'.pending = st.pending, st'.desc = st.desc, st'.check = st.check,
         st'.rebase = st.rebase, st'.clock = st.clock
  PROVE  RtspInv'
<1>1. RtspTypes'
  BY DEF RtspInv, RtspTypes
<1>2. ASSUME ~holding PROVE Steady'
  <2>1. Steady /\ Camera' = Camera
    BY <1>2 DEF RtspInv, Camera
  <2>2. FrameOfNow'
    BY <2>1 DEF Steady, FrameOfNow
  <2>3. PacedOrTold' /\ DescribedOrChecked'
    BY <2>1 DEF Steady, PacedOrTold, DescribedOrChecked
  <2>4. FoundOut'
    BY <2>1 DEF Steady, FoundOut
  <2> QED BY <2>1, <2>2, <2>3, <2>4 DEF Steady
<1> QED BY <1>1, <1>2 DEF RtspInv

\* A camera that goes, a picture that stands still, and readers who come and go.
LEMMA RtspAround ==
  ASSUME RtspInv,
         \/ TheRtsp!Disconnect \/ TheRtsp!Quieten
         \/ \E s \in Sessions : TheRtsp!Setup(s) \/ TheRtsp!Play(s) \/ TheRtsp!SessionClose(s)
  PROVE  RtspInv'
<1>1. source \in RtspSources /\ st \in RtspStreams /\ st.readers \in 0..MaxReaders
  BY DEF RtspInv, RtspTypes, RtspStreams
<1>2. CASE TheRtsp!Disconnect
  <2>1. source' = [source EXCEPT !.up = FALSE] /\ UNCHANGED <<holding, old, pc, wrong, st>>
    BY <1>2 DEF TheRtsp!Disconnect
  <2>2. source' \in RtspSources /\ source'.boot = source.boot /\ source'.sets = source.sets
    BY <1>1, <2>1 DEF RtspSources
  <2> QED BY <1>1, <2>1, <2>2, RtspBeside
<1>3. CASE TheRtsp!Quieten
  <2>1. st' = [st EXCEPT !.quiet = TRUE] /\ UNCHANGED <<holding, old, pc, wrong, source>>
    BY <1>3 DEF TheRtsp!Quieten
  <2>2. st' \in RtspStreams
    BY <1>1, <2>1, StreamWith
  <2>3. /\ st'.ready = st.ready /\ st'.pending = st.pending /\ st'.desc = st.desc /\ st'.check = st.check
        /\ st'.rebase = st.rebase /\ st'.clock = st.clock
    BY <1>1, <2>1 DEF RtspStreams
  <2> QED BY <1>1, <2>1, <2>2, <2>3, RtspBeside
<1>4. ASSUME NEW n \in 0..MaxReaders, st' = [st EXCEPT !.readers = n], UNCHANGED <<holding, old, pc, wrong, source>>
      PROVE  RtspInv'
  <2>1. st' \in RtspStreams
    BY <1>1, <1>4, StreamWith
  <2>2. /\ st'.ready = st.ready /\ st'.pending = st.pending /\ st'.desc = st.desc /\ st'.check = st.check
        /\ st'.rebase = st.rebase /\ st'.clock = st.clock
    BY <1>1, <1>4 DEF RtspStreams
  <2> QED BY <1>1, <1>4, <2>1, <2>2, RtspBeside
<1>5. ASSUME UNCHANGED <<source, holding, st, old, pc, wrong>> PROVE RtspInv'
  BY <1>1, <1>5, RtspBeside
<1>6. ASSUME NEW s \in Sessions, TheRtsp!Setup(s) PROVE RtspInv'
  BY <1>5, <1>6 DEF TheRtsp!Setup
<1>7. ASSUME NEW s \in Sessions, TheRtsp!Play(s) PROVE RtspInv'
  <2>1. UNCHANGED <<source, holding, old, pc, wrong>>
    BY <1>7 DEF TheRtsp!Play
  <2>2. CASE session[s].on = "st"
    <3>1. PICK n \in 0..MaxReaders : n = st.readers + 1
      BY <1>1, <1>7, <2>2, RtspAssumption DEF TheRtsp!Play
    <3>2. st' = [st EXCEPT !.readers = n]
      BY <1>7, <2>2, <3>1 DEF TheRtsp!Play
    <3> QED BY <1>4, <2>1, <3>2
  <2>3. CASE session[s].on # "st"
    BY <1>5, <1>7, <2>1, <2>3 DEF TheRtsp!Play
  <2> QED BY <2>2, <2>3
<1>8. ASSUME NEW s \in Sessions, TheRtsp!SessionClose(s) PROVE RtspInv'
  <2>1. UNCHANGED <<source, holding, old, pc, wrong>>
    BY <1>8 DEF TheRtsp!SessionClose
  <2>2. CASE session[s].on = "st" /\ st.readers > 0
    <3>1. PICK n \in 0..MaxReaders : n = st.readers - 1
      BY <1>1, <2>2, RtspAssumption
    <3>2. st' = [st EXCEPT !.readers = n]
      BY <1>8, <2>2, <3>1 DEF TheRtsp!SessionClose
    <3> QED BY <1>4, <2>1, <3>2
  <2>3. CASE ~(session[s].on = "st" /\ st.readers > 0)
    BY <1>5, <1>8, <2>1, <2>3 DEF TheRtsp!SessionClose
  <2> QED BY <2>2, <2>3
<1> QED BY <1>2, <1>3, <1>6, <1>7, <1>8

\* A frame of the camera carries the sets it sends, and its clock.
LEMMA RtspVideo == ASSUME RtspInv, TheRtsp!VideoFrame PROVE RtspInv'
<1>1. source \in RtspSources /\ st \in RtspStreams /\ RtspTypes /\ pc \in [TheRtsp!Procs -> RtspPlaces] /\ st.hold \in TheRtsp!Frame
      /\ "camera" \in TheRtsp!Procs /\ "hold" \in TheRtsp!Procs
  BY DEF RtspInv, RtspTypes, RtspStreams, TheRtsp!Procs
<1>2. source.sets \in TheRtsp!Sets /\ source.boot \in 0..Boots
  BY <1>1, RtspAssumption DEF RtspSources
<1>3. PICK key \in BOOLEAN, sets \in {0, source.sets} :
        /\ ~key => sets = 0
        /\ pc' = [pc EXCEPT !["camera"] = [at |-> "ready", f |-> [key |-> key, sets |-> sets, boot |-> source.boot],
                                           key |-> TheRtsp!NoFrame]]
        /\ st' = [st EXCEPT !.real = source.boot, !.quiet = FALSE,
                            !.hold = IF key THEN [key |-> key, sets |-> sets, boot |-> source.boot] ELSE @]
  BY DEF TheRtsp!VideoFrame
<1>4. UNCHANGED <<source, holding, old, wrong>> /\ pc["camera"].at = "idle"
  BY DEF TheRtsp!VideoFrame, TheRtsp!At
<1>5. PICK f \in TheRtsp!Frame : f = [key |-> key, sets |-> sets, boot |-> source.boot]
  BY <1>2 DEF TheRtsp!Frame
<1>6. f.sets = sets /\ f.boot = source.boot /\ (f.sets # 0 => f.key)
  BY <1>3, <1>5
<1>7. PICK shown \in TheRtsp!Frame : shown = IF key THEN f ELSE st.hold
  BY <1>1
<1>8. /\ st' \in RtspStreams
      /\ st'.ready = st.ready /\ st'.pending = st.pending /\ st'.desc = st.desc /\ st'.check = st.check
      /\ st'.rebase = st.rebase /\ st'.clock = st.clock
  <2>1. st' = [st EXCEPT !.real = source.boot, !.quiet = FALSE, !.hold = shown]
    BY <1>3, <1>5, <1>7
  <2> DEFINE a == [st EXCEPT !.real = source.boot]
             b == [a EXCEPT !.quiet = FALSE]
             c == [b EXCEPT !.hold = shown]
  <2>2. st' = c
    BY <2>1
  <2>3. a \in RtspStreams
    BY <1>1, <1>2, StreamWith
  <2>4. /\ st'.ready = st.ready /\ st'.pending = st.pending /\ st'.desc = st.desc /\ st'.check = st.check
        /\ st'.rebase = st.rebase /\ st'.clock = st.clock
    BY <1>1, <2>1 DEF RtspStreams
  <2> HIDE DEF a
  <2>5. b \in RtspStreams
    BY <2>3, StreamWith
  <2> HIDE DEF b
  <2>6. c \in RtspStreams
    BY <2>5, StreamWith
  <2> QED BY <2>2, <2>4, <2>6
<1>9. /\ pc' \in [TheRtsp!Procs -> RtspPlaces] /\ pc'["camera"].at = "ready" /\ pc'["camera"].f = f /\ pc'["hold"] = pc["hold"]
  <2> DEFINE p == [at |-> "ready", f |-> f, key |-> TheRtsp!NoFrame]
  <2>1. p \in RtspPlaces /\ p.at = "ready" /\ p.f = f
    BY RtspNothing DEF RtspPlaces
  <2>2. pc' = [pc EXCEPT !["camera"] = p]
    BY <1>3, <1>5
  <2> HIDE DEF p
  <2> QED BY <1>1, <2>1, <2>2
<1>10. RtspTypes'
  BY <1>1, <1>4, <1>8, <1>9 DEF RtspTypes
<1>11. ASSUME ~holding PROVE Steady'
  <2>1. Steady /\ Camera.at = "idle" /\ Camera'.at = "ready" /\ Camera'.f = f /\ pc'["hold"].at = "idle"
    BY <1>4, <1>9, <1>11 DEF RtspInv, Camera, Steady
  <2>2. FrameOfNow'
    BY <1>3, <1>4, <1>6, <2>1 DEF FrameOfNow
  <2>3. PacedOrTold' /\ DescribedOrChecked'
    BY <1>4, <1>8, <2>1 DEF Steady, PacedOrTold, DescribedOrChecked
  <2>4. FoundOut'
    BY <2>1 DEF FoundOut
  <2> QED BY <1>4, <2>1, <2>2, <2>3, <2>4 DEF Steady
<1> QED BY <1>4, <1>10, <1>11 DEF RtspInv

\* The audio's settings end the wait for them.
LEMMA RtspAudio == ASSUME RtspInv, TheRtsp!ObserveAudio PROVE RtspInv'
<1>1. st \in RtspStreams /\ RtspTypes /\ pc \in [TheRtsp!Procs -> RtspPlaces] /\ st.pending \in TheRtsp!Frame
      /\ "camera" \in TheRtsp!Procs /\ "hold" \in TheRtsp!Procs
  BY DEF RtspInv, RtspTypes, RtspStreams, TheRtsp!Procs
<1>2. /\ pc["camera"].at = "idle" /\ UNCHANGED <<source, holding, old, wrong>> /\ st' = [st EXCEPT !.waited = Probe]
      /\ \/ UNCHANGED pc
         \/ pc' = [pc EXCEPT !["camera"] = [at |-> "init", f |-> TheRtsp!NoFrame, key |-> st.pending]]
  BY DEF TheRtsp!ObserveAudio, TheRtsp!At
<1>3. st' \in RtspStreams
  <2>1. Probe \in Int
    BY RtspAssumption
  <2> QED BY <1>1, <1>2, <2>1, StreamWith
<1>4. /\ st'.ready = st.ready /\ st'.pending = st.pending /\ st'.desc = st.desc /\ st'.check = st.check
      /\ st'.rebase = st.rebase /\ st'.clock = st.clock
  BY <1>1, <1>2 DEF RtspStreams
<1>5. CASE UNCHANGED pc
  BY <1>1, <1>2, <1>3, <1>4, <1>5, RtspBeside DEF RtspTypes
<1>6. CASE pc' = [pc EXCEPT !["camera"] = [at |-> "init", f |-> TheRtsp!NoFrame, key |-> st.pending]]
  <2>1. /\ pc' \in [TheRtsp!Procs -> RtspPlaces] /\ pc'["camera"].at = "init" /\ pc'["camera"].f = TheRtsp!NoFrame
        /\ pc'["camera"].key = st.pending /\ pc'["hold"] = pc["hold"]
    <3> DEFINE p == [at |-> "init", f |-> TheRtsp!NoFrame, key |-> st.pending]
    <3>1. p \in RtspPlaces /\ p.at = "init" /\ p.f = TheRtsp!NoFrame /\ p.key = st.pending
      BY <1>1, RtspNothing DEF RtspPlaces
    <3>2. pc' = [pc EXCEPT !["camera"] = p]
      BY <1>6
    <3> HIDE DEF p
    <3> QED BY <1>1, <3>1, <3>2
  <2>2. RtspTypes'
    BY <1>1, <1>2, <1>3, <2>1 DEF RtspTypes
  <2>3. ASSUME ~holding PROVE Steady'
    <3>1. /\ Steady /\ Camera.at = "idle" /\ Camera'.at = "init" /\ Camera'.f = TheRtsp!NoFrame /\ Camera'.key = st.pending
          /\ pc'["hold"].at = "idle" /\ TheRtsp!NoFrame.sets = 0
      BY <1>2, <2>1, <2>3, RtspNothing DEF RtspInv, Camera, Steady
    <3>2. FrameOfNow' /\ FoundOut'
      BY <3>1 DEF FrameOfNow, FoundOut
    <3>3. PacedOrTold' /\ DescribedOrChecked'
      BY <1>2, <1>4, <3>1 DEF Steady, PacedOrTold, DescribedOrChecked
    <3> QED BY <1>2, <3>1, <3>2, <3>3 DEF Steady
  <2> QED BY <1>2, <2>2, <2>3 DEF RtspInv
<1> QED BY <1>2, <1>5, <1>6

\* A picture that is held is a frame.
LEMMA RtspHold == ASSUME RtspInv, TheRtsp!Hold PROVE RtspInv'
<1>1. RtspTypes /\ pc \in [TheRtsp!Procs -> RtspPlaces] /\ st.hold \in TheRtsp!Frame /\ st.real \in 0..Boots
      /\ "hold" \in TheRtsp!Procs
  BY DEF RtspInv, RtspTypes, RtspStreams, TheRtsp!Procs
<1>2. /\ holding /\ UNCHANGED <<source, holding, st, old, wrong>>
      /\ pc' = [pc EXCEPT !["hold"] = [at |-> "ready", f |-> [st.hold EXCEPT !.boot = st.real], key |-> TheRtsp!NoFrame]]
  BY DEF TheRtsp!Hold
<1>3. [st.hold EXCEPT !.boot = st.real] \in TheRtsp!Frame
  BY <1>1 DEF TheRtsp!Frame
<1>4. [at |-> "ready", f |-> [st.hold EXCEPT !.boot = st.real], key |-> TheRtsp!NoFrame] \in RtspPlaces
  BY <1>3, RtspNothing DEF RtspPlaces
<1>5. RtspTypes'
  BY <1>1, <1>2, <1>4 DEF RtspTypes
<1> QED BY <1>2, <1>5 DEF RtspInv

\* A stream that takes another's place begins anew.
LEMMA RtspAdd == ASSUME RtspInv, TheRtsp!Add PROVE RtspInv'
<1>1. RtspTypes /\ st.hold \in TheRtsp!Frame /\ "hold" \in TheRtsp!Procs /\ "camera" \in TheRtsp!Procs
  BY DEF RtspInv, RtspTypes, RtspStreams, TheRtsp!Procs
<1>2. /\ old' = st.hold /\ st' = TheRtsp!New /\ UNCHANGED <<source, holding, pc, wrong>>
      /\ pc = [g \in TheRtsp!Procs |-> TheRtsp!Idle]
  BY DEF TheRtsp!Add
<1>3. RtspTypes'
  BY <1>1, <1>2, RtspNothing DEF RtspTypes
<1>4. ASSUME ~holding PROVE Steady'
  <2>1. Steady /\ Camera' = TheRtsp!Idle /\ pc'["hold"].at = "idle" /\ wrong' = {}
    BY <1>1, <1>2, <1>4 DEF RtspInv, Steady, Camera
  <2>2. FrameOfNow' /\ PacedOrTold' /\ DescribedOrChecked' /\ FoundOut'
    BY <1>2, <2>1, RtspNothing DEF FrameOfNow, PacedOrTold, DescribedOrChecked, FoundOut
  <2> QED BY <2>1, <2>2 DEF Steady
<1> QED BY <1>2, <1>3, <1>4 DEF RtspInv

\* What comes from cameras, readers and the clock keeps the stream steady.
LEMMA RtspStep == ASSUME RtspInv, [TheRtsp!Next]_rtspVars PROVE RtspInv'
<1>1. CASE UNCHANGED rtspVars
  <2>1. UNCHANGED <<source, holding, st, old, pc, wrong>>
    BY <1>1 DEF rtspVars
  <2>2. source' \in RtspSources /\ st' \in RtspStreams
    BY <2>1 DEF RtspInv, RtspTypes
  <2> QED BY <2>1, <2>2, RtspBeside
<1>2. ASSUME NEW g \in TheRtsp!Procs, TheRtsp!Step(g) PROVE RtspInv'
  BY <1>2, RtspReady, RtspObserve, RtspInitialize, RtspRefresh, RtspCompare, RtspRebuilt, RtspClock, RtspWrite DEF TheRtsp!Step
<1>3. CASE TheRtsp!Next
  BY <1>2, <1>3, RtspConnect, RtspAround, RtspVideo, RtspAudio, RtspHold, RtspAdd DEF TheRtsp!Next
<1> QED BY <1>1, <1>3

\* No reader is given a time of another timeline, or sets not described, if no picture is held.
LEMMA RtspFaithfully == RtspInv => TheRtsp!Faithful
<1> SUFFICES ASSUME RtspInv PROVE TheRtsp!Faithful
  OBVIOUS
<1>1. /\ source \in RtspSources /\ st \in RtspStreams /\ old \in TheRtsp!Frame /\ wrong \subseteq {"time", "sets"}
      /\ ~holding => wrong = {}
  BY DEF RtspInv, RtspTypes, Steady
<1>2. st.desc \in {0} \cup TheRtsp!Sets /\ st.readers \in 0..MaxReaders /\ st.pending \in TheRtsp!Frame /\ st.hold \in TheRtsp!Frame
  BY <1>1 DEF RtspStreams
<1> QED BY <1>1, <1>2 DEF TheRtsp!Faithful, TheRtsp!TypeOK, RtspSources

-----------------------------------------------------------------------------
(* The muxer. *)

\* A quotient is what it is rounded down from, but for less than one divisor.
LEMMA Quotient ==
  ASSUME NEW a \in Int, NEW d \in Nat, d > 0
  PROVE  a \div d \in Int /\ d * (a \div d) <= a /\ a < d * (a \div d) + d
  OBVIOUS

\* Of two multiples less than one apart, the first is no more.
LEMMA Smaller ==
  ASSUME NEW p \in Int, NEW q \in Int, NEW d \in Nat, d > 0, d * p < d * q + d
  PROVE  p <= q
  OBVIOUS

\* What is rounded down from more is more.
LEMMA QuotientGrows ==
  ASSUME NEW a \in Int, NEW b \in Int, NEW d \in Nat, d > 0, a <= b
  PROVE  a \div d <= b \div d
<1>1. PICK p \in Int : p = a \div d /\ d * p <= a
  BY Quotient
<1>2. PICK q \in Int : q = b \div d /\ b < d * q + d
  BY Quotient
<1>3. PICK x \in Int : x = d * p
  BY <1>1
<1>4. PICK y \in Int : y = d * q
  BY <1>2
<1>5. d * p < d * q + d
  BY <1>1, <1>2, <1>3, <1>4
<1>6. p <= q
  BY <1>5, Smaller
<1> QED BY <1>1, <1>2, <1>6

\* Two quotients do not exceed that of the sum.
LEMMA QuotientSum ==
  ASSUME NEW a \in Int, NEW b \in Int, NEW d \in Nat, d > 0
  PROVE  (a \div d) + (b \div d) <= (a + b) \div d
<1>1. PICK p \in Int : p = a \div d /\ d * p <= a
  BY Quotient
<1>2. PICK q \in Int : q = b \div d /\ d * q <= b
  BY Quotient
<1>3. PICK r \in Int : r = (a + b) \div d /\ a + b < d * r + d
  BY Quotient
<1>4. d * (p + q) = d * p + d * q /\ d * p \in Int /\ d * q \in Int /\ d * r \in Int
  BY <1>1, <1>2, <1>3
<1>5. d * (p + q) < d * r + d
  BY <1>1, <1>2, <1>3, <1>4
<1>6. p + q <= r
  BY <1>1, <1>2, <1>3, <1>5, Smaller
<1> QED BY <1>1, <1>2, <1>3, <1>6

\* A remainder is what is left of a number.
LEMMA Remainder ==
  ASSUME NEW k \in Int, NEW y \in Int, NEW w \in Nat, 0 <= y, y < w
  PROVE  (k * w + y) % w = y
  OBVIOUS

MuxAudios == [started : BOOLEAN, anchor : Int, samples : Nat, rate : Nat, frame : Nat, at : Int, end : Int, video : Int]

\* Audio is where counting its samples puts it, from the place it was last put.
AudioInv ==
  /\ audio \in MuxAudios
  /\ ~audio.started => audio.at = 0 /\ audio.frame = 0
  /\ audio.started => /\ audio.rate > 0 /\ audio.samples >= audio.frame
                      /\ audio.at = audio.anchor + TheMuxer!Ticks(audio.samples - audio.frame, audio.rate)
  /\ TheMuxer!InStep

\* No samples take no time, and two frames no more than their samples together.
LEMMA TicksAdd ==
  ASSUME NEW s \in Nat, NEW t \in Nat, NEW r \in Nat, r > 0
  PROVE  /\ TheMuxer!Ticks(s, r) \in Nat /\ TheMuxer!Ticks(0, r) = 0
         /\ TheMuxer!Ticks(s, r) + TheMuxer!Ticks(t, r) <= TheMuxer!Ticks(s + t, r)
<1>1. Second \in Nat
  BY MuxerAssumption
<1>2. PICK a \in Nat : a = s * Second
  BY <1>1
<1>3. PICK b \in Nat : b = t * Second
  BY <1>1
<1>4. a + b = (s + t) * Second
  BY <1>1, <1>2, <1>3
<1>5. (a \div r) + (b \div r) <= (a + b) \div r
  BY QuotientSum
<1>6. 0 \div r = 0 /\ 0 * Second = 0
  BY <1>1
<1>7. a \div r >= 0 /\ a \div r \in Int
  BY <1>6, QuotientGrows
<1> QED BY <1>1, <1>2, <1>3, <1>4, <1>5, <1>6, <1>7 DEF TheMuxer!Ticks

\* Audio that is put where the picture is stays behind what was sent of it.
LEMMA Reanchored ==
  ASSUME NEW x \in MuxAudios, x.rate > 0, NEW v \in Int, NEW y, y = TheMuxer!Reanchor(x, v)
  PROVE  /\ y \in MuxAudios /\ y.started = x.started /\ y.rate = x.rate /\ y.frame = x.frame /\ y.at = x.at
         /\ y.samples = 0 /\ y.anchor >= v
         /\ IF x.started THEN y.anchor >= x.at + TheMuxer!Ticks(x.frame, x.rate) ELSE y.anchor >= 0
<1>1. x.frame \in Nat /\ x.rate \in Nat /\ x.at \in Int
  BY DEF MuxAudios
<1>2. TheMuxer!Ticks(x.frame, x.rate) \in Nat
  BY <1>1, TicksAdd
<1>3. PICK due \in Int : due = IF x.started THEN x.at + TheMuxer!Ticks(x.frame, x.rate) ELSE 0
  BY <1>1, <1>2
<1>4. PICK anchor \in Int : anchor = TheMuxer!Later(v, due) /\ anchor >= v /\ anchor >= due
  BY DEF TheMuxer!Later
<1>5. y = [x EXCEPT !.anchor = anchor, !.samples = 0]
  BY <1>3, <1>4 DEF TheMuxer!Reanchor
<1>6. /\ y.started = x.started /\ y.rate = x.rate /\ y.frame = x.frame /\ y.at = x.at
      /\ y.samples = 0 /\ y.anchor = anchor
  BY <1>5 DEF MuxAudios
<1>7. y \in MuxAudios
  <2> DEFINE a == [x EXCEPT !.anchor = anchor]
             b == [a EXCEPT !.samples = 0]
  <2>1. y = b
    BY <1>5
  <2>2. a \in MuxAudios
    BY DEF MuxAudios
  <2> HIDE DEF a
  <2>3. b \in MuxAudios
    BY <2>2 DEF MuxAudios
  <2> QED BY <2>1, <2>3
<1> QED BY <1>3, <1>4, <1>6, <1>7

\* A frame of audio starts when the one before has ended, and not long before the picture.
LEMMA AudioStamped ==
  ASSUME AudioInv, NEW v \in Int, NEW readable \in BOOLEAN, NEW n \in Samples, NEW r \in Rates,
         audio' = TheMuxer!AudioPTS(audio, v, readable, n, r)
  PROVE  AudioInv'
<1>1. /\ audio \in MuxAudios /\ Second \in Nat /\ Rates \subseteq Nat \ {0} /\ Samples \subseteq Nat
      /\ audio.at \in Int /\ audio.anchor \in Int /\ audio.samples \in Nat /\ audio.frame \in Nat /\ audio.rate \in Nat
  BY MuxerAssumption DEF AudioInv, MuxAudios
<1>2. PICK rate \in Nat : rate > 0 /\ rate = IF readable THEN r ELSE IF audio.rate = 0 THEN TheMuxer!DefaultRate ELSE audio.rate
  <2>1. TheMuxer!DefaultRate \in Rates
    <3>1. \E q \in Rates : \A p \in Rates : q <= p
      BY <1>1, FirstOf
    <3> QED BY <3>1 DEF TheMuxer!DefaultRate
  <2> QED BY <1>1, <2>1
<1>3. PICK samples \in Nat : samples = IF readable THEN n ELSE TheMuxer!DefaultSamples
  <2>1. TheMuxer!DefaultSamples \in Samples
    <3>1. \E q \in Samples : \A p \in Samples : q <= p
      BY <1>1, FirstOf
    <3> QED BY <3>1 DEF TheMuxer!DefaultSamples
  <2> QED BY <1>1, <2>1
<1> DEFINE goes == audio.started /\ rate = audio.rate
<1>4. PICK end \in Int : end = (IF goes THEN audio.at + TheMuxer!Ticks(audio.frame, rate) ELSE audio.at)
  <2>1. TheMuxer!Ticks(audio.frame, rate) \in Nat
    BY <1>1, <1>2, TicksAdd
  <2>2. CASE goes
    BY <1>1, <2>1, <2>2
  <2>3. CASE ~goes
    BY <1>1, <2>3
  <2> QED BY <2>2, <2>3
<1>5. PICK on : on = IF goes THEN audio ELSE [TheMuxer!Reanchor([audio EXCEPT !.rate = rate], v) EXCEPT !.started = TRUE]
  OBVIOUS
<1>6. /\ on \in MuxAudios /\ on.started /\ on.rate = rate /\ on.at = audio.at /\ on.frame = audio.frame
      /\ on.anchor + TheMuxer!Ticks(on.samples, rate) >= end
      /\ audio.at + TheMuxer!Ticks(audio.frame, rate) >= end
  <2>1. TheMuxer!Ticks(audio.frame, rate) \in Nat
    BY <1>1, <1>2, TicksAdd
  <2>2. CASE goes
    <3>1. audio.samples - audio.frame \in Nat /\ audio.at = audio.anchor + TheMuxer!Ticks(audio.samples - audio.frame, rate)
          /\ on = audio /\ end = audio.at + TheMuxer!Ticks(audio.frame, rate)
      BY <1>1, <1>4, <1>5, <2>2 DEF AudioInv
    <3>2. TheMuxer!Ticks(audio.samples - audio.frame, rate) + TheMuxer!Ticks(audio.frame, rate)
             <= TheMuxer!Ticks((audio.samples - audio.frame) + audio.frame, rate)
      BY <1>1, <1>2, <3>1, TicksAdd
    <3>3. (audio.samples - audio.frame) + audio.frame = audio.samples
      BY <1>1
    <3>4. TheMuxer!Ticks(audio.samples, rate) \in Nat /\ TheMuxer!Ticks(audio.samples - audio.frame, rate) \in Nat
      BY <1>1, <1>2, <3>1, TicksAdd
    <3>5. audio.anchor + TheMuxer!Ticks(audio.samples, rate) >= end
      BY <1>1, <2>1, <3>1, <3>2, <3>3, <3>4
    <3> QED BY <1>1, <2>1, <2>2, <3>1, <3>5
  <2>3. CASE ~goes
    <3> DEFINE x == [audio EXCEPT !.rate = rate]
    <3>1. x \in MuxAudios /\ x.rate = rate /\ x.started = audio.started /\ x.at = audio.at /\ x.frame = audio.frame
      BY <1>1 DEF MuxAudios
    <3> HIDE DEF x
    <3>2. PICK y : y = TheMuxer!Reanchor(x, v)
      OBVIOUS
    <3>3. /\ y \in MuxAudios /\ y.rate = rate /\ y.frame = audio.frame /\ y.at = audio.at /\ y.samples = 0
          /\ IF audio.started THEN y.anchor >= audio.at + TheMuxer!Ticks(audio.frame, rate) ELSE y.anchor >= 0
      BY <1>2, <3>1, <3>2, Reanchored
    <3>4. on = [y EXCEPT !.started = TRUE] /\ end = audio.at
      BY <1>4, <1>5, <2>3, <3>2 DEF x
    <3>5. on \in MuxAudios /\ on.started = TRUE /\ on.rate = rate /\ on.at = audio.at /\ on.frame = audio.frame
          /\ on.samples = 0 /\ on.anchor = y.anchor /\ y.anchor \in Int
      BY <3>3, <3>4 DEF MuxAudios
    <3>6. y.anchor >= end
      <4>1. ~audio.started => audio.at = 0
        BY DEF AudioInv
      <4> QED BY <1>1, <2>1, <3>3, <3>4, <3>5, <4>1
    <3>7. TheMuxer!Ticks(on.samples, rate) = 0
      BY <1>2, <3>5, TicksAdd
    <3> QED BY <1>1, <2>1, <3>4, <3>5, <3>6, <3>7
  <2> QED BY <2>2, <2>3
<1>7. PICK at \in Int : at = on.anchor + TheMuxer!Ticks(on.samples, rate) /\ at >= end
  <2>1. on.anchor \in Int /\ on.samples \in Nat
    BY <1>6 DEF MuxAudios
  <2>2. TheMuxer!Ticks(on.samples, rate) \in Nat
    BY <1>2, <2>1, TicksAdd
  <2> QED BY <1>6, <2>1, <2>2
<1>8. PICK placed : placed = IF TheMuxer!Resyncs(at, v) THEN TheMuxer!Reanchor(on, v) ELSE on
  OBVIOUS
<1>9. PICK stamp : stamp = IF TheMuxer!Resyncs(at, v) THEN placed.anchor ELSE at
  OBVIOUS
<1>10. audio' = [placed EXCEPT !.samples = @ + samples, !.frame = samples, !.at = stamp, !.end = end, !.video = v]
  BY <1>2, <1>3, <1>4, <1>5, <1>7, <1>8, <1>9 DEF TheMuxer!AudioPTS
<1>11. /\ placed \in MuxAudios /\ placed.started /\ placed.rate = rate /\ stamp \in Int
       /\ stamp = placed.anchor + TheMuxer!Ticks(placed.samples, rate)
       /\ stamp >= end /\ stamp + Second >= v
  <2>1. CASE TheMuxer!Resyncs(at, v)
    <3>1. /\ placed \in MuxAudios /\ placed.started /\ placed.rate = rate /\ placed.samples = 0 /\ placed.anchor >= v
          /\ placed.anchor >= audio.at + TheMuxer!Ticks(audio.frame, rate)
      BY <1>2, <1>6, <1>8, <2>1, Reanchored
    <3>2. stamp = placed.anchor /\ stamp \in Int /\ TheMuxer!Ticks(placed.samples, rate) = 0
      BY <1>2, <1>9, <2>1, <3>1, TicksAdd DEF MuxAudios
    <3>3. TheMuxer!Ticks(audio.frame, rate) \in Nat
      BY <1>1, <1>2, TicksAdd
    <3>4. stamp >= end /\ stamp + Second >= v
      BY <1>1, <1>6, <3>1, <3>2, <3>3
    <3>5. stamp = placed.anchor + TheMuxer!Ticks(placed.samples, rate)
      BY <3>2
    <3> QED BY <3>1, <3>2, <3>4, <3>5
  <2>2. CASE ~TheMuxer!Resyncs(at, v)
    <3>1. placed = on /\ stamp = at
      BY <1>8, <1>9, <2>2
    <3>2. at + Second >= v
      BY <1>1, <2>2 DEF TheMuxer!Resyncs, TheMuxer!Apart
    <3> QED BY <1>6, <1>7, <3>1, <3>2
  <2> QED BY <2>1, <2>2
<1>12. PICK total \in Nat : total = placed.samples + samples /\ placed.samples \in Nat
  BY <1>11 DEF MuxAudios
<1>13. /\ audio'.started = placed.started /\ audio'.anchor = placed.anchor /\ audio'.samples = total /\ audio'.rate = placed.rate
       /\ audio'.frame = samples /\ audio'.at = stamp /\ audio'.end = end /\ audio'.video = v
  BY <1>10, <1>11, <1>12 DEF MuxAudios
<1>14. audio' \in MuxAudios
  <2> DEFINE a == [placed EXCEPT !.samples = total]
             b == [a EXCEPT !.frame = samples]
             c == [b EXCEPT !.at = stamp]
             d == [c EXCEPT !.end = end]
             e == [d EXCEPT !.video = v]
  <2>1. audio' = e
    BY <1>10, <1>12
  <2>2. a \in MuxAudios
    BY <1>11 DEF MuxAudios
  <2> HIDE DEF a
  <2>3. b \in MuxAudios
    BY <2>2 DEF MuxAudios
  <2> HIDE DEF b
  <2>4. c \in MuxAudios
    BY <1>11, <2>3 DEF MuxAudios
  <2> HIDE DEF c
  <2>5. d \in MuxAudios
    BY <2>4 DEF MuxAudios
  <2> HIDE DEF d
  <2>6. e \in MuxAudios
    BY <2>5 DEF MuxAudios
  <2> QED BY <2>1, <2>6
<1>15. audio'.samples - audio'.frame = placed.samples /\ audio'.samples >= audio'.frame
  BY <1>12, <1>13
<1> QED BY <1>2, <1>11, <1>13, <1>14, <1>15 DEF AudioInv, TheMuxer!InStep

MuxClocks == [started : BOOLEAN, base : Int, last : Int, wraps : Int, at : Int, offset : Int]
Captures == [start : 0 .. Wrap - 1, now : Nat, before : Nat]

\* The counter and its wraps tell how long it has run, and the picture is where that puts it,
\* but for what was rounded down.
ClockInv ==
  /\ pts \in MuxClocks /\ capture \in Captures /\ resumes \in Nat
  /\ ~pts.started => pts.at = 0 /\ pts.offset = 0 /\ capture.now = 0 /\ capture.before = 0 /\ resumes = 0
  /\ pts.started /\ ~astray =>
        /\ pts.base = capture.start /\ pts.last \in 0 .. Wrap - 1
        /\ \/ pts.wraps * Wrap + pts.last = capture.start + capture.now
           \/ capture.now > 0 /\ pts.wraps * Wrap + pts.last = capture.start + (capture.now - 1)
        /\ pts.at = pts.offset + (capture.now * Num) \div Den
        /\ pts.offset * Den <= capture.before * Num
        /\ pts.offset * Den >= capture.before * Num - Den * (2 * resumes)

\* Half a turn is at least one count.
LEMMA HalfTurn == Wrap \in Nat /\ Wrap > 1 /\ Wrap \div 2 \in Int /\ Wrap \div 2 >= 1
<1>1. Wrap \in Nat /\ Wrap > 1
  BY MuxerAssumption
<1>2. PICK half \in Int : half = Wrap \div 2 /\ 2 * half <= Wrap /\ Wrap < 2 * half + 2
  BY <1>1, Quotient
<1> QED BY <1>1, <1>2

\* The wraps there have been when the counter tells so much, if that is the time t of the timeline.
TurnsAt(c, micros) == IF TheMuxer!Wrapped(c, micros) THEN c.wraps + 1 ELSE c.wraps
CountedAt(c, micros, t) == TurnsAt(c, micros) * Wrap + micros = c.base + t

\* What is so many turns and something less is that something when it is counted.
LEMMA Turned ==
  ASSUME NEW x \in Int, NEW k \in Int, NEW y \in Int, NEW w \in Nat, 0 <= y, y < w, x = k * w + y
  PROVE  x % w = y
<1>1. (k * w + y) % w = y
  BY Remainder
<1> QED BY <1>1

\* A counter that runs on for less than half a turn wraps once if it is seen to.
LEMMA CountsOn ==
  ASSUME NEW c \in MuxClocks, c.last \in 0 .. Wrap - 1, NEW t \in Nat,
         c.wraps * Wrap + c.last <= c.base + t, (c.base + t) - (c.wraps * Wrap + c.last) < Wrap \div 2,
         NEW micros, micros = (c.base + t) % Wrap
  PROVE  micros \in 0 .. Wrap - 1 /\ CountedAt(c, micros, t)
<1>1. PICK half \in Int : half = Wrap \div 2 /\ 2 * half <= Wrap /\ Wrap < 2 * half + 2
  BY HalfTurn, Quotient
<1>2. Wrap \in Nat /\ Wrap > 1
  BY HalfTurn
<1>3. PICK k \in Int, last \in 0 .. Wrap - 1, base \in Int : k = c.wraps /\ last = c.last /\ base = c.base
  BY DEF MuxClocks
<1>4. PICK y \in Int : y = k * Wrap
  BY <1>2
<1>5. PICK delta \in Nat : base + t = y + (last + delta) /\ delta < half
  <2>1. PICK x \in Int : x = (base + t) - (y + last)
    OBVIOUS
  <2>2. x >= 0 /\ x < half
    BY <1>1, <1>3, <1>4, <2>1
  <2> QED BY <2>1, <2>2
<1>6. (k + 1) * Wrap = y + Wrap
  BY <1>2, <1>4
<1>7. TurnsAt(c, micros) = IF micros < last /\ last - micros > half THEN k + 1 ELSE k
  BY <1>1, <1>3 DEF TurnsAt, TheMuxer!Wrapped, TheMuxer!Threshold
<1>8. CASE last + delta < Wrap
  <2>1. PICK r \in Int : r = last + delta /\ 0 <= r /\ r < Wrap
    BY <1>2, <1>8
  <2>2. base + t = k * Wrap + r
    BY <1>4, <1>5, <2>1
  <2>x. PICK x \in Int : x = base + t /\ x = k * Wrap + r
    BY <1>3, <2>2
  <2>y. x % Wrap = r
    BY ONLY <1>2, <1>3, <2>1, <2>x, Turned
  <2>3. micros = r
    BY <1>3, <2>x, <2>y
  <2>4. TurnsAt(c, micros) = k
    BY <1>7, <2>1, <2>3
  <2> QED BY <1>2, <1>3, <2>1, <2>2, <2>3, <2>4 DEF CountedAt
<1>9. CASE last + delta >= Wrap
  <2>1. PICK r \in Int, i \in Int : r = last + delta - Wrap /\ i = k + 1 /\ 0 <= r /\ r < Wrap
    BY <1>1, <1>2, <1>5, <1>9
  <2>z. PICK z \in Int : z = i * Wrap /\ z = y + Wrap
    BY <1>2, <1>6, <2>1
  <2>2. base + t = i * Wrap + r
    BY <1>2, <1>5, <2>1, <2>z
  <2>x. PICK x \in Int : x = base + t /\ x = i * Wrap + r
    BY <1>3, <2>2
  <2>y. x % Wrap = r
    BY ONLY <1>2, <1>3, <2>1, <2>x, Turned
  <2>3. micros = r
    BY <1>3, <2>x, <2>y
  <2>v. r < last /\ last - r > half
    BY <1>1, <1>2, <1>5, <2>1
  <2>4. TurnsAt(c, micros) = i
    BY <1>7, <2>1, <2>3, <2>v
  <2> QED BY <1>2, <1>3, <2>1, <2>2, <2>3, <2>4 DEF CountedAt
<1> QED BY <1>2, <1>8, <1>9

\* A counter is within a turn.
LEMMA InTurn ==
  ASSUME NEW x \in Int, NEW w \in Nat, w > 0
  PROVE  x % w \in 0 .. w - 1
<1>1. PICK q \in Int : q = x \div w /\ w * q <= x /\ x < w * q + w
  BY Quotient
<1>2. PICK r \in Int : r = x - w * q /\ 0 <= r /\ r < w
  BY <1>1
<1>3. x = q * w + r
  BY <1>1, <1>2
<1>4. w \in Nat /\ q \in Int /\ r \in Int /\ 0 <= r /\ r < w
  BY ONLY <1>1, <1>2, w \in Nat
<1>5. (q * w + r) % w = r
  BY ONLY <1>4, Turned
<1>6. x % w = r
  BY ONLY <1>3, <1>5
<1> QED BY ONLY <1>2, <1>4, <1>6, x \in Int

\* A clock that counts on is one, wherever it counts to.
LEMMA AdvanceType ==
  ASSUME NEW c \in MuxClocks, NEW micros \in Int, NEW d, d = TheMuxer!Advance(c, micros)
  PROVE  d \in MuxClocks /\ d.started = c.started
<1>1. /\ Num \in Nat /\ Den \in Nat /\ Den > 0 /\ Wrap \in Nat
      /\ c.wraps \in Int /\ c.base \in Int /\ c.at \in Int /\ c.offset \in Int
  BY MuxerAssumption DEF MuxClocks
<1>2. PICK j \in Int : j = IF TheMuxer!Wrapped(c, micros) THEN c.wraps + 1 ELSE c.wraps
  BY <1>1
<1>3. PICK elapsed \in Int : elapsed = j * Wrap + micros - c.base
  BY <1>1
<1>4. PICK t \in Int : t = TheMuxer!Later(elapsed, 0)
  BY DEF TheMuxer!Later
<1>5. PICK ticks \in Int : ticks = (t * Num) \div Den
  BY <1>1, Quotient
<1>6. PICK at \in Int : at = TheMuxer!Later(c.at, c.offset + ticks)
  BY <1>1 DEF TheMuxer!Later
<1>7. d = [c EXCEPT !.last = micros, !.wraps = j, !.at = at]
  BY <1>2, <1>3, <1>4, <1>5, <1>6 DEF TheMuxer!Advance
<1>8. d.started = c.started
  BY <1>7 DEF MuxClocks
<1>9. d \in MuxClocks
  <2> DEFINE a == [c EXCEPT !.last = micros]
             b == [a EXCEPT !.wraps = j]
             e == [b EXCEPT !.at = at]
  <2>1. d = e
    BY <1>7
  <2>2. a \in MuxClocks
    BY DEF MuxClocks
  <2> HIDE DEF a
  <2>3. b \in MuxClocks
    BY <2>2 DEF MuxClocks
  <2> HIDE DEF b
  <2>4. e \in MuxClocks
    BY <2>3 DEF MuxClocks
  <2> QED BY <2>1, <2>4
<1> QED BY <1>8, <1>9

\* A frame stamped by what the counter says is placed by the time it was captured.
LEMMA Advanced ==
  ASSUME NEW c \in MuxClocks, NEW micros \in 0 .. Wrap - 1, NEW t \in Nat,
         CountedAt(c, micros, t), NEW d, d = TheMuxer!Advance(c, micros)
  PROVE  /\ d \in MuxClocks /\ d.started = c.started /\ d.base = c.base /\ d.offset = c.offset
         /\ d.last = micros /\ d.wraps * Wrap + d.last = c.base + t
         /\ d.at = IF c.at > c.offset + (t * Num) \div Den THEN c.at ELSE c.offset + (t * Num) \div Den
<1>1. Num \in Nat /\ Den \in Nat /\ Den > 0 /\ Wrap \in Nat /\ micros \in Int /\ c.wraps \in Int /\ c.base \in Int
  BY MuxerAssumption DEF MuxClocks
<1>2. PICK ticks \in Int : ticks = (t * Num) \div Den
  BY <1>1, Quotient
<1>3. PICK j \in Int, y \in Int : j = TurnsAt(c, micros) /\ y = j * Wrap
  BY <1>1 DEF TurnsAt
<1>4. y + micros - c.base = t
  BY <1>1, <1>3 DEF CountedAt
<1>5. TheMuxer!Later(y + micros - c.base, 0) = t
  BY <1>4 DEF TheMuxer!Later
<1>6. c.at \in Int /\ c.offset \in Int
  BY DEF MuxClocks
<1>7. PICK at \in Int : at = IF c.at > c.offset + ticks THEN c.at ELSE c.offset + ticks
  BY <1>6
<1>8. TheMuxer!Later(c.at, c.offset + ticks) = at
  BY <1>7 DEF TheMuxer!Later
<1>9. d = [c EXCEPT !.last = micros, !.wraps = j,
                    !.at = TheMuxer!Later(@, c.offset + (TheMuxer!Later(y + micros - c.base, 0) * Num) \div Den)]
  BY <1>3 DEF TheMuxer!Advance, TurnsAt
<1>10. d = [c EXCEPT !.last = micros, !.wraps = j, !.at = at]
  BY <1>2, <1>5, <1>8, <1>9
<1>11. /\ d.started = c.started /\ d.base = c.base /\ d.offset = c.offset /\ d.last = micros /\ d.wraps = j /\ d.at = at
  BY <1>10 DEF MuxClocks
<1>12. d \in MuxClocks
  <2> DEFINE a == [c EXCEPT !.last = micros]
             b == [a EXCEPT !.wraps = j]
             e == [b EXCEPT !.at = at]
  <2>1. d = e
    BY <1>10
  <2>2. a \in MuxClocks
    BY <1>1 DEF MuxClocks
  <2> HIDE DEF a
  <2>3. b \in MuxClocks
    BY <2>2 DEF MuxClocks
  <2> HIDE DEF b
  <2>4. e \in MuxClocks
    BY <2>3 DEF MuxClocks
  <2> QED BY <2>1, <2>4
<1>13. d.wraps * Wrap + d.last = c.base + t
  BY <1>1, <1>3, <1>4, <1>11
<1> QED BY <1>2, <1>7, <1>11, <1>12, <1>13

\* A timeline begins where it is put.
LEMMA Begun ==
  ASSUME NEW c \in MuxClocks, NEW micros \in Int, NEW d, d = TheMuxer!First(c, micros)
  PROVE  /\ d \in MuxClocks /\ d.started /\ d.base = micros /\ d.last = micros /\ d.wraps = 0
         /\ d.at = c.offset /\ d.offset = c.offset
<1>1. d = [c EXCEPT !.started = TRUE, !.base = micros, !.last = micros, !.wraps = 0, !.at = c.offset]
  BY DEF TheMuxer!First
<1>2. /\ d.started = TRUE /\ d.base = micros /\ d.last = micros /\ d.wraps = 0
      /\ d.at = c.offset /\ d.offset = c.offset
  BY <1>1 DEF MuxClocks
<1>3. PICK o \in Int : o = c.offset
  BY DEF MuxClocks
<1>4. d \in MuxClocks
  <2> DEFINE a == [c EXCEPT !.started = TRUE]
             b == [a EXCEPT !.base = micros]
             e == [b EXCEPT !.last = micros]
             f == [e EXCEPT !.wraps = 0]
             g == [f EXCEPT !.at = o]
  <2>1. d = g
    BY <1>1, <1>3
  <2>2. a \in MuxClocks
    BY DEF MuxClocks
  <2> HIDE DEF a
  <2>3. b \in MuxClocks
    BY <2>2 DEF MuxClocks
  <2> HIDE DEF b
  <2>4. e \in MuxClocks
    BY <2>3 DEF MuxClocks
  <2> HIDE DEF e
  <2>5. f \in MuxClocks
    BY <2>4 DEF MuxClocks
  <2> HIDE DEF f
  <2>6. g \in MuxClocks
    BY <2>5 DEF MuxClocks
  <2> QED BY <2>1, <2>6
<1> QED BY <1>2, <1>4

\* The first frame of all, and those after it in order, are stamped by the time they were captured.
LEMMA ClockFrame == ASSUME ClockInv, TheMuxer!Frame PROVE ClockInv'
<1>1. /\ pts \in MuxClocks /\ capture \in Captures /\ resumes \in Nat /\ Wrap \in Nat /\ Wrap > 0
      /\ Num \in Nat /\ Den \in Nat /\ Den > 0 /\ ~astray /\ UNCHANGED <<astray, resumes>>
  BY MuxerAssumption DEF ClockInv, TheMuxer!Frame
<1>2. PICK start \in 0 .. Wrap - 1, was \in Nat : start = capture.start /\ was = capture.now /\ capture.before \in Nat
  BY <1>1 DEF Captures
<1>3. PICK step \in Steps, now \in Nat :
        /\ now = IF pts.started THEN was + step ELSE was
        /\ capture' = [capture EXCEPT !.now = now] /\ pts' = TheMuxer!PTS(pts, (start + now) % Wrap)
  <2>1. Steps \subseteq Nat
    BY MuxerAssumption
  <2>2. PICK step \in Steps : LET now == IF pts.started THEN capture.now + step ELSE capture.now
                              IN capture' = [capture EXCEPT !.now = now] /\ pts' = TheMuxer!PTS(pts, TheMuxer!Micros(now))
    BY DEF TheMuxer!Frame
  <2>3. PICK now \in Nat : now = IF pts.started THEN was + step ELSE was
    BY <2>1
  <2> QED BY <1>2, <2>2, <2>3 DEF TheMuxer!Micros
<1>4. capture' \in Captures /\ capture'.start = start /\ capture'.now = now /\ capture'.before = capture.before
  BY <1>1, <1>2, <1>3 DEF Captures
<1>5. CASE ~pts.started
  <2>1. pts.at = 0 /\ pts.offset = 0 /\ was = 0 /\ capture.before = 0 /\ resumes = 0 /\ now = 0
    BY <1>2, <1>3, <1>5 DEF ClockInv
  <2>2. (start + now) % Wrap = start
    <3>1. start + now = 0 * Wrap + start
      BY <1>1, <2>1
    <3>2. (0 * Wrap + start) % Wrap = start
      BY <1>1, Remainder
    <3> QED BY <3>1, <3>2
  <2>3. pts' = TheMuxer!First(pts, start)
    BY <1>3, <1>5, <2>2 DEF TheMuxer!PTS
  <2>4. /\ pts' \in MuxClocks /\ pts'.started /\ pts'.base = start /\ pts'.last = start /\ pts'.wraps = 0
        /\ pts'.at = 0 /\ pts'.offset = 0
    BY <1>1, <2>1, <2>3, Begun
  <2>5. (now * Num) \div Den = 0 /\ capture.before * Num = 0 /\ 0 * Wrap = 0 /\ 0 * Den = 0 /\ Den * (2 * resumes) = 0
    BY <1>1, <2>1
  <2> QED BY <1>1, <1>4, <2>1, <2>4, <2>5 DEF ClockInv
<1>6. CASE pts.started
  <2>1. now = was + step /\ step \in Nat /\ step + 1 < Wrap \div 2
    BY <1>3, <1>6, MuxerAssumption
  <2>2. /\ pts.base = start /\ pts.last \in 0 .. Wrap - 1 /\ pts.wraps \in Int /\ pts.offset \in Int /\ pts.at \in Int
        /\ \/ pts.wraps * Wrap + pts.last = start + was
           \/ was > 0 /\ pts.wraps * Wrap + pts.last = start + (was - 1)
        /\ pts.at = pts.offset + (was * Num) \div Den
    BY <1>1, <1>2, <1>6 DEF ClockInv, MuxClocks
  <2>3. PICK micros : micros = (pts.base + now) % Wrap
    OBVIOUS
  <2>4. pts.wraps * Wrap + pts.last <= pts.base + now /\ (pts.base + now) - (pts.wraps * Wrap + pts.last) < Wrap \div 2
    <3>1. Wrap \div 2 \in Int
      BY <1>1, Quotient
    <3>2. PICK x \in Int, half \in Int : x = pts.wraps * Wrap + pts.last /\ half = Wrap \div 2
      BY <1>1, <2>2, <3>1
    <3>3. x <= start + now /\ (start + now) - x < half
      BY <2>1, <2>2, <3>2
    <3> QED BY <2>2, <3>2, <3>3
  <2>6. micros \in 0 .. Wrap - 1 /\ CountedAt(pts, micros, now)
    BY <1>1, <2>2, <2>3, <2>4, CountsOn
  <2>7. pts' = TheMuxer!Advance(pts, micros)
    BY <1>3, <1>6, <2>2, <2>3 DEF TheMuxer!PTS
  <2>8. /\ pts' \in MuxClocks /\ pts'.started = pts.started /\ pts'.base = start /\ pts'.offset = pts.offset
        /\ pts'.last = micros /\ pts'.wraps * Wrap + pts'.last = start + now
        /\ pts'.at = IF pts.at > pts.offset + (now * Num) \div Den THEN pts.at ELSE pts.offset + (now * Num) \div Den
    BY <1>1, <2>2, <2>6, <2>7, Advanced
  <2>9. pts'.at = pts.offset + (now * Num) \div Den
    <3>1. was * Num \in Int /\ now * Num \in Int /\ was * Num <= now * Num
      BY <1>1, <2>1
    <3>2. (was * Num) \div Den <= (now * Num) \div Den /\ (was * Num) \div Den \in Int /\ (now * Num) \div Den \in Int
      BY <1>1, <3>1, QuotientGrows, Quotient
    <3> QED BY <2>2, <2>8, <3>2
  <2>10. pts.offset * Den <= capture.before * Num /\ pts.offset * Den >= capture.before * Num - Den * (2 * resumes)
    BY <1>1, <1>6 DEF ClockInv
  <2> QED BY <1>1, <1>2, <1>4, <1>6, <2>6, <2>8, <2>9, <2>10 DEF ClockInv
<1> QED BY <1>5, <1>6

\* A frame out of order puts the picture nowhere else, unless it comes from before a wrap.
LEMMA ClockLate == ASSUME ClockInv, TheMuxer!LateFrame PROVE ClockInv'
<1>1. /\ pts \in MuxClocks /\ capture \in Captures /\ resumes \in Nat /\ Wrap \in Nat /\ Wrap > 0
      /\ Num \in Nat /\ Den \in Nat /\ Den > 0 /\ ~astray /\ pts.started /\ UNCHANGED <<capture, resumes>>
  BY MuxerAssumption DEF ClockInv, TheMuxer!LateFrame
<1>2. PICK start \in 0 .. Wrap - 1, now \in Nat : start = capture.start /\ now = capture.now /\ now > 0
  BY <1>1 DEF Captures, TheMuxer!LateFrame
<1>3. PICK micros : micros = (start + (now - 1)) % Wrap
  OBVIOUS
<1>4. /\ pts' = TheMuxer!Advance(pts, micros)
      /\ astray' = (astray \/ (pts.last # Wrap - 1 /\ micros = Wrap - 1))
  BY <1>1, <1>2, <1>3 DEF TheMuxer!LateFrame, TheMuxer!Micros, TheMuxer!PTS
<1>5. /\ pts.base = start /\ pts.last \in 0 .. Wrap - 1 /\ pts.wraps \in Int /\ pts.offset \in Int /\ pts.at \in Int
      /\ \/ pts.wraps * Wrap + pts.last = start + now
         \/ pts.wraps * Wrap + pts.last = start + (now - 1)
      /\ pts.at = pts.offset + (now * Num) \div Den
      /\ pts.offset * Den <= capture.before * Num /\ pts.offset * Den >= capture.before * Num - Den * (2 * resumes)
  BY <1>1, <1>2 DEF ClockInv, MuxClocks
<1>6. PICK t \in Nat : t = now - 1
  BY <1>2
<1>7. micros \in 0 .. Wrap - 1
  BY <1>1, <1>3, <1>6, InTurn
<1>9. CASE CountedAt(pts, micros, t)
  <2>1. PICK d : d = TheMuxer!Advance(pts, micros)
    OBVIOUS
  <2>8. d \in MuxClocks
    BY <1>1, <1>6, <1>7, <1>9, <2>1, Advanced
  <2>9. d.started = pts.started
    BY <1>1, <1>6, <1>7, <1>9, <2>1, Advanced
  <2>5. d.base = pts.base /\ d.offset = pts.offset /\ d.last = micros
    BY <1>1, <1>6, <1>7, <1>9, <2>1, Advanced
  <2>6. d.wraps * Wrap + d.last = pts.base + t
    BY <1>1, <1>6, <1>7, <1>9, <2>1, Advanced
  <2>7. d.at = IF pts.at > pts.offset + (t * Num) \div Den THEN pts.at ELSE pts.offset + (t * Num) \div Den
    BY <1>1, <1>6, <1>7, <1>9, <2>1, Advanced
  <2>2. /\ pts' \in MuxClocks /\ pts'.started = pts.started /\ pts'.base = start /\ pts'.offset = pts.offset
        /\ pts'.last = micros /\ pts'.wraps * Wrap + pts'.last = start + t
        /\ pts'.at = IF pts.at > pts.offset + (t * Num) \div Den THEN pts.at ELSE pts.offset + (t * Num) \div Den
    BY <1>4, <1>5, <2>1, <2>5, <2>6, <2>7, <2>8, <2>9
  <2>3. PICK n \in Int, m \in Int : n = (now * Num) \div Den /\ m = (t * Num) \div Den /\ m <= n
    <3>1. PICK x \in Int, y \in Int : x = t * Num /\ y = now * Num /\ x <= y
      BY <1>1, <1>6
    <3>2. x \div Den <= y \div Den /\ x \div Den \in Int /\ y \div Den \in Int
      BY <1>1, <3>1, QuotientGrows, Quotient
    <3> QED BY <3>1, <3>2
  <2>4. pts'.at = pts.at
    BY <1>5, <2>2, <2>3
  <2> QED BY <1>1, <1>2, <1>4, <1>5, <1>6, <1>7, <2>2, <2>4 DEF ClockInv
<1>10. CASE astray'
  <2>1. micros \in Int
    BY <1>1, <1>7
  <2>2. PICK d : d = TheMuxer!Advance(pts, micros)
    OBVIOUS
  <2>3. d \in MuxClocks /\ d.started = pts.started
    BY <1>1, <2>1, <2>2, AdvanceType
  <2> QED BY <1>1, <1>4, <1>10, <2>2, <2>3 DEF ClockInv
<1>11. CountedAt(pts, micros, t) \/ astray'
  <2>0. PICK k \in Int, last \in 0 .. Wrap - 1, y \in Int, x \in Int :
          k = pts.wraps /\ last = pts.last /\ y = k * Wrap /\ x = start + t
    BY <1>1, <1>5
  <2>1. CASE pts.wraps * Wrap + pts.last = start + t
    <3>1. last \in Int /\ 0 <= last /\ last < Wrap /\ x = k * Wrap + last
      BY <1>1, <2>0, <2>1
    <3>2. x % Wrap = last
      BY <1>1, <3>1, Turned
    <3>3. micros = last
      BY <1>3, <1>6, <2>0, <3>2
    <3>4. TurnsAt(pts, micros) = pts.wraps
      BY <2>0, <3>3 DEF TurnsAt, TheMuxer!Wrapped
    <3> QED BY <1>5, <2>0, <2>1, <3>3, <3>4 DEF CountedAt
  <2>2. CASE pts.wraps * Wrap + pts.last = start + now /\ pts.last > 0
    <3>1. PICK r \in Int : r = last - 1 /\ 0 <= r /\ r < Wrap /\ x = k * Wrap + r
      BY <1>1, <1>6, <2>0, <2>2
    <3>2. x % Wrap = r
      BY <1>1, <3>1, Turned
    <3>3. micros = r
      BY <1>3, <1>6, <2>0, <3>2
    <3>4. PICK half \in Int : half = Wrap \div 2 /\ half >= 1
      BY HalfTurn
    <3>5. TurnsAt(pts, micros) = pts.wraps
      BY <2>0, <3>1, <3>3, <3>4 DEF TurnsAt, TheMuxer!Wrapped, TheMuxer!Threshold
    <3> QED BY <1>5, <2>0, <3>1, <3>3, <3>5 DEF CountedAt
  <2>3. CASE pts.wraps * Wrap + pts.last = start + now /\ pts.last = 0
    <3>1. PICK i \in Int, z \in Int, r \in Int : i = k - 1 /\ z = i * Wrap /\ z = y - Wrap /\ r = Wrap - 1
      BY <1>1, <2>0
    <3>2. x = i * Wrap + r /\ 0 <= r /\ r < Wrap
      BY <1>1, <1>6, <2>0, <2>3, <3>1
    <3>3. x % Wrap = r
      BY <1>1, <3>1, <3>2, Turned
    <3>4. micros = Wrap - 1
      BY <1>3, <1>6, <2>0, <3>1, <3>3
    <3>5. Wrap \in Nat /\ Wrap > 1
      BY HalfTurn
    <3>6. pts.last # Wrap - 1
      BY <2>3, <3>5
    <3> QED BY <1>4, <3>4, <3>6
  <2> QED BY <1>1, <1>5, <1>6, <2>1, <2>2, <2>3, <2>0
<1> QED BY <1>9, <1>10, <1>11

\* A timeline that is resumed goes on where the last one was, and what was rounded down is
\* twice less than a tick more.
LEMMA ClockResume == ASSUME ClockInv, TheMuxer!Resume PROVE ClockInv'
<1>1. /\ pts \in MuxClocks /\ capture \in Captures /\ resumes \in Nat /\ Wrap \in Nat /\ Wrap > 0
      /\ Num \in Nat /\ Den \in Nat /\ Den > 0 /\ ~astray /\ pts.started
      /\ resumes' = resumes + 1 /\ UNCHANGED astray
  BY MuxerAssumption DEF ClockInv, TheMuxer!Resume
<1>2. PICK gap \in Nat, s \in 0 .. Wrap - 1 :
        /\ pts' = TheMuxer!PTS(TheMuxer!ResumeClock(pts, gap), s)
        /\ capture' = [start |-> s, now |-> 0, before |-> capture.before + capture.now + gap]
  BY MuxerAssumption DEF TheMuxer!Resume
<1>3. PICK before \in Nat, now \in Nat : before = capture.before /\ now = capture.now
  BY <1>1 DEF Captures
<1>4. PICK o \in Int, at \in Int : o = pts.offset /\ at = pts.at
  BY <1>1 DEF MuxClocks
<1>5. PICK x \in Int, y \in Int, z \in Int : x = before * Num /\ y = now * Num /\ z = gap * Num
  BY <1>1
<1>6. (before + now + gap) * Num = x + y + z
  BY <1>1, <1>5
<1>7. PICK n \in Int : n = y \div Den /\ Den * n <= y /\ y < Den * n + Den
  BY <1>1, Quotient
<1>8. PICK g \in Int : g = z \div Den /\ Den * g <= z /\ z < Den * g + Den
  BY <1>1, Quotient
<1>9. at = o + n /\ o * Den <= x /\ o * Den >= x - Den * (2 * resumes)
  BY <1>1, <1>3, <1>4, <1>5, <1>7 DEF ClockInv
<1>10. PICK c \in MuxClocks : c = TheMuxer!ResumeClock(pts, gap) /\ c.started = FALSE /\ c.offset = at + g
  <2>1. PICK p \in Int : p = at + g
    OBVIOUS
  <2> DEFINE a == [pts EXCEPT !.started = FALSE]
             b == [a EXCEPT !.offset = p]
  <2>2. b = TheMuxer!ResumeClock(pts, gap)
    BY <1>1, <1>4, <1>5, <1>8, <2>1 DEF TheMuxer!ResumeClock
  <2>3. a \in MuxClocks /\ a.started = FALSE
    BY <1>1 DEF MuxClocks
  <2> HIDE DEF a
  <2>4. b \in MuxClocks /\ b.started = FALSE /\ b.offset = p
    BY <2>3 DEF MuxClocks
  <2> QED BY <2>1, <2>2, <2>4
<1>11. pts' = TheMuxer!First(c, s)
  BY <1>2, <1>10 DEF TheMuxer!PTS
<1>12. /\ pts' \in MuxClocks /\ pts'.started /\ pts'.base = s /\ pts'.last = s /\ pts'.wraps = 0
       /\ pts'.at = at + g /\ pts'.offset = at + g
  <2>1. s \in Int
    BY <1>1
  <2>2. PICK d : d = TheMuxer!First(c, s)
    OBVIOUS
  <2>3. d \in MuxClocks
    BY <2>1, <2>2, Begun
  <2>4. d.started
    BY <2>1, <2>2, Begun
  <2>5. d.base = s /\ d.last = s /\ d.wraps = 0
    BY <2>1, <2>2, Begun
  <2>6. d.at = c.offset /\ d.offset = c.offset
    BY <2>1, <2>2, Begun
  <2> QED BY <1>10, <1>11, <2>2, <2>3, <2>4, <2>5, <2>6
<1>13. PICK later \in Nat : later = before + now + gap
  OBVIOUS
<1>14. capture' = [start |-> s, now |-> 0, before |-> later]
  BY <1>2, <1>3, <1>13
<1>15. capture' \in Captures /\ capture'.start = s /\ capture'.now = 0 /\ capture'.before = later
  BY <1>14 DEF Captures
<1>16. (0 * Num) \div Den = 0 /\ 0 * Wrap = 0
  BY <1>1
<1>17. (at + g) * Den = o * Den + Den * n + Den * g /\ o * Den \in Int /\ Den * n \in Int /\ Den * g \in Int
  BY <1>1, <1>9
<1>18. Den * (2 * (resumes + 1)) = Den * (2 * resumes) + 2 * Den /\ Den * (2 * resumes) \in Int
  BY <1>1
<1>19. (at + g) * Den <= x + y + z /\ (at + g) * Den >= x + y + z - Den * (2 * (resumes + 1))
  BY <1>1, <1>7, <1>8, <1>9, <1>17, <1>18
<1>20. pts'.offset * Den <= capture'.before * Num /\ pts'.offset * Den >= capture'.before * Num - Den * (2 * resumes')
  BY <1>1, <1>6, <1>12, <1>13, <1>15, <1>19
<1>21. pts'.wraps * Wrap + pts'.last = capture'.start + capture'.now
  BY <1>12, <1>15, <1>16
<1>22. pts'.at = pts'.offset + (capture'.now * Num) \div Den
  BY <1>12, <1>15, <1>16
<1> QED BY <1>1, <1>12, <1>15, <1>20, <1>21, <1>22 DEF ClockInv

MuxInv == AudioInv /\ ClockInv

\* Nothing has been stamped at first.
LEMMA MuxInit == ASSUME TheMuxer!Init PROVE MuxInv
<1>1. Second \in Nat /\ Starts \subseteq 0 .. Wrap - 1
  BY MuxerAssumption
<1>2. PICK s \in 0 .. Wrap - 1 : capture = [start |-> s, now |-> 0, before |-> 0]
  BY <1>1 DEF TheMuxer!Init
<1>3. capture \in Captures /\ capture.now = 0 /\ capture.before = 0
  BY <1>2 DEF Captures
<1>4. pts \in MuxClocks /\ pts.started = FALSE /\ pts.at = 0 /\ pts.offset = 0 /\ resumes = 0
  BY DEF TheMuxer!Init, MuxClocks
<1>5. audio \in MuxAudios /\ audio.started = FALSE /\ audio.at = 0 /\ audio.frame = 0 /\ audio.end = 0 /\ audio.video = 0
  BY DEF TheMuxer!Init, MuxAudios
<1>6. AudioInv
  BY <1>1, <1>5 DEF AudioInv, TheMuxer!InStep
<1>7. ClockInv
  BY <1>3, <1>4 DEF ClockInv
<1> QED BY <1>6, <1>7 DEF MuxInv

\* What a video frame and an audio frame are stamped with does not depend on the other's count.
LEMMA MuxStep == ASSUME MuxInv, [TheMuxer!Next]_muxVars PROVE MuxInv'
<1> USE DEF MuxInv
<1>1. ASSUME UNCHANGED audio PROVE AudioInv'
  BY <1>1 DEF AudioInv, TheMuxer!InStep
<1>2. CASE TheMuxer!Frame
  <2>1. UNCHANGED audio
    BY <1>2 DEF TheMuxer!Frame
  <2> QED BY <1>1, <1>2, <2>1, ClockFrame
<1>3. CASE TheMuxer!LateFrame
  <2>1. UNCHANGED audio
    BY <1>3 DEF TheMuxer!LateFrame
  <2> QED BY <1>1, <1>3, <2>1, ClockLate
<1>4. CASE TheMuxer!AudioFrame
  <2>1. PICK v \in Int : v = pts.at
    BY DEF ClockInv, MuxClocks
  <2>2. UNCHANGED <<capture, pts, astray, resumes>>
    BY <1>4 DEF TheMuxer!AudioFrame
  <2>3. PICK readable \in BOOLEAN, n \in Samples, r \in Rates : audio' = TheMuxer!AudioPTS(audio, v, readable, n, r)
    BY <1>4, <2>1 DEF TheMuxer!AudioFrame
  <2>4. AudioInv'
    BY <2>3, AudioStamped
  <2>5. ClockInv'
    BY <2>2 DEF ClockInv
  <2> QED BY <2>4, <2>5
<1>5. CASE TheMuxer!Resume
  <2>1. UNCHANGED audio
    BY <1>5 DEF TheMuxer!Resume
  <2> QED BY <1>1, <1>5, <2>1, ClockResume
<1>6. CASE UNCHANGED muxVars
  <2>1. UNCHANGED <<capture, pts, audio, astray, resumes>>
    BY <1>6 DEF muxVars
  <2>2. ClockInv'
    BY <2>1 DEF ClockInv
  <2> QED BY <1>1, <2>1, <2>2
<1> QED BY <1>2, <1>3, <1>4, <1>5, <1>6 DEF TheMuxer!Next

\* Where the picture is is where its counter, its wraps and the timelines before put it.
LEMMA MuxTimed == ASSUME MuxInv PROVE TheMuxer!Timed
<1>1. /\ pts \in MuxClocks /\ capture \in Captures /\ resumes \in Nat
      /\ Num \in Nat /\ Den \in Nat /\ Den > 0 /\ TheMuxer!InStep
  BY MuxerAssumption DEF MuxInv, AudioInv, ClockInv
<1>2. PICK before \in Nat, now \in Nat : before = capture.before /\ now = capture.now
  BY <1>1 DEF Captures
<1>3. PICK o \in Int, at \in Int : o = pts.offset /\ at = pts.at
  BY <1>1 DEF MuxClocks
<1>4. PICK x \in Int, y \in Int : x = before * Num /\ y = now * Num
  BY <1>1
<1>5. PICK slack \in Nat : slack = Den * (2 * resumes)
  BY <1>1
<1>6. (before + now) * Num = x + y /\ Den * (2 * resumes + 1) = slack + Den
  BY <1>1, <1>4, <1>5
<1>7. ASSUME ~astray PROVE at * Den \in Int /\ at * Den <= x + y /\ at * Den >= x + y - (slack + Den)
  <2>1. CASE ~pts.started
    <3>1. at = 0 /\ now = 0 /\ before = 0
      BY <1>2, <1>3, <2>1 DEF MuxInv, ClockInv
    <3>2. at * Den = 0 /\ x = 0 /\ y = 0
      BY <1>1, <1>4, <3>1
    <3> QED BY <1>1, <1>5, <3>2
  <2>2. CASE pts.started
    <3>1. PICK n \in Int : n = y \div Den /\ Den * n <= y /\ y < Den * n + Den
      BY <1>1, Quotient
    <3>2. at = o + n /\ o * Den <= x /\ o * Den >= x - slack
      BY <1>2, <1>3, <1>4, <1>5, <1>7, <2>2, <3>1 DEF MuxInv, ClockInv
    <3>3. at * Den = o * Den + Den * n /\ o * Den \in Int /\ Den * n \in Int
      BY <1>1, <3>2
    <3> QED BY <1>1, <3>1, <3>2, <3>3
  <2> QED BY <2>1, <2>2
<1>8. TheMuxer!KeepsTime
  <2>1. ASSUME ~astray PROVE at * Den \in (x + y) - (slack + Den) .. x + y
    BY <1>1, <1>7, <2>1
  <2> QED BY <1>2, <1>3, <1>6, <2>1 DEF TheMuxer!KeepsTime
<1> QED BY <1>1, <1>8 DEF TheMuxer!Timed

-----------------------------------------------------------------------------
(* Recordings on a camera's card. *)

Outs == {"none", "clean", "failed", "cut"}
Ats == {"new", "wait", "conn", "dial", "send", "download", "done", "release", "over"}
Reads == [at : Ats, clip : BOOLEAN,
          link : Nat, old : BOOLEAN, tries : {0, 1}, got : SUBSET {"old", "own"}, out : Outs]
SdLinks == [open : BOOLEAN, sends : Jobs \cup {0}]

SdTypes ==
  /\ slot \in Jobs \cup {0}
  /\ kept \in [link : Nat, age : Nat]
  /\ links \in Seq(SdLinks)
  /\ timers \subseteq [link : Nat, left : Nat]
  /\ job \in [Jobs -> Reads]

InSlot(j) == job[j].at \in {"conn", "dial", "send", "download", "done", "release"}
Reading(j) == job[j].at \in {"send", "download", "done"}

\* The job that has the slot reads on the kept session, or on one that is
\* closed; no other session is open.
SdHeld ==
  /\ \A j \in Jobs : InSlot(j) <=> slot = j
  /\ kept.link # 0 => kept.link \in DOMAIN links
  /\ \A l \in DOMAIN links : links[l].open => l = kept.link
  /\ \A j \in Jobs : Reading(j) => job[j].link \in DOMAIN links /\ kept.link \in {0, job[j].link}
  /\ \A j \in Jobs : job[j].at = "dial" => \A l \in DOMAIN links : ~links[l].open

Unread == \A j \in Jobs : Reading(j) => job[j].link # kept.link
Covers(t) == t.link = kept.link /\ (kept.age < SdIdle => t.left + kept.age > SdIdle)

\* A session nobody reads on has a timer that does not fire too early.
SdTimed == kept.link # 0 /\ links[kept.link].open /\ Unread => \E t \in timers : Covers(t)

LeftOver(j, l) == job[j].link = l /\ (job[j].at = "download" \/ (job[j].at = "done" /\ job[j].out # "clean"))

\* A camera sends on a session what the job reads that is there, if it never stalls.
SdOwn ==
  ~Stalls =>
    /\ \A j \in Jobs : ~job[j].old /\ "old" \notin job[j].got
    /\ \A l \in DOMAIN links : links[l].open /\ links[l].sends # 0 => \E j \in Jobs : LeftOver(j, l)

SdInv == SdTypes /\ SdHeld /\ SdTimed /\ SdOwn

\* Closing a session closes that one.
LEMMA SdClose ==
  ASSUME links \in Seq(SdLinks), NEW k, k # 0 => k \in DOMAIN links
  PROVE  /\ TheSd!Close(k, links) \in Seq(SdLinks) /\ DOMAIN TheSd!Close(k, links) = DOMAIN links
         /\ \A l \in DOMAIN links : l # k => TheSd!Close(k, links)[l] = links[l]
         /\ k # 0 => ~TheSd!Close(k, links)[k].open
<1>1. CASE k = 0
  <2>1. \A l \in DOMAIN links : l # 0
    OBVIOUS
  <2> QED BY <1>1, <2>1 DEF TheSd!Close
<1>2. CASE k # 0
  <2> DEFINE shut == [open |-> FALSE, sends |-> 0]
  <2>1. shut \in SdLinks /\ ~shut.open
    BY DEF SdLinks
  <2>2. TheSd!Close(k, links) = [links EXCEPT ![k] = shut]
    BY <1>2 DEF TheSd!Close
  <2> HIDE DEF shut
  <2> QED BY <1>2, <2>1, <2>2
<1> QED BY <1>1, <1>2

\* Nobody reads at first.
LEMMA SdInit == TheSd!Init => SdInv
<1> SUFFICES ASSUME TheSd!Init PROVE SdInv
  OBVIOUS
<1>1. slot = 0 /\ kept = [link |-> 0, age |-> 0] /\ links = <<>> /\ timers = {} /\ job = [j \in Jobs |-> TheSd!New]
  BY DEF TheSd!Init
<1>2. TheSd!New \in Reads /\ TheSd!New.at = "new" /\ ~TheSd!New.old /\ TheSd!New.got = {}
  BY DEF TheSd!New, Reads, Outs, Ats
<1>3. kept.link = 0 /\ \A j \in Jobs : job[j] = TheSd!New
  BY <1>1
<1>4. SdTypes
  BY <1>1, <1>2 DEF SdTypes
<1>5. SdHeld
  BY <1>1, <1>2, <1>3, SdAssumption DEF SdHeld, InSlot, Reading
<1>6. SdTimed
  BY <1>3 DEF SdTimed
<1>7. SdOwn
  BY <1>1, <1>2, <1>3 DEF SdOwn
<1> QED BY <1>4, <1>5, <1>6, <1>7 DEF SdInv

Acts(j) ==
  \/ TheSd!Ask(j) \/ TheSd!Acquire(j) \/ TheSd!Refused(j) \/ TheSd!Conn(j) \/ TheSd!Dial(j) \/ TheSd!DialFails(j)
  \/ TheSd!List(j) \/ TheSd!Request(j) \/ TheSd!Media(j) \/ TheSd!Marked(j) \/ TheSd!Quiet(j) \/ TheSd!Abandon(j)
  \/ TheSd!Closed(j) \/ TheSd!Done(j) \/ TheSd!Release(j) \/ TheSd!Anew(j)

\* To write where a job is, is to write the job.
LEMMA ReadsAt ==
  ASSUME NEW j \in Jobs, NEW a \in Ats, job \in [Jobs -> Reads]
  PROVE  \E r \in Reads : [job EXCEPT ![j].at = a] = [job EXCEPT ![j] = r]
<1> DEFINE r == [job[j] EXCEPT !.at = a]
<1>1. r \in Reads
  <2>1. job[j] \in Reads
    OBVIOUS
  <2> QED BY <2>1 DEF Reads
<1>2. [job EXCEPT ![j].at = a] = [job EXCEPT ![j] = r]
  OBVIOUS
<1> HIDE DEF r
<1> QED BY <1>1, <1>2

\* The same of its end.
LEMMA ReadsDone ==
  ASSUME NEW j \in Jobs, NEW o \in Outs, job \in [Jobs -> Reads]
  PROVE  \E r \in Reads : [job EXCEPT ![j].at = "done", ![j].out = o] = [job EXCEPT ![j] = r]
<1> DEFINE r == [job[j] EXCEPT !.at = "done", !.out = o]
<1>1. r \in Reads
  <2>1. job[j] \in Reads
    OBVIOUS
  <2> QED BY <2>1 DEF Reads, Ats
<1>2. [job EXCEPT ![j].at = "done", ![j].out = o] = [job EXCEPT ![j] = r]
  OBVIOUS
<1> HIDE DEF r
<1> QED BY <1>1, <1>2

\* A job moves alone.
LEMMA SdMoves ==
  ASSUME SdInv, NEW j \in Jobs, Acts(j)
  PROVE  job' \in [Jobs -> Reads] /\ \A d \in Jobs : d # j => job'[d] = job[d]
<1>1. job \in [Jobs -> Reads] /\ job[j] \in Reads /\ kept.link \in Nat /\ links \in Seq(SdLinks)
  BY DEF SdInv, SdTypes
<1>2. SUFFICES \E r \in Reads : job' = [job EXCEPT ![j] = r]
  BY <1>1
<1>4. \A g \in SUBSET {"old", "own"} : [job[j] EXCEPT !.got = g, !.old = FALSE] \in Reads
  BY <1>1 DEF Reads, Ats
<1>5. [job[j] EXCEPT !.at = "download", !.old = (links[job[j].link].sends # 0)] \in Reads
  <2>1. (links[job[j].link].sends # 0) \in BOOLEAN
    OBVIOUS
  <2> QED BY <1>1, <2>1 DEF Reads, Ats
<1>6. TheSd!New \in Reads /\ \A clip \in BOOLEAN : [TheSd!New EXCEPT !.at = "wait", !.clip = clip] \in Reads
  BY DEF TheSd!New, Reads, Outs, Ats
<1>7. CASE TheSd!Ask(j) \/ TheSd!Anew(j)
  BY <1>6, <1>7 DEF TheSd!Ask, TheSd!Anew
<1>8. CASE \E a \in Ats : job' = [job EXCEPT ![j].at = a]
  <2>1. PICK a \in Ats : job' = [job EXCEPT ![j].at = a]
    BY <1>8
  <2>2. PICK r \in Reads : [job EXCEPT ![j].at = a] = [job EXCEPT ![j] = r]
    BY <1>1, ReadsAt
  <2>3. job' = [job EXCEPT ![j] = r]
    BY <2>1, <2>2
  <2> QED BY <2>3
<1>9. CASE TheSd!Acquire(j) \/ TheSd!Refused(j)
  <2>1. \E a \in Ats : job' = [job EXCEPT ![j].at = a]
    BY <1>9 DEF TheSd!Acquire, TheSd!Refused, TheSd!Goes, Ats
  <2> QED BY <1>8, <2>1
<1>10. CASE TheSd!Conn(j)
  <2>1. CASE job' = [job EXCEPT ![j].at = "send", ![j].link = kept.link]
    <3> DEFINE r == [job[j] EXCEPT !.at = "send", !.link = kept.link]
    <3>1. r \in Reads
      BY <1>1 DEF Reads, Ats, Outs
    <3>2. job' = [job EXCEPT ![j] = r]
      BY <1>1, <2>1
    <3> HIDE DEF r
    <3> QED BY <3>1, <3>2
  <2>2. CASE job' = [job EXCEPT ![j].at = "dial"]
    BY <1>8, <2>2 DEF Ats
  <2> QED BY <1>10, <2>1, <2>2 DEF TheSd!Conn, TheSd!Goes
<1>11. CASE TheSd!Dial(j)
  <2>0. Len(links) + 1 \in Nat
    BY <1>1
  <2> DEFINE r == [job[j] EXCEPT !.at = "send", !.link = Len(links) + 1]
  <2>1. r \in Reads
    BY <1>1, <2>0 DEF Reads, Ats, Outs
  <2>2. job' = [job EXCEPT ![j] = r]
    BY <1>1, <1>11 DEF TheSd!Dial
  <2> HIDE DEF r
  <2> QED BY <2>1, <2>2
<1>12. CASE TheSd!DialFails(j)
  <2>1. CASE job' = [job EXCEPT ![j].at = "conn", ![j].tries = 1]
    <3> DEFINE r == [job[j] EXCEPT !.at = "conn", !.tries = 1]
    <3>1. r \in Reads
      BY <1>1 DEF Reads, Ats, Outs
    <3>2. job' = [job EXCEPT ![j] = r]
      BY <1>1, <2>1
    <3> HIDE DEF r
    <3> QED BY <3>1, <3>2
  <2>2. CASE job' = [job EXCEPT ![j].at = "release"]
    BY <1>8, <2>2 DEF Ats
  <2> QED BY <1>12, <2>1, <2>2 DEF TheSd!DialFails
<1>13. CASE \E o \in Outs : job' = [job EXCEPT ![j].at = "done", ![j].out = o]
  <2>1. PICK o \in Outs : job' = [job EXCEPT ![j].at = "done", ![j].out = o]
    BY <1>13
  <2>2. PICK r \in Reads : [job EXCEPT ![j].at = "done", ![j].out = o] = [job EXCEPT ![j] = r]
    BY <1>1, ReadsDone
  <2>3. job' = [job EXCEPT ![j] = r]
    BY <2>1, <2>2
  <2> QED BY <2>3
<1>14. CASE TheSd!List(j) \/ TheSd!Marked(j) \/ TheSd!Quiet(j) \/ TheSd!Abandon(j) \/ TheSd!Closed(j)
  <2>1. \E o \in Outs : job' = [job EXCEPT ![j].at = "done", ![j].out = o]
    BY <1>14 DEF TheSd!List, TheSd!Marked, TheSd!Quiet, TheSd!Abandon, TheSd!Closed, TheSd!Left, Outs
  <2> QED BY <1>13, <2>1
<1>15. CASE TheSd!Request(j)
  <2>1. CASE job' = [job EXCEPT ![j].at = "download", ![j].old = (links[job[j].link].sends # 0)]
    <3> DEFINE r == [job[j] EXCEPT !.at = "download", !.old = (links[job[j].link].sends # 0)]
    <3>1. r \in Reads
      BY <1>5
    <3>2. job' = [job EXCEPT ![j] = r]
      BY <1>1, <2>1
    <3> HIDE DEF r
    <3> QED BY <3>1, <3>2
  <2>2. CASE job' = [job EXCEPT ![j].at = "done", ![j].out = "failed"]
    BY <1>13, <2>2 DEF Outs
  <2> QED BY <1>15, <2>1, <2>2 DEF TheSd!Request
<1>16. CASE TheSd!Media(j)
  <2> DEFINE g == job[j].got \cup {IF job[j].old THEN "old" ELSE "own"}
  <2>1. job' = [job EXCEPT ![j] = [job[j] EXCEPT !.got = g, !.old = FALSE]]
    BY <1>1, <1>16 DEF TheSd!Media
  <2>2. g \in SUBSET {"old", "own"}
    BY <1>1 DEF Reads
  <2> QED BY <1>4, <2>1, <2>2
<1>17. CASE TheSd!Done(j)
  <2>1. CASE job' = [job EXCEPT ![j].at = "conn", ![j].tries = 1, ![j].link = 0]
    <3> DEFINE r == [job[j] EXCEPT !.at = "conn", !.tries = 1, !.link = 0]
    <3>1. r \in Reads
      BY <1>1 DEF Reads, Ats, Outs
    <3>2. job' = [job EXCEPT ![j] = r]
      BY <1>1, <2>1
    <3> HIDE DEF r
    <3> QED BY <3>1, <3>2
  <2>2. CASE job' = [job EXCEPT ![j].at = "release"]
    BY <1>8, <2>2 DEF Ats
  <2> QED BY <1>17, <2>1, <2>2 DEF TheSd!Done
<1>18. CASE TheSd!Release(j)
  <2> DEFINE r == [job[j] EXCEPT !.at = "over", !.link = 0]
  <2>1. r \in Reads
    BY <1>1 DEF Reads, Ats, Outs
  <2>2. job' = [job EXCEPT ![j] = r]
    BY <1>1, <1>18 DEF TheSd!Release
  <2> HIDE DEF r
  <2> QED BY <2>1, <2>2
<1> QED BY <1>7, <1>9, <1>10, <1>11, <1>12, <1>14, <1>15, <1>16, <1>17, <1>18 DEF Acts

\* A step of a job that leaves the sessions alone keeps them in hand.
LEMMA SdAlike ==
  ASSUME SdInv, UNCHANGED <<kept, links, timers>>, NEW j \in Jobs,
         job' \in [Jobs -> Reads], \A d \in Jobs : d # j => job'[d] = job[d],
         slot' \in {0, j, slot},
         \A d \in Jobs : InSlot(d)' <=> slot' = d,
         Reading(j)' => \/ Reading(j) /\ job'[j].link = job[j].link
                        \/ kept.link # 0 /\ job'[j].link = kept.link,
         Reading(j) => Reading(j)' /\ job'[j].link = job[j].link,
         job'[j].at = "dial" => job[j].at = "dial",
         ~Stalls => /\ ~job'[j].old /\ "old" \notin job'[j].got
                    /\ \A l \in DOMAIN links : links[l].open /\ links[l].sends # 0 /\ LeftOver(j, l) => LeftOver(j, l)'
  PROVE  SdInv'
<1>1. SdTypes /\ SdHeld /\ SdTimed /\ SdOwn
  BY DEF SdInv
<1>2. SdTypes'
  BY <1>1 DEF SdTypes
<1>3. SdHeld'
  BY <1>1 DEF SdHeld, Reading
<1>4. SdTimed'
  <2>1. Unread' => Unread
    BY DEF Unread, Reading
  <2>2. \A t \in timers : Covers(t) => Covers(t)'
    BY DEF Covers
  <2> QED BY <1>1, <2>1, <2>2 DEF SdTimed
<1>5. SdOwn'
  <2>1. \A d \in Jobs, l \in DOMAIN links : d # j /\ LeftOver(d, l) => LeftOver(d, l)'
    BY DEF LeftOver
  <2> QED BY <1>1, <2>1 DEF SdOwn
<1> QED BY <1>2, <1>3, <1>4, <1>5 DEF SdInv

\* Such steps are those of a job that waits, gives up, lists or is sent media.
LEMMA SdQuietStep ==
  ASSUME SdInv, NEW j \in Jobs,
         \/ TheSd!Ask(j) \/ TheSd!Acquire(j) \/ TheSd!Refused(j) \/ TheSd!DialFails(j) \/ TheSd!List(j)
         \/ TheSd!Media(j) \/ TheSd!Abandon(j) \/ TheSd!Closed(j) \/ TheSd!Release(j) \/ TheSd!Anew(j)
         \/ (TheSd!Conn(j) /\ TheSd!Reusable(kept.link))
  PROVE  SdInv'
<1>1. /\ job' \in [Jobs -> Reads] /\ job \in [Jobs -> Reads] /\ job[j] \in Reads
      /\ \A d \in Jobs : d # j => job'[d] = job[d]
  BY SdMoves DEF Acts, SdInv, SdTypes
<1>2. UNCHANGED <<kept, links, timers>>
  BY DEF TheSd!Ask, TheSd!Acquire, TheSd!Refused, TheSd!DialFails, TheSd!List, TheSd!Media, TheSd!Abandon,
         TheSd!Closed, TheSd!Release, TheSd!Anew, TheSd!Conn
<1>3. SdHeld /\ SdOwn /\ slot \in Jobs \cup {0} /\ links \in Seq(SdLinks)
  BY DEF SdInv, SdTypes
<1> USE SdAssumption
<1>4. CASE TheSd!Ask(j)
  <2>1. job[j].at = "new" /\ job'[j].at = "wait" /\ ~job'[j].old /\ job'[j].got = {} /\ slot' = slot
    <3>1. PICK clip \in BOOLEAN : job' = [job EXCEPT ![j] = [TheSd!New EXCEPT !.at = "wait", !.clip = clip]]
      BY <1>4 DEF TheSd!Ask
    <3> DEFINE r == [TheSd!New EXCEPT !.at = "wait", !.clip = clip]
    <3>2. r.at = "wait" /\ ~r.old /\ r.got = {}
      BY DEF TheSd!New
    <3>3. job'[j] = r
      BY <1>1, <3>1
    <3> HIDE DEF r
    <3> QED BY <1>4, <3>2, <3>3 DEF TheSd!Ask
  <2> QED BY <1>1, <1>2, <1>3, <2>1, SdAlike DEF SdHeld, InSlot, Reading, LeftOver
<1>5. CASE TheSd!Acquire(j)
  <2>1. /\ job[j].at = "wait" /\ job'[j].at = "conn" /\ slot = 0 /\ slot' = j
        /\ job'[j].old = job[j].old /\ job'[j].got = job[j].got
    BY <1>1, <1>5 DEF TheSd!Acquire, TheSd!Goes, TheSd!Free, Reads
  <2> QED BY <1>1, <1>2, <1>3, <2>1, SdAlike DEF SdHeld, SdOwn, InSlot, Reading, LeftOver
<1>6. CASE TheSd!Refused(j)
  <2>1. /\ job[j].at = "wait" /\ job'[j].at = "over" /\ slot' = slot
        /\ job'[j].old = job[j].old /\ job'[j].got = job[j].got
    BY <1>1, <1>6 DEF TheSd!Refused, TheSd!Goes, Reads
  <2> QED BY <1>1, <1>2, <1>3, <2>1, SdAlike DEF SdHeld, SdOwn, InSlot, Reading, LeftOver
<1>7. CASE TheSd!DialFails(j)
  <2>1. /\ job[j].at = "dial" /\ job'[j].at \in {"conn", "release"} /\ slot' = slot
        /\ job'[j].old = job[j].old /\ job'[j].got = job[j].got
    BY <1>1, <1>7 DEF TheSd!DialFails, Reads
  <2> QED BY <1>1, <1>2, <1>3, <2>1, SdAlike DEF SdHeld, SdOwn, InSlot, Reading, LeftOver
<1>8. CASE TheSd!List(j)
  <2>1. /\ job[j].at = "send" /\ job'[j].at = "done" /\ slot' = slot /\ job'[j].link = job[j].link
        /\ job'[j].old = job[j].old /\ job'[j].got = job[j].got
    BY <1>1, <1>8 DEF TheSd!List, Reads
  <2> QED BY <1>1, <1>2, <1>3, <2>1, SdAlike DEF SdHeld, SdOwn, InSlot, Reading, LeftOver
<1>9. CASE TheSd!Media(j)
  <2>1. /\ job[j].at = "download" /\ job'[j].at = "download" /\ slot' = slot /\ job'[j].link = job[j].link
        /\ ~job'[j].old /\ job'[j].got = job[j].got \cup {IF job[j].old THEN "old" ELSE "own"}
    BY <1>1, <1>9 DEF TheSd!Media, Reads
  <2>2. ~Stalls => ~job'[j].old /\ "old" \notin job'[j].got
    <3> SUFFICES ASSUME ~Stalls PROVE ~job'[j].old /\ "old" \notin job'[j].got
      OBVIOUS
    <3>1. ~job[j].old /\ "old" \notin job[j].got
      BY <1>3 DEF SdOwn
    <3>2. job'[j].got = job[j].got \cup {"own"}
      BY <2>1, <3>1
    <3>3. "old" \notin job'[j].got
      BY <3>1, <3>2
    <3>4. ~job'[j].old
      BY <2>1
    <3> QED BY <3>3, <3>4
  <2>3. \A d \in Jobs : InSlot(d)' <=> slot' = d
    BY <1>1, <1>3, <2>1 DEF SdHeld, InSlot
  <2>4. \A l \in DOMAIN links : LeftOver(j, l) => LeftOver(j, l)'
    BY <2>1 DEF LeftOver
  <2> QED BY <1>1, <1>2, <2>1, <2>2, <2>3, <2>4, SdAlike DEF Reading
<1>10. CASE TheSd!Abandon(j) \/ TheSd!Closed(j)
  <2>1. /\ job[j].at = "download" /\ job'[j].at = "done" /\ slot' = slot /\ job'[j].link = job[j].link
        /\ job'[j].old = job[j].old /\ job'[j].got = job[j].got /\ job'[j].out # "clean"
    BY <1>1, <1>10 DEF TheSd!Abandon, TheSd!Closed, TheSd!Left, Reads
  <2> QED BY <1>1, <1>2, <1>3, <2>1, SdAlike DEF SdHeld, SdOwn, InSlot, Reading, LeftOver
<1>11. CASE TheSd!Release(j)
  <2>1. /\ job[j].at = "release" /\ job'[j].at = "over" /\ slot' = 0
        /\ job'[j].old = job[j].old /\ job'[j].got = job[j].got
    BY <1>1, <1>11 DEF TheSd!Release, Reads
  <2> QED BY <1>1, <1>2, <1>3, <2>1, SdAlike DEF SdHeld, SdOwn, InSlot, Reading, LeftOver
<1>12. CASE TheSd!Anew(j)
  <2>1. job[j].at = "over" /\ job'[j].at = "new" /\ ~job'[j].old /\ job'[j].got = {} /\ slot' = slot
    BY <1>1, <1>12 DEF TheSd!Anew, TheSd!New
  <2> QED BY <1>1, <1>2, <1>3, <2>1, SdAlike DEF SdHeld, InSlot, Reading, LeftOver
<1>13. CASE TheSd!Conn(j) /\ TheSd!Reusable(kept.link)
  <2>1. /\ job[j].at = "conn" /\ job'[j].at = "send" /\ slot' = slot /\ job'[j].link = kept.link /\ kept.link # 0
        /\ job'[j].old = job[j].old /\ job'[j].got = job[j].got
    BY <1>1, <1>13 DEF TheSd!Conn, TheSd!Reusable, TheSd!Open, Reads
  <2> QED BY <1>1, <1>2, <1>3, <2>1, SdAlike DEF SdHeld, SdOwn, InSlot, Reading, LeftOver
<1> QED BY <1>4, <1>5, <1>6, <1>7, <1>8, <1>9, <1>10, <1>11, <1>12, <1>13

\* A camera starts or ends sending on one session.
LEMMA SdSends ==
  ASSUME links \in Seq(SdLinks), NEW l \in DOMAIN links, NEW x \in Jobs \cup {0},
         links' = [links EXCEPT ![l].sends = x]
  PROVE  /\ links' \in Seq(SdLinks) /\ DOMAIN links' = DOMAIN links
         /\ \A k \in DOMAIN links : k # l => links'[k] = links[k]
         /\ (links'[l].open <=> links[l].open) /\ links'[l].sends = x
<1> DEFINE r == [links[l] EXCEPT !.sends = x]
<1>1. r \in SdLinks /\ (r.open <=> links[l].open) /\ r.sends = x
  <2>1. links[l] \in SdLinks
    OBVIOUS
  <2> QED BY <2>1 DEF SdLinks
<1>2. links' = [links EXCEPT ![l] = r]
  OBVIOUS
<1> HIDE DEF r
<1> QED BY <1>1, <1>2

\* What a job does to the sessions keeps them in hand.
LEMMA SdLinkStep ==
  ASSUME SdInv, NEW j \in Jobs,
         \/ (TheSd!Conn(j) /\ ~TheSd!Reusable(kept.link))
         \/ TheSd!Dial(j) \/ TheSd!Request(j) \/ TheSd!Marked(j) \/ TheSd!Quiet(j) \/ TheSd!Done(j)
  PROVE  SdInv'
<1> USE SdAssumption
<1>1. /\ job' \in [Jobs -> Reads] /\ job \in [Jobs -> Reads] /\ job[j] \in Reads
      /\ \A d \in Jobs : d # j => job'[d] = job[d]
  BY SdMoves DEF Acts, SdInv, SdTypes
<1>2. /\ SdHeld /\ SdOwn /\ SdTimed /\ slot \in Jobs \cup {0} /\ links \in Seq(SdLinks)
      /\ kept \in [link : Nat, age : Nat] /\ timers \subseteq [link : Nat, left : Nat] /\ kept.link \in Nat
  BY DEF SdInv, SdTypes
<1>3. slot' = slot /\ slot = j /\ (TheSd!Done(j) \/ timers' = timers)
  <2>1. InSlot(j)
    BY DEF TheSd!Conn, TheSd!Dial, TheSd!Request, TheSd!Marked, TheSd!Quiet, TheSd!Done, InSlot
  <2>2. slot' = slot /\ (TheSd!Done(j) \/ timers' = timers)
    BY DEF TheSd!Conn, TheSd!Dial, TheSd!Request, TheSd!Marked, TheSd!Quiet, TheSd!Done
  <2> QED BY <1>2, <2>1, <2>2 DEF SdHeld
<1>4. \A d \in Jobs : d # j => ~InSlot(d) /\ ~Reading(d) /\ job[d].at # "dial"
  BY <1>2, <1>3 DEF SdHeld, InSlot, Reading
<1>5. \A d \in Jobs, l \in DOMAIN links : LeftOver(d, l) => d = j
  BY <1>4 DEF LeftOver, Reading
<1>6. ASSUME InSlot(j)' PROVE \A d \in Jobs : InSlot(d)' <=> slot' = d
  BY <1>1, <1>3, <1>4, <1>6 DEF InSlot
<1>0. ASSUME job'[j].old = job[j].old, job'[j].got = job[j].got, ~Stalls
      PROVE  \A d \in Jobs : ~job'[d].old /\ "old" \notin job'[d].got
  <2>1. \A d \in Jobs : ~job[d].old /\ "old" \notin job[d].got
    BY <1>0, <1>2 DEF SdOwn
  <2> TAKE d \in Jobs
  <2>2. CASE d = j
    BY <1>0, <2>1, <2>2
  <2>3. CASE d # j
    BY <1>1, <2>1, <2>3
  <2> QED BY <2>2, <2>3
<1>7. CASE TheSd!Conn(j) /\ ~TheSd!Reusable(kept.link)
  <2>1. /\ job[j].at = "conn" /\ job'[j].at = "dial" /\ UNCHANGED <<kept, timers>>
        /\ links' = TheSd!Close(kept.link, links)
        /\ job'[j].old = job[j].old /\ job'[j].got = job[j].got
    BY <1>1, <1>7 DEF TheSd!Conn, TheSd!Goes, Reads
  <2>2. /\ links' \in Seq(SdLinks) /\ DOMAIN links' = DOMAIN links /\ \A l \in DOMAIN links : ~links'[l].open
    BY <1>2, <2>1, SdClose DEF SdHeld
  <2>3. SdHeld'
    BY <1>1, <1>2, <1>4, <1>6, <2>1, <2>2 DEF SdHeld, InSlot, Reading
  <2>4. SdTimed'
    BY <1>2, <2>1, <2>2 DEF SdTimed, SdHeld
  <2>5. SdOwn'
    <3>1. ~Stalls => \A d \in Jobs : ~job'[d].old /\ "old" \notin job'[d].got
      BY <1>0, <2>1
    <3>2. \A l \in DOMAIN links' : ~links'[l].open
      BY <2>2
    <3> QED BY <3>1, <3>2, Zenon DEF SdOwn
  <2> QED BY <1>1, <1>2, <1>3, <1>7, <2>1, <2>2, <2>3, <2>4, <2>5 DEF SdInv, SdTypes
<1>8. CASE TheSd!Dial(j)
  <2> DEFINE n == Len(links) + 1
             fresh == [open |-> TRUE, sends |-> 0]
  <2>1. /\ job[j].at = "dial" /\ job'[j].at = "send" /\ job'[j].link = n /\ kept' = [link |-> n, age |-> 0]
        /\ links' = Append(links, fresh) /\ UNCHANGED timers
        /\ job'[j].old = job[j].old /\ job'[j].got = job[j].got
    BY <1>1, <1>8 DEF TheSd!Dial, Reads
  <2>2. fresh \in SdLinks /\ fresh.sends = 0
    BY DEF SdLinks
  <2> HIDE DEF fresh
  <2>3. /\ links' \in Seq(SdLinks) /\ DOMAIN links' = DOMAIN links \cup {n} /\ n # 0 /\ n \in Nat
        /\ \A l \in DOMAIN links : links'[l] = links[l] /\ ~links[l].open
        /\ links'[n].sends = 0
    BY <1>2, <2>1, <2>2 DEF SdHeld
  <2>4. kept'.link = n /\ kept'.age = 0 /\ kept' \in [link : Nat, age : Nat]
    BY <2>1, <2>3
  <2> HIDE DEF n
  <2>5. SdHeld'
    <3>1. \A l \in DOMAIN links' : links'[l].open => l = kept'.link
      BY <2>3, <2>4
    <3>2. \A d \in Jobs : Reading(d)' => job'[d].link \in DOMAIN links' /\ kept'.link \in {0, job'[d].link}
      BY <1>1, <1>4, <2>1, <2>3, <2>4 DEF Reading
    <3>3. \A d \in Jobs : job'[d].at # "dial"
      BY <1>1, <1>4, <2>1
    <3>4. InSlot(j)'
      BY <2>1 DEF InSlot
    <3> QED BY <1>6, <2>3, <2>4, <3>1, <3>2, <3>3, <3>4 DEF SdHeld
  <2>6. SdTimed'
    BY <2>1, <2>4 DEF SdTimed, Unread, Reading
  <2>7. SdOwn'
    <3>1. ~Stalls => \A d \in Jobs : ~job'[d].old /\ "old" \notin job'[d].got
      BY <1>0, <2>1
    <3>2. \A l \in DOMAIN links' : ~(links'[l].open /\ links'[l].sends # 0)
      BY <2>3
    <3> QED BY <3>1, <3>2, Zenon DEF SdOwn
  <2> QED BY <1>1, <1>2, <1>3, <2>1, <2>3, <2>4, <2>5, <2>6, <2>7 DEF SdInv, SdTypes
<1>9. ASSUME NEW x \in Jobs \cup {0}, links' = [links EXCEPT ![job[j].link].sends = x], kept' = kept, timers' = timers,
             Reading(j), Reading(j)', job'[j].link = job[j].link,
             ~Stalls => ~job'[j].old /\ "old" \notin job'[j].got,
             ~Stalls /\ x # 0 => LeftOver(j, job[j].link)'
      PROVE  SdInv'
  <2> DEFINE l == job[j].link
  <2>1. l \in DOMAIN links /\ kept.link \in {0, l}
    BY <1>2, <1>9 DEF SdHeld
  <2>2. /\ links' \in Seq(SdLinks) /\ DOMAIN links' = DOMAIN links
        /\ \A k \in DOMAIN links : k # l => links'[k] = links[k]
        /\ (links'[l].open <=> links[l].open) /\ links'[l].sends = x
    BY <1>2, <1>9, <2>1, SdSends
  <2>3. \A k \in DOMAIN links : links'[k].open <=> links[k].open
    BY <2>2
  <2>4. \A k \in DOMAIN links : links[k].open => k = l
    <3>1. \A k \in DOMAIN links : k # 0
      BY <1>2
    <3> QED BY <1>2, <2>1, <3>1 DEF SdHeld
  <2> HIDE DEF l
  <2>5. SdHeld'
    <3>1. InSlot(j)' /\ job'[j].at # "dial"
      BY <1>9 DEF InSlot, Reading
    <3>2. \A d \in Jobs : Reading(d)' => job'[d].link \in DOMAIN links' /\ kept'.link \in {0, job'[d].link}
      BY <1>1, <1>4, <1>9, <2>1, <2>2 DEF Reading, l
    <3>3. \A d \in Jobs : job'[d].at # "dial"
      BY <1>1, <1>4, <3>1
    <3> QED BY <1>2, <1>6, <1>9, <2>2, <2>3, <3>1, <3>2, <3>3 DEF SdHeld
  <2>6. SdTimed'
    <3>1. Unread' => Unread
      BY <1>1, <1>9 DEF Unread, Reading
    <3>2. kept.link # 0 => kept.link \in DOMAIN links
      BY <1>2 DEF SdHeld
    <3>3. \A t \in timers : Covers(t) => Covers(t)'
      BY <1>9 DEF Covers
    <3> QED BY <1>2, <1>9, <2>3, <3>1, <3>2, <3>3 DEF SdTimed
  <2>7. SdOwn'
    <3> SUFFICES ASSUME ~Stalls
        PROVE  /\ \A d \in Jobs : ~job'[d].old /\ "old" \notin job'[d].got
               /\ \A k \in DOMAIN links' : links'[k].open /\ links'[k].sends # 0 => \E d \in Jobs : LeftOver(d, k)'
      BY DEF SdOwn
    <3>1. \A d \in Jobs : ~job'[d].old /\ "old" \notin job'[d].got
      BY <1>1, <1>2, <1>9 DEF SdOwn
    <3>2. \A k \in DOMAIN links' : links'[k].open /\ links'[k].sends # 0 => LeftOver(j, k)'
      BY <1>9, <2>2, <2>3, <2>4 DEF l
    <3> QED BY <3>1, <3>2
  <2> QED BY <1>1, <1>2, <1>3, <1>9, <2>2, <2>5, <2>6, <2>7 DEF SdInv, SdTypes
<1>10. CASE TheSd!Request(j)
  <2>1. job[j].at = "send" /\ UNCHANGED <<kept, timers>>
    BY <1>10 DEF TheSd!Request
  <2>2. CASE TheSd!Open(job[j].link)
    <3>1. /\ job'[j].at = "download" /\ job'[j].link = job[j].link /\ job'[j].old = (links[job[j].link].sends # 0)
          /\ job'[j].got = job[j].got /\ links' = [links EXCEPT ![job[j].link].sends = j]
      BY <1>1, <1>10, <2>2 DEF TheSd!Request, Reads
    <3>2. ASSUME ~Stalls PROVE links[job[j].link].sends = 0 /\ "old" \notin job[j].got
      <4>1. job[j].link \in DOMAIN links /\ links[job[j].link].open
        BY <1>2, <2>1, <2>2 DEF SdHeld, Reading, TheSd!Open
      <4>2. ~LeftOver(j, job[j].link)
        BY <2>1 DEF LeftOver
      <4>3. ~ \E d \in Jobs : LeftOver(d, job[j].link)
        BY <1>5, <4>1, <4>2
      <4>4. links[job[j].link].sends = 0
        BY <1>2, <3>2, <4>1, <4>3 DEF SdOwn
      <4>5. "old" \notin job[j].got
        BY <1>2, <3>2 DEF SdOwn
      <4> QED BY <4>4, <4>5, Zenon
    <3>3. ~Stalls => ~job'[j].old /\ "old" \notin job'[j].got
      BY <3>1, <3>2
    <3>4. Reading(j) /\ Reading(j)' /\ LeftOver(j, job[j].link)'
      BY <2>1, <3>1 DEF Reading, LeftOver
    <3> QED BY <1>3, <1>9, <2>1, <3>1, <3>3, <3>4
  <2>3. CASE ~TheSd!Open(job[j].link)
    <3>1. /\ job'[j].at = "done" /\ job'[j].link = job[j].link /\ job'[j].old = job[j].old /\ job'[j].got = job[j].got
          /\ UNCHANGED links
      BY <1>1, <1>10, <2>3 DEF TheSd!Request, Reads
    <3>2. InSlot(j)'
      BY <3>1 DEF InSlot
    <3>3. ~Stalls => ~job'[j].old /\ "old" \notin job'[j].got
      BY <1>2, <3>1 DEF SdOwn
    <3>4. \A l \in DOMAIN links : LeftOver(j, l) => LeftOver(j, l)'
      BY <2>1 DEF LeftOver
    <3> QED BY <1>1, <1>3, <1>6, <2>1, <3>1, <3>2, <3>3, <3>4, SdAlike DEF Reading
  <2> QED BY <2>2, <2>3
<1>11. CASE TheSd!Marked(j) \/ TheSd!Quiet(j)
  <2>1. /\ job[j].at = "download" /\ job'[j].at = "done" /\ job'[j].link = job[j].link /\ UNCHANGED <<kept, timers>>
        /\ job'[j].old = job[j].old /\ job'[j].got = job[j].got
    BY <1>1, <1>11 DEF TheSd!Marked, TheSd!Quiet, Reads
  <2>2. ~Stalls => ~job'[j].old /\ "old" \notin job'[j].got
    BY <1>2, <2>1 DEF SdOwn
  <2>3. CASE links' = [links EXCEPT ![job[j].link].sends = 0]
    BY <1>9, <2>1, <2>2, <2>3 DEF Reading
  <2>4. CASE Stalls /\ links' = links
    <3>1. InSlot(j)'
      BY <2>1 DEF InSlot
    <3> QED BY <1>1, <1>3, <1>6, <2>1, <2>4, <3>1, SdAlike DEF Reading
  <2> QED BY <1>11, <2>3, <2>4 DEF TheSd!Marked, TheSd!Quiet
<1>12. CASE TheSd!Done(j)
  <2> DEFINE l == job[j].link
  <2>1. /\ job[j].at = "done" /\ job'[j].at \in {"conn", "release"} /\ job'[j].old = job[j].old
        /\ job'[j].got = job[j].got
    BY <1>1, <1>12 DEF TheSd!Done, Reads
  <2>2. l \in DOMAIN links /\ l # 0 /\ kept.link \in {0, l} /\ \A k \in DOMAIN links : k # 0
    BY <1>2, <2>1 DEF SdHeld, Reading
  <2>3. InSlot(j)' /\ \A d \in Jobs : ~Reading(d)' /\ job'[d].at # "dial"
    BY <1>1, <1>4, <2>1 DEF InSlot, Reading
  <2>4. CASE links' = TheSd!Close(l, links) /\ kept' = [link |-> 0, age |-> 0] /\ timers' = timers
    <3>1. kept'.link = 0 /\ kept' \in [link : Nat, age : Nat]
      BY <2>4
    <3>2. links' \in Seq(SdLinks) /\ DOMAIN links' = DOMAIN links /\ \A k \in DOMAIN links : ~links'[k].open
      <4>1. /\ links' \in Seq(SdLinks) /\ DOMAIN links' = DOMAIN links /\ ~links'[l].open
            /\ \A k \in DOMAIN links : k # l => links'[k] = links[k]
        BY <1>2, <2>2, <2>4, SdClose
      <4>2. \A k \in DOMAIN links : k # l => ~links[k].open
        BY <1>2, <2>2 DEF SdHeld
      <4> QED BY <4>1, <4>2
    <3>3. SdHeld' /\ SdTimed'
      BY <1>6, <2>3, <3>1, <3>2 DEF SdHeld, SdTimed
    <3>4. SdOwn'
      BY <1>1, <1>2, <2>1, <3>2 DEF SdOwn
    <3> QED BY <1>1, <1>2, <1>3, <2>4, <3>1, <3>2, <3>3, <3>4 DEF SdInv, SdTypes
  <2>5. CASE kept.link # l /\ links' = TheSd!Close(l, links) /\ kept' = kept /\ timers' = timers
    <3>1. kept.link = 0
      BY <2>2, <2>5
    <3>2. links' \in Seq(SdLinks) /\ DOMAIN links' = DOMAIN links /\ \A k \in DOMAIN links : ~links'[k].open
      BY <1>2, <2>2, <2>5, <3>1, SdClose DEF SdHeld
    <3>3. SdHeld' /\ SdTimed'
      BY <1>6, <2>3, <2>5, <3>1, <3>2 DEF SdHeld, SdTimed
    <3>4. SdOwn'
      BY <1>1, <1>2, <2>1, <3>2 DEF SdOwn
    <3> QED BY <1>1, <1>2, <1>3, <2>5, <3>2, <3>3, <3>4 DEF SdInv, SdTypes
  <2>6. CASE /\ kept.link = l /\ job[j].out = "clean" /\ kept' = [kept EXCEPT !.age = 0] /\ links' = links
             /\ timers' = timers \cup {[link |-> l, left |-> SdIdle + 1]}
    <3>0. PICK t : t = [link |-> l, left |-> SdIdle + 1]
      OBVIOUS
    <3>1. kept'.link = l /\ kept'.age = 0 /\ kept' \in [link : Nat, age : Nat]
      BY <1>2, <2>6
    <3>2. t \in timers' /\ timers' \subseteq [link : Nat, left : Nat] /\ Covers(t)'
      <4>1. t \in [link : Nat, left : Nat] /\ t.link = l /\ t.left = SdIdle + 1
        BY <1>2, <2>6, <3>0
      <4>2. Covers(t)'
        BY <3>1, <4>1 DEF Covers
      <4>3. timers' = timers \cup {t}
        BY <2>6, <3>0
      <4> QED BY <1>2, <4>1, <4>2, <4>3
    <3>3. SdTimed'
      BY <3>2 DEF SdTimed
    <3>4. SdHeld'
      BY <1>2, <1>6, <2>3, <2>6, <3>1 DEF SdHeld
    <3>5. SdOwn'
      <4>1. \A d \in Jobs, k \in DOMAIN links : ~LeftOver(d, k)
        BY <1>5, <2>1, <2>6 DEF LeftOver
      <4> QED BY <1>1, <1>2, <2>1, <2>6, <4>1 DEF SdOwn
    <3> QED BY <1>1, <1>2, <1>3, <2>6, <3>1, <3>2, <3>3, <3>4, <3>5 DEF SdInv, SdTypes
  <2> QED BY <1>12, <2>4, <2>5, <2>6 DEF TheSd!Done
<1> QED BY <1>7, <1>8, <1>10, <1>11, <1>12

\* A session that breaks, a timer that fires and a tick keep them in hand.
LEMMA SdTimeStep ==
  ASSUME SdInv, TheSd!Break \/ (\E t \in timers : TheSd!Fire(t)) \/ TheSd!Tick
  PROVE  SdInv'
<1> USE SdAssumption
<1>1. /\ SdHeld /\ SdOwn /\ SdTimed /\ links \in Seq(SdLinks) /\ SdTypes
      /\ kept \in [link : Nat, age : Nat] /\ timers \subseteq [link : Nat, left : Nat]
      /\ kept.link \in Nat /\ kept.age \in Nat
  BY DEF SdInv, SdTypes
<1>2. UNCHANGED <<slot, job>>
  BY DEF TheSd!Break, TheSd!Fire, TheSd!Tick
<1>3. CASE TheSd!Break
  <2>1. PICK l \in DOMAIN links : links' = TheSd!Close(l, links) /\ UNCHANGED <<kept, timers>>
    BY <1>3 DEF TheSd!Break
  <2>2. /\ links' \in Seq(SdLinks) /\ DOMAIN links' = DOMAIN links /\ l # 0
        /\ \A k \in DOMAIN links : links'[k].open => links'[k] = links[k]
    BY <1>1, <2>1, SdClose
  <2>3. SdHeld'
    BY <1>1, <1>2, <2>1, <2>2 DEF SdHeld, InSlot, Reading
  <2>4. SdTimed'
    BY <1>1, <1>2, <2>1, <2>2 DEF SdTimed, SdHeld, Unread, Reading, Covers
  <2>5. SdOwn'
    BY <1>1, <1>2, <2>1, <2>2 DEF SdOwn, LeftOver
  <2> QED BY <1>1, <1>2, <2>1, <2>2, <2>3, <2>4, <2>5 DEF SdInv, SdTypes
<1>4. ASSUME NEW t \in timers, TheSd!Fire(t) PROVE SdInv'
  <2>1. t.left = 0 /\ timers' = timers \ {t} /\ t \in [link : Nat, left : Nat]
    BY <1>1, <1>4 DEF TheSd!Fire
  <2>2. CASE TheSd!Stale(t)
    <3>1. links' = TheSd!Close(t.link, links) /\ kept' = [link |-> 0, age |-> 0] /\ t.link = kept.link
      BY <1>4, <2>2 DEF TheSd!Fire, TheSd!Stale
    <3>2. kept'.link = 0 /\ kept' \in [link : Nat, age : Nat]
      BY <3>1
    <3>3. links' \in Seq(SdLinks) /\ DOMAIN links' = DOMAIN links /\ \A k \in DOMAIN links : ~links'[k].open
      BY <1>1, <3>1, SdClose DEF SdHeld
    <3>4. SdHeld'
      BY <1>1, <1>2, <3>2, <3>3 DEF SdHeld, InSlot, Reading
    <3>5. SdTimed' /\ SdOwn'
      BY <1>1, <1>2, <3>2, <3>3 DEF SdTimed, SdOwn
    <3> QED BY <1>1, <1>2, <2>1, <3>2, <3>3, <3>4, <3>5 DEF SdInv, SdTypes
  <2>3. CASE ~TheSd!Stale(t)
    <3>1. UNCHANGED <<links, kept>> /\ (kept.link = t.link => kept.age < SdIdle)
      BY <1>1, <1>4, <2>3 DEF TheSd!Fire, TheSd!Stale
    <3>2. ~Covers(t)
      BY <1>1, <2>1, <3>1 DEF Covers
    <3>3. SdTimed'
      BY <1>1, <1>2, <2>1, <3>1, <3>2 DEF SdTimed, Unread, Reading, Covers
    <3>4. SdHeld' /\ SdOwn'
      BY <1>1, <1>2, <3>1 DEF SdHeld, SdOwn, InSlot, Reading, LeftOver
    <3> QED BY <1>1, <1>2, <2>1, <3>1, <3>3, <3>4 DEF SdInv, SdTypes
  <2> QED BY <2>2, <2>3
<1>5. CASE TheSd!Tick
  <2> DEFINE Ticked(t) == [t EXCEPT !.left = t.left - 1]
  <2>1. /\ \A t \in timers : t.left > 0 /\ timers' = {Ticked(u) : u \in timers}
        /\ kept' = IF kept.link # 0 /\ kept.age < SdIdle THEN [kept EXCEPT !.age = kept.age + 1] ELSE kept
        /\ links' = links
    BY <1>5 DEF TheSd!Tick
  <2>2. /\ kept' \in [link : Nat, age : Nat] /\ kept'.link = kept.link
        /\ kept'.age = IF kept.link # 0 /\ kept.age < SdIdle THEN kept.age + 1 ELSE kept.age
    BY <1>1, <2>1
  <2>3. timers' = {Ticked(t) : t \in timers}
    BY <1>5 DEF TheSd!Tick
  <2>4. \A t \in timers : Ticked(t) \in [link : Nat, left : Nat] /\ Ticked(t).link = t.link /\ Ticked(t).left = t.left - 1
    BY <1>1, <2>1
  <2>5. timers' \subseteq [link : Nat, left : Nat] /\ \A t \in timers : Ticked(t) \in timers'
    BY <2>3, <2>4
  <2>6. SdTimed'
    <3>1. ASSUME NEW t \in timers, Covers(t), kept.link # 0 PROVE Covers(Ticked(t))'
      <4>1. t.link \in Nat /\ t.left \in Nat
        BY <1>1
      <4> HIDE DEF Ticked
      <4> QED BY <1>1, <2>2, <2>4, <3>1, <4>1 DEF Covers
    <3> HIDE DEF Ticked
    <3> QED BY <1>1, <1>2, <2>1, <2>2, <2>5, <3>1 DEF SdTimed, Unread, Reading
  <2>7. SdHeld' /\ SdOwn'
    BY <1>1, <1>2, <2>1, <2>2 DEF SdHeld, SdOwn, InSlot, Reading, LeftOver
  <2> HIDE DEF Ticked
  <2> QED BY <1>1, <1>2, <2>1, <2>2, <2>5, <2>6, <2>7 DEF SdInv, SdTypes
<1> QED BY <1>3, <1>4, <1>5

\* Each step keeps the sessions in hand.
LEMMA SdStep == ASSUME SdInv, [TheSd!Next]_sdVars PROVE SdInv'
<1>1. CASE UNCHANGED sdVars
  <2>1. UNCHANGED <<slot, kept, links, timers, job>>
    BY <1>1 DEF sdVars
  <2> QED BY <2>1 DEF SdInv, SdTypes, SdHeld, SdTimed, SdOwn, InSlot, Reading, Unread, Covers, LeftOver
<1>2. ASSUME NEW j \in Jobs, Acts(j) PROVE SdInv'
  BY <1>2, SdQuietStep, SdLinkStep DEF Acts
<1>3. CASE TheSd!Next
  BY <1>2, <1>3, SdTimeStep DEF TheSd!Next, Acts
<1> QED BY <1>1, <1>3

\* Sessions in hand are tidy.
LEMMA SdTidily == ASSUME SdInv PROVE TheSd!SdTidy
<1>1. links \in Seq(SdLinks) /\ SdHeld /\ SdTimed /\ SdOwn
  BY DEF SdInv, SdTypes
<1>2. \A A : TheSd!Cardinality(A) = Cardinality(A)
  BY DEF TheSd!Cardinality, Cardinality
<1>3. TheSd!Cardinality({l \in DOMAIN links : links[l].open}) <= 1
  <2> DEFINE up == {l \in DOMAIN links : links[l].open}
  <2>1. up = {} \/ up = {kept.link}
    BY <1>1 DEF SdHeld
  <2>2. Cardinality({}) = 0 /\ Cardinality({kept.link}) = 1
    BY FS_EmptySet, FS_Singleton
  <2> QED BY <1>2, <2>1, <2>2
<1>4. ASSUME NEW l \in DOMAIN links, links[l].open
      PROVE  l \in TheSd!InUse \/ (l = kept.link /\ \E t \in timers : t.link = l)
  <2>1. l = kept.link /\ l # 0
    BY <1>1, <1>4 DEF SdHeld
  <2>2. CASE Unread
    BY <1>1, <1>4, <2>1, <2>2 DEF SdTimed, Covers
  <2>3. CASE ~Unread
    BY <2>1, <2>3 DEF Unread, Reading, TheSd!InUse
  <2> QED BY <2>2, <2>3
<1>5. ~Stalls => \A j \in Jobs : "old" \notin job[j].got
  BY <1>1 DEF SdOwn
<1> QED BY <1>3, <1>4, <1>5, Zenon DEF TheSd!SdTidy

-----------------------------------------------------------------------------
(* The pan and tilt pad. *)

Presses == {"none", "wait", "dial", "send", "await", "done", "failed"}
Replies == [of : Commands, good : BOOLEAN, come : BOOLEAN]
Replied == {<<>>} \cup {<<a>> : a \in Replies}
PadConns == [open : BOOLEAN, alive : BOOLEAN, answers : Replied]
Requests == [at : Presses, expired : BOOLEAN, again : BOOLEAN, fresh : BOOLEAN, told : Commands \cup {None}]

PadTypes ==
  /\ hold \in [mu : Commands \cup {None}, conn : Nat, timer : {"off", "armed"}]
  /\ fired \in Nat
  /\ conns \in Seq(PadConns)
  /\ cmd \in [Commands -> Requests]

Using(c) == cmd[c].at \in {"dial", "send", "await"}

\* A command has the mutex as long as it dials, sends or awaits, on the one
\* connection that is open, and no answer but its own is on its way there.
PadHeld ==
  /\ \A c \in Commands : Using(c) <=> hold.mu = c
  /\ \A c \in Commands : cmd[c].at = "dial" => hold.conn = 0
  /\ \A c \in Commands : cmd[c].at \in {"send", "await"} => hold.conn # 0
  /\ hold.conn # 0 => hold.conn \in DOMAIN conns
  /\ \A c \in Commands : cmd[c].at = "done" => cmd[c].told = c

PadOpen ==
  \A k \in DOMAIN conns : conns[k].open <=> k = hold.conn

PadAnswers ==
  \A k \in DOMAIN conns : conns[k].answers # <<>> =>
     k = hold.conn /\ hold.mu # None /\ cmd[hold.mu].at = "await" /\ conns[k].answers[1].of = hold.mu

PadTimer ==
  hold.conn # 0 /\ hold.mu = None => hold.timer = "armed" \/ fired > 0

PadInv == PadTypes /\ PadHeld /\ PadOpen /\ PadAnswers /\ PadTimer

\* What a connection is once a command failed on it, or it is dialled.
LEMMA PadConnKinds ==
  /\ ThePad!NewConn \in PadConns /\ ThePad!NewConn.open = TRUE /\ ThePad!NewConn.answers = <<>>
  /\ [open |-> FALSE, alive |-> FALSE, answers |-> <<>>] \in PadConns
  BY DEF ThePad!NewConn, PadConns, Replied

\* The pad is quiet at first.
LEMMA PadInit == ThePad!Init => PadInv
<1> SUFFICES ASSUME ThePad!Init PROVE PadInv
  OBVIOUS
<1> USE PadAssumption
<1>1. conns = <<>> /\ hold = [mu |-> None, conn |-> 0, timer |-> "off"] /\ fired = 0
      /\ cmd = [c \in Commands |-> [at |-> "none", expired |-> FALSE, again |-> FALSE, fresh |-> FALSE, told |-> None]]
  BY DEF ThePad!Init
<1>2. conns \in Seq(PadConns)
  BY <1>1
<1>3. cmd \in [Commands -> Requests]
  BY <1>1 DEF Requests, Presses
<1>4. PadTypes
  BY <1>1, <1>2, <1>3 DEF PadTypes
<1>5. \A c \in Commands : cmd[c].at = "none" /\ c # None
  BY <1>1
<1>6. hold.mu = None /\ hold.conn = 0
  BY <1>1
<1>7. PadHeld /\ PadTimer
  BY <1>5, <1>6 DEF PadHeld, PadTimer, Using
<1>8. PadOpen /\ PadAnswers
  BY <1>1 DEF PadOpen, PadAnswers
<1> QED BY <1>4, <1>7, <1>8 DEF PadInv

\* A step of a command moves that command alone.
LEMMA PadMoves ==
  ASSUME PadInv, NEW c \in Commands,
         \/ ThePad!Press(c) \/ ThePad!Expire(c) \/ ThePad!Lock(c) \/ ThePad!Dial(c) \/ ThePad!DialFails(c)
         \/ ThePad!Send(c) \/ ThePad!Receive(c) \/ ThePad!Fail(c) \/ ThePad!Again(c)
  PROVE  /\ cmd' \in [Commands -> Requests]
         /\ \A d \in Commands : d # c => cmd'[d] = cmd[d]
<1>1. /\ cmd \in [Commands -> Requests] /\ PadHeld
      /\ cmd[c] \in Requests
  BY DEF PadInv, PadTypes
<1>2. SUFFICES \E r \in Requests : cmd' = [cmd EXCEPT ![c] = r]
  BY <1>1
<1>3. \A p \in Presses : [cmd[c] EXCEPT !.at = p] \in Requests
  BY <1>1 DEF Requests
<1>4. CASE \E p \in Presses : cmd' = [cmd EXCEPT ![c].at = p]
  BY <1>3, <1>4
<1>5. ThePad!Press(c) \/ ThePad!Lock(c) \/ ThePad!DialFails(c) \/ ThePad!Send(c)
      => \E p \in Presses : cmd' = [cmd EXCEPT ![c].at = p]
  BY DEF ThePad!Press, ThePad!Lock, ThePad!DialFails, ThePad!Send, ThePad!Goes, Presses
<1>6. CASE ThePad!Expire(c)
  <2>1. [cmd[c] EXCEPT !.expired = TRUE] \in Requests
    BY <1>1 DEF Requests
  <2> QED BY <1>6, <2>1 DEF ThePad!Expire
<1>7. CASE ThePad!Dial(c)
  <2>1. [cmd[c] EXCEPT !.at = "send", !.fresh = TRUE] \in Requests
    BY <1>1 DEF Requests, Presses
  <2>2. cmd' = [cmd EXCEPT ![c] = [cmd[c] EXCEPT !.at = "send", !.fresh = TRUE]]
    BY <1>1, <1>7 DEF ThePad!Dial
  <2> QED BY <2>1, <2>2
<1>8. CASE ThePad!Receive(c)
  <2> DEFINE of == Head(conns[hold.conn].answers).of
  <2>1. cmd' = [cmd EXCEPT ![c] = [cmd[c] EXCEPT !.at = "done", !.told = of]]
    BY <1>1, <1>8 DEF ThePad!Receive
  <2>2. of \in Commands
    <3>0. cmd[c].at = "await" /\ conns[hold.conn].answers # <<>>
      BY <1>8 DEF ThePad!Receive, ThePad!Has
    <3>1. conns[hold.conn].answers \in Replied
      <4>1. hold.conn \in DOMAIN conns
        BY <1>1, <3>0 DEF PadHeld
      <4>2. conns[hold.conn] \in PadConns
        BY <4>1 DEF PadInv, PadTypes
      <4> QED BY <4>2 DEF PadConns
    <3>2. PICK a \in Replies : conns[hold.conn].answers = <<a>>
      BY <3>0, <3>1 DEF Replied
    <3>3. Head(<<a>>) = a
      OBVIOUS
    <3> QED BY <3>2, <3>3 DEF Replies
  <2>3. [cmd[c] EXCEPT !.at = "done", !.told = of] \in Requests
    BY <1>1, <2>2 DEF Requests, Presses
  <2> QED BY <2>1, <2>3
<1>9. CASE ThePad!Fail(c)
  <2>1. \E p \in Presses : cmd' = [cmd EXCEPT ![c].at = p]
    BY <1>9 DEF ThePad!Fail, ThePad!Goes, Presses
  <2> QED BY <2>1, <1>4
<1>10. CASE ThePad!Again(c)
  <2>1. [at |-> "none", expired |-> FALSE, again |-> TRUE, fresh |-> FALSE, told |-> None] \in Requests
    BY DEF Requests, Presses
  <2> QED BY <1>10, <2>1 DEF ThePad!Again
<1> QED BY <1>4, <1>5, <1>6, <1>7, <1>8, <1>9, <1>10

\* The parts of a sequence of one.
LEMMA SubSeqOne == ASSUME NEW a PROVE SubSeq(<<a>>, 1, 0) = <<>> /\ SubSeq(<<a>>, 1, 1) = <<a>>
<1>1. <<a>> \in Seq({a}) /\ Len(<<a>>) = 1 /\ <<a>>[1] = a
  OBVIOUS
<1>2. SubSeq(<<a>>, 1, 0) = <<>>
  BY <1>1
<1>3. SubSeq(<<a>>, 1, 1) \in Seq({a}) /\ Len(SubSeq(<<a>>, 1, 1)) = 1
  BY <1>1
<1>4. SubSeq(<<a>>, 1, 1)[1] = a
  BY <1>1
<1>5. \A s, t \in Seq({a}) : Len(s) = 1 /\ Len(t) = 1 /\ s[1] = t[1] => s = t
  <2> TAKE s, t \in Seq({a})
  <2> HAVE Len(s) = 1 /\ Len(t) = 1 /\ s[1] = t[1]
  <2>1. \A i \in 1..Len(s) : s[i] = t[i]
    OBVIOUS
  <2> QED BY <2>1, SeqEqual
<1>6. SubSeq(<<a>>, 1, 1) = <<a>>
  BY <1>1, <1>3, <1>4, <1>5
<1> QED BY <1>2, <1>6

\* One connection changes, the others stay.
LEMMA PadConnAt ==
  ASSUME conns \in Seq(PadConns), NEW k \in DOMAIN conns, NEW r \in PadConns, conns' = [conns EXCEPT ![k] = r]
  PROVE  conns' \in Seq(PadConns) /\ DOMAIN conns' = DOMAIN conns /\ conns'[k] = r
         /\ \A l \in DOMAIN conns : l # k => conns'[l] = conns[l]
  OBVIOUS

\* Nothing of a connection changes but which one is held, and by whom.
LEMMA PadSame ==
  ASSUME PadInv, UNCHANGED conns, hold'.conn = hold.conn,
         \A c \in Commands : cmd[c].at = "await" => cmd'[c].at = "await" /\ (hold.mu = c => hold'.mu = c),
         hold.mu \in Commands \cup {None}, None \notin Commands
  PROVE  PadOpen' /\ PadAnswers'
<1>1. PadOpen'
  BY DEF PadInv, PadOpen
<1>2. ASSUME NEW k \in DOMAIN conns, conns[k].answers # <<>>
      PROVE  k = hold'.conn /\ hold'.mu # None /\ cmd'[hold'.mu].at = "await" /\ conns[k].answers[1].of = hold'.mu
  <2>1. k = hold.conn /\ hold.mu # None /\ cmd[hold.mu].at = "await" /\ conns[k].answers[1].of = hold.mu
    BY <1>2 DEF PadInv, PadAnswers
  <2> QED BY <2>1
<1> QED BY <1>1, <1>2 DEF PadAnswers

\* The steps of a command that leave the connections alone keep the pad.
LEMMA PadQuietStep ==
  ASSUME PadInv, NEW c \in Commands,
         ThePad!Press(c) \/ ThePad!Expire(c) \/ ThePad!Lock(c) \/ ThePad!DialFails(c) \/ ThePad!Again(c)
  PROVE  PadInv'
<1> USE PadAssumption
<1>1. /\ cmd' \in [Commands -> Requests] /\ cmd \in [Commands -> Requests]
      /\ \A d \in Commands : d # c => cmd'[d] = cmd[d]
  BY PadMoves DEF PadInv, PadTypes
<1>2. UNCHANGED <<conns, fired>>
  BY DEF ThePad!Press, ThePad!Expire, ThePad!Lock, ThePad!DialFails, ThePad!Again
<1>3. hold.mu \in Commands \cup {None} /\ hold.timer \in {"off", "armed"} /\ hold.conn \in Nat /\ PadHeld /\ PadTimer
      /\ hold \in [mu : Commands \cup {None}, conn : Nat, timer : {"off", "armed"}]
  BY DEF PadInv, PadTypes
<1>4. CASE ThePad!Press(c) \/ ThePad!Expire(c) \/ ThePad!Again(c)
  <2>1. /\ UNCHANGED hold /\ (Using(c) <=> cmd'[c].at \in {"dial", "send", "await"})
        /\ (cmd'[c].at # "none" => cmd'[c].told = cmd[c].told)
        /\ (cmd'[c].at = cmd[c].at \/ cmd'[c].at \in {"wait", "none"})
    <3>1. cmd[c] \in Requests
      BY <1>1
    <3>2. CASE ThePad!Press(c)
      BY <1>1, <3>1, <3>2 DEF ThePad!Press, ThePad!Goes, ThePad!Has, Using, Requests
    <3>3. CASE ThePad!Expire(c)
      BY <1>1, <3>1, <3>3 DEF ThePad!Expire, Using, Requests
    <3>4. CASE ThePad!Again(c)
      BY <1>1, <3>1, <3>4 DEF ThePad!Again, Using, Requests
    <3> QED BY <1>4, <3>2, <3>3, <3>4
  <2>2. PadHeld' /\ PadTimer'
    BY <1>1, <1>2, <1>3, <2>1 DEF PadHeld, PadTimer, Using
  <2>3. PadOpen' /\ PadAnswers'
    BY <1>1, <1>2, <1>3, <2>1, PadSame DEF Using
  <2> QED BY <1>1, <1>2, <2>1, <2>2, <2>3 DEF PadInv, PadTypes
<1>5. CASE ThePad!Lock(c)
  <2>1. /\ cmd[c].at = "wait" /\ hold.mu = None /\ hold' = [hold EXCEPT !.mu = c, !.timer = "off"]
        /\ cmd'[c].at = IF hold.conn = 0 THEN "dial" ELSE "send"
    BY <1>1, <1>5 DEF ThePad!Lock, ThePad!Has, ThePad!Goes
  <2>2. hold' \in [mu : Commands \cup {None}, conn : Nat, timer : {"off", "armed"}]
        /\ hold'.mu = c /\ hold'.conn = hold.conn
    BY <1>3, <2>1
  <2>3. PadHeld'
    BY <1>1, <1>2, <1>3, <2>1, <2>2 DEF PadHeld, Using
  <2>4. PadTimer'
    BY <2>2 DEF PadTimer
  <2>5. PadOpen' /\ PadAnswers'
    BY <1>1, <1>2, <1>3, <2>1, <2>2, PadSame
  <2> QED BY <1>1, <1>2, <2>2, <2>3, <2>4, <2>5 DEF PadInv, PadTypes
<1>6. CASE ThePad!DialFails(c)
  <2>1. /\ cmd[c].at = "dial" /\ hold' = [hold EXCEPT !.mu = None, !.timer = "off"] /\ cmd'[c].at = "failed"
    BY <1>1, <1>6 DEF ThePad!DialFails, ThePad!Has, ThePad!Unlocked
  <2>2. hold' \in [mu : Commands \cup {None}, conn : Nat, timer : {"off", "armed"}]
        /\ hold'.mu = None /\ hold'.conn = hold.conn /\ hold.conn = 0 /\ hold.mu = c
    BY <1>3, <2>1 DEF PadHeld, Using
  <2>3. PadHeld'
    BY <1>1, <1>2, <1>3, <2>1, <2>2 DEF PadHeld, Using
  <2>4. PadTimer'
    BY <2>2 DEF PadTimer
  <2>5. PadOpen' /\ PadAnswers'
    <3>1. \A d \in Commands : cmd[d].at # "await"
      BY <1>3, <2>1, <2>2 DEF PadHeld, Using
    <3> QED BY <1>2, <1>3, <2>2, <3>1, PadSame
  <2> QED BY <1>1, <1>2, <2>2, <2>3, <2>4, <2>5 DEF PadInv, PadTypes
<1> QED BY <1>4, <1>5, <1>6

\* The steps of a command on a connection keep the pad.
LEMMA PadConnStep ==
  ASSUME PadInv, NEW c \in Commands,
         ThePad!Dial(c) \/ ThePad!Send(c) \/ ThePad!Receive(c) \/ ThePad!Fail(c)
  PROVE  PadInv'
<1> USE PadAssumption
<1>1. /\ cmd' \in [Commands -> Requests] /\ cmd \in [Commands -> Requests]
      /\ \A d \in Commands : d # c => cmd'[d] = cmd[d]
      /\ cmd[c] \in Requests
  BY PadMoves DEF PadInv, PadTypes
<1>2. UNCHANGED fired /\ fired \in Nat
  BY DEF ThePad!Dial, ThePad!Send, ThePad!Receive, ThePad!Fail, PadInv, PadTypes
<1>3. /\ hold \in [mu : Commands \cup {None}, conn : Nat, timer : {"off", "armed"}]
      /\ hold.mu \in Commands \cup {None} /\ hold.timer \in {"off", "armed"} /\ hold.conn \in Nat
      /\ PadHeld /\ PadOpen /\ PadAnswers /\ PadTimer /\ conns \in Seq(PadConns)
  BY DEF PadInv, PadTypes
<1>4. Using(c) /\ hold.mu = c /\ c # None /\ \A d \in Commands : d # c => ~Using(d)
  <2>1. Using(c)
    BY DEF ThePad!Dial, ThePad!Send, ThePad!Receive, ThePad!Fail, ThePad!Has, Using
  <2> QED BY <1>3, <2>1 DEF PadHeld
<1>5. CASE ThePad!Dial(c)
  <2>1. /\ cmd[c].at = "dial" /\ conns' = Append(conns, ThePad!NewConn)
        /\ hold' = [hold EXCEPT !.conn = Len(conns) + 1] /\ cmd'[c].at = "send"
    BY <1>1, <1>5 DEF ThePad!Dial, ThePad!Has
  <2>2. /\ conns' \in Seq(PadConns) /\ Len(conns) \in Nat /\ Len(conns') = Len(conns) + 1
        /\ DOMAIN conns = 1..Len(conns) /\ DOMAIN conns' = 1..Len(conns')
        /\ conns'[Len(conns) + 1] = ThePad!NewConn /\ \A k \in DOMAIN conns : conns'[k] = conns[k]
    BY <1>3, <2>1, PadConnKinds
  <2>3. /\ hold' \in [mu : Commands \cup {None}, conn : Nat, timer : {"off", "armed"}]
        /\ hold'.mu = c /\ hold'.conn = Len(conns) + 1 /\ hold.conn = 0
    BY <1>3, <1>4, <2>1, <2>2 DEF PadHeld
  <2>4. PadHeld'
    BY <1>1, <1>2, <1>3, <1>4, <2>1, <2>2, <2>3 DEF PadHeld, Using
  <2>5. PadTimer'
    BY <1>4, <2>3 DEF PadTimer
  <2>6. \A k \in DOMAIN conns : ~conns[k].open /\ conns[k].answers = <<>>
    BY <1>3, <1>4, <2>1, <2>3, <2>2 DEF PadOpen, PadAnswers
  <2>7. PadOpen' /\ PadAnswers'
    <3>1. \A k \in DOMAIN conns' : k \in DOMAIN conns \/ k = Len(conns) + 1
      BY <2>2
    <3>2. \A k \in DOMAIN conns : k # Len(conns) + 1
      BY <2>2
    <3> QED BY <2>2, <2>3, <2>6, <3>1, <3>2, PadConnKinds DEF PadOpen, PadAnswers
  <2> QED BY <1>1, <1>2, <2>2, <2>3, <2>4, <2>5, <2>7 DEF PadInv, PadTypes
<1>6. ASSUME ~ThePad!Dial(c) PROVE hold.conn # 0 /\ hold.conn \in DOMAIN conns /\ conns[hold.conn] \in PadConns
  <2>1. cmd[c].at \in {"send", "await"}
    BY <1>6 DEF ThePad!Send, ThePad!Receive, ThePad!Fail, ThePad!Has
  <2>2. hold.conn # 0 /\ hold.conn \in DOMAIN conns
    BY <1>3, <2>1 DEF PadHeld
  <2> QED BY <1>3, <2>2
<1>7. CASE ThePad!Send(c)
  <2> DEFINE mine == [of |-> c, good |-> TRUE, come |-> FALSE]
             k == hold.conn
  <2>1. /\ cmd[c].at = "send" /\ cmd'[c].at = "await" /\ hold' = hold
        /\ conns' = [conns EXCEPT ![k].answers = Append(conns[k].answers, mine)]
    BY <1>1, <1>7 DEF ThePad!Send, ThePad!Has, ThePad!Goes
  <2>2. k \in DOMAIN conns /\ conns[k] \in PadConns /\ k # 0
    BY <1>6, <2>1 DEF ThePad!Dial, ThePad!Has
  <2>3. conns[k].answers = <<>>
    BY <1>3, <1>4, <2>1, <2>2 DEF PadAnswers
  <2>4. Append(conns[k].answers, mine) = <<mine>> /\ <<mine>>[1].of = c
    BY <2>3
  <2>5. mine \in Replies
    BY DEF Replies
  <2>6. PICK r \in PadConns : conns' = [conns EXCEPT ![k] = r] /\ r.answers = <<mine>> /\ r.open = conns[k].open
    <3> DEFINE r == [conns[k] EXCEPT !.answers = <<mine>>]
    <3>1. <<mine>> \in Replied
      BY <2>5 DEF Replied
    <3> HIDE DEF mine
    <3>2. r \in PadConns /\ r.answers = <<mine>> /\ r.open = conns[k].open
      BY <2>2, <3>1 DEF PadConns
    <3>3. conns' = [conns EXCEPT ![k] = r]
      BY <1>3, <2>1, <2>2, <2>4
    <3> QED BY <3>2, <3>3
  <2>7. /\ conns' \in Seq(PadConns) /\ DOMAIN conns' = DOMAIN conns /\ conns'[k] = r
        /\ \A l \in DOMAIN conns : l # k => conns'[l] = conns[l]
    BY <1>3, <2>2, <2>6, PadConnAt
  <2>8. PadOpen'
    BY <1>3, <2>1, <2>6, <2>7 DEF PadOpen
  <2>9. PadAnswers'
    <3> HIDE DEF mine
    <3>1. r.answers[1].of = c
      BY <2>4, <2>6
    <3>2. \A l \in DOMAIN conns : l # k => conns'[l].answers = <<>>
      BY <1>3, <2>7 DEF PadAnswers
    <3> QED BY <1>4, <2>1, <2>7, <3>1, <3>2 DEF PadAnswers
  <2> HIDE DEF mine
  <2>10. hold'.mu = c /\ hold'.conn = k /\ cmd'[c].at = "await" /\ DOMAIN conns' = DOMAIN conns
    BY <1>4, <2>1, <2>7
  <2>11. PadHeld'
    BY <1>1, <1>3, <1>4, <2>2, <2>10, SMTT(30) DEF PadHeld, Using
  <2>12. PadTimer'
    BY <1>4, <2>10 DEF PadTimer
  <2> QED BY <1>1, <1>2, <1>3, <2>1, <2>7, <2>8, <2>9, <2>11, <2>12 DEF PadInv, PadTypes
<1>8. CASE ThePad!Receive(c)
  <2> DEFINE k == hold.conn
  <2>1. /\ cmd[c].at = "await" /\ cmd' = [cmd EXCEPT ![c].at = "done", ![c].told = Head(conns[k].answers).of]
        /\ conns[k].answers # <<>> /\ hold' = [hold EXCEPT !.mu = None, !.timer = "armed"]
        /\ conns' = [conns EXCEPT ![k].answers = Tail(conns[k].answers)]
    BY <1>8 DEF ThePad!Receive, ThePad!Has, ThePad!Unlocked
  <2>2. k \in DOMAIN conns /\ conns[k] \in PadConns /\ k # 0
    BY <1>6, <2>1 DEF ThePad!Dial, ThePad!Has
  <2>3. PICK a \in Replies : conns[k].answers = <<a>>
    BY <2>1, <2>2 DEF PadConns, Replied
  <2>4. Head(<<a>>) = a /\ Tail(<<a>>) = <<>> /\ <<a>>[1] = a
    OBVIOUS
  <2>5. a.of = c
    BY <1>3, <1>4, <2>1, <2>2, <2>3, <2>4 DEF PadAnswers
  <2>6. cmd'[c].at = "done" /\ cmd'[c].told = c
    BY <1>1, <2>1, <2>3, <2>4, <2>5 DEF Requests
  <2>7. PICK r \in PadConns : conns' = [conns EXCEPT ![k] = r] /\ r.answers = <<>> /\ r.open = conns[k].open
    <3> DEFINE r == [conns[k] EXCEPT !.answers = <<>>]
    <3>1. r \in PadConns /\ r.answers = <<>> /\ r.open = conns[k].open
      BY <2>2 DEF PadConns, Replied
    <3>2. conns' = [conns EXCEPT ![k] = r]
      BY <1>3, <2>1, <2>2, <2>3, <2>4
    <3> QED BY <3>1, <3>2
  <2>8. /\ conns' \in Seq(PadConns) /\ DOMAIN conns' = DOMAIN conns /\ conns'[k] = r
        /\ \A l \in DOMAIN conns : l # k => conns'[l] = conns[l]
    BY <1>3, <2>2, <2>7, PadConnAt
  <2>9. hold' \in [mu : Commands \cup {None}, conn : Nat, timer : {"off", "armed"}]
        /\ hold'.mu = None /\ hold'.conn = k /\ hold'.timer = "armed"
    BY <1>3, <2>1
  <2>10. PadOpen'
    BY <1>3, <2>7, <2>8, <2>9 DEF PadOpen
  <2>11. PadAnswers'
    BY <1>3, <2>7, <2>8 DEF PadAnswers
  <2>12. PadHeld' /\ PadTimer'
    BY <1>1, <1>2, <1>3, <1>4, <2>2, <2>6, <2>8, <2>9 DEF PadHeld, PadTimer, Using
  <2> QED BY <1>1, <1>2, <2>8, <2>9, <2>10, <2>11, <2>12 DEF PadInv, PadTypes
<1>9. CASE ThePad!Fail(c)
  <2> DEFINE k == hold.conn
             shut == [open |-> FALSE, alive |-> FALSE, answers |-> <<>>]
  <2>1. /\ cmd[c].at \in {"send", "await"} /\ conns' = [conns EXCEPT ![k] = shut]
        /\ \/ /\ hold' = [[hold EXCEPT !.mu = None, !.timer = hold.timer] EXCEPT !.conn = 0]
              /\ cmd' = [cmd EXCEPT ![c].at = "failed"]
           \/ /\ hold' = [hold EXCEPT !.conn = 0]
              /\ cmd' = [cmd EXCEPT ![c].at = "dial"]
    BY <1>9 DEF ThePad!Fail, ThePad!Has, ThePad!Unlocked, ThePad!Dropped, ThePad!NoneHeld, ThePad!Goes
  <2>2. k \in DOMAIN conns /\ conns[k] \in PadConns /\ k # 0
    BY <1>6, <2>1 DEF ThePad!Dial, ThePad!Has
  <2>3. shut \in PadConns /\ shut.open = FALSE /\ shut.answers = <<>>
    BY PadConnKinds
  <2> HIDE DEF shut
  <2>4. /\ conns' \in Seq(PadConns) /\ DOMAIN conns' = DOMAIN conns /\ conns'[k] = shut
        /\ \A l \in DOMAIN conns : l # k => conns'[l] = conns[l]
    BY <1>3, <2>1, <2>2, <2>3, PadConnAt
  <2>5. /\ hold' \in [mu : Commands \cup {None}, conn : Nat, timer : {"off", "armed"}] /\ hold'.conn = 0
        /\ \/ hold'.mu = None /\ cmd' = [cmd EXCEPT ![c].at = "failed"]
           \/ hold'.mu = c /\ cmd' = [cmd EXCEPT ![c].at = "dial"]
    <3>1. CASE hold' = [[hold EXCEPT !.mu = None, !.timer = hold.timer] EXCEPT !.conn = 0]
               /\ cmd' = [cmd EXCEPT ![c].at = "failed"]
      BY <1>3, <3>1
    <3>2. CASE hold' = [hold EXCEPT !.conn = 0] /\ cmd' = [cmd EXCEPT ![c].at = "dial"]
      BY <1>3, <1>4, <3>2
    <3> QED BY <2>1, <3>1, <3>2
  <2>6. \/ hold'.mu = None /\ cmd'[c].at = "failed"
        \/ hold'.mu = c /\ cmd'[c].at = "dial"
    BY <1>1, <2>5 DEF Requests
  <2>7. PadOpen'
    <3>1. \A l \in DOMAIN conns : l # 0
      BY <1>3
    <3> QED BY <1>3, <2>3, <2>4, <2>5, <3>1 DEF PadOpen
  <2>8. PadAnswers'
    BY <1>3, <2>3, <2>4 DEF PadAnswers
  <2>9. PadHeld' /\ PadTimer'
    <3>1. hold'.conn = 0
      BY <2>5
    <3>2. PadTimer'
      BY <3>1 DEF PadTimer
    <3>3. PadHeld'
      BY <1>1, <1>3, <1>4, <2>6, <3>1 DEF PadHeld, Using
    <3> QED BY <3>2, <3>3
  <2> QED BY <1>1, <1>2, <2>4, <2>5, <2>7, <2>8, <2>9 DEF PadInv, PadTypes
<1> QED BY <1>5, <1>7, <1>8, <1>9

\* The timer keeps the pad.
LEMMA PadTimerStep == ASSUME PadInv, ThePad!Fire \/ ThePad!Quiet PROVE PadInv'
<1> USE PadAssumption
<1>1. /\ hold \in [mu : Commands \cup {None}, conn : Nat, timer : {"off", "armed"}]
      /\ hold.mu \in Commands \cup {None} /\ hold.timer \in {"off", "armed"} /\ hold.conn \in Nat
      /\ PadHeld /\ PadOpen /\ PadAnswers /\ PadTimer /\ conns \in Seq(PadConns) /\ fired \in Nat
      /\ cmd \in [Commands -> Requests]
  BY DEF PadInv, PadTypes
<1>2. CASE ThePad!Fire
  <2>1. hold' = [hold EXCEPT !.timer = "off"] /\ fired' = fired + 1 /\ UNCHANGED <<conns, cmd>>
    BY <1>2 DEF ThePad!Fire
  <2>2. hold' \in [mu : Commands \cup {None}, conn : Nat, timer : {"off", "armed"}]
        /\ hold'.mu = hold.mu /\ hold'.conn = hold.conn /\ fired' \in Nat /\ fired' > 0
    BY <1>1, <2>1
  <2>3. PadHeld' /\ PadOpen' /\ PadAnswers' /\ PadTimer'
    BY <1>1, <2>1, <2>2 DEF PadHeld, PadOpen, PadAnswers, PadTimer, Using
  <2> QED BY <1>1, <2>1, <2>2, <2>3 DEF PadInv, PadTypes
<1>3. CASE ThePad!Quiet
  <2> DEFINE k == hold.conn
             shut == [open |-> FALSE, alive |-> FALSE, answers |-> <<>>]
  <2>1. /\ hold.mu = None /\ fired > 0 /\ fired' = fired - 1 /\ hold' = [hold EXCEPT !.conn = 0] /\ UNCHANGED cmd
        /\ conns' = IF k = 0 THEN conns ELSE [conns EXCEPT ![k] = shut]
    BY <1>3 DEF ThePad!Quiet, ThePad!Dropped, ThePad!NoneHeld
  <2>2. shut \in PadConns /\ shut.open = FALSE /\ shut.answers = <<>>
    BY PadConnKinds
  <2> HIDE DEF shut
  <2>3. hold' \in [mu : Commands \cup {None}, conn : Nat, timer : {"off", "armed"}]
        /\ hold'.mu = None /\ hold'.conn = 0 /\ fired' \in Nat
    BY <1>1, <2>1
  <2>4. \A c \in Commands : ~Using(c)
    BY <1>1, <2>1 DEF PadHeld
  <2>5. \A l \in DOMAIN conns : l # 0 /\ conns[l].answers = <<>>
    BY <1>1, <2>1 DEF PadAnswers
  <2>6. /\ conns' \in Seq(PadConns) /\ DOMAIN conns' = DOMAIN conns
        /\ \A l \in DOMAIN conns : conns'[l] = IF l = k THEN shut ELSE conns[l]
    <3>1. CASE k = 0
      BY <1>1, <2>1, <2>5, <3>1
    <3>2. CASE k # 0
      <4>1. k \in DOMAIN conns
        BY <1>1, <3>2 DEF PadHeld
      <4> QED BY <1>1, <2>1, <2>2, <3>2, <4>1, PadConnAt
    <3> QED BY <3>1, <3>2
  <2>7. PadOpen'
    BY <1>1, <2>2, <2>3, <2>5, <2>6 DEF PadOpen
  <2>8. PadAnswers'
    BY <2>2, <2>5, <2>6 DEF PadAnswers
  <2>9. PadHeld' /\ PadTimer'
    BY <1>1, <2>1, <2>3, <2>4 DEF PadHeld, PadTimer, Using
  <2> QED BY <1>1, <2>1, <2>3, <2>6, <2>7, <2>8, <2>9 DEF PadInv, PadTypes
<1> QED BY <1>2, <1>3

\* What a camera does keeps the pad.
LEMMA PadCameraStep ==
  ASSUME PadInv, NEW k \in DOMAIN conns, ThePad!Answer(k) \/ ThePad!Lose(k)
  PROVE  PadInv'
<1> USE PadAssumption
<1>1. /\ hold.conn \in Nat /\ PadHeld /\ PadOpen /\ PadAnswers /\ PadTimer /\ conns \in Seq(PadConns)
      /\ conns[k] \in PadConns /\ UNCHANGED <<hold, fired, cmd>>
  <2>1. UNCHANGED <<hold, fired, cmd>>
    BY DEF ThePad!Answer, ThePad!Lose
  <2>2. conns \in Seq(PadConns)
    BY DEF PadInv, PadTypes
  <2>3. conns[k] \in PadConns
    BY <2>2
  <2>4. hold.conn \in Nat
    BY DEF PadInv, PadTypes
  <2>5. PadHeld /\ PadOpen /\ PadAnswers /\ PadTimer
    BY DEF PadInv
  <2> QED BY ONLY <2>1, <2>2, <2>3, <2>4, <2>5, Zenon
<1>2. conns[k].answers \in Replied
  BY <1>1 DEF PadConns
<1>3. PICK r \in PadConns : /\ conns' = [conns EXCEPT ![k] = r] /\ r.open = conns[k].open
                            /\ r.answers = <<>> \/ (conns[k].answers # <<>> /\ r.answers[1].of = conns[k].answers[1].of)
  <2>1. CASE ThePad!Answer(k)
    <3>1. PICK n \in DOMAIN conns[k].answers, good \in BOOLEAN :
               conns' = [conns EXCEPT ![k].answers[n].come = TRUE, ![k].answers[n].good = good]
      BY <2>1 DEF ThePad!Answer
    <3>2. PICK a \in Replies : conns[k].answers = <<a>>
      BY <1>2, <3>1 DEF Replied
    <3>3. n = 1 /\ <<a>>[1] = a
      BY <3>1, <3>2
    <3> DEFINE b == [a EXCEPT !.come = TRUE, !.good = good]
    <3>4. b \in Replies /\ b.of = a.of
      BY DEF Replies
    <3>5. <<b>> \in Replied /\ <<b>>[1].of = a.of
      BY <3>4 DEF Replied
    <3>6. [<<a>> EXCEPT ![1].come = TRUE, ![1].good = good] = <<b>>
      OBVIOUS
    <3> DEFINE r == [conns[k] EXCEPT !.answers = <<b>>]
    <3>7. conns' = [conns EXCEPT ![k] = [conns[k] EXCEPT !.answers = [<<a>> EXCEPT ![1].come = TRUE, ![1].good = good]]]
      BY <1>1, <3>1, <3>2, <3>3 DEF PadConns
    <3> HIDE DEF b
    <3>8. r \in PadConns /\ r.answers = <<b>> /\ r.open = conns[k].open
      BY <1>1, <3>5 DEF PadConns
    <3>9. conns' = [conns EXCEPT ![k] = r]
      BY <3>6, <3>7
    <3> HIDE DEF r
    <3>10. r.answers[1].of = conns[k].answers[1].of /\ conns[k].answers # <<>>
      BY <3>2, <3>3, <3>5, <3>8
    <3> QED BY <3>8, <3>9, <3>10
  <2>2. CASE ThePad!Lose(k)
    <3>1. PICK n \in 0..Len(conns[k].answers) :
               conns' = [conns EXCEPT ![k].alive = FALSE, ![k].answers = SubSeq(conns[k].answers, 1, n)]
      BY <2>2 DEF ThePad!Lose
    <3>2. SubSeq(conns[k].answers, 1, n) \in {<<>>, conns[k].answers}
      <4>1. CASE conns[k].answers = <<>>
        BY <3>1, <4>1
      <4>2. CASE conns[k].answers # <<>>
        <5>1. PICK a \in Replies : conns[k].answers = <<a>>
          BY <1>2, <4>2 DEF Replied
        <5>2. n = 0 \/ n = 1
          BY <3>1, <5>1
        <5>3. SubSeq(<<a>>, 1, 0) = <<>> /\ SubSeq(<<a>>, 1, 1) = <<a>>
          BY SubSeqOne
        <5> QED BY <5>1, <5>2, <5>3
      <4> QED BY <4>1, <4>2
    <3> DEFINE ans == SubSeq(conns[k].answers, 1, n)
               r == [conns[k] EXCEPT !.alive = FALSE, !.answers = ans]
    <3>3. ans \in Replied
      BY <1>2, <3>2 DEF Replied
    <3>4. conns' = [conns EXCEPT ![k] = r]
      BY <1>1, <3>1
    <3>5. ans = <<>> \/ ans = conns[k].answers
      BY <3>2
    <3> HIDE DEF ans
    <3>6. r \in PadConns /\ r.answers = ans /\ r.open = conns[k].open
      BY <1>1, <3>3 DEF PadConns
    <3> QED BY <3>4, <3>5, <3>6
  <2> QED BY <2>1, <2>2
<1>4. /\ conns' \in Seq(PadConns) /\ DOMAIN conns' = DOMAIN conns /\ conns'[k] = r
      /\ \A l \in DOMAIN conns : l # k => conns'[l] = conns[l]
  BY <1>1, <1>3, PadConnAt
<1>5. PadOpen'
  BY <1>1, <1>3, <1>4 DEF PadOpen
<1>6. PadAnswers'
  BY <1>1, <1>3, <1>4 DEF PadAnswers
<1>7. PadHeld' /\ PadTimer'
  BY <1>1, <1>4 DEF PadHeld, PadTimer, Using
<1> QED BY <1>1, <1>4, <1>5, <1>6, <1>7 DEF PadInv, PadTypes

\* Each step keeps the pad.
LEMMA PadStep == ASSUME PadInv, [ThePad!Next]_holdVars PROVE PadInv'
<1>1. CASE UNCHANGED holdVars
  BY <1>1 DEF holdVars, PadInv, PadTypes, PadHeld, PadOpen, PadAnswers, PadTimer, Using
<1>2. CASE ThePad!Next
  <2>1. CASE \E c \in Commands : \/ ThePad!Press(c) \/ ThePad!Expire(c) \/ ThePad!Lock(c) \/ ThePad!Dial(c)
                                 \/ ThePad!DialFails(c) \/ ThePad!Send(c) \/ ThePad!Receive(c) \/ ThePad!Fail(c)
                                 \/ ThePad!Again(c)
    BY <2>1, PadQuietStep, PadConnStep
  <2> QED BY <1>2, <2>1, PadTimerStep, PadCameraStep DEF ThePad!Next
<1> QED BY <1>1, <1>2

\* A pad that is kept is held well.
LEMMA PadWell == ASSUME PadInv PROVE ThePad!HeldWell
<1>1. conns \in Seq(PadConns) /\ \A k \in DOMAIN conns : conns[k] \in PadConns
  BY DEF PadInv, PadTypes
<1>2. {k \in DOMAIN conns : conns[k].open} = {hold.conn} \ {0}
  <2>1. \A k \in DOMAIN conns : k # 0
    BY <1>1
  <2> QED BY <2>1 DEF PadInv, PadOpen, PadHeld
<1>3. \A c \in Commands : cmd[c].at = "done" => cmd[c].told = c
  BY DEF PadInv, PadHeld
<1>4. hold.conn # 0 /\ hold.mu = None => hold.timer = "armed" \/ fired > 0
  BY DEF PadInv, PadTimer
<1> QED BY <1>2, <1>3, <1>4, Zenon DEF ThePad!HeldWell, ThePad!Has

-----------------------------------------------------------------------------
(* The receiver of clips. *)

KeyOrNone == {{}} \cup {{k} : k \in Keys}
Listeners == [key : KeyOrNone, listener : {"open", "closing", "closed"}]
Syncings == [at : {"idle", "asked", "read"}, key : KeyOrNone]
ClipForms == [at : {"none", "save", "sync", "matching", "server", "task", "confirmed", "refused"},
              key : KeyOrNone, on : BOOLEAN]

ClipTypes ==
  /\ section \in KeyOrNone
  /\ receiver \in [key : KeyOrNone, server : Nat]
  /\ servers \in Seq(Listeners)
  /\ sync \in [TheClips!Syncers -> Syncings]
  /\ asks \in [Forms -> ClipForms]
  /\ janitors \in {0, 1}
  /\ task \in [server : KeyOrNone, on : BOOLEAN]

\* One server listens that is not cancelled, that of the receiver.
OneReceiver ==
  /\ \A n \in DOMAIN servers : servers[n].listener = "open" <=> n = receiver.server
  /\ receiver.server # 0 => receiver.server \in DOMAIN servers /\ receiver.key = servers[receiver.server].key
  /\ receiver.server = 0 => receiver.key = {}
  /\ servers # <<>> => janitors = 1

\* What a form gives a camera was in the file first.
KeysHeld ==
  /\ section \subseteq held
  /\ task.server \subseteq held
  /\ \A m \in Forms : asks[m].at \in {"sync", "matching", "server"} => asks[m].key \subseteq held

ClipInv == ClipTypes /\ OneReceiver /\ KeysHeld

\* Nothing runs before the first goroutine reads the file.
LEMMA ClipInit == TheClips!Init => ClipInv
<1> SUFFICES ASSUME TheClips!Init PROVE ClipInv
  OBVIOUS
<1>1. /\ section \in KeyOrNone /\ held = section /\ receiver = [key |-> {}, server |-> 0] /\ servers = <<>>
      /\ asks = [m \in Forms |-> [at |-> "none", key |-> {}, on |-> TRUE]] /\ janitors = 0
      /\ task = [server |-> {}, on |-> FALSE]
  BY DEF TheClips!Init, KeyOrNone
<1>2. PICK g \in Savers : sync = [[h \in TheClips!Syncers |-> TheClips!NotSyncing] EXCEPT ![g].at = "asked"]
  BY DEF TheClips!Init
<1>3. sync \in [TheClips!Syncers -> Syncings]
  <2>1. TheClips!NotSyncing \in Syncings /\ [TheClips!NotSyncing EXCEPT !.at = "asked"] \in Syncings
    BY DEF TheClips!NotSyncing, Syncings, KeyOrNone
  <2> DEFINE none == [h \in TheClips!Syncers |-> TheClips!NotSyncing]
  <2>2. none \in [TheClips!Syncers -> Syncings] /\ none[g] = TheClips!NotSyncing
    BY <2>1 DEF TheClips!Syncers
  <2>3. sync = [none EXCEPT ![g] = [none[g] EXCEPT !.at = "asked"]]
    BY <1>2
  <2> HIDE DEF none
  <2> QED BY <2>1, <2>2, <2>3
<1>4. ClipTypes
  BY <1>1, <1>3 DEF ClipTypes, ClipForms, KeyOrNone
<1>5. OneReceiver /\ KeysHeld
  BY <1>1 DEF OneReceiver, KeysHeld
<1> QED BY <1>4, <1>5 DEF ClipInv

\* A server that is cancelled does not listen for long, and no other did.
LEMMA CancelledAll ==
  ASSUME ClipInv, NEW now \in TheClips!Settled(TheClips!Cancelled)
  PROVE  /\ now \in Seq(Listeners) /\ Len(now) = Len(servers)
         /\ \A n \in DOMAIN now : now[n].listener # "open"
<1> DEFINE cut == TheClips!Cancelled
<1>1. servers \in Seq(Listeners) /\ DOMAIN servers = 1..Len(servers) /\ Len(servers) \in Nat
  BY DEF ClipInv, ClipTypes
<1>2. cut \in [1..Len(servers) -> Listeners] /\ \A n \in 1..Len(servers) : cut[n].listener # "open"
  <2> SUFFICES ASSUME NEW n \in 1..Len(servers)
               PROVE  /\ (IF n = receiver.server /\ servers[n].listener = "open"
                          THEN [servers[n] EXCEPT !.listener = "closing"] ELSE servers[n]) \in Listeners
                      /\ (IF n = receiver.server /\ servers[n].listener = "open"
                          THEN [servers[n] EXCEPT !.listener = "closing"] ELSE servers[n]).listener # "open"
    BY <1>1 DEF TheClips!Cancelled
  <2>1. servers[n] \in Listeners /\ (servers[n].listener = "open" <=> n = receiver.server)
    BY <1>1 DEF ClipInv, OneReceiver
  <2>2. [servers[n] EXCEPT !.listener = "closing"] \in Listeners
        /\ [servers[n] EXCEPT !.listener = "closing"].listener # "open"
    BY <2>1 DEF Listeners
  <2> QED BY <2>1, <2>2
<1>3. cut \in Seq(Listeners) /\ Len(cut) = Len(servers) /\ DOMAIN cut = 1..Len(servers)
  BY <1>1, <1>2
<1> HIDE DEF cut
<1>4. CASE now = cut
  BY <1>2, <1>3, <1>4
<1>5. CASE now = [n \in DOMAIN cut |-> IF cut[n].listener = "closing" THEN TheClips!Shut(cut[n]) ELSE cut[n]]
  <2>1. \A r \in Listeners : TheClips!Shut(r) \in Listeners /\ TheClips!Shut(r).listener # "open"
    BY DEF Listeners, TheClips!Shut, KeyOrNone
  <2>2. now \in [1..Len(servers) -> Listeners] /\ \A n \in 1..Len(servers) : now[n].listener # "open"
    BY <1>2, <1>3, <1>5, <2>1
  <2> QED BY <1>1, <2>2
<1> QED BY <1>4, <1>5 DEF TheClips!Settled, cut

\* A goroutine that matches the receiver to what it read keeps it one.
LEMMA ClipApply == ASSUME ClipInv, NEW g \in TheClips!Syncers, TheClips!Apply(g) PROVE ClipInv'
<1>1. /\ section \in KeyOrNone /\ receiver \in [key : KeyOrNone, server : Nat]
      /\ servers \in Seq(Listeners) /\ sync \in [TheClips!Syncers -> Syncings] /\ asks \in [Forms -> ClipForms]
      /\ janitors \in {0, 1} /\ task \in [server : KeyOrNone, on : BOOLEAN]
      /\ OneReceiver /\ KeysHeld
  BY DEF ClipInv, ClipTypes
<1>2. UNCHANGED <<section, held, asks, task>> /\ sync' = [sync EXCEPT ![g] = TheClips!NotSyncing]
  BY DEF TheClips!Apply
<1>3. sync' \in [TheClips!Syncers -> Syncings]
  <2>1. TheClips!NotSyncing \in Syncings
    BY DEF TheClips!NotSyncing, Syncings, KeyOrNone
  <2> QED BY <1>1, <1>2, <2>1
<1>4. KeysHeld'
  BY <1>1, <1>2 DEF KeysHeld
<1>5. CASE UNCHANGED <<receiver, servers, janitors>>
  BY <1>1, <1>2, <1>3, <1>4, <1>5 DEF ClipInv, ClipTypes, OneReceiver
<1>6. CASE \E now \in TheClips!Settled(TheClips!Cancelled) :
              TheClips!Stop(sync[g].key, now) \/ \E k \in sync[g].key : TheClips!Start(k, now)
  <2>1. PICK now \in TheClips!Settled(TheClips!Cancelled) :
              TheClips!Stop(sync[g].key, now) \/ \E k \in sync[g].key : TheClips!Start(k, now)
    BY <1>6
  <2>2. /\ now \in Seq(Listeners) /\ Len(now) = Len(servers) /\ Len(now) \in Nat /\ DOMAIN now = 1..Len(now)
        /\ \A n \in DOMAIN now : now[n].listener # "open" /\ n # 0
    BY <1>1, CancelledAll
  <2>3. CASE TheClips!Stop(sync[g].key, now)
    <3>1. servers' = now /\ receiver' = [key |-> {}, server |-> 0] /\ UNCHANGED janitors
      BY <2>3 DEF TheClips!Stop
    <3>2. receiver' \in [key : KeyOrNone, server : Nat] /\ receiver'.server = 0 /\ receiver'.key = {}
      BY <3>1 DEF KeyOrNone
    <3>3. now # <<>> => servers # <<>>
      BY <1>1, <2>2
    <3>4. OneReceiver'
      BY <1>1, <2>2, <3>1, <3>2, <3>3 DEF OneReceiver
    <3> QED BY <1>1, <1>2, <1>3, <1>4, <2>2, <3>1, <3>2, <3>4 DEF ClipInv, ClipTypes
  <2>4. ASSUME NEW k \in sync[g].key, TheClips!Start(k, now) PROVE ClipInv'
    <3> DEFINE n == Len(now) + 1
               fresh == [key |-> {k}, listener |-> "open"]
    <3>1. servers' = Append(now, fresh) /\ receiver' = [key |-> {k}, server |-> n] /\ janitors' = 1
      BY <1>1, <2>4 DEF TheClips!Start
    <3>2. {k} \in KeyOrNone
      <4>1. sync[g].key \in KeyOrNone
        BY <1>1 DEF Syncings
      <4> QED BY <2>4, <4>1 DEF KeyOrNone
    <3>3. fresh \in Listeners /\ fresh.listener = "open" /\ fresh.key = {k}
      BY <3>2 DEF Listeners
    <3> HIDE DEF fresh
    <3>4. /\ servers' \in Seq(Listeners) /\ DOMAIN servers' = DOMAIN now \cup {n} /\ n \in Nat \ {0} /\ n \notin DOMAIN now
          /\ servers'[n] = fresh /\ \A i \in DOMAIN now : servers'[i] = now[i]
      BY <2>2, <3>1, <3>3
    <3>5. receiver' \in [key : KeyOrNone, server : Nat] /\ receiver'.server = n /\ receiver'.key = {k}
      BY <3>1, <3>2, <3>4
    <3> HIDE DEF n
    <3>6. OneReceiver'
      BY <2>2, <3>1, <3>3, <3>4, <3>5 DEF OneReceiver
    <3> QED BY <1>1, <1>2, <1>3, <1>4, <3>1, <3>4, <3>5, <3>6 DEF ClipInv, ClipTypes
  <2> QED BY <2>1, <2>3, <2>4
<1> QED BY <1>5, <1>6 DEF TheClips!Apply

\* The listener of a cancelled server closes, whenever its goroutine runs.
LEMMA ClipClose == ASSUME ClipInv, NEW n \in DOMAIN servers, TheClips!Close(n) PROVE ClipInv'
<1>1. /\ servers \in Seq(Listeners) /\ OneReceiver /\ ClipTypes /\ KeysHeld /\ servers[n] \in Listeners
  BY DEF ClipInv, ClipTypes
<1>2. /\ servers[n].listener = "closing" /\ servers' = [servers EXCEPT ![n] = TheClips!Shut(servers[n])]
      /\ UNCHANGED <<section, held, receiver, sync, asks, janitors, task>>
  BY DEF TheClips!Close
<1>3. TheClips!Shut(servers[n]) \in Listeners /\ TheClips!Shut(servers[n]).listener = "closed"
  BY <1>1 DEF Listeners, TheClips!Shut, KeyOrNone
<1>4. /\ servers' \in Seq(Listeners) /\ DOMAIN servers' = DOMAIN servers /\ servers'[n].listener = "closed"
      /\ \A i \in DOMAIN servers : i # n => servers'[i] = servers[i]
  BY <1>1, <1>2, <1>3
<1>5. OneReceiver'
  <2>1. n # receiver.server
    BY <1>1, <1>2 DEF OneReceiver
  <2>2. servers # <<>>
    OBVIOUS
  <2> QED BY <1>1, <1>2, <1>4, <2>1, <2>2 DEF OneReceiver
<1> QED BY <1>1, <1>2, <1>4, <1>5 DEF ClipInv, ClipTypes, KeysHeld

\* A page that saves, and a form's steps, keep it as well.
LEMMA ClipOther ==
  ASSUME ClipInv,
         \/ \E g \in TheClips!Syncers : TheClips!Load(g)
         \/ \E g \in Savers : TheClips!Save(g)
         \/ \E m \in Forms : \/ TheClips!Ask(m) \/ TheClips!SaveSection(m) \/ TheClips!Match(m)
                             \/ TheClips!Matched(m) \/ TheClips!Point(m) \/ TheClips!Switch(m)
  PROVE  ClipInv'
<1>1. /\ section \in KeyOrNone /\ receiver \in [key : KeyOrNone, server : Nat]
      /\ servers \in Seq(Listeners) /\ sync \in [TheClips!Syncers -> Syncings] /\ asks \in [Forms -> ClipForms]
      /\ janitors \in {0, 1} /\ task \in [server : KeyOrNone, on : BOOLEAN]
      /\ OneReceiver /\ KeysHeld
  BY DEF ClipInv, ClipTypes
<1>2. UNCHANGED <<receiver, servers, janitors>>
  BY DEF TheClips!Load, TheClips!Save, TheClips!Ask, TheClips!SaveSection, TheClips!Match, TheClips!Matched,
         TheClips!Point, TheClips!Switch
<1>3. OneReceiver'
  BY <1>1, <1>2 DEF OneReceiver
<1>4. SUFFICES /\ section' \in KeyOrNone /\ sync' \in [TheClips!Syncers -> Syncings]
               /\ asks' \in [Forms -> ClipForms] /\ task' \in [server : KeyOrNone, on : BOOLEAN] /\ KeysHeld'
  BY <1>1, <1>2, <1>3 DEF ClipInv, ClipTypes
<1>5. ASSUME NEW g \in TheClips!Syncers, NEW a \in {"idle", "asked", "read"}, sync' = [sync EXCEPT ![g].at = a]
      PROVE  sync' \in [TheClips!Syncers -> Syncings]
  <2>1. sync[g] \in Syncings
    BY <1>1
  <2> DEFINE r == [sync[g] EXCEPT !.at = a]
  <2>2. r \in Syncings
    BY <2>1 DEF Syncings
  <2> HIDE DEF r
  <2>3. sync' = [sync EXCEPT ![g] = r]
    BY <1>5 DEF r
  <2> QED BY <1>1, <2>2, <2>3
<1>6. ASSUME NEW g \in TheClips!Syncers, TheClips!Load(g)
      PROVE  /\ section' \in KeyOrNone /\ sync' \in [TheClips!Syncers -> Syncings]
             /\ asks' \in [Forms -> ClipForms] /\ task' \in [server : KeyOrNone, on : BOOLEAN] /\ KeysHeld'
  <2>1. UNCHANGED <<section, held, asks, task>>
    BY <1>6 DEF TheClips!Load
  <2>2. sync' \in [TheClips!Syncers -> Syncings]
    <3>1. PICK r \in {TheClips!NotSyncing, [at |-> "read", key |-> section]} : sync' = [sync EXCEPT ![g] = r]
      BY <1>6 DEF TheClips!Load
    <3>2. r \in Syncings
      BY <1>1, <3>1 DEF Syncings, TheClips!NotSyncing, KeyOrNone
    <3> QED BY <1>1, <3>1, <3>2
  <2> QED BY <1>1, <2>1, <2>2 DEF KeysHeld
<1>7. ASSUME NEW g \in Savers, TheClips!Save(g)
      PROVE  /\ section' \in KeyOrNone /\ sync' \in [TheClips!Syncers -> Syncings]
             /\ asks' \in [Forms -> ClipForms] /\ task' \in [server : KeyOrNone, on : BOOLEAN] /\ KeysHeld'
  <2>1. /\ UNCHANGED <<asks, task>> /\ sync' = [sync EXCEPT ![g].at = "asked"]
        /\ section' \in KeyOrNone /\ held' = held \cup section'
    BY <1>7 DEF TheClips!Save, KeyOrNone
  <2>2. sync' \in [TheClips!Syncers -> Syncings]
    BY <1>5, <2>1 DEF TheClips!Syncers
  <2> QED BY <1>1, <2>1, <2>2 DEF KeysHeld
<1>8. ASSUME NEW m \in Forms,
             \/ TheClips!Ask(m) \/ TheClips!SaveSection(m) \/ TheClips!Match(m)
             \/ TheClips!Matched(m) \/ TheClips!Point(m) \/ TheClips!Switch(m)
      PROVE  /\ section' \in KeyOrNone /\ sync' \in [TheClips!Syncers -> Syncings]
             /\ asks' \in [Forms -> ClipForms] /\ task' \in [server : KeyOrNone, on : BOOLEAN] /\ KeysHeld'
  <2>1. asks[m] \in ClipForms
    BY <1>1
  <2>2. ASSUME NEW a \in {"none", "save", "sync", "matching", "server", "task", "confirmed", "refused"},
               asks' = [asks EXCEPT ![m].at = a]
        PROVE  /\ asks' \in [Forms -> ClipForms] /\ \A d \in Forms : d # m => asks'[d] = asks[d]
               /\ asks'[m].at = a /\ asks'[m].key = asks[m].key
    <3> DEFINE r == [asks[m] EXCEPT !.at = a]
    <3>1. r \in ClipForms /\ r.at = a /\ r.key = asks[m].key
      BY <2>1 DEF ClipForms
    <3> HIDE DEF r
    <3>2. asks' = [asks EXCEPT ![m] = r]
      BY <2>2 DEF r
    <3> QED BY <1>1, <3>1, <3>2
  <2>3. CASE TheClips!Ask(m)
    <3>1. UNCHANGED <<section, held, sync, task>>
      BY <2>3 DEF TheClips!Ask
    <3>2. PICK r \in ClipForms : asks' = [asks EXCEPT ![m] = r] /\ (r.at = "sync" => r.key = section)
                                 /\ r.at \in {"save", "sync", "task"}
      <4>1. CASE asks' = [asks EXCEPT ![m] = [at |-> "task", key |-> {}, on |-> FALSE]]
        <5> DEFINE r == [at |-> "task", key |-> {}, on |-> FALSE]
        <5>1. r \in ClipForms /\ r.at = "task"
          BY DEF ClipForms, KeyOrNone
        <5> HIDE DEF r
        <5> QED BY <4>1, <5>1 DEF r
      <4>2. ASSUME NEW k \in TheClips!Wanted(section), NEW a \in {"save"} \cup (IF section = {k} THEN {"sync"} ELSE {}),
                   asks' = [asks EXCEPT ![m] = [at |-> a, key |-> {k}, on |-> TRUE]]
            PROVE  \E r \in ClipForms : asks' = [asks EXCEPT ![m] = r] /\ (r.at = "sync" => r.key = section)
                                        /\ r.at \in {"save", "sync", "task"}
        <5> DEFINE r == [at |-> a, key |-> {k}, on |-> TRUE]
        <5>1. k \in Keys
          BY DEF TheClips!Wanted
        <5>2. a \in {"save", "sync"} /\ (a = "sync" => {k} = section)
          OBVIOUS
        <5>3. r \in ClipForms /\ r.at = a /\ r.key = {k}
          BY <5>1, <5>2 DEF ClipForms, KeyOrNone
        <5>4. asks' = [asks EXCEPT ![m] = r]
          BY <4>2
        <5> HIDE DEF r
        <5> QED BY <5>2, <5>3, <5>4
      <4> QED BY <2>3, <4>1, <4>2 DEF TheClips!Ask
    <3>3. asks' \in [Forms -> ClipForms] /\ asks'[m] = r /\ \A d \in Forms : d # m => asks'[d] = asks[d]
      BY <1>1, <3>2
    <3>4. KeysHeld'
      BY <1>1, <3>1, <3>2, <3>3 DEF KeysHeld
    <3> QED BY <1>1, <3>1, <3>3, <3>4
  <2>4. CASE TheClips!SaveSection(m)
    <3>1. asks[m].at = "save" /\ UNCHANGED task
      BY <2>4 DEF TheClips!SaveSection
    <3>2. CASE TheClips!Step(m, TheClips!Unsaved) /\ UNCHANGED <<section, held, sync>>
      <4>1. asks' = [asks EXCEPT ![m].at = "refused"]
        BY <3>2 DEF TheClips!Step, TheClips!Unsaved
      <4>2. /\ asks' \in [Forms -> ClipForms] /\ asks'[m].at = "refused"
            /\ \A d \in Forms : d # m => asks'[d] = asks[d]
        BY <2>2, <4>1
      <4> QED BY <1>1, <3>1, <3>2, <4>2 DEF KeysHeld
    <3>3. CASE /\ section' = asks[m].key /\ held' = held \cup asks[m].key /\ TheClips!Step(m, "sync")
               /\ \/ \E g \in Savers : sync[g].at = "idle" /\ sync' = [sync EXCEPT ![g].at = "asked"]
                  \/ (\A g \in Savers : sync[g].at # "idle") /\ UNCHANGED sync
      <4>1. asks' = [asks EXCEPT ![m].at = "sync"]
        BY <3>3 DEF TheClips!Step
      <4>2. /\ asks' \in [Forms -> ClipForms] /\ asks'[m].at = "sync" /\ asks'[m].key = asks[m].key
            /\ \A d \in Forms : d # m => asks'[d] = asks[d]
        BY <2>2, <4>1
      <4>3. section' \in KeyOrNone
        BY <2>1, <3>3 DEF ClipForms
      <4>4. sync' \in [TheClips!Syncers -> Syncings]
        <5>1. CASE UNCHANGED sync
          BY <1>1, <5>1
        <5>2. CASE \E g \in Savers : sync' = [sync EXCEPT ![g].at = "asked"]
          BY <1>5, <5>2 DEF TheClips!Syncers
        <5> QED BY <3>3, <5>1, <5>2
      <4>5. KeysHeld'
        BY <1>1, <3>1, <3>3, <4>2 DEF KeysHeld
      <4> QED BY <1>1, <3>1, <4>2, <4>3, <4>4, <4>5
    <3> QED BY <2>4, <3>2, <3>3 DEF TheClips!SaveSection
  <2>5. CASE TheClips!Match(m)
    <3>1. /\ asks[m].at = "sync" /\ sync' = [sync EXCEPT ![m].at = "asked"] /\ asks' = [asks EXCEPT ![m].at = "matching"]
          /\ UNCHANGED <<section, held, task>>
      BY <2>5 DEF TheClips!Match, TheClips!Step
    <3>2. /\ asks' \in [Forms -> ClipForms] /\ asks'[m].at = "matching" /\ asks'[m].key = asks[m].key
          /\ \A d \in Forms : d # m => asks'[d] = asks[d]
      BY <2>2, <3>1
    <3>3. sync' \in [TheClips!Syncers -> Syncings]
      BY <1>5, <3>1 DEF TheClips!Syncers
    <3> QED BY <1>1, <3>1, <3>2, <3>3 DEF KeysHeld
  <2>6. CASE TheClips!Matched(m)
    <3>1. /\ asks[m].at = "matching" /\ asks' = [asks EXCEPT ![m].at = "server"] /\ UNCHANGED <<section, held, task, sync>>
      BY <2>6 DEF TheClips!Matched, TheClips!Step
    <3>2. /\ asks' \in [Forms -> ClipForms] /\ asks'[m].at = "server" /\ asks'[m].key = asks[m].key
          /\ \A d \in Forms : d # m => asks'[d] = asks[d]
      BY <2>2, <3>1
    <3> QED BY <1>1, <3>1, <3>2 DEF KeysHeld
  <2>7. CASE TheClips!Point(m) \/ TheClips!Switch(m)
    <3>1. PICK a \in {"task", "refused", "confirmed"} : asks' = [asks EXCEPT ![m].at = a]
      BY <2>7 DEF TheClips!Point, TheClips!Switch, TheClips!Step
    <3>2. /\ asks' \in [Forms -> ClipForms] /\ asks'[m].at = a
          /\ \A d \in Forms : d # m => asks'[d] = asks[d]
      BY <2>2, <3>1
    <3>3. UNCHANGED <<section, held, sync>>
      BY <2>7 DEF TheClips!Point, TheClips!Switch
    <3>4. task' \in [server : KeyOrNone, on : BOOLEAN] /\ task'.server \subseteq held
      <4>1. CASE UNCHANGED task
        BY <1>1, <4>1 DEF KeysHeld
      <4>2. CASE task' = [task EXCEPT !.server = asks[m].key] /\ asks[m].at = "server"
        BY <1>1, <2>1, <4>2 DEF KeysHeld, ClipForms
      <4>3. CASE task' = [task EXCEPT !.on = asks[m].on]
        <5>1. asks[m].on \in BOOLEAN
          BY <2>1 DEF ClipForms
        <5> QED BY <1>1, <4>3, <5>1 DEF KeysHeld
      <4> QED BY <2>7, <4>1, <4>2, <4>3 DEF TheClips!Point, TheClips!Switch
    <3>5. KeysHeld'
      BY <1>1, <3>1, <3>2, <3>3, <3>4 DEF KeysHeld
    <3> QED BY <1>1, <3>2, <3>3, <3>4, <3>5
  <2> QED BY <1>8, <2>3, <2>4, <2>5, <2>6, <2>7
<1> QED BY <1>6, <1>7, <1>8

\* Each step of a goroutine, a page or a form keeps it.
LEMMA ClipStep == ASSUME ClipInv, [TheClips!Next]_clipVars PROVE ClipInv'
<1>1. CASE UNCHANGED clipVars
  <2>1. UNCHANGED <<section, held, receiver, servers, sync, asks, janitors, task>>
    BY <1>1 DEF clipVars
  <2> QED BY <2>1 DEF ClipInv, ClipTypes, OneReceiver, KeysHeld
<1>2. CASE TheClips!Next
  BY <1>2, ClipApply, ClipClose, ClipOther DEF TheClips!Next
<1> QED BY <1>1, <1>2

\* One receiver with keys that were held is what is promised.
LEMMA ClipKeeps == ASSUME ClipInv PROVE TheClips!ReceiverKept
<1>1. servers \in Seq(Listeners) /\ OneReceiver /\ KeysHeld /\ janitors \in {0, 1}
  BY DEF ClipInv, ClipTypes
<1>2. {n \in DOMAIN servers : servers[n].listener = "open"} = {receiver.server} \ {0}
  <2>1. \A n \in DOMAIN servers : n # 0
    BY <1>1
  <2> QED BY <1>1, <2>1 DEF OneReceiver
<1>3. janitors <= 1
  BY <1>1
<1> QED BY <1>1, <1>2, <1>3 DEF TheClips!ReceiverKept, OneReceiver, KeysHeld

-----------------------------------------------------------------------------
(* The search for cameras. *)

Places == {"none", "check", "begin", "dial", "open", "streams", "over", "told"}
Claiming == {"dial", "open", "streams", "over"}
Scannings == [at : {"none", "sweep", "probe", "told"}, known : SUBSET Hosts, todo : SUBSET Hosts,
              found : SUBSET Hosts, gone : BOOLEAN]

SearchTypes ==
  /\ probe \in [TheSearch!Askers -> [Hosts -> Places]]
  /\ scan \in [Scans -> Scannings]
  /\ inFlight \subseteq Hosts /\ fleet \subseteq Hosts

\* An address is claimed as long as one dials it.
ClaimInv ==
  /\ \A a \in TheSearch!Askers, h \in Hosts : probe[a][h] \in Claiming => h \in inFlight
  /\ \A h \in inFlight : \E a \in TheSearch!Askers : probe[a][h] \in Claiming
  /\ \A a, b \in TheSearch!Askers, h \in Hosts : probe[a][h] \in Claiming /\ probe[b][h] \in Claiming => a = b

Sweeps(s) == scan[s].at \in {"sweep", "probe"}

\* A scan sweeps alone, probes what it found and nothing else, and has nothing
\* left that runs once it has answered.
ScanInv ==
  /\ \A s \in Scans : Sweeps(s) => sweeping
  /\ sweeping => \E s \in Scans : Sweeps(s)
  /\ \A s, t \in Scans : Sweeps(s) /\ Sweeps(t) => s = t
  /\ \A s \in Scans : scan[s].at \in {"none", "sweep"} => scan[s].found = {} /\ scan[s].todo = {}
  /\ \A s \in Scans : scan[s].todo \cap scan[s].found = {}
  /\ \A s \in Scans, h \in Hosts : probe[s][h] # "none" <=> h \in scan[s].found
  /\ \A s \in Scans, h \in Hosts : scan[s].at = "told" => probe[s][h] \in {"none", "told"}

SearchInv == SearchTypes /\ ClaimInv /\ ScanInv

\* Each step of a scan, a request, a page or the fleet keeps it.
LEMMA SearchStep == ASSUME SearchInv, [TheSearch!Next]_findVars PROVE SearchInv'
<1> USE SearchAssumption
<1>1. CASE UNCHANGED findVars
  BY <1>1 DEF findVars, SearchInv, SearchTypes, ClaimInv, ScanInv, Sweeps
<1>2. ASSUME NEW a \in TheSearch!Askers, NEW h \in Hosts,
             \/ TheSearch!Check(a, h) \/ TheSearch!Begin(a, h) \/ TheSearch!Connect(a, h)
             \/ TheSearch!Look(a, h) \/ TheSearch!Looked(a, h) \/ TheSearch!End(a, h)
      PROVE  SearchInv'
  <2> PICK where \in Places \ {"none"} : probe' = [probe EXCEPT ![a][h] = where]
    BY <1>2 DEF TheSearch!Check, TheSearch!Begin, TheSearch!Connect, TheSearch!Look, TheSearch!Looked,
                TheSearch!End, TheSearch!Moves, Places
  <2>1. UNCHANGED <<scan, sweeping, fleet>> /\ probe[a][h] \notin {"none", "told"}
    BY <1>2 DEF TheSearch!Check, TheSearch!Begin, TheSearch!Connect, TheSearch!Look, TheSearch!Looked,
                TheSearch!End, TheSearch!At
  <2>2. /\ probe' \in [TheSearch!Askers -> [Hosts -> Places]] /\ probe'[a][h] = where
        /\ \A b \in TheSearch!Askers, k \in Hosts : <<b, k>> # <<a, h>> => probe'[b][k] = probe[b][k]
    BY DEF SearchInv, SearchTypes
  <2>3. ScanInv'
    <3>1. \A s \in Scans : scan[s].at \in {"none", "sweep", "probe", "told"} /\ s \in TheSearch!Askers
      BY DEF SearchInv, SearchTypes, Scannings, TheSearch!Askers
    <3> QED BY <2>1, <2>2, <3>1 DEF SearchInv, ScanInv, Sweeps
  <2>4. \/ TheSearch!Begin(a, h) /\ probe[a][h] = "begin"
              /\ (\/ h \notin inFlight /\ inFlight' = inFlight \cup {h} /\ where = "dial"
                  \/ inFlight' = inFlight /\ where = "told")
        \/ inFlight' = inFlight /\ (probe[a][h] \in Claiming <=> where \in Claiming)
        \/ inFlight' = inFlight \ {h} /\ probe[a][h] = "over" /\ where = "told"
    <3>1. probe[a][h] \in Places /\ probe'[a][h] = where
      BY <2>2 DEF SearchInv, SearchTypes
    <3>2. CASE TheSearch!Check(a, h)
      <4>1. probe'[a][h] \in {"told", "begin"} /\ probe[a][h] = "check" /\ inFlight' = inFlight
        BY <3>2 DEF TheSearch!Check, TheSearch!Moves, TheSearch!At, SearchInv, SearchTypes
      <4> QED BY <3>1, <4>1 DEF Claiming
    <3>3. CASE TheSearch!Begin(a, h)
      BY <3>3, <2>2 DEF TheSearch!Begin, TheSearch!Unclaimed, TheSearch!Moves, TheSearch!At, SearchInv, SearchTypes
    <3>4. CASE TheSearch!Connect(a, h) \/ TheSearch!Look(a, h) \/ TheSearch!Looked(a, h)
      <4>1. probe'[a][h] \in Claiming /\ probe[a][h] \in Claiming /\ inFlight' = inFlight
        BY <3>4 DEF TheSearch!Connect, TheSearch!Look, TheSearch!Looked, TheSearch!Moves, TheSearch!At, SearchInv,
                    SearchTypes, Claiming
      <4> QED BY <3>1, <4>1
    <3>5. CASE TheSearch!End(a, h)
      <4>1. probe'[a][h] = "told" /\ probe[a][h] = "over" /\ inFlight' = inFlight \ {h}
        BY <3>5 DEF TheSearch!End, TheSearch!Moves, TheSearch!At, SearchInv, SearchTypes
      <4> QED BY <3>1, <4>1
    <3> QED BY <1>2, <3>2, <3>3, <3>4, <3>5
  <2>5. ClaimInv' /\ inFlight' \subseteq Hosts
    <3>1. ClaimInv /\ inFlight \subseteq Hosts
      BY DEF SearchInv, SearchTypes
    <3>2. CASE inFlight' = inFlight /\ (probe[a][h] \in Claiming <=> where \in Claiming)
      BY <2>2, <3>1, <3>2 DEF ClaimInv
    <3>3. CASE h \notin inFlight /\ inFlight' = inFlight \cup {h} /\ where = "dial"
      <4>1. where \in Claiming /\ \A b \in TheSearch!Askers : probe[b][h] \notin Claiming
        BY <3>1, <3>3 DEF ClaimInv, Claiming
      <4> QED BY <2>2, <3>1, <3>3, <4>1 DEF ClaimInv
    <3>4. CASE inFlight' = inFlight \ {h} /\ probe[a][h] = "over" /\ where = "told"
      <4>1. probe[a][h] \in Claiming /\ where \notin Claiming
        BY <3>4 DEF Claiming
      <4> QED BY <2>2, <3>1, <3>4, <4>1 DEF ClaimInv
    <3>5. CASE probe[a][h] = "begin" /\ inFlight' = inFlight /\ where = "told"
      <4>1. probe[a][h] \notin Claiming /\ where \notin Claiming
        BY <3>5 DEF Claiming
      <4> QED BY <2>2, <3>1, <3>5, <4>1 DEF ClaimInv
    <3> QED BY <2>4, <3>2, <3>3, <3>4, <3>5
  <2> QED BY <2>1, <2>2, <2>3, <2>5 DEF SearchInv, SearchTypes
<1>3. ASSUME NEW a \in Asks, TheSearch!Ask(a) PROVE SearchInv'
  <2> PICK k \in Hosts : probe' = [probe EXCEPT ![a] = [h \in Hosts |-> IF h = k THEN "check" ELSE "none"]]
    BY <1>3 DEF TheSearch!Ask
  <2>1. /\ UNCHANGED <<scan, sweeping, inFlight, fleet>> /\ a \in TheSearch!Askers /\ a \notin Scans
        /\ \A h \in Hosts : probe[a][h] \in {"none", "told"}
    BY <1>3 DEF TheSearch!Ask, TheSearch!Askers, TheSearch!Running
  <2>2. /\ probe' \in [TheSearch!Askers -> [Hosts -> Places]]
        /\ \A h \in Hosts : probe'[a][h] \in {"check", "none"}
        /\ \A b \in TheSearch!Askers \ {a} : probe'[b] = probe[b]
    BY <2>1 DEF SearchInv, SearchTypes, Places
  <2>3. ClaimInv'
    <3>1. \A h \in Hosts : probe[a][h] \notin Claiming /\ probe'[a][h] \notin Claiming
      BY <2>1, <2>2 DEF Claiming
    <3> QED BY <2>1, <2>2, <3>1 DEF SearchInv, SearchTypes, ClaimInv
  <2>4. ScanInv'
    BY <2>1, <2>2 DEF SearchInv, ScanInv, Sweeps, TheSearch!Askers
  <2> QED BY <2>1, <2>2, <2>3, <2>4 DEF SearchInv, SearchTypes
<1>4. ASSUME NEW s \in Scans, TheSearch!Scan(s) PROVE SearchInv'
  <2>1. /\ scan[s].at = "none" /\ ~sweeping /\ sweeping' = TRUE /\ UNCHANGED <<inFlight, fleet>>
        /\ scan' = [scan EXCEPT ![s] = [TheSearch!NoScan EXCEPT !.at = "sweep", !.known = fleet]]
        /\ probe' = [probe EXCEPT ![s] = [h \in Hosts |-> "none"]]
    BY <1>4 DEF TheSearch!Scan, TheSearch!Goes
  <2>2. s \in TheSearch!Askers /\ \A h \in Hosts : probe[s][h] = "none"
    BY <2>1 DEF SearchInv, ScanInv, SearchTypes, TheSearch!Askers
  <2>3. probe' = probe
    BY <2>1, <2>2 DEF SearchInv, SearchTypes
  <2>4. ClaimInv'
    BY <2>1, <2>3 DEF SearchInv, SearchTypes, ClaimInv
  <2>5. scan' \in [Scans -> Scannings]
    <3>1. [TheSearch!NoScan EXCEPT !.at = "sweep", !.known = fleet] \in Scannings
      BY DEF TheSearch!NoScan, Scannings, SearchInv, SearchTypes
    <3> QED BY <2>1, <3>1 DEF SearchInv, SearchTypes
  <2>6. /\ scan'[s].at = "sweep" /\ scan'[s].found = {} /\ scan'[s].todo = {} /\ scan[s].found = {}
        /\ \A t \in Scans : t # s => scan'[t] = scan[t]
    BY <2>1 DEF SearchInv, SearchTypes, ScanInv, TheSearch!NoScan
  <2>7. ScanInv'
    BY <2>1, <2>3, <2>6 DEF SearchInv, ScanInv, Sweeps
  <2> QED BY <2>1, <2>3, <2>4, <2>5, <2>7 DEF SearchInv, SearchTypes
\* The other steps of a scan keep who sweeps, but for the last.
<1>5. ASSUME NEW s \in Scans, TheSearch!Sweep(s) \/ TheSearch!Cancel(s) \/ TheSearch!Truncate(s)
      PROVE  SearchInv'
  <2>1. PICK r \in Scannings : scan' = [scan EXCEPT ![s] = r] /\ Sweeps(s) /\ r.at \in {"sweep", "probe"}
                               /\ r.found = scan[s].found /\ r.todo \cap r.found = {}
                               /\ (r.at = "sweep" => r.todo = {} /\ r.found = {})
    <3>1. scan[s] \in Scannings /\ (scan[s].at = "sweep" => scan[s].todo = {} /\ scan[s].found = {})
          /\ scan[s].todo \cap scan[s].found = {}
      BY DEF SearchInv, SearchTypes, ScanInv
    <3>2. CASE TheSearch!Sweep(s)
      <4>1. PICK live \in SUBSET Hosts : scan' = [scan EXCEPT ![s] = [scan[s] EXCEPT !.at = "probe",
                                                       !.todo = live \ scan[s].known]]
        BY <3>2 DEF TheSearch!Sweep, TheSearch!Goes
      <4>2. [scan[s] EXCEPT !.at = "probe", !.todo = live \ scan[s].known] \in Scannings
        BY <3>1 DEF Scannings
      <4> QED BY <3>1, <3>2, <4>1, <4>2 DEF TheSearch!Sweep, Scannings, Sweeps
    <3>3. CASE TheSearch!Cancel(s)
      <4>1. [scan[s] EXCEPT !.gone = TRUE] \in Scannings
        BY <3>1 DEF Scannings
      <4> QED BY <3>1, <3>3, <4>1 DEF TheSearch!Cancel, TheSearch!Goes, Scannings, Sweeps
    <3>4. CASE TheSearch!Truncate(s)
      <4>1. [scan[s] EXCEPT !.todo = {}] \in Scannings
        BY <3>1 DEF Scannings
      <4> QED BY <3>1, <3>4, <4>1 DEF TheSearch!Truncate, TheSearch!Goes, Scannings, Sweeps
    <3> QED BY <1>5, <3>2, <3>3, <3>4
  <2>2. UNCHANGED <<sweeping, inFlight, fleet, probe>>
    BY <1>5 DEF TheSearch!Sweep, TheSearch!Cancel, TheSearch!Truncate
  <2>3. scan' \in [Scans -> Scannings] /\ scan'[s] = r /\ \A t \in Scans : t # s => scan'[t] = scan[t]
    BY <2>1 DEF SearchInv, SearchTypes
  <2>4. ScanInv'
    BY <2>1, <2>2, <2>3 DEF SearchInv, ScanInv, Sweeps
  <2> QED BY <2>2, <2>3, <2>4 DEF SearchInv, SearchTypes, ClaimInv
<1>6. ASSUME NEW s \in Scans, TheSearch!Launch(s) PROVE SearchInv'
  <2>1. PICK h \in scan[s].todo :
             /\ scan' = [scan EXCEPT ![s] = [scan[s] EXCEPT !.todo = scan[s].todo \ {h}, !.found = scan[s].found \cup {h}]]
             /\ probe' = [probe EXCEPT ![s][h] = "check"]
    BY <1>6 DEF TheSearch!Launch, TheSearch!Goes, TheSearch!Moves
  <2>2. UNCHANGED <<sweeping, inFlight, fleet>> /\ scan[s].at = "probe" /\ s \in TheSearch!Askers
    BY <1>6 DEF TheSearch!Launch, TheSearch!Askers
  <2>3. /\ scan[s] \in Scannings /\ h \in Hosts /\ h \notin scan[s].found /\ probe[s][h] = "none"
    BY <2>1 DEF SearchInv, SearchTypes, ScanInv, Scannings
  <2>4. PICK r \in Scannings : scan' = [scan EXCEPT ![s] = r] /\ r.at = "probe" /\ r.todo = scan[s].todo \ {h}
                               /\ r.found = scan[s].found \cup {h}
    <3> DEFINE r == [scan[s] EXCEPT !.todo = scan[s].todo \ {h}, !.found = scan[s].found \cup {h}]
    <3>1. r \in Scannings
      BY <2>3 DEF Scannings
    <3>2. r.at = "probe" /\ r.todo = scan[s].todo \ {h} /\ r.found = scan[s].found \cup {h}
      BY <2>2, <2>3 DEF Scannings
    <3> QED BY <2>1, <3>1, <3>2
  <2>5. scan' \in [Scans -> Scannings] /\ scan'[s] = r /\ \A t \in Scans : t # s => scan'[t] = scan[t]
    BY <2>4 DEF SearchInv, SearchTypes
  <2>6. /\ probe' \in [TheSearch!Askers -> [Hosts -> Places]] /\ probe'[s][h] = "check"
        /\ \A b \in TheSearch!Askers, k \in Hosts : <<b, k>> # <<s, h>> => probe'[b][k] = probe[b][k]
    BY <2>1, <2>2, <2>3 DEF SearchInv, SearchTypes, Places
  <2>7. ClaimInv'
    <3>1. ClaimInv /\ "check" \notin Claiming /\ "none" \notin Claiming /\ inFlight \subseteq Hosts
      BY DEF SearchInv, SearchTypes, Claiming
    <3> QED BY <2>2, <2>3, <2>6, <3>1 DEF ClaimInv
  <2>8. ScanInv'
    <3>1. \A t \in Scans : t \in TheSearch!Askers
      BY DEF TheSearch!Askers
    <3>2. \A t \in Scans, k \in Hosts : probe'[t][k] # "none" <=> k \in scan'[t].found
      BY <2>3, <2>4, <2>5, <2>6, <3>1 DEF SearchInv, ScanInv
    <3>3. \A t \in Scans, k \in Hosts : scan'[t].at = "told" => probe'[t][k] \in {"none", "told"}
      BY <2>2, <2>3, <2>4, <2>5, <2>6, <3>1 DEF SearchInv, ScanInv
    <3>4. \A t \in Scans : scan'[t].todo \cap scan'[t].found = {}
      BY <2>3, <2>4, <2>5 DEF SearchInv, ScanInv
    <3>5. \A t \in Scans : scan'[t].at = scan[t].at
      BY <2>2, <2>4, <2>5
    <3> QED BY <2>2, <2>4, <2>5, <3>2, <3>3, <3>4, <3>5 DEF SearchInv, ScanInv, Sweeps
  <2> QED BY <2>2, <2>5, <2>6, <2>7, <2>8 DEF SearchInv, SearchTypes
<1>7. ASSUME NEW s \in Scans, TheSearch!Answer(s) PROVE SearchInv'
  <2>1. /\ scan[s].at = "probe" /\ sweeping' = FALSE /\ UNCHANGED <<inFlight, fleet, probe>>
        /\ scan' = [scan EXCEPT ![s] = [scan[s] EXCEPT !.at = "told"]]
        /\ scan[s].todo = {} /\ \A h \in Hosts : probe[s][h] \in {"none", "told"}
    BY <1>7 DEF TheSearch!Answer, TheSearch!Goes, TheSearch!AllAnswered, TheSearch!Running
  <2>2. scan[s] \in Scannings
    BY DEF SearchInv, SearchTypes
  <2>3. PICK r \in Scannings : scan' = [scan EXCEPT ![s] = r] /\ r.at = "told" /\ r.todo = {} /\ r.found = scan[s].found
    <3> DEFINE r == [scan[s] EXCEPT !.at = "told"]
    <3>1. r \in Scannings
      BY <2>2 DEF Scannings
    <3>2. r.at = "told" /\ r.todo = {} /\ r.found = scan[s].found
      BY <2>1, <2>2 DEF Scannings
    <3> QED BY <2>1, <3>1, <3>2
  <2>4. scan' \in [Scans -> Scannings] /\ scan'[s] = r /\ \A t \in Scans : t # s => scan'[t] = scan[t]
    BY <2>3 DEF SearchInv, SearchTypes
  <2>5. ScanInv'
    BY <2>1, <2>3, <2>4 DEF SearchInv, ScanInv, Sweeps
  <2> QED BY <2>1, <2>4, <2>5 DEF SearchInv, SearchTypes, ClaimInv
<1>8. ASSUME UNCHANGED <<scan, probe, sweeping, inFlight>>, fleet' \subseteq Hosts PROVE SearchInv'
  BY <1>8 DEF SearchInv, SearchTypes, ClaimInv, ScanInv, Sweeps
<1>9. CASE TheSearch!Next
  <2>1. CASE \E a \in TheSearch!Askers, h \in Hosts :
               \/ TheSearch!Check(a, h) \/ TheSearch!Begin(a, h) \/ TheSearch!Connect(a, h)
               \/ TheSearch!Look(a, h) \/ TheSearch!Looked(a, h) \/ TheSearch!End(a, h)
    BY <2>1, <1>2
  <2>2. CASE \E s \in Scans : \/ TheSearch!Scan(s) \/ TheSearch!Sweep(s) \/ TheSearch!Launch(s)
                              \/ TheSearch!Cancel(s) \/ TheSearch!Truncate(s) \/ TheSearch!Answer(s)
    BY <2>2, <1>4, <1>5, <1>6, <1>7
  <2>3. CASE \E p \in Pages : TheSearch!Dial(p) \/ TheSearch!Answers(p) \/ TheSearch!DialFails(p)
    BY <2>3, <1>8 DEF SearchInv, SearchTypes, TheSearch!Dial, TheSearch!Answers, TheSearch!DialFails
  <2>4. CASE TheSearch!Edit \/ TheSearch!Forget
    BY <2>4, <1>8 DEF SearchInv, SearchTypes, TheSearch!Edit, TheSearch!Forget
  <2> QED BY <1>9, <2>1, <2>2, <2>3, <2>4, <1>3 DEF TheSearch!Next
<1> QED BY <1>1, <1>9

\* It holds before any scan, request and edit.
LEMMA SearchInit == TheSearch!Init => SearchInv
<1> USE DEF TheSearch!Init
<1>1. TheSearch!Init => SearchTypes
  BY DEF SearchTypes, Scannings, Places, TheSearch!NoScan
<1>2. TheSearch!Init => ClaimInv
  BY DEF ClaimInv, Claiming
<1>3. TheSearch!Init => ScanInv
  BY DEF ScanInv, Sweeps, TheSearch!NoScan, TheSearch!Askers
<1> QED BY <1>1, <1>2, <1>3 DEF SearchInv

\* What the claims and the scans keep is that each address is probed alone.
LEMMA SearchAlone == ASSUME SearchInv PROVE TheSearch!ProbedAlone
<1>1. ASSUME NEW h \in Hosts PROVE Cardinality(TheSearch!Dialling(h)) = IF h \in inFlight THEN 1 ELSE 0
  <2>1. TheSearch!Dialling(h) = {a \in TheSearch!Askers : probe[a][h] \in Claiming}
    BY DEF TheSearch!Dialling, Claiming
  <2>2. CASE h \in inFlight
    <3>1. PICK a \in TheSearch!Askers : probe[a][h] \in Claiming
      BY <2>2 DEF SearchInv, ClaimInv
    <3>2. TheSearch!Dialling(h) = {a}
      BY <2>1, <3>1 DEF SearchInv, ClaimInv
    <3> QED BY <2>2, <3>2, FS_Singleton
  <2>3. CASE h \notin inFlight
    <3>1. TheSearch!Dialling(h) = {}
      BY <2>1, <2>3 DEF SearchInv, ClaimInv
    <3> QED BY <2>3, <3>1, FS_EmptySet
  <2> QED BY <2>2, <2>3
<1>2. {s \in Scans : scan[s].at \in {"sweep", "probe"}} # {} <=> sweeping
  BY DEF SearchInv, ScanInv, Sweeps
<1>3. Cardinality({s \in Scans : scan[s].at \in {"sweep", "probe"}}) <= 1
  <2>1. CASE {s \in Scans : scan[s].at \in {"sweep", "probe"}} = {}
    <3>1. Cardinality({}) = 0
      BY FS_EmptySet
    <3> QED BY <2>1, <3>1
  <2>2. CASE {s \in Scans : scan[s].at \in {"sweep", "probe"}} # {}
    <3>1. PICK s \in Scans : {t \in Scans : scan[t].at \in {"sweep", "probe"}} = {s}
      BY <2>2 DEF SearchInv, ScanInv, Sweeps
    <3>2. Cardinality({s}) = 1
      BY FS_Singleton
    <3> QED BY <3>1, <3>2
  <2> QED BY <2>1, <2>2
<1>4. \A s \in Scans : scan[s].at = "told" => \A h \in scan[s].found : probe[s][h] = "told"
  <2> SUFFICES ASSUME NEW s \in Scans, scan[s].at = "told", NEW h \in scan[s].found PROVE probe[s][h] = "told"
    OBVIOUS
  <2>1. h \in Hosts
    BY DEF SearchInv, SearchTypes, Scannings
  <2>2. h \in scan[s].found /\ probe[s][h] \in {"none", "told"} /\ probe[s][h] # "none"
    BY <2>1 DEF SearchInv, ScanInv
  <2> QED BY <2>2
<1>5. \A h \in Hosts : Cardinality(TheSearch!Dialling(h)) = IF h \in inFlight THEN 1 ELSE 0
  BY <1>1
<1>6. \A A : TheSearch!Cardinality(A) = Cardinality(A)
  BY DEF TheSearch!Cardinality, Cardinality
<1>7. \A h \in Hosts : TheSearch!Cardinality(TheSearch!Dialling(h)) = IF h \in inFlight THEN 1 ELSE 0
  BY <1>5, <1>6
<1>8. TheSearch!Cardinality({s \in Scans : scan[s].at \in {"sweep", "probe"}}) <= 1
  BY <1>3, <1>6
<1> QED BY <1>2, <1>4, <1>7, <1>8, Zenon DEF TheSearch!ProbedAlone

-----------------------------------------------------------------------------
(* The services together: one runs, with the variables of the others empty. *)

ServicesInv ==
  /\ part = "rtsp" => RtspInv
  /\ part = "muxer" => MuxInv
  /\ part = "sd" => SdInv
  /\ part = "pad" => PadInv
  /\ part = "ftp" => FtpInv
  /\ part = "clips" => ClipInv
  /\ part = "search" => SearchInv

\* What holds of each service alone holds of the one that runs.
LEMMA ServicesInvariance == ServicesSpec => []ServicesInv
<1>1. ServicesInit => ServicesInv
  BY RtspInit, MuxInit, SdInit, PadInit, FtpInit, ClipInit, SearchInit DEF ServicesInit, ServicesInv
<1>2. ASSUME ServicesInv, [ServicesNext]_servicesVars PROVE ServicesInv'
  <2>1. /\ part' = part
        /\ part = "rtsp" => [TheRtsp!Next]_rtspVars
        /\ part = "muxer" => [TheMuxer!Next]_muxVars
        /\ part = "sd" => [TheSd!Next]_sdVars
        /\ part = "pad" => [ThePad!Next]_holdVars
        /\ part = "ftp" => [TheFtp!Next]_ftpVars
        /\ part = "clips" => [TheClips!Next]_clipVars
        /\ part = "search" => [TheSearch!Next]_findVars
    BY <1>2 DEF ServicesNext, servicesVars, Alone
  <2>2. part = "rtsp" => RtspInv'
    BY <1>2, <2>1, RtspStep DEF ServicesInv
  <2>3. part = "muxer" => MuxInv'
    BY <1>2, <2>1, MuxStep DEF ServicesInv
  <2>4. part = "sd" => SdInv'
    BY <1>2, <2>1, SdStep DEF ServicesInv
  <2>5. part = "pad" => PadInv'
    BY <1>2, <2>1, PadStep DEF ServicesInv
  <2>6. part = "ftp" => FtpInv'
    BY <1>2, <2>1, FtpStep DEF ServicesInv
  <2>7. part = "clips" => ClipInv'
    BY <1>2, <2>1, ClipStep DEF ServicesInv
  <2>8. part = "search" => SearchInv'
    BY <1>2, <2>1, SearchStep DEF ServicesInv
  <2> QED BY <2>1, <2>2, <2>3, <2>4, <2>5, <2>6, <2>7, <2>8 DEF ServicesInv
<1> QED BY <1>1, <1>2, PTL DEF ServicesSpec

\* However often a camera's counter wraps or the camera is away, the picture keeps
\* its time, unless a frame came late across a wrap that was counted (`astray`,
\* ts/clock.go:58), and audio is near it; and whatever a camera is changed to, a
\* reader of a stream without hold_picture (rtsp/stream.go:375) is sent the
\* pictures that were described to it, on the timeline of the camera's clock they
\* came by (ts/clock.go, rtsp/stream.go videoFrame).
THEOREM TimedCorrect == ServicesSpec => []Timed
<1>1. ServicesInv => Timed
  BY RtspFaithfully, MuxTimed DEF ServicesInv, Timed
<1> QED BY <1>1, ServicesInvariance, PTL

\* Whenever sessions with a camera break, expire or are waited for by many: the one
\* that is open is in use or has a timer that closes it, a recording never holds the
\* pictures of the one before if the camera does not pause in a download (~Stalls;
\* recordings.go:87), and nobody is told the outcome of another's command
\* (recordings.go sdConn and sdDone, ptzhold.go withPtzConn).
THEOREM LinksTidyCorrect == ServicesSpec => []LinksTidy
<1>1. ServicesInv => LinksTidy
  BY SdTidily, PadWell DEF ServicesInv, LinksTidy
<1> QED BY <1>1, ServicesInvariance, PTL

\* Whatever cameras of one account do at the same time, a clip that was told of is
\* whole, unless uploads of its name overlapped (`tangled`, ftpd/server.go:378), and
\* no data port stays lent to a connection that is gone; and however saves and forms
\* interleave, the one server that runs is the receiver's and goes by its key
\* (ftpd/server.go store and closeData, clips.go syncReceiver).
THEOREM ClipsKeptCorrect == ServicesSpec => []ClipsKept
<1>1. ServicesInv => ClipsKept
  BY FtpKeeps, ClipKeeps DEF ServicesInv, ClipsKept
<1> QED BY <1>1, ServicesInvariance, PTL

\* However scans and questions about one address overlap, an address is probed by
\* one at a time and one scan sweeps (probe.go beginProbe, discover.go beginSweep).
THEOREM ProbedAloneCorrect == ServicesSpec => []ProbedAlone
<1>1. ServicesInv => ProbedAlone
  BY SearchAlone DEF ServicesInv, ProbedAlone
<1> QED BY <1>1, ServicesInvariance, PTL
=============================================================================
