--------------------------- MODULE SupervisorProofs ---------------------------
(***************************************************************************)
(* Theorems about Supervisor, for any streams, configurations and callers  *)
(* of Reload.  The argument: a live goroutine belongs to the entry made    *)
(* last for its key (Latest), because whoever makes another one has waited *)
(* for every goroutine taken out of the map (NoneForgotten), and no two    *)
(* Reloads are at work together (TypeOK).                                  *)
(***************************************************************************)
EXTENDS Supervisor, FiniteSetTheorems, TLAPS

Over == {r \in Reloaders : reload[r] = "over"}

\* A Reload makes at most one entry for a key.
Bounded == \A k \in Keys : made[k] <= 1 + Cardinality(Over)

Latest ==
  /\ \A e \in Entries : stream[e] \in Alive => e[2] = made[e[1]]
  /\ \A k \in Keys : entries[k] # Absent => entries[k] = made[k]

\* What Run relies on, phase by phase.
Phases ==
  /\ runner = "idle" <=> runCtx = "nil"
  /\ runner = "idle" => \A e \in Entries : stream[e] \notin Alive
  /\ runCtx = "nil" => \A r \in Reloaders : reload[r] \in {"idle", "over"}
  /\ runner \in {"fenced", "closing", "returned"} =>
       runCtx = "done" /\ \A r \in Reloaders : reload[r] # "stopping"
  /\ runner = "closing" => \A e \in Entries : stream[e] \in Alive => e \in live
  /\ NoneLeftRunning

\* What runs is what was applied last, and what is missing is being started.
Fleet ==
  /\ \A k \in Keys : entries[k] # Absent => sameStream(<<k, entries[k]>>, applied[k])
  /\ \A r \in Reloaders : reload[r] = "stopping" => want[r] = applied
  /\ \/ \E r \in Reloaders : reload[r] = "stopping"
     \/ \A k \in Keys : entries[k] = Absent => applied[k] = NoConfig

\* Only what was taken out of the map is cancelled.
Hubs ==
  /\ \A r \in Reloaders : reload[r] = "stopping" =>
       \A e \in stop[r] : entries[e[1]] = Absent /\ e[2] <= made[e[1]]
  /\ \A e \in cancelled : e \notin Current /\ e[2] <= made[e[1]]
  /\ runCtx # "done" => closed \subseteq cancelled

IInv == TypeOK /\ Bounded /\ NoneForgotten /\ Latest /\ Phases /\ Fleet /\ Hubs

-----------------------------------------------------------------------------
\* One more Reload that is over leaves room for one more generation.
LEMMA OverGrows ==
  ASSUME TypeOK, NEW r \in Reloaders, reload[r] # "over",
         reload' = [reload EXCEPT ![r] = "over"]
  PROVE  /\ Cardinality(Over) \in Nat
         /\ Cardinality(Over') = Cardinality(Over) + 1
         /\ Cardinality(Over') <= Cardinality(Reloaders)
<1>1. IsFiniteSet(Over)
  BY FS_Subset, SupervisorAssumption DEF Over
<1>2. Over' = Over \union {r} /\ r \notin Over
  BY DEF Over, TypeOK
<1>3. Cardinality(Over') = Cardinality(Over) + 1
  BY <1>1, <1>2, FS_AddElement
<1>4. Cardinality(Over') <= Cardinality(Reloaders)
  BY FS_Subset, SupervisorAssumption DEF Over
<1> QED BY <1>1, <1>3, <1>4, FS_CardinalityType

\* Reloads that move on without ending change no count.
LEMMA OverKept ==
  ASSUME TypeOK, NEW r \in Reloaders, reload[r] # "over", NEW v, v # "over",
         reload' = [reload EXCEPT ![r] = v]
  PROVE  Over' = Over
  BY DEF Over, TypeOK

\* Reloads, all and those that are over, can be counted.
LEMMA CountType == Cardinality(Over) \in Nat /\ Cardinality(Reloaders) \in Nat
  BY FS_Subset, FS_CardinalityType, SupervisorAssumption DEF Over

\* Two Reloads at work are one.
LEMMA OneAtWork ==
  ASSUME TypeOK, NEW r \in Reloaders, NEW q \in Reloaders,
         reload[r] \in {"checking", "stopping"}, reload[q] \in {"checking", "stopping"}
  PROVE  r = q
  BY DEF TypeOK

\* Before Run nothing is in the map and nobody runs.
LEMMA InitInv == Init => IInv
<1> SUFFICES ASSUME Init PROVE IInv
  OBVIOUS
<1>1. 1 \in Generations
  BY CountType DEF Generations
<1>2. TypeOK
  BY <1>1, SupervisorAssumption DEF Init, TypeOK, Fleets, Named, Entries, Alive, Absent, Nobody
<1>3. Bounded
  BY CountType DEF Init, Bounded, Absent
<1>4. NoneForgotten /\ Latest /\ Phases
  BY DEF Init, NoneForgotten, Latest, Phases, NoneLeftRunning, Alive
<1>5. ASSUME NEW k \in Keys, entries[k] # Absent
      PROVE  sameStream(<<k, entries[k]>>, applied[k])
  <2>1. entries[k] = 1 /\ applied[k] # NoConfig
    BY <1>5 DEF Init, Named, Absent
  <2>2. <<k, 1>> \in Entries
    BY <1>1 DEF Entries
  <2>3. cfg[<<k, 1>>] = applied[k]
    BY <2>2 DEF Init
  <2> QED BY <2>1, <2>3 DEF sameStream
<1>7. Fleet
  BY <1>5 DEF Init, Fleet, Named, Absent
<1>6. Hubs
  BY DEF Init, Hubs
<1> QED BY <1>2, <1>3, <1>4, <1>6, <1>7 DEF IInv

-----------------------------------------------------------------------------
\* Every step keeps the types and the bound on generations.
LEMMA TypeStep == TypeOK /\ Bounded /\ [Next]_vars => TypeOK' /\ Bounded'
<1> SUFFICES ASSUME TypeOK, Bounded, [Next]_vars PROVE TypeOK' /\ Bounded'
  OBVIOUS
<1> USE SupervisorAssumption
<1>1. CASE BeginRun \/ Shutdown \/ Fence \/ TakeLive \/ RunReturns
  BY <1>1 DEF BeginRun, Shutdown, Fence, TakeLive, RunReturns, TypeOK, Bounded, Over, Alive,
     Current, Absent, Entries, fleetVars, streamVars, reloadVars
<1>2. ASSUME NEW e \in Entries, AwaitLive(e) \/ StreamStep(e) PROVE TypeOK' /\ Bounded'
  BY <1>2 DEF AwaitLive, StreamStep, Start, LeaveIdle, LeaveRun, Leave, Break, Again, TypeOK,
     Bounded, Over, Alive, runVars, fleetVars, streamVars, reloadVars
<1>3. ASSUME NEW r \in Reloaders, NEW e \in Entries, Cancel(r, e) \/ AwaitStopped(r, e)
      PROVE  TypeOK' /\ Bounded'
  BY <1>3 DEF Cancel, AwaitStopped, TypeOK, Bounded, Over, Alive, runVars, fleetVars, streamVars, reloadVars
<1>4. ASSUME NEW r \in Reloaders, CallReload(r) PROVE TypeOK' /\ Bounded'
  <2>1. TypeOK'
    BY <1>4 DEF CallReload, TypeOK, Nobody, runVars, fleetVars, streamVars
  <2>2. CASE runCtx = "nil"
    <3>1. reload[r] # "over" /\ reload' = [reload EXCEPT ![r] = "over"]
      BY <1>4, <2>2 DEF CallReload
    <3>2. PICK n \in Nat : n = Cardinality(Over) /\ Cardinality(Over') = n + 1
      BY <3>1, OverGrows
    <3> QED BY <1>4, <2>1, <3>2 DEF CallReload, Bounded, fleetVars, TypeOK, Generations, Absent
  <2>3. CASE runCtx # "nil"
    <3>1. Over' = Over
      BY <1>4, <2>3 DEF CallReload, Over, TypeOK
    <3> QED BY <1>4, <2>1, <3>1 DEF CallReload, Bounded, fleetVars
  <2> QED BY <2>2, <2>3
<1>5. ASSUME NEW r \in Reloaders, LockReload(r) PROVE TypeOK' /\ Bounded'
  <2>1. TypeOK'
    BY <1>5 DEF LockReload, TypeOK, Nobody, runVars, fleetVars, streamVars
  <2> QED BY <1>5, <2>1, OverKept DEF LockReload, Bounded, fleetVars
<1>6. ASSUME NEW r \in Reloaders, Refuse(r) PROVE TypeOK' /\ Bounded'
  <2>1. TypeOK'
    BY <1>6 DEF Refuse, TypeOK, Nobody, runVars, fleetVars, streamVars
  <2>2. reload[r] # "over" /\ reload' = [reload EXCEPT ![r] = "over"]
    BY <1>6 DEF Refuse
  <2>3. PICK n \in Nat : n = Cardinality(Over) /\ Cardinality(Over') = n + 1
    BY <2>2, OverGrows
  <2> QED BY <1>6, <2>1, <2>3 DEF Refuse, Bounded, fleetVars, TypeOK, Generations, Absent
<1>7. ASSUME NEW r \in Reloaders, Diff(r) PROVE TypeOK' /\ Bounded'
  <2>1. TypeOK'
    BY <1>7 DEF Diff, Changed, Current, TypeOK, Nobody, Entries, Absent, runVars, streamVars
  <2> QED BY <1>7, <2>1, OverKept DEF Diff, Bounded
<1>8. ASSUME NEW r \in Reloaders, StartMissing(r) PROVE TypeOK' /\ Bounded'
  <2>1. PICK n \in Nat : n = Cardinality(Over) /\ Cardinality(Over') = n + 1 /\ n + 1 <= Cardinality(Reloaders)
    BY <1>8, OverGrows DEF StartMissing
  <2>2. \A k \in Keys : made[k] \in 0..n + 1
    BY <2>1 DEF Bounded, TypeOK, Generations, Absent
  <2>3. \A k \in Keys : made[k] + 1 \in Generations
    BY <2>1, <2>2, CountType DEF Generations
  <2>4. made' \in [Keys -> Generations \union {Absent}] /\ entries' \in [Keys -> Generations \union {Absent}]
    BY <1>8, <2>3 DEF StartMissing, TypeOK
  <2>5. cfg' \in [Entries -> Configs \union {NoConfig}]
    BY <1>8 DEF StartMissing, TypeOK, Entries, Fleets
  <2>6. TypeOK'
    BY <1>8, <2>4, <2>5 DEF StartMissing, TypeOK, Nobody, Alive, runVars
  <2>7. Bounded'
    BY <1>8, <2>1, <2>2 DEF StartMissing, Bounded
  <2> QED BY <2>6, <2>7
<1>9. CASE UNCHANGED vars
  BY <1>9 DEF vars, runVars, fleetVars, streamVars, reloadVars, TypeOK, Bounded, Over
<1> QED
  BY <1>1, <1>2, <1>3, <1>4, <1>5, <1>6, <1>7, <1>8, <1>9
  DEF Next, RunStep, ReloadStep, Terminating

-----------------------------------------------------------------------------
(* The four parts that follow are kept by every step. *)

\* What Changed takes out of the map is in the map, and what is left is not
\* changed.
LEMMA ChangedCurrent ==
  ASSUME NEW f \in Fleets
  PROVE  /\ Changed(f) \subseteq Current
         /\ \A k \in Keys : <<k, entries[k]>> \notin Changed(f) /\ entries[k] # Absent
              => sameStream(<<k, entries[k]>>, f[k])
BY DEF Changed, Current

\* No step forgets a stream that runs.
LEMMA KnownStep == IInv /\ [Next]_vars => NoneForgotten'
<1> SUFFICES ASSUME IInv, [Next]_vars PROVE NoneForgotten'
  OBVIOUS
<1> USE DEF IInv
<1>1. CASE BeginRun
  BY <1>1 DEF BeginRun, NoneForgotten, Current, TypeOK, fleetVars, reloadVars
<1>2. CASE Shutdown \/ Fence \/ TakeLive \/ RunReturns \/ UNCHANGED vars
  BY <1>2 DEF Shutdown, Fence, TakeLive, RunReturns, NoneForgotten, Current, vars, runVars,
     fleetVars, streamVars, reloadVars
<1>3. ASSUME NEW e \in Entries, AwaitLive(e) PROVE NoneForgotten'
  BY <1>3 DEF AwaitLive, NoneForgotten, Current, fleetVars, streamVars, reloadVars
<1>4. ASSUME NEW e \in Entries, StreamStep(e) PROVE NoneForgotten'
  BY <1>4 DEF StreamStep, Start, LeaveIdle, LeaveRun, Leave, Break, Again, NoneForgotten, Current,
     TypeOK, Alive, fleetVars, reloadVars
<1>5. ASSUME NEW r \in Reloaders, CallReload(r) \/ LockReload(r) \/ Refuse(r) PROVE NoneForgotten'
  BY <1>5 DEF CallReload, LockReload, Refuse, NoneForgotten, Current, TypeOK, fleetVars, streamVars
<1>6. ASSUME NEW r \in Reloaders, NEW e \in Entries, Cancel(r, e) \/ AwaitStopped(r, e)
      PROVE  NoneForgotten'
  BY <1>6 DEF Cancel, AwaitStopped, NoneForgotten, Current, TypeOK, Alive, fleetVars, streamVars,
     reloadVars
<1>7. ASSUME NEW r \in Reloaders, Diff(r) PROVE NoneForgotten'
  <2> SUFFICES ASSUME NEW e \in Entries, stream'[e] \in Alive
               PROVE  e \in Current' \/ \E q \in Reloaders : reload'[q] = "stopping" /\ e \in stop'[q]
    BY DEF NoneForgotten
  <2>1. PICK f \in Fleets :
          /\ stop' = [stop EXCEPT ![r] = Changed(f)]
          /\ entries' = [k \in Keys |-> IF <<k, entries[k]>> \in Changed(f) THEN Absent ELSE entries[k]]
    BY <1>7 DEF Diff
  <2>2. reload[r] = "checking" /\ reload'[r] = "stopping" /\ stop'[r] = Changed(f)
    BY <1>7, <2>1 DEF Diff, TypeOK
  <2>3. \A q \in Reloaders : reload[q] # "stopping"
    BY <2>2, OneAtWork
  <2>4. e \in Current
    BY <1>7, <2>3 DEF Diff, NoneForgotten, streamVars
  <2>5. CASE e \in Changed(f)
    BY <2>2, <2>5
  <2>6. CASE e \notin Changed(f)
    BY <2>1, <2>4, <2>6 DEF Current
  <2> QED BY <2>5, <2>6
<1>8. ASSUME NEW r \in Reloaders, StartMissing(r) PROVE NoneForgotten'
  <2> SUFFICES ASSUME NEW e \in Entries, stream'[e] \in Alive PROVE e \in Current'
    BY DEF NoneForgotten
  <2>0. made \in [Keys -> Nat] /\ Absent \in Nat
    BY DEF TypeOK, Generations, Absent
  <2>1. CASE stream[e] \in Alive
    <3>1. ASSUME NEW q \in Reloaders, reload[q] = "stopping" PROVE q = r
      BY <1>8, <3>1, OneAtWork DEF StartMissing
    <3>2. e \in Current
      BY <1>8, <2>1, <3>1 DEF NoneForgotten, StartMissing
    <3> QED BY <1>8, <3>2 DEF StartMissing, Current, Missing
  <2>2. CASE stream[e] \notin Alive
    <3>1. PICK k \in Missing(r) : e = <<k, made[k] + 1>>
      BY <1>8, <2>2 DEF StartMissing
    <3>2. k \in Keys /\ entries'[k] = made[k] + 1
      BY <1>8, <3>1 DEF StartMissing, Missing, Named
    <3> QED BY <2>0, <3>1, <3>2 DEF Current, Absent
  <2> QED BY <2>1, <2>2
<1> QED
  BY <1>1, <1>2, <1>3, <1>4, <1>5, <1>6, <1>7, <1>8 DEF Next, RunStep, ReloadStep, Terminating

\* The map stays what the latest Reload wants of it.
LEMMA LatestStep == IInv /\ [Next]_vars => Latest'
<1> SUFFICES ASSUME IInv, [Next]_vars PROVE Latest'
  OBVIOUS
<1> USE DEF IInv
<1>1. CASE BeginRun
  BY <1>1 DEF BeginRun, Latest, Current, TypeOK, fleetVars, reloadVars
<1>2. CASE Shutdown \/ Fence \/ TakeLive \/ RunReturns \/ UNCHANGED vars
  BY <1>2 DEF Shutdown, Fence, TakeLive, RunReturns, Latest, vars, runVars, fleetVars, streamVars,
     reloadVars
<1>3. ASSUME NEW e \in Entries, AwaitLive(e) \/ StreamStep(e) PROVE Latest'
  BY <1>3 DEF AwaitLive, StreamStep, Start, LeaveIdle, LeaveRun, Leave, Break, Again, Latest,
     TypeOK, Alive, fleetVars, streamVars, reloadVars
<1>4. ASSUME NEW r \in Reloaders, CallReload(r) \/ LockReload(r) \/ Refuse(r) PROVE Latest'
  BY <1>4 DEF CallReload, LockReload, Refuse, Latest, fleetVars, streamVars
<1>5. ASSUME NEW r \in Reloaders, NEW e \in Entries, Cancel(r, e) \/ AwaitStopped(r, e)
      PROVE  Latest'
  BY <1>5 DEF Cancel, AwaitStopped, Latest, fleetVars, streamVars
<1>6. ASSUME NEW r \in Reloaders, Diff(r) PROVE Latest'
  BY <1>6 DEF Diff, Latest, streamVars
<1>7. ASSUME NEW r \in Reloaders, StartMissing(r) PROVE Latest'
  <2>1. ASSUME NEW e \in Entries, stream'[e] \in Alive PROVE e[2] = made'[e[1]]
    <3>1. e = <<e[1], e[2]>> /\ e[1] \in Keys
      BY DEF Entries
    <3>2. CASE stream[e] \in Alive
      <4>1. e[2] = made[e[1]]
        BY <3>2 DEF Latest
      <4>2. ASSUME NEW q \in Reloaders, reload[q] = "stopping" PROVE q = r
        BY <1>7, <4>2, OneAtWork DEF StartMissing
      <4>3. e \in Current
        BY <1>7, <3>2, <4>2 DEF NoneForgotten, StartMissing
      <4>4. e[1] \notin Missing(r)
        BY <4>3 DEF Current, Missing
      <4> QED BY <1>7, <3>1, <4>1, <4>4 DEF StartMissing
    <3>3. CASE stream[e] \notin Alive
      <4>1. PICK k \in Missing(r) : e = <<k, made[k] + 1>>
        BY <1>7, <2>1, <3>3 DEF StartMissing
      <4> QED BY <1>7, <3>1, <4>1 DEF StartMissing
    <3> QED BY <3>2, <3>3
  <2>2. ASSUME NEW k \in Keys, entries'[k] # Absent PROVE entries'[k] = made'[k]
    BY <1>7, <2>2 DEF StartMissing, Latest
  <2> QED BY <2>1, <2>2 DEF Latest
<1> QED
  BY <1>1, <1>2, <1>3, <1>4, <1>5, <1>6, <1>7 DEF Next, RunStep, ReloadStep, Terminating

\* A Reload at work still holds what it read, phase by phase.
LEMMA PhasesStep == IInv /\ [Next]_vars => Phases'
<1> SUFFICES ASSUME IInv, [Next]_vars PROVE Phases'
  OBVIOUS
<1> USE DEF IInv
<1>1. CASE BeginRun \/ Shutdown
  BY <1>1 DEF BeginRun, Shutdown, Phases, NoneLeftRunning, TypeOK, fleetVars, streamVars, reloadVars
<1>2. CASE Fence
  BY <1>2, SupervisorAssumption DEF Fence, Phases, NoneLeftRunning, TypeOK, fleetVars, streamVars,
     reloadVars
<1>3. CASE TakeLive
  BY <1>3 DEF TakeLive, Phases, NoneLeftRunning, NoneForgotten, fleetVars, streamVars, reloadVars
<1>4. CASE RunReturns
  BY <1>4 DEF RunReturns, Phases, NoneLeftRunning, fleetVars, streamVars, reloadVars
<1>5. ASSUME NEW e \in Entries, AwaitLive(e) PROVE Phases'
  BY <1>5 DEF AwaitLive, Phases, NoneLeftRunning, Alive, fleetVars, streamVars, reloadVars
<1>6. ASSUME NEW e \in Entries, StreamStep(e) PROVE Phases'
  BY <1>6 DEF StreamStep, Start, LeaveIdle, LeaveRun, Leave, Break, Again, Phases, NoneLeftRunning,
     TypeOK, Alive, runVars, reloadVars
<1>7. ASSUME NEW r \in Reloaders, CallReload(r) \/ LockReload(r) \/ Refuse(r) \/ Diff(r) PROVE Phases'
  BY <1>7 DEF CallReload, LockReload, Refuse, Diff, Phases, NoneLeftRunning, TypeOK, runVars, streamVars
<1>8. ASSUME NEW r \in Reloaders, NEW e \in Entries, Cancel(r, e) \/ AwaitStopped(r, e)
      PROVE  Phases'
  BY <1>8 DEF Cancel, AwaitStopped, Phases, NoneLeftRunning, runVars, streamVars, reloadVars
<1>9. ASSUME NEW r \in Reloaders, StartMissing(r) PROVE Phases'
  <2>1. runner = "serving" /\ runCtx # "nil" /\ reload[r] = "stopping"
    BY <1>9 DEF StartMissing, Phases, TypeOK
  <2> QED BY <1>9, <2>1 DEF StartMissing, Phases, NoneLeftRunning, TypeOK, runVars
<1>10. CASE UNCHANGED vars
  BY <1>10 DEF Phases, NoneLeftRunning, vars, runVars, streamVars, reloadVars
<1> QED
  BY <1>1, <1>2, <1>3, <1>4, <1>5, <1>6, <1>7, <1>8, <1>9, <1>10
  DEF Next, RunStep, ReloadStep, Terminating

\* Generations that run stay those of the map or on their way out.
LEMMA FleetStep == IInv /\ [Next]_vars => Fleet'
<1> SUFFICES ASSUME IInv, [Next]_vars PROVE Fleet'
  OBVIOUS
<1> USE DEF IInv
<1>1. CASE BeginRun \/ Shutdown \/ Fence \/ TakeLive \/ RunReturns \/ UNCHANGED vars
  BY <1>1 DEF BeginRun, Shutdown, Fence, TakeLive, RunReturns, Fleet, sameStream, vars, fleetVars,
     reloadVars
<1>2. ASSUME NEW e \in Entries, AwaitLive(e) \/ StreamStep(e) PROVE Fleet'
  BY <1>2 DEF AwaitLive, StreamStep, Start, LeaveIdle, LeaveRun, Leave, Break, Again, Fleet,
     sameStream, fleetVars, reloadVars
<1>3. ASSUME NEW r \in Reloaders, CallReload(r) \/ LockReload(r) \/ Refuse(r) PROVE Fleet'
  BY <1>3 DEF CallReload, LockReload, Refuse, Fleet, sameStream, TypeOK, fleetVars
<1>4. ASSUME NEW r \in Reloaders, NEW e \in Entries, Cancel(r, e) \/ AwaitStopped(r, e)
      PROVE  Fleet'
  BY <1>4 DEF Cancel, AwaitStopped, Fleet, sameStream, fleetVars, reloadVars
<1>5. ASSUME NEW r \in Reloaders, Diff(r) PROVE Fleet'
  <2>1. PICK f \in Fleets :
          /\ want' = [want EXCEPT ![r] = f] /\ applied' = f
          /\ entries' = [k \in Keys |-> IF <<k, entries[k]>> \in Changed(f) THEN Absent ELSE entries[k]]
    BY <1>5 DEF Diff
  <2>2. \A k \in Keys : entries'[k] # Absent => entries'[k] = entries[k] /\ <<k, entries[k]>> \notin Changed(f)
    BY <2>1
  <2>3. \A k \in Keys : entries'[k] # Absent => sameStream(<<k, entries[k]>>, f[k])
    BY <2>2, ChangedCurrent
  <2>4. reload'[r] = "stopping" /\ want'[r] = applied'
    BY <1>5, <2>1 DEF Diff, TypeOK
  <2>5. \A q \in Reloaders : reload'[q] = "stopping" => q = r
    BY <1>5, OneAtWork DEF Diff, TypeOK
  <2>6. \A k \in Keys : entries'[k] # Absent => sameStream(<<k, entries[k]>>, applied[k])'
    BY <1>5, <2>1, <2>2, <2>3 DEF Diff, sameStream
  <2> QED BY <2>4, <2>5, <2>6 DEF Fleet
<1>6. ASSUME NEW r \in Reloaders, StartMissing(r) PROVE Fleet'
  <2>0. made \in [Keys -> Nat] /\ want[r] = applied /\ applied' = applied /\ want' = want
    BY <1>6 DEF StartMissing, Fleet, TypeOK, Generations, Absent
  <2>1. ASSUME NEW k \in Keys, entries'[k] # Absent PROVE sameStream(<<k, entries[k]>>, applied[k])'
    <3>1. CASE k \in Missing(r)
      <4>1. made[k] + 1 \in Generations
        <5>1. PICK n \in Nat : n = Cardinality(Over) /\ Cardinality(Over') = n + 1 /\ n + 1 <= Cardinality(Reloaders)
          BY <1>6, OverGrows DEF StartMissing
        <5> QED BY <2>0, <5>1, CountType DEF Bounded, Generations
      <4>2. <<k, made[k] + 1>> \in Entries
        BY <4>1 DEF Entries
      <4>3. cfg'[<<k, made[k] + 1>>] = applied[k] /\ entries'[k] = made[k] + 1
        BY <1>6, <2>0, <3>1, <4>2 DEF StartMissing
      <4>4. applied[k] # NoConfig
        BY <2>0, <3>1 DEF Missing, Named
      <4> QED BY <2>0, <4>3, <4>4 DEF sameStream
    <3>2. CASE k \notin Missing(r)
      <4>1. entries'[k] = entries[k] /\ entries[k] \in Generations
        BY <1>6, <2>1, <3>2 DEF StartMissing, TypeOK
      <4>2. <<k, entries[k]>> \in Entries
        BY <4>1 DEF Entries
      <4>3. cfg'[<<k, entries[k]>>] = cfg[<<k, entries[k]>>]
        BY <1>6, <3>2, <4>2 DEF StartMissing
      <4>4. entries[k] # Absent
        BY <2>1, <4>1
      <4> QED BY <2>0, <4>1, <4>3, <4>4 DEF Fleet, sameStream
    <3> QED BY <3>1, <3>2
  <2>2. ASSUME NEW q \in Reloaders, reload'[q] = "stopping" PROVE want'[q] = applied'
    BY <1>6, <2>0, <2>2 DEF StartMissing, Fleet, TypeOK
  <2>3. ASSUME NEW k \in Keys, entries'[k] = Absent PROVE applied'[k] = NoConfig
    <3>1. k \notin Missing(r)
      BY <1>6, <2>0, <2>3 DEF StartMissing, Absent
    <3> QED BY <1>6, <2>0, <2>3, <3>1 DEF StartMissing, Missing, Named
  <2> QED BY <2>1, <2>2, <2>3 DEF Fleet
<1> QED
  BY <1>1, <1>2, <1>3, <1>4, <1>5, <1>6 DEF Next, RunStep, ReloadStep, Terminating

\* The generation that may serve a hub stays the only one.
LEMMA HubsStep == IInv /\ [Next]_vars => Hubs'
<1> SUFFICES ASSUME IInv, [Next]_vars PROVE Hubs'
  OBVIOUS
<1> USE DEF IInv
<1>1. CASE BeginRun \/ Shutdown \/ Fence \/ TakeLive \/ RunReturns \/ UNCHANGED vars
  BY <1>1 DEF BeginRun, Shutdown, Fence, TakeLive, RunReturns, Hubs, Phases, Current, vars, runVars,
     fleetVars, streamVars, reloadVars
<1>2. ASSUME NEW e \in Entries, AwaitLive(e) \/ StreamStep(e) PROVE Hubs'
  BY <1>2 DEF AwaitLive, StreamStep, Start, LeaveIdle, LeaveRun, Leave, Break, Again, Ended, Hubs,
     Current, runVars, fleetVars, streamVars, reloadVars
<1>3. ASSUME NEW r \in Reloaders, CallReload(r) \/ LockReload(r) \/ Refuse(r) PROVE Hubs'
  BY <1>3 DEF CallReload, LockReload, Refuse, Hubs, Current, TypeOK, runVars, fleetVars, streamVars
<1>4. ASSUME NEW r \in Reloaders, NEW e \in Entries, Cancel(r, e) PROVE Hubs'
  BY <1>4 DEF Cancel, Hubs, Current, runVars, fleetVars, reloadVars
<1>5. ASSUME NEW r \in Reloaders, NEW e \in Entries, AwaitStopped(r, e) PROVE Hubs'
  BY <1>5 DEF AwaitStopped, Hubs, Current, TypeOK, runVars, fleetVars, streamVars
<1>6. ASSUME NEW r \in Reloaders, Diff(r) PROVE Hubs'
  <2>1. PICK f \in Fleets :
          /\ stop' = [stop EXCEPT ![r] = Changed(f)]
          /\ entries' = [k \in Keys |-> IF <<k, entries[k]>> \in Changed(f) THEN Absent ELSE entries[k]]
    BY <1>6 DEF Diff
  <2>2. \A q \in Reloaders : reload'[q] = "stopping" => q = r
    BY <1>6, OneAtWork DEF Diff, TypeOK
  <2>3. made' = made /\ cancelled' = cancelled /\ closed' = closed /\ runCtx' = runCtx /\ stop'[r] = Changed(f)
    BY <1>6, <2>1 DEF Diff, TypeOK, streamVars, runVars
  <2>4. ASSUME NEW e \in Changed(f) PROVE entries'[e[1]] = Absent /\ e[2] <= made[e[1]]
    <3>1. e[1] \in Keys /\ e = <<e[1], entries[e[1]]>> /\ entries[e[1]] # Absent
      BY DEF Changed, Current
    <3> QED BY <2>1, <3>1 DEF Latest, TypeOK, Generations, Absent
  <2>5. Current' \subseteq Current
    BY <2>1 DEF Current
  <2> QED BY <2>2, <2>3, <2>4, <2>5 DEF Hubs
<1>7. ASSUME NEW r \in Reloaders, StartMissing(r) PROVE Hubs'
  <2>0. made \in [Keys -> Nat] /\ cancelled' = cancelled /\ closed' = closed /\ runCtx' = runCtx
    BY <1>7 DEF StartMissing, TypeOK, Generations, Absent, runVars
  <2>1. \A q \in Reloaders : reload'[q] # "stopping"
    BY <1>7, OneAtWork DEF StartMissing, TypeOK
  <2>2. ASSUME NEW e \in cancelled PROVE e \notin Current' /\ e[2] <= made'[e[1]]
    <3>1. e \in Entries /\ e[1] \in Keys /\ e[2] \in Nat /\ e[2] <= made[e[1]] /\ e \notin Current
      BY DEF Hubs, TypeOK, Entries, Generations
    <3>2. e[2] <= made'[e[1]]
      BY <1>7, <2>0, <3>1 DEF StartMissing
    <3>3. ASSUME e \in Current' PROVE FALSE
      <4>1. PICK k \in Keys : e = <<k, entries'[k]>> /\ entries'[k] # Absent
        BY <3>3 DEF Current
      <4>2. CASE k \in Missing(r)
        BY <1>7, <2>0, <3>1, <4>1, <4>2 DEF StartMissing
      <4>3. CASE k \notin Missing(r)
        BY <1>7, <3>1, <4>1, <4>3 DEF StartMissing, Current
      <4> QED BY <4>2, <4>3
    <3> QED BY <3>2, <3>3
  <2> QED BY <2>0, <2>1, <2>2 DEF Hubs
<1> QED
  BY <1>1, <1>2, <1>3, <1>4, <1>5, <1>6, <1>7 DEF Next, RunStep, ReloadStep, Terminating

\* The invariant holds of every reachable state.
LEMMA Invariance == Spec => []IInv
<1>1. IInv /\ [Next]_vars => IInv'
  BY TypeStep, KnownStep, LatestStep, PhasesStep, FleetStep, HubsStep DEF IInv
<1> QED BY InitInv, <1>1, PTL DEF Spec

-----------------------------------------------------------------------------
\* Every variable has its type, and reloadMu is held by the one Reload that is
\* at work, whoever calls and whatever the calls are given.
THEOREM TypeCorrect == Spec => []TypeOK
<1>1. IInv => TypeOK
  BY DEF IInv
<1> QED BY Invariance, <1>1, PTL

\* "exactly one call to s.run in flight for this stream at any time": two runs
\* of a key would both be the entry made last for it.
THEOREM OneRunCorrect == Spec => []OneRunPerStream
<1>1. IInv => OneRunPerStream
  <2> SUFFICES ASSUME IInv, NEW d \in Entries, NEW e \in Entries,
                      stream[d] = "running", stream[e] = "running", d[1] = e[1]
               PROVE  d = e
    BY DEF OneRunPerStream
  <2>1. d = <<d[1], d[2]>> /\ e = <<e[1], e[2]>>
    BY DEF Entries
  <2>2. d[2] = made[d[1]] /\ e[2] = made[e[1]]
    BY DEF IInv, Latest, Alive
  <2> QED BY <2>1, <2>2
<1> QED BY Invariance, <1>1, PTL

\* No goroutine is forgotten, and none is left when Run returns.
THEOREM NoneLeftRunningCorrect == Spec => [](NoneForgotten /\ NoneLeftRunning)
<1>1. IInv => NoneForgotten /\ NoneLeftRunning
  BY DEF IInv, Phases
<1> QED BY Invariance, <1>1, PTL

\* The fleet is the one of the last configuration applied.
THEOREM FleetCorrect == Spec => []FleetMatches
<1>1. IInv => FleetMatches
  BY DEF IInv, Fleet, FleetMatches, Reloading
<1> QED BY Invariance, <1>1, PTL

\* The hub of a stream that can be looked up is open: only what was taken out
\* of the map, or the end of the process, closes one.
THEOREM ServedHubCorrect == Spec => []ServedHubOpen
<1>1. IInv => ServedHubOpen
  BY DEF IInv, Hubs, ServedHubOpen
<1> QED BY Invariance, <1>1, PTL
=============================================================================
