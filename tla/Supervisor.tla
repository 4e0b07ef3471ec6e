------------------------------ MODULE Supervisor ------------------------------
(***************************************************************************)
(* internal/supervisor/supervisor.go: one goroutine per configured stream, *)
(* started by Run and by Reload, which stops what changed, waits for it and *)
(* starts its replacement.  Run returns when its context has ended and     *)
(* every stream is closed.                                                 *)
(*                                                                         *)
(* s.mu is held for one step at a time, so each critical section is one    *)
(* action; reloadMu is held across several.  An entry is named by its key  *)
(* and the number of entries made for that key before it.  s.hubs changes  *)
(* with s.entries and is not modelled apart from it.  Battery cameras      *)
(* (runOnDemand) have a module of their own.  Waits for a time may end at  *)
(* any moment.                                                             *)
(***************************************************************************)
EXTENDS Naturals, FiniteSets

CONSTANTS
  Keys,        \* <camera>/<stream>
  Conns,       \* what sameStream compares: address, password, ...
  Settings,    \* what it does not: HoldPicture, Rotate
  Reloaders,   \* callers of Reload, each calling it once
  NoConfig     \* a key the configuration does not name

Configs == [conn : Conns, setting : Settings]

Nobody == "nobody"

ASSUME SupervisorAssumption ==
  IsFiniteSet(Reloaders) /\ NoConfig \notin Configs /\ Nobody \notin Reloaders

Fleets == [Keys -> Configs \union {NoConfig}]
Generations == 1..Cardinality(Reloaders) + 1
Entries == Keys \X Generations
Absent == 0

VARIABLES
  runCtx,      \* s.runCtx: not assigned yet, live or done
  runner,      \* where Run is
  live,        \* Run: the entries it still waits for
  entries,     \* s.entries: the generation of each key, or Absent
  made,        \* the entries made for each key
  cfg,         \* e.cfg, of each entry
  stream,      \* the goroutine of each entry
  cancelled,   \* entries whose cancel has been called
  closed,      \* entries whose hub is closed
  reload,      \* where each Reload is
  reloadMu,    \* who holds it
  want,        \* Reload: the configuration it was given
  stop,        \* Reload: the entries to stop
  applied      \* the configuration applied last (history)

runVars    == <<runCtx, runner, live>>
fleetVars  == <<entries, made, cfg>>
streamVars == <<stream, cancelled, closed>>
reloadVars == <<reload, reloadMu, want, stop, applied>>
vars == <<runVars, fleetVars, streamVars, reloadVars>>

Named(f) == {k \in Keys : f[k] # NoConfig}
Current == {<<k, entries[k]>> : k \in {q \in Keys : entries[q] # Absent}}
Alive == {"starting", "running", "waiting"}

\* New: an entry for every stream of the first configuration.
Init ==
  /\ applied \in Fleets
  /\ entries = [k \in Keys |-> IF k \in Named(applied) THEN 1 ELSE Absent]
  /\ made = entries
  /\ cfg = [e \in Entries |-> IF e[2] = 1 THEN applied[e[1]] ELSE NoConfig]
  /\ runCtx = "nil" /\ runner = "idle" /\ live = {}
  /\ stream = [e \in Entries |-> "none"] /\ cancelled = {} /\ closed = {}
  /\ reload = [r \in Reloaders |-> "idle"] /\ reloadMu = Nobody
  /\ want = [r \in Reloaders |-> applied] /\ stop = [r \in Reloaders |-> {}]

-----------------------------------------------------------------------------
(* Run *)

BeginRun ==
  /\ runner = "idle"
  /\ runner' = "serving"
  /\ runCtx' = "live"
  /\ stream' = [e \in Entries |-> IF e \in Current THEN "starting" ELSE stream[e]]
  /\ UNCHANGED <<live, fleetVars, cancelled, closed, reloadVars>>

\* The process is told to stop.
Shutdown ==
  /\ runCtx = "live"
  /\ runCtx' = "done"
  /\ UNCHANGED <<runner, live, fleetVars, streamVars, reloadVars>>

\* Mutant: no wait for a Reload in flight.
FenceOpen ==
  /\ runner = "serving" /\ runCtx = "done"
  /\ runner' = "fenced"
  /\ UNCHANGED <<runCtx, live, fleetVars, streamVars, reloadVars>>

\* Takes reloadMu and gives it back.
Fence ==
  /\ runner = "serving" /\ runCtx = "done" /\ reloadMu = Nobody
  /\ runner' = "fenced"
  /\ UNCHANGED <<runCtx, live, fleetVars, streamVars, reloadVars>>

TakeLive ==
  /\ runner = "fenced"
  /\ runner' = "closing"
  /\ live' = Current
  /\ UNCHANGED <<runCtx, fleetVars, streamVars, reloadVars>>

AwaitLive(e) ==
  /\ runner = "closing" /\ e \in live /\ stream[e] = "ended"
  /\ live' = live \ {e}
  /\ UNCHANGED <<runCtx, runner, fleetVars, streamVars, reloadVars>>

RunReturns ==
  /\ runner = "closing" /\ live = {}
  /\ runner' = "returned"
  /\ UNCHANGED <<runCtx, live, fleetVars, streamVars, reloadVars>>

-----------------------------------------------------------------------------
(* runStream *)

\* Mutant: a context that is not derived from Run's.
EndedOwn(e) == e \in cancelled
\* ctx.Err() # nil
Ended(e) == e \in cancelled \/ runCtx = "done"

\* The hub is closed as the goroutine returns.
Leave(e) ==
  /\ Ended(e)
  /\ stream' = [stream EXCEPT ![e] = "ended"]
  /\ closed' = closed \union {e}
  /\ UNCHANGED <<runVars, fleetVars, cancelled, reloadVars>>

Start(e) ==
  /\ stream[e] = "starting" /\ ~Ended(e)
  /\ stream' = [stream EXCEPT ![e] = "running"]
  /\ UNCHANGED <<runVars, fleetVars, cancelled, closed, reloadVars>>

\* Already ended before it was scheduled, or while it waited.
LeaveIdle(e) == stream[e] \in {"starting", "waiting"} /\ Leave(e)

\* s.run returns, and the camera's session with it, because its context ended.
LeaveRun(e) == stream[e] = "running" /\ Leave(e)

\* s.run returns for a reason of its own: privacy mode or an error.  Both
\* waits, privacyRetry and the backoff, end at any moment.
Break(e) ==
  /\ stream[e] = "running" /\ ~Ended(e)
  /\ stream' = [stream EXCEPT ![e] = "waiting"]
  /\ UNCHANGED <<runVars, fleetVars, cancelled, closed, reloadVars>>

\* The select may take the timer with the context ended too: the loop then
\* finds it so.
Again(e) ==
  /\ stream[e] = "waiting"
  /\ stream' = [stream EXCEPT ![e] = "starting"]
  /\ UNCHANGED <<runVars, fleetVars, cancelled, closed, reloadVars>>

-----------------------------------------------------------------------------
(* Reload *)

\* started is set with runCtx, in one critical section.
CallReload(r) ==
  /\ reload[r] = "idle"
  /\ reload' = [reload EXCEPT ![r] = IF runCtx = "nil" THEN "over" ELSE "called"]
  /\ UNCHANGED <<runVars, fleetVars, streamVars, reloadMu, want, stop, applied>>

\* Mutant: whole Reload calls are not serialized.
LockReloadNot(r) ==
  /\ reload[r] = "called"
  /\ reload' = [reload EXCEPT ![r] = "checking"]
  /\ reloadMu' = r
  /\ UNCHANGED <<runVars, fleetVars, streamVars, want, stop, applied>>

LockReload(r) ==
  /\ reload[r] = "called" /\ reloadMu = Nobody
  /\ reload' = [reload EXCEPT ![r] = "checking"]
  /\ reloadMu' = r
  /\ UNCHANGED <<runVars, fleetVars, streamVars, want, stop, applied>>

\* The configuration is not valid, or the process is shutting down.
Refuse(r) ==
  /\ reload[r] = "checking"
  /\ reload' = [reload EXCEPT ![r] = "over"]
  /\ reloadMu' = Nobody
  /\ UNCHANGED <<runVars, fleetVars, streamVars, want, stop, applied>>

sameStream(e, c) == c # NoConfig /\ cfg[e].conn = c.conn

Changed(f) == {e \in Current : ~sameStream(e, f[e[1]])}

\* What changed is taken out of s.entries.
Diff(r) ==
  /\ reload[r] = "checking" /\ runCtx = "live"
  /\ \E f \in Fleets :
       /\ want' = [want EXCEPT ![r] = f]
       /\ applied' = f
       /\ stop' = [stop EXCEPT ![r] = Changed(f)]
       /\ entries' = [k \in Keys |-> IF <<k, entries[k]>> \in Changed(f) THEN Absent ELSE entries[k]]
  /\ reload' = [reload EXCEPT ![r] = "stopping"]
  /\ UNCHANGED <<runVars, made, cfg, streamVars, reloadMu>>

\* stopEntry, one entry after the other.
Cancel(r, e) ==
  /\ reload[r] = "stopping" /\ e \in stop[r] \ cancelled /\ stop[r] \cap cancelled = {}
  /\ cancelled' = cancelled \union {e}
  /\ UNCHANGED <<runVars, fleetVars, stream, closed, reloadVars>>

\* Mutant: the replacement does not wait for the session to be released.
AwaitNot(r, e) ==
  /\ reload[r] = "stopping" /\ e \in stop[r] \cap cancelled
  /\ stop' = [stop EXCEPT ![r] = @ \ {e}]
  /\ UNCHANGED <<runVars, fleetVars, streamVars, reload, reloadMu, want, applied>>

AwaitStopped(r, e) ==
  /\ reload[r] = "stopping" /\ e \in stop[r] \cap cancelled /\ stream[e] = "ended"
  /\ stop' = [stop EXCEPT ![r] = @ \ {e}]
  /\ UNCHANGED <<runVars, fleetVars, streamVars, reload, reloadMu, want, applied>>

\* Keys wanted and not running when Reload looked.
Missing(r) == {k \in Named(want[r]) : entries[k] = Absent}

StartMissing(r) ==
  /\ reload[r] = "stopping" /\ stop[r] = {}
  /\ LET new == {<<k, made[k] + 1>> : k \in Missing(r)} IN
       /\ made' = [k \in Keys |-> IF k \in Missing(r) THEN made[k] + 1 ELSE made[k]]
       /\ entries' = [k \in Keys |-> IF k \in Missing(r) THEN made[k] + 1 ELSE entries[k]]
       /\ cfg' = [e \in Entries |-> IF e \in new THEN want[r][e[1]] ELSE cfg[e]]
       /\ stream' = [e \in Entries |-> IF e \in new THEN "starting" ELSE stream[e]]
  /\ reload' = [reload EXCEPT ![r] = "over"]
  /\ reloadMu' = Nobody
  /\ UNCHANGED <<runVars, cancelled, closed, want, stop, applied>>

-----------------------------------------------------------------------------
RunStep ==
  \/ BeginRun \/ Fence \/ TakeLive \/ RunReturns
  \/ \E e \in Entries : AwaitLive(e)

StreamStep(e) == Start(e) \/ LeaveIdle(e) \/ LeaveRun(e) \/ Break(e) \/ Again(e)

ReloadStep(r) ==
  \/ LockReload(r) \/ Refuse(r) \/ Diff(r) \/ StartMissing(r)
  \/ \E e \in Entries : Cancel(r, e) \/ AwaitStopped(r, e)

Terminating == runner = "returned" /\ UNCHANGED vars

Next ==
  \/ RunStep
  \/ Shutdown
  \/ \E e \in Entries : StreamStep(e)
  \/ \E r \in Reloaders : CallReload(r) \/ ReloadStep(r)
  \/ Terminating

Spec == Init /\ [][Next]_vars

\* Goroutines run; a run whose context has ended returns, as stream.Run does
\* once it has sent its stop.
Fairness ==
  /\ WF_vars(RunStep)
  /\ \A e \in Entries : WF_vars(LeaveIdle(e)) /\ WF_vars(LeaveRun(e))
  /\ \A r \in Reloaders : WF_vars(ReloadStep(r))

LiveSpec == Spec /\ Fairness
-----------------------------------------------------------------------------
TypeOK ==
  /\ runCtx \in {"nil", "live", "done"}
  /\ runner \in {"idle", "serving", "fenced", "closing", "returned"}
  /\ live \subseteq Entries
  /\ entries \in [Keys -> Generations \union {Absent}]
  /\ made \in [Keys -> Generations \union {Absent}]
  /\ cfg \in [Entries -> Configs \union {NoConfig}]
  /\ stream \in [Entries -> Alive \union {"none", "ended"}]
  /\ cancelled \subseteq Entries /\ closed \subseteq Entries
  /\ reload \in [Reloaders -> {"idle", "called", "checking", "stopping", "over"}]
  /\ reloadMu \in Reloaders \union {Nobody}
  /\ \A r \in Reloaders : reloadMu = r <=> reload[r] \in {"checking", "stopping"}
  /\ want \in [Reloaders -> Fleets] /\ applied \in Fleets
  /\ stop \in [Reloaders -> SUBSET Entries]

\* "There is exactly one call to s.run in flight for this stream at any time":
\* not two, across every replacement of the stream by Reload.
OneRunPerStream ==
  \A d, e \in Entries : stream[d] = "running" /\ stream[e] = "running" /\ d[1] = e[1] => d = e

\* Every goroutine is known to whoever must wait for it: it is in s.entries,
\* or a Reload is stopping it.
NoneForgotten ==
  \A e \in Entries : stream[e] \in Alive =>
    e \in Current \/ \E r \in Reloaders : reload[r] = "stopping" /\ e \in stop[r]

\* "Run must not return before every stream-stop message has gone out",
\* whatever Reload was doing when the process was told to stop.
NoneLeftRunning ==
  runner = "returned" => \A e \in Entries : stream[e] \notin Alive

\* Two Reloads do not leave the fleet "matching neither config": when none is
\* at work, the streams that run are those of the configuration applied last.
Reloading == \E r \in Reloaders : reload[r] \in {"checking", "stopping"}
FleetMatches ==
  ~Reloading => \A k \in Keys :
    IF entries[k] = Absent THEN applied[k] = NoConfig
    ELSE sameStream(<<k, entries[k]>>, applied[k])

\* A hub that can be looked up still gets frames: it is not closed before the
\* process stops.
ServedHubOpen ==
  runCtx # "done" => Current \cap closed = {}

\* Run returns once it has been told to.
RunEnds == runCtx = "done" ~> runner = "returned"

\* "So a config change takes effect without a restart": what CameraConfig
\* says is what the configuration applied last says.
CameraConfigCurrent ==
  ~Reloading => \A k \in Keys :
    entries[k] # Absent => cfg[<<k, entries[k]>>] = applied[k]
=============================================================================
