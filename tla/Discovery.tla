------------------------------ MODULE Discovery ------------------------------
(***************************************************************************)
(* Finding cameras (control/discover.go, probe.go) beside the pages that   *)
(* dial the ones already there (camprobe.go): scans of the network, which  *)
(* probe every new address that answers, probes that a person asks for one *)
(* at a time, and the fleet that changes meanwhile.                        *)
(*                                                                         *)
(* A camera allows one session per stream, and a probe opens up to four    *)
(* connections to the address it is given.                                 *)
(***************************************************************************)
EXTENDS Integers, Sequences, FiniteSets

CONSTANTS
    Hosts,       \* addresses, NormalizeAddr done
    Recorders,   \* those of recorders
    Scans,       \* requests for a scan of the network
    Asks,        \* requests for a probe of one address
    Pages,       \* pages that dial a configured camera
    AtOnce,      \* sweepConcurrency
    MaxEdits     \* bound: changes of the fleet

VARIABLES
    fleet,      \* the addresses in the configuration
    recorders,  \* Server.recorders: what an address was when it was last dialled
    silent,     \* Server.silentUntil: addresses that timed out moments ago
    sweeping,   \* Server.sweeping
    inFlight,   \* Server.inFlightProbes
    scan,       \* the scans
    probe,      \* the probes each scan and each request runs
    page,       \* the pages
    changes     \* changes of the fleet

findVars == <<fleet, recorders, silent, sweeping, inFlight, scan, probe, page, changes>>

Askers == Scans \union Asks
NoScan == [at |-> "none", known |-> {}, todo |-> {}, found |-> {}, gone |-> FALSE]

Init ==
    /\ fleet \in SUBSET Hosts
    /\ recorders = [h \in Hosts |-> "unknown"]
    /\ silent = {}
    /\ sweeping = FALSE
    /\ inFlight = {}
    /\ scan = [s \in Scans |-> NoScan]
    /\ probe = [a \in Askers |-> [h \in Hosts |-> "none"]]
    /\ page = [p \in Pages |-> {}]
    /\ changes = 0

At(a, h, where) == probe[a][h] = where
Moves(a, h, where) == probe' = [probe EXCEPT ![a][h] = where]
Running(a) == {h \in Hosts : probe[a][h] \notin {"none", "told"}}

-----------------------------------------------------------------------------
(* probeGuarded and probeCamera, of one address. *)

\* alreadyStreaming: a camera in the configuration is not dialled, unless its
\* address is known to be a recorder's.
Check(a, h) ==
    /\ At(a, h, "check")
    /\ Moves(a, h, IF h \in fleet /\ recorders[h] # "yes" THEN "told" ELSE "begin")
    /\ UNCHANGED <<fleet, recorders, silent, sweeping, inFlight, scan, page, changes>>

\* Mutant: the claim is looked at, and taken whatever it is.
claimsAnyway(h) == TRUE

Unclaimed(h) == h \notin inFlight

\* beginProbe.
Begin(a, h) ==
    /\ At(a, h, "begin")
    /\ IF Unclaimed(h)
       THEN inFlight' = inFlight \union {h} /\ Moves(a, h, "dial")
       ELSE UNCHANGED inFlight /\ Moves(a, h, "told")
    /\ UNCHANGED <<fleet, recorders, silent, sweeping, scan, page, changes>>

\* The first connection, or none within the time.
Connect(a, h) ==
    /\ At(a, h, "dial")
    /\ \E where \in {"open", "over"} : Moves(a, h, where)
    /\ UNCHANGED <<fleet, recorders, silent, sweeping, inFlight, scan, page, changes>>

\* A recorder lists its channels and opens no video; a camera, or a recorder
\* that does not answer CGI, has each stream opened, one after another, on a
\* connection of its own beside the first.
Look(a, h) ==
    /\ At(a, h, "open")
    /\ \/ h \in Recorders /\ Moves(a, h, "over")
       \/ Moves(a, h, "streams")
    /\ UNCHANGED <<fleet, recorders, silent, sweeping, inFlight, scan, page, changes>>

Looked(a, h) ==
    /\ At(a, h, "streams")
    /\ Moves(a, h, "over")
    /\ UNCHANGED <<fleet, recorders, silent, sweeping, inFlight, scan, page, changes>>

\* endProbe, with its connections closed.
End(a, h) ==
    /\ At(a, h, "over")
    /\ inFlight' = inFlight \ {h}
    /\ Moves(a, h, "told")
    /\ UNCHANGED <<fleet, recorders, silent, sweeping, scan, page, changes>>

\* serveProbe and serveIdentify.
Ask(a) ==
    /\ Running(a) = {}
    /\ \E h \in Hosts : probe' = [probe EXCEPT ![a] = [k \in Hosts |-> IF k = h THEN "check" ELSE "none"]]
    /\ UNCHANGED <<fleet, recorders, silent, sweeping, inFlight, scan, page, changes>>

-----------------------------------------------------------------------------
(* serveDiscover and discover. *)

Goes(s, next) == scan' = [scan EXCEPT ![s] = next]

\* beginSweep; discover reads which addresses are configured before it sweeps.
Scan(s) ==
    /\ scan[s].at = "none" /\ ~sweeping
    /\ sweeping' = TRUE
    /\ Goes(s, [NoScan EXCEPT !.at = "sweep", !.known = fleet])
    /\ probe' = [probe EXCEPT ![s] = [h \in Hosts |-> "none"]]
    /\ UNCHANGED <<fleet, recorders, silent, inFlight, page, changes>>

\* sweepRange: the addresses that took a connection, fewer if the time is up.
Sweep(s) ==
    /\ scan[s].at = "sweep"
    /\ \E live \in SUBSET Hosts : Goes(s, [scan[s] EXCEPT !.at = "probe", !.todo = live \ scan[s].known])
    /\ UNCHANGED <<fleet, recorders, silent, sweeping, inFlight, probe, page, changes>>

Launch(s) ==
    /\ scan[s].at = "probe" /\ Cardinality(Running(s)) < AtOnce
    /\ \E h \in scan[s].todo :
          /\ Goes(s, [scan[s] EXCEPT !.todo = @ \ {h}, !.found = @ \union {h}])
          /\ Moves(s, h, "check")
    /\ UNCHANGED <<fleet, recorders, silent, sweeping, inFlight, page, changes>>

\* The person goes away, or the time of the scan is up.
Cancel(s) ==
    /\ scan[s].at \in {"sweep", "probe"} /\ ~scan[s].gone
    /\ Goes(s, [scan[s] EXCEPT !.gone = TRUE])
    /\ UNCHANGED <<fleet, recorders, silent, sweeping, inFlight, probe, page, changes>>

\* Then no more addresses are probed.
Truncate(s) ==
    /\ scan[s].at = "probe" /\ scan[s].gone /\ scan[s].todo # {}
    /\ Goes(s, [scan[s] EXCEPT !.todo = {}])
    /\ UNCHANGED <<fleet, recorders, silent, sweeping, inFlight, probe, page, changes>>

\* Mutant: a scan whose time is up answers at once.
answersAtOnce(s) == scan[s].gone \/ Running(s) = {}

AllAnswered(s) == Running(s) = {}

\* The probes that were started are waited for, and endSweep.
Answer(s) ==
    /\ scan[s].at = "probe" /\ scan[s].todo = {} /\ AllAnswered(s)
    /\ Goes(s, [scan[s] EXCEPT !.at = "told"])
    /\ sweeping' = FALSE
    /\ UNCHANGED <<fleet, recorders, silent, inFlight, probe, page, changes>>

-----------------------------------------------------------------------------
(* The fleet and its pages. *)

\* A camera is added, removed, or has its address changed.
Edit ==
    /\ changes < MaxEdits /\ changes' = changes + 1
    /\ \E h \in Hosts : fleet' = (fleet \ {h}) \union ({h} \ fleet)
    /\ UNCHANGED <<recorders, silent, sweeping, inFlight, scan, probe, page>>

\* Server.dial: not an address that timed out moments ago.
Dial(p) ==
    /\ page[p] = {}
    /\ \E h \in fleet \ silent : page' = [page EXCEPT ![p] = {h}]
    /\ UNCHANGED <<fleet, recorders, silent, sweeping, inFlight, scan, probe, changes>>

Answers(p) ==
    /\ \E h \in page[p] : /\ recorders' = [recorders EXCEPT ![h] = IF h \in Recorders THEN "yes" ELSE "no"]
                          /\ silent' = silent \ {h}
    /\ page' = [page EXCEPT ![p] = {}]
    /\ UNCHANGED <<fleet, sweeping, inFlight, scan, probe, changes>>

\* It times out, and is silent for a while; or it refuses.
DialFails(p) ==
    /\ page[p] # {}
    /\ silent' \in {silent, silent \union page[p]}
    /\ page' = [page EXCEPT ![p] = {}]
    /\ UNCHANGED <<fleet, recorders, sweeping, inFlight, scan, probe, changes>>

Forget ==
    /\ \E h \in silent : silent' = silent \ {h}
    /\ UNCHANGED <<fleet, recorders, sweeping, inFlight, scan, probe, page, changes>>

-----------------------------------------------------------------------------
Next ==
    \/ \E a \in Askers, h \in Hosts : \/ Check(a, h) \/ Begin(a, h) \/ Connect(a, h)
                                      \/ Look(a, h) \/ Looked(a, h) \/ End(a, h)
    \/ \E a \in Asks : Ask(a)
    \/ \E s \in Scans : Scan(s) \/ Sweep(s) \/ Launch(s) \/ Cancel(s) \/ Truncate(s) \/ Answer(s)
    \/ \E p \in Pages : Dial(p) \/ Answers(p) \/ DialFails(p)
    \/ Edit \/ Forget

Spec == Init /\ [][Next]_findVars

-----------------------------------------------------------------------------
Dialling(h) == {a \in Askers : probe[a][h] \in {"dial", "open", "streams", "over"}}

\* However scans and requests overlap, one probe at a time dials an address,
\* and an address is claimed as long as one does and no longer, so none is ever
\* locked out of being probed again; one scan sweeps at a time; and a scan that
\* has answered has no probe left running that would write into its answer
\* (probe.go beginProbe, discover.go discover, beginSweep).
ProbedAlone ==
    /\ \A h \in Hosts : Cardinality(Dialling(h)) = IF h \in inFlight THEN 1 ELSE 0
    /\ {s \in Scans : scan[s].at \in {"sweep", "probe"}} # {} <=> sweeping
    /\ Cardinality({s \in Scans : scan[s].at \in {"sweep", "probe"}}) <= 1
    /\ \A s \in Scans : scan[s].at = "told" => \A h \in scan[s].found : probe[s][h] = "told"

\* A camera of the fleet is never probed beside its own streams. It is, when it
\* is added while a probe of it runs.
NeverBeside == \A h \in fleet \ Recorders : \A a \in Askers : probe[a][h] # "streams"
=============================================================================
