----------------------------- MODULE SdSessions -----------------------------
(***************************************************************************)
(* Reading a camera's SD card (internal/control/recordings.go, with        *)
(* baichuan/sd.go): jobs that list recordings or download a clip, one at a *)
(* time per camera, over a session that is kept between them, with a timer *)
(* for each job that handed it back.                                       *)
(*                                                                         *)
(* A download is messages of one kind until the camera marks the end, and  *)
(* nothing in them says which download they belong to.                     *)
(***************************************************************************)
EXTENDS Integers, Sequences, FiniteSets

CONSTANTS Jobs,
          MaxLinks,  \* connections dialled (bound)
          SdIdle,    \* sdIdle in ticks; the timer runs a tick more
          Stalls     \* may the camera pause in a download for longer than idle?

VARIABLES slot,   \* the job that has the camera's SD conversation, or 0
          kept,   \* sdSessions: the connection (0 if none) and the ticks since `last`
          links,  \* the connections: open, and the download the camera is sending on it, if any
          timers, \* of sdDone: the connection each is for, and the ticks left
          job     \* the jobs

vars == <<slot, kept, links, timers, job>>

New == [at |-> "new", clip |-> FALSE, link |-> 0, old |-> FALSE, tries |-> 0, got |-> {}, out |-> "none"]

Init ==
    /\ slot = 0 /\ kept = [link |-> 0, age |-> 0] /\ links = <<>> /\ timers = {}
    /\ job = [j \in Jobs |-> New]

Open(l) == l # 0 /\ links[l].open
Close(l, ls) == IF l = 0 THEN ls ELSE [ls EXCEPT ![l] = [open |-> FALSE, sends |-> 0]]
Goes(j, where) == job' = [job EXCEPT ![j].at = where]

-----------------------------------------------------------------------------
(* The conversation's slot. *)

\* serveRecordings and serveRecordingClip: sdAcquire.
Ask(j) ==
    /\ job[j].at = "new"
    /\ \E clip \in BOOLEAN : job' = [job EXCEPT ![j] = [New EXCEPT !.at = "wait", !.clip = clip]]
    /\ UNCHANGED <<slot, kept, links, timers>>

\* Mutant: nobody waits.
noSlot(j) == TRUE

Free(j) == slot = 0

Acquire(j) ==
    /\ job[j].at = "wait" /\ Free(j)
    /\ slot' = j /\ Goes(j, "conn")
    /\ UNCHANGED <<kept, links, timers>>

\* The wait is over, or the browser gone.
Refused(j) ==
    /\ job[j].at = "wait" /\ Goes(j, "over")
    /\ UNCHANGED <<slot, kept, links, timers>>

-----------------------------------------------------------------------------
(* sdConn. *)

Reusable(l) == Open(l) /\ kept.age < SdIdle

\* The kept session, or, once that is closed, a dial.
Conn(j) ==
    /\ job[j].at = "conn"
    /\ IF Reusable(kept.link)
       THEN job' = [job EXCEPT ![j].at = "send", ![j].link = kept.link] /\ UNCHANGED links
       ELSE Goes(j, "dial") /\ links' = Close(kept.link, links)
    /\ UNCHANGED <<slot, kept, timers>>

Dial(j) ==
    /\ job[j].at = "dial" /\ Len(links) < MaxLinks
    /\ links' = Append(links, [open |-> TRUE, sends |-> 0])
    /\ kept' = [link |-> Len(links) + 1, age |-> 0]
    /\ job' = [job EXCEPT ![j].at = "send", ![j].link = Len(links) + 1]
    /\ UNCHANGED <<slot, timers>>

\* A list is tried twice.
DialFails(j) ==
    /\ job[j].at = "dial"
    /\ job' = IF ~job[j].clip /\ job[j].tries = 0
              THEN [job EXCEPT ![j].at = "conn", ![j].tries = 1]
              ELSE [job EXCEPT ![j].at = "release"]
    /\ UNCHANGED <<slot, kept, links, timers>>

-----------------------------------------------------------------------------
(* The conversation: RecordDays and RecordFiles, or Download. *)

\* A list's requests and answers; a request on a closed session fails.
List(j) ==
    /\ job[j].at = "send" /\ ~job[j].clip
    /\ job' = [job EXCEPT ![j].at = "done", ![j].out = IF Open(job[j].link) THEN "clean" ELSE "failed"]
    /\ UNCHANGED <<slot, kept, links, timers>>

\* The download's request; what the camera was sending goes on in front of it.
Request(j) ==
    /\ job[j].at = "send" /\ job[j].clip
    /\ IF Open(job[j].link)
       THEN /\ job' = [job EXCEPT ![j].at = "download", ![j].old = links[job[j].link].sends # 0]
            /\ links' = [links EXCEPT ![job[j].link].sends = j]
       ELSE job' = [job EXCEPT ![j].at = "done", ![j].out = "failed"] /\ UNCHANGED links
    /\ UNCHANGED <<slot, kept, timers>>

\* Media: first what is left of the download before.
Media(j) ==
    /\ job[j].at = "download" /\ Open(job[j].link)
    /\ job' = [job EXCEPT ![j].got = @ \cup {IF job[j].old THEN "old" ELSE "own"}, ![j].old = FALSE]
    /\ UNCHANGED <<slot, kept, links, timers>>

\* The camera marks the end of the download.
Marked(j) ==
    /\ job[j].at = "download" /\ Open(job[j].link) /\ job[j].got # {} /\ ~job[j].old
    /\ job' = [job EXCEPT ![j].at = "done", ![j].out = "clean"]
    /\ links' = [links EXCEPT ![job[j].link].sends = 0]
    /\ UNCHANGED <<slot, kept, timers>>

\* It sends nothing for four seconds, which is taken for the end: as a rule it has sent everything.
Quiet(j) ==
    /\ job[j].at = "download" /\ Open(job[j].link) /\ job[j].got # {}
    /\ job' = [job EXCEPT ![j].at = "done", ![j].out = "clean"]
    /\ links' \in {[links EXCEPT ![job[j].link].sends = 0]} \cup (IF Stalls THEN {links} ELSE {})
    /\ UNCHANGED <<slot, kept, timers>>

\* Mutant: a download that was left is taken to be over.
leftIsClean(j) == "clean"

Left(j) == "failed"

\* The browser goes away, time runs out, or the camera refuses.
Abandon(j) ==
    /\ job[j].at = "download"
    /\ job' = [job EXCEPT ![j].at = "done", ![j].out = Left(j)]
    /\ UNCHANGED <<slot, kept, links, timers>>

\* The connection is closed under the download: what came is all, and no error if anything came.
Closed(j) ==
    /\ job[j].at = "download" /\ ~Open(job[j].link)
    /\ job' = [job EXCEPT ![j].at = "done", ![j].out = IF job[j].got # {} THEN "cut" ELSE "failed"]
    /\ UNCHANGED <<slot, kept, links, timers>>

\* The camera, or the network, breaks a connection.
Break ==
    /\ \E l \in DOMAIN links : links[l].open /\ links' = Close(l, links)
    /\ UNCHANGED <<slot, kept, timers, job>>

-----------------------------------------------------------------------------
(* sdDone, the release, and the timers. *)

Again(j) == ~job[j].clip /\ job[j].out = "failed" /\ job[j].tries = 0

Done(j) ==
    /\ job[j].at = "done"
    /\ LET l == job[j].link
       IN \/ /\ kept.link # l
             /\ links' = Close(l, links) /\ UNCHANGED <<kept, timers>>
          \/ /\ kept.link = l /\ job[j].out # "clean"
             /\ links' = Close(l, links) /\ kept' = [link |-> 0, age |-> 0] /\ UNCHANGED timers
          \/ /\ kept.link = l /\ job[j].out = "clean"
             /\ kept' = [kept EXCEPT !.age = 0] /\ timers' = timers \cup {[link |-> l, left |-> SdIdle + 1]}
             /\ UNCHANGED links
    /\ job' = IF Again(j) THEN [job EXCEPT ![j].at = "conn", ![j].tries = 1, ![j].link = 0]
              ELSE [job EXCEPT ![j].at = "release"]
    /\ UNCHANGED slot

Release(j) ==
    /\ job[j].at = "release" /\ slot' = 0
    /\ job' = [job EXCEPT ![j].at = "over", ![j].link = 0]
    /\ UNCHANGED <<kept, links, timers>>

\* Another request.
Anew(j) ==
    /\ job[j].at = "over" /\ job' = [job EXCEPT ![j] = New]
    /\ UNCHANGED <<slot, kept, links, timers>>

Stale(t) == kept.link = t.link /\ kept.age >= SdIdle

Fire(t) ==
    /\ t \in timers /\ t.left = 0 /\ timers' = timers \ {t}
    /\ IF Stale(t)
       THEN links' = Close(t.link, links) /\ kept' = [link |-> 0, age |-> 0]
       ELSE UNCHANGED <<links, kept>>
    /\ UNCHANGED <<slot, job>>

\* A tick passes for `last` and the timers, which do not run late.
Tick ==
    /\ \A t \in timers : t.left > 0
    /\ kept.link # 0 \/ timers # {}
    /\ kept' = IF kept.link # 0 /\ kept.age < SdIdle THEN [kept EXCEPT !.age = @ + 1] ELSE kept
    /\ timers' = {[t EXCEPT !.left = @ - 1] : t \in timers}
    /\ UNCHANGED <<slot, links, job>>

Next ==
    \/ \E j \in Jobs :
        \/ Ask(j) \/ Acquire(j) \/ Refused(j) \/ Conn(j) \/ Dial(j) \/ DialFails(j) \/ List(j) \/ Request(j)
        \/ Media(j) \/ Marked(j) \/ Quiet(j) \/ Abandon(j) \/ Closed(j) \/ Done(j) \/ Release(j) \/ Anew(j)
    \/ Break \/ (\E t \in timers : Fire(t)) \/ Tick

Spec == Init /\ [][Next]_vars

-----------------------------------------------------------------------------
(* Properties. *)

InUse == {job[j].link : j \in {j \in Jobs : job[j].at \in {"send", "download", "done"}}} \ {0}

\* A camera has one SD conversation and one session, and a session that nobody uses has a timer
\* that will close it: none is left open for good (recordings.go:76-163). A camera that does not
\* stall in a download never puts one clip's pictures into the next (96-99, 356).
SdTidy ==
    /\ Cardinality({l \in DOMAIN links : links[l].open}) <= 1
    /\ \A l \in DOMAIN links : links[l].open => l \in InUse \/ (l = kept.link /\ \E t \in timers : t.link = l)
    /\ ~Stalls => \A j \in Jobs : "old" \notin job[j].got

\* "A kept session closes itself once idle" (recordings.go:121), and not while a job uses it: the
\* clip would end there, with nothing said.
ClosesOnceIdle ==
    [][kept.link \in InUse /\ (\E t \in timers : Fire(t)) => kept'.link = kept.link]_vars

\* "Only a session whose last job finished cleanly is reused: one left mid-download would still be
\* receiving the old clip" (recordings.go:87-89).
NoOldClip == \A j \in Jobs : "old" \notin job[j].got
=============================================================================
