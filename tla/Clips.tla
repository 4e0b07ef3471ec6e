-------------------------------- MODULE Clips --------------------------------
(***************************************************************************)
(* The clip receiver of the control page (control/clips.go): the FTP       *)
(* server that follows the [ftp] section of the configuration, and the     *)
(* form that turns a camera's uploads to it on and off.                    *)
(*                                                                         *)
(* Every save of the configuration starts a goroutine that makes the       *)
(* receiver match: it reads the file first and takes receiver.mu after. A  *)
(* server that is cancelled closes its listener in a goroutine of its own. *)
(*                                                                         *)
(* What the receiver is keyed by is a record of Keys: the port it listens  *)
(* on, and the address and password that cameras are given.                *)
(***************************************************************************)
EXTENDS Integers, Sequences

CONSTANTS
    Keys,      \* what the [ftp] section may say: [port, host, pass]
    Savers,    \* goroutines started by saves (bound)
    Forms,     \* "Save clips to reostream" forms
    MaxSaves,  \* bound: saves by other pages
    MaxStarts, \* bound: servers started
    Blocked    \* may the folder not be made, or another program have the port

VARIABLES
    section,   \* the [ftp] section, {} or one key
    held,      \* history: the keys the file ever held
    receiver,  \* clipReceiver: the key, and the server it can cancel (0: none)
    servers,   \* the servers ever started: their key and their listener
    sync,      \* the goroutines in syncReceiver
    asks,      \* the forms
    janitors,  \* clipJanitor goroutines
    task,      \* the camera: the server it uploads to, and whether it does
    edits      \* saves by other pages

clipVars == <<section, held, receiver, servers, sync, asks, janitors, task, edits>>

Syncers == Savers \union Forms
NotSyncing == [at |-> "idle", key |-> {}]

Init ==
    /\ section \in {{}} \union {{k} : k \in Keys}
    /\ held = section
    /\ receiver = [key |-> {}, server |-> 0]
    /\ servers = <<>>
    /\ \E g \in Savers : sync = [[h \in Syncers |-> NotSyncing] EXCEPT ![g].at = "asked"]
    /\ asks = [m \in Forms |-> [at |-> "none", key |-> {}, on |-> TRUE]]
    /\ janitors = 0
    /\ task = [server |-> {}, on |-> FALSE]
    /\ edits = 0

Step(m, at) == asks' = [asks EXCEPT ![m].at = at]

-----------------------------------------------------------------------------
(* syncReceiver. *)

\* A file that does not parse leaves the receiver as it is.
Load(g) ==
    /\ sync[g].at = "asked"
    /\ \E now \in {NotSyncing, [at |-> "read", key |-> section]} : sync' = [sync EXCEPT ![g] = now]
    /\ UNCHANGED <<section, held, receiver, servers, asks, janitors, task, edits>>

\* Mutant: the server that was running is left running.
leavesRunning == servers

\* The servers once that of the receiver is cancelled: its listener is still
\* open, until the goroutine that closes it runs.
Cancelled == [n \in DOMAIN servers |-> IF n = receiver.server /\ servers[n].listener = "open"
                                       THEN [servers[n] EXCEPT !.listener = "closing"] ELSE servers[n]]

\* ftpd.Start: the port must be free. The listener that closes may just have
\* done so; and it fails too if the folder or the port is not to be had.
Taken(k, now) == \E n \in DOMAIN now : \E old \in now[n].key : old.port = k.port
Shut(server) == [server EXCEPT !.listener = "closed", !.key = {}]
Settled(now) == {now, [n \in DOMAIN now |-> IF now[n].listener = "closing" THEN Shut(now[n]) ELSE now[n]]}

Start(k, now) ==
    /\ ~Taken(k, now) /\ Len(now) < MaxStarts
    /\ servers' = Append(now, [key |-> {k}, listener |-> "open"])
    /\ receiver' = [key |-> {k}, server |-> Len(now) + 1]
    /\ janitors' = IF janitors = 0 THEN 1 ELSE janitors

Stop(k, now) ==
    /\ k = {} \/ Blocked \/ (\E want \in k : Taken(want, now))
    /\ servers' = now
    /\ receiver' = [key |-> {}, server |-> 0]
    /\ UNCHANGED janitors

Apply(g) ==
    /\ sync[g].at = "read"
    /\ sync' = [sync EXCEPT ![g] = NotSyncing]
    /\ IF sync[g].key = receiver.key THEN UNCHANGED <<receiver, servers, janitors>>
       ELSE \E now \in Settled(Cancelled) : Stop(sync[g].key, now) \/ \E k \in sync[g].key : Start(k, now)
    /\ UNCHANGED <<section, held, asks, task, edits>>

\* The goroutine of a cancelled server closes its listener.
Close(n) ==
    /\ servers[n].listener = "closing"
    /\ servers' = [servers EXCEPT ![n] = Shut(@)]
    /\ UNCHANGED <<section, held, receiver, sync, asks, janitors, task, edits>>

\* Another page saves the file, or a person's edit is loaded with it.
Save(g) ==
    /\ sync[g].at = "idle" /\ edits < MaxSaves
    /\ \E s \in {{}} \union {{k} : k \in Keys} : section' = s /\ held' = held \union s
    /\ sync' = [sync EXCEPT ![g].at = "asked"]
    /\ edits' = edits + 1
    /\ UNCHANGED <<receiver, servers, asks, janitors, task>>

-----------------------------------------------------------------------------
(* serveApplyClips. *)

\* ensureReceiver reads the section, and keeps what is in it except an address
\* that was typed; it makes up a password if there is none. It saves what changed: the days that
\* clips are kept are no part of the key.
Wanted(s) == IF s = {} THEN Keys
             ELSE {k \in Keys : \E was \in s : k.port = was.port /\ k.pass = was.pass}

Ask(m) ==
    /\ asks[m].at = "none"
    /\ \/ \E k \in Wanted(section) : \E at \in {"save"} \union (IF section = {k} THEN {"sync"} ELSE {}) :
             asks' = [asks EXCEPT ![m] = [at |-> at, key |-> {k}, on |-> TRUE]]
       \/ asks' = [asks EXCEPT ![m] = [at |-> "task", key |-> {}, on |-> FALSE]]
    /\ UNCHANGED <<section, held, receiver, servers, sync, janitors, task, edits>>

\* Mutant: the form goes on when the file could not be saved.
goesOn == "sync"

\* The file could not be saved: the form says so, and does no more.
Unsaved == "refused"

\* writeAndApply, which starts a goroutine for the receiver too (none of the
\* bound may be left: the form makes it match itself).
SaveSection(m) ==
    /\ asks[m].at = "save"
    /\ \/ /\ section' = asks[m].key /\ held' = held \union asks[m].key
          /\ Step(m, "sync")
          /\ \/ \E g \in Savers : sync[g].at = "idle" /\ sync' = [sync EXCEPT ![g].at = "asked"]
             \/ (\A g \in Savers : sync[g].at # "idle") /\ UNCHANGED sync
       \/ Step(m, Unsaved) /\ UNCHANGED <<section, held, sync>>
    /\ UNCHANGED <<receiver, servers, janitors, task, edits>>

\* The form makes the receiver match itself, and waits for that.
Match(m) ==
    /\ asks[m].at = "sync"
    /\ sync' = [sync EXCEPT ![m].at = "asked"]
    /\ Step(m, "matching")
    /\ UNCHANGED <<section, held, receiver, servers, janitors, task, edits>>

Matched(m) ==
    /\ asks[m].at = "matching" /\ sync[m].at = "idle"
    /\ Step(m, "server")
    /\ UNCHANGED <<section, held, receiver, servers, sync, janitors, task, edits>>

\* pointClips: the camera is given the receiver. A camera that cannot be
\* reached, has no uploads or refuses the write ends the form; one that takes
\* the write and keeps its old settings does not.
Point(m) ==
    /\ asks[m].at = "server"
    /\ \/ task' = [task EXCEPT !.server = asks[m].key] /\ Step(m, "task")
       \/ UNCHANGED task /\ \E at \in {"task", "refused"} : Step(m, at)
    /\ UNCHANGED <<section, held, receiver, servers, sync, janitors, edits>>

\* Then its upload switch is turned, and the form says it is.
Switch(m) ==
    /\ asks[m].at = "task"
    /\ \/ task' = [task EXCEPT !.on = asks[m].on] /\ Step(m, "confirmed")
       \/ UNCHANGED task /\ \E at \in {"confirmed", "refused"} : Step(m, at)
    /\ UNCHANGED <<section, held, receiver, servers, sync, janitors, edits>>

-----------------------------------------------------------------------------
Next ==
    \/ \E g \in Syncers : Load(g) \/ Apply(g)
    \/ \E n \in DOMAIN servers : Close(n)
    \/ \E g \in Savers : Save(g)
    \/ \E m \in Forms : Ask(m) \/ SaveSection(m) \/ Match(m) \/ Matched(m) \/ Point(m) \/ Switch(m)

Spec == Init /\ [][Next]_clipVars

-----------------------------------------------------------------------------
\* However the saves and the forms interleave, the one server that is not
\* being closed is the receiver's and goes by its key, and there is none when
\* it has no key, so no camera uploads to a server that nothing can stop; one
\* janitor prunes; and a camera is only ever given a password that the file
\* held first (clips.go syncReceiver, ensureReceiver, pointClips).
ReceiverKept ==
    /\ {n \in DOMAIN servers : servers[n].listener = "open"} = {receiver.server} \ {0}
    /\ receiver.server # 0 => receiver.key = servers[receiver.server].key
    /\ receiver.server = 0 => receiver.key = {}
    /\ janitors <= 1 /\ (servers # <<>> => janitors = 1)
    /\ task.server \subseteq held

\* The receiver matches the configuration once every goroutine is done. It does
\* not: one that read an older file may be the last, and a server restarted on
\* the port of the one just cancelled may find it still taken.
ReceiverMatches ==
    (\A g \in Syncers : sync[g].at = "idle") => receiver.key = section
=============================================================================
