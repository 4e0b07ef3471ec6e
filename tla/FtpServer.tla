------------------------------ MODULE FtpServer ------------------------------
(***************************************************************************)
(* The FTP server the cameras upload their clips to (internal/ftpd): its   *)
(* command connections, the data ports it lends them, and the files on the *)
(* disk, with the janitor that prunes them (control/clips.go).             *)
(*                                                                         *)
(* Any number of command connections can upload under one name at once: a  *)
(* camera whose connection stalled comes back on a new one, while the old  *)
(* waits out the ten minutes of its data connection.                       *)
(*                                                                         *)
(* A file on the disk is a number (0: there is none). An upload keeps      *)
(* writing to the file it opened, whatever has become of its name.         *)
(***************************************************************************)
EXTENDS Integers, Sequences, FiniteSets

CONSTANTS
    Clients,     \* the command connections
    Files,       \* the names a clip may have
    Uploaded,    \* those clips are uploaded under, before they are renamed
    Ports,       \* the data ports, PassiveMin..PassiveMax
    MaxUploads,  \* bound: files opened
    MaxBytes,    \* the longest clip
    None

VARIABLES
    ftp,      \* the command connections: session
    next,     \* Server.next: the data port tried first
    lent,     \* the data ports that are open, and whose
    dir,      \* the camera's folder exists
    disk,     \* the file that has that name
    bytes,    \* what was written to each file: whose upload each byte is of
    sent,     \* the bytes of each upload, once it ended well
    stored,   \* the upload that Stored was last called for, of the file there
    tangled   \* history: names whose uploads overlapped, or were added to

ftpVars == <<ftp, next, lent, dir, disk, bytes, sent, stored, tangled>>

Gone == [at |-> "gone", pasv |-> 0, port |-> FALSE, name |-> None, from |-> None,
         add |-> FALSE, up |-> 0, file |-> 0, off |-> 0]

Init ==
    /\ ftp = [c \in Clients |-> Gone]
    /\ next = 1
    /\ lent = [p \in Ports |-> {}]
    /\ dir = FALSE
    /\ disk = [f \in Files |-> 0]
    /\ bytes = <<>>
    /\ sent = <<>>
    /\ stored = [f \in Files |-> 0]
    /\ tangled = {}

Goto(c, at) == ftp' = [ftp EXCEPT ![c].at = at]

\* The connections with an upload under way to that name, or to its file.
Uploading(f) == {c \in Clients : /\ ftp[c].at \in {"copy", "closed"}
                                 /\ ftp[c].name = f \/ (disk[f] # 0 /\ ftp[c].file = disk[f])}

UnchangedDisk == UNCHANGED <<dir, disk, bytes, sent, stored, tangled>>
UnchangedPorts == UNCHANGED <<next, lent>>

-----------------------------------------------------------------------------
(* The command connection. *)

Connect(c) ==
    /\ ftp[c].at = "gone"
    /\ Goto(c, "hello")
    /\ UnchangedPorts /\ UnchangedDisk

\* PASS: the password of the receiver, the user a camera. Its folder is made.
Login(c) ==
    /\ ftp[c].at = "hello"
    /\ Goto(c, "in")
    /\ dir' = TRUE
    /\ UnchangedPorts /\ UNCHANGED <<disk, bytes, sent, stored, tangled>>

\* USER: a login starts over.
User(c) ==
    /\ ftp[c].at = "in"
    /\ Goto(c, "hello")
    /\ UnchangedPorts /\ UnchangedDisk

\* Mutant: the data port is left open.
leavesPort(c) == lent

\* closeData: the data ports that are open once the one of c is closed.
Closed(c) == [p \in Ports |-> lent[p] \ IF ftp[c].pasv = p THEN {c} ELSE {}]

\* QUIT, a connection that broke, five minutes without a command.
Quit(c) ==
    /\ ftp[c].at \in {"hello", "in"}
    /\ lent' = Closed(c)
    /\ ftp' = [ftp EXCEPT ![c] = Gone]
    /\ UNCHANGED next /\ UnchangedDisk

\* PASV and EPSV: the first port from next on that can be opened. Each one
\* tried moves next on, also when nothing could be opened.
Nth(n) == ((next + n - 1) % Cardinality(Ports)) + 1

Passive(c) ==
    LET free == {n \in 0..(Cardinality(Ports) - 1) : Closed(c)[Nth(n)] = {}}
        first == CHOOSE n \in free : \A m \in free : n <= m
    IN
    /\ ftp[c].at = "in"
    /\ IF free = {}
       THEN /\ ftp' = [ftp EXCEPT ![c].pasv = 0, ![c].port = FALSE]
            /\ lent' = Closed(c)
            /\ UNCHANGED next
       ELSE /\ ftp' = [ftp EXCEPT ![c].pasv = Nth(first), ![c].port = FALSE]
            /\ lent' = [Closed(c) EXCEPT ![Nth(first)] = {c}]
            /\ next' = Nth(first + 1)
    /\ UnchangedDisk

\* PORT and EPRT: the server will dial the camera, if it makes sense of it.
Active(c) ==
    /\ ftp[c].at = "in"
    /\ lent' = Closed(c)
    /\ \E port \in BOOLEAN : ftp' = [ftp EXCEPT ![c].pasv = 0, ![c].port = port]
    /\ UNCHANGED next /\ UnchangedDisk

-----------------------------------------------------------------------------
(* STOR and APPE. *)

\* The folder is made and the camera told to send. (A disk that is nearly full
\* refuses the clip before that, and nothing changes.)
Store(c, f, add) ==
    /\ ftp[c].at = "in"
    /\ ftp' = [ftp EXCEPT ![c].at = "data", ![c].name = f, ![c].add = add]
    /\ dir' = TRUE
    /\ UnchangedPorts /\ UNCHANGED <<disk, bytes, sent, stored, tangled>>

\* The session waits for its next command.
Idle(c) == [Gone EXCEPT !.at = "in", !.from = ftp[c].from]

\* No data connection: none was prepared, or none came in its time. Or there
\* is one, but the janitor took the folder away since.
NoData(c) ==
    /\ ftp[c].at = "data"
    /\ lent' = Closed(c)
    /\ ftp' = [ftp EXCEPT ![c] = Idle(c)]
    /\ UNCHANGED next /\ UnchangedDisk

\* The camera sends: a new file, or the one of that name, cut or added to.
Open(c) ==
    LET f == ftp[c].name
        up == Len(sent) + 1
        file == IF disk[f] = 0 THEN Len(bytes) + 1 ELSE disk[f]
        kept == IF disk[f] # 0 /\ ftp[c].add THEN bytes[file] ELSE <<>>
    IN
    /\ ftp[c].at = "data"
    /\ ftp[c].pasv # 0 \/ ftp[c].port
    /\ dir
    /\ up <= MaxUploads
    /\ lent' = Closed(c)
    /\ ftp' = [ftp EXCEPT ![c] = [@ EXCEPT !.at = "copy", !.pasv = 0, !.port = FALSE, !.up = up, !.file = file]]
    /\ disk' = [disk EXCEPT ![f] = file]
    /\ bytes' = IF disk[f] = 0 THEN Append(bytes, <<>>) ELSE [bytes EXCEPT ![file] = kept]
    /\ sent' = Append(sent, -1)
    /\ stored' = [stored EXCEPT ![f] = 0]
    /\ tangled' = IF Uploading(f) # {} \/ kept # <<>> THEN tangled \union {f} ELSE tangled \ {f}
    /\ UNCHANGED <<next, dir>>

\* One write goes where this upload is in the file, or to its end.
Written(old, at, up) == [i \in 1..(IF at > Len(old) THEN at ELSE Len(old)) |->
    IF i = at THEN up ELSE IF i <= Len(old) THEN old[i] ELSE 0]

Copy(c) ==
    LET file == ftp[c].file
        at == 1 + IF ftp[c].add THEN Len(bytes[file]) ELSE ftp[c].off
    IN
    /\ ftp[c].at = "copy"
    /\ ftp[c].off < MaxBytes
    /\ bytes' = [bytes EXCEPT ![file] = Written(@, at, ftp[c].up)]
    /\ ftp' = [ftp EXCEPT ![c].off = @ + 1]
    /\ UnchangedPorts /\ UNCHANGED <<dir, disk, sent, stored, tangled>>

\* The camera closes the data connection: what it sent is the clip.
End(c) ==
    /\ ftp[c].at = "copy"
    /\ sent' = [sent EXCEPT ![ftp[c].up] = ftp[c].off]
    /\ Goto(c, "closed")
    /\ UnchangedPorts /\ UNCHANGED <<dir, disk, bytes, stored, tangled>>

\* Mutant: what was written is left there.
failKeeps(f) == disk

\* A data connection that breaks or goes quiet for ten minutes, a disk that
\* fills, a clip that is too large: the file of that name is removed.
Removes(f) == [disk EXCEPT ![f] = 0]

Fail(c) ==
    /\ ftp[c].at = "copy"
    /\ disk' = Removes(ftp[c].name)
    /\ stored' = [stored EXCEPT ![ftp[c].name] = 0]
    /\ ftp' = [ftp EXCEPT ![c] = Idle(c)]
    /\ UnchangedPorts /\ UNCHANGED <<dir, bytes, sent, tangled>>

\* stored: whoever waits for clips is told, if the file is still there.
Tell(c) ==
    LET f == ftp[c].name IN
    /\ ftp[c].at = "closed"
    /\ stored' = IF disk[f] = 0 THEN stored ELSE [stored EXCEPT ![f] = ftp[c].up]
    /\ ftp' = [ftp EXCEPT ![c] = Idle(c)]
    /\ UnchangedPorts /\ UNCHANGED <<dir, disk, bytes, sent, tangled>>

-----------------------------------------------------------------------------
(* DELE, RNFR and RNTO, and the janitor. *)

Without(f) ==
    /\ disk' = [disk EXCEPT ![f] = 0]
    /\ stored' = [stored EXCEPT ![f] = 0]
    /\ UNCHANGED <<bytes, sent, tangled>>

Delete(c, f) ==
    /\ ftp[c].at = "in"
    /\ disk[f] # 0
    /\ Without(f)
    /\ UnchangedPorts /\ UNCHANGED <<ftp, dir>>

RenameFrom(c, f) ==
    /\ ftp[c].at = "in"
    /\ ftp' = [ftp EXCEPT ![c].from = f]
    /\ UnchangedPorts /\ UnchangedDisk

\* The file takes the name of another, and is told under it.
RenameTo(c, g) ==
    LET f == ftp[c].from IN
    /\ ftp[c].at = "in"
    /\ ftp' = [ftp EXCEPT ![c].from = None]
    /\ IF f = None \/ f = g
       THEN UnchangedDisk
       ELSE IF disk[f] = 0
       THEN UnchangedDisk
       ELSE /\ disk' = [disk EXCEPT ![f] = 0, ![g] = disk[f]]
            /\ stored' = [stored EXCEPT ![f] = 0, ![g] = stored[f]]
            /\ tangled' = IF f \in tangled \/ Uploading(f) \union Uploading(g) # {}
                          THEN tangled \union {g} ELSE tangled \ {g}
            /\ UNCHANGED <<dir, bytes, sent>>
    /\ UnchangedPorts

\* pruneClips: a file nothing was written to for days; a folder with no file.
Prune(f) ==
    /\ disk[f] # 0
    /\ \A c \in Clients : ~(ftp[c].at \in {"copy", "closed"} /\ ftp[c].file = disk[f])
    /\ Without(f)
    /\ UnchangedPorts /\ UNCHANGED <<ftp, dir>>

PruneFolder ==
    /\ dir
    /\ \A f \in Files : disk[f] = 0
    /\ dir' = FALSE
    /\ UnchangedPorts /\ UNCHANGED <<ftp, disk, bytes, sent, stored, tangled>>

-----------------------------------------------------------------------------
Next ==
    \/ PruneFolder
    \/ \E f \in Files : Prune(f)
    \/ \E c \in Clients :
          \/ Connect(c) \/ Login(c) \/ User(c) \/ Quit(c)
          \/ Passive(c) \/ Active(c)
          \/ NoData(c) \/ Open(c) \/ Copy(c) \/ End(c) \/ Fail(c) \/ Tell(c)
          \/ \E f \in Uploaded, add \in BOOLEAN : Store(c, f, add)
          \/ \E f \in Files : Delete(c, f) \/ RenameFrom(c, f) \/ RenameTo(c, f)

Spec == Init /\ [][Next]_ftpVars

-----------------------------------------------------------------------------
\* The file holds all that upload sent, and nothing else.
IsOf(file, up) == sent[up] >= 0 /\ bytes[file] = [i \in 1..sent[up] |-> up]

\* A clip that was told of is there and whole until it is removed or uploaded
\* again; a file that is not whole is being uploaded; and every data port that
\* is open waits for a connection that is still there, so they cannot run out
\* by being forgotten. Names that two uploads were on at once, or that one was
\* added to, are left out (ftpd/server.go store, closeData).
ClipsKept ==
    /\ \A f \in Files \ tangled :
          /\ stored[f] # 0 => disk[f] # 0 /\ IsOf(disk[f], stored[f])
          /\ disk[f] # 0 => \/ Uploading(f) # {}
                            \/ \E up \in 1..Len(sent) : IsOf(disk[f], up)
    /\ \A p \in Ports : \A c \in lent[p] : lent[p] = {c} /\ ftp[c].pasv = p /\ ftp[c].at # "gone"

\* A clip that was told of is not taken away by an upload that fails. It is: a
\* connection that hangs for ten minutes removes the clip that its camera
\* uploaded again meanwhile.
NeverTakenBack ==
    [][\A c \in Clients, f \in Files :
          ftp[c].at = "copy" /\ ftp'[c].at = "in" => stored'[f] = stored[f]]_ftpVars
=============================================================================
