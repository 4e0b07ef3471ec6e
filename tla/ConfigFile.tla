----------------------------- MODULE ConfigFile -----------------------------
(***************************************************************************)
(* config.toml, the daemon that boots from it and the page that changes    *)
(* it.  Each form reads the file, makes its edit and hands the whole text  *)
(* to writeAndApply, which holds configMu from the write to the reload of  *)
(* the fleet.  The file's folder takes a rename, or it is a file mounted   *)
(* on its own that has to be rewritten in place.  The process may die at   *)
(* any step, and a write in place may fail half way.                       *)
(* What an edit does to the text is ConfigText; here a text is what it     *)
(* says: a password, the cameras and the listen addresses ("set" is a save *)
(* of events, clips or the clock, which leaves those alone).               *)
(***************************************************************************)
EXTENDS Naturals, FiniteSets

CONSTANTS Requests,    \* requests being served by the page
          Cams,        \* names of cameras
          Passwords,   \* what people type
          Mangled(_),  \* what setControlPassword writes of one
          Mounts,      \* subset of {"folder", "file"}
          MaxRequests, \* bound on the requests made
          MaxFaults    \* bound on deaths of the process and on writes in
                       \* place that fail half way, together

Main == "main"         \* the start of the daemon, saving -listen flags
Free == "free"

\* Words that stand for no password.  One that would be written as nothing is
\* refused (config.Validate), and so is not among Passwords.
Markers == {"", "locked", "none", "open", "unset"}
ASSUME ConfigFileAssumption ==
  /\ {Main, Free} \cap Requests = {} /\ Mounts \subseteq {"folder", "file"}
  /\ \A p \in Passwords : {p, Mangled(p)} \cap Markers = {}

VARIABLES mount, file, bak,
          up,       \* the process runs
          pw,       \* the password the page asks for; "" when it asks none
          settled, tok, \* claimSettled; the claim token is still good
          fleet,    \* cameras of the running fleet
          lock,     \* who holds configMu
          req,      \* per request: what it is and how far it has come
          made, faults, \* bounded counters
          claims,   \* passwords set by a claim, in this process
          astray    \* "hand": edited by a person; "late": just when a claim had
                    \* looked; "listen": a save of listen flags got into another
                    \* save; "torn": a save whose backup is of a file that was torn
                    \* or truncated already

vars == <<mount, file, bak, up, pw, settled, tok, fleet, lock, req, made,
          faults, claims, astray>>
disk == <<file, bak>>
page == <<pw, settled, tok, claims>>
count == <<made, faults>>

(* "open" allows no password; "none" has no [control] section, and so no   *)
(* page; "unset" names an environment variable that is not set.            *)
Text(is, p, c, l) == [is |-> is, pw |-> p, cams |-> c, listen |-> l]
Blank(is) == Text(is, "none", {}, 0)
Absent == Blank("absent")
Empty == Blank("empty")   \* truncated
Torn == Blank("torn")     \* written in part
Loads(t) == t.is \in {"whole", "empty"} /\ t.pw /= "unset"

-----------------------------------------------------------------------------
(* The edit each form makes of the text it read; Torn when it refuses.     *)
Ops == [op : {"save", "found", "remove"}, arg : Cams] \cup [op : {"password", "claim"}, arg : Passwords]
       \cup [op : {"set", "raw"}, arg : {1}]

saveCamera(t, c) == [t EXCEPT !.is = "whole", !.cams = @ \cup {c}]
serveRemoveCamera(t, c) == IF c \in t.cams THEN [t EXCEPT !.cams = @ \ {c}] ELSE Torn
saveEventsPage(t) == [t EXCEPT !.is = "whole"]
saveConfigPage(t) == [t EXCEPT !.is = "whole", !.cams = {}]
serveApplyPassword(t, p) == IF t.pw \in {"none", "open", p} THEN Torn ELSE [t EXCEPT !.pw = Mangled(p)]
claimConfigText(p) == Text("whole", p, {}, 1)
saveListenFlags(t) == [t EXCEPT !.is = "whole", !.listen = 1]

Edited(o, t) ==
  IF o.op = "claim" THEN claimConfigText(o.arg)
  ELSE IF t.is \notin {"whole", "empty"} THEN Torn
  ELSE CASE o.op \in {"save", "found"} -> saveCamera(t, o.arg)
         [] o.op = "remove" -> serveRemoveCamera(t, o.arg)
         [] o.op = "set" -> saveEventsPage(t)
         [] o.op = "raw" -> saveConfigPage(t)
         [] o.op = "password" -> serveApplyPassword(t, o.arg)
         [] o.op = "listen" -> saveListenFlags(t)

Idle == [op |-> [op |-> "none", arg |-> 0], at |-> "idle", text |-> Absent, old |-> Absent]
At(r, pc) == req[r].at = pc
Goto(r, pc) == req' = [req EXCEPT ![r].at = pc]
Done(r) == req' = [req EXCEPT ![r] = Idle]

(* A file read while unclaimed can settle the claim (claimed).             *)
ClaimedBy(t) == Loads(t) /\ t.pw /= "none"
Claimed == (pw /= "locked" /\ (settled \/ pw /= "")) \/ ClaimedBy(file)
adoptResolvedPassword(p) == /\ pw' = p
                            /\ settled' = (settled \/ p /= pw)

claimed ==
  IF pw /= "locked" /\ (settled \/ pw /= "") THEN UNCHANGED <<pw, settled>>
  ELSE IF file.is = "whole" /\ file.pw = "unset" THEN pw' = "locked" /\ UNCHANGED settled
  ELSE IF ~ClaimedBy(file) THEN UNCHANGED <<pw, settled>>
  ELSE IF file.pw = "open" THEN settled' = TRUE /\ UNCHANGED pw
  ELSE adoptResolvedPassword(file.pw)

(* startup: no file yet is a first run; a file that does not load stops    *)
(* it; one without [control] serves no page.                               *)
Boot(flags) ==
  /\ ~up /\ (file = Absent \/ Loads(file))
  /\ up' = TRUE
  /\ pw' = IF file = Absent \/ file.pw \in {"none", "open"} THEN "" ELSE file.pw
  /\ settled' = FALSE /\ tok' = TRUE /\ claims' = {}
  /\ fleet' = file.cams
  /\ req' = IF flags /\ file /= Absent
            THEN [req EXCEPT ![Main] = [Idle EXCEPT !.op.op = "listen", !.at = "read"]] ELSE req
  /\ astray' = astray \ {"hand", "late", "listen"}
  /\ UNCHANGED <<mount, disk, lock, count>>

HasPage == up /\ (file = Absent \/ file.pw /= "none" \/ pw /= "")

(* A form is sent: claimGate lets an unclaimed install be claimed and      *)
(* nothing else.                                                           *)
Arrive(r, o) ==
  /\ HasPage /\ At(r, "idle") /\ made < MaxRequests
  /\ claimed
  /\ IF o.op = "claim" THEN ~Claimed /\ tok /\ file = Absent
     ELSE Claimed /\ pw' /= "locked"
  /\ req' = [req EXCEPT ![r] = [Idle EXCEPT !.op = o, !.at = "read"]]
  /\ made' = made + 1
  /\ UNCHANGED <<mount, disk, up, tok, claims, fleet, lock, faults, astray>>

(* The text a form edits is read before configMu is asked for.             *)
Read(r) ==
  /\ At(r, "read")
  /\ LET t == Edited(req[r].op, file)
     IN req' = IF Loads(t) THEN [req EXCEPT ![r].at = "lock", ![r].text = t, ![r].old = file]
               ELSE [req EXCEPT ![r] = Idle]
  /\ UNCHANGED <<mount, disk, up, page, fleet, lock, count, astray>>

\* Mutant: a save does not wait for another.
LockOnly(r) == /\ At(r, "lock") /\ Goto(r, "save")
               /\ UNCHANGED <<mount, disk, up, page, fleet, lock, count, astray>>

(* SaveListenFlags takes no lock: at the start nothing else was expected   *)
(* to write.                                                               *)
Lock(r) ==
  /\ At(r, "lock")
  /\ IF r = Main THEN UNCHANGED lock ELSE lock = Free /\ lock' = r
  /\ Goto(r, "save")
  /\ UNCHANGED <<mount, disk, up, page, fleet, count, astray>>
Unlock(r) == lock' = IF lock = r THEN Free ELSE lock

(* writeClaim looks again now that it has the lock.                        *)
ClaimLate(r) ==
  /\ At(r, "save") /\ req[r].op.op = "claim"
  /\ Claimed \/ file /= Absent
  /\ claimed /\ Done(r) /\ Unlock(r)
  /\ UNCHANGED <<mount, disk, up, tok, claims, fleet, count, astray>>

\* Mutants: a claim is written whatever is there by now; no copy is kept
\* of a file that is rewritten in place.
BackupAnyway(r) ==
  /\ At(r, "save")
  /\ bak' = IF file = Absent THEN bak ELSE file
  /\ astray' = astray \cup (IF file.is \in {"torn", "empty"} THEN {"torn"} ELSE {})
  /\ Goto(r, IF mount = "folder" THEN "rename" ELSE "truncate")
  /\ UNCHANGED <<mount, file, up, page, fleet, lock, count>>
BackupNever(r) ==
  /\ At(r, "save")
  /\ req[r].op.op = "claim" => ~(Claimed \/ file /= Absent)
  /\ Goto(r, IF mount = "folder" THEN "rename" ELSE "truncate")
  /\ UNCHANGED <<mount, disk, up, page, fleet, lock, count, astray>>

(* saveConfig: the candidate was loaded and validated; the old text is     *)
(* kept beside the file.                                                   *)
Backup(r) ==
  /\ At(r, "save")
  /\ req[r].op.op = "claim" => ~(Claimed \/ file /= Absent)
  /\ bak' = IF file = Absent THEN bak ELSE file
  /\ astray' = astray \cup (IF file.is \in {"torn", "empty"} THEN {"torn"} ELSE {})
  /\ Goto(r, IF mount = "folder" THEN "rename" ELSE "truncate")
  /\ UNCHANGED <<mount, file, up, page, fleet, lock, count>>

(* The listen flags can write over another save or into the middle of it.  *)
Overwriting(r, expected) ==
  astray' = astray \cup (IF r = Main /\ (file /= expected \/ lock /= Free) THEN {"listen"} ELSE {})

Rename(r) == /\ At(r, "rename") /\ file' = req[r].text /\ Goto(r, "written")
             /\ Overwriting(r, req[r].old)
             /\ UNCHANGED <<mount, bak, up, page, fleet, lock, count>>
(* writeInPlace                                                            *)
Truncate(r) == /\ At(r, "truncate") /\ file' = Empty /\ Goto(r, "write")
               /\ Overwriting(r, req[r].old)
               /\ UNCHANGED <<mount, bak, up, page, fleet, lock, count>>
Write(r) == /\ At(r, "write") /\ file' = req[r].text /\ Goto(r, "written")
            /\ Overwriting(r, Empty)
            /\ UNCHANGED <<mount, bak, up, page, fleet, lock, count>>
WriteFails(r) == /\ At(r, "write") /\ faults < MaxFaults /\ faults' = faults + 1
                 /\ file' = Torn /\ Done(r) /\ Unlock(r)
                 /\ UNCHANGED <<mount, bak, up, page, fleet, made, astray>>

(* Cameras found by a scan are added one by one, each a save of its own    *)
(* that reads the file again: here two.                                    *)
serveAddFound(r) == req' = [req EXCEPT ![r] = [@ EXCEPT !.op.op = "save", !.at = "read"]]

(* The rest of writeAndApply: the password and the fleet of the file as    *)
(* it is now.  Only a claim has nothing to apply.                          *)
Apply(r) ==
  /\ At(r, "written") /\ r /= Main /\ req[r].op.op /= "claim" /\ Loads(file)
  /\ IF file.pw \in {"none", "open"} THEN UNCHANGED <<pw, settled>>
     ELSE adoptResolvedPassword(file.pw)
  /\ fleet' = file.cams
  /\ Unlock(r)
  /\ CASE req[r].op.op = "password" -> Goto(r, "adopt")
       [] req[r].op.op = "found" -> serveAddFound(r)
       [] OTHER -> Done(r)
  /\ UNCHANGED <<mount, disk, up, tok, claims, count, astray>>
(* The file changed underneath the save.                                   *)
ApplyRefused(r) ==
  /\ At(r, "written") /\ r /= Main /\ req[r].op.op /= "claim" /\ ~Loads(file)
  /\ Unlock(r) /\ Done(r)
  /\ UNCHANGED <<mount, disk, up, page, fleet, count, astray>>
ClaimTaken(r) ==
  /\ At(r, "written") /\ req[r].op.op = "claim"
  /\ pw' = req[r].op.arg /\ tok' = FALSE /\ claims' = claims \cup {r}
  /\ Unlock(r) /\ Done(r)
  /\ UNCHANGED <<mount, disk, up, settled, fleet, count, astray>>
ListenSaved == /\ At(Main, "written") /\ Done(Main)
               /\ UNCHANGED <<mount, disk, up, page, fleet, lock, count, astray>>

(* serveApplyPassword adopts what was typed once more, without the lock.   *)
AdoptTyped(r) ==
  /\ At(r, "adopt") /\ adoptResolvedPassword(req[r].op.arg) /\ Done(r)
  /\ UNCHANGED <<mount, disk, up, tok, claims, fleet, lock, count, astray>>

-----------------------------------------------------------------------------
(* A person puts a file where there was none, at any time.  After a claim  *)
(* has looked, the file is still kept beside the one that overwrites it if *)
(* it comes before saveConfig copies the old one (Backup is both).         *)
Looked == \E r \in DOMAIN req : At(r, "rename")
HandWrite(t) ==
  /\ file = Absent /\ mount = "folder"
  /\ file' = t
  /\ \/ UNCHANGED bak
     \/ Looked /\ bak' = t
  /\ astray' = astray \cup {"hand"} \cup (IF Looked THEN {"late"} ELSE {})
  /\ UNCHANGED <<mount, up, page, fleet, lock, req, count>>

(* The process dies; a write in place can have got half way.               *)
Crash ==
  /\ up /\ faults < MaxFaults /\ faults' = faults + 1
  /\ up' = FALSE /\ lock' = Free /\ req' = [r \in DOMAIN req |-> Idle]
  /\ IF \E r \in DOMAIN req : At(r, "write") THEN file' \in {Empty, Torn} ELSE UNCHANGED file
  /\ UNCHANGED <<mount, bak, page, fleet, made, astray>>

(* What the backup is for.                                                 *)
Restore == /\ ~up /\ file.is \in {"torn", "empty"} /\ bak.is = "whole"
           /\ file' = bak
           /\ UNCHANGED <<mount, bak, up, page, fleet, lock, req, count, astray>>
-----------------------------------------------------------------------------
First == Text("whole", "old", {}, 0)

Init ==
  /\ mount \in Mounts
  /\ file \in {First} \cup (IF mount = "folder" THEN {Absent} ELSE {})
  /\ bak = Absent /\ up = FALSE /\ pw = "" /\ settled = FALSE /\ tok = FALSE
  /\ fleet = {} /\ lock = Free /\ req = [r \in Requests \cup {Main} |-> Idle]
  /\ made = 0 /\ faults = 0 /\ claims = {} /\ astray = {}

Serve(r) == \/ Read(r) \/ Lock(r) \/ ClaimLate(r) \/ Backup(r) \/ Rename(r) \/ Truncate(r)
            \/ Write(r) \/ Apply(r) \/ ApplyRefused(r) \/ ClaimTaken(r) \/ AdoptTyped(r)

Next == \/ \E flags \in BOOLEAN : Boot(flags)
        \/ \E r \in Requests, o \in Ops : Arrive(r, o)
        \/ \E r \in Requests \cup {Main} : Serve(r) \/ WriteFails(r)
        \/ ListenSaved
        \/ \E p \in {"unset", "old", "open"} : HandWrite(Text("whole", p, {}, 0))
        \/ Crash \/ Restore

Spec == Init /\ [][Next]_vars

-----------------------------------------------------------------------------
TypeOK ==
  /\ file.is \in {"absent", "whole", "empty", "torn"} /\ bak.is \in {"absent", "whole", "empty", "torn"}
  /\ fleet \subseteq Cams /\ lock \in Requests \cup {Free}
  /\ \A r \in DOMAIN req : req[r].at \in {"idle", "read", "lock", "save", "rename", "truncate",
                                          "write", "written", "adopt"}

(* A half-written file is beside a whole one at every step at which the    *)
(* process can die: "the backup is what makes that recoverable".  (Not     *)
(* after a save that found the file torn or truncated: its backup is of    *)
(* that.)                                                                  *)
SomeCopyWhole == file.is \in {"torn", "empty"} /\ "torn" \notin astray => bak.is = "whole"
Recoverable == TypeOK /\ SomeCopyWhole

(* With no save under way the fleet that runs is the fleet of the file,    *)
(* however saves overlap.  (Not after a person's edit, a write in place    *)
(* that failed, or a save of listen flags that overwrote another's.)       *)
FleetFollowsFile ==
  up /\ lock = Free /\ astray = {} /\ file.is \in {"absent", "whole"}
    /\ (\A r \in DOMAIN req : req[r].at \notin {"rename", "truncate", "write", "written"})
  => fleet = file.cams

(* Whenever the process dies, and however saves overlap.                   *)
FileSound == Recoverable /\ FleetFollowsFile

(* However claims race each other, other saves and a file put there by     *)
(* hand: at most one is granted, and what is claimed stays claimed until   *)
(* the process ends.  "It will not be overwritten": a claim writes a file  *)
(* where there is none, and is granted where nobody has answered for the   *)
(* page yet; unless a person's file came after writeClaim had looked.      *)
StaysClaimed == /\ Cardinality(claims') <= 1
                /\ up /\ up' /\ Claimed /\ file.is = "whole" => Claimed'
WritesNew(r) == At(r, "rename") /\ req'[r].at = "written" => file = Absent
Answers(r) == r \in claims' \ claims => (pw = "" /\ ~settled) \/ pw = req[r].op.arg
ClaimsOver == \A r \in Requests : req[r].op.op = "claim" => WritesNew(r) /\ Answers(r)
ClaimedOnce == [][StaysClaimed /\ ("late" \notin astray => ClaimsOver)]_vars

(* Not so of a file that came after it had looked.                         *)
NeverOverwritten == [][ClaimsOver]_vars

(* After a change of password the page asks for the one the file holds.    *)
PageTakesFilePassword ==
  up /\ lock = Free /\ astray = {} /\ (\A r \in DOMAIN req : At(r, "idle"))
    /\ file.is = "whole" /\ pw \notin {"", "locked"}
  => pw = file.pw
=============================================================================
