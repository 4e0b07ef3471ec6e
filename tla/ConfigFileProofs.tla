--------------------------- MODULE ConfigFileProofs ---------------------------
(***************************************************************************)
(* Theorems about what the control page changes: about ConfigFile, for any *)
(* requests, cameras and passwords, and about CameraForms as MCConfig      *)
(* composes it, for any finite number of forms.                            *)
(*                                                                         *)
(* A request in the middle of a save holds configMu (Locked), so the text  *)
(* it writes and what follows are its own, and the fleet follows the file  *)
(* from one save to the next (FleetInv).  The save of the listen flags is  *)
(* the one without the lock: it goes unnoticed only if it fell between two *)
(* saves, and then it changed no camera.                                   *)
(*                                                                         *)
(* A form may answer "confirmed" as long as the step that decides, the one *)
(* that reads back what it wrote, is ahead of it (Deciding); when that     *)
(* step finds what was sent the camera holds it.  A form has the clock it  *)
(* sends from a document it read or copied while it was being served, or   *)
(* has yet to read it (Clocked), so the clock is behind by at most one     *)
(* tick for each form that is late or over (Behind).                       *)
(***************************************************************************)
EXTENDS MCConfig, FiniteSetTheorems, SequenceTheorems, WellFoundedInduction, TLAPS

Everyone == Requests \union {Main}

\* A text: one that is not whole says nothing.
Written == {"none", "open", "unset", "old"} \union Passwords \union {Mangled(p) : p \in Passwords}
FileTexts == [is : {"absent", "whole", "empty", "torn"}, pw : Written, cams : SUBSET Cams, listen : {0, 1}]
Shaped(t) == t \in FileTexts /\ (t.is # "whole" => t = Blank(t.is))

AllOps == Ops \union {[op |-> "none", arg |-> 0], [op |-> "listen", arg |-> 0]}
Stages == {"idle", "read", "lock", "save", "rename", "truncate", "write", "written", "adopt"}
ReqType == [op : AllOps, at : Stages, text : FileTexts, old : FileTexts]

\* Where a request has a text to write; where it holds configMu; where it has
\* begun to write.
HasText(r) == req[r].at \in {"lock", "save", "rename", "truncate", "write", "written"}
Saving(r) == req[r].at \in {"save", "rename", "truncate", "write", "written"}
Writing(r) == req[r].at \in {"rename", "truncate", "write", "written"}

Types ==
  /\ mount \in {"folder", "file"} /\ Shaped(file) /\ Shaped(bak)
  /\ up \in BOOLEAN /\ settled \in BOOLEAN /\ tok \in BOOLEAN
  /\ pw \in {"", "locked"} \union Written
  /\ fleet \in SUBSET Cams /\ lock \in Requests \union {Free}
  /\ req \in [Everyone -> ReqType]
  /\ claims \in SUBSET Requests /\ astray \in SUBSET {"hand", "late", "listen", "torn"}

\* Who does what: the start of the daemon saves the listen flags and nothing
\* else does; and nobody is at work while the process is down.
Roles ==
  /\ ~up => lock = Free /\ \A r \in Everyone : req[r] = Idle
  /\ req[Main].at # "idle" => req[Main].op.op = "listen" /\ req[Main].at # "adopt"
  /\ \A r \in Requests : req[r].at # "idle" => req[r].op \in Ops
  /\ \A r \in Requests : req[r].at = "adopt" => req[r].op.op = "password"

\* What is written would load, and is written by the one way the mount allows.
Sound ==
  /\ \A r \in Everyone : HasText(r) => req[r].text.is = "whole" /\ req[r].text.pw # "unset"
  /\ HasText(Main) => req[Main].old.is # "torn"
  /\ \A r \in Everyone : req[r].at = "rename" => mount = "folder"
  /\ \A r \in Everyone : req[r].at \in {"truncate", "write"} => mount = "file"
  /\ mount = "folder" => file.is \in {"absent", "whole"}
  /\ mount = "file" => file.is # "absent"

\* configMu is held by the request in the middle of a save.
Locked == \A r \in Requests : Saving(r) <=> lock = r

\* The backup is whole before the file is truncated.
Copies ==
  "torn" \notin astray =>
    /\ file.is \in {"torn", "empty"} => bak.is = "whole"
    /\ \A r \in Everyone : req[r].at \in {"truncate", "write"} => bak.is = "whole"

\* The page asks for a password of its own.
Asks == pw \notin {"", "locked"}

\* A claim is written only where nothing was claimed.
Claims ==
  /\ claims = {} \/ (Asks /\ \E r \in Requests : claims = {r})
  /\ \A r \in Requests : req[r].op.op = "claim" => mount = "folder"
  /\ \A r \in Requests : HasText(r) /\ req[r].op.op = "claim" =>
       req[r].text.cams = {} /\ req[r].text.pw = req[r].op.arg
  /\ \A r \in Requests : Writing(r) /\ req[r].op.op = "claim" => claims = {}

\* Where there is no file the page asks nothing, nothing has been saved, and no
\* listen flags are.
Vacant ==
  up /\ file = Absent =>
    /\ pw = "" /\ ~ settled /\ req[Main].at = "idle"
    /\ \A r \in Everyone : req[r].at \notin {"written", "adopt"}

\* A claim that writes finds no file, unless a person's came late; and what it
\* wrote is all the page has heard of when it is granted.
Claiming ==
  "late" \notin astray => \A r \in Requests : req[r].op.op = "claim" =>
    /\ req[r].at = "rename" => file = Absent
    /\ req[r].at = "written" =>
         /\ file = req[r].text /\ req[Main].at = "idle"
         /\ \A q \in Everyone : req[q].at # "adopt"
         /\ (pw = "" /\ ~ settled) \/ pw = req[r].op.arg

\* In a folder every file has a password or says it needs none.  A file mounted
\* on its own may have no page; if it has, the page asks for a password.
Secrets ==
  /\ mount = "folder" =>
       /\ file.is = "whole" => file.pw # "none"
       /\ \A r \in Everyone : HasText(r) => req[r].text.pw # "none"
  /\ mount = "file" =>
       /\ file.pw \notin {"open", "unset"} /\ bak.pw \notin {"open", "unset"}
       /\ \A r \in Everyone : HasText(r) => req[r].text.pw \notin {"open", "unset"}
       /\ up => Asks \/ (file.pw = "none" /\ \A r \in Everyone : HasText(r) => req[r].text.pw = "none")

\* With nothing astray: the fleet is that of the file unless a request is
\* writing; what a request wrote is there until it has been applied; a claim
\* finds no fleet; and the listen flags were saved between two saves.
FleetInv ==
  up /\ astray = {} =>
    /\ (\A r \in Requests : ~Writing(r)) /\ req[Main].at # "write" /\ file.is # "torn" =>
         fleet = file.cams
    /\ \A r \in Requests : req[r].at = "written" => file = req[r].text
    /\ \A r \in Requests : Writing(r) /\ req[r].op.op = "claim" => fleet = {}
    /\ HasText(Main) => req[Main].text.cams = req[Main].old.cams
    /\ req[Main].at = "write" =>
         file = Empty /\ (\A r \in Requests : ~Writing(r)) /\ fleet = req[Main].text.cams

IInv == Types /\ Roles /\ Sound /\ Locked /\ Copies /\ Claims /\ Vacant /\ Claiming
        /\ Secrets /\ FleetInv

-----------------------------------------------------------------------------
(* FileTexts and requests *)

\* A text that is not whole is one of three.
LEMMA Blanks ==
  /\ \A is \in {"absent", "empty", "torn"} :
       Shaped(Blank(is)) /\ Blank(is).is = is /\ Blank(is).pw = "none" /\ Blank(is).cams = {}
  /\ Absent = Blank("absent") /\ Empty = Blank("empty") /\ Torn = Blank("torn")
  /\ Shaped(First) /\ First.is = "whole" /\ First.pw = "old" /\ First.cams = {}
<1>1. \A is \in {"absent", "empty", "torn"} :
        Blank(is) = [is |-> is, pw |-> "none", cams |-> {}, listen |-> 0]
  BY DEF Blank, Text
<1>2. \A is \in {"absent", "empty", "torn"} : Blank(is) \in FileTexts
  BY <1>1 DEF FileTexts, Written
<1>3. First = [is |-> "whole", pw |-> "old", cams |-> {}, listen |-> 0]
  BY DEF First, Text
<1>4. First \in FileTexts
  BY <1>3 DEF FileTexts, Written
<1> QED BY <1>1, <1>2, <1>3, <1>4 DEF Shaped, Absent, Empty, Torn

\* What is in a text.
LEMMA TextIs ==
  ASSUME NEW t \in FileTexts
  PROVE  /\ t.is \in {"absent", "whole", "empty", "torn"} /\ t.pw \in Written
         /\ t.cams \in SUBSET Cams /\ t.listen \in {0, 1}
  BY DEF FileTexts

\* A text with other cameras, another password or the listen flags.
LEMMA TextWith ==
  ASSUME NEW t \in FileTexts
  PROVE  /\ \A c \in SUBSET Cams :
              LET u == [t EXCEPT !.is = "whole", !.cams = c]
              IN  u \in FileTexts /\ u.is = "whole" /\ u.pw = t.pw
         /\ \A c \in SUBSET Cams :
              LET u == [t EXCEPT !.cams = c]
              IN  u \in FileTexts /\ u.is = t.is /\ u.pw = t.pw
         /\ \A p \in Written :
              LET u == [t EXCEPT !.pw = p]
              IN  u \in FileTexts /\ u.is = t.is /\ u.pw = p
         /\ LET u == [t EXCEPT !.is = "whole"]
            IN  u \in FileTexts /\ u.is = "whole" /\ u.pw = t.pw
         /\ LET u == [t EXCEPT !.is = "whole", !.listen = 1]
            IN  u \in FileTexts /\ u.is = "whole" /\ u.pw = t.pw /\ u.cams = t.cams
  BY DEF FileTexts

\* What the operations are.
LEMMA OpIs ==
  ASSUME NEW o \in Ops
  PROVE  /\ o.op \in {"save", "found", "remove", "password", "claim", "set", "raw"}
         /\ o.op \in {"save", "found", "remove"} => o.arg \in Cams
         /\ o.op \in {"password", "claim"} => o.arg \in Passwords
  BY DEF Ops

\* A password is none of the words for none, as typed and as written.
LEMMA PasswordIs ==
  ASSUME NEW p \in Passwords
  PROVE  /\ p \in Written /\ Mangled(p) \in Written
         /\ p \notin Markers /\ Mangled(p) \notin Markers
  BY ConfigFileAssumption DEF Written

\* An edit that is not refused makes a whole text; only a claim and a change
\* of password touch the password, and they write one; a save of the listen
\* flags touches no camera.
LEMMA EditedIs ==
  ASSUME NEW t, Shaped(t), NEW o,
         o \in Ops \/ o.op = "listen", Loads(Edited(o, t))
  PROVE  LET e == Edited(o, t)
         IN  /\ e \in FileTexts /\ e.is = "whole" /\ e.pw # "unset"
             /\ e.pw = t.pw \/ (e.pw \notin Markers /\ (o.op = "claim" \/ t.pw # "none"))
             /\ o.op # "claim" => t.is \in {"whole", "empty"}
             /\ o.op = "claim" => e.cams = {} /\ e.pw # "none" /\ e.pw = o.arg
             /\ o.op = "listen" => e.cams = t.cams
<1> DEFINE e == Edited(o, t)
<1>1. t \in FileTexts /\ ~ Loads(Torn)
  BY Blanks DEF Shaped, Loads
<1>2. CASE o.op = "claim"
  <2>1. o.arg \in Passwords
    BY <1>2, OpIs
  <2>2. e = [is |-> "whole", pw |-> o.arg, cams |-> {}, listen |-> 1]
    BY <1>2 DEF Edited, claimConfigText, Text
  <2>3. o.arg \in Written /\ o.arg \notin Markers
    BY <2>1, PasswordIs
  <2> HIDE DEF e
  <2>4. e \in FileTexts /\ e.is = "whole" /\ e.pw = o.arg /\ e.cams = {}
    BY <2>2, <2>3 DEF FileTexts
  <2> QED BY <1>2, <2>3, <2>4 DEF e, Markers
<1>3. CASE o.op # "claim"
  <2>1. t.is \in {"whole", "empty"}
    BY <1>1, <1>3 DEF Edited
  <2>2. t.cams \in SUBSET Cams /\ t.pw \in Written
    BY <1>1, TextIs
  <2>3. CASE o.op \in {"save", "found"}
    <3>1. e = saveCamera(t, o.arg)
      BY <2>1, <2>3 DEF Edited
    <3>2. t.cams \cup {o.arg} \in SUBSET Cams
      BY <2>2, <2>3, OpIs
    <3>3. e = [t EXCEPT !.is = "whole", !.cams = t.cams \cup {o.arg}]
      BY <3>1 DEF saveCamera
    <3> HIDE DEF e
    <3>4. e \in FileTexts /\ e.is = "whole" /\ e.pw = t.pw
      BY <1>1, <3>2, <3>3, TextWith
    <3> QED BY <2>1, <2>3, <3>4 DEF Loads, e
  <2>4. CASE o.op = "remove"
    <3>1. e = serveRemoveCamera(t, o.arg)
      BY <2>1, <2>4 DEF Edited
    <3>2. o.arg \in t.cams /\ e = [t EXCEPT !.cams = t.cams \ {o.arg}]
      BY <1>1, <3>1 DEF serveRemoveCamera
    <3>3. t.is = "whole"
      <4>1. t.is = "empty" => t.cams = {}
        BY Blanks DEF Shaped
      <4> QED BY <2>1, <3>2, <4>1
    <3>4. t.cams \ {o.arg} \in SUBSET Cams
      BY <2>2
    <3> HIDE DEF e
    <3>5. e \in FileTexts /\ e.is = "whole" /\ e.pw = t.pw
      BY <1>1, <3>2, <3>3, <3>4, TextWith
    <3> QED BY <2>1, <2>4, <3>5 DEF Loads, e
  <2>5. CASE o.op = "set"
    <3>1. e = [t EXCEPT !.is = "whole"]
      BY <2>1, <2>5 DEF Edited, saveEventsPage
    <3> HIDE DEF e
    <3>2. e \in FileTexts /\ e.is = "whole" /\ e.pw = t.pw
      BY <1>1, <3>1, TextWith
    <3> QED BY <2>1, <2>5, <3>2 DEF Loads, e
  <2>6. CASE o.op = "raw"
    <3>1. e = [t EXCEPT !.is = "whole", !.cams = {}]
      BY <2>1, <2>6 DEF Edited, saveConfigPage
    <3> HIDE DEF e
    <3>2. e \in FileTexts /\ e.is = "whole" /\ e.pw = t.pw
      BY <1>1, <3>1, TextWith, ZenonT(40)
    <3> QED BY <2>1, <2>6, <3>2 DEF Loads, e
  <2>7. CASE o.op = "password"
    <3>1. e = serveApplyPassword(t, o.arg)
      BY <2>1, <2>7 DEF Edited
    <3>2. t.pw # "none" /\ e = [t EXCEPT !.pw = Mangled(o.arg)]
      BY <1>1, <3>1 DEF serveApplyPassword
    <3>3. t.is = "whole"
      <4>1. t.is = "empty" => t.pw = "none"
        BY Blanks DEF Shaped
      <4> QED BY <2>1, <3>2, <4>1
    <3>4. Mangled(o.arg) \in Written /\ Mangled(o.arg) \notin Markers
      BY <2>7, OpIs, PasswordIs
    <3> DEFINE p == Mangled(o.arg)
    <3>5. p \in Written /\ p \notin Markers /\ e = [t EXCEPT !.pw = p]
      BY <3>2, <3>4
    <3> HIDE DEF e, p
    <3>6. e \in FileTexts /\ e.is = "whole" /\ e.pw = p
      BY <1>1, <3>3, <3>5, TextWith
    <3> QED BY <2>1, <2>7, <3>2, <3>5, <3>6 DEF Markers, e
  <2>8. CASE o.op = "listen"
    <3>1. e = [t EXCEPT !.is = "whole", !.listen = 1]
      BY <2>1, <2>8 DEF Edited, saveListenFlags
    <3> HIDE DEF e
    <3>2. e \in FileTexts /\ e.is = "whole" /\ e.pw = t.pw /\ e.cams = t.cams
      BY <1>1, <3>1, TextWith
    <3> QED BY <2>1, <2>8, <3>2 DEF Loads, e
  <2> QED BY <1>3, <2>3, <2>4, <2>5, <2>6, <2>7, <2>8, OpIs
<1> QED BY <1>2, <1>3

\* A request at a stage is a request.
LEMMA ReqIs ==
  ASSUME NEW x \in ReqType
  PROVE  /\ x.op \in AllOps /\ x.at \in Stages /\ x.text \in FileTexts /\ x.old \in FileTexts
         /\ \A pc \in Stages : [x EXCEPT !.at = pc] \in ReqType
         /\ \A t \in FileTexts, u \in FileTexts :
              [x EXCEPT !.at = "lock", !.text = t, !.old = u] \in ReqType
  BY DEF ReqType, Stages

\* Idle is a request that has nothing to do.
LEMMA IdleIs == Idle \in ReqType /\ Idle.at = "idle" /\ Idle.op.op = "none"
<1>1. Absent \in FileTexts
  BY Blanks DEF Shaped
<1>2. [op |-> "none", arg |-> 0] \in AllOps
  BY DEF AllOps
<1> QED BY <1>1, <1>2 DEF Idle, ReqType, Stages

\* r goes on to a stage, or is done, and the others stay.
Others(r) == req' \in [Everyone -> ReqType] /\ \A q \in Everyone : q # r => req'[q] = req[q]
Moves(r, pc) ==
  /\ Others(r)
  /\ req'[r].at = pc /\ req'[r].op = req[r].op /\ req'[r].text = req[r].text /\ req'[r].old = req[r].old

\* A request that goes on keeps its operation and its texts.
LEMMA GotoIs ==
  ASSUME Types, NEW r \in Everyone, NEW pc \in Stages, Goto(r, pc)
  PROVE  Moves(r, pc)
<1>1. req \in [Everyone -> ReqType] /\ req' = [req EXCEPT ![r].at = pc]
  BY DEF Types, Goto
<1>2. req' = [req EXCEPT ![r] = [req[r] EXCEPT !.at = pc]]
  BY <1>1
<1>3. req[r] \in ReqType
  BY <1>1
<1> DEFINE y == [req[r] EXCEPT !.at = pc]
<1>4. y \in ReqType
  BY <1>3, ReqIs
<1>5. y.at = pc /\ y.op = req[r].op /\ y.text = req[r].text /\ y.old = req[r].old
  BY <1>3 DEF ReqType
<1> HIDE DEF y
<1>6. req' = [req EXCEPT ![r] = y]
  BY <1>2 DEF y
<1>7. req' \in [Everyone -> ReqType] /\ req'[r] = y /\ \A q \in Everyone : q # r => req'[q] = req[q]
  BY <1>1, <1>4, <1>6
<1> QED BY <1>5, <1>7 DEF Moves, Others

\* A request replaced by another.
LEMMA PutIs ==
  ASSUME Types, NEW r \in Everyone, NEW y \in ReqType, req' = [req EXCEPT ![r] = y]
  PROVE  Others(r) /\ req'[r] = y
  BY DEF Types, Others

\* A request that is done is idle.
LEMMA DoneIs ==
  ASSUME Types, NEW r \in Everyone, Done(r)
  PROVE  Others(r) /\ req'[r] = Idle
  BY IdleIs, PutIs DEF Done

\* Looking at the file may settle the claim: a page that asks for a password
\* goes on doing so.
LEMMA ClaimedIs ==
  ASSUME Types, claimed
  PROVE  /\ pw' \in {"", "locked"} \union Written /\ settled' \in BOOLEAN
         /\ Asks => UNCHANGED pw
         /\ pw # "locked" /\ (settled \/ pw # "") => UNCHANGED <<pw, settled>>
<1>1. file.pw \in Written
  BY TextIs DEF Types, Shaped
<1> QED BY <1>1 DEF claimed, Asks, Types, adoptResolvedPassword

-----------------------------------------------------------------------------
(* The steps of a request *)

\* Nobody is at work while the process is down.
LEMMA AtWork ==
  ASSUME Roles, NEW r \in Everyone, req[r].at # "idle"
  PROVE  up
  BY IdleIs DEF Roles

\* Who is at work, and on what.
LEMMA WhoIs ==
  ASSUME Roles, NEW r \in Everyone, req[r].at # "idle"
  PROVE  /\ r = Main => req[r].op.op = "listen" /\ req[r].at # "adopt"
         /\ r # Main => r \in Requests /\ req[r].op \in Ops
         /\ req[r].op \in Ops \/ req[r].op.op = "listen"
  BY DEF Roles, Everyone

\* How far a step brings a request.
LEMMA Served ==
  ASSUME Types, NEW r \in Everyone
  PROVE  /\ Lock(r) => Moves(r, "save")
         /\ Backup(r) => \/ Moves(r, "rename") /\ mount = "folder"
                         \/ Moves(r, "truncate") /\ mount = "file"
         /\ Rename(r) => Moves(r, "written")
         /\ Truncate(r) => Moves(r, "write")
         /\ Write(r) => Moves(r, "written")
         /\ ClaimLate(r) \/ WriteFails(r) \/ ApplyRefused(r) \/ ClaimTaken(r) \/ AdoptTyped(r) =>
              Others(r) /\ req'[r] = Idle
<1>1. \A pc \in Stages : Goto(r, pc) => Moves(r, pc)
  BY GotoIs
<1>2. Done(r) => Others(r) /\ req'[r] = Idle
  BY DoneIs
<1>3. {"save", "rename", "truncate", "write", "written"} \subseteq Stages
  BY DEF Stages
<1>4. Backup(r) => \/ Moves(r, "rename") /\ mount = "folder"
                   \/ Moves(r, "truncate") /\ mount = "file"
  <2> SUFFICES ASSUME Backup(r) PROVE \/ Moves(r, "rename") /\ mount = "folder"
                                      \/ Moves(r, "truncate") /\ mount = "file"
    OBVIOUS
  <2>1. Goto(r, IF mount = "folder" THEN "rename" ELSE "truncate")
    BY DEF Backup
  <2>2. CASE mount = "folder"
    <3>1. Goto(r, "rename")
      BY <2>1, <2>2
    <3> QED BY <1>1, <1>3, <2>2, <3>1
  <2>3. CASE mount # "folder"
    <3>1. Goto(r, "truncate") /\ mount = "file"
      BY <2>1, <2>3 DEF Types
    <3> QED BY <1>1, <1>3, <3>1
  <2> QED BY <2>2, <2>3
<1>5. /\ Lock(r) => Goto(r, "save")
      /\ Rename(r) => Goto(r, "written")
      /\ Truncate(r) => Goto(r, "write")
      /\ Write(r) => Goto(r, "written")
  BY DEF Lock, Rename, Truncate, Write
<1>6. ClaimLate(r) \/ WriteFails(r) \/ ApplyRefused(r) \/ ClaimTaken(r) \/ AdoptTyped(r) => Done(r)
  BY DEF ClaimLate, WriteFails, ApplyRefused, ClaimTaken, AdoptTyped
<1> QED BY <1>1, <1>2, <1>3, <1>4, <1>5, <1>6

\* A request that has read the file has the text it makes of it, or is refused.
ReadsText(r) ==
  /\ req'[r].at = "lock" /\ req'[r].op = req[r].op /\ req'[r].old = file
  /\ req'[r].text.is = "whole" /\ req'[r].text.pw # "unset"
  /\ \/ req'[r].text.pw = file.pw
     \/ req'[r].text.pw \notin Markers /\ (req[r].op.op = "claim" \/ file.pw # "none")
  /\ req[r].op.op = "claim" =>
       req'[r].text.cams = {} /\ req'[r].text.pw # "none" /\ req'[r].text.pw = req[r].op.arg
  /\ req[r].op.op # "claim" => file.is \in {"whole", "empty"}
  /\ req[r].op.op = "listen" => req'[r].text.cams = file.cams

\* What a read does.
LEMMA ReadIs ==
  ASSUME Types, Roles, NEW r \in Everyone, Read(r)
  PROVE  Others(r) /\ (req'[r] = Idle \/ ReadsText(r))
<1>1. req \in [Everyone -> ReqType] /\ Shaped(file) /\ file \in FileTexts
  BY DEF Types, Shaped
<1>2. req[r].op \in Ops \/ req[r].op.op = "listen"
  BY WhoIs DEF Read, At
<1> DEFINE t == Edited(req[r].op, file)
           x == req[r]
<1>3. IF Loads(t) THEN req' = [req EXCEPT ![r].at = "lock", ![r].text = t, ![r].old = file]
      ELSE req' = [req EXCEPT ![r] = Idle]
  BY DEF Read
<1>4. CASE ~ Loads(t)
  <2>1. Others(r) /\ req'[r] = Idle
    BY <1>3, <1>4, PutIs, IdleIs
  <2> QED BY <2>1
<1>5. CASE Loads(t)
  <2>1. /\ t \in FileTexts /\ t.is = "whole" /\ t.pw # "unset"
        /\ t.pw = file.pw \/ (t.pw \notin Markers /\ (x.op.op = "claim" \/ file.pw # "none"))
        /\ x.op.op # "claim" => file.is \in {"whole", "empty"}
        /\ x.op.op = "claim" => t.cams = {} /\ t.pw # "none" /\ t.pw = x.op.arg
        /\ x.op.op = "listen" => t.cams = file.cams
    BY <1>1, <1>2, <1>5, EditedIs
  <2> DEFINE y == [x EXCEPT !.at = "lock", !.text = t, !.old = file]
  <2>2. req' = [req EXCEPT ![r].at = "lock", ![r].text = t, ![r].old = file]
    BY <1>3, <1>5
  <2>3. x \in ReqType
    BY <1>1
  <2> HIDE DEF t
  <2>4. req' = [req EXCEPT ![r] = y]
    BY <1>1, <2>2
  <2> HIDE DEF x
  <2>5. y \in ReqType
    BY <1>1, <2>1, <2>3, ReqIs
  <2>6. y.at = "lock" /\ y.op = x.op /\ y.text = t /\ y.old = file
    BY <2>3 DEF ReqType
  <2> HIDE DEF y
  <2>7. Others(r) /\ req'[r] = y
    BY <2>4, <2>5, PutIs
  <2> QED BY <2>1, <2>6, <2>7 DEF ReadsText, x
<1> QED BY <1>4, <1>5

\* A request whose save has been applied is done, or adds the next camera, or
\* adopts the password that was typed.
Applied(r) ==
  \/ req'[r] = Idle
  \/ /\ req'[r].at = "read" /\ req'[r].op \in Ops /\ req'[r].op.op = "save"
  \/ /\ req'[r].at = "adopt" /\ req'[r].op = req[r].op /\ req[r].op.op = "password"

\* What applying a save does to the request.
LEMMA ApplyIs ==
  ASSUME Types, Roles, NEW r \in Everyone, Apply(r)
  PROVE  Others(r) /\ Applied(r)
<1>1. req \in [Everyone -> ReqType] /\ req[r] \in ReqType
  BY DEF Types
<1>2. req[r].op \in Ops
  BY WhoIs DEF Apply, At
<1> DEFINE x == req[r]
<1>3. CASE req[r].op.op = "password"
  <2>1. Goto(r, "adopt")
    BY <1>3 DEF Apply
  <2>2. Moves(r, "adopt")
    BY <2>1, GotoIs DEF Stages
  <2> QED BY <1>3, <2>2 DEF Moves, Applied
<1>4. CASE req[r].op.op = "found"
  <2>1. serveAddFound(r)
    BY <1>4 DEF Apply
  <2> DEFINE o == [x.op EXCEPT !.op = "save"]
             y == [x EXCEPT !.op = o, !.at = "read"]
  <2>2. req' = [req EXCEPT ![r] = y]
    BY <2>1, <1>1 DEF serveAddFound
  <2>3. o = [op |-> "save", arg |-> x.op.arg] /\ x.op.arg \in Cams
    BY <1>2, <1>4 DEF Ops
  <2>4. o \in Ops /\ o.op = "save"
    BY <2>3 DEF Ops
  <2>5. o \in AllOps
    BY <2>4 DEF AllOps
  <2> HIDE DEF o
  <2>6. y \in ReqType /\ y.at = "read" /\ y.op = o
    BY <1>1, <2>5 DEF ReqType, Stages
  <2> HIDE DEF y
  <2>7. Others(r) /\ req'[r] = y
    BY <2>2, <2>6, PutIs
  <2> QED BY <2>4, <2>6, <2>7 DEF Applied
<1>5. CASE req[r].op.op \notin {"password", "found"}
  <2>1. Done(r)
    BY <1>5 DEF Apply
  <2> QED BY <2>1, DoneIs DEF Applied
<1> QED BY <1>3, <1>4, <1>5

\* A request arrives.
LEMMA ArriveIs ==
  ASSUME Types, NEW r \in Requests, NEW o \in Ops, Arrive(r, o)
  PROVE  Others(r) /\ req'[r].at = "read" /\ req'[r].op = o
<1> DEFINE y == [Idle EXCEPT !.op = o, !.at = "read"]
<1>1. req' = [req EXCEPT ![r] = y] /\ r \in Everyone
  BY DEF Arrive, Everyone
<1>2. y.at = "read" /\ y.op = o /\ y \in ReqType
  BY IdleIs DEF ReqType, Stages, AllOps
<1> HIDE DEF y
<1> QED BY <1>1, <1>2, PutIs

\* The daemon starts, and may have listen flags to save.
LEMMA BootIs ==
  ASSUME Types, NEW flags \in BOOLEAN, Boot(flags)
  PROVE  \/ req' = req
         \/ Others(Main) /\ req'[Main].at = "read" /\ req'[Main].op.op = "listen"
<1> DEFINE y == [Idle EXCEPT !.op.op = "listen", !.at = "read"]
<1>1. req' = req \/ req' = [req EXCEPT ![Main] = y]
  BY DEF Boot
<1> DEFINE o == [Idle.op EXCEPT !.op = "listen"]
<1>2. y = [Idle EXCEPT !.op = o, !.at = "read"]
  OBVIOUS
<1>3. o = [op |-> "listen", arg |-> 0]
  BY DEF Idle
<1>4. y.at = "read" /\ y.op.op = "listen" /\ y \in ReqType
  <2>1. o \in AllOps /\ o.op = "listen"
    BY <1>3 DEF AllOps
  <2> HIDE DEF o
  <2> DEFINE z == [Idle EXCEPT !.op = o, !.at = "read"]
  <2>2. z \in ReqType /\ z.at = "read" /\ z.op = o
    BY <2>1, IdleIs DEF ReqType, Stages
  <2> QED BY <1>2, <2>1, <2>2
<1> HIDE DEF y
<1>5. Main \in Everyone
  BY DEF Everyone
<1> QED BY <1>1, <1>4, <1>5, PutIs

\* The listen flags are saved.
LEMMA ListenSavedIs ==
  ASSUME Types, ListenSaved
  PROVE  Main \in Everyone /\ Others(Main) /\ req'[Main] = Idle
  BY DoneIs DEF ListenSaved, Everyone

\* The process dies, and its requests with it.
LEMMA CrashIs ==
  ASSUME Types, Crash
  PROVE  /\ req' \in [Everyone -> ReqType] /\ \A q \in Everyone : req'[q] = Idle
         /\ \/ file' = file
            \/ (\E q \in Everyone : req[q].at = "write") /\ (file' = Empty \/ file' = Torn)
<1>1. req' = [q \in Everyone |-> Idle]
  BY DEF Types, Crash
<1>2. req' \in [Everyone -> ReqType] /\ \A q \in Everyone : req'[q] = Idle
  BY <1>1, IdleIs
<1> QED BY <1>2 DEF Crash, Types, At

\* The page is not asked twice for what it asks already.
LEMMA AdoptIs ==
  ASSUME NEW p, adoptResolvedPassword(p)
  PROVE  pw' = p /\ settled' = (settled \/ p # pw)
  BY DEF adoptResolvedPassword

\* The password a save or a change of password leaves with the page.
LEMMA PageIs ==
  ASSUME Types, Roles, NEW r \in Everyone, Apply(r) \/ AdoptTyped(r)
  PROVE  /\ settled' \in BOOLEAN
         /\ \/ pw' = pw /\ settled' = settled
            \/ pw' \in Written /\ pw' \notin {"", "locked"}
<1>1. CASE Apply(r)
  <2>1. file.pw \in Written /\ Loads(file)
    BY <1>1, TextIs DEF Types, Shaped, Apply
  <2>2. CASE file.pw \in {"none", "open"}
    BY <1>1, <2>2 DEF Apply, Types
  <2>3. CASE file.pw \notin {"none", "open"}
    <3>1. adoptResolvedPassword(file.pw)
      BY <1>1, <2>3 DEF Apply
    <3>2. \A p \in Passwords : p \notin Markers /\ Mangled(p) \notin Markers
      BY PasswordIs
    <3>3. file.pw \notin {"", "locked"}
      BY <2>1, <2>3, <3>2 DEF Written, Markers
    <3> QED BY <2>1, <3>1, <3>3, AdoptIs DEF Types
  <2> QED BY <2>2, <2>3
<1>2. CASE AdoptTyped(r)
  <2>1. req[r].op \in Ops /\ req[r].op.op = "password"
    BY <1>2 DEF Roles, AdoptTyped, At, Everyone
  <2>2. req[r].op.arg \in Passwords
    BY <2>1, OpIs
  <2>3. adoptResolvedPassword(req[r].op.arg)
    BY <1>2 DEF AdoptTyped
  <2> QED BY <2>2, <2>3, AdoptIs, PasswordIs DEF Types, Markers
<1> QED BY <1>1, <1>2

\* The password of a claim.
LEMMA ClaimTakenIs ==
  ASSUME Types, Roles, NEW r \in Everyone, ClaimTaken(r)
  PROVE  /\ r \in Requests /\ pw' \in Written /\ pw' \notin {"", "locked"}
         /\ settled' = settled /\ claims' = claims \union {r}
<1>1. r \in Requests /\ req[r].op \in Ops /\ req[r].op.op = "claim"
  BY WhoIs DEF ClaimTaken, At
<1>2. req[r].op.arg \in Passwords
  BY <1>1, OpIs
<1> QED BY <1>1, <1>2, PasswordIs DEF ClaimTaken, Markers

-----------------------------------------------------------------------------
(* The invariant *)

\* It holds at the start.
LEMMA InitInv ==
  ASSUME Init
  PROVE  IInv
<1>1. req \in [Everyone -> ReqType] /\ \A r \in Everyone : req[r] = Idle
  BY IdleIs DEF Init, Everyone
<1>2. mount \in {"folder", "file"} /\ (file = First \/ (file = Absent /\ mount = "folder")) /\ bak = Absent
  BY ConfigFileAssumption DEF Init
<1>3. \A r \in Everyone : req[r].at = "idle" /\ req[r].op.op = "none"
  BY <1>1, IdleIs
<1>4. /\ Shaped(file) /\ Shaped(bak) /\ file.is \in {"absent", "whole"} /\ bak.pw = "none"
      /\ file.is = "absent" => file = Absent
      /\ file.is = "whole" => file = First
      /\ file.pw \in {"none", "old"} /\ file.cams = {}
      /\ mount = "file" => file.is = "whole"
      /\ file.is = "whole" => file.pw = "old"
  BY <1>2, Blanks
<1>5. Types
  BY <1>1, <1>2, <1>4 DEF Types, Init
<1>6. Roles
  BY <1>1, <1>3 DEF Roles, Init, Everyone
<1>7. Sound
  BY <1>3, <1>4, <1>2 DEF Sound, HasText, Everyone
<1>8. Locked
  BY <1>3, ConfigFileAssumption DEF Locked, Saving, Init, Everyone
<1>9. Copies
  BY <1>3, <1>4 DEF Copies
<1>10. Claims
  BY <1>3 DEF Claims, Writing, HasText, Init, Everyone
<1>11. Secrets
  BY <1>3, <1>4 DEF Secrets, HasText, Init
<1>12. FleetInv
  BY DEF FleetInv, Init
<1>13. Vacant /\ Claiming
  BY <1>3 DEF Vacant, Claiming, Init, Everyone
<1> QED BY <1>5, <1>6, <1>7, <1>8, <1>9, <1>10, <1>11, <1>12, <1>13 DEF IInv

\* Every variable keeps its type.
LEMMA TypesStep ==
  ASSUME Types, Roles, Sound, [Next]_vars
  PROVE  Types'
<1>1. ASSUME NEW flags \in BOOLEAN, Boot(flags)
      PROVE  Types'
  <2>1. \/ req' = req
        \/ Others(Main) /\ req'[Main].at = "read" /\ req'[Main].op.op = "listen"
    BY <1>1, BootIs
  <2>2. pw' \in {"", "locked"} \union Written /\ fleet' \in SUBSET Cams
    BY <1>1, TextIs DEF Boot, Types, Shaped
  <2>3. req' \in [Everyone -> ReqType]
    BY <2>1 DEF Others, Types
  <2>4. astray' \in SUBSET {"hand", "late", "listen", "torn"}
    BY <1>1 DEF Boot, Types
  <2> QED BY <1>1, <2>1, <2>2, <2>3, <2>4
        DEF Boot, Others, Types, disk, page, count
<1>2. ASSUME NEW r \in Requests, NEW o \in Ops, Arrive(r, o)
      PROVE  Types'
  <2>1. Others(r) /\ req'[r].at = "read" /\ req'[r].op = o
    BY <1>2, ArriveIs
  <2>2. pw' \in {"", "locked"} \union Written /\ settled' \in BOOLEAN
    BY <1>2, ClaimedIs DEF Arrive
  <2> QED BY <1>2, <2>1, <2>2
        DEF Arrive, Others, Types, disk, page, count
<1>3. ASSUME NEW r \in Everyone, Read(r)
      PROVE  Types'
  <2>1. Others(r) /\ (req'[r] = Idle \/ ReadsText(r))
    BY <1>3, ReadIs
  <2> QED BY <1>3, <2>1
        DEF Read, Others, ReadsText, Types, disk, page, count
<1>4. ASSUME NEW r \in Everyone, Lock(r)
      PROVE  Types'
  <2>1. Moves(r, "save")
    BY <1>4, Served
  <2>2. lock' \in Requests \union {Free}
    BY <1>4 DEF Lock, Types, Everyone
  <2> QED BY <1>4, <2>1, <2>2
        DEF Lock, Moves, Others, Types, disk, page, count
<1>5. ASSUME NEW r \in Everyone, ClaimLate(r)
      PROVE  Types'
  <2>1. Others(r) /\ req'[r] = Idle
    BY <1>5, Served
  <2>2. pw' \in {"", "locked"} \union Written /\ settled' \in BOOLEAN
    BY <1>5, ClaimedIs DEF ClaimLate
  <2>3. lock' \in Requests \union {Free}
    BY <1>5 DEF ClaimLate, Unlock, Types
  <2> QED BY <1>5, <2>1, <2>2, <2>3
        DEF ClaimLate, Others, Types, disk, page, count
<1>6. ASSUME NEW r \in Everyone, Backup(r)
      PROVE  Types'
  <2>1. \/ Moves(r, "rename") /\ mount = "folder"
        \/ Moves(r, "truncate") /\ mount = "file"
    BY <1>6, Served
  <2>2. Shaped(bak')
    BY <1>6 DEF Backup, Types
  <2>3. astray' \in SUBSET {"hand", "late", "listen", "torn"}
    BY <1>6 DEF Backup, Types
  <2> QED BY <1>6, <2>1, <2>2, <2>3
        DEF Backup, Moves, Others, Types, disk, page, count
<1>7. ASSUME NEW r \in Everyone, Rename(r)
      PROVE  Types'
  <2>1. Moves(r, "written")
    BY <1>7, Served
  <2>2. Shaped(file')
    BY <1>7 DEF Rename, Types, Shaped, Sound, HasText, At, ReqType
  <2>3. astray' \in SUBSET {"hand", "late", "listen", "torn"}
    BY <1>7 DEF Rename, Overwriting, Types
  <2> QED BY <1>7, <2>1, <2>2, <2>3
        DEF Rename, Moves, Others, Types, disk, page, count
<1>8. ASSUME NEW r \in Everyone, Truncate(r)
      PROVE  Types'
  <2>1. Moves(r, "write")
    BY <1>8, Served
  <2>2. Shaped(file')
    BY <1>8, Blanks DEF Truncate
  <2>3. astray' \in SUBSET {"hand", "late", "listen", "torn"}
    BY <1>8 DEF Truncate, Overwriting, Types
  <2> QED BY <1>8, <2>1, <2>2, <2>3
        DEF Truncate, Moves, Others, Types, disk, page, count
<1>9. ASSUME NEW r \in Everyone, Write(r)
      PROVE  Types'
  <2>1. Moves(r, "written")
    BY <1>9, Served
  <2>2. Shaped(file')
    BY <1>9 DEF Write, Types, Shaped, Sound, HasText, At, ReqType
  <2>3. astray' \in SUBSET {"hand", "late", "listen", "torn"}
    BY <1>9 DEF Write, Overwriting, Types
  <2> QED BY <1>9, <2>1, <2>2, <2>3
        DEF Write, Moves, Others, Types, disk, page, count
<1>10. ASSUME NEW r \in Everyone, WriteFails(r)
      PROVE  Types'
  <2>1. Others(r) /\ req'[r] = Idle
    BY <1>10, Served
  <2>2. Shaped(file')
    BY <1>10, Blanks DEF WriteFails
  <2>3. lock' \in Requests \union {Free}
    BY <1>10 DEF WriteFails, Unlock, Types
  <2> QED BY <1>10, <2>1, <2>2, <2>3
        DEF WriteFails, Others, Types, disk, page, count
<1>11. ASSUME NEW r \in Everyone, Apply(r)
      PROVE  Types'
  <2>1. Others(r) /\ Applied(r)
    BY <1>11, ApplyIs
  <2>2. pw' \in {"", "locked"} \union Written /\ settled' \in BOOLEAN
    BY <1>11, PageIs DEF Types
  <2>3. fleet' \in SUBSET Cams
    BY <1>11, TextIs DEF Apply, Types, Shaped
  <2>4. lock' \in Requests \union {Free}
    BY <1>11 DEF Apply, Unlock, Types
  <2> QED BY <1>11, <2>1, <2>2, <2>3, <2>4
        DEF Apply, Others, Applied, Types, disk, page, count
<1>12. ASSUME NEW r \in Everyone, ApplyRefused(r)
      PROVE  Types'
  <2>1. Others(r) /\ req'[r] = Idle
    BY <1>12, Served
  <2>2. lock' \in Requests \union {Free}
    BY <1>12 DEF ApplyRefused, Unlock, Types
  <2> QED BY <1>12, <2>1, <2>2
        DEF ApplyRefused, Others, Types, disk, page, count
<1>13. ASSUME NEW r \in Everyone, ClaimTaken(r)
      PROVE  Types'
  <2>1. Others(r) /\ req'[r] = Idle
    BY <1>13, Served
  <2>2. pw' \in Written /\ claims' \in SUBSET Requests
    BY <1>13, ClaimTakenIs DEF Types
  <2>3. lock' \in Requests \union {Free}
    BY <1>13 DEF ClaimTaken, Unlock, Types
  <2> QED BY <1>13, <2>1, <2>2, <2>3
        DEF ClaimTaken, Others, Types, disk, page, count
<1>14. ASSUME NEW r \in Everyone, AdoptTyped(r)
      PROVE  Types'
  <2>1. Others(r) /\ req'[r] = Idle
    BY <1>14, Served
  <2>2. pw' \in {"", "locked"} \union Written /\ settled' \in BOOLEAN
    BY <1>14, PageIs DEF Types
  <2> QED BY <1>14, <2>1, <2>2
        DEF AdoptTyped, Others, Types, disk, page, count
<1>15. ASSUME ListenSaved
      PROVE  Types'
  <2>1. Main \in Everyone /\ Others(Main) /\ req'[Main] = Idle
    BY <1>15, ListenSavedIs
  <2> QED BY <1>15, <2>1
        DEF ListenSaved, Others, Types, disk, page, count
<1>16. ASSUME NEW p \in {"unset", "old", "open"}, HandWrite(Text("whole", p, {}, 0))
      PROVE  Types'
  <2>1. Shaped(file')
    BY <1>16 DEF HandWrite, Text, Shaped, FileTexts, Written
  <2>2. astray' \in SUBSET {"hand", "late", "listen", "torn"} /\ Shaped(bak')
    BY <1>16, <2>1 DEF HandWrite, Types
  <2> QED BY <1>16, <2>1, <2>2
        DEF HandWrite, Types, disk, page, count
<1>17. ASSUME Crash
      PROVE  Types'
  <2>1. /\ req' \in [Everyone -> ReqType] /\ \A q \in Everyone : req'[q] = Idle
        /\ \/ file' = file
           \/ (\E q \in Everyone : req[q].at = "write") /\ (file' = Empty \/ file' = Torn)
    BY <1>17, CrashIs
  <2>2. Shaped(file')
    BY <1>17, <2>1, Blanks DEF Types
  <2>3. lock' = Free
    BY <1>17 DEF Crash
  <2> QED BY <1>17, <2>1, <2>2, <2>3
        DEF Crash, Types, disk, page, count
<1>18. ASSUME Restore
      PROVE  Types'
  <2>1. Shaped(file')
    BY <1>18 DEF Restore, Types
  <2> QED BY <1>18, <2>1
        DEF Restore, Types, disk, page, count
<1>19. CASE UNCHANGED vars
  BY <1>19 DEF vars, disk, page, count, Types
<1> QED BY <1>1, <1>2, <1>3, <1>4, <1>5, <1>6, <1>7, <1>8, <1>9, <1>10, <1>11,
          <1>12, <1>13, <1>14, <1>15, <1>16, <1>17, <1>18, <1>19 DEF Next, Serve, Everyone

\* Everybody keeps to what is theirs.
LEMMA RolesStep ==
  ASSUME Types, Roles, [Next]_vars
  PROVE  Roles'
<1>1. ASSUME NEW flags \in BOOLEAN, Boot(flags)
      PROVE  Roles'
  <2>1. \/ req' = req
        \/ Others(Main) /\ req'[Main].at = "read" /\ req'[Main].op.op = "listen"
    BY <1>1, BootIs
  <2>2. up' = TRUE
    BY <1>1 DEF Boot
  <2> QED BY <1>1, <2>1, <2>2, ConfigFileAssumption DEF Others, Roles, Everyone
<1>2. ASSUME NEW r \in Requests, NEW o \in Ops, Arrive(r, o)
      PROVE  Roles'
  <2>1. Others(r) /\ req'[r].at = "read" /\ req'[r].op = o
    BY <1>2, ArriveIs
  <2>2. up' = up /\ up
    BY <1>2 DEF Arrive, HasPage
  <2> QED BY <1>2, <2>1, <2>2, ConfigFileAssumption DEF Others, Roles, Everyone
<1>3. ASSUME NEW r \in Everyone, Read(r)
      PROVE  Roles'
  <2>1. Others(r) /\ (req'[r] = Idle \/ ReadsText(r))
    BY <1>3, ReadIs
  <2>2. /\ up /\ up' = up
        /\ r = Main => req[r].op.op = "listen"
        /\ r # Main => r \in Requests /\ req[r].op \in Ops
    BY <1>3, AtWork, WhoIs DEF Read, At
  <2> QED BY <1>3, <2>1, <2>2, IdleIs, ConfigFileAssumption DEF Others, ReadsText, Roles, Everyone
<1>4. ASSUME NEW r \in Everyone, Lock(r)
      PROVE  Roles'
  <2>1. Moves(r, "save")
    BY <1>4, Served
  <2>2. /\ up /\ up' = up
        /\ r = Main => req[r].op.op = "listen"
        /\ r # Main => r \in Requests /\ req[r].op \in Ops
    BY <1>4, AtWork, WhoIs DEF Lock, At
  <2> QED BY <1>4, <2>1, <2>2, IdleIs, ConfigFileAssumption DEF Moves, Others, Roles, Everyone
<1>5. ASSUME NEW r \in Everyone, ClaimLate(r)
      PROVE  Roles'
  <2>1. Others(r) /\ req'[r] = Idle
    BY <1>5, Served
  <2>2. /\ up /\ up' = up
        /\ r = Main => req[r].op.op = "listen"
        /\ r # Main => r \in Requests /\ req[r].op \in Ops
    BY <1>5, AtWork, WhoIs DEF ClaimLate, At
  <2> QED BY <1>5, <2>1, <2>2, IdleIs, ConfigFileAssumption DEF Others, Roles, Everyone
<1>6. ASSUME NEW r \in Everyone, Backup(r)
      PROVE  Roles'
  <2>1. \/ Moves(r, "rename") /\ mount = "folder"
        \/ Moves(r, "truncate") /\ mount = "file"
    BY <1>6, Served
  <2>2. /\ up /\ up' = up
        /\ r = Main => req[r].op.op = "listen"
        /\ r # Main => r \in Requests /\ req[r].op \in Ops
    BY <1>6, AtWork, WhoIs DEF Backup, At
  <2> QED BY <1>6, <2>1, <2>2, IdleIs, ConfigFileAssumption DEF Moves, Others, Roles, Everyone
<1>7. ASSUME NEW r \in Everyone, Rename(r)
      PROVE  Roles'
  <2>1. Moves(r, "written")
    BY <1>7, Served
  <2>2. /\ up /\ up' = up
        /\ r = Main => req[r].op.op = "listen"
        /\ r # Main => r \in Requests /\ req[r].op \in Ops
    BY <1>7, AtWork, WhoIs DEF Rename, At
  <2> QED BY <1>7, <2>1, <2>2, IdleIs, ConfigFileAssumption DEF Moves, Others, Roles, Everyone
<1>8. ASSUME NEW r \in Everyone, Truncate(r)
      PROVE  Roles'
  <2>1. Moves(r, "write")
    BY <1>8, Served
  <2>2. /\ up /\ up' = up
        /\ r = Main => req[r].op.op = "listen"
        /\ r # Main => r \in Requests /\ req[r].op \in Ops
    BY <1>8, AtWork, WhoIs DEF Truncate, At
  <2> QED BY <1>8, <2>1, <2>2, IdleIs, ConfigFileAssumption DEF Moves, Others, Roles, Everyone
<1>9. ASSUME NEW r \in Everyone, Write(r)
      PROVE  Roles'
  <2>1. Moves(r, "written")
    BY <1>9, Served
  <2>2. /\ up /\ up' = up
        /\ r = Main => req[r].op.op = "listen"
        /\ r # Main => r \in Requests /\ req[r].op \in Ops
    BY <1>9, AtWork, WhoIs DEF Write, At
  <2> QED BY <1>9, <2>1, <2>2, IdleIs, ConfigFileAssumption DEF Moves, Others, Roles, Everyone
<1>10. ASSUME NEW r \in Everyone, WriteFails(r)
      PROVE  Roles'
  <2>1. Others(r) /\ req'[r] = Idle
    BY <1>10, Served
  <2>2. /\ up /\ up' = up
        /\ r = Main => req[r].op.op = "listen"
        /\ r # Main => r \in Requests /\ req[r].op \in Ops
    BY <1>10, AtWork, WhoIs DEF WriteFails, At
  <2> QED BY <1>10, <2>1, <2>2, IdleIs, ConfigFileAssumption DEF Others, Roles, Everyone
<1>11. ASSUME NEW r \in Everyone, Apply(r)
      PROVE  Roles'
  <2>1. Others(r) /\ Applied(r)
    BY <1>11, ApplyIs
  <2>2. /\ up /\ up' = up
        /\ r = Main => req[r].op.op = "listen"
        /\ r # Main => r \in Requests /\ req[r].op \in Ops
    BY <1>11, AtWork, WhoIs DEF Apply, At
  <2> QED
    <3>1. req[r].at = "written" /\ r # Main
      BY <1>11 DEF Apply, At
    <3>2. r \in Requests
      BY <2>2, <3>1
    <3>3. CASE req'[r] = Idle
      BY <2>1, <2>2, <3>2, <3>3, IdleIs, ConfigFileAssumption DEF Others, Roles, Everyone
    <3>4. CASE req'[r].at = "read" /\ req'[r].op \in Ops
      BY <2>1, <2>2, <3>2, <3>4, ConfigFileAssumption DEF Others, Roles, Everyone
    <3>5. CASE req'[r].at = "adopt" /\ req'[r].op = req[r].op /\ req[r].op.op = "password"
      BY <2>1, <2>2, <3>1, <3>2, <3>5, ConfigFileAssumption DEF Others, Roles, Everyone
    <3> QED BY <2>1, <3>3, <3>4, <3>5 DEF Applied
<1>12. ASSUME NEW r \in Everyone, ApplyRefused(r)
      PROVE  Roles'
  <2>1. Others(r) /\ req'[r] = Idle
    BY <1>12, Served
  <2>2. /\ up /\ up' = up
        /\ r = Main => req[r].op.op = "listen"
        /\ r # Main => r \in Requests /\ req[r].op \in Ops
    BY <1>12, AtWork, WhoIs DEF ApplyRefused, At
  <2> QED BY <1>12, <2>1, <2>2, IdleIs, ConfigFileAssumption DEF Others, Roles, Everyone
<1>13. ASSUME NEW r \in Everyone, ClaimTaken(r)
      PROVE  Roles'
  <2>1. Others(r) /\ req'[r] = Idle
    BY <1>13, Served
  <2>2. /\ up /\ up' = up
        /\ r = Main => req[r].op.op = "listen"
        /\ r # Main => r \in Requests /\ req[r].op \in Ops
    BY <1>13, AtWork, WhoIs DEF ClaimTaken, At
  <2> QED BY <1>13, <2>1, <2>2, IdleIs, ConfigFileAssumption DEF Others, Roles, Everyone
<1>14. ASSUME NEW r \in Everyone, AdoptTyped(r)
      PROVE  Roles'
  <2>1. Others(r) /\ req'[r] = Idle
    BY <1>14, Served
  <2>2. /\ up /\ up' = up
        /\ r = Main => req[r].op.op = "listen"
        /\ r # Main => r \in Requests /\ req[r].op \in Ops
    BY <1>14, AtWork, WhoIs DEF AdoptTyped, At
  <2> QED BY <1>14, <2>1, <2>2, IdleIs, ConfigFileAssumption DEF Others, Roles, Everyone
<1>15. ASSUME ListenSaved
      PROVE  Roles'
  <2>1. Main \in Everyone /\ Others(Main) /\ req'[Main] = Idle
    BY <1>15, ListenSavedIs
  <2>2. up /\ up' = up
    BY <1>15, AtWork DEF ListenSaved, At, Everyone
  <2> QED BY <1>15, <2>1, <2>2, IdleIs, ConfigFileAssumption DEF Others, Roles, Everyone
<1>16. ASSUME NEW p \in {"unset", "old", "open"}, HandWrite(Text("whole", p, {}, 0))
      PROVE  Roles'
  <2>1. UNCHANGED <<up, lock, req>>
    BY <1>16 DEF HandWrite
  <2> QED BY <1>16, <2>1
        DEF Roles
<1>17. ASSUME Crash
      PROVE  Roles'
  <2>1. /\ req' \in [Everyone -> ReqType] /\ \A q \in Everyone : req'[q] = Idle
        /\ \/ file' = file
           \/ (\E q \in Everyone : req[q].at = "write") /\ (file' = Empty \/ file' = Torn)
    BY <1>17, CrashIs
  <2>2. lock' = Free
    BY <1>17 DEF Crash
  <2> QED BY <1>17, <2>1, <2>2, IdleIs, ConfigFileAssumption DEF Roles, Everyone
<1>18. ASSUME Restore
      PROVE  Roles'
  <2>1. UNCHANGED <<up, lock, req>>
    BY <1>18 DEF Restore
  <2> QED BY <1>18, <2>1
        DEF Roles
<1>19. CASE UNCHANGED vars
  BY <1>19 DEF vars, disk, page, count, Roles
<1> QED BY <1>1, <1>2, <1>3, <1>4, <1>5, <1>6, <1>7, <1>8, <1>9, <1>10, <1>11,
          <1>12, <1>13, <1>14, <1>15, <1>16, <1>17, <1>18, <1>19 DEF Next, Serve, Everyone

\* What is written would load.
LEMMA SoundStep ==
  ASSUME Types, Roles, Sound, [Next]_vars
  PROVE  Sound'
<1>1. ASSUME NEW flags \in BOOLEAN, Boot(flags)
      PROVE  Sound'
  <2>1. \/ req' = req
        \/ Others(Main) /\ req'[Main].at = "read" /\ req'[Main].op.op = "listen"
    BY <1>1, BootIs
  <2>2. UNCHANGED <<mount, file>>
    BY <1>1 DEF Boot, disk
  <2> QED BY <1>1, <2>1, <2>2, IdleIs
        DEF Others, Sound, HasText, Everyone
<1>2. ASSUME NEW r \in Requests, NEW o \in Ops, Arrive(r, o)
      PROVE  Sound'
  <2>1. Others(r) /\ req'[r].at = "read" /\ req'[r].op = o
    BY <1>2, ArriveIs
  <2>2. UNCHANGED <<mount, file>>
    BY <1>2 DEF Arrive, disk
  <2> QED BY <1>2, <2>1, <2>2, IdleIs
        DEF Others, Sound, HasText, Everyone
<1>3. ASSUME NEW r \in Everyone, Read(r)
      PROVE  Sound'
  <2>1. Others(r) /\ (req'[r] = Idle \/ ReadsText(r))
    BY <1>3, ReadIs
  <2>2. UNCHANGED <<mount, file>>
    BY <1>3 DEF Read, disk
  <2>3. r = Main => req[r].op.op # "claim"
    BY <1>3, WhoIs DEF Read, At
  <2> QED BY <1>3, <2>1, <2>2, <2>3, IdleIs
        DEF Others, ReadsText, Sound, HasText, Everyone
<1>4. ASSUME NEW r \in Everyone, Lock(r)
      PROVE  Sound'
  <2>1. Moves(r, "save")
    BY <1>4, Served
  <2>2. UNCHANGED <<mount, file>>
    BY <1>4 DEF Lock, disk
  <2>3. HasText(r)
    BY <1>4 DEF Lock, At, HasText
  <2> QED BY <1>4, <2>1, <2>2, <2>3, IdleIs
        DEF Moves, Others, Sound, HasText, Everyone
<1>5. ASSUME NEW r \in Everyone, ClaimLate(r)
      PROVE  Sound'
  <2>1. Others(r) /\ req'[r] = Idle
    BY <1>5, Served
  <2>2. UNCHANGED <<mount, file>>
    BY <1>5 DEF ClaimLate, disk
  <2> QED BY <1>5, <2>1, <2>2, IdleIs
        DEF Others, Sound, HasText, Everyone
<1>6. ASSUME NEW r \in Everyone, Backup(r)
      PROVE  Sound'
  <2>1. \/ Moves(r, "rename") /\ mount = "folder"
        \/ Moves(r, "truncate") /\ mount = "file"
    BY <1>6, Served
  <2>2. UNCHANGED <<mount, file>>
    BY <1>6 DEF Backup, disk
  <2>3. HasText(r)
    BY <1>6 DEF Backup, At, HasText
  <2>4. mount = "file" => file.is # "absent"
    BY DEF Sound
  <2> QED BY <1>6, <2>1, <2>2, <2>3, <2>4, IdleIs
        DEF Moves, Others, Sound, HasText, Everyone
<1>7. ASSUME NEW r \in Everyone, Rename(r)
      PROVE  Sound'
  <2>1. Moves(r, "written")
    BY <1>7, Served
  <2>2. mount' = mount /\ mount = "folder" /\ file'.is = "whole"
    BY <1>7 DEF Rename, Sound, HasText, At
  <2>3. HasText(r)
    BY <1>7 DEF Rename, At, HasText
  <2> QED BY <1>7, <2>1, <2>2, <2>3
        DEF Moves, Others, Sound, HasText, Everyone
<1>8. ASSUME NEW r \in Everyone, Truncate(r)
      PROVE  Sound'
  <2>1. Moves(r, "write")
    BY <1>8, Served
  <2>2. mount' = mount /\ mount = "file" /\ file'.is = "empty"
    BY <1>8, Blanks DEF Truncate, Sound, At
  <2>3. HasText(r)
    BY <1>8 DEF Truncate, At, HasText
  <2> QED BY <1>8, <2>1, <2>2, <2>3
        DEF Moves, Others, Sound, HasText, Everyone
<1>9. ASSUME NEW r \in Everyone, Write(r)
      PROVE  Sound'
  <2>1. Moves(r, "written")
    BY <1>9, Served
  <2>2. mount' = mount /\ mount = "file" /\ file'.is = "whole"
    BY <1>9 DEF Write, Sound, HasText, At
  <2>3. HasText(r)
    BY <1>9 DEF Write, At, HasText
  <2> QED BY <1>9, <2>1, <2>2, <2>3
        DEF Moves, Others, Sound, HasText, Everyone
<1>10. ASSUME NEW r \in Everyone, WriteFails(r)
      PROVE  Sound'
  <2>1. Others(r) /\ req'[r] = Idle
    BY <1>10, Served
  <2>2. mount' = mount /\ mount = "file" /\ file'.is = "torn"
    BY <1>10, Blanks DEF WriteFails, Sound, At
  <2> QED BY <1>10, <2>1, <2>2, IdleIs
        DEF Others, Sound, HasText, Everyone
<1>11. ASSUME NEW r \in Everyone, Apply(r)
      PROVE  Sound'
  <2>1. Others(r) /\ Applied(r)
    BY <1>11, ApplyIs
  <2>2. UNCHANGED <<mount, file>>
    BY <1>11 DEF Apply, disk
  <2> QED BY <1>11, <2>1, <2>2, IdleIs
        DEF Others, Applied, Sound, HasText, Everyone
<1>12. ASSUME NEW r \in Everyone, ApplyRefused(r)
      PROVE  Sound'
  <2>1. Others(r) /\ req'[r] = Idle
    BY <1>12, Served
  <2>2. UNCHANGED <<mount, file>>
    BY <1>12 DEF ApplyRefused, disk
  <2> QED BY <1>12, <2>1, <2>2, IdleIs
        DEF Others, Sound, HasText, Everyone
<1>13. ASSUME NEW r \in Everyone, ClaimTaken(r)
      PROVE  Sound'
  <2>1. Others(r) /\ req'[r] = Idle
    BY <1>13, Served
  <2>2. UNCHANGED <<mount, file>>
    BY <1>13 DEF ClaimTaken, disk
  <2> QED BY <1>13, <2>1, <2>2, IdleIs
        DEF Others, Sound, HasText, Everyone
<1>14. ASSUME NEW r \in Everyone, AdoptTyped(r)
      PROVE  Sound'
  <2>1. Others(r) /\ req'[r] = Idle
    BY <1>14, Served
  <2>2. UNCHANGED <<mount, file>>
    BY <1>14 DEF AdoptTyped, disk
  <2> QED BY <1>14, <2>1, <2>2, IdleIs
        DEF Others, Sound, HasText, Everyone
<1>15. ASSUME ListenSaved
      PROVE  Sound'
  <2>1. Main \in Everyone /\ Others(Main) /\ req'[Main] = Idle
    BY <1>15, ListenSavedIs
  <2>2. UNCHANGED <<mount, file>>
    BY <1>15 DEF ListenSaved, disk
  <2> QED BY <1>15, <2>1, <2>2, IdleIs
        DEF Others, Sound, HasText, Everyone
<1>16. ASSUME NEW p \in {"unset", "old", "open"}, HandWrite(Text("whole", p, {}, 0))
      PROVE  Sound'
  <2>1. mount' = mount /\ mount = "folder" /\ file'.is = "whole" /\ req' = req
    BY <1>16 DEF HandWrite, Text
  <2> QED BY <1>16, <2>1
        DEF Sound, HasText, Everyone
<1>17. ASSUME Crash
      PROVE  Sound'
  <2>1. /\ req' \in [Everyone -> ReqType] /\ \A q \in Everyone : req'[q] = Idle
        /\ \/ file' = file
           \/ (\E q \in Everyone : req[q].at = "write") /\ (file' = Empty \/ file' = Torn)
    BY <1>17, CrashIs
  <2>2. mount' = mount /\ (file' = file \/ (mount = "file" /\ file'.is \in {"empty", "torn"}))
    BY <1>17, <2>1, Blanks DEF Crash, Sound
  <2> QED BY <1>17, <2>1, <2>2, IdleIs
        DEF Sound, HasText, Everyone
<1>18. ASSUME Restore
      PROVE  Sound'
  <2>1. mount' = mount /\ mount = "file" /\ file'.is = "whole" /\ req' = req
    BY <1>18 DEF Restore, Sound, Types
  <2> QED BY <1>18, <2>1
        DEF Sound, HasText, Everyone
<1>19. CASE UNCHANGED vars
  BY <1>19 DEF vars, disk, page, count, Sound, HasText
<1> QED BY <1>1, <1>2, <1>3, <1>4, <1>5, <1>6, <1>7, <1>8, <1>9, <1>10, <1>11,
          <1>12, <1>13, <1>14, <1>15, <1>16, <1>17, <1>18, <1>19 DEF Next, Serve, Everyone

\* configMu is taken before a save and let go after it.
LEMMA LockedStep ==
  ASSUME Types, Roles, Locked, [Next]_vars
  PROVE  Locked'
<1>1. ASSUME NEW flags \in BOOLEAN, Boot(flags)
      PROVE  Locked'
  <2>1. \/ req' = req
        \/ Others(Main) /\ req'[Main].at = "read" /\ req'[Main].op.op = "listen"
    BY <1>1, BootIs
  <2>2. lock' = lock
    BY <1>1 DEF Boot
  <2> QED BY <1>1, <2>1, <2>2, ConfigFileAssumption DEF Others, Locked, Saving, Everyone
<1>2. ASSUME NEW r \in Requests, NEW o \in Ops, Arrive(r, o)
      PROVE  Locked'
  <2>1. Others(r) /\ req'[r].at = "read" /\ req'[r].op = o
    BY <1>2, ArriveIs
  <2>2. lock' = lock /\ req[r].at = "idle"
    BY <1>2 DEF Arrive, At
  <2> QED BY <1>2, <2>1, <2>2, ConfigFileAssumption DEF Others, Locked, Saving, Everyone
<1>3. ASSUME NEW r \in Everyone, Read(r)
      PROVE  Locked'
  <2>1. Others(r) /\ (req'[r] = Idle \/ ReadsText(r))
    BY <1>3, ReadIs
  <2>2. lock' = lock
    BY <1>3 DEF Read
  <2> QED BY <1>3, <2>1, <2>2, IdleIs, ConfigFileAssumption
             DEF Read, Others, ReadsText, Locked, Saving, At, Everyone
<1>4. ASSUME NEW r \in Everyone, Lock(r)
      PROVE  Locked'
  <2>1. Moves(r, "save")
    BY <1>4, Served
  <2>2. req[r].at = "lock" /\ IF r = Main THEN lock' = lock ELSE lock = Free /\ lock' = r
    BY <1>4 DEF Lock, At
  <2> QED BY <1>4, <2>1, <2>2, ConfigFileAssumption DEF Moves, Others, Locked, Saving, Everyone
<1>5. ASSUME NEW r \in Everyone, ClaimLate(r)
      PROVE  Locked'
  <2>1. Others(r) /\ req'[r] = Idle
    BY <1>5, Served
  <2>2. lock' = IF lock = r THEN Free ELSE lock
    BY <1>5 DEF ClaimLate, Unlock
  <2> QED BY <1>5, <2>1, <2>2, IdleIs, ConfigFileAssumption
             DEF Others, Locked, Saving, Everyone, Types
<1>6. ASSUME NEW r \in Everyone, Backup(r)
      PROVE  Locked'
  <2>1. \/ Moves(r, "rename") /\ mount = "folder"
        \/ Moves(r, "truncate") /\ mount = "file"
    BY <1>6, Served
  <2>2. lock' = lock
    BY <1>6 DEF Backup
  <2> QED BY <1>6, <2>1, <2>2, IdleIs, ConfigFileAssumption
             DEF Backup, Moves, Others, Locked, Saving, At, Everyone
<1>7. ASSUME NEW r \in Everyone, Rename(r)
      PROVE  Locked'
  <2>1. Moves(r, "written")
    BY <1>7, Served
  <2>2. lock' = lock
    BY <1>7 DEF Rename
  <2> QED BY <1>7, <2>1, <2>2, IdleIs, ConfigFileAssumption
             DEF Rename, Moves, Others, Locked, Saving, At, Everyone
<1>8. ASSUME NEW r \in Everyone, Truncate(r)
      PROVE  Locked'
  <2>1. Moves(r, "write")
    BY <1>8, Served
  <2>2. lock' = lock
    BY <1>8 DEF Truncate
  <2> QED BY <1>8, <2>1, <2>2, IdleIs, ConfigFileAssumption
             DEF Truncate, Moves, Others, Locked, Saving, At, Everyone
<1>9. ASSUME NEW r \in Everyone, Write(r)
      PROVE  Locked'
  <2>1. Moves(r, "written")
    BY <1>9, Served
  <2>2. lock' = lock
    BY <1>9 DEF Write
  <2> QED BY <1>9, <2>1, <2>2, IdleIs, ConfigFileAssumption
             DEF Write, Moves, Others, Locked, Saving, At, Everyone
<1>10. ASSUME NEW r \in Everyone, WriteFails(r)
      PROVE  Locked'
  <2>1. Others(r) /\ req'[r] = Idle
    BY <1>10, Served
  <2>2. lock' = IF lock = r THEN Free ELSE lock
    BY <1>10 DEF WriteFails, Unlock
  <2> QED BY <1>10, <2>1, <2>2, IdleIs, ConfigFileAssumption
             DEF Others, Locked, Saving, Everyone, Types
<1>11. ASSUME NEW r \in Everyone, Apply(r)
      PROVE  Locked'
  <2>1. Others(r) /\ Applied(r)
    BY <1>11, ApplyIs
  <2>2. lock' = IF lock = r THEN Free ELSE lock
    BY <1>11 DEF Apply, Unlock
  <2> QED BY <1>11, <2>1, <2>2, IdleIs, ConfigFileAssumption
             DEF Others, Applied, Locked, Saving, Everyone, Types
<1>12. ASSUME NEW r \in Everyone, ApplyRefused(r)
      PROVE  Locked'
  <2>1. Others(r) /\ req'[r] = Idle
    BY <1>12, Served
  <2>2. lock' = IF lock = r THEN Free ELSE lock
    BY <1>12 DEF ApplyRefused, Unlock
  <2> QED BY <1>12, <2>1, <2>2, IdleIs, ConfigFileAssumption
             DEF Others, Locked, Saving, Everyone, Types
<1>13. ASSUME NEW r \in Everyone, ClaimTaken(r)
      PROVE  Locked'
  <2>1. Others(r) /\ req'[r] = Idle
    BY <1>13, Served
  <2>2. lock' = IF lock = r THEN Free ELSE lock
    BY <1>13 DEF ClaimTaken, Unlock
  <2> QED BY <1>13, <2>1, <2>2, IdleIs, ConfigFileAssumption
             DEF Others, Locked, Saving, Everyone, Types
<1>14. ASSUME NEW r \in Everyone, AdoptTyped(r)
      PROVE  Locked'
  <2>1. Others(r) /\ req'[r] = Idle
    BY <1>14, Served
  <2>2. lock' = lock
    BY <1>14 DEF AdoptTyped
  <2> QED BY <1>14, <2>1, <2>2, IdleIs, ConfigFileAssumption
             DEF AdoptTyped, Others, Locked, Saving, At, Everyone
<1>15. ASSUME ListenSaved
      PROVE  Locked'
  <2>1. Main \in Everyone /\ Others(Main) /\ req'[Main] = Idle
    BY <1>15, ListenSavedIs
  <2>2. lock' = lock
    BY <1>15 DEF ListenSaved
  <2> QED BY <1>15, <2>1, <2>2, IdleIs, ConfigFileAssumption
             DEF ListenSaved, Others, Locked, Saving, At, Everyone
<1>16. ASSUME NEW p \in {"unset", "old", "open"}, HandWrite(Text("whole", p, {}, 0))
      PROVE  Locked'
  <2>1. UNCHANGED <<lock, req>>
    BY <1>16 DEF HandWrite
  <2> QED BY <1>16, <2>1
        DEF Locked, Saving
<1>17. ASSUME Crash
      PROVE  Locked'
  <2>1. /\ req' \in [Everyone -> ReqType] /\ \A q \in Everyone : req'[q] = Idle
        /\ \/ file' = file
           \/ (\E q \in Everyone : req[q].at = "write") /\ (file' = Empty \/ file' = Torn)
    BY <1>17, CrashIs
  <2>2. lock' = Free
    BY <1>17 DEF Crash
  <2> QED BY <1>17, <2>1, <2>2, IdleIs, ConfigFileAssumption DEF Locked, Saving, Everyone
<1>18. ASSUME Restore
      PROVE  Locked'
  <2>1. UNCHANGED <<lock, req>>
    BY <1>18 DEF Restore
  <2> QED BY <1>18, <2>1
        DEF Locked, Saving
<1>19. CASE UNCHANGED vars
  BY <1>19 DEF vars, disk, page, count, Locked, Saving
<1> QED BY <1>1, <1>2, <1>3, <1>4, <1>5, <1>6, <1>7, <1>8, <1>9, <1>10, <1>11,
          <1>12, <1>13, <1>14, <1>15, <1>16, <1>17, <1>18, <1>19 DEF Next, Serve, Everyone

\* A truncated file has a whole copy beside it.
LEMMA CopiesStep ==
  ASSUME Types, Roles, Sound, Copies, [Next]_vars
  PROVE  Copies'
<1>1. ASSUME NEW flags \in BOOLEAN, Boot(flags)
      PROVE  Copies'
  <2>1. \/ req' = req
        \/ Others(Main) /\ req'[Main].at = "read" /\ req'[Main].op.op = "listen"
    BY <1>1, BootIs
  <2>2. UNCHANGED <<file, bak>> /\ ("torn" \notin astray' => "torn" \notin astray)
    BY <1>1 DEF Boot, disk
  <2> QED BY <1>1, <2>1, <2>2
        DEF Others, Copies, Everyone
<1>2. ASSUME NEW r \in Requests, NEW o \in Ops, Arrive(r, o)
      PROVE  Copies'
  <2>1. Others(r) /\ req'[r].at = "read" /\ req'[r].op = o
    BY <1>2, ArriveIs
  <2>2. UNCHANGED <<file, bak, astray>>
    BY <1>2 DEF Arrive, disk
  <2> QED BY <1>2, <2>1, <2>2, IdleIs
        DEF Others, Copies, Everyone
<1>3. ASSUME NEW r \in Everyone, Read(r)
      PROVE  Copies'
  <2>1. Others(r) /\ (req'[r] = Idle \/ ReadsText(r))
    BY <1>3, ReadIs
  <2>2. UNCHANGED <<file, bak, astray>>
    BY <1>3 DEF Read, disk
  <2> QED BY <1>3, <2>1, <2>2, IdleIs
        DEF Others, ReadsText, Copies, Everyone
<1>4. ASSUME NEW r \in Everyone, Lock(r)
      PROVE  Copies'
  <2>1. Moves(r, "save")
    BY <1>4, Served
  <2>2. UNCHANGED <<file, bak, astray>>
    BY <1>4 DEF Lock, disk
  <2> QED BY <1>4, <2>1, <2>2, IdleIs
        DEF Moves, Others, Copies, Everyone
<1>5. ASSUME NEW r \in Everyone, ClaimLate(r)
      PROVE  Copies'
  <2>1. Others(r) /\ req'[r] = Idle
    BY <1>5, Served
  <2>2. UNCHANGED <<file, bak, astray>>
    BY <1>5 DEF ClaimLate, disk
  <2> QED BY <1>5, <2>1, <2>2, IdleIs
        DEF Others, Copies, Everyone
<1>6. ASSUME NEW r \in Everyone, Backup(r)
      PROVE  Copies'
  <2>1. \/ Moves(r, "rename") /\ mount = "folder"
        \/ Moves(r, "truncate") /\ mount = "file"
    BY <1>6, Served
  <2>2. /\ file' = file /\ file.is \in {"absent", "whole", "empty", "torn"}
        /\ "torn" \notin astray' => file.is \notin {"torn", "empty"} /\ "torn" \notin astray
    BY <1>6, TextIs DEF Backup, Types, Shaped
  <2>3. file.is = "whole" => bak' = file
    BY <1>6, Blanks DEF Backup
  <2>4. \A q \in Everyone : req'[q].at \in {"truncate", "write"} => mount = "file"
    BY <2>1 DEF Moves, Others, Sound
  <2>5. mount = "file" => file.is # "absent"
    BY DEF Sound
  <2> QED BY <1>6, <2>1, <2>2, <2>3, <2>4, <2>5
        DEF Moves, Others, Copies
<1>7. ASSUME NEW r \in Everyone, Rename(r)
      PROVE  Copies'
  <2>1. Moves(r, "written")
    BY <1>7, Served
  <2>2. bak' = bak /\ file'.is = "whole" /\ astray \subseteq astray'
    BY <1>7 DEF Rename, Sound, HasText, At, Overwriting
  <2> QED BY <1>7, <2>1, <2>2
        DEF Moves, Others, Copies
<1>8. ASSUME NEW r \in Everyone, Truncate(r)
      PROVE  Copies'
  <2>1. Moves(r, "write")
    BY <1>8, Served
  <2>2. bak' = bak /\ req[r].at = "truncate" /\ astray \subseteq astray'
    BY <1>8 DEF Truncate, At, Overwriting
  <2> QED BY <1>8, <2>1, <2>2
        DEF Moves, Others, Copies
<1>9. ASSUME NEW r \in Everyone, Write(r)
      PROVE  Copies'
  <2>1. Moves(r, "written")
    BY <1>9, Served
  <2>2. bak' = bak /\ file'.is = "whole" /\ astray \subseteq astray'
    BY <1>9 DEF Write, Sound, HasText, At, Overwriting
  <2> QED BY <1>9, <2>1, <2>2
        DEF Moves, Others, Copies
<1>10. ASSUME NEW r \in Everyone, WriteFails(r)
      PROVE  Copies'
  <2>1. Others(r) /\ req'[r] = Idle
    BY <1>10, Served
  <2>2. bak' = bak /\ req[r].at = "write" /\ astray' = astray
    BY <1>10 DEF WriteFails, At
  <2> QED BY <1>10, <2>1, <2>2, IdleIs
        DEF Others, Copies
<1>11. ASSUME NEW r \in Everyone, Apply(r)
      PROVE  Copies'
  <2>1. Others(r) /\ Applied(r)
    BY <1>11, ApplyIs
  <2>2. UNCHANGED <<file, bak, astray>>
    BY <1>11 DEF Apply, disk
  <2> QED BY <1>11, <2>1, <2>2, IdleIs
        DEF Others, Applied, Copies, Everyone
<1>12. ASSUME NEW r \in Everyone, ApplyRefused(r)
      PROVE  Copies'
  <2>1. Others(r) /\ req'[r] = Idle
    BY <1>12, Served
  <2>2. UNCHANGED <<file, bak, astray>>
    BY <1>12 DEF ApplyRefused, disk
  <2> QED BY <1>12, <2>1, <2>2, IdleIs
        DEF Others, Copies, Everyone
<1>13. ASSUME NEW r \in Everyone, ClaimTaken(r)
      PROVE  Copies'
  <2>1. Others(r) /\ req'[r] = Idle
    BY <1>13, Served
  <2>2. UNCHANGED <<file, bak, astray>>
    BY <1>13 DEF ClaimTaken, disk
  <2> QED BY <1>13, <2>1, <2>2, IdleIs
        DEF Others, Copies, Everyone
<1>14. ASSUME NEW r \in Everyone, AdoptTyped(r)
      PROVE  Copies'
  <2>1. Others(r) /\ req'[r] = Idle
    BY <1>14, Served
  <2>2. UNCHANGED <<file, bak, astray>>
    BY <1>14 DEF AdoptTyped, disk
  <2> QED BY <1>14, <2>1, <2>2, IdleIs
        DEF Others, Copies, Everyone
<1>15. ASSUME ListenSaved
      PROVE  Copies'
  <2>1. Main \in Everyone /\ Others(Main) /\ req'[Main] = Idle
    BY <1>15, ListenSavedIs
  <2>2. UNCHANGED <<file, bak, astray>>
    BY <1>15 DEF ListenSaved, disk
  <2> QED BY <1>15, <2>1, <2>2, IdleIs
        DEF Others, Copies, Everyone
<1>16. ASSUME NEW p \in {"unset", "old", "open"}, HandWrite(Text("whole", p, {}, 0))
      PROVE  Copies'
  <2>1. (bak' = bak \/ bak'.is = "whole") /\ file'.is = "whole" /\ req' = req /\ astray \subseteq astray'
    BY <1>16 DEF HandWrite, Text
  <2> QED BY <1>16, <2>1
        DEF Copies
<1>17. ASSUME Crash
      PROVE  Copies'
  <2>1. /\ req' \in [Everyone -> ReqType] /\ \A q \in Everyone : req'[q] = Idle
        /\ \/ file' = file
           \/ (\E q \in Everyone : req[q].at = "write") /\ (file' = Empty \/ file' = Torn)
    BY <1>17, CrashIs
  <2>2. bak' = bak /\ astray' = astray
    BY <1>17 DEF Crash
  <2> QED BY <1>17, <2>1, <2>2, IdleIs
        DEF Copies
<1>18. ASSUME Restore
      PROVE  Copies'
  <2>1. file' = bak /\ file'.is = "whole" /\ UNCHANGED <<req, bak, astray>>
    BY <1>18 DEF Restore
  <2> QED BY <1>18, <2>1
        DEF Copies
<1>19. CASE UNCHANGED vars
  BY <1>19 DEF vars, disk, page, count, Copies
<1> QED BY <1>1, <1>2, <1>3, <1>4, <1>5, <1>6, <1>7, <1>8, <1>9, <1>10, <1>11,
          <1>12, <1>13, <1>14, <1>15, <1>16, <1>17, <1>18, <1>19 DEF Next, Serve, Everyone

\* No password is a word for none, as it is written.
LEMMA WrittenIs ==
  ASSUME NEW p \in Written
  PROVE  p \notin {"", "locked"}
<1>1. \A q \in Passwords : q \notin Markers /\ Mangled(q) \notin Markers
  BY PasswordIs
<1> QED BY <1>1 DEF Written, Markers

\* The page knows that the install is claimed.
Settles == pw # "locked" /\ (settled \/ pw # "")

\* While the process runs, a page that asks for a password goes on asking for one,
\* and one that is claimed stays so.
LEMMA PageStays ==
  ASSUME Types, Roles, [Next]_vars
  PROVE  up => (Asks => Asks') /\ (Settles => Settles')
<1>1. ASSUME NEW flags \in BOOLEAN, Boot(flags)
      PROVE  up => (Asks => Asks') /\ (Settles => Settles')
  <2>1. ~ up
    BY <1>1 DEF Boot
  <2> QED BY <1>1, <2>1
        DEF Asks, Settles
<1>2. ASSUME NEW r \in Requests, NEW o \in Ops, Arrive(r, o)
      PROVE  up => (Asks => Asks') /\ (Settles => Settles')
  <2>1. /\ Asks => UNCHANGED pw
        /\ Settles => UNCHANGED <<pw, settled>>
    BY <1>2, ClaimedIs DEF Arrive, Settles
  <2> QED BY <1>2, <2>1
        DEF Asks, Settles
<1>3. ASSUME NEW r \in Everyone, Read(r)
      PROVE  up => (Asks => Asks') /\ (Settles => Settles')
  <2>1. UNCHANGED <<pw, settled>>
    BY <1>3 DEF Read, page
  <2> QED BY <1>3, <2>1
        DEF Asks, Settles
<1>4. ASSUME NEW r \in Everyone, Lock(r)
      PROVE  up => (Asks => Asks') /\ (Settles => Settles')
  <2>1. UNCHANGED <<pw, settled>>
    BY <1>4 DEF Lock, page
  <2> QED BY <1>4, <2>1
        DEF Asks, Settles
<1>5. ASSUME NEW r \in Everyone, ClaimLate(r)
      PROVE  up => (Asks => Asks') /\ (Settles => Settles')
  <2>1. /\ Asks => UNCHANGED pw
        /\ Settles => UNCHANGED <<pw, settled>>
    BY <1>5, ClaimedIs DEF ClaimLate, Settles
  <2> QED BY <1>5, <2>1
        DEF Asks, Settles
<1>6. ASSUME NEW r \in Everyone, Backup(r)
      PROVE  up => (Asks => Asks') /\ (Settles => Settles')
  <2>1. UNCHANGED <<pw, settled>>
    BY <1>6 DEF Backup, page
  <2> QED BY <1>6, <2>1
        DEF Asks, Settles
<1>7. ASSUME NEW r \in Everyone, Rename(r)
      PROVE  up => (Asks => Asks') /\ (Settles => Settles')
  <2>1. UNCHANGED <<pw, settled>>
    BY <1>7 DEF Rename, page
  <2> QED BY <1>7, <2>1
        DEF Asks, Settles
<1>8. ASSUME NEW r \in Everyone, Truncate(r)
      PROVE  up => (Asks => Asks') /\ (Settles => Settles')
  <2>1. UNCHANGED <<pw, settled>>
    BY <1>8 DEF Truncate, page
  <2> QED BY <1>8, <2>1
        DEF Asks, Settles
<1>9. ASSUME NEW r \in Everyone, Write(r)
      PROVE  up => (Asks => Asks') /\ (Settles => Settles')
  <2>1. UNCHANGED <<pw, settled>>
    BY <1>9 DEF Write, page
  <2> QED BY <1>9, <2>1
        DEF Asks, Settles
<1>10. ASSUME NEW r \in Everyone, WriteFails(r)
      PROVE  up => (Asks => Asks') /\ (Settles => Settles')
  <2>1. UNCHANGED <<pw, settled>>
    BY <1>10 DEF WriteFails, page
  <2> QED BY <1>10, <2>1
        DEF Asks, Settles
<1>11. ASSUME NEW r \in Everyone, Apply(r)
      PROVE  up => (Asks => Asks') /\ (Settles => Settles')
  <2>1. UNCHANGED <<pw, settled>> \/ pw' \notin {"", "locked"}
    BY <1>11, PageIs
  <2> QED BY <1>11, <2>1
        DEF Asks, Settles
<1>12. ASSUME NEW r \in Everyone, ApplyRefused(r)
      PROVE  up => (Asks => Asks') /\ (Settles => Settles')
  <2>1. UNCHANGED <<pw, settled>>
    BY <1>12 DEF ApplyRefused, page
  <2> QED BY <1>12, <2>1
        DEF Asks, Settles
<1>13. ASSUME NEW r \in Everyone, ClaimTaken(r)
      PROVE  up => (Asks => Asks') /\ (Settles => Settles')
  <2>1. pw' \notin {"", "locked"}
    BY <1>13, ClaimTakenIs
  <2> QED BY <1>13, <2>1
        DEF Asks, Settles
<1>14. ASSUME NEW r \in Everyone, AdoptTyped(r)
      PROVE  up => (Asks => Asks') /\ (Settles => Settles')
  <2>1. UNCHANGED <<pw, settled>> \/ pw' \notin {"", "locked"}
    BY <1>14, PageIs
  <2> QED BY <1>14, <2>1
        DEF Asks, Settles
<1>15. ASSUME ListenSaved
      PROVE  up => (Asks => Asks') /\ (Settles => Settles')
  <2>1. UNCHANGED <<pw, settled>>
    BY <1>15 DEF ListenSaved, page
  <2> QED BY <1>15, <2>1
        DEF Asks, Settles
<1>16. ASSUME NEW p \in {"unset", "old", "open"}, HandWrite(Text("whole", p, {}, 0))
      PROVE  up => (Asks => Asks') /\ (Settles => Settles')
  <2>1. UNCHANGED <<pw, settled>>
    BY <1>16 DEF HandWrite, page
  <2> QED BY <1>16, <2>1
        DEF Asks, Settles
<1>17. ASSUME Crash
      PROVE  up => (Asks => Asks') /\ (Settles => Settles')
  <2>1. UNCHANGED <<pw, settled>>
    BY <1>17 DEF Crash, page
  <2> QED BY <1>17, <2>1
        DEF Asks, Settles
<1>18. ASSUME Restore
      PROVE  up => (Asks => Asks') /\ (Settles => Settles')
  <2>1. UNCHANGED <<pw, settled>>
    BY <1>18 DEF Restore, page
  <2> QED BY <1>18, <2>1
        DEF Asks, Settles
<1>19. CASE UNCHANGED vars
  BY <1>19 DEF vars, disk, page, count, Asks, Settles
<1> QED BY <1>1, <1>2, <1>3, <1>4, <1>5, <1>6, <1>7, <1>8, <1>9, <1>10, <1>11,
          <1>12, <1>13, <1>14, <1>15, <1>16, <1>17, <1>18, <1>19 DEF Next, Serve, Everyone

\* A claim is written only where nothing was claimed.
LEMMA ClaimsStep ==
  ASSUME Types, Roles, Sound, Locked, Claims, [Next]_vars
  PROVE  Claims'
<1>1. ASSUME NEW flags \in BOOLEAN, Boot(flags)
      PROVE  Claims'
  <2>1. \/ req' = req
        \/ Others(Main) /\ req'[Main].at = "read" /\ req'[Main].op.op = "listen"
    BY <1>1, BootIs
  <2>2. mount' = mount /\ claims' = {}
    BY <1>1 DEF Boot
  <2>3. \A q \in Requests : req'[q] = req[q]
    BY <2>1, ConfigFileAssumption DEF Others, Everyone
  <2> QED BY <1>1, <2>1, <2>2, <2>3
        DEF Others, Claims, HasText, Writing, Asks
<1>2. ASSUME NEW r \in Requests, NEW o \in Ops, Arrive(r, o)
      PROVE  Claims'
  <2>1. Others(r) /\ req'[r].at = "read" /\ req'[r].op = o
    BY <1>2, ArriveIs
  <2>2. UNCHANGED <<mount, claims>>
    BY <1>2 DEF Arrive
  <2>3. Asks => Asks'
    BY <1>2, PageStays DEF Arrive, HasPage
  <2>4. o.op = "claim" => mount = "folder"
    BY <1>2, Blanks DEF Arrive, Sound, Types
  <2> QED BY <1>2, <2>1, <2>2, <2>3, <2>4
        DEF Others, Claims, HasText, Writing, Everyone
<1>3. ASSUME NEW r \in Everyone, Read(r)
      PROVE  Claims'
  <2>1. Others(r) /\ (req'[r] = Idle \/ ReadsText(r))
    BY <1>3, ReadIs
  <2>2. UNCHANGED <<mount, claims>>
    BY <1>3 DEF Read, page
  <2>3. Asks => Asks'
    BY <1>3, AtWork, PageStays DEF Read, At
  <2> QED BY <1>3, <2>1, <2>2, <2>3, IdleIs
        DEF Others, ReadsText, Claims, HasText, Writing, Everyone
<1>4. ASSUME NEW r \in Everyone, Lock(r)
      PROVE  Claims'
  <2>1. Moves(r, "save")
    BY <1>4, Served
  <2>2. UNCHANGED <<mount, claims>>
    BY <1>4 DEF Lock, page
  <2>3. Asks => Asks'
    BY <1>4, AtWork, PageStays DEF Lock, At
  <2>4. HasText(r)
    BY <1>4 DEF Lock, At, HasText, Writing
  <2> QED BY <1>4, <2>1, <2>2, <2>3, <2>4, IdleIs
        DEF Moves, Others, Claims, HasText, Writing, Everyone
<1>5. ASSUME NEW r \in Everyone, ClaimLate(r)
      PROVE  Claims'
  <2>1. Others(r) /\ req'[r] = Idle
    BY <1>5, Served
  <2>2. UNCHANGED <<mount, claims>>
    BY <1>5 DEF ClaimLate, page
  <2>3. Asks => Asks'
    BY <1>5, AtWork, PageStays DEF ClaimLate, At
  <2> QED BY <1>5, <2>1, <2>2, <2>3, IdleIs
        DEF Others, Claims, HasText, Writing, Everyone
<1>6. ASSUME NEW r \in Everyone, Backup(r)
      PROVE  Claims'
  <2>1. \/ Moves(r, "rename") /\ mount = "folder"
        \/ Moves(r, "truncate") /\ mount = "file"
    BY <1>6, Served
  <2>2. UNCHANGED <<mount, claims, pw>> /\ HasText(r)
    BY <1>6 DEF Backup, page, At, HasText
  <2>3. req[r].op.op = "claim" => ~ Asks
    BY <1>6 DEF Backup, Claimed, Asks
  <2> QED BY <1>6, <2>1, <2>2, <2>3, ZenonT(40)
        DEF Moves, Others, Claims, HasText, Writing, Everyone, Asks
<1>7. ASSUME NEW r \in Everyone, Rename(r)
      PROVE  Claims'
  <2>1. Moves(r, "written")
    BY <1>7, Served
  <2>2. UNCHANGED <<mount, claims>>
    BY <1>7 DEF Rename, page
  <2>3. Asks => Asks'
    BY <1>7, AtWork, PageStays DEF Rename, At
  <2>4. HasText(r) /\ Writing(r)
    BY <1>7 DEF Rename, At, HasText, Writing
  <2> QED BY <1>7, <2>1, <2>2, <2>3, <2>4, IdleIs
        DEF Moves, Others, Claims, HasText, Writing, Everyone
<1>8. ASSUME NEW r \in Everyone, Truncate(r)
      PROVE  Claims'
  <2>1. Moves(r, "write")
    BY <1>8, Served
  <2>2. UNCHANGED <<mount, claims>>
    BY <1>8 DEF Truncate, page
  <2>3. Asks => Asks'
    BY <1>8, AtWork, PageStays DEF Truncate, At
  <2>4. HasText(r) /\ Writing(r)
    BY <1>8 DEF Truncate, At, HasText, Writing
  <2> QED BY <1>8, <2>1, <2>2, <2>3, <2>4, IdleIs
        DEF Moves, Others, Claims, HasText, Writing, Everyone
<1>9. ASSUME NEW r \in Everyone, Write(r)
      PROVE  Claims'
  <2>1. Moves(r, "written")
    BY <1>9, Served
  <2>2. UNCHANGED <<mount, claims>>
    BY <1>9 DEF Write, page
  <2>3. Asks => Asks'
    BY <1>9, AtWork, PageStays DEF Write, At
  <2>4. HasText(r) /\ Writing(r)
    BY <1>9 DEF Write, At, HasText, Writing
  <2> QED BY <1>9, <2>1, <2>2, <2>3, <2>4, IdleIs
        DEF Moves, Others, Claims, HasText, Writing, Everyone
<1>10. ASSUME NEW r \in Everyone, WriteFails(r)
      PROVE  Claims'
  <2>1. Others(r) /\ req'[r] = Idle
    BY <1>10, Served
  <2>2. UNCHANGED <<mount, claims>>
    BY <1>10 DEF WriteFails, page
  <2>3. Asks => Asks'
    BY <1>10, AtWork, PageStays DEF WriteFails, At
  <2> QED BY <1>10, <2>1, <2>2, <2>3, IdleIs
        DEF Others, Claims, HasText, Writing, Everyone
<1>11. ASSUME NEW r \in Everyone, Apply(r)
      PROVE  Claims'
  <2>1. Others(r) /\ Applied(r)
    BY <1>11, ApplyIs
  <2>2. UNCHANGED <<mount, claims>>
    BY <1>11 DEF Apply, page
  <2>3. Asks => Asks'
    BY <1>11, AtWork, PageStays DEF Apply, At
  <2> QED BY <1>11, <2>1, <2>2, <2>3, IdleIs
        DEF Others, Applied, Claims, HasText, Writing, Everyone
<1>12. ASSUME NEW r \in Everyone, ApplyRefused(r)
      PROVE  Claims'
  <2>1. Others(r) /\ req'[r] = Idle
    BY <1>12, Served
  <2>2. UNCHANGED <<mount, claims>>
    BY <1>12 DEF ApplyRefused, page
  <2>3. Asks => Asks'
    BY <1>12, AtWork, PageStays DEF ApplyRefused, At
  <2> QED BY <1>12, <2>1, <2>2, <2>3, IdleIs
        DEF Others, Claims, HasText, Writing, Everyone
<1>13. ASSUME NEW r \in Everyone, ClaimTaken(r)
      PROVE  Claims'
  <2>1. Others(r) /\ req'[r] = Idle
    BY <1>13, Served
  <2>2. r \in Requests /\ Asks' /\ claims' = claims \union {r} /\ mount' = mount
    BY <1>13, ClaimTakenIs DEF ClaimTaken, Asks
  <2>3. Writing(r) /\ Saving(r) /\ req[r].op.op = "claim"
    BY <1>13 DEF ClaimTaken, At, Writing, Saving
  <2>4. claims' = {r}
    BY <2>2, <2>3 DEF Claims
  <2>5. \A q \in Requests : q # r => ~ Writing(q)
    BY <2>2, <2>3 DEF Locked, Saving, Writing
  <2> QED BY <1>13, <2>1, <2>2, <2>3, <2>4, <2>5, IdleIs
        DEF Others, Claims, HasText, Writing, Everyone
<1>14. ASSUME NEW r \in Everyone, AdoptTyped(r)
      PROVE  Claims'
  <2>1. Others(r) /\ req'[r] = Idle
    BY <1>14, Served
  <2>2. UNCHANGED <<mount, claims>>
    BY <1>14 DEF AdoptTyped, page
  <2>3. Asks => Asks'
    BY <1>14, AtWork, PageStays DEF AdoptTyped, At
  <2> QED BY <1>14, <2>1, <2>2, <2>3, IdleIs
        DEF Others, Claims, HasText, Writing, Everyone
<1>15. ASSUME ListenSaved
      PROVE  Claims'
  <2>1. Main \in Everyone /\ Others(Main) /\ req'[Main] = Idle
    BY <1>15, ListenSavedIs
  <2>2. UNCHANGED <<mount, claims, pw>>
    BY <1>15 DEF ListenSaved, page
  <2> QED BY <1>15, <2>1, <2>2, ConfigFileAssumption
             DEF Others, Claims, HasText, Writing, Everyone, Asks
<1>16. ASSUME NEW p \in {"unset", "old", "open"}, HandWrite(Text("whole", p, {}, 0))
      PROVE  Claims'
  <2>1. UNCHANGED <<mount, claims, pw, req>>
    BY <1>16 DEF HandWrite, page
  <2> QED BY <1>16, <2>1
        DEF Claims, HasText, Writing, Asks
<1>17. ASSUME Crash
      PROVE  Claims'
  <2>1. /\ req' \in [Everyone -> ReqType] /\ \A q \in Everyone : req'[q] = Idle
        /\ \/ file' = file
           \/ (\E q \in Everyone : req[q].at = "write") /\ (file' = Empty \/ file' = Torn)
    BY <1>17, CrashIs
  <2>2. UNCHANGED <<mount, claims, pw>>
    BY <1>17 DEF Crash, page
  <2> QED BY <1>17, <2>1, <2>2, IdleIs
        DEF Claims, HasText, Writing, Everyone, Asks
<1>18. ASSUME Restore
      PROVE  Claims'
  <2>1. UNCHANGED <<mount, claims, pw, req>>
    BY <1>18 DEF Restore, page
  <2> QED BY <1>18, <2>1
        DEF Claims, HasText, Writing, Asks
<1>19. CASE UNCHANGED vars
  BY <1>19 DEF vars, disk, page, count, Claims, HasText, Writing, Asks
<1> QED BY <1>1, <1>2, <1>3, <1>4, <1>5, <1>6, <1>7, <1>8, <1>9, <1>10, <1>11,
          <1>12, <1>13, <1>14, <1>15, <1>16, <1>17, <1>18, <1>19 DEF Next, Serve, Everyone

\* A look at a file that is not there changes nothing.
LEMMA LookAtNone ==
  ASSUME file = Absent, pw = "", ~ settled, claimed
  PROVE  pw' = "" /\ ~ settled'
<1>1. file.is = "absent"
  BY Blanks
<1>2. ~ ClaimedBy(file)
  BY <1>1 DEF ClaimedBy, Loads
<1> QED BY <1>1, <1>2 DEF claimed

\* A file that is there stays; only a start of the daemon finds none.
LEMMA VacantBefore ==
  ASSUME Types, Roles, Sound, [Next]_vars, up', file' = Absent
  PROVE  \/ \E flags \in BOOLEAN : Boot(flags)
         \/ file = Absent /\ up /\ ~ Crash /\ ~ Restore
            /\ (\A p \in {"unset", "old", "open"} : ~ HandWrite(Text("whole", p, {}, 0)))
            /\ \A r \in Everyone : ~ Rename(r) /\ ~ Truncate(r) /\ ~ Write(r) /\ ~ WriteFails(r)
<1>1. file'.is = "absent"
  BY Blanks
<1>2. ~ Crash /\ ~ Restore
  BY DEF Crash, Restore
<1>3. \A p \in {"unset", "old", "open"} : ~ HandWrite(Text("whole", p, {}, 0))
  <2> SUFFICES ASSUME NEW p \in {"unset", "old", "open"}, HandWrite(Text("whole", p, {}, 0))
               PROVE  FALSE
    OBVIOUS
  <2>1. file' = Text("whole", p, {}, 0)
    BY DEF HandWrite
  <2>2. Text("whole", p, {}, 0).is = "whole"
    BY DEF Text
  <2> QED BY <1>1, <2>1, <2>2
<1>4. ASSUME NEW r \in Everyone PROVE ~ Rename(r) /\ ~ Truncate(r) /\ ~ Write(r) /\ ~ WriteFails(r)
  <2>1. ~ Truncate(r) /\ ~ WriteFails(r)
    BY <1>1, Blanks DEF Truncate, WriteFails
  <2>2. ~ Rename(r) /\ ~ Write(r)
    BY <1>1 DEF Rename, Write, Sound, HasText, At
  <2> QED BY <2>1, <2>2
<1>5. (\E flags \in BOOLEAN : Boot(flags)) \/ (file = Absent /\ up)
  <2>1. CASE UNCHANGED vars
    BY <2>1 DEF vars, disk
  <2>2. ASSUME NEW r \in Requests, NEW o \in Ops, Arrive(r, o) PROVE file = Absent /\ up
    BY <2>2 DEF Arrive, HasPage, disk
  <2>3. ASSUME NEW r \in Everyone,
               \/ Read(r) \/ Lock(r) \/ ClaimLate(r) \/ Backup(r) \/ Apply(r) \/ ApplyRefused(r)
               \/ ClaimTaken(r) \/ AdoptTyped(r)
        PROVE  file = Absent /\ up
    BY <2>3 DEF Read, Lock, ClaimLate, Backup, Apply, ApplyRefused, ClaimTaken, AdoptTyped, disk
  <2>4. CASE ListenSaved
    BY <2>4 DEF ListenSaved, disk
  <2> QED BY <1>2, <1>3, <1>4, <2>1, <2>2, <2>3, <2>4 DEF Next, Serve, Everyone
<1> QED BY <1>2, <1>3, <1>4, <1>5

\* Without a file, nothing is saved and nothing asked.
LEMMA VacantStep ==
  ASSUME Types, Roles, Sound, Vacant, [Next]_vars
  PROVE  Vacant'
<1> SUFFICES ASSUME up', file' = Absent
             PROVE  /\ pw' = "" /\ ~ settled' /\ req'[Main].at = "idle"
                    /\ \A q \in Everyone : req'[q].at \notin {"written", "adopt"}
  BY DEF Vacant
<1>1. ASSUME NEW flags \in BOOLEAN, Boot(flags)
      PROVE  /\ pw' = "" /\ ~ settled' /\ req'[Main].at = "idle"
             /\ \A q \in Everyone : req'[q].at \notin {"written", "adopt"}
  <2>1. file = Absent /\ ~ up /\ pw' = "" /\ settled' = FALSE
    BY <1>1 DEF Boot, disk
  <2>2. req' = req
    BY <1>1, <2>1 DEF Boot
  <2>3. \A q \in Everyone : req[q] = Idle
    BY <2>1 DEF Roles
  <2> QED BY <2>1, <2>2, <2>3, IdleIs DEF Everyone
<1> SUFFICES ASSUME \A flags \in BOOLEAN : ~ Boot(flags)
             PROVE  /\ pw' = "" /\ ~ settled' /\ req'[Main].at = "idle"
                    /\ \A q \in Everyone : req'[q].at \notin {"written", "adopt"}
  BY <1>1
<1>2. /\ file = Absent /\ up /\ ~ Crash /\ ~ Restore
      /\ (\A p \in {"unset", "old", "open"} : ~ HandWrite(Text("whole", p, {}, 0)))
      /\ \A r \in Everyone : ~ Rename(r) /\ ~ Truncate(r) /\ ~ Write(r) /\ ~ WriteFails(r)
  BY VacantBefore
<1>3. /\ pw = "" /\ ~ settled /\ req[Main].at = "idle"
      /\ \A q \in Everyone : req[q].at \notin {"written", "adopt"}
  BY <1>2 DEF Vacant
<1>4. Main \in Everyone /\ \A r \in Requests : r \in Everyone /\ r # Main
  BY ConfigFileAssumption DEF Everyone
<1>5. ASSUME NEW r \in Everyone, r # Main, Others(r), req'[r].at \notin {"written", "adopt"}
      PROVE  /\ req'[Main].at = "idle"
             /\ \A q \in Everyone : req'[q].at \notin {"written", "adopt"}
  BY <1>3, <1>4, <1>5 DEF Others
<1>6. ASSUME NEW r \in Requests, NEW o \in Ops, Arrive(r, o)
      PROVE  /\ pw' = "" /\ ~ settled' /\ req'[Main].at = "idle"
             /\ \A q \in Everyone : req'[q].at \notin {"written", "adopt"}
  <2>1. Others(r) /\ req'[r].at = "read"
    BY <1>6, ArriveIs
  <2>2. pw' = "" /\ ~ settled'
    BY <1>2, <1>3, <1>6, LookAtNone DEF Arrive
  <2> QED BY <1>4, <1>5, <2>1, <2>2
<1>7. ASSUME NEW r \in Everyone, Read(r) \/ Lock(r) \/ Backup(r)
      PROVE  /\ pw' = "" /\ ~ settled' /\ req'[Main].at = "idle"
             /\ \A q \in Everyone : req'[q].at \notin {"written", "adopt"}
  <2>1. r # Main
    BY <1>3, <1>7 DEF Read, Lock, Backup, At
  <2>2. UNCHANGED <<pw, settled>>
    BY ONLY <1>7, Zenon DEF Read, Lock, Backup, page
  <2>3. Others(r) /\ req'[r].at \notin {"written", "adopt"}
    BY <1>7, ReadIs, Served, IdleIs DEF ReadsText, Moves
  <2> QED BY <1>3, <1>5, <2>1, <2>2, <2>3
<1>8. ASSUME NEW r \in Everyone, ClaimLate(r)
      PROVE  /\ pw' = "" /\ ~ settled' /\ req'[Main].at = "idle"
             /\ \A q \in Everyone : req'[q].at \notin {"written", "adopt"}
  <2>1. r # Main
    BY <1>3, <1>8 DEF ClaimLate, At
  <2>2. pw' = "" /\ ~ settled'
    BY <1>2, <1>3, <1>8, LookAtNone DEF ClaimLate
  <2>3. Others(r) /\ req'[r].at \notin {"written", "adopt"}
    BY <1>8, Served, IdleIs
  <2> QED BY <1>5, <2>1, <2>2, <2>3
<1>9. ASSUME NEW r \in Everyone PROVE ~ Apply(r) /\ ~ ApplyRefused(r) /\ ~ ClaimTaken(r) /\ ~ AdoptTyped(r)
  BY <1>3 DEF Apply, ApplyRefused, ClaimTaken, AdoptTyped, At
<1>10. ~ ListenSaved
  BY <1>3 DEF ListenSaved, At
<1>11. CASE UNCHANGED vars
  BY <1>3, <1>11 DEF vars, page
<1> QED BY <1>2, <1>6, <1>7, <1>8, <1>9, <1>10, <1>11 DEF Next, Serve, Everyone

\* While a claim writes, nobody else does.
LEMMA WritesAlone ==
  ASSUME Roles, Locked, Vacant, Claiming, "late" \notin astray,
         NEW r \in Requests, req[r].op.op = "claim", req[r].at \in {"rename", "written"},
         NEW q \in Everyone, q # r
  PROVE  ~ Saving(q) /\ req[q].at # "adopt" /\ (q = Main => req[q].at = "idle")
<1>1. up
  BY AtWork DEF Everyone
<1>2. Saving(r)
  BY DEF Saving
<1>3. req[Main].at = "idle" /\ req[q].at # "adopt"
  <2>1. CASE req[r].at = "rename"
    BY <1>1, <2>1 DEF Claiming, Vacant
  <2>2. CASE req[r].at = "written"
    BY <2>2 DEF Claiming
  <2> QED BY <2>1, <2>2
<1>4. CASE q = Main
  BY <1>3, <1>4 DEF Saving
<1>5. CASE q # Main
  BY <1>2, <1>3, <1>5 DEF Locked, Everyone
<1> QED BY <1>4, <1>5

\* A claim that writes is where it was: another request does no more than
\* arrive, read and ask for the lock.
LEMMA ClaimingStep ==
  ASSUME Types, Roles, Sound, Locked, Claims, Vacant, Claiming, [Next]_vars
  PROVE  Claiming'
<1> SUFFICES ASSUME "late" \notin astray', NEW r \in Requests, req'[r].op.op = "claim",
                    req'[r].at \in {"rename", "written"}
             PROVE  /\ req'[r].at = "rename" => file' = Absent
                    /\ req'[r].at = "written" =>
                         /\ file' = req'[r].text /\ req'[Main].at = "idle"
                         /\ \A q \in Everyone : req'[q].at # "adopt"
                         /\ (pw' = "" /\ ~ settled') \/ pw' = req'[r].op.arg
  BY DEF Claiming
<1> DEFINE Goal == /\ req'[r].at = "rename" => file' = Absent
                   /\ req'[r].at = "written" =>
                        /\ file' = req'[r].text /\ req'[Main].at = "idle"
                        /\ \A q \in Everyone : req'[q].at # "adopt"
                        /\ (pw' = "" /\ ~ settled') \/ pw' = req'[r].op.arg
<1>1. r \in Everyone /\ r # Main /\ Main \in Everyone
  BY ConfigFileAssumption DEF Everyone
\* Where r is at the stage already.
<1> DEFINE Writes == req[r].op.op = "claim" /\ req[r].at \in {"rename", "written"} /\ "late" \notin astray
<1>2. ASSUME Writes
      PROVE  /\ up /\ req[r].text.is = "whole" /\ req[r].text.pw = req[r].op.arg /\ mount = "folder"
             /\ req[r].op.arg \in Passwords
             /\ \A q \in Everyone : q # r =>
                  ~ Saving(q) /\ req[q].at # "adopt" /\ (q = Main => req[q].at = "idle")
  <2>1. up
    BY <1>1, <1>2, AtWork
  <2>2. HasText(r) /\ req[r].at # "idle"
    BY <1>2 DEF HasText
  <2>3. req[r].op.arg \in Passwords
    BY <1>2, <2>2, OpIs DEF Roles
  <2>4. req[r].text.is = "whole" /\ req[r].text.pw = req[r].op.arg /\ mount = "folder"
    BY <1>1, <1>2, <2>2 DEF Sound, Claims
  <2> QED BY <1>2, <2>1, <2>3, <2>4, WritesAlone
<1>3. ASSUME Writes, req'[r] = req[r], file' = file, UNCHANGED <<pw, settled>>,
             req'[Main].at = req[Main].at, \A q \in Everyone : req'[q].at # "adopt"
      PROVE  Goal
  BY <1>3 DEF Claiming
<1> HIDE DEF Goal
<1>4. ASSUME NEW flags \in BOOLEAN, Boot(flags) PROVE FALSE
  <2>1. ~ up /\ req[r] = Idle
    BY <1>1, <1>4 DEF Boot, Roles
  <2>2. req'[r] = req[r]
    BY <1>1, <1>4, BootIs DEF Others
  <2> QED BY <2>1, <2>2, IdleIs
<1>5. ASSUME NEW q \in Requests, NEW o \in Ops, Arrive(q, o) PROVE Goal
  <2>1. Others(q) /\ req'[q].at = "read" /\ file' = file /\ astray' = astray /\ q \in Everyone
    BY <1>5, ArriveIs DEF Arrive, disk, Everyone
  <2>2. q # r /\ req'[r] = req[r] /\ Writes /\ q # Main /\ req'[Main] = req[Main]
    BY <1>1, <2>1, ConfigFileAssumption DEF Others
  <2>3. \A p \in Everyone : req[p].at # "adopt"
    BY <1>2, <2>2
  <2>4. \A p \in Everyone : req'[p].at # "adopt"
    BY <2>1, <2>3 DEF Others
  <2>5. req[r].at = "written" => (pw' = "" /\ ~ settled') \/ pw' = req[r].op.arg
    <3> SUFFICES ASSUME req[r].at = "written" PROVE (pw' = "" /\ ~ settled') \/ pw' = req[r].op.arg
      OBVIOUS
    <3>1. file = req[r].text /\ ((pw = "" /\ ~ settled) \/ pw = req[r].op.arg)
      BY <2>2 DEF Claiming
    <3>2. file.is = "whole" /\ file.pw = req[r].op.arg /\ file.pw \notin Markers
      BY <1>2, <2>2, <3>1, PasswordIs
    <3>3. claimed
      BY <1>5 DEF Arrive
    <3> QED BY <3>1, <3>2, <3>3 DEF claimed, ClaimedBy, Loads, Markers, adoptResolvedPassword
  <2> QED BY <2>1, <2>2, <2>4, <2>5 DEF Goal, Claiming
<1>6. ASSUME NEW q \in Everyone, Read(q) \/ Lock(q) PROVE Goal
  <2>1. /\ Others(q) /\ req'[q].at \in {"idle", "lock", "save"} /\ req[q].at \in {"read", "lock"}
        /\ UNCHANGED <<file, pw, settled, astray>>
    BY <1>6, ReadIs, Served, IdleIs DEF Read, Lock, At, disk, page, ReadsText, Moves
  <2>2. q # r /\ req'[r] = req[r] /\ Writes
    BY <1>1, <2>1 DEF Others
  <2>3. q # Main /\ \A p \in Everyone : req[p].at # "adopt"
    BY <1>1, <1>2, <2>1, <2>2
  <2>4. req'[Main] = req[Main] /\ \A p \in Everyone : req'[p].at # "adopt"
    BY <1>1, <2>1, <2>3 DEF Others
  <2> QED BY <1>3, <2>1, <2>2, <2>4
<1>7. ASSUME NEW q \in Everyone, q # r, Others(q), Saving(q) \/ req[q].at = "adopt", astray' = astray
      PROVE  FALSE
  <2>1. Writes
    BY <1>1, <1>7 DEF Others
  <2> QED BY <1>2, <1>7, <2>1
<1>8. ASSUME NEW q \in Everyone, Backup(q) PROVE Goal
  <2>1. Others(q) /\ Saving(q) /\ ("late" \notin astray) /\ file' = file /\ req'[q].at # "written"
    BY <1>8, Served DEF Backup, Moves, At, Saving
  <2>2. CASE q = r
    <3>1. req[r].op.op = "claim"
      BY <1>8, <2>2, Served DEF Moves
    <3>2. file = Absent
      BY <1>8, <2>2, <3>1 DEF Backup
    <3> QED BY <2>1, <2>2, <3>2 DEF Goal
  <2>3. CASE q # r
    <3>1. Writes
      BY <1>1, <2>1, <2>3 DEF Others
    <3> QED BY <1>2, <2>1, <2>3, <3>1
  <2> QED BY <2>2, <2>3
<1>9. ASSUME NEW q \in Everyone, Rename(q) PROVE Goal
  <2>1. /\ Moves(q, "written") /\ Saving(q) /\ ("late" \notin astray) /\ file' = req[q].text
        /\ req[q].at = "rename" /\ UNCHANGED <<pw, settled>>
    BY <1>9, Served DEF Rename, At, Saving, Overwriting, page
  <2>2. CASE q = r
    <3>1. req[r].op.op = "claim" /\ req'[r].text = req[r].text
      BY <2>1, <2>2 DEF Moves
    <3>2. file = Absent /\ up
      BY <1>1, <2>1, <2>2, <3>1, AtWork DEF Claiming
    <3>3. pw = "" /\ ~ settled /\ req[Main].at = "idle" /\ \A p \in Everyone : req[p].at # "adopt"
      BY <3>2 DEF Vacant
    <3>4. req'[Main].at = "idle" /\ \A p \in Everyone : req'[p].at # "adopt"
      BY <1>1, <2>1, <2>2, <3>3 DEF Moves, Others
    <3> QED BY <2>1, <2>2, <3>1, <3>3, <3>4 DEF Goal, Moves
  <2>3. CASE q # r
    <3>1. Writes
      BY <1>1, <2>1, <2>3 DEF Moves, Others
    <3> QED BY <1>2, <2>1, <2>3, <3>1
  <2> QED BY <2>2, <2>3
<1>10. ASSUME NEW q \in Everyone, Truncate(q) \/ Write(q) \/ WriteFails(q) PROVE Goal
  <2>1. /\ Others(q) /\ Saving(q) /\ ("late" \notin astray) /\ req[q].at \in {"truncate", "write"}
        /\ req'[q] = Idle \/ req'[q].op = req[q].op
    BY <1>10, Served DEF Truncate, Write, WriteFails, At, Saving, Overwriting, Moves
  <2>2. mount = "file"
    BY <2>1 DEF Sound
  <2>3. q # r
    <3>1. CASE req'[q] = Idle
      BY <3>1, IdleIs
    <3>2. CASE req'[q].op = req[q].op
      BY <2>2, <3>2 DEF Claims
    <3> QED BY <2>1, <3>1, <3>2
  <2>4. Writes
    BY <1>1, <2>1, <2>3 DEF Others
  <2> QED BY <1>2, <2>1, <2>3, <2>4
<1>11. ASSUME NEW q \in Everyone, Apply(q) PROVE FALSE
  <2>1. Others(q) /\ Applied(q) /\ Saving(q) /\ astray' = astray
    BY <1>11, ApplyIs DEF Apply, At, Saving
  <2>2. q # r
    BY <2>1, IdleIs DEF Applied
  <2> QED BY <1>7, <2>1, <2>2
<1>12. ASSUME NEW q \in Everyone,
              ClaimLate(q) \/ ApplyRefused(q) \/ ClaimTaken(q) \/ AdoptTyped(q)
       PROVE  FALSE
  <2>1. /\ Others(q) /\ req'[q] = Idle /\ astray' = astray
        /\ Saving(q) \/ req[q].at = "adopt"
    BY <1>12, Served DEF ClaimLate, ApplyRefused, ClaimTaken, AdoptTyped, At, Saving
  <2>2. q # r
    BY <2>1, IdleIs
  <2> QED BY <1>7, <2>1, <2>2
<1>13. ~ ListenSaved
  <2> SUFFICES ASSUME ListenSaved PROVE FALSE
    OBVIOUS
  <2>1. Others(Main) /\ Saving(Main) /\ astray' = astray
    BY ListenSavedIs DEF ListenSaved, At, Saving
  <2> QED BY <1>1, <1>7, <2>1
<1>14. ASSUME NEW p \in {"unset", "old", "open"}, HandWrite(Text("whole", p, {}, 0)) PROVE FALSE
  <2>1. /\ req' = req /\ file = Absent /\ ("late" \notin astray) /\ ~ Looked
        /\ DOMAIN req = Everyone
    BY <1>14 DEF HandWrite, Types
  <2>2. req[r].at = "written" /\ Writes
    BY <1>1, <2>1 DEF Looked, At
  <2>3. file = req[r].text /\ file.is = "whole"
    BY <1>2, <2>2 DEF Claiming
  <2> QED BY <2>1, <2>3, Blanks
<1>15. ASSUME Crash PROVE FALSE
  BY <1>1, <1>15, CrashIs, IdleIs
<1>16. ASSUME Restore PROVE FALSE
  <2>1. req' = req /\ ~ up
    BY <1>16 DEF Restore
  <2> QED BY <1>1, <2>1, AtWork
<1>17. ASSUME UNCHANGED vars PROVE Goal
  <2>1. req' = req /\ UNCHANGED <<file, pw, settled, astray>>
    BY <1>17 DEF vars, disk, page
  <2>2. Writes
    BY <2>1
  <2>3. req[r].at # "adopt"
    BY <2>2
  <2>4. \A p \in Everyone : p # r => req[p].at # "adopt"
    BY <1>2, <2>2
  <2>5. \A p \in Everyone : req[p].at # "adopt"
    BY <2>3, <2>4
  <2>6. req'[r] = req[r] /\ req'[Main].at = req[Main].at
    BY <2>1
  <2>7. \A p \in Everyone : req'[p].at # "adopt"
    BY <2>1, <2>5
  <2>8. file' = file /\ UNCHANGED <<pw, settled>>
    BY <2>1
  <2> QED BY ONLY <1>3, <2>2, <2>6, <2>7, <2>8, Zenon
<1> HIDE DEF Writes
<1>18. ASSUME NEW q \in Everyone, Serve(q) \/ WriteFails(q) PROVE Goal
  BY ONLY <1>6, <1>8, <1>9, <1>10, <1>11, <1>12, <1>18, Zenon DEF Serve
<1>19. Next => Goal
  BY ONLY <1>4, <1>5, <1>13, <1>14, <1>15, <1>16, <1>18, Zenon DEF Next, Everyone
<1>20. Goal
  BY <1>17, <1>19, Zenon
<1> QED BY <1>20 DEF Goal

\* A file has a password, or says it needs none, or the page never had one.
LEMMA SecretsStep ==
  ASSUME Types, Roles, Sound, Claims, Secrets, [Next]_vars
  PROVE  Secrets'
<1>1. ASSUME NEW flags \in BOOLEAN, Boot(flags)
      PROVE  Secrets'
  <2>1. \/ req' = req
        \/ Others(Main) /\ req'[Main].at = "read" /\ req'[Main].op.op = "listen"
    BY <1>1, BootIs
  <2>2. UNCHANGED <<mount, file, bak>> /\ ~ up
    BY <1>1 DEF Boot, disk
  <2>3. \A q \in Everyone : req'[q].at \in {"idle", "read"}
    BY <2>1, <2>2, IdleIs DEF Others, Roles
  <2>4. mount = "file" => pw' = file.pw \/ file.pw = "none"
    BY <1>1, Blanks DEF Boot, Sound, Secrets
  <2>5. file.pw \notin {"", "locked"}
    BY TextIs, WrittenIs DEF Types, Shaped
  <2> QED BY <1>1, <2>1, <2>2, <2>3, <2>4, <2>5
        DEF Others, Secrets, HasText, Asks
<1>2. ASSUME NEW r \in Requests, NEW o \in Ops, Arrive(r, o)
      PROVE  Secrets'
  <2>1. Others(r) /\ req'[r].at = "read" /\ req'[r].op = o
    BY <1>2, ArriveIs
  <2>2. UNCHANGED <<mount, file, bak, up>> /\ up
    BY <1>2 DEF Arrive, disk, HasPage
  <2>3. Asks => Asks'
    BY <1>2, <2>2, PageStays
  <2> QED BY <1>2, <2>1, <2>2, <2>3
        DEF Others, Secrets, HasText, Everyone
<1>3. ASSUME NEW r \in Everyone, Read(r)
      PROVE  Secrets'
  <2>1. Others(r) /\ (req'[r] = Idle \/ ReadsText(r))
    BY <1>3, ReadIs
  <2>2. UNCHANGED <<mount, file, bak, up, pw>> /\ up
    BY <1>3, AtWork DEF Read, disk, page, At
  <2>3. mount = "folder" /\ file.is = "whole" => file.pw # "none"
    BY DEF Secrets
  <2>4. req[r].op.op = "claim" => mount = "folder"
    BY <1>3, WhoIs DEF Claims, Read, At
  <2>5. mount = "folder" => file.is \in {"absent", "whole"}
    BY DEF Sound
  <2>6. mount = "folder" /\ req'[r] # Idle => req'[r].text.pw # "none"
    BY <2>1, <2>3, <2>5 DEF ReadsText, Markers
  <2>7. mount = "file" /\ req'[r] # Idle => req'[r].text.pw \notin {"open", "unset"}
    BY <2>1, <2>4 DEF ReadsText, Markers, Secrets
  <2>8. mount = "file" /\ req'[r] # Idle /\ file.pw = "none" => req'[r].text.pw = "none"
    BY <2>1, <2>4 DEF ReadsText, Markers
  <2> QED BY <1>3, <2>1, <2>2, <2>3, <2>4, <2>5, <2>6, <2>7, <2>8, IdleIs
        DEF Others, ReadsText, Secrets, HasText, Asks
<1>4. ASSUME NEW r \in Everyone, Lock(r)
      PROVE  Secrets'
  <2>1. Moves(r, "save")
    BY <1>4, Served
  <2>2. UNCHANGED <<mount, file, bak, up>> /\ up
    BY <1>4, AtWork DEF Lock, disk, At
  <2>3. Asks => Asks'
    BY <1>4, <2>2, PageStays
  <2>4. HasText(r)
    BY <1>4 DEF Lock, At, HasText
  <2> QED BY <1>4, <2>1, <2>2, <2>3, <2>4, IdleIs
        DEF Moves, Others, Secrets, HasText
<1>5. ASSUME NEW r \in Everyone, ClaimLate(r)
      PROVE  Secrets'
  <2>1. Others(r) /\ req'[r] = Idle
    BY <1>5, Served
  <2>2. UNCHANGED <<mount, file, bak, up>> /\ up
    BY <1>5, AtWork DEF ClaimLate, disk, At
  <2>3. Asks => Asks'
    BY <1>5, <2>2, PageStays
  <2> QED BY <1>5, <2>1, <2>2, <2>3, IdleIs
        DEF Others, Secrets, HasText
<1>6. ASSUME NEW r \in Everyone, Backup(r)
      PROVE  Secrets'
  <2>1. \/ Moves(r, "rename") /\ mount = "folder"
        \/ Moves(r, "truncate") /\ mount = "file"
    BY <1>6, Served
  <2>2. UNCHANGED <<mount, file, up>> /\ up
    BY <1>6, AtWork DEF Backup, disk, At
  <2>3. Asks => Asks'
    BY <1>6, <2>2, PageStays
  <2>4. HasText(r) /\ (bak' = file \/ bak' = bak)
    BY <1>6 DEF Backup, At, HasText
  <2> QED BY <1>6, <2>1, <2>2, <2>3, <2>4, IdleIs
        DEF Moves, Others, Secrets, HasText
<1>7. ASSUME NEW r \in Everyone, Rename(r)
      PROVE  Secrets'
  <2>1. Moves(r, "written")
    BY <1>7, Served
  <2>2. UNCHANGED <<mount, bak, up, pw>> /\ up /\ file' = req[r].text /\ HasText(r)
    BY <1>7, AtWork DEF Rename, page, At, HasText
  <2>3. mount = "folder"
    BY <1>7 DEF Rename, At, Sound
  <2> QED BY <1>7, <2>1, <2>2, <2>3
        DEF Moves, Others, Secrets, HasText, Asks
<1>8. ASSUME NEW r \in Everyone, Truncate(r)
      PROVE  Secrets'
  <2>1. Moves(r, "write")
    BY <1>8, Served
  <2>2. UNCHANGED <<mount, bak, up, pw>> /\ up /\ file'.pw = "none" /\ HasText(r)
    BY <1>8, AtWork, Blanks DEF Truncate, page, At, HasText
  <2>3. mount = "file"
    BY <1>8 DEF Truncate, At, Sound
  <2> QED BY <1>8, <2>1, <2>2, <2>3
        DEF Moves, Others, Secrets, HasText, Asks
<1>9. ASSUME NEW r \in Everyone, Write(r)
      PROVE  Secrets'
  <2>1. Moves(r, "written")
    BY <1>9, Served
  <2>2. UNCHANGED <<mount, bak, up, pw>> /\ up /\ file' = req[r].text /\ HasText(r)
    BY <1>9, AtWork DEF Write, page, At, HasText
  <2>3. mount = "file"
    BY <1>9 DEF Write, At, Sound
  <2> QED BY <1>9, <2>1, <2>2, <2>3
        DEF Moves, Others, Secrets, HasText, Asks
<1>10. ASSUME NEW r \in Everyone, WriteFails(r)
      PROVE  Secrets'
  <2>1. Others(r) /\ req'[r] = Idle
    BY <1>10, Served
  <2>2. UNCHANGED <<mount, bak, up, pw>> /\ up /\ file'.pw = "none"
    BY <1>10, AtWork, Blanks DEF WriteFails, page, At
  <2>3. mount = "file"
    BY <1>10 DEF WriteFails, At, Sound
  <2> QED BY <1>10, <2>1, <2>2, <2>3, IdleIs
        DEF Others, Secrets, HasText, Asks
<1>11. ASSUME NEW r \in Everyone, Apply(r)
      PROVE  Secrets'
  <2>1. Others(r) /\ Applied(r)
    BY <1>11, ApplyIs
  <2>2. UNCHANGED <<mount, file, bak, up>> /\ up
    BY <1>11, AtWork DEF Apply, disk, At
  <2>3. Asks => Asks'
    BY <1>11, <2>2, PageStays
  <2> QED BY <1>11, <2>1, <2>2, <2>3, IdleIs
        DEF Others, Applied, Secrets, HasText
<1>12. ASSUME NEW r \in Everyone, ApplyRefused(r)
      PROVE  Secrets'
  <2>1. Others(r) /\ req'[r] = Idle
    BY <1>12, Served
  <2>2. UNCHANGED <<mount, file, bak, up>> /\ up
    BY <1>12, AtWork DEF ApplyRefused, disk, At
  <2>3. Asks => Asks'
    BY <1>12, <2>2, PageStays
  <2> QED BY <1>12, <2>1, <2>2, <2>3, IdleIs
        DEF Others, Secrets, HasText
<1>13. ASSUME NEW r \in Everyone, ClaimTaken(r)
      PROVE  Secrets'
  <2>1. Others(r) /\ req'[r] = Idle
    BY <1>13, Served
  <2>2. UNCHANGED <<mount, file, bak, up>> /\ up
    BY <1>13, AtWork DEF ClaimTaken, disk, At
  <2>3. Asks => Asks'
    BY <1>13, <2>2, PageStays
  <2> QED BY <1>13, <2>1, <2>2, <2>3, IdleIs
        DEF Others, Secrets, HasText
<1>14. ASSUME NEW r \in Everyone, AdoptTyped(r)
      PROVE  Secrets'
  <2>1. Others(r) /\ req'[r] = Idle
    BY <1>14, Served
  <2>2. UNCHANGED <<mount, file, bak, up>> /\ up
    BY <1>14, AtWork DEF AdoptTyped, disk, At
  <2>3. Asks => Asks'
    BY <1>14, <2>2, PageStays
  <2> QED BY <1>14, <2>1, <2>2, <2>3, IdleIs
        DEF Others, Secrets, HasText
<1>15. ASSUME ListenSaved
      PROVE  Secrets'
  <2>1. Main \in Everyone /\ Others(Main) /\ req'[Main] = Idle
    BY <1>15, ListenSavedIs
  <2>2. UNCHANGED <<mount, file, bak, up, pw>>
    BY <1>15 DEF ListenSaved, disk, page
  <2> QED BY <1>15, <2>1, <2>2, IdleIs
        DEF Others, Secrets, HasText, Asks
<1>16. ASSUME NEW p \in {"unset", "old", "open"}, HandWrite(Text("whole", p, {}, 0))
      PROVE  Secrets'
  <2>1. UNCHANGED <<mount, up, pw, req>> /\ mount = "folder" /\ file'.pw # "none"
    BY <1>16 DEF HandWrite, page, Text
  <2> QED BY <1>16, <2>1
        DEF Secrets, HasText, Asks
<1>17. ASSUME Crash
      PROVE  Secrets'
  <2>1. /\ req' \in [Everyone -> ReqType] /\ \A q \in Everyone : req'[q] = Idle
        /\ \/ file' = file
           \/ (\E q \in Everyone : req[q].at = "write") /\ (file' = Empty \/ file' = Torn)
    BY <1>17, CrashIs
  <2>2. UNCHANGED <<mount, bak>> /\ ~ up'
    BY <1>17 DEF Crash
  <2>3. file' = file \/ (mount = "file" /\ file'.pw = "none")
    BY <2>1, Blanks DEF Sound
  <2> QED BY <1>17, <2>1, <2>2, <2>3, IdleIs
        DEF Secrets, HasText, Asks
<1>18. ASSUME Restore
      PROVE  Secrets'
  <2>1. UNCHANGED <<mount, bak, up, pw, req>> /\ ~ up /\ file' = bak
    BY <1>18 DEF Restore, page
  <2>2. mount = "file"
    BY <1>18 DEF Restore, Sound, Types
  <2> QED BY <1>18, <2>1, <2>2
        DEF Secrets, HasText, Asks
<1>19. CASE UNCHANGED vars
  BY <1>19 DEF vars, disk, page, count, Secrets, HasText, Asks
<1> QED BY <1>1, <1>2, <1>3, <1>4, <1>5, <1>6, <1>7, <1>8, <1>9, <1>10, <1>11,
          <1>12, <1>13, <1>14, <1>15, <1>16, <1>17, <1>18, <1>19 DEF Next, Serve, Everyone

\* Only one request writes at a time: the one that holds configMu.
LEMMA OneWrites ==
  ASSUME Locked, NEW r \in Requests, Saving(r)
  PROVE  lock = r /\ \A q \in Requests : q # r => ~ Writing(q)
  BY DEF Locked, Saving, Writing

\* The fleet follows the file.
LEMMA FleetStep ==
  ASSUME Types, Roles, Sound, Locked, Claims, FleetInv, [Next]_vars
  PROVE  FleetInv'
<1>1. ASSUME NEW flags \in BOOLEAN, Boot(flags)
      PROVE  FleetInv'
  <2>1. \/ req' = req
        \/ Others(Main) /\ req'[Main].at = "read" /\ req'[Main].op.op = "listen"
    BY <1>1, BootIs
  <2>2. file' = file /\ fleet' = file.cams
    BY <1>1 DEF Boot, disk
  <2>3. \A q \in Everyone : req'[q].at \in {"idle", "read"}
    BY <1>1, <2>1, IdleIs DEF Others, Roles, Boot
  <2> QED BY <1>1, <2>1, <2>2, <2>3, ConfigFileAssumption
             DEF Others, FleetInv, HasText, Writing, Everyone
<1>2. ASSUME NEW r \in Requests, NEW o \in Ops, Arrive(r, o)
      PROVE  FleetInv'
  <2>1. Others(r) /\ req'[r].at = "read" /\ req'[r].op = o
    BY <1>2, ArriveIs
  <2>2. UNCHANGED <<file, fleet, up, astray>>
    BY <1>2 DEF Arrive, disk
  <2>3. req[r].at = "idle"
    BY <1>2 DEF Arrive, At
  <2> QED BY <1>2, <2>1, <2>2, <2>3, IdleIs, ConfigFileAssumption
             DEF Others, FleetInv, HasText, Writing, Everyone
<1>3. ASSUME NEW r \in Everyone, Read(r)
      PROVE  FleetInv'
  <2>1. Others(r) /\ (req'[r] = Idle \/ ReadsText(r))
    BY <1>3, ReadIs
  <2>2. UNCHANGED <<file, fleet, up, astray>>
    BY <1>3 DEF Read, disk
  <2>3. req[r].at = "read" /\ (r = Main => req[r].op.op = "listen")
    BY <1>3, WhoIs DEF Read, At
  <2> QED BY <1>3, <2>1, <2>2, <2>3, IdleIs, ConfigFileAssumption
             DEF Others, ReadsText, FleetInv, HasText, Writing, Everyone
<1>4. ASSUME NEW r \in Everyone, Lock(r)
      PROVE  FleetInv'
  <2>1. Moves(r, "save")
    BY <1>4, Served
  <2>2. UNCHANGED <<file, fleet, up, astray>>
    BY <1>4 DEF Lock, disk
  <2>3. req[r].at = "lock"
    BY <1>4 DEF Lock, At
  <2> QED BY <1>4, <2>1, <2>2, <2>3, IdleIs, ConfigFileAssumption
             DEF Moves, Others, FleetInv, HasText, Writing, Everyone
<1>5. ASSUME NEW r \in Everyone, ClaimLate(r)
      PROVE  FleetInv'
  <2>1. Others(r) /\ req'[r] = Idle
    BY <1>5, Served
  <2>2. UNCHANGED <<file, fleet, up, astray>>
    BY <1>5 DEF ClaimLate, disk
  <2>3. req[r].at = "save"
    BY <1>5 DEF ClaimLate, At
  <2> QED BY <1>5, <2>1, <2>2, <2>3, IdleIs, ConfigFileAssumption
             DEF Others, FleetInv, HasText, Writing, Everyone
<1>6. ASSUME NEW r \in Everyone, Backup(r)
      PROVE  FleetInv'
  <2>1. \/ Moves(r, "rename") /\ mount = "folder"
        \/ Moves(r, "truncate") /\ mount = "file"
    BY <1>6, Served
  <2>2. UNCHANGED <<file, fleet, up>> /\ req[r].at = "save" /\ HasText(r)
    BY <1>6 DEF Backup, At, HasText
  <2>3. r # Main => \A q \in Requests : ~ Writing(q)
    BY <2>2, OneWrites DEF Everyone, Saving, Writing
  <2>4. r # Main /\ req[r].op.op = "claim" => file = Absent
    BY <1>6 DEF Backup
  <2> QED
    <3> SUFFICES ASSUME up', astray' = {} PROVE FleetInv'
      BY DEF FleetInv
    <3>1. up /\ astray = {} /\ file.is \notin {"torn", "empty"}
      BY <2>2, <1>6 DEF Backup
    <3>2. req[Main].at # "write"
      BY <3>1, Blanks DEF FleetInv
    <3>3. r # Main => fleet = file.cams
      BY <2>3, <3>1, <3>2 DEF FleetInv
    <3>4. r # Main /\ req[r].op.op = "claim" => fleet = {}
      BY <2>4, <3>3, Blanks
    <3>5. CASE r = Main
      BY <2>1, <2>2, <3>1, <3>2, <3>5, ConfigFileAssumption
         DEF Moves, Others, FleetInv, HasText, Writing, Everyone
    <3>6. CASE r # Main
      BY <2>1, <2>2, <2>3, <3>1, <3>2, <3>3, <3>4, <3>6, ConfigFileAssumption
         DEF Moves, Others, FleetInv, HasText, Writing, Everyone
    <3> QED BY <3>5, <3>6
<1>7. ASSUME NEW r \in Everyone, Rename(r)
      PROVE  FleetInv'
  <2>1. Moves(r, "written")
    BY <1>7, Served
  <2>2. /\ UNCHANGED <<fleet, up>> /\ file' = req[r].text /\ req[r].at = "rename"
        /\ HasText(r) /\ Writing(r) /\ Saving(r)
    BY <1>7 DEF Rename, At, HasText, Writing, Saving
  <2>3. mount = "folder"
    BY <1>7 DEF Rename, At, Sound
  <2> QED
    <3> SUFFICES ASSUME up', astray' = {} PROVE FleetInv'
      BY DEF FleetInv
    <3>1. "listen" \notin astray'
      OBVIOUS
    <3>2. up /\ astray = {}
      BY <2>2, <1>7 DEF Rename, Overwriting
    <3>3. CASE r = Main
      <4>1. file = req[Main].old /\ lock = Free
        BY <1>7, <3>1, <3>3 DEF Rename, Overwriting
      <4>2. \A q \in Requests : ~ Saving(q)
        BY <4>1, ConfigFileAssumption DEF Locked
      <4>3. \A q \in Requests : ~ Writing(q)
        BY <4>2 DEF Saving, Writing
      <4>4. fleet = file.cams
        BY <2>2, <2>3, <3>2, <3>3, <4>3 DEF FleetInv, Sound, Everyone
      <4>5. req[Main].text.cams = req[Main].old.cams
        BY <2>2, <3>2, <3>3 DEF FleetInv
      <4>6. file'.cams = fleet
        BY <2>2, <3>3, <4>1, <4>4, <4>5
      <4> QED BY <2>1, <2>2, <3>2, <3>3, <4>3, <4>5, <4>6, ConfigFileAssumption
                 DEF Moves, Others, FleetInv, HasText, Writing, Everyone
    <3>4. CASE r # Main
      <4>1. r \in Requests /\ \A q \in Requests : q # r => ~ Writing(q)
        BY <2>2, <3>4, OneWrites DEF Everyone
      <4>2. req[Main].at # "write"
        BY <2>2, <3>2, <4>1 DEF FleetInv
      <4> QED BY <2>1, <2>2, <3>2, <3>4, <4>1, <4>2, ConfigFileAssumption
                 DEF Moves, Others, FleetInv, HasText, Writing, Everyone
    <3> QED BY <3>3, <3>4
<1>8. ASSUME NEW r \in Everyone, Truncate(r)
      PROVE  FleetInv'
  <2>1. Moves(r, "write")
    BY <1>8, Served
  <2>2. /\ UNCHANGED <<fleet, up>> /\ file' = Empty /\ req[r].at = "truncate"
        /\ HasText(r) /\ Writing(r) /\ Saving(r)
    BY <1>8 DEF Truncate, At, HasText, Writing, Saving
  <2>3. mount = "file"
    BY <1>8 DEF Truncate, At, Sound
  <2> QED
    <3> SUFFICES ASSUME up', astray' = {} PROVE FleetInv'
      BY DEF FleetInv
    <3>1. "listen" \notin astray'
      OBVIOUS
    <3>2. up /\ astray = {}
      BY <2>2, <1>8 DEF Truncate, Overwriting
    <3>3. CASE r = Main
      <4>1. file = req[Main].old /\ lock = Free
        BY <1>8, <3>1, <3>3 DEF Truncate, Overwriting
      <4>2. \A q \in Requests : ~ Saving(q)
        BY <4>1, ConfigFileAssumption DEF Locked
      <4>3. \A q \in Requests : ~ Writing(q)
        BY <4>2 DEF Saving, Writing
      <4>4. file.is # "torn"
        BY <3>3, <4>1, <2>2 DEF Sound
      <4>5. fleet = file.cams
        BY <2>2, <3>2, <3>3, <4>3, <4>4 DEF FleetInv
      <4>6. req[Main].text.cams = req[Main].old.cams
        BY <2>2, <3>2, <3>3 DEF FleetInv
      <4>7. fleet = req[Main].text.cams
        BY <4>1, <4>5, <4>6
      <4> QED BY <2>1, <2>2, <3>2, <3>3, <4>3, <4>6, <4>7, ConfigFileAssumption
                 DEF Moves, Others, FleetInv, HasText, Writing, Everyone
    <3>4. CASE r # Main
      <4>1. r \in Requests /\ \A q \in Requests : q # r => ~ Writing(q)
        BY <2>2, <3>4, OneWrites DEF Everyone
      <4>2. req[Main].at # "write"
        BY <2>2, <3>2, <4>1 DEF FleetInv
      <4> QED BY <2>1, <2>2, <3>2, <3>4, <4>1, <4>2, ConfigFileAssumption
                 DEF Moves, Others, FleetInv, HasText, Writing, Everyone
    <3> QED BY <3>3, <3>4
<1>9. ASSUME NEW r \in Everyone, Write(r)
      PROVE  FleetInv'
  <2>1. Moves(r, "written")
    BY <1>9, Served
  <2>2. /\ UNCHANGED <<fleet, up>> /\ file' = req[r].text /\ req[r].at = "write"
        /\ HasText(r) /\ Writing(r) /\ Saving(r)
    BY <1>9 DEF Write, At, HasText, Writing, Saving
  <2>3. mount = "file"
    BY <1>9 DEF Write, At, Sound
  <2> QED
    <3> SUFFICES ASSUME up', astray' = {} PROVE FleetInv'
      BY DEF FleetInv
    <3>1. "listen" \notin astray'
      OBVIOUS
    <3>2. up /\ astray = {}
      BY <2>2, <1>9 DEF Write, Overwriting
    <3>3. CASE r = Main
      <4>1. file = Empty /\ (\A q \in Requests : ~ Writing(q)) /\ fleet = req[Main].text.cams
        BY <2>2, <3>2, <3>3 DEF FleetInv
      <4>2. file'.cams = fleet /\ req[Main].text.cams = req[Main].old.cams
        BY <2>2, <3>2, <3>3, <4>1 DEF FleetInv
      <4> QED BY <2>1, <2>2, <3>2, <3>3, <4>1, <4>2, ConfigFileAssumption
                 DEF Moves, Others, FleetInv, HasText, Writing, Everyone
    <3>4. CASE r # Main
      <4>1. r \in Requests /\ \A q \in Requests : q # r => ~ Writing(q)
        BY <2>2, <3>4, OneWrites DEF Everyone
      <4>2. req[Main].at # "write"
        BY <2>2, <3>2, <4>1 DEF FleetInv
      <4> QED BY <2>1, <2>2, <3>2, <3>4, <4>1, <4>2, ConfigFileAssumption
                 DEF Moves, Others, FleetInv, HasText, Writing, Everyone
    <3> QED BY <3>3, <3>4
<1>10. ASSUME NEW r \in Everyone, WriteFails(r)
      PROVE  FleetInv'
  <2>1. Others(r) /\ req'[r] = Idle
    BY <1>10, Served
  <2>2. /\ UNCHANGED <<fleet, up, astray>> /\ file' = Torn /\ req[r].at = "write"
        /\ Writing(r) /\ Saving(r)
    BY <1>10 DEF WriteFails, At, Writing, Saving
  <2> QED
    <3> SUFFICES ASSUME up', astray' = {} PROVE FleetInv'
      BY DEF FleetInv
    <3>1. up /\ astray = {} /\ file'.is = "torn"
      BY <2>2, Blanks
    <3>2. CASE r # Main
      <4>1. r \in Requests /\ \A q \in Requests : q # r => ~ Writing(q)
        BY <2>2, <3>2, OneWrites DEF Everyone
      <4>2. req[Main].at # "write"
        BY <2>2, <3>1, <4>1 DEF FleetInv
      <4> QED BY <2>1, <2>2, <3>1, <3>2, <4>1, <4>2, IdleIs, ConfigFileAssumption
                 DEF Others, FleetInv, HasText, Writing, Everyone
    <3>3. CASE r = Main
      <4>1. \A q \in Requests : ~ Writing(q)
        BY <2>2, <3>1, <3>3 DEF FleetInv
      <4> QED BY <2>1, <2>2, <3>1, <3>3, <4>1, IdleIs, ConfigFileAssumption
                 DEF Others, FleetInv, HasText, Writing, Everyone
    <3> QED BY <3>2, <3>3
<1>11. ASSUME NEW r \in Everyone, Apply(r)
      PROVE  FleetInv'
  <2>1. Others(r) /\ Applied(r)
    BY <1>11, ApplyIs
  <2>2. /\ UNCHANGED <<file, up, astray>> /\ fleet' = file.cams /\ req[r].at = "written" /\ r # Main
        /\ Writing(r) /\ Saving(r)
    BY <1>11 DEF Apply, disk, At, Writing, Saving
  <2> QED
    <3> SUFFICES ASSUME up', astray' = {} PROVE FleetInv'
      BY DEF FleetInv
    <3>1. up /\ astray = {}
      BY <2>2
    <3>2. r \in Requests /\ \A q \in Requests : q # r => ~ Writing(q)
      BY <2>2, OneWrites DEF Everyone
    <3>3. req[Main].at # "write"
      BY <2>2, <3>1, <3>2 DEF FleetInv
    <3>4. req'[r].at \in {"idle", "read", "adopt"}
      BY <2>1, IdleIs DEF Applied
    <3> HIDE DEF Applied
    <3> QED BY <2>1, <2>2, <3>1, <3>2, <3>3, <3>4, ConfigFileAssumption
               DEF Others, FleetInv, HasText, Writing, Everyone
<1>12. ASSUME NEW r \in Everyone, ApplyRefused(r)
      PROVE  FleetInv'
  <2>1. Others(r) /\ req'[r] = Idle
    BY <1>12, Served
  <2>2. /\ UNCHANGED <<file, up, astray>> /\ ~ Loads(file) /\ req[r].at = "written" /\ r \in Requests
        /\ HasText(r)
    BY <1>12 DEF ApplyRefused, disk, At, HasText, Everyone
  <2> QED
    <3> SUFFICES ASSUME up', astray' = {} PROVE FleetInv'
      BY DEF FleetInv
    <3>1. file = req[r].text
      BY <2>2 DEF FleetInv
    <3>2. req[r].text.is = "whole" /\ req[r].text.pw # "unset"
      BY <2>2 DEF Sound, Everyone
    <3> QED BY <2>2, <3>1, <3>2 DEF Loads
<1>13. ASSUME NEW r \in Everyone, ClaimTaken(r)
      PROVE  FleetInv'
  <2>1. Others(r) /\ req'[r] = Idle
    BY <1>13, Served
  <2>2. /\ UNCHANGED <<file, fleet, up, astray>> /\ req[r].at = "written" /\ req[r].op.op = "claim"
        /\ HasText(r) /\ Writing(r) /\ Saving(r)
    BY <1>13 DEF ClaimTaken, disk, At, HasText, Writing, Saving
  <2>3. r \in Requests
    BY <1>13, ClaimTakenIs
  <2> QED
    <3> SUFFICES ASSUME up', astray' = {} PROVE FleetInv'
      BY DEF FleetInv
    <3>1. up /\ astray = {}
      BY <2>2
    <3>2. \A q \in Requests : q # r => ~ Writing(q)
      BY <2>2, <2>3, OneWrites
    <3>3. req[Main].at # "write"
      BY <2>2, <2>3, <3>1 DEF FleetInv
    <3>4. file = req[r].text /\ fleet = {}
      BY <2>2, <2>3, <3>1 DEF FleetInv
    <3>5. fleet = file.cams
      BY <2>2, <2>3, <3>4 DEF Claims
    <3> QED BY <2>1, <2>2, <2>3, <3>1, <3>2, <3>3, <3>5, IdleIs, ConfigFileAssumption
               DEF Others, FleetInv, HasText, Writing, Everyone
<1>14. ASSUME NEW r \in Everyone, AdoptTyped(r)
      PROVE  FleetInv'
  <2>1. Others(r) /\ req'[r] = Idle
    BY <1>14, Served
  <2>2. UNCHANGED <<file, fleet, up, astray>>
    BY <1>14 DEF AdoptTyped, disk
  <2>3. req[r].at = "adopt"
    BY <1>14 DEF AdoptTyped, At
  <2> QED BY <1>14, <2>1, <2>2, <2>3, IdleIs, ConfigFileAssumption
             DEF Others, FleetInv, HasText, Writing, Everyone
<1>15. ASSUME ListenSaved
      PROVE  FleetInv'
  <2>1. Main \in Everyone /\ Others(Main) /\ req'[Main] = Idle
    BY <1>15, ListenSavedIs
  <2>2. UNCHANGED <<file, fleet, up, astray>>
    BY <1>15 DEF ListenSaved, disk
  <2>3. req[Main].at = "written"
    BY <1>15 DEF ListenSaved, At
  <2> QED BY <1>15, <2>1, <2>2, <2>3, IdleIs, ConfigFileAssumption
             DEF Others, FleetInv, HasText, Writing, Everyone
<1>16. ASSUME NEW p \in {"unset", "old", "open"}, HandWrite(Text("whole", p, {}, 0))
      PROVE  FleetInv'
  <2>1. astray' # {}
    BY <1>16 DEF HandWrite
  <2> QED BY <1>16, <2>1, ConfigFileAssumption DEF FleetInv, HasText, Writing, Everyone
<1>17. ASSUME Crash
      PROVE  FleetInv'
  <2>1. ~ up'
    BY <1>17 DEF Crash
  <2> QED BY <1>17, <2>1, ConfigFileAssumption DEF FleetInv, HasText, Writing, Everyone
<1>18. ASSUME Restore
      PROVE  FleetInv'
  <2>1. ~ up'
    BY <1>18 DEF Restore
  <2> QED BY <1>18, <2>1, ConfigFileAssumption DEF FleetInv, HasText, Writing, Everyone
<1>19. CASE UNCHANGED vars
  BY <1>19 DEF vars, disk, page, count, FleetInv, HasText, Writing
<1> QED BY <1>1, <1>2, <1>3, <1>4, <1>5, <1>6, <1>7, <1>8, <1>9, <1>10, <1>11,
          <1>12, <1>13, <1>14, <1>15, <1>16, <1>17, <1>18, <1>19 DEF Next, Serve, Everyone

-----------------------------------------------------------------------------
(* The theorems *)

\* Every step keeps the invariant.
LEMMA IInvStep ==
  ASSUME IInv, [Next]_vars
  PROVE  IInv'
<1>1. /\ Types /\ Roles /\ Sound /\ Locked /\ Copies /\ Claims
      /\ Vacant /\ Claiming /\ Secrets /\ FleetInv
  BY DEF IInv
<1>2. Types' /\ Roles'
  BY <1>1, TypesStep, RolesStep
<1>3. Sound' /\ Locked' /\ Copies'
  BY <1>1, SoundStep, LockedStep, CopiesStep
<1>4. Claims' /\ Secrets' /\ FleetInv'
  BY <1>1, ClaimsStep, SecretsStep, FleetStep
<1>5. Vacant' /\ Claiming'
  BY <1>1, VacantStep, ClaimingStep
<1> QED BY <1>2, <1>3, <1>4, <1>5 DEF IInv

\* It holds at every step.
LEMMA Invariant == Spec => []IInv
<1>1. Init => IInv
  BY InitInv
<1>2. IInv /\ [Next]_vars => IInv'
  BY IInvStep
<1> QED BY <1>1, <1>2, PTL DEF Spec

\* At every step at which the process can die, a half-written file has a whole
\* copy beside it (configfile.go: "the backup is what makes that recoverable"),
\* but where the save had found the file torn or truncated already.
THEOREM RecoverableCorrect == Spec => []Recoverable
<1>1. IInv => Recoverable
  <2> SUFFICES ASSUME IInv PROVE Recoverable
    OBVIOUS
  <2>1. Types /\ Copies
    BY DEF IInv
  <2>2. file.is \in {"absent", "whole", "empty", "torn"} /\ bak.is \in {"absent", "whole", "empty", "torn"}
    BY <2>1, TextIs DEF Types, Shaped
  <2>3. \A r \in DOMAIN req : req[r].at \in Stages
    <3>1. req \in [Everyone -> ReqType]
      BY <2>1 DEF Types
    <3> QED BY <3>1, ReqIs
  <2>4. fleet \subseteq Cams /\ lock \in Requests \union {Free}
    BY <2>1 DEF Types
  <2>5. TypeOK
    BY <2>2, <2>3, <2>4 DEF TypeOK, Stages
  <2> QED BY <2>1, <2>5 DEF Recoverable, SomeCopyWhole, Copies
<1> QED BY <1>1, Invariant, PTL

\* With no save under way the fleet that runs is the fleet of the file, however
\* saves, scans, claims and the save of the listen flags overlap (writeAndApply
\* holds configMu from the write to the reload).
THEOREM FleetFollowsFileCorrect == Spec => []FleetFollowsFile
<1>1. IInv => FleetFollowsFile
  <2> SUFFICES ASSUME IInv, up, astray = {}, file.is \in {"absent", "whole"},
                      \A r \in DOMAIN req : req[r].at \notin {"rename", "truncate", "write", "written"}
               PROVE  fleet = file.cams
    BY DEF FleetFollowsFile
  <2>1. DOMAIN req = Everyone
    BY DEF IInv, Types
  <2>2. (\A r \in Requests : ~ Writing(r)) /\ req[Main].at # "write"
    BY <2>1 DEF Writing, Everyone
  <2> QED BY <2>2 DEF IInv, FleetInv
<1> QED BY <1>1, Invariant, PTL

\* The file is sound: recoverable whenever the process dies, and followed by the
\* fleet however saves overlap.
THEOREM FileSoundCorrect == Spec => []FileSound
<1>1. Recoverable /\ FleetFollowsFile => FileSound
  BY DEF FileSound
<1> QED BY <1>1, RecoverableCorrect, FleetFollowsFileCorrect, PTL

\* An install the page knows to be claimed stays so; one that only its file
\* claims is a file in a folder, which a save replaces by one that claims it too.
LEMMA StaysClaimedStep ==
  ASSUME IInv, [Next]_vars
  PROVE  up /\ up' /\ Claimed /\ file.is = "whole" => Claimed'
<1> SUFFICES ASSUME up, up', Claimed, file.is = "whole" PROVE Claimed'
  OBVIOUS
<1>1. Types /\ Roles /\ Sound /\ Secrets
  BY DEF IInv
<1>2. CASE Settles
  <2>1. Settles'
    BY <1>1, <1>2, PageStays
  <2> QED BY <2>1 DEF Settles, Claimed
<1>3. CASE ~ Settles
  <2>1. ClaimedBy(file)
    BY <1>3 DEF Claimed, Settles
  <2>2. mount = "folder"
    <3>1. mount = "file" => Asks
      BY <1>1, <2>1 DEF Secrets, ClaimedBy
    <3> QED BY <1>1, <1>3, <3>1 DEF Asks, Settles, Types
  <2>3. \A r \in Everyone : HasText(r) => ClaimedBy(req[r].text)
    BY <1>1, <2>2 DEF Sound, Secrets, ClaimedBy, Loads
  <2>4. file' = file \/ \E r \in Everyone : HasText(r) /\ file' = req[r].text
    <3>1. CASE UNCHANGED vars
      BY <3>1 DEF vars, disk
    <3>2. ASSUME NEW flags \in BOOLEAN, Boot(flags) PROVE file' = file
      BY <3>2 DEF Boot, disk
    <3>3. ASSUME NEW r \in Requests, NEW o \in Ops, Arrive(r, o) PROVE file' = file
      BY <3>3 DEF Arrive, disk
    <3>4. ASSUME NEW r \in Everyone,
                 \/ Read(r) \/ Lock(r) \/ ClaimLate(r) \/ Backup(r) \/ Apply(r) \/ ApplyRefused(r)
                 \/ ClaimTaken(r) \/ AdoptTyped(r)
          PROVE  file' = file
      BY <3>4 DEF Read, Lock, ClaimLate, Backup, Apply, ApplyRefused, ClaimTaken, AdoptTyped, disk
    <3>5. ASSUME NEW r \in Everyone, Rename(r) PROVE HasText(r) /\ file' = req[r].text
      BY <3>5 DEF Rename, At, HasText
    <3>6. ASSUME NEW r \in Everyone PROVE ~ Truncate(r) /\ ~ Write(r) /\ ~ WriteFails(r)
      BY <1>1, <2>2 DEF Truncate, Write, WriteFails, Sound, At
    <3>7. CASE ListenSaved
      BY <3>7 DEF ListenSaved, disk
    <3>8. ASSUME NEW t PROVE ~ HandWrite(t)
      BY Blanks DEF HandWrite
    <3>9. ~ Crash /\ ~ Restore
      BY DEF Crash, Restore
    <3> QED BY <3>1, <3>2, <3>3, <3>4, <3>5, <3>6, <3>7, <3>8, <3>9 DEF Next, Serve, Everyone
  <2>5. ClaimedBy(file')
    BY <2>1, <2>3, <2>4
  <2> QED BY <2>5 DEF Claimed
<1> QED BY <1>2, <1>3

\* A claim writes a file where there was none, and is granted where nobody had
\* answered for the page.
LEMMA ClaimsOverStep ==
  ASSUME IInv, [Next]_vars, "late" \notin astray
  PROVE  ClaimsOver
<1> SUFFICES ASSUME NEW r \in Requests, req[r].op.op = "claim" PROVE WritesNew(r) /\ Answers(r)
  BY DEF ClaimsOver
<1>1. WritesNew(r)
  BY DEF WritesNew, At, IInv, Claiming
<1>2. ASSUME r \in claims' \ claims PROVE (pw = "" /\ ~ settled) \/ pw = req[r].op.arg
  <2>1. \E q \in Everyone : ClaimTaken(q)
    BY <1>2 DEF Next, Serve, vars, page, Boot, Arrive, Read, Lock, ClaimLate, Backup, Rename, Truncate,
                Write, WriteFails, Apply, ApplyRefused, AdoptTyped, ListenSaved, HandWrite, Crash, Restore,
                Everyone
  <2>2. PICK q \in Everyone : ClaimTaken(q)
    BY <2>1
  <2>3. q = r /\ req[r].at = "written"
    BY <1>2, <2>2 DEF ClaimTaken, At
  <2> QED BY <2>3 DEF IInv, Claiming
<1> QED BY <1>1, <1>2 DEF Answers

\* However claims race each other, other saves and a file put there by hand: at
\* most one is granted, and what is claimed stays claimed until the process ends
\* (claim.go writeClaim looks again under configMu); and a claim overwrites no
\* file and displaces nobody's password, unless a person's file came between
\* that look and the rename.
THEOREM ClaimedOnceCorrect == Spec => ClaimedOnce
<1>1. IInv /\ IInv' /\ [Next]_vars => [StaysClaimed /\ ("late" \notin astray => ClaimsOver)]_vars
  <2> SUFFICES ASSUME IInv, IInv', [Next]_vars
               PROVE  StaysClaimed /\ ("late" \notin astray => ClaimsOver)
    OBVIOUS
  <2>1. claims' = {} \/ \E r \in Requests : claims' = {r}
    BY DEF IInv, Claims
  <2>2. Cardinality(claims') <= 1
    <3>1. Cardinality({}) = 0
      BY FS_EmptySet
    <3>2. \A r : Cardinality({r}) = 1
      BY FS_Singleton
    <3>3. Cardinality(claims') = 0 \/ Cardinality(claims') = 1
      BY <2>1, <3>1, <3>2, Zenon
    <3> QED BY <3>3
  <2> QED BY <2>2, StaysClaimedStep, ClaimsOverStep DEF StaysClaimed
<1>2. Spec => [][Next]_vars
  BY DEF Spec
<1> QED BY <1>1, <1>2, Invariant, PTL DEF ClaimedOnce

-----------------------------------------------------------------------------
(* The forms of a camera *)

\* What is in the record of a request.
Framed(p) == /\ DOMAIN p = {"form", "todo", "seen", "before", "out", "ans", "late"}
             /\ DOMAIN p.form = {"kind", "doc", "leaves"}

\* A form that is being served; one whose "confirmed" counts; an answer that goes
\* on with the next document, and one that is an answer.
BeingServed(p) == p.form.kind # "none" /\ p.ans = ""
Compares(p) == p.form.kind \notin TheForms!Believers
GoesOn(how) == how \in {"skip", "noted"}
Says(how) == how # ""
Confirms(how) == how = "confirmed"
MayGoOn(s) == GoesOn(s.fails) \/ GoesOn(s.refuses)

\* What every step of a list is like.
FitStep(f, s) ==
  /\ Says(s.fails) /\ Says(s.refuses)
  /\ f.kind \notin TheForms!Believers => ~Confirms(s.fails) /\ ~Confirms(s.refuses)
  /\ s.compare \in {"never", "clock", "leaf", "whole"}
  /\ s.do = "write" => \E d \in TheForms!Docs : s.on = {d}

\* The step that decides whether a form may say "confirmed": what it wrote is read
\* back and compared, and if it cannot be the form does not go on.
Decides(f, s) ==
  /\ s.do = "after" /\ ~MayGoOn(s)
  /\ IF f.kind = "netport" THEN f.doc \in s.on ELSE s.on = {f.doc}
  /\ f.kind = "undo" => s.compare = "whole"
  /\ f.kind = "sync" <=> s.compare = "clock"

\* Of the steps in D one decides, and none that a form may go on after takes it away.
Deciding(f, todo, D) ==
  \E i \in D : /\ Decides(f, todo[i])
               /\ \A j \in D : MayGoOn(todo[j]) => todo[j].on \cap todo[i].on = {}

\* Where a form has the clock from that it sends with a document, and the step that
\* reads it: for the first write of the document it is there or will be.
CopyOf(p, d) == IF d = "general" THEN p.before ELSE p.seen
Reader(d) == IF d = "general" THEN "before" ELSE "read"
Fresh(p, d, n, N) == d \in DOMAIN CopyOf(p, d) /\ CopyOf(p, d)[d].clock \in Int /\ n - CopyOf(p, d)[d].clock <= N
Writes(s, d) == s.do = "write" /\ s.on = {d}
Reads(s, d) == s.do = Reader(d) /\ s.on = {d}
Clocked(p, d, D, n, N) ==
  \/ Fresh(p, d, n, N)
  \/ \A i \in D : Writes(p.todo[i], d) => \E j \in D : j < i /\ Reads(p.todo[j], d)

\* A form on its way: h says the camera has held its values, n is the time and N the
\* most that the camera's clock can be behind it.
OnItsWay(p, D, out, h, n, N) ==
  /\ \A i \in D : FitStep(p.form, p.todo[i])
  /\ Compares(p) => p.form.leaves \subseteq Leaves /\ (p.form.kind = "undo" => p.form.doc \in {"general", "osd"})
  /\ Compares(p) /\ out = "confirmed" /\ ~h => Deciding(p.form, p.todo, D)
  /\ Clocked(p, "general", D, n, N)
  /\ p.form.kind # "sync" => Clocked(p, "time", D, n, N)

\* A form that has read or copied something more.
Carries(p, q, n, N) ==
  /\ Framed(q) /\ q.todo = p.todo /\ q.out = p.out /\ q.late = p.late
  /\ q.form.kind = p.form.kind /\ q.form.doc = p.form.doc
  /\ Compares(p) => q.form.leaves \subseteq p.form.leaves
  /\ \A d \in {"general", "time"} : Fresh(p, d, n, N) => Fresh(q, d, n, N)

FairForm(p, h, n, N) ==
  /\ Framed(p)
  /\ BeingServed(p) => /\ DOMAIN p.todo \subseteq Nat /\ DOMAIN p.todo # {} /\ Says(p.out)
                  /\ OnItsWay(p, DOMAIN p.todo, p.out, h, n, N)
  /\ p.ans = "confirmed" /\ Compares(p) => h

\* Forms that have been answered, or been served for longer than a tick.
Aged == {r \in Sends : form[r].ans # "" \/ form[r].late}
Behind == Cardinality(Aged)
FormsInv ==
  /\ now \in Int /\ clock \in Int /\ now - clock <= Behind
  /\ DOMAIN form = Sends
  /\ \A r \in Sends : \E h \in BOOLEAN : (h => r \in held) /\ FairForm(form[r], h, now, Behind)

-----------------------------------------------------------------------------
(* Lists *)

\* Of a set of numbers, the first is one.
LEMMA FirstOf ==
  ASSUME NEW T, T \subseteq Nat, T # {}
  PROVE  \E n \in T : \A m \in T : n <= m
<1> DEFINE less == OpToRel(<, Nat)
<1>1. IsWellFoundedOn(less, Nat)
  BY NatLessThanWellFounded
<1>2. \A n, m \in Nat : n < m => <<n, m>> \in less
  BY DEF OpToRel
<1> HIDE DEF less
<1>3. PICK n \in T : \A m \in T : ~(<<m, n>> \in less)
  BY <1>1, WFMin
<1>4. ASSUME NEW m \in T PROVE n <= m
  <2>1. n \in Nat /\ m \in Nat /\ ~(m < n)
    BY <1>2, <1>3
  <2> QED BY <2>1
<1> QED BY <1>4

\* The step that is due is the first of what is left.
LEMMA EarliestIs ==
  ASSUME NEW q, DOMAIN q.todo \subseteq Nat, DOMAIN q.todo # {}
  PROVE  /\ TheForms!Earliest(q) \in DOMAIN q.todo
         /\ \A j \in DOMAIN q.todo : TheForms!Earliest(q) <= j
         /\ TheForms!Due(q) = q.todo[TheForms!Earliest(q)]
         /\ TheForms!Rest(q) \subseteq DOMAIN q.todo
         /\ \A j \in DOMAIN q.todo : j # TheForms!Earliest(q) => j \in TheForms!Rest(q)
<1>1. \E n \in DOMAIN q.todo : \A m \in DOMAIN q.todo : n <= m
  BY FirstOf
<1>2. TheForms!Earliest(q) \in DOMAIN q.todo /\ \A j \in DOMAIN q.todo : TheForms!Earliest(q) <= j
  BY <1>1 DEF TheForms!Earliest
<1>3. TheForms!Due(q) = q.todo[TheForms!Earliest(q)]
  BY DEF TheForms!Due
<1>4. TheForms!Rest(q) = DOMAIN q.todo \ {TheForms!Earliest(q)}
  BY DEF TheForms!Rest
<1> QED BY <1>2, <1>3, <1>4

\* What becomes of a record when the rest of its list is left.
LEMMA FurtherIs ==
  ASSUME NEW q, Framed(q), NEW D, D \subseteq DOMAIN q.todo, NEW out, NEW p, p = TheForms!Further(q, D, out)
  PROVE  /\ Framed(p) /\ p.form = q.form /\ p.seen = q.seen /\ p.before = q.before /\ p.late = q.late
         /\ p.out = out /\ DOMAIN p.todo = D /\ \A i \in D : p.todo[i] = q.todo[i]
<1> DEFINE left == [i \in D |-> q.todo[i]]
           ans == IF D = {} THEN out ELSE ""
<1>1. p = [q EXCEPT !.todo = left, !.out = out, !.ans = ans]
  BY DEF TheForms!Further
<1>2. DOMAIN left = D /\ \A i \in D : left[i] = q.todo[i]
  OBVIOUS
<1> HIDE DEF left, ans
<1>3. /\ DOMAIN p = DOMAIN q /\ p.form = q.form /\ p.seen = q.seen /\ p.before = q.before /\ p.late = q.late
      /\ p.out = out /\ p.todo = left
  BY <1>1 DEF Framed
<1> QED BY <1>2, <1>3 DEF Framed

\* It is answered if nothing is left.
LEMMA FurtherAns ==
  ASSUME NEW q, Framed(q), NEW D, NEW out, NEW p, p = TheForms!Further(q, D, out)
  PROVE  (D = {} => p.ans = out) /\ (D # {} => p.ans = "")
<1> DEFINE left == [i \in D |-> q.todo[i]]
           ans == IF D = {} THEN out ELSE ""
<1>1. p = [q EXCEPT !.todo = left, !.out = out, !.ans = ans]
  BY DEF TheForms!Further
<1> HIDE DEF left, ans
<1>2. p.ans = ans
  BY <1>1 DEF Framed
<1> QED BY <1>2 DEF ans

\* A form is as it should be with a part of its list left if it is on its way.
LEMMA FurtherFair ==
  ASSUME NEW q, Framed(q), q.form.kind # "none", DOMAIN q.todo \subseteq Nat, NEW D, D \subseteq DOMAIN q.todo,
         NEW out, Says(out), NEW h \in BOOLEAN, NEW n, NEW N, OnItsWay(q, D, out, h, n, N),
         NEW p, p = TheForms!Further(q, D, out)
  PROVE  FairForm(p, h, n, N) /\ p.late = q.late /\ p.form = q.form
<1>1. /\ Framed(p) /\ p.form = q.form /\ p.seen = q.seen /\ p.before = q.before /\ p.late = q.late
      /\ p.out = out /\ DOMAIN p.todo = D /\ \A i \in D : p.todo[i] = q.todo[i]
      /\ (D = {} => p.ans = out) /\ (D # {} => p.ans = "")
  <2>1. /\ Framed(p) /\ p.form = q.form /\ p.seen = q.seen /\ p.before = q.before /\ p.late = q.late
        /\ p.out = out /\ DOMAIN p.todo = D /\ \A i \in D : p.todo[i] = q.todo[i]
    BY FurtherIs
  <2>2. (D = {} => p.ans = out) /\ (D # {} => p.ans = "")
    BY FurtherAns, ZenonT(40)
  <2> QED BY <2>1, <2>2
<1>2. CASE D = {}
  <2>1. ~ Deciding(q.form, q.todo, D)
    BY <1>2 DEF Deciding
  <2>2. p.ans = out
    BY <1>1, <1>2
  <2> QED BY <1>1, <2>1, <2>2 DEF FairForm, BeingServed, OnItsWay, Compares, Says
<1>3. CASE D # {}
  <2>1. p.ans = ""
    BY <1>1, <1>3
  <2>2. \A i \in D : FitStep(p.form, p.todo[i])
    BY <1>1 DEF OnItsWay
  <2>3. Deciding(q.form, q.todo, D) => Deciding(p.form, p.todo, D)
    BY <1>1 DEF Deciding
  <2>4. \A d : Clocked(q, d, D, n, N) => Clocked(p, d, D, n, N)
    BY <1>1 DEF Clocked, Fresh, CopyOf
  <2>5. OnItsWay(p, D, out, h, n, N)
    BY <1>1, <2>2, <2>3, <2>4 DEF OnItsWay, Compares
  <2> QED BY <1>1, <1>3, <2>1, <2>5 DEF FairForm
<1> QED BY <1>1, <1>2, <1>3

\* What a form is on its way to does not change by what else it reads.
LEMMA CarriedOn ==
  ASSUME NEW p, NEW q, NEW n, NEW N, Carries(p, q, n, N), NEW D, NEW out, NEW h \in BOOLEAN, OnItsWay(p, D, out, h, n, N)
  PROVE  OnItsWay(q, D, out, h, n, N)
<1>1. \A i \in D : FitStep(q.form, q.todo[i])
  BY DEF OnItsWay, FitStep, Carries
<1>2. Compares(q) => q.form.leaves \subseteq Leaves /\ (q.form.kind = "undo" => q.form.doc \in {"general", "osd"})
  BY DEF OnItsWay, Carries, Compares
<1>3. Compares(q) <=> Compares(p)
  BY DEF Carries, Compares
<1>4. Deciding(p.form, p.todo, D) => Deciding(q.form, q.todo, D)
  <2>1. \A s : Decides(p.form, s) => Decides(q.form, s)
    BY DEF Decides, Carries
  <2> QED BY <2>1 DEF Deciding, Carries
<1>5. \A d \in {"general", "time"} : Clocked(p, d, D, n, N) => Clocked(q, d, D, n, N)
  BY DEF Clocked, Carries
<1>6. q.form.kind = p.form.kind
  BY DEF Carries
<1> QED BY <1>1, <1>2, <1>3, <1>4, <1>5, <1>6 DEF OnItsWay

\* With the step that is due done, the rest of the list is left.
LEMMA WithoutDue ==
  ASSUME NEW q, DOMAIN q.todo \subseteq Nat, DOMAIN q.todo # {}, NEW n, NEW N, NEW h \in BOOLEAN, NEW h2 \in BOOLEAN, h => h2,
         NEW out, OnItsWay(q, DOMAIN q.todo, out, h, n, N),
         Compares(q) /\ out = "confirmed" /\ Decides(q.form, TheForms!Due(q)) => h2,
         \A d \in {"general", "time"} : Reads(TheForms!Due(q), d) => Fresh(q, d, n, N)
  PROVE  OnItsWay(q, TheForms!Rest(q), out, h2, n, N)
<1> DEFINE e == TheForms!Earliest(q)
           R == TheForms!Rest(q)
           s == TheForms!Due(q)
<1>1. /\ e \in DOMAIN q.todo /\ (\A j \in DOMAIN q.todo : e <= j) /\ s = q.todo[e]
      /\ R \subseteq DOMAIN q.todo /\ \A j \in DOMAIN q.todo : j # e => j \in R
  BY EarliestIs
<1> HIDE DEF e, R, s
<1>2. \A i \in R : FitStep(q.form, q.todo[i])
  BY <1>1 DEF OnItsWay
<1>3. ASSUME Compares(q), out = "confirmed", ~h2 PROVE Deciding(q.form, q.todo, R)
  <2>1. Deciding(q.form, q.todo, DOMAIN q.todo)
    BY <1>3 DEF OnItsWay
  <2>2. PICK i \in DOMAIN q.todo : /\ Decides(q.form, q.todo[i])
                                   /\ \A j \in DOMAIN q.todo : MayGoOn(q.todo[j]) => q.todo[j].on \cap q.todo[i].on = {}
    BY <2>1 DEF Deciding
  <2>3. ~ Decides(q.form, s)
    BY <1>3 DEF s
  <2>4. i \in R
    BY <1>1, <2>2, <2>3
  <2> QED BY <1>1, <2>2, <2>4 DEF Deciding
<1>4. ASSUME NEW d \in {"general", "time"}, Clocked(q, d, DOMAIN q.todo, n, N) PROVE Clocked(q, d, R, n, N)
  <2>1. CASE Fresh(q, d, n, N)
    BY <2>1 DEF Clocked
  <2>2. CASE ~ Fresh(q, d, n, N)
    <3>1. ~ Reads(s, d)
      BY <2>2 DEF s
    <3>2. ASSUME NEW i \in R, Writes(q.todo[i], d) PROVE \E j \in R : j < i /\ Reads(q.todo[j], d)
      <4>1. PICK j \in DOMAIN q.todo : j < i /\ Reads(q.todo[j], d)
        BY <1>1, <1>4, <2>2, <3>2 DEF Clocked
      <4>2. j \in R
        BY <1>1, <3>1, <4>1
      <4> QED BY <4>1, <4>2
    <3> QED BY <3>2 DEF Clocked
  <2> QED BY <2>1, <2>2
<1>5. OnItsWay(q, R, out, h2, n, N)
  <2>1. Clocked(q, "general", R, n, N) /\ (q.form.kind # "sync" => Clocked(q, "time", R, n, N))
    BY <1>4 DEF OnItsWay
  <2>2. Compares(q) => q.form.leaves \subseteq Leaves /\ (q.form.kind = "undo" => q.form.doc \in {"general", "osd"})
    BY DEF OnItsWay
  <2> QED BY <1>2, <1>3, <2>1, <2>2 DEF OnItsWay
<1> QED BY <1>5 DEF R

\* Where a form may go on, what is left is about other documents.
LEMMA WithoutSame ==
  ASSUME NEW q, DOMAIN q.todo \subseteq Nat, DOMAIN q.todo # {}, NEW n, NEW N, NEW h \in BOOLEAN, NEW h2 \in BOOLEAN, h => h2,
         NEW out, OnItsWay(q, DOMAIN q.todo, out, h, n, N), MayGoOn(TheForms!Due(q)),
         NEW O, O = {i \in TheForms!Rest(q) : q.todo[i].on \cap TheForms!Due(q).on = {}}
  PROVE  OnItsWay(q, O, out, h2, n, N)
<1> DEFINE e == TheForms!Earliest(q)
           R == TheForms!Rest(q)
           s == TheForms!Due(q)
<1>1. /\ e \in DOMAIN q.todo /\ (\A j \in DOMAIN q.todo : e <= j) /\ s = q.todo[e]
      /\ R \subseteq DOMAIN q.todo /\ \A j \in DOMAIN q.todo : j # e => j \in R
  BY EarliestIs
<1>a. MayGoOn(s) /\ O = {i \in R : q.todo[i].on \cap s.on = {}}
  OBVIOUS
<1> HIDE DEF e, R, s
<1>b. O \subseteq DOMAIN q.todo /\ \A j \in DOMAIN q.todo : j # e /\ q.todo[j].on \cap s.on = {} => j \in O
  BY <1>1, <1>a
<1>c. \A j \in O : q.todo[j].on \cap s.on = {}
  BY <1>a
<1>2. \A i \in O : FitStep(q.form, q.todo[i])
  BY <1>b DEF OnItsWay
<1>3. ASSUME Compares(q), out = "confirmed", ~h2 PROVE Deciding(q.form, q.todo, O)
  <2>1. Deciding(q.form, q.todo, DOMAIN q.todo)
    BY <1>3 DEF OnItsWay
  <2>2. PICK i \in DOMAIN q.todo : /\ Decides(q.form, q.todo[i])
                                   /\ \A j \in DOMAIN q.todo : MayGoOn(q.todo[j]) => q.todo[j].on \cap q.todo[i].on = {}
    BY <2>1 DEF Deciding
  <2>3. i # e
    BY <1>1, <1>a, <2>2 DEF Decides
  <2>4. q.todo[i].on \cap s.on = {}
    BY <1>1, <1>a, <2>2
  <2>5. i \in O
    BY <1>b, <2>3, <2>4
  <2> QED BY <1>b, <2>2, <2>5 DEF Deciding
<1>4. ASSUME NEW d \in {"general", "time"}, Clocked(q, d, DOMAIN q.todo, n, N) PROVE Clocked(q, d, O, n, N)
  <2>1. CASE Fresh(q, d, n, N)
    BY <2>1 DEF Clocked
  <2>2. CASE ~ Fresh(q, d, n, N)
    <3>2. ASSUME NEW i \in O, Writes(q.todo[i], d) PROVE \E j \in O : j < i /\ Reads(q.todo[j], d)
      <4>1. PICK j \in DOMAIN q.todo : j < i /\ Reads(q.todo[j], d)
        BY <1>b, <1>4, <2>2, <3>2 DEF Clocked
      <4>2. q.todo[j].on = q.todo[i].on /\ q.todo[i].on = {d}
        BY <3>2, <4>1 DEF Reads, Writes
      <4>3. q.todo[j].on \cap s.on = {}
        BY <1>c, <4>2
      <4>4. j # e
        BY <1>1, <4>2, <4>3
      <4> QED BY <1>b, <4>1, <4>3, <4>4
    <3> QED BY <3>2 DEF Clocked
  <2> QED BY <2>1, <2>2
<1>5. Clocked(q, "general", O, n, N) /\ (q.form.kind # "sync" => Clocked(q, "time", O, n, N))
  BY <1>4 DEF OnItsWay
<1>6. Compares(q) => q.form.leaves \subseteq Leaves /\ (q.form.kind = "undo" => q.form.doc \in {"general", "osd"})
  BY DEF OnItsWay
<1> QED BY <1>2, <1>3, <1>5, <1>6 DEF OnItsWay

\* An answer that is not "confirmed" owes nothing.
LEMMA OtherwiseOnItsWay ==
  ASSUME NEW q, NEW D, NEW out, NEW h \in BOOLEAN, NEW n, NEW N, OnItsWay(q, D, out, h, n, N),
         NEW other, other # "confirmed" \/ ~Compares(q), NEW h2 \in BOOLEAN
  PROVE  OnItsWay(q, D, other, h2, n, N)
  BY DEF OnItsWay

-----------------------------------------------------------------------------
(* What becomes of a form *)

\* It goes on to the next step if the one that is due is done.
LEMMA OnwardFair ==
  ASSUME NEW p, NEW q, NEW n, NEW N, Carries(p, q, n, N), NEW h \in BOOLEAN, FairForm(p, h, n, N), BeingServed(p),
         NEW h2 \in BOOLEAN, h => h2, Compares(p) /\ p.out = "confirmed" /\ Decides(p.form, TheForms!Due(p)) => h2,
         \A d \in {"general", "time"} : Reads(TheForms!Due(p), d) => Fresh(q, d, n, N),
         NEW z, z = TheForms!Onward(q)
  PROVE  FairForm(z, h2, n, N) /\ z.late = p.late /\ z.form = q.form
<1>1. /\ DOMAIN p.todo \subseteq Nat /\ DOMAIN p.todo # {} /\ Says(p.out)
      /\ OnItsWay(p, DOMAIN p.todo, p.out, h, n, N)
  BY DEF FairForm
<1>2. q.todo = p.todo /\ q.out = p.out /\ q.late = p.late /\ Framed(q) /\ q.form.kind # "none"
  BY DEF Carries, BeingServed
<1>3. OnItsWay(q, DOMAIN q.todo, q.out, h, n, N)
  BY <1>1, <1>2, CarriedOn
<1>4. TheForms!Due(q) = TheForms!Due(p) /\ TheForms!Rest(q) = TheForms!Rest(p)
  BY <1>2 DEF TheForms!Due, TheForms!Rest, TheForms!Earliest
<1>5. Compares(q) /\ q.out = "confirmed" /\ Decides(q.form, TheForms!Due(q)) => h2
  BY <1>2, <1>4 DEF Carries, Compares, Decides
<1>6. OnItsWay(q, TheForms!Rest(q), q.out, h2, n, N)
  BY <1>1, <1>2, <1>3, <1>4, <1>5, WithoutDue
<1>7. TheForms!Rest(q) \subseteq DOMAIN q.todo
  BY <1>1, <1>2, EarliestIs
<1>8. z = TheForms!Further(q, TheForms!Rest(q), q.out)
  BY DEF TheForms!Onward
<1> QED BY <1>1, <1>2, <1>6, <1>7, <1>8, FurtherFair

\* It fails: it ends, or goes on with what is about other documents.
LEMMA FailFair ==
  ASSUME NEW p, NEW q, NEW n, NEW N, Carries(p, q, n, N), NEW h \in BOOLEAN, FairForm(p, h, n, N), BeingServed(p),
         NEW h2 \in BOOLEAN, h => h2, NEW how, Says(how), Compares(p) => ~Confirms(how),
         GoesOn(how) => MayGoOn(TheForms!Due(p)), NEW z, z = TheForms!Fail(q, how)
  PROVE  FairForm(z, h2, n, N) /\ z.late = p.late /\ z.form = q.form
<1>1. /\ DOMAIN p.todo \subseteq Nat /\ DOMAIN p.todo # {} /\ Says(p.out)
      /\ OnItsWay(p, DOMAIN p.todo, p.out, h, n, N)
  BY DEF FairForm
<1>2. q.todo = p.todo /\ q.out = p.out /\ q.late = p.late /\ Framed(q) /\ q.form.kind # "none"
  BY DEF Carries, BeingServed
<1>3. OnItsWay(q, DOMAIN q.todo, q.out, h, n, N)
  BY <1>1, <1>2, CarriedOn
<1>4. TheForms!Due(q) = TheForms!Due(p) /\ TheForms!Rest(q) = TheForms!Rest(p)
  BY <1>2 DEF TheForms!Due, TheForms!Rest, TheForms!Earliest
<1>5. CASE GoesOn(how)
  <2> DEFINE O == {i \in TheForms!Rest(q) : q.todo[i].on \cap TheForms!Due(q).on = {}}
             out == IF how = "noted" THEN "refused" ELSE q.out
  <2>1. z = TheForms!Further(q, O, out)
    BY <1>5 DEF TheForms!Fail, GoesOn
  <2>2. OnItsWay(q, O, q.out, h2, n, N)
    BY <1>1, <1>2, <1>3, <1>4, <1>5, WithoutSame
  <2>3. OnItsWay(q, O, "refused", h2, n, N)
    BY <2>2, OtherwiseOnItsWay
  <2>4. OnItsWay(q, O, out, h2, n, N)
    BY <2>2, <2>3
  <2>5. Says(out)
    BY <1>1, <1>2 DEF Says
  <2>6. O \subseteq DOMAIN q.todo
    BY <1>1, <1>2, EarliestIs
  <2> HIDE DEF O, out
  <2> QED BY <1>1, <1>2, <2>1, <2>4, <2>5, <2>6, FurtherFair
<1>6. CASE ~ GoesOn(how)
  <2>1. z = [q EXCEPT !.todo = TheForms!Nothing, !.ans = how]
    BY <1>6 DEF TheForms!Fail, GoesOn
  <2> DEFINE nothing == TheForms!Nothing
  <2> HIDE DEF nothing
  <2>2. z = [q EXCEPT !.todo = nothing, !.ans = how]
    BY <2>1 DEF nothing
  <2>3. DOMAIN z = DOMAIN q /\ z.form = q.form /\ z.late = q.late /\ z.ans = how
    BY <1>2, <2>2 DEF Framed
  <2>4. ~ BeingServed(z) /\ (z.ans = "confirmed" => ~Compares(z))
    BY <2>3 DEF BeingServed, Says, Confirms, Compares, Carries
  <2>5. Framed(z)
    BY <1>2, <2>3 DEF Framed
  <2> QED BY <1>2, <2>3, <2>4, <2>5 DEF FairForm
<1> QED BY <1>5, <1>6

\* What is said when it cannot be read back, or reads otherwise.
LEMMA BackFair ==
  ASSUME NEW r \in Sends, NEW n, NEW N, NEW h \in BOOLEAN, FairForm(form[r], h, n, N), BeingServed(form[r]),
         NEW h2 \in BOOLEAN, h => h2, NEW how, Says(how), Compares(form[r]) => ~Confirms(how),
         GoesOn(how) => MayGoOn(TheForms!Due(form[r])), NEW z, z = TheForms!Back(r, how),
         TheForms!Due(form[r]).do = "after"
  PROVE  FairForm(z, h2, n, N) /\ z.late = form[r].late /\ z.form = form[r].form
<1> DEFINE p == form[r]
<1>0. Carries(p, p, n, N)
  BY DEF Carries, FairForm
<1>1. CASE how \in {"accepted", "confirmed"}
  <2>1. z = TheForms!Further(p, TheForms!Rest(p), how)
    BY <1>1 DEF TheForms!Back
  <2>2. /\ DOMAIN p.todo \subseteq Nat /\ DOMAIN p.todo # {} /\ Framed(p) /\ p.form.kind # "none"
        /\ OnItsWay(p, DOMAIN p.todo, p.out, h, n, N)
    BY DEF FairForm, BeingServed
  <2>a. how # "confirmed" \/ ~Compares(p)
    BY DEF Confirms
  <2>3. OnItsWay(p, DOMAIN p.todo, how, TRUE, n, N)
    BY ONLY <2>2, <2>a DEF OnItsWay
  <2>4. \A d \in {"general", "time"} : ~ Reads(TheForms!Due(p), d)
    BY DEF Reads, Reader
  <2>5. OnItsWay(p, TheForms!Rest(p), how, TRUE, n, N)
    BY <2>2, <2>3, <2>4, WithoutDue
  <2>6. OnItsWay(p, TheForms!Rest(p), how, h2, n, N)
    BY <2>a, <2>5, OtherwiseOnItsWay
  <2>7. TheForms!Rest(p) \subseteq DOMAIN p.todo
    BY <2>2, EarliestIs
  <2> HIDE DEF p
  <2>8. FairForm(z, h2, n, N) /\ z.late = p.late /\ z.form = p.form
    BY <2>1, <2>2, <2>6, <2>7, FurtherFair
  <2> QED BY <2>8 DEF p
<1>2. CASE how \notin {"accepted", "confirmed"}
  <2>1. z = TheForms!Fail(p, how)
    BY <1>2 DEF TheForms!Back
  <2> QED BY <1>0, <2>1, FailFair
<1> QED BY <1>1, <1>2

\* What is fair stays so when the clock may be further behind.
LEMMA FairLater ==
  ASSUME NEW p, NEW h \in BOOLEAN, NEW n \in Int, NEW N \in Int, NEW n2 \in Int, NEW N2 \in Int,
         n2 - N2 <= n - N, FairForm(p, h, n, N)
  PROVE  FairForm(p, h, n2, N2)
<1>1. \A d : Fresh(p, d, n, N) => Fresh(p, d, n2, N2)
  <2>1. ASSUME NEW c \in Int, n - c <= N PROVE n2 - c <= N2
    BY <2>1
  <2> QED BY <2>1 DEF Fresh
<1>2. \A d, D : Clocked(p, d, D, n, N) => Clocked(p, d, D, n2, N2)
  BY <1>1 DEF Clocked
<1>3. \A D : OnItsWay(p, D, p.out, h, n, N) => OnItsWay(p, D, p.out, h, n2, N2)
  BY <1>2 DEF OnItsWay
<1> QED BY <1>3 DEF FairForm

-----------------------------------------------------------------------------
(* The steps of a form *)

\* Of the forms that are sent only finitely many are aged.
LEMMA AgedCount ==
  ASSUME NEW A, NEW B, A \subseteq B, B \subseteq Sends
  PROVE  Cardinality(A) \in Nat /\ Cardinality(B) \in Nat /\ Cardinality(A) <= Cardinality(B)
<1>1. IsFiniteSet(B) /\ IsFiniteSet(A)
  BY FormsAssumption, FS_Subset
<1> QED BY <1>1, FS_Subset, FS_CardinalityType

\* How far the clock can be behind is a number.
LEMMA BehindType ==
  /\ Behind \in Nat
  /\ Aged \subseteq Aged' => Behind' \in Nat /\ Behind <= Behind'
<1>1. Aged \subseteq Sends /\ Aged' \subseteq Sends
  BY DEF Aged
<1> QED BY <1>1, AgedCount DEF Behind

\* A step of one form keeps the rest.
LEMMA SetFair ==
  ASSUME FormsInv, NEW r \in Sends, BeingServed(form[r]), NEW q, TheForms!Set(r, q), q.late = form[r].late,
         q.form.kind # "none", NEW h \in BOOLEAN, h => r \in held', FairForm(q, h, now, Behind),
         now' = now, clock' \in Int, now - clock' <= Behind, held \subseteq held'
  PROVE  FormsInv'
<1> DEFINE w == IF q.ans = "" THEN q ELSE TheForms!Kept(q)
<1>1. form' = [form EXCEPT ![r] = w]
  BY DEF TheForms!Set
<1>3. ASSUME q.ans # "" PROVE Framed(w) /\ w.form = q.form /\ w.ans = q.ans
  <2> DEFINE before == IF q.form.kind = "setting" THEN q.before ELSE TheForms!Nothing
             u == TheForms!Unsent
  <2>1. w = [u EXCEPT !.form = q.form, !.ans = q.ans, !.before = before]
    BY <1>3 DEF TheForms!Kept
  <2>2. DOMAIN u = {"form", "todo", "seen", "before", "out", "ans", "late"}
    BY DEF TheForms!Unsent
  <2> HIDE DEF before, u, w
  <2>3. DOMAIN w = DOMAIN u /\ w.form = q.form /\ w.ans = q.ans
    BY <2>1, <2>2
  <2> QED BY <2>2, <2>3 DEF Framed, FairForm
<1>4. FairForm(w, h, now, Behind) /\ (w.ans # "" \/ w.late = form[r].late)
  <2>1. CASE q.ans = ""
    BY <2>1
  <2>2. CASE q.ans # ""
    <3>1. w.ans # "" /\ (w.ans = "confirmed" /\ Compares(w) => h)
      BY <1>3, <2>2 DEF FairForm, Compares
    <3> HIDE DEF w
    <3> QED BY <1>3, <2>2, <3>1 DEF FairForm, BeingServed
  <2> QED BY <2>1, <2>2
<1> HIDE DEF w
<1>5. DOMAIN form = Sends /\ now \in Int /\ clock \in Int
  BY DEF FormsInv
<1>6. form'[r] = w /\ DOMAIN form' = Sends /\ \A d \in Sends : d # r => form'[d] = form[d]
  BY <1>1, <1>5
<1>7. Aged \subseteq Aged'
  BY <1>4, <1>6 DEF Aged, BeingServed
<1>8. Behind \in Nat /\ Behind' \in Nat /\ Behind <= Behind'
  BY <1>7, BehindType
<1>9. ASSUME NEW d \in Sends PROVE \E k \in BOOLEAN : (k => d \in held') /\ FairForm(form'[d], k, now, Behind')
  <2>a. now - Behind' <= now - Behind /\ Behind \in Int /\ Behind' \in Int /\ now \in Int
    <3>1. \A n \in Int, N, M \in Nat : N <= M => n - M <= n - N
      OBVIOUS
    <3>2. \A N \in Nat : N \in Int
      OBVIOUS
    <3> QED BY ONLY <1>5, <1>8, <3>1, <3>2, Zenon
  <2>1. CASE d = r
    <3>1. FairForm(w, h, now, Behind)
      BY <1>4
    <3>2. FairForm(w, h, now, Behind')
      BY ONLY <2>a, <3>1, FairLater, h \in BOOLEAN
    <3> QED BY <1>6, <2>1, <3>2
  <2>2. CASE d # r
    <3>1. PICK k \in BOOLEAN : (k => d \in held) /\ FairForm(form[d], k, now, Behind)
      BY DEF FormsInv
    <3>2. FairForm(form[d], k, now, Behind')
      BY ONLY <2>a, <3>1, FairLater, k \in BOOLEAN
    <3>3. form'[d] = form[d] /\ (k => d \in held')
      BY <1>6, <2>2, <3>1
    <3> QED BY <3>2, <3>3
  <2> QED BY <2>1, <2>2
<1>10. now' - clock' <= Behind'
  <2>1. \A c \in Int : now - c <= Behind => now - c <= Behind'
    BY ONLY <1>5, <1>8
  <2> QED BY <2>1
<1> QED BY <1>5, <1>6, <1>9, <1>10 DEF FormsInv

\* What the camera has held it has held.
LEMMA Remembers ==
  ASSUME TheForms!Remember
  PROVE  /\ held \subseteq held'
         /\ \A r \in Sends : BeingServed(form[r]) /\ TheForms!HeldIn(cam', r) => r \in held'
  BY DEF TheForms!Remember, TheForms!Active, BeingServed

\* What is due is one of the steps of a list.
LEMMA DueIs ==
  ASSUME FormsInv, NEW r \in Sends, TheForms!Active(r)
  PROVE  /\ BeingServed(form[r]) /\ Carries(form[r], form[r], now, Behind)
         /\ FitStep(form[r].form, TheForms!Due(form[r])) /\ form[r].form.kind # "none"
         /\ now \in Int /\ clock \in Int /\ now - clock <= Behind /\ Behind \in Nat
         /\ \E h \in BOOLEAN : /\ (h => r \in held) /\ FairForm(form[r], h, now, Behind)
                               /\ OnItsWay(form[r], DOMAIN form[r].todo, form[r].out, h, now, Behind)
<1> DEFINE p == form[r]
<1>1. now \in Int /\ clock \in Int /\ now - clock <= Behind /\ Behind \in Nat
  BY BehindType DEF FormsInv
<1>2. BeingServed(p)
  BY DEF TheForms!Active, BeingServed
<1>3. PICK h \in BOOLEAN : (h => r \in held) /\ FairForm(p, h, now, Behind)
  BY DEF FormsInv
<1> HIDE DEF p
<1>4. DOMAIN p.todo \subseteq Nat /\ DOMAIN p.todo # {} /\ Framed(p) /\ OnItsWay(p, DOMAIN p.todo, p.out, h, now, Behind)
  BY <1>2, <1>3 DEF FairForm
<1>5. TheForms!Due(p) = p.todo[TheForms!Earliest(p)] /\ TheForms!Earliest(p) \in DOMAIN p.todo
  BY <1>4, EarliestIs
<1>6. FitStep(p.form, TheForms!Due(p)) /\ Carries(p, p, now, Behind) /\ p.form.kind # "none"
  BY <1>2, <1>4, <1>5 DEF OnItsWay, Carries, BeingServed
<1> QED BY <1>1, <1>2, <1>3, <1>4, <1>6 DEF p

\* A copy of what was read has the camera's clock with it.
LEMMA CopyIs ==
  ASSUME NEW r, NEW f, NEW c, c = TheForms!Copy(r, f), NEW d \in {"general", "time"}
  PROVE  /\ d \in TheForms!On(r) => d \in DOMAIN c /\ c[d].clock = clock
         /\ d \notin TheForms!On(r) /\ d \in DOMAIN f => d \in DOMAIN c /\ c[d] = f[d]
<1>1. TheForms!Document(d).clock = clock
  BY DEF TheForms!Document, TheForms!ClockDocs
<1> DEFINE on == TheForms!On(r)
           doc == TheForms!Document(d)
<1>2. d \in DOMAIN f \cup on => d \in DOMAIN c /\ c[d] = IF d \in on THEN doc ELSE f[d]
  BY DEF TheForms!Copy
<1> HIDE DEF on, doc
<1>3. /\ d \in on => d \in DOMAIN c /\ c[d] = doc
      /\ d \notin on /\ d \in DOMAIN f => d \in DOMAIN c /\ c[d] = f[d]
  BY <1>2
<1> QED BY <1>1, <1>3 DEF on, doc

\* A step that is done, other than the reading back, keeps the invariant.
LEMMA DoneFair ==
  ASSUME FormsInv, NEW r \in Sends, TheForms!Active(r), NEW q, Carries(form[r], q, now, Behind),
         TheForms!Due(form[r]).do # "after",
         \A d \in {"general", "time"} : Reads(TheForms!Due(form[r]), d) => Fresh(q, d, now, Behind),
         TheForms!Set(r, TheForms!Onward(q)), now' = now, clock' \in Int, now - clock' <= Behind, TheForms!Remember
  PROVE  FormsInv'
<1>1. PICK h \in BOOLEAN : (h => r \in held) /\ FairForm(form[r], h, now, Behind)
  BY DueIs
<1>2. BeingServed(form[r]) /\ form[r].form.kind # "none" /\ q.form.kind = form[r].form.kind
  BY DueIs DEF Carries
<1>3. ~ Decides(form[r].form, TheForms!Due(form[r]))
  BY DEF Decides
<1>4. PICK z : z = TheForms!Onward(q)
  OBVIOUS
<1>5. FairForm(z, h, now, Behind) /\ z.late = form[r].late /\ z.form = q.form
  BY <1>1, <1>2, <1>3, <1>4, OnwardFair
<1>6. held \subseteq held'
  BY Remembers
<1>7. z.form.kind # "none" /\ TheForms!Set(r, z) /\ (h => r \in held')
  BY <1>1, <1>2, <1>4, <1>5, <1>6
<1> QED BY <1>2, <1>5, <1>6, <1>7, SetFair

\* So does a step that fails.
LEMMA FailedFair ==
  ASSUME FormsInv, NEW r \in Sends, TheForms!Active(r), NEW q, Carries(form[r], q, now, Behind),
         NEW how, Says(how), Compares(form[r]) => ~Confirms(how), GoesOn(how) => MayGoOn(TheForms!Due(form[r])),
         TheForms!Set(r, TheForms!Fail(q, how)), now' = now, clock' \in Int, now - clock' <= Behind, TheForms!Remember
  PROVE  FormsInv'
<1>1. PICK h \in BOOLEAN : (h => r \in held) /\ FairForm(form[r], h, now, Behind)
  BY DueIs
<1>2. BeingServed(form[r]) /\ form[r].form.kind # "none" /\ q.form.kind = form[r].form.kind
  BY DueIs DEF Carries
<1>4. PICK z : z = TheForms!Fail(q, how)
  OBVIOUS
<1>5. FairForm(z, h, now, Behind) /\ z.late = form[r].late /\ z.form = q.form
  BY <1>1, <1>2, <1>4, FailFair
<1>6. held \subseteq held'
  BY Remembers
<1>7. z.form.kind # "none" /\ TheForms!Set(r, z) /\ (h => r \in held')
  BY <1>1, <1>2, <1>4, <1>5, <1>6
<1> QED BY <1>2, <1>5, <1>6, <1>7, SetFair

\* What a step of a list says when the camera does not answer, or refuses.
LEMMA StepSays ==
  ASSUME NEW p, NEW s, FitStep(p.form, s), NEW how, how = s.fails \/ how = s.refuses
  PROVE  Says(how) /\ (Compares(p) => ~Confirms(how)) /\ (GoesOn(how) => MayGoOn(s))
  BY DEF FitStep, Compares, MayGoOn

\* A form is about other leaves.
LEMMA AboutIs ==
  ASSUME NEW p, NEW q, NEW n, NEW N, Carries(p, q, n, N), NEW X, Compares(p) => X \subseteq q.form.leaves,
         NEW z, z = [q EXCEPT !.form.leaves = X]
  PROVE  Carries(p, z, n, N) /\ \A d \in {"general", "time"} : Fresh(q, d, n, N) => Fresh(z, d, n, N)
<1>1. Framed(q)
  BY DEF Carries
<1>2. PICK f : f = [q.form EXCEPT !.leaves = X]
  OBVIOUS
<1>3. f.kind = q.form.kind /\ f.doc = q.form.doc /\ f.leaves = X /\ DOMAIN f = {"kind", "doc", "leaves"}
  BY <1>1, <1>2 DEF Framed
<1>4. z = [q EXCEPT !.form = f]
  BY <1>2
<1>5. /\ z.form = f /\ DOMAIN z = DOMAIN q /\ z.todo = q.todo /\ z.out = q.out /\ z.late = q.late
      /\ z.seen = q.seen /\ z.before = q.before
  BY <1>1, <1>4 DEF Framed
<1>6. \A d : Fresh(q, d, n, N) => Fresh(z, d, n, N)
  BY <1>5 DEF Fresh, CopyOf
<1>7. Framed(z)
  BY <1>1, <1>3, <1>5 DEF Framed
<1> QED BY <1>3, <1>5, <1>6, <1>7 DEF Carries

\* A form that reads a document, or copies it just before it writes it.
LEMMA ReadDocFair ==
  ASSUME FormsInv, NEW r \in Sends, TheForms!ReadDoc(r)
  PROVE  FormsInv'
<1> DEFINE p == form[r]
           s == TheForms!Due(p)
           c == TheForms!Copy(r, p.seen)
           q == [p EXCEPT !.seen = c]
           Lacking == {l \in Leaves : cam["rules"][l] = "missing"}
           Lowest == CHOOSE l \in Lacking : \A m \in Lacking : l <= m
           ruled == [q EXCEPT !.form.leaves = {Lowest}]
           fewer == [q EXCEPT !.form.leaves = q.form.leaves \ TheForms!Missing(r)]
<1>1. /\ TheForms!Active(r) /\ s.do = "read" /\ now' = now /\ clock' = clock /\ TheForms!Remember
      /\ TheForms!On(r) = s.on
  BY DEF TheForms!ReadDoc, TheForms!Does, TheForms!On
<1>2. /\ Carries(p, p, now, Behind) /\ FitStep(p.form, s) /\ clock' \in Int /\ now - clock' <= Behind
      /\ clock \in Int /\ now - clock <= Behind
  BY <1>1, DueIs
<1>3. \/ TheForms!Set(r, TheForms!Fail(q, "refused"))
      \/ p.form.kind = "rule" /\ TheForms!Set(r, TheForms!Onward(ruled))
      \/ TheForms!Set(r, TheForms!Onward(q))
      \/ TheForms!Set(r, TheForms!Onward(fewer))
      \/ TheForms!Set(r, TheForms!Fail(q, s.refuses))
  BY DEF TheForms!ReadDoc, TheForms!Kind
<1>4. \A d \in {"general", "time"} :
        /\ d \in s.on => d \in DOMAIN c /\ c[d].clock = clock
        /\ d \notin s.on /\ d \in DOMAIN p.seen => d \in DOMAIN c /\ c[d] = p.seen[d]
  BY <1>1, CopyIs
<1> HIDE DEF c
<1>5. /\ DOMAIN q = DOMAIN p /\ q.seen = c /\ q.form = p.form /\ q.todo = p.todo /\ q.out = p.out /\ q.late = p.late
      /\ q.before = p.before /\ Framed(p)
  BY <1>2 DEF Carries, Framed
<1> HIDE DEF q
<1>6. \A d \in {"general", "time"} : Fresh(p, d, now, Behind) => Fresh(q, d, now, Behind)
  BY <1>2, <1>4, <1>5 DEF Fresh, CopyOf
<1>7. \A d \in {"general", "time"} : Reads(s, d) => Fresh(q, d, now, Behind)
  BY <1>1, <1>2, <1>4, <1>5 DEF Reads, Reader, Fresh, CopyOf
<1>8. Carries(p, q, now, Behind)
  BY <1>5, <1>6 DEF Carries, Framed
<1>9. CASE TheForms!Set(r, TheForms!Fail(q, "refused"))
  <2>1. Says("refused") /\ ~GoesOn("refused") /\ ~Confirms("refused")
    BY DEF Says, GoesOn, Confirms
  <2> QED BY <1>1, <1>2, <1>8, <1>9, <2>1, FailedFair
<1>10. CASE p.form.kind = "rule" /\ TheForms!Set(r, TheForms!Onward(ruled))
  <2>1. ~ Compares(p)
    BY <1>10 DEF Compares, TheForms!Believers
  <2> HIDE DEF p
  <2>2. Carries(p, ruled, now, Behind) /\ \A d \in {"general", "time"} : Fresh(q, d, now, Behind) => Fresh(ruled, d, now, Behind)
    BY <1>8, <2>1, AboutIs
  <2> HIDE DEF ruled, s
  <2>3. \A d \in {"general", "time"} : Reads(s, d) => Fresh(ruled, d, now, Behind)
    BY <1>7, <2>2
  <2> QED BY <1>1, <1>2, <1>10, <2>2, <2>3, DoneFair DEF s, p
<1>11. CASE TheForms!Set(r, TheForms!Onward(q))
  BY <1>1, <1>2, <1>7, <1>8, <1>11, DoneFair
<1>12. CASE TheForms!Set(r, TheForms!Onward(fewer))
  <2> HIDE DEF p
  <2>1. Carries(p, fewer, now, Behind) /\ \A d \in {"general", "time"} : Fresh(q, d, now, Behind) => Fresh(fewer, d, now, Behind)
    BY <1>8, AboutIs
  <2> HIDE DEF fewer, s
  <2>2. \A d \in {"general", "time"} : Reads(s, d) => Fresh(fewer, d, now, Behind)
    BY <1>7, <2>1
  <2> QED BY <1>1, <1>2, <1>12, <2>1, <2>2, DoneFair DEF s, p
<1>13. CASE TheForms!Set(r, TheForms!Fail(q, s.refuses))
  <2>1. Says(s.refuses) /\ (Compares(p) => ~Confirms(s.refuses)) /\ (GoesOn(s.refuses) => MayGoOn(s))
    BY <1>2, StepSays
  <2> QED BY <1>1, <1>2, <1>8, <1>13, <2>1, FailedFair
<1> QED BY <1>3, <1>9, <1>10, <1>11, <1>12, <1>13

\* So does the copy that is taken before a document is written.
LEMMA ReadBeforeFair ==
  ASSUME FormsInv, NEW r \in Sends, TheForms!ReadBefore(r)
  PROVE  FormsInv'
<1> DEFINE p == form[r]
           s == TheForms!Due(p)
           c == TheForms!Copy(r, p.before)
           q == [p EXCEPT !.before = c]
<1>1. /\ TheForms!Active(r) /\ s.do = "before" /\ now' = now /\ clock' = clock /\ TheForms!Remember
      /\ TheForms!On(r) = s.on /\ TheForms!Set(r, TheForms!Onward(q))
  BY DEF TheForms!ReadBefore, TheForms!Does, TheForms!On
<1>2. /\ Carries(p, p, now, Behind) /\ clock' \in Int /\ now - clock' <= Behind /\ clock \in Int /\ now - clock <= Behind
  BY <1>1, DueIs
<1>4. \A d \in {"general", "time"} :
        /\ d \in s.on => d \in DOMAIN c /\ c[d].clock = clock
        /\ d \notin s.on /\ d \in DOMAIN p.before => d \in DOMAIN c /\ c[d] = p.before[d]
  BY <1>1, CopyIs
<1> HIDE DEF c
<1>5. /\ DOMAIN q = DOMAIN p /\ q.seen = p.seen /\ q.form = p.form /\ q.todo = p.todo /\ q.out = p.out /\ q.late = p.late
      /\ q.before = c /\ Framed(p)
  BY <1>2 DEF Carries, Framed
<1> HIDE DEF q
<1>6. \A d \in {"general", "time"} : Fresh(p, d, now, Behind) => Fresh(q, d, now, Behind)
  BY <1>2, <1>4, <1>5 DEF Fresh, CopyOf
<1>7. \A d \in {"general", "time"} : Reads(s, d) => Fresh(q, d, now, Behind)
  BY <1>1, <1>2, <1>4, <1>5 DEF Reads, Reader, Fresh, CopyOf
<1>8. Carries(p, q, now, Behind)
  BY <1>5, <1>6 DEF Carries, Framed
<1> QED BY <1>1, <1>2, <1>7, <1>8, DoneFair

\* What a form sends as the clock is not further behind than a form takes.
LEMMA ClockSent ==
  ASSUME FormsInv, NEW r \in Sends, TheForms!Active(r), TheForms!Due(form[r]).do = "write", TheForms!Take(r, TheForms!Doc(r))
  PROVE  clock' \in Int /\ now - clock' <= Behind
<1> DEFINE p == form[r]
           s == TheForms!Due(p)
           e == TheForms!Earliest(p)
<1>1. PICK h \in BOOLEAN : FairForm(p, h, now, Behind) /\ OnItsWay(p, DOMAIN p.todo, p.out, h, now, Behind)
  BY DueIs
<1>2. /\ now \in Int /\ clock \in Int /\ now - clock <= Behind /\ Behind \in Nat /\ BeingServed(p) /\ FitStep(p.form, s)
      /\ s.do = "write"
  BY DueIs
<1>3. PICK d \in TheForms!Docs : s.on = {d}
  BY <1>2 DEF FitStep
<1>4. TheForms!Doc(r) = d
  BY <1>3 DEF TheForms!Doc, TheForms!On
<1>5. clock' = IF d \in TheForms!ClockDocs THEN TheForms!Body(r, d).clock ELSE clock
  BY <1>4 DEF TheForms!Take
<1>6. CASE d \notin {"general", "time"}
  BY <1>2, <1>5, <1>6 DEF TheForms!ClockDocs
<1>7. CASE d \in {"general", "time"} /\ p.form.kind = "sync"
  <2>1. clock' = now
    BY <1>5, <1>7 DEF TheForms!ClockDocs, TheForms!Body, TheForms!Kind
  <2>2. \A n \in Int, N \in Nat : n - n <= N
    OBVIOUS
  <2> QED BY ONLY <1>2, <2>1, <2>2
<1>8. CASE d \in {"general", "time"} /\ p.form.kind # "sync"
  <2>1. clock' = CopyOf(p, d)[d].clock
    BY <1>5, <1>8 DEF TheForms!ClockDocs, TheForms!Body, TheForms!Kind, TheForms!Alone, TheForms!freshClock, CopyOf
  <2>2. DOMAIN p.todo \subseteq Nat /\ DOMAIN p.todo # {}
    BY <1>1, <1>2 DEF FairForm
  <2> HIDE DEF p
  <2>3. e \in DOMAIN p.todo /\ (\A j \in DOMAIN p.todo : e <= j) /\ s = p.todo[e]
    BY <2>2, EarliestIs
  <2> HIDE DEF e, s
  <2>4. Clocked(p, d, DOMAIN p.todo, now, Behind)
    BY <1>1, <1>8 DEF OnItsWay
  <2>5. Writes(p.todo[e], d)
    BY <1>2, <1>3, <2>3 DEF Writes
  <2>6. ~ \E j \in DOMAIN p.todo : j < e
    BY <2>2, <2>3
  <2>7. Fresh(p, d, now, Behind)
    BY <2>3, <2>4, <2>5, <2>6 DEF Clocked
  <2> QED BY <2>1, <2>7 DEF Fresh
<1> QED BY <1>6, <1>7, <1>8

\* What is written and answered with 200; what is not, or is not answered.
LEMMA WriteFair ==
  ASSUME FormsInv, NEW r \in Sends,
         TheForms!WriteTaken(r) \/ TheForms!WriteIgnored(r) \/ TheForms!WriteRefused(r) \/ TheForms!WriteLost(r)
  PROVE  FormsInv'
<1> DEFINE p == form[r]
           s == TheForms!Due(p)
<1>1. TheForms!Active(r) /\ s.do = "write" /\ now' = now /\ TheForms!Remember
  BY DEF TheForms!WriteTaken, TheForms!WriteIgnored, TheForms!WriteRefused, TheForms!WriteLost, TheForms!Does
<1>2. Carries(p, p, now, Behind) /\ FitStep(p.form, s) /\ clock \in Int /\ now - clock <= Behind
  BY <1>1, DueIs
<1>3. clock' = clock \/ TheForms!Take(r, TheForms!Doc(r))
  BY DEF TheForms!WriteTaken, TheForms!WriteIgnored, TheForms!WriteRefused, TheForms!WriteLost
<1>4. clock' \in Int /\ now - clock' <= Behind
  BY <1>1, <1>2, <1>3, ClockSent
<1>5. \A d : ~ Reads(s, d)
  BY <1>1 DEF Reads, Reader
<1>6. CASE TheForms!Set(r, TheForms!Onward(p))
  BY <1>1, <1>2, <1>4, <1>5, <1>6, DoneFair
<1>7. ASSUME NEW how, how = s.fails \/ how = s.refuses, TheForms!Set(r, TheForms!Fail(p, how)) PROVE FormsInv'
  <2>1. Says(how) /\ (Compares(p) => ~Confirms(how)) /\ (GoesOn(how) => MayGoOn(s))
    BY <1>2, <1>7, StepSays
  <2> QED BY <1>1, <1>2, <1>4, <1>7, <2>1, FailedFair
<1>8. \/ TheForms!Set(r, TheForms!Onward(p)) \/ TheForms!Set(r, TheForms!Fail(p, s.fails))
      \/ TheForms!Set(r, TheForms!Fail(p, s.refuses))
  BY DEF TheForms!WriteTaken, TheForms!WriteIgnored, TheForms!WriteRefused, TheForms!WriteLost
<1> QED BY <1>6, <1>7, <1>8

\* A camera that does not answer.
LEMMA NoAnswerFair ==
  ASSUME FormsInv, NEW r \in Sends, TheForms!NoAnswer(r)
  PROVE  FormsInv'
<1> DEFINE p == form[r]
           s == TheForms!Due(p)
<1>1. /\ TheForms!Active(r) /\ now' = now /\ clock' = clock /\ TheForms!Remember
      /\ TheForms!Set(r, TheForms!Fail(p, s.fails))
  BY DEF TheForms!NoAnswer
<1>2. Carries(p, p, now, Behind) /\ FitStep(p.form, s) /\ clock' \in Int /\ now - clock' <= Behind
  BY <1>1, DueIs
<1>3. Says(s.fails) /\ (Compares(p) => ~Confirms(s.fails)) /\ (GoesOn(s.fails) => MayGoOn(s))
  BY <1>2, StepSays
<1> QED BY <1>1, <1>2, <1>3, FailedFair

\* What reads back as it was sent the camera holds.
LEMMA ReadsHeld ==
  ASSUME FormsInv, NEW r \in Sends, TheForms!Active(r), TheForms!ReadsAsSent(r), Compares(form[r]),
         Decides(form[r].form, TheForms!Due(form[r])), cam' = cam, clock' = clock, now' = now
  PROVE  TheForms!HeldIn(cam', r)
<1> DEFINE f == form[r].form
           s == TheForms!Due(form[r])
           d == IF f.kind = "netport" THEN f.doc ELSE TheForms!Doc(r)
<1>1. f.leaves \subseteq Leaves /\ (f.kind = "undo" => f.doc \in {"general", "osd"})
  BY DueIs DEF OnItsWay
<1>2. d = f.doc
  BY DEF Decides, TheForms!Doc, TheForms!On
<1>3. /\ f.kind = "undo" => s.compare = "whole"
      /\ f.kind = "sync" <=> s.compare = "clock"
      /\ f.kind # "rule"
  BY DEF Decides, Compares, TheForms!Believers
<1> DEFINE body == TheForms!Body(r, d)
           doc == TheForms!Document(d)
<1>4. CASE f.kind = "sync"
  <2>0. s.compare = "clock" /\ f.kind = "sync"
    BY <1>3, <1>4
  <2>1. clock = now
    BY <2>0 DEF TheForms!ReadsAsSent, TheForms!Kind
  <2> QED BY <1>4, <2>1 DEF TheForms!HeldIn
<1>5. CASE s.compare = "leaf"
  <2>1. \A l \in f.leaves : cam[d][l] = r
    BY <1>3, <1>5 DEF TheForms!ReadsAsSent, TheForms!Kind
  <2>2. f.kind # "sync" /\ f.kind # "undo"
    BY <1>3, <1>5
  <2> HIDE DEF d
  <2> QED BY <1>2, <2>1, <2>2 DEF TheForms!HeldIn
<1>6. CASE s.compare = "whole"
  <2>1. doc = body
    BY <1>3, <1>6 DEF TheForms!ReadsAsSent, TheForms!Kind
  <2>2. doc.leaf = cam[d]
    BY DEF TheForms!Document
  <2>3. f.kind # "sync"
    BY <1>3, <1>6
  <2>4. CASE f.kind = "undo"
    <3>1. body.leaf = form[r].seen[d].leaf
      BY <1>1, <1>2, <2>4 DEF TheForms!Body, TheForms!Kind, TheForms!Alone
    <3> HIDE DEF d, body, doc
    <3>2. cam[d] = form[r].seen[d].leaf
      BY <2>1, <2>2, <3>1
    <3> QED BY <1>2, <2>3, <2>4, <3>2 DEF TheForms!HeldIn
  <2>5. CASE f.kind # "undo"
    <3> DEFINE base == IF TheForms!Alone(d) THEN cam[d] ELSE form[r].seen[d].leaf
               Own(l) == l \in f.leaves /\ (d \in {"stream ports", "web ports"} => d = f.doc)
    <3>1. body.leaf = [l \in Leaves |-> IF Own(l) THEN r ELSE base[l]]
      BY <2>5 DEF TheForms!Body, TheForms!Kind
    <3> HIDE DEF d, body, doc, base
    <3>2. \A l \in f.leaves : cam[d][l] = r
      BY <1>1, <1>2, <2>1, <2>2, <3>1
    <3> QED BY <1>2, <2>3, <2>5, <3>2 DEF TheForms!HeldIn
  <2> QED BY <2>4, <2>5
<1>7. CASE s.compare \notin {"leaf", "whole", "clock"}
  <2>1. s.compare = "never"
    BY <1>7, DueIs DEF FitStep
  <2> QED BY <1>3, <2>1 DEF TheForms!ReadsAsSent, TheForms!Kind
<1> QED BY <1>3, <1>4, <1>5, <1>6, <1>7

\* The reading back keeps the invariant, whatever it finds.
LEMMA AfterFair ==
  ASSUME FormsInv, NEW r \in Sends, TheForms!ReadAfter(r) \/ TheForms!NoReadBack(r)
  PROVE  FormsInv'
<1> DEFINE p == form[r]
           s == TheForms!Due(p)
<1>1. /\ TheForms!Active(r) /\ s.do = "after" /\ now' = now /\ clock' = clock /\ cam' = cam /\ TheForms!Remember
  BY DEF TheForms!ReadAfter, TheForms!NoReadBack, TheForms!Does
<1>2. /\ Carries(p, p, now, Behind) /\ FitStep(p.form, s) /\ clock' \in Int /\ now - clock' <= Behind
      /\ BeingServed(p) /\ p.form.kind # "none"
  BY <1>1, DueIs
<1>3. PICK h \in BOOLEAN : (h => r \in held) /\ FairForm(p, h, now, Behind)
  BY <1>1, DueIs
<1>4. held \subseteq held'
  BY <1>1, Remembers
<1>5. ASSUME NEW how, how = s.fails \/ how = s.refuses, TheForms!Set(r, TheForms!Back(r, how)) PROVE FormsInv'
  <2>1. Says(how) /\ (Compares(p) => ~Confirms(how)) /\ (GoesOn(how) => MayGoOn(s))
    BY <1>2, <1>5, StepSays
  <2>2. PICK z : z = TheForms!Back(r, how)
    OBVIOUS
  <2>3. FairForm(z, h, now, Behind) /\ z.late = p.late /\ z.form = p.form
    BY <1>1, <1>2, <1>3, <2>1, <2>2, BackFair
  <2>4. z.form.kind # "none" /\ TheForms!Set(r, z) /\ (h => r \in held')
    BY <1>2, <1>3, <1>4, <1>5, <2>2, <2>3
  <2> QED BY <1>1, <1>2, <1>4, <2>3, <2>4, SetFair
<1>6. ASSUME TheForms!ReadsAsSent(r), TheForms!Set(r, TheForms!Onward(p)) PROVE FormsInv'
  <2>1. PICK k \in BOOLEAN : k <=> r \in held'
    OBVIOUS
  <2>2. Compares(p) /\ p.out = "confirmed" /\ Decides(p.form, s) => k
    <3>1. ASSUME Compares(p), Decides(p.form, s) PROVE r \in held'
      <4>1. TheForms!HeldIn(cam', r)
        BY <1>1, <1>6, <3>1, ReadsHeld
      <4> QED BY <1>1, <1>2, <4>1, Remembers
    <3> QED BY <2>1, <3>1
  <2>3. \A d \in {"general", "time"} : ~ Reads(s, d)
    BY <1>1 DEF Reads, Reader
  <2>4. PICK z : z = TheForms!Onward(p)
    OBVIOUS
  <2>5. h => k
    BY <1>3, <1>4, <2>1
  <2>6. FairForm(z, k, now, Behind) /\ z.late = p.late /\ z.form = p.form
    BY <1>2, <1>3, <2>2, <2>3, <2>4, <2>5, OnwardFair
  <2>7. z.form.kind # "none" /\ TheForms!Set(r, z) /\ (k => r \in held')
    BY <1>2, <1>6, <2>1, <2>4, <2>6
  <2> QED BY <1>1, <1>2, <1>4, <2>6, <2>7, SetFair
<1>7. \/ TheForms!Set(r, TheForms!Back(r, s.fails)) \/ TheForms!Set(r, TheForms!Back(r, s.refuses))
      \/ TheForms!ReadsAsSent(r) /\ TheForms!Set(r, TheForms!Onward(p))
  BY DEF TheForms!ReadAfter, TheForms!NoReadBack
<1> QED BY <1>5, <1>6, <1>7

\* Time passes: the clock with it, and whoever is being served is late from then on.
LEMMA TickFair ==
  ASSUME FormsInv, TheForms!Tick
  PROVE  FormsInv'
<1>1. /\ now' = now + 1 /\ clock' = clock + 1 /\ TheForms!Remember
      /\ \A r \in Sends : BeingServed(form[r]) => ~form[r].late
      /\ form' = [r \in Sends |-> IF BeingServed(form[r]) THEN [form[r] EXCEPT !.late = TRUE] ELSE form[r]]
  BY DEF TheForms!Tick, TheForms!Active, BeingServed
<1>2. now \in Int /\ clock \in Int /\ now - clock <= Behind
  BY DEF FormsInv
<1>3. \A r \in Sends : ~BeingServed(form[r]) => form'[r] = form[r]
  BY <1>1
<1>4. ASSUME NEW r \in Sends, BeingServed(form[r])
      PROVE  /\ form'[r].late = TRUE /\ DOMAIN form'[r] = DOMAIN form[r] /\ form'[r].form = form[r].form
             /\ form'[r].todo = form[r].todo /\ form'[r].seen = form[r].seen /\ form'[r].before = form[r].before
             /\ form'[r].out = form[r].out /\ form'[r].ans = form[r].ans
  <2>1. form'[r] = [form[r] EXCEPT !.late = TRUE]
    BY <1>1, <1>4
  <2>2. Framed(form[r])
    BY DEF FormsInv, FairForm
  <2> QED BY <2>1, <2>2 DEF Framed
<1>5. Aged \subseteq Aged'
  BY <1>3, <1>4 DEF Aged
<1>6. Behind \in Nat /\ Behind' \in Nat /\ Behind <= Behind'
  BY <1>5, BehindType
<1>7. \A r \in Sends : BeingServed(form[r]) => Behind + 1 <= Behind'
  <2> SUFFICES ASSUME NEW r \in Sends, BeingServed(form[r]) PROVE Behind + 1 <= Behind'
    OBVIOUS
  <2>1. r \notin Aged /\ r \in Aged' /\ Aged \subseteq Sends /\ Aged' \subseteq Sends
    BY <1>1, <1>4 DEF Aged, BeingServed
  <2>2. IsFiniteSet(Aged)
    BY <2>1, FormsAssumption, FS_Subset
  <2>3. Cardinality(Aged \cup {r}) = Cardinality(Aged) + 1
    BY <2>1, <2>2, FS_AddElement
  <2>4. Cardinality(Aged \cup {r}) <= Cardinality(Aged')
    BY <1>5, <2>1, AgedCount
  <2> QED BY <2>3, <2>4 DEF Behind
<1>8. held \subseteq held'
  BY <1>1, Remembers
<1>9. ASSUME NEW r \in Sends PROVE \E h \in BOOLEAN : (h => r \in held') /\ FairForm(form'[r], h, now', Behind')
  <2>1. PICK h \in BOOLEAN : (h => r \in held) /\ FairForm(form[r], h, now, Behind)
    BY DEF FormsInv
  <2>2. CASE ~BeingServed(form[r])
    <3>1. FairForm(form[r], h, now', Behind')
      BY <2>1, <2>2 DEF FairForm
    <3> QED BY <1>3, <1>8, <2>1, <2>2, <3>1
  <2>3. CASE BeingServed(form[r])
    <3>1. now' - Behind' <= now - Behind /\ now \in Int /\ now' \in Int /\ Behind \in Int /\ Behind' \in Int
      <4>1. \A n \in Int, N, M \in Nat : N + 1 <= M => (n + 1) - M <= n - N /\ n + 1 \in Int /\ N \in Int /\ M \in Int
        OBVIOUS
      <4>2. Behind + 1 <= Behind'
        BY <1>7, <2>3
      <4> QED BY ONLY <1>1, <1>2, <1>6, <4>1, <4>2
    <3>2. FairForm(form[r], h, now', Behind')
      <4>1. FairForm(form[r], h, now, Behind)
        BY <2>1
      <4> QED BY ONLY <3>1, <4>1, FairLater, h \in BOOLEAN
    <3>3. FairForm(form'[r], h, now', Behind')
      <4> DEFINE p == form[r]
                 q == form'[r]
      <4>1. /\ DOMAIN q = DOMAIN p /\ q.form = p.form /\ q.todo = p.todo /\ q.seen = p.seen /\ q.before = p.before
            /\ q.out = p.out /\ q.ans = p.ans
        BY <1>4, <2>3
      <4>2. FairForm(p, h, now', Behind')
        BY <3>2
      <4> HIDE DEF p, q
      <4>3. \A n, N, D : OnItsWay(p, D, p.out, h, n, N) => OnItsWay(q, D, q.out, h, n, N)
        BY <4>1 DEF OnItsWay, Clocked, Fresh, CopyOf, Compares
      <4>4. FairForm(q, h, now', Behind')
        BY <4>1, <4>2, <4>3 DEF FairForm, Framed, BeingServed, Compares
      <4> QED BY <4>4 DEF q
    <3> QED BY <1>8, <2>1, <3>3
  <2> QED BY <2>2, <2>3
<1>10. now' - clock' <= Behind' /\ now' \in Int /\ clock' \in Int
  <2>1. \A n, c \in Int, N, M \in Nat : n - c <= N /\ N <= M => (n + 1) - (c + 1) <= M /\ n + 1 \in Int /\ c + 1 \in Int
    OBVIOUS
  <2> QED BY ONLY <1>1, <1>2, <1>6, <2>1
<1>11. DOMAIN form' = Sends
  BY <1>1
<1> QED BY <1>9, <1>10, <1>11 DEF FormsInv

-----------------------------------------------------------------------------
(* The lists *)

\* A list as a form starts with it: its steps are sound, one decides, and what
\* sends a clock has read it before.
Starts(f, e) == e = "general" \/ (e = "time" /\ f.kind # "sync")
Listed(f, P) ==
  /\ DOMAIN P \subseteq Nat /\ DOMAIN P # {}
  /\ \A i \in DOMAIN P : FitStep(f, P[i])
  /\ f.kind \notin TheForms!Believers => Deciding(f, P, DOMAIN P)
  /\ \A e : Starts(f, e) => \A i \in DOMAIN P : Writes(P[i], e) => \E j \in DOMAIN P : j < i /\ Reads(P[j], e)

\* A step that reads, and one that the form ends with if it fails.
Plain(f, s) == FitStep(f, s) /\ s.do # "write"
Ends(f, s) == f.kind \notin TheForms!Believers => ~MayGoOn(s)
Closing(f, s) == f.kind \notin TheForms!Believers => Decides(f, s)

\* A step that writes and nothing to read first: it sends no clock.
Clockless(f, s) == \A e : Starts(f, e) => ~Writes(s, e)

\* Lists of one step after another.
LEMMA Joined ==
  ASSUME NEW s, NEW t, NEW S, s \in Seq(S), t \in Seq(S), NEW m \in Nat, m = Len(s), NEW n \in Nat, n = Len(t)
  PROVE  /\ DOMAIN (s \o t) = 1 .. m + n /\ s \o t \in Seq(S) /\ Len(s \o t) = m + n
         /\ \A i \in 1..m : (s \o t)[i] = s[i]
         /\ \A i \in 1..n : (s \o t)[m + i] = t[i]
<1>1. PICK u : u = s \o t
  OBVIOUS
<1>2. u \in Seq(S) /\ Len(u) = m + n /\ \A i \in 1 .. m + n : u[i] = IF i <= m THEN s[i] ELSE t[i - m]
  BY <1>1, ConcatProperties
<1>3. DOMAIN u = 1 .. m + n
  BY <1>2
<1>4. \A i \in 1..m : u[i] = s[i]
  BY <1>2
<1>5. ASSUME NEW i \in 1..n PROVE u[m + i] = t[i]
  <2>1. m + i \in 1 .. m + n /\ ~(m + i <= m) /\ (m + i) - m = i
    OBVIOUS
  <2> QED BY <1>2, <2>1
<1> QED BY <1>1, <1>2, <1>3, <1>4, <1>5

\* A list of four is one and three more.
LEMMA OneAndThree ==
  ASSUME NEW a, NEW b, NEW c, NEW d
  PROVE  <<a>> \o <<b, c, d>> = <<a, b, c, d>>
<1> DEFINE S == {a, b, c, d}
<1>1. <<a>> \in Seq(S) /\ <<b, c, d>> \in Seq(S) /\ Len(<<a>>) = 1 /\ Len(<<b, c, d>>) = 3
  OBVIOUS
<1>2. <<a, b, c, d>> \in Seq(S) /\ Len(<<a, b, c, d>>) = 4
  OBVIOUS
<1>3. PICK u : u = <<a>> \o <<b, c, d>>
  OBVIOUS
<1>4. /\ u \in Seq(S) /\ Len(u) = 1 + 3 /\ \A i \in 1..1 : u[i] = <<a>>[i]
      /\ \A i \in 1..3 : u[1 + i] = <<b, c, d>>[i]
  BY <1>1, <1>3, Joined
<1>5. u[1] = a /\ u[2] = b /\ u[3] = c /\ u[4] = d
  <2>1. 1 \in 1..1 /\ 1 \in 1..3 /\ 2 \in 1..3 /\ 3 \in 1..3 /\ 1 + 1 = 2 /\ 1 + 2 = 3 /\ 1 + 3 = 4
    OBVIOUS
  <2>2. <<b, c, d>>[1] = b /\ <<b, c, d>>[2] = c /\ <<b, c, d>>[3] = d /\ <<a>>[1] = a
    OBVIOUS
  <2> QED BY <1>4, <2>1, <2>2
<1>6. \A i \in 1..4 : u[i] = <<a, b, c, d>>[i]
  BY <1>5
<1>7. u = <<a, b, c, d>>
  BY <1>2, <1>4, <1>6, SeqEqual
<1> QED BY <1>3, <1>7

\* A list of three is two and one more.
LEMMA TwoAndOne ==
  ASSUME NEW a, NEW b, NEW c
  PROVE  <<a, b>> \o <<c>> = <<a, b, c>>
<1> DEFINE S == {a, b, c}
<1>1. /\ <<a, b>> \in Seq(S) /\ <<c>> \in Seq(S) /\ <<a, b, c>> \in Seq(S) /\ Len(<<a, b>>) = 2 /\ Len(<<c>>) = 1
      /\ Len(<<a, b, c>>) = 3
  OBVIOUS
<1>2. PICK u : u = <<a, b>> \o <<c>>
  OBVIOUS
<1>3. u \in Seq(S) /\ Len(u) = 2 + 1 /\ (\A i \in 1..2 : u[i] = <<a, b>>[i]) /\ \A i \in 1..1 : u[2 + i] = <<c>>[i]
  BY <1>1, <1>2, Joined
<1>4. u[1] = a /\ u[2] = b /\ u[3] = c
  <2>1. 1 \in 1..2 /\ 2 \in 1..2 /\ 1 \in 1..1 /\ 2 + 1 = 3 /\ <<a, b>>[1] = a /\ <<a, b>>[2] = b /\ <<c>>[1] = c
    OBVIOUS
  <2> QED BY <1>3, <2>1
<1>5. \A i \in 1..3 : u[i] = <<a, b, c>>[i]
  BY <1>4
<1>6. u = <<a, b, c>>
  BY <1>1, <1>3, <1>5, SeqEqual
<1> QED BY <1>2, <1>6

\* A document that is read, copied, written and read back.
LEMMA ListOfFour ==
  ASSUME NEW f, NEW a, NEW b, NEW c, NEW d, Plain(f, a), Plain(f, b), FitStep(f, c), Plain(f, d),
         Ends(f, a), Ends(f, b), Ends(f, c), Closing(f, d),
         \A e : Starts(f, e) /\ Writes(c, e) => Reads(b, e) \/ Reads(a, e)
  PROVE  Listed(f, <<a, b, c, d>>)
<1> DEFINE P == <<a, b, c, d>>
<1>1. DOMAIN P = 1..4 /\ P[1] = a /\ P[2] = b /\ P[3] = c /\ P[4] = d
  OBVIOUS
<1> HIDE DEF P
<1>2. \A i \in 1..4 : i = 1 \/ i = 2 \/ i = 3 \/ i = 4
  OBVIOUS
<1>3. \A i \in DOMAIN P : FitStep(f, P[i])
  BY <1>1, <1>2 DEF Plain
<1>4. f.kind \notin TheForms!Believers => Deciding(f, P, DOMAIN P)
  <2> SUFFICES ASSUME f.kind \notin TheForms!Believers PROVE Deciding(f, P, DOMAIN P)
    OBVIOUS
  <2>1. Decides(f, P[4]) /\ ~MayGoOn(a) /\ ~MayGoOn(b) /\ ~MayGoOn(c) /\ ~MayGoOn(d)
    BY <1>1 DEF Closing, Ends, Decides
  <2>2. \A j \in DOMAIN P : ~MayGoOn(P[j])
    BY <1>1, <1>2, <2>1
  <2>3. 4 \in DOMAIN P
    BY <1>1
  <2> QED BY <2>1, <2>2, <2>3 DEF Deciding
<1>5. ASSUME NEW e, Starts(f, e), NEW i \in DOMAIN P, Writes(P[i], e) PROVE \E j \in DOMAIN P : j < i /\ Reads(P[j], e)
  <2>1. i = 3
    BY <1>1, <1>2, <1>5 DEF Plain, Writes
  <2>2. Reads(P[1], e) \/ Reads(P[2], e)
    BY <1>1, <1>5, <2>1
  <2>3. 1 \in DOMAIN P /\ 2 \in DOMAIN P /\ 1 < i /\ 2 < i
    BY <1>1, <2>1
  <2> QED BY <2>2, <2>3
<1>6. DOMAIN P \subseteq Nat /\ DOMAIN P # {}
  BY <1>1
<1>7. Listed(f, P)
  BY <1>3, <1>4, <1>5, <1>6 DEF Listed
<1> QED BY <1>7 DEF P

\* What forms answer, and what they end with if they do.
Words == {"error", "refused", "accepted", "none", "partly", "skip leaf", "skip", "noted"}
EndWords == Words \ {"skip", "noted"}
AnyWords == Words \cup {"confirmed"}

\* Such an answer is one, and ends the form unconfirmed.
LEMMA EndWord ==
  ASSUME NEW w \in EndWords
  PROVE  Says(w) /\ ~GoesOn(w) /\ ~Confirms(w)
  BY DEF EndWords, Words, Says, GoesOn, Confirms

\* The steps as the forms make them: one that reads.
LEMMA ReadStep ==
  ASSUME NEW f, NEW d, NEW fails \in EndWords, NEW refuses \in EndWords
  PROVE  /\ Plain(f, TheForms!Read(d, fails, refuses)) /\ Ends(f, TheForms!Read(d, fails, refuses))
         /\ Reads(TheForms!Read(d, fails, refuses), d) \/ d = "general"
<1>1. TheForms!Read(d, fails, refuses) = [do |-> "read", on |-> {d}, fails |-> fails, refuses |-> refuses, compare |-> "leaf"]
  BY DEF TheForms!Read, TheForms!Step
<1>2. PICK s : s = TheForms!Read(d, fails, refuses)
  OBVIOUS
<1>3. s.do = "read" /\ s.on = {d} /\ s.compare = "leaf"
  BY <1>1, <1>2
<1>4. s.fails = fails /\ s.refuses = refuses
  BY <1>1, <1>2
<1>5. Says(s.fails) /\ Says(s.refuses) /\ ~MayGoOn(s) /\ ~Confirms(s.fails) /\ ~Confirms(s.refuses)
  BY <1>4, EndWord DEF MayGoOn
<1>6. Plain(f, s) /\ Ends(f, s) /\ (Reads(s, d) \/ d = "general")
  BY <1>3, <1>5 DEF Plain, FitStep, Ends, Reads, Reader
<1> QED BY <1>2, <1>6

\* One that copies what is to be written.
LEMMA BeforeStep ==
  ASSUME NEW f, NEW d, NEW fails \in EndWords
  PROVE  /\ Plain(f, TheForms!Before(d, fails)) /\ Ends(f, TheForms!Before(d, fails))
         /\ Reads(TheForms!Before(d, fails), d) \/ d # "general"
<1>1. TheForms!Before(d, fails) = [do |-> "before", on |-> {d}, fails |-> fails, refuses |-> fails, compare |-> "leaf"]
  BY DEF TheForms!Before, TheForms!Step
<1>2. PICK s : s = TheForms!Before(d, fails)
  OBVIOUS
<1>3. s.do = "before" /\ s.on = {d} /\ s.compare = "leaf"
  BY <1>1, <1>2
<1>4. s.fails = fails /\ s.refuses = fails
  BY <1>1, <1>2
<1>5. Says(s.fails) /\ Says(s.refuses) /\ ~MayGoOn(s) /\ ~Confirms(s.fails) /\ ~Confirms(s.refuses)
  BY <1>4, EndWord DEF MayGoOn
<1>6. Plain(f, s) /\ Ends(f, s) /\ (Reads(s, d) \/ d # "general")
  BY <1>3, <1>5 DEF Plain, FitStep, Ends, Reads, Reader
<1> QED BY <1>2, <1>6

\* One that writes.
LEMMA WriteStep ==
  ASSUME NEW f, NEW d \in TheForms!Docs, NEW fails \in EndWords, NEW refuses \in EndWords
  PROVE  /\ FitStep(f, TheForms!Write(d, fails, refuses)) /\ Ends(f, TheForms!Write(d, fails, refuses))
         /\ \A e : Writes(TheForms!Write(d, fails, refuses), e) => e = d
<1>1. TheForms!Write(d, fails, refuses) = [do |-> "write", on |-> {d}, fails |-> fails, refuses |-> refuses, compare |-> "leaf"]
  BY DEF TheForms!Write, TheForms!Step
<1>2. PICK s : s = TheForms!Write(d, fails, refuses)
  OBVIOUS
<1>3. s.do = "write" /\ s.on = {d} /\ s.compare = "leaf"
  BY <1>1, <1>2
<1>4. s.fails = fails /\ s.refuses = refuses
  BY <1>1, <1>2
<1>5. Says(s.fails) /\ Says(s.refuses) /\ ~MayGoOn(s) /\ ~Confirms(s.fails) /\ ~Confirms(s.refuses)
  BY <1>4, EndWord DEF MayGoOn
<1>6. FitStep(f, s) /\ Ends(f, s) /\ \A e : Writes(s, e) => e = d
  BY <1>3, <1>5 DEF FitStep, Ends, Writes
<1> QED BY <1>2, <1>6

\* One that reads back what was written.
LEMMA AfterStep ==
  ASSUME NEW f, NEW d, NEW fails \in EndWords, NEW refuses \in EndWords, NEW compare \in {"never", "clock", "leaf", "whole"}
  PROVE  /\ Plain(f, TheForms!After(d, fails, refuses, compare)) /\ Ends(f, TheForms!After(d, fails, refuses, compare))
         /\ d = f.doc /\ f.kind # "netport" /\ (f.kind = "undo" => compare = "whole") /\ (f.kind = "sync" <=> compare = "clock")
              => Closing(f, TheForms!After(d, fails, refuses, compare))
<1>1. TheForms!After(d, fails, refuses, compare)
        = [do |-> "after", on |-> {d}, fails |-> fails, refuses |-> refuses, compare |-> compare]
  BY DEF TheForms!After, TheForms!Step
<1>2. PICK s : s = TheForms!After(d, fails, refuses, compare)
  OBVIOUS
<1>3. s.do = "after" /\ s.on = {d} /\ s.compare = compare
  BY <1>1, <1>2
<1>4. s.fails = fails /\ s.refuses = refuses
  BY <1>1, <1>2
<1>5. Says(s.fails) /\ Says(s.refuses) /\ ~MayGoOn(s) /\ ~Confirms(s.fails) /\ ~Confirms(s.refuses)
  BY <1>4, EndWord DEF MayGoOn
<1>6. Plain(f, s) /\ Ends(f, s)
  BY <1>3, <1>5 DEF Plain, FitStep, Ends
<1>7. ASSUME d = f.doc, f.kind # "netport", f.kind = "undo" => compare = "whole", f.kind = "sync" <=> compare = "clock"
      PROVE  Closing(f, s)
  BY <1>3, <1>5, <1>7 DEF Closing, Decides
<1> QED BY <1>2, <1>6, <1>7

\* Any other, by what it says.
LEMMA AnyStep ==
  ASSUME NEW f, NEW s, NEW d \in TheForms!Docs, s.on = {d}, s.compare \in {"leaf", "whole"},
         s.fails \in AnyWords, s.refuses \in AnyWords, f.kind \in TheForms!Believers
  PROVE  FitStep(f, s)
<1>1. \A w \in AnyWords : Says(w)
  BY DEF AnyWords, Words, Says
<1>2. Says(s.fails) /\ Says(s.refuses)
  BY <1>1
<1> QED BY <1>2 DEF FitStep

\* A document read, copied, written and read back as most forms do it.
LEMMA FourListed ==
  ASSUME NEW f, f.doc \in TheForms!Docs, f.kind \notin {"netport", "undo", "sync"},
         NEW w \in EndWords, NEW x \in EndWords, NEW y \in EndWords, NEW z \in EndWords, NEW compare \in {"leaf", "whole"}
  PROVE  Listed(f, <<TheForms!Read(f.doc, w, x)>> \o TheForms!writeBlockWith(f.doc, y, z, compare))
<1> DEFINE a == TheForms!Read(f.doc, w, x)
           b == TheForms!Before(f.doc, y)
           c == TheForms!Write(f.doc, y, "refused")
           d == TheForms!After(f.doc, "accepted", z, compare)
<1>1. <<a>> \o TheForms!writeBlockWith(f.doc, y, z, compare) = <<a, b, c, d>>
  BY OneAndThree DEF TheForms!writeBlockWith
<1>2. {"refused", "accepted"} \subseteq EndWords
  BY DEF EndWords, Words
<1>3. Plain(f, a) /\ Ends(f, a) /\ Plain(f, b) /\ Ends(f, b) /\ Plain(f, d) /\ Closing(f, d)
  BY <1>2, ReadStep, BeforeStep, AfterStep
<1>4. FitStep(f, c) /\ Ends(f, c) /\ \A e : Writes(c, e) => e = f.doc
  BY <1>2, WriteStep
<1>5. Reads(b, f.doc) \/ Reads(a, f.doc)
  BY <1>2, ReadStep, BeforeStep
<1> HIDE DEF a, b, c, d
<1>6. Listed(f, <<a, b, c, d>>)
  BY <1>3, <1>4, <1>5, ListOfFour
<1> QED BY <1>1, <1>6 DEF a

\* A document read, written and read back; and one that is copied, not read.
LEMMA ListOfThree ==
  ASSUME NEW f, NEW a, NEW b, NEW c, Plain(f, a), FitStep(f, b), Plain(f, c), Ends(f, a), Ends(f, b), Closing(f, c),
         \A e : Starts(f, e) /\ Writes(b, e) => Reads(a, e)
  PROVE  Listed(f, <<a, b, c>>)
<1> DEFINE P == <<a, b, c>>
<1>1. DOMAIN P = 1..3 /\ P[1] = a /\ P[2] = b /\ P[3] = c
  OBVIOUS
<1> HIDE DEF P
<1>2. \A i \in 1..3 : i = 1 \/ i = 2 \/ i = 3
  OBVIOUS
<1>3. \A i \in DOMAIN P : FitStep(f, P[i])
  BY <1>1, <1>2 DEF Plain
<1>4. f.kind \notin TheForms!Believers => Deciding(f, P, DOMAIN P)
  <2> SUFFICES ASSUME f.kind \notin TheForms!Believers PROVE Deciding(f, P, DOMAIN P)
    OBVIOUS
  <2>1. Decides(f, P[3]) /\ ~MayGoOn(a) /\ ~MayGoOn(b) /\ ~MayGoOn(c)
    BY <1>1 DEF Closing, Ends, Decides
  <2>2. \A j \in DOMAIN P : ~MayGoOn(P[j])
    BY <1>1, <1>2, <2>1
  <2>3. 3 \in DOMAIN P
    BY <1>1
  <2> QED BY <2>1, <2>2, <2>3 DEF Deciding
<1>5. ASSUME NEW e, Starts(f, e), NEW i \in DOMAIN P, Writes(P[i], e) PROVE \E j \in DOMAIN P : j < i /\ Reads(P[j], e)
  <2>1. i = 2
    BY <1>1, <1>2, <1>5 DEF Plain, Writes
  <2>2. Reads(P[1], e)
    BY <1>1, <1>5, <2>1
  <2>3. 1 \in DOMAIN P /\ 1 < i
    BY <1>1, <2>1
  <2> QED BY <2>2, <2>3
<1>6. DOMAIN P \subseteq Nat /\ DOMAIN P # {}
  BY <1>1
<1>7. Listed(f, P)
  BY <1>3, <1>4, <1>5, <1>6 DEF Listed
<1> QED BY <1>7 DEF P

\* A document read, written and read back as the forms do it: not the general block.
LEMMA ThreeListed ==
  ASSUME NEW f, f.doc \in TheForms!Docs, f.doc # "general", f.kind \notin {"netport", "undo"},
         NEW w \in EndWords, NEW x \in EndWords, NEW v \in EndWords, NEW y \in EndWords, NEW z \in EndWords,
         NEW compare \in {"never", "clock", "leaf", "whole"}, f.kind = "sync" <=> compare = "clock"
  PROVE  Listed(f, <<TheForms!Read(f.doc, w, x), TheForms!Write(f.doc, v, y), TheForms!After(f.doc, z, z, compare)>>)
<1> DEFINE a == TheForms!Read(f.doc, w, x)
           b == TheForms!Write(f.doc, v, y)
           c == TheForms!After(f.doc, z, z, compare)
<1>3. Plain(f, a) /\ Ends(f, a) /\ Plain(f, c) /\ Closing(f, c) /\ Reads(a, f.doc)
  BY ReadStep, AfterStep
<1>4. FitStep(f, b) /\ Ends(f, b) /\ \A e : Writes(b, e) => e = f.doc
  BY WriteStep
<1> HIDE DEF a, b, c
<1>5. Listed(f, <<a, b, c>>)
  BY <1>3, <1>4, ListOfThree
<1> QED BY <1>5 DEF a, b, c

\* A list that sends no clock.
LEMMA ClocklessListed ==
  ASSUME NEW f, f.kind \in TheForms!Believers, NEW P, NEW n \in Nat, n > 0, DOMAIN P = 1..n,
         \A i \in 1..n : FitStep(f, P[i]) /\ P[i].on # {"general"} /\ P[i].on # {"time"}
  PROVE  Listed(f, P)
<1>1. DOMAIN P \subseteq Nat /\ DOMAIN P # {}
  OBVIOUS
<1>2. \A e, i : Starts(f, e) /\ i \in DOMAIN P => ~Writes(P[i], e)
  BY DEF Starts, Writes
<1> QED BY <1>1, <1>2 DEF Listed

\* serveWrite, which undoes.
LEMMA UndoListed ==
  ASSUME NEW f, f.kind = "undo", f.doc \in {"general", "osd"}
  PROVE  Listed(f, TheForms!serveWrite(f.doc))
<1> DEFINE a == TheForms!Before(f.doc, "error")
           b == TheForms!Write(f.doc, "error", "refused")
           c == TheForms!After(f.doc, "accepted", "accepted", "whole")
<1>1. TheForms!serveWrite(f.doc) = <<a, b, c>>
  BY DEF TheForms!serveWrite, TheForms!writeBlockWith
<1>2. {"refused", "accepted", "error"} \subseteq EndWords /\ f.doc \in TheForms!Docs
  BY DEF EndWords, Words, TheForms!Docs
<1>3. Plain(f, a) /\ Ends(f, a) /\ Plain(f, c) /\ Closing(f, c) /\ (Reads(a, f.doc) \/ f.doc # "general")
  BY <1>2, BeforeStep, AfterStep
<1>4. FitStep(f, b) /\ Ends(f, b) /\ \A e : Writes(b, e) => e = f.doc
  BY <1>2, WriteStep
<1>5. \A e : Starts(f, e) /\ Writes(b, e) => Reads(a, e)
  BY <1>3, <1>4 DEF Starts
<1> HIDE DEF a, b, c
<1>6. Listed(f, <<a, b, c>>)
  BY <1>3, <1>4, <1>5, ListOfThree
<1> QED BY <1>1, <1>6

\* servePrivacyMode, which reads nothing first.
LEMMA PrivacyListed ==
  ASSUME NEW f, f.kind = "privacy", f.doc = "sleep"
  PROVE  Listed(f, TheForms!servePrivacyMode)
<1> DEFINE a == TheForms!Write("sleep", "error", "refused")
           b == TheForms!After("sleep", "accepted", "accepted", "leaf")
           P == <<a, b>>
<1>1. {"refused", "accepted", "error"} \subseteq EndWords /\ "sleep" \in TheForms!Docs
  BY DEF EndWords, Words, TheForms!Docs
<1>2. FitStep(f, a) /\ Ends(f, a) /\ \A e : Writes(a, e) => e = "sleep"
  BY <1>1, WriteStep
<1>3. Plain(f, b) /\ Closing(f, b)
  BY <1>1, AfterStep
<1>4. TheForms!servePrivacyMode = P
  BY DEF TheForms!servePrivacyMode
<1>5. DOMAIN P = 1..2 /\ P[1] = a /\ P[2] = b
  OBVIOUS
<1> HIDE DEF a, b, P
<1>6. \A i \in 1..2 : i = 1 \/ i = 2
  OBVIOUS
<1>7. \A i \in DOMAIN P : FitStep(f, P[i])
  BY <1>2, <1>3, <1>5, <1>6 DEF Plain
<1>8. f.kind \notin TheForms!Believers
  BY DEF TheForms!Believers
<1>9. Decides(f, P[2]) /\ ~MayGoOn(P[1]) /\ ~MayGoOn(P[2]) /\ 2 \in DOMAIN P
  BY <1>2, <1>3, <1>5, <1>8 DEF Closing, Ends, Decides
<1>10. Deciding(f, P, DOMAIN P)
  BY <1>5, <1>6, <1>9 DEF Deciding
<1>11. \A e, i : Starts(f, e) /\ i \in DOMAIN P => ~Writes(P[i], e)
  BY <1>2, <1>3, <1>5, <1>6 DEF Starts, Plain, Writes
<1>12. DOMAIN P \subseteq Nat /\ DOMAIN P # {}
  BY <1>5
<1>13. Listed(f, P)
  BY <1>7, <1>10, <1>11, <1>12 DEF Listed
<1> QED BY <1>4, <1>13

\* serveApplyNetPort: the two groups are read, copied and read back together.
LEMMA NetPortListed ==
  ASSUME NEW f, f.kind = "netport", f.doc \in {"stream ports", "web ports"}
  PROVE  Listed(f, TheForms!serveApplyNetPort)
<1> DEFINE both == {"stream ports", "web ports"}
           a == TheForms!Step("read", both, "refused", "none", "leaf")
           b == TheForms!Step("before", both, "refused", "refused", "leaf")
           c == TheForms!Write("stream ports", "refused", "refused")
           d == TheForms!Write("web ports", "refused", "refused")
           e == TheForms!Step("after", both, "refused", "refused", "leaf")
           P == <<a, b, c, d, e>>
<1>1. {"refused", "none"} \subseteq EndWords /\ both \subseteq TheForms!Docs
  BY DEF EndWords, Words, TheForms!Docs
<1>2. /\ FitStep(f, c) /\ Ends(f, c) /\ (\A m : Writes(c, m) => m = "stream ports")
      /\ FitStep(f, d) /\ Ends(f, d) /\ (\A m : Writes(d, m) => m = "web ports")
  BY <1>1, WriteStep
<1>3. TheForms!serveApplyNetPort = P
  BY DEF TheForms!serveApplyNetPort
<1>4. DOMAIN P = 1..5 /\ P[1] = a /\ P[2] = b /\ P[3] = c /\ P[4] = d /\ P[5] = e
  BY ONLY 5 \in Nat
<1>m. f.doc \in both /\ f.kind = "netport"
  OBVIOUS
<1>5. \A w \in {"refused", "none"} : Says(w) /\ ~GoesOn(w) /\ ~Confirms(w)
  BY <1>1, EndWord
<1>6. /\ a.do = "read" /\ a.compare = "leaf" /\ b.do = "before" /\ b.compare = "leaf"
      /\ e.do = "after" /\ e.on = both /\ e.compare = "leaf"
  BY DEF TheForms!Step
<1>7. /\ a.fails = "refused" /\ a.refuses = "none" /\ b.fails = "refused" /\ b.refuses = "refused"
      /\ e.fails = "refused" /\ e.refuses = "refused"
  BY DEF TheForms!Step
<1> HIDE DEF a, b, c, d, e, P
<1>8. /\ Says(a.fails) /\ Says(a.refuses) /\ ~MayGoOn(a) /\ ~Confirms(a.fails) /\ ~Confirms(a.refuses)
      /\ Says(b.fails) /\ Says(b.refuses) /\ ~MayGoOn(b) /\ ~Confirms(b.fails) /\ ~Confirms(b.refuses)
      /\ Says(e.fails) /\ Says(e.refuses) /\ ~MayGoOn(e) /\ ~Confirms(e.fails) /\ ~Confirms(e.refuses)
  BY <1>5, <1>7 DEF MayGoOn
<1>9. FitStep(f, a) /\ FitStep(f, b) /\ FitStep(f, e)
  BY <1>6, <1>8 DEF FitStep
<1>10. \A i \in 1..5 : i = 1 \/ i = 2 \/ i = 3 \/ i = 4 \/ i = 5
  BY ONLY 5 \in Nat
<1>11. \A i \in DOMAIN P : FitStep(f, P[i])
  BY <1>2, <1>4, <1>9, <1>10
<1>12. f.kind \notin TheForms!Believers
  BY DEF TheForms!Believers
<1>13. \A i \in DOMAIN P : ~MayGoOn(P[i])
  BY <1>2, <1>4, <1>8, <1>10, <1>12 DEF Ends
<1>14. Decides(f, P[5]) /\ 5 \in DOMAIN P
  <2>1. f.kind # "undo" /\ f.kind # "sync"
    BY <1>m
  <2>2. e.compare # "clock"
    BY <1>6
  <2> HIDE DEF both
  <2>3. Decides(f, e)
    BY <1>6, <1>8, <1>m, <2>1, <2>2, Zenon DEF Decides
  <2>4. P[5] = e /\ 5 \in DOMAIN P
    BY ONLY <1>4
  <2> QED BY <2>3, <2>4, Zenon
<1>15. Deciding(f, P, DOMAIN P)
  BY <1>13, <1>14 DEF Deciding
<1>16. \A m, i : Starts(f, m) /\ i \in DOMAIN P => ~Writes(P[i], m)
  BY <1>2, <1>4, <1>6, <1>10, ZenonT(40) DEF Starts, Writes
<1>17. DOMAIN P \subseteq Nat /\ DOMAIN P # {}
  BY ONLY <1>4
<1>18. Listed(f, P)
  BY <1>11, <1>15, <1>16, <1>17 DEF Listed
<1> QED BY <1>3, <1>18

\* Two steps, three and two more are seven.
LEMMA SevenSteps ==
  ASSUME NEW a, NEW b, NEW c, NEW d, NEW e, NEW g, NEW k, NEW P, P = (<<a, b>> \o <<c, d, e>>) \o <<g, k>>
  PROVE  /\ DOMAIN P = 1..7 /\ P[1] = a /\ P[2] = b /\ P[3] = c /\ P[4] = d /\ P[5] = e /\ P[6] = g /\ P[7] = k
<1> DEFINE S == {a, b, c, d, e, g, k}
<1>1. /\ <<a, b>> \in Seq(S) /\ Len(<<a, b>>) = 2 /\ <<c, d, e>> \in Seq(S) /\ Len(<<c, d, e>>) = 3
      /\ <<g, k>> \in Seq(S) /\ Len(<<g, k>>) = 2
  OBVIOUS
<1> HIDE DEF S
<1>2. PICK u : u = <<a, b>> \o <<c, d, e>>
  OBVIOUS
<1>3. /\ u \in Seq(S) /\ Len(u) = 2 + 3 /\ (\A i \in 1..2 : u[i] = <<a, b>>[i])
      /\ \A i \in 1..3 : u[2 + i] = <<c, d, e>>[i]
  BY <1>1, <1>2, Joined
<1>4. u[1] = a /\ u[2] = b /\ u[3] = c /\ u[4] = d /\ u[5] = e
  <2>1. 1 \in 1..2 /\ 2 \in 1..2 /\ 1 \in 1..3 /\ 2 \in 1..3 /\ 3 \in 1..3 /\ 2 + 1 = 3 /\ 2 + 2 = 4 /\ 2 + 3 = 5
    OBVIOUS
  <2>2. <<a, b>>[1] = a /\ <<a, b>>[2] = b /\ <<c, d, e>>[1] = c /\ <<c, d, e>>[2] = d /\ <<c, d, e>>[3] = e
    OBVIOUS
  <2> QED BY <1>3, <2>1, <2>2
<1>5. /\ DOMAIN P = 1 .. 5 + 2 /\ (\A i \in 1..5 : P[i] = u[i]) /\ \A i \in 1..2 : P[5 + i] = <<g, k>>[i]
  BY <1>1, <1>2, <1>3, Joined
<1>6. /\ 1 \in 1..5 /\ 2 \in 1..5 /\ 3 \in 1..5 /\ 4 \in 1..5 /\ 5 \in 1..5 /\ 1 \in 1..2 /\ 2 \in 1..2
      /\ 5 + 1 = 6 /\ 5 + 2 = 7 /\ <<g, k>>[1] = g /\ <<g, k>>[2] = k
  OBVIOUS
<1> QED BY <1>4, <1>5, <1>6

\* serveZone: what fails of the detection areas of the other kind of event, it says
\* "partly" of.
LEMMA ZoneListed ==
  ASSUME NEW f, f.kind = "zone", f.doc = "md"
  PROVE  Listed(f, TheForms!serveZone)
<1> DEFINE a == TheForms!Read("md", "error", "refused")
           b == TheForms!Read("ai", "skip", "skip")
           c == TheForms!Before("md", "error")
           d == TheForms!Write("md", "error", "refused")
           e == TheForms!After("md", "accepted", "accepted", "whole")
           g == TheForms!Write("ai", "partly", "partly")
           k == TheForms!After("ai", "partly", "partly", "leaf")
           P == (<<a, b>> \o <<c, d, e>>) \o <<g, k>>
<1>1. {"refused", "error", "accepted", "partly"} \subseteq EndWords /\ "md" \in TheForms!Docs /\ "ai" \in TheForms!Docs
  BY DEF EndWords, Words, TheForms!Docs
<1>2. /\ FitStep(f, d) /\ Ends(f, d) /\ (\A m : Writes(d, m) => m = "md")
      /\ FitStep(f, g) /\ Ends(f, g) /\ (\A m : Writes(g, m) => m = "ai")
  BY <1>1, WriteStep
<1>3. Plain(f, a) /\ Ends(f, a) /\ Plain(f, c) /\ Ends(f, c) /\ Plain(f, k) /\ Ends(f, k)
  BY <1>1, ReadStep, BeforeStep, AfterStep
<1>4. Plain(f, e) /\ Ends(f, e) /\ Closing(f, e)
  BY <1>1, AfterStep
<1>5. b.do = "read" /\ b.on = {"ai"} /\ b.compare = "leaf" /\ b.fails = "skip" /\ b.refuses = "skip"
  BY DEF TheForms!Read, TheForms!Step
<1>6. Plain(f, b)
  <2>1. Says(b.fails) /\ Says(b.refuses) /\ ~Confirms(b.fails) /\ ~Confirms(b.refuses)
    BY <1>5 DEF Says, Confirms
  <2> HIDE DEF b
  <2> QED BY <1>5, <2>1 DEF Plain, FitStep
<1>7. e.on = {"md"}
  BY DEF TheForms!After, TheForms!Step
<1>8. TheForms!serveZone = P
  BY DEF TheForms!serveZone, TheForms!writeBlockWith
<1>9. /\ DOMAIN P = 1..7 /\ P[1] = a /\ P[2] = b /\ P[3] = c /\ P[4] = d /\ P[5] = e /\ P[6] = g /\ P[7] = k
  BY SevenSteps
<1> HIDE DEF a, b, c, d, e, g, k, P
<1>10. \A i \in 1..7 : i = 1 \/ i = 2 \/ i = 3 \/ i = 4 \/ i = 5 \/ i = 6 \/ i = 7
  BY ONLY 7 \in Nat
<1>11. \A i \in DOMAIN P : FitStep(f, P[i])
  BY <1>2, <1>3, <1>4, <1>6, <1>9, <1>10 DEF Plain
<1>12. f.kind \notin TheForms!Believers
  BY DEF TheForms!Believers
<1>13. \A i \in DOMAIN P : MayGoOn(P[i]) => P[i].on = {"ai"}
  BY <1>2, <1>3, <1>4, <1>5, <1>9, <1>10, <1>12 DEF Ends
<1>14. Decides(f, P[5]) /\ 5 \in DOMAIN P /\ P[5].on = {"md"}
  BY <1>4, <1>7, <1>9, <1>12 DEF Closing
<1>15. Deciding(f, P, DOMAIN P)
  <2>1. {"ai"} \cap {"md"} = {}
    OBVIOUS
  <2> QED BY <1>13, <1>14, <2>1 DEF Deciding
<1>16. \A m, i : Starts(f, m) /\ i \in DOMAIN P => ~Writes(P[i], m)
  BY <1>2, <1>3, <1>4, <1>6, <1>9, <1>10 DEF Starts, Plain, Writes
<1>17. DOMAIN P \subseteq Nat /\ DOMAIN P # {}
  BY ONLY <1>9
<1>18. Listed(f, P)
  BY <1>11, <1>15, <1>16, <1>17 DEF Listed
<1> QED BY <1>8, <1>18

\* Any step of a list is about one document.
LEMMA StepsAbout ==
  ASSUME NEW f, f.kind \in TheForms!Believers, NEW d \in TheForms!Docs,
         NEW fails \in AnyWords, NEW refuses \in AnyWords
  PROVE  /\ FitStep(f, TheForms!Read(d, fails, refuses)) /\ TheForms!Read(d, fails, refuses).on = {d}
         /\ FitStep(f, TheForms!Before(d, fails)) /\ TheForms!Before(d, fails).on = {d}
         /\ FitStep(f, TheForms!Write(d, fails, refuses)) /\ TheForms!Write(d, fails, refuses).on = {d}
         /\ FitStep(f, TheForms!After(d, fails, refuses, "leaf")) /\ TheForms!After(d, fails, refuses, "leaf").on = {d}
<1>1. ASSUME NEW do, NEW x \in AnyWords, NEW y \in AnyWords, NEW s, s = TheForms!Step(do, {d}, x, y, "leaf")
      PROVE  FitStep(f, s) /\ s.on = {d}
  <2>1. s.on = {d} /\ s.compare = "leaf"
    BY <1>1 DEF TheForms!Step
  <2>2. s.fails = x /\ s.refuses = y
    BY <1>1 DEF TheForms!Step
  <2> QED BY <1>1, <2>1, <2>2, AnyStep
<1>2. FitStep(f, TheForms!Read(d, fails, refuses)) /\ TheForms!Read(d, fails, refuses).on = {d}
  BY <1>1 DEF TheForms!Read
<1>3. FitStep(f, TheForms!Before(d, fails)) /\ TheForms!Before(d, fails).on = {d}
  BY <1>1 DEF TheForms!Before
<1>4. FitStep(f, TheForms!Write(d, fails, refuses)) /\ TheForms!Write(d, fails, refuses).on = {d}
  BY <1>1 DEF TheForms!Write
<1>5. FitStep(f, TheForms!After(d, fails, refuses, "leaf")) /\ TheForms!After(d, fails, refuses, "leaf").on = {d}
  BY <1>1 DEF TheForms!After
<1> QED BY <1>2, <1>3, <1>4, <1>5

\* serveApplySiren and copyGroupTo: four steps, none about a document with a clock.
LEMMA SirenListed ==
  ASSUME NEW f, f.kind = "siren" \/ f.kind = "copy"
  PROVE  Listed(f, TheForms!serveApplySiren) /\ Listed(f, TheForms!copyGroupTo("osd"))
<1>1. ASSUME NEW a, NEW b, NEW c, NEW d, NEW x, NEW y, x \notin {"general", "time"}, y \notin {"general", "time"},
             FitStep(f, a) /\ FitStep(f, b) /\ FitStep(f, c) /\ FitStep(f, d),
             a.on = {x} /\ b.on = {x} /\ c.on = {y} /\ d.on = {y}
      PROVE  Listed(f, <<a, b, c, d>>)
  <2> DEFINE P == <<a, b, c, d>>
  <2>1. DOMAIN P = 1..4 /\ P[1] = a /\ P[2] = b /\ P[3] = c /\ P[4] = d
    OBVIOUS
  <2> HIDE DEF P
  <2>2. {x} # {"general"} /\ {x} # {"time"} /\ {y} # {"general"} /\ {y} # {"time"}
    BY <1>1
  <2>3. \A i \in 1..4 : i = 1 \/ i = 2 \/ i = 3 \/ i = 4
    OBVIOUS
  <2>4. \A i \in 1..4 : FitStep(f, P[i]) /\ P[i].on # {"general"} /\ P[i].on # {"time"}
    BY <1>1, <2>1, <2>2, <2>3
  <2>5. f.kind \in TheForms!Believers
    BY DEF TheForms!Believers
  <2>6. Listed(f, P)
    BY ONLY <2>1, <2>4, <2>5, ClocklessListed, 4 \in Nat, 4 > 0
  <2> QED BY <2>6 DEF P
<1>2. {"refused", "none", "skip leaf", "confirmed"} \subseteq AnyWords
  BY DEF Words, AnyWords
<1>3. f.kind \in TheForms!Believers /\ {"volume", "alarm", "osd"} \subseteq TheForms!Docs
  BY DEF TheForms!Believers, TheForms!Docs
<1>4. Listed(f, TheForms!serveApplySiren)
  <2> DEFINE a == TheForms!Read("volume", "refused", "none")
             b == TheForms!Write("volume", "refused", "refused")
             c == TheForms!Read("alarm", "refused", "none")
             d == TheForms!Write("alarm", "refused", "refused")
  <2>1. /\ FitStep(f, a) /\ FitStep(f, b) /\ FitStep(f, c) /\ FitStep(f, d)
        /\ a.on = {"volume"} /\ b.on = {"volume"} /\ c.on = {"alarm"} /\ d.on = {"alarm"}
    <3>1. {"refused", "none"} \subseteq AnyWords /\ {"volume", "alarm"} \subseteq TheForms!Docs
      BY <1>2, <1>3
    <3>2. FitStep(f, a) /\ a.on = {"volume"} /\ FitStep(f, c) /\ c.on = {"alarm"}
      BY ONLY <1>3, <3>1, StepsAbout, ZenonT(40)
    <3>3. FitStep(f, b) /\ b.on = {"volume"} /\ FitStep(f, d) /\ d.on = {"alarm"}
      BY ONLY <1>3, <3>1, StepsAbout, ZenonT(40)
    <3> QED BY <3>2, <3>3
  <2>2. TheForms!serveApplySiren = <<a, b, c, d>>
    BY DEF TheForms!serveApplySiren
  <2> HIDE DEF a, b, c, d
  <2>3. Listed(f, <<a, b, c, d>>)
    BY <1>1, <2>1
  <2> QED BY <2>2, <2>3
<1>5. Listed(f, TheForms!copyGroupTo("osd"))
  <2> DEFINE a == TheForms!Read("osd", "refused", "skip leaf")
             b == TheForms!Before("osd", "refused")
             c == TheForms!Write("osd", "refused", "refused")
             d == TheForms!After("osd", "confirmed", "confirmed", "leaf")
  <2>1. /\ FitStep(f, a) /\ FitStep(f, b) /\ FitStep(f, c) /\ FitStep(f, d)
        /\ a.on = {"osd"} /\ b.on = {"osd"} /\ c.on = {"osd"} /\ d.on = {"osd"}
    <3>1. {"refused", "skip leaf", "confirmed"} \subseteq AnyWords /\ "osd" \in TheForms!Docs
      BY <1>2, <1>3
    <3>2. FitStep(f, a) /\ a.on = {"osd"}
      BY ONLY <1>3, <3>1, StepsAbout, ZenonT(40)
    <3>3. FitStep(f, b) /\ b.on = {"osd"}
      BY ONLY <1>3, <3>1, StepsAbout, ZenonT(40)
    <3>4. FitStep(f, c) /\ c.on = {"osd"}
      BY ONLY <1>3, <3>1, StepsAbout, ZenonT(40)
    <3>5. FitStep(f, d) /\ d.on = {"osd"}
      BY ONLY <1>3, <3>1, StepsAbout, ZenonT(40)
    <3> QED BY <3>2, <3>3, <3>4, <3>5
  <2>2. TheForms!copyGroupTo("osd") = <<a, b, c, d>>
    BY DEF TheForms!copyGroupTo
  <2> HIDE DEF a, b, c, d
  <2>3. Listed(f, <<a, b, c, d>>)
    BY <1>1, <2>1
  <2> QED BY <2>2, <2>3
<1> QED BY <1>4, <1>5

\* serveSound and serveApplyEncoding(FALSE): a document is read and written.
LEMMA SoundListed ==
  ASSUME NEW f, f.kind = "sound" \/ f.kind = "encoding"
  PROVE  Listed(f, TheForms!serveSound) /\ Listed(f, TheForms!serveApplyEncoding(FALSE))
<1>1. ASSUME NEW a, NEW b, NEW x, x \notin {"general", "time"}, FitStep(f, a) /\ FitStep(f, b), a.on = {x} /\ b.on = {x}
      PROVE  Listed(f, <<a, b>>)
  <2> DEFINE P == <<a, b>>
  <2>1. DOMAIN P = 1..2 /\ P[1] = a /\ P[2] = b
    OBVIOUS
  <2> HIDE DEF P
  <2>2. {x} # {"general"} /\ {x} # {"time"}
    BY <1>1
  <2>3. \A i \in 1..2 : i = 1 \/ i = 2
    OBVIOUS
  <2>4. \A i \in 1..2 : FitStep(f, P[i]) /\ P[i].on # {"general"} /\ P[i].on # {"time"}
    BY <1>1, <2>1, <2>2, <2>3
  <2>5. f.kind \in TheForms!Believers
    BY DEF TheForms!Believers
  <2>6. Listed(f, P)
    BY ONLY <2>1, <2>4, <2>5, ClocklessListed, 2 \in Nat, 2 > 0
  <2> QED BY <2>6 DEF P
<1>2. {"refused", "none", "skip"} \subseteq AnyWords
  BY DEF Words, AnyWords
<1>3. f.kind \in TheForms!Believers /\ {"audio", "enc"} \subseteq TheForms!Docs
  BY DEF TheForms!Believers, TheForms!Docs
<1>4. Listed(f, TheForms!serveSound)
  <2> DEFINE a == TheForms!Read("audio", "skip", "skip")
             b == TheForms!Write("audio", "skip", "skip")
  <2>1. FitStep(f, a) /\ FitStep(f, b) /\ a.on = {"audio"} /\ b.on = {"audio"}
    BY ONLY <1>2, <1>3, StepsAbout
  <2>2. TheForms!serveSound = <<a, b>>
    BY DEF TheForms!serveSound
  <2> HIDE DEF a, b
  <2>3. Listed(f, <<a, b>>)
    BY <1>1, <2>1
  <2> QED BY <2>2, <2>3
<1>5. Listed(f, TheForms!serveApplyEncoding(FALSE))
  <2> DEFINE a == TheForms!Read("enc", "refused", "none")
             b == TheForms!Write("enc", "refused", "refused")
  <2>1. FitStep(f, a) /\ FitStep(f, b) /\ a.on = {"enc"} /\ b.on = {"enc"}
    BY ONLY <1>2, <1>3, StepsAbout
  <2>2. TheForms!serveApplyEncoding(FALSE) = <<a, b>> \o <<>>
    BY DEF TheForms!serveApplyEncoding
  <2> HIDE DEF a, b
  <2>3. <<a, b>> \in Seq({a, b})
    OBVIOUS
  <2>4. <<a, b>> \o <<>> = <<a, b>>
    BY <2>3, ConcatEmptySeq
  <2>5. Listed(f, <<a, b>>)
    BY <1>1, <2>1
  <2> QED BY <2>2, <2>4, <2>5
<1> QED BY <1>4, <1>5

\* serveApplyEncoding(TRUE).
LEMMA AudioListed ==
  ASSUME NEW f, f.kind = "camera audio", f.doc = "enc"
  PROVE  Listed(f, TheForms!serveApplyEncoding(TRUE))
<1> DEFINE a == TheForms!Read(f.doc, "refused", "none")
           b == TheForms!Write(f.doc, "refused", "refused")
           c == TheForms!After(f.doc, "refused", "refused", "leaf")
<1>1. {"refused", "none"} \subseteq EndWords /\ f.doc \in TheForms!Docs
  BY DEF EndWords, Words, TheForms!Docs
<1>2. Listed(f, <<a, b, c>>)
  BY <1>1, ThreeListed
<1>3. TheForms!serveApplyEncoding(TRUE) = <<a, b>> \o <<c>>
  BY DEF TheForms!serveApplyEncoding
<1> QED BY <1>2, <1>3, TwoAndOne

\* A list of eight as two of four.
LEMMA EightSteps ==
  ASSUME NEW a, NEW b, NEW c, NEW d, NEW e, NEW g, NEW k, NEW l, NEW P, P = <<a, b, c, d>> \o <<e, g, k, l>>
  PROVE  /\ DOMAIN P = 1..8 /\ P[1] = a /\ P[2] = b /\ P[3] = c /\ P[4] = d
         /\ P[5] = e /\ P[6] = g /\ P[7] = k /\ P[8] = l
<1> DEFINE S == {a, b, c, d, e, g, k, l}
<1>1. /\ <<a, b, c, d>> \in Seq(S) /\ Len(<<a, b, c, d>>) = 4
      /\ <<e, g, k, l>> \in Seq(S) /\ Len(<<e, g, k, l>>) = 4
  OBVIOUS
<1> HIDE DEF S
<1>2. /\ DOMAIN P = 1 .. 4 + 4 /\ (\A i \in 1..4 : P[i] = <<a, b, c, d>>[i])
      /\ \A i \in 1..4 : P[4 + i] = <<e, g, k, l>>[i]
  BY <1>1, Joined
<1>3. /\ 1 \in 1..4 /\ 2 \in 1..4 /\ 3 \in 1..4 /\ 4 \in 1..4 /\ 4 + 1 = 5 /\ 4 + 2 = 6 /\ 4 + 3 = 7 /\ 4 + 4 = 8
  OBVIOUS
<1>4. /\ <<a, b, c, d>>[1] = a /\ <<a, b, c, d>>[2] = b /\ <<a, b, c, d>>[3] = c /\ <<a, b, c, d>>[4] = d
      /\ <<e, g, k, l>>[1] = e /\ <<e, g, k, l>>[2] = g /\ <<e, g, k, l>>[3] = k /\ <<e, g, k, l>>[4] = l
  OBVIOUS
<1>5. P[1] = a /\ P[2] = b /\ P[3] = c /\ P[4] = d
  BY <1>2, <1>3, <1>4
<1>6. P[5] = e /\ P[6] = g /\ P[7] = k /\ P[8] = l
  BY <1>2, <1>3, <1>4
<1> QED BY <1>2, <1>5, <1>6

\* serveRename: one document, and the other whatever became of the first.
LEMMA RenameListed ==
  ASSUME NEW f, f.kind = "rename"
  PROVE  Listed(f, TheForms!serveRename)
<1> DEFINE R(d) == TheForms!Read(d, "noted", "noted")
           B(d) == TheForms!Before(d, "noted")
           W(d) == TheForms!Write(d, "noted", "noted")
           A(d) == TheForms!After(d, "skip", "skip", "whole")
           Four(d) == <<R(d), B(d), W(d), A(d)>>
           g == "general"
           o == "osd"
<1>1. \A d \in {g, o} :
        /\ FitStep(f, R(d)) /\ FitStep(f, B(d)) /\ FitStep(f, W(d)) /\ FitStep(f, A(d))
        /\ R(d).on = {d} /\ R(d).do = "read" /\ B(d).on = {d} /\ B(d).do = "before"
        /\ W(d).on = {d} /\ W(d).do = "write" /\ A(d).on = {d} /\ A(d).do = "after"
  <2>1. {"noted", "skip"} \subseteq AnyWords /\ {g, o} \subseteq TheForms!Docs /\ f.kind \in TheForms!Believers
    BY DEF AnyWords, Words, TheForms!Docs, TheForms!Believers
  <2>2. \A d \in {g, o} : FitStep(f, R(d)) /\ FitStep(f, B(d)) /\ FitStep(f, W(d))
    BY <2>1, StepsAbout
  <2>3. \A d \in {g, o} : /\ R(d).on = {d} /\ R(d).do = "read" /\ B(d).on = {d} /\ B(d).do = "before"
                          /\ W(d).on = {d} /\ W(d).do = "write" /\ A(d).on = {d} /\ A(d).do = "after"
    BY DEF TheForms!Read, TheForms!Before, TheForms!Write, TheForms!After, TheForms!Step
  <2>4. \A d \in {g, o} : FitStep(f, A(d))
    <3>1. \A d : A(d) = [do |-> "after", on |-> {d}, fails |-> "skip", refuses |-> "skip", compare |-> "whole"]
      BY DEF TheForms!After, TheForms!Step
    <3>2. \A d : A(d).fails = "skip" /\ A(d).refuses = "skip" /\ A(d).compare = "whole" /\ A(d).do = "after"
      BY <3>1
    <3> HIDE DEF A
    <3>3. \A d : Says(A(d).fails) /\ Says(A(d).refuses) /\ ~Confirms(A(d).fails) /\ ~Confirms(A(d).refuses)
      BY <3>2 DEF Says, Confirms
    <3> QED BY <3>2, <3>3 DEF FitStep
  <2> QED BY <2>2, <2>3, <2>4
<1> DEFINE P == <<R(g), B(g), W(g), A(g)>> \o <<R(o), B(o), W(o), A(o)>>
<1>2. TheForms!serveRename = P
  BY DEF TheForms!serveRename, TheForms!setCameraText
<1> HIDE DEF R, B, W, A
<1>7. /\ DOMAIN P = 1..8 /\ P[1] = R(g) /\ P[2] = B(g) /\ P[3] = W(g) /\ P[4] = A(g)
      /\ P[5] = R(o) /\ P[6] = B(o) /\ P[7] = W(o) /\ P[8] = A(o)
  BY EightSteps
<1>6. \A i \in 1..8 : i = 1 \/ i = 2 \/ i = 3 \/ i = 4 \/ i = 5 \/ i = 6 \/ i = 7 \/ i = 8
  BY ONLY 8 \in Nat
<1> HIDE DEF P
<1>8. \A i \in DOMAIN P : FitStep(f, P[i])
  BY <1>1, <1>6, <1>7
<1>9. ASSUME NEW e, Starts(f, e), NEW i \in DOMAIN P, Writes(P[i], e) PROVE \E j \in DOMAIN P : j < i /\ Reads(P[j], e)
  <2>1. i = 3 /\ e = g
    BY <1>1, <1>6, <1>7, <1>9 DEF Writes, Starts
  <2>2. Reads(P[2], g)
    BY <1>1, <1>7 DEF Reads, Reader
  <2>3. 2 \in DOMAIN P /\ 2 < i
    BY <1>7, <2>1
  <2> QED BY <2>1, <2>2, <2>3
<1>10. f.kind \in TheForms!Believers /\ DOMAIN P \subseteq Nat /\ DOMAIN P # {}
  BY <1>7 DEF TheForms!Believers
<1>11. Listed(f, P)
  BY <1>8, <1>9, <1>10 DEF Listed
<1> QED BY <1>2, <1>11

\* A form of these kinds about these documents.
About(f, kinds, docs) == f.kind \in kinds /\ f.doc \in docs

\* The forms: what each is about.
LEMMA FormsAre ==
  ASSUME NEW f \in TheForms!Forms
  PROVE  /\ DOMAIN f = {"kind", "doc", "leaves"}
         /\ \/ About(f, {"setting"}, {"general", "osd"})
            \/ About(f, {"raw"}, {"general", "osd"})
            \/ About(f, {"undo"}, {"general", "osd"})
            \/ About(f, {"copy"}, {"osd"})
            \/ About(f, {"schedule", "sound"}, {"audio"})
            \/ About(f, {"timezone"}, {"time"})
            \/ About(f, {"sync"}, {"time"})
            \/ About(f, {"zone"}, {"md"})
            \/ About(f, {"mask"}, {"mask"})
            \/ About(f, {"siren"}, {"alarm"})
            \/ About(f, {"netport"}, {"stream ports", "web ports"})
            \/ About(f, {"rule"}, {"rules"})
            \/ About(f, {"rename"}, {"osd"})
            \/ About(f, {"range", "tracking"}, {"track"})
            \/ About(f, {"privacy"}, {"sleep"})
            \/ About(f, {"light"}, {"led"})
            \/ About(f, {"ntp"}, {"ntp"})
            \/ About(f, {"encoding", "camera audio"}, {"enc"})
         /\ f.kind \notin TheForms!Believers => f.leaves \subseteq Leaves
<1>1. ASSUME NEW K, NEW D, NEW L, NEW g \in [kind : K, doc : D, leaves : L]
      PROVE  DOMAIN g = {"kind", "doc", "leaves"} /\ g.kind \in K /\ g.doc \in D /\ g.leaves \in L
  BY <1>1
<1>2. TheForms!Form("rename", "osd", {CHOOSE l \in Leaves : TRUE})
        \in [kind : {"rename"}, doc : {"osd"}, leaves : {{CHOOSE l \in Leaves : TRUE}}]
  BY DEF TheForms!Form
<1> DEFINE In(K, D, L) == f \in [kind : K, doc : D, leaves : L]
           One == TheForms!One
<1>3. \/ In({"setting"}, {"general", "osd"}, TheForms!Some)
      \/ In({"raw"}, {"general", "osd"}, One)
      \/ In({"undo"}, {"general", "osd"}, {Leaves})
      \/ In({"copy"}, {"osd"}, {Leaves})
      \/ In({"schedule", "sound"}, {"audio"}, One)
      \/ In({"timezone"}, {"time"}, One)
      \/ In({"sync"}, {"time"}, {{}})
      \/ In({"zone"}, {"md"}, One)
      \/ In({"mask"}, {"mask"}, {Leaves})
      \/ In({"siren"}, {"alarm"}, One)
      \/ In({"netport"}, {"stream ports", "web ports"}, One)
      \/ In({"rule"}, {"rules"}, {{}})
      \/ In({"rename"}, {"osd"}, {{CHOOSE l \in Leaves : TRUE}})
      \/ In({"range", "tracking"}, {"track"}, One)
      \/ In({"privacy"}, {"sleep"}, One)
      \/ In({"light"}, {"led"}, One)
      \/ In({"ntp"}, {"ntp"}, One)
      \/ In({"encoding", "camera audio"}, {"enc"}, One)
  BY <1>2, Zenon DEF TheForms!Forms
<1>4. \A K, D, L : In(K, D, L) => DOMAIN f = {"kind", "doc", "leaves"} /\ About(f, K, D) /\ f.leaves \in L
  BY <1>1 DEF About
<1> HIDE DEF In
<1>5. DOMAIN f = {"kind", "doc", "leaves"}
  BY <1>3, <1>4, Zenon
<1>6. \/ About(f, {"setting"}, {"general", "osd"})
      \/ About(f, {"raw"}, {"general", "osd"})
      \/ About(f, {"undo"}, {"general", "osd"})
      \/ About(f, {"copy"}, {"osd"})
      \/ About(f, {"schedule", "sound"}, {"audio"})
      \/ About(f, {"timezone"}, {"time"})
      \/ About(f, {"sync"}, {"time"})
      \/ About(f, {"zone"}, {"md"})
      \/ About(f, {"mask"}, {"mask"})
      \/ About(f, {"siren"}, {"alarm"})
      \/ About(f, {"netport"}, {"stream ports", "web ports"})
      \/ About(f, {"rule"}, {"rules"})
      \/ About(f, {"rename"}, {"osd"})
      \/ About(f, {"range", "tracking"}, {"track"})
      \/ About(f, {"privacy"}, {"sleep"})
      \/ About(f, {"light"}, {"led"})
      \/ About(f, {"ntp"}, {"ntp"})
      \/ About(f, {"encoding", "camera audio"}, {"enc"})
  BY <1>3, <1>4
<1>7. About(f, {"rename"}, {"osd"}) \/ f.leaves \subseteq Leaves
  <2>1. \A L \in {TheForms!Some, One, {Leaves}, {{}}} : \A l \in L : l \subseteq Leaves
    BY DEF TheForms!Some, TheForms!One
  <2> HIDE DEF One
  <2>2. \A K, D : /\ In(K, D, TheForms!Some) => f.leaves \subseteq Leaves
                  /\ In(K, D, One) => f.leaves \subseteq Leaves
                  /\ In(K, D, {Leaves}) => f.leaves \subseteq Leaves
                  /\ In(K, D, {{}}) => f.leaves \subseteq Leaves
                  /\ In(K, D, {{CHOOSE l \in Leaves : TRUE}}) => About(f, K, D)
    BY <1>4, <2>1 DEF One
  <2> QED BY ONLY <1>3, <2>2
<1>8. f.kind \notin TheForms!Believers => f.leaves \subseteq Leaves
  BY <1>7 DEF TheForms!Believers, About
<1> QED BY ONLY <1>5, <1>6, <1>8

\* Every form begins with a list that is fit.
LEMMA ProgramListed ==
  ASSUME NEW f \in TheForms!Forms
  PROVE  Listed(f, TheForms!Program(f))
<1>1. {"refused", "error", "accepted", "none"} \subseteq EndWords
  BY DEF EndWords, Words
<1>2. {"general", "osd", "audio", "time", "mask", "rules", "track", "led", "ntp", "md", "enc"} \subseteq TheForms!Docs
  BY DEF TheForms!Docs
<1>3. CASE About(f, {"setting"}, {"general", "osd"})
  <2>0. f.kind = "setting" /\ f.doc \in {"general", "osd"}
    BY <1>3 DEF About
  <2>1. TheForms!Program(f) = <<TheForms!Read(f.doc, "error", "refused")>> \o TheForms!writeBlockWith(f.doc, "error", "refused", "leaf")
    BY <2>0 DEF TheForms!Program, TheForms!serveApplySetting
  <2> QED BY <1>1, <1>2, <2>0, <2>1, FourListed
<1>4. CASE About(f, {"raw"}, {"general", "osd"})
  <2>0. f.kind = "raw" /\ f.doc \in {"general", "osd"}
    BY <1>4 DEF About
  <2>1. TheForms!Program(f) = <<TheForms!Read(f.doc, "refused", "refused")>> \o TheForms!writeBlockWith(f.doc, "refused", "accepted", "whole")
    BY <2>0 DEF TheForms!Program, TheForms!serveApplyRawValue
  <2> QED BY <1>1, <1>2, <2>0, <2>1, FourListed
<1>5. CASE About(f, {"undo"}, {"general", "osd"})
  <2>0. f.kind = "undo" /\ f.doc \in {"general", "osd"}
    BY <1>5 DEF About
  <2>1. TheForms!Program(f) = TheForms!serveWrite(f.doc)
    BY <2>0 DEF TheForms!Program
  <2> QED BY <2>0, <2>1, UndoListed
<1>6. CASE About(f, {"copy"}, {"osd"})
  <2>0. f.kind = "copy" /\ f.doc = "osd"
    BY <1>6 DEF About
  <2>1. TheForms!Program(f) = TheForms!copyGroupTo("osd")
    BY <2>0 DEF TheForms!Program
  <2> QED BY <2>0, <2>1, SirenListed
<1>7. CASE About(f, {"schedule"}, {"audio"})
  <2>0. f.kind = "schedule" /\ f.doc = "audio"
    BY <1>7 DEF About
  <2>1. TheForms!Program(f) = <<TheForms!Read(f.doc, "error", "refused")>> \o TheForms!writeBlockWith(f.doc, "error", "accepted", "whole")
    BY <2>0 DEF TheForms!Program, TheForms!serveSchedule
  <2> QED BY <1>1, <1>2, <2>0, <2>1, FourListed
<1>8. CASE About(f, {"sound"}, {"audio"})
  <2>0. f.kind = "sound" /\ f.doc = "audio"
    BY <1>8 DEF About
  <2>1. TheForms!Program(f) = TheForms!serveSound
    BY <2>0 DEF TheForms!Program
  <2> QED BY <2>0, <2>1, SoundListed
<1>9. CASE About(f, {"timezone"}, {"time"})
  <2>0. f.kind = "timezone" /\ f.doc = "time"
    BY <1>9 DEF About
  <2> DEFINE a == TheForms!Read(f.doc, "error", "none")
             b == TheForms!Write(f.doc, "refused", "refused")
             c == TheForms!After(f.doc, "accepted", "accepted", "leaf")
  <2>1. TheForms!Program(f) = <<a, b, c>>
    BY <2>0 DEF TheForms!Program, TheForms!setTimeZone
  <2>2. f.doc \in TheForms!Docs /\ f.doc # "general" /\ f.kind \notin {"netport", "undo"}
    BY <1>2, <2>0
  <2>3. f.kind = "sync" <=> "leaf" = "clock"
    BY <2>0
  <2>4. Listed(f, <<a, b, c>>)
    BY ONLY <1>1, <2>2, <2>3, ThreeListed
  <2> QED BY <2>1, <2>4
<1>10. CASE About(f, {"sync"}, {"time"})
  <2>0. f.kind = "sync" /\ f.doc = "time"
    BY <1>10 DEF About
  <2> DEFINE a == TheForms!Read(f.doc, "error", "none")
             b == TheForms!Write(f.doc, "refused", "refused")
             c == TheForms!After(f.doc, "accepted", "accepted", "clock")
  <2>1. TheForms!Program(f) = <<a, b, c>>
    BY <2>0 DEF TheForms!Program, TheForms!syncClock
  <2>2. f.doc \in TheForms!Docs /\ f.doc # "general" /\ f.kind \notin {"netport", "undo"}
    BY <1>2, <2>0
  <2>3. f.kind = "sync" <=> "clock" = "clock"
    BY <2>0
  <2>4. Listed(f, <<a, b, c>>)
    BY ONLY <1>1, <2>2, <2>3, ThreeListed
  <2> QED BY <2>1, <2>4
<1>11. CASE About(f, {"zone"}, {"md"})
  <2>0. f.kind = "zone" /\ f.doc = "md"
    BY <1>11 DEF About
  <2>1. TheForms!Program(f) = TheForms!serveZone
    BY <2>0 DEF TheForms!Program
  <2> QED BY <2>0, <2>1, ZoneListed
<1>12. CASE About(f, {"mask"}, {"mask"})
  <2>0. f.kind = "mask" /\ f.doc = "mask"
    BY <1>12 DEF About
  <2>1. TheForms!Program(f) = <<TheForms!Read(f.doc, "error", "none")>> \o TheForms!writeBlockWith(f.doc, "error", "refused", "leaf")
    BY <2>0 DEF TheForms!Program, TheForms!serveMask
  <2> QED BY <1>1, <1>2, <2>0, <2>1, FourListed
<1>13. CASE About(f, {"siren"}, {"alarm"})
  <2>0. f.kind = "siren" /\ f.doc = "alarm"
    BY <1>13 DEF About
  <2>1. TheForms!Program(f) = TheForms!serveApplySiren
    BY <2>0 DEF TheForms!Program
  <2> QED BY <2>0, <2>1, SirenListed
<1>14. CASE About(f, {"netport"}, {"stream ports", "web ports"})
  <2>0. f.kind = "netport" /\ f.doc \in {"stream ports", "web ports"}
    BY <1>14 DEF About
  <2>1. TheForms!Program(f) = TheForms!serveApplyNetPort
    BY <2>0 DEF TheForms!Program
  <2> QED BY <2>0, <2>1, NetPortListed
<1>15. CASE About(f, {"rule"}, {"rules"})
  <2>0. f.kind = "rule" /\ f.doc = "rules"
    BY <1>15 DEF About
  <2> DEFINE a == TheForms!Read(f.doc, "refused", "none")
             b == TheForms!Write(f.doc, "error", "refused")
             c == TheForms!After(f.doc, "refused", "refused", "leaf")
  <2>1. TheForms!Program(f) = <<a, b, c>>
    BY <2>0 DEF TheForms!Program, TheForms!serveRule
  <2>2. f.doc \in TheForms!Docs /\ f.doc # "general" /\ f.kind \notin {"netport", "undo"}
    BY <1>2, <2>0
  <2>3. f.kind = "sync" <=> "leaf" = "clock"
    BY <2>0
  <2>4. Listed(f, <<a, b, c>>)
    BY ONLY <1>1, <2>2, <2>3, ThreeListed
  <2> QED BY <2>1, <2>4
<1>16. CASE About(f, {"rename"}, {"osd"})
  <2>0. f.kind = "rename" /\ f.doc = "osd"
    BY <1>16 DEF About
  <2>1. TheForms!Program(f) = TheForms!serveRename
    BY <2>0 DEF TheForms!Program
  <2> QED BY <2>0, <2>1, RenameListed
<1>17. CASE About(f, {"range"}, {"track"})
  <2>0. f.kind = "range" /\ f.doc = "track"
    BY <1>17 DEF About
  <2>1. TheForms!Program(f) = <<TheForms!Read(f.doc, "refused", "refused")>> \o TheForms!writeBlockWith(f.doc, "error", "accepted", "whole")
    BY <2>0 DEF TheForms!Program, TheForms!serveTrackLimit
  <2> QED BY <1>1, <1>2, <2>0, <2>1, FourListed
<1>18. CASE About(f, {"tracking"}, {"track"})
  <2>0. f.kind = "tracking" /\ f.doc = "track"
    BY <1>18 DEF About
  <2> DEFINE a == TheForms!Read(f.doc, "refused", "refused")
             b == TheForms!Write(f.doc, "refused", "refused")
             c == TheForms!After(f.doc, "refused", "refused", "leaf")
  <2>1. TheForms!Program(f) = <<a, b, c>>
    BY <2>0 DEF TheForms!Program, TheForms!serveApplyAutoTrack
  <2>2. f.doc \in TheForms!Docs /\ f.doc # "general" /\ f.kind \notin {"netport", "undo"}
    BY <1>2, <2>0
  <2>3. f.kind = "sync" <=> "leaf" = "clock"
    BY <2>0
  <2>4. Listed(f, <<a, b, c>>)
    BY ONLY <1>1, <2>2, <2>3, ThreeListed
  <2> QED BY <2>1, <2>4
<1>19. CASE About(f, {"privacy"}, {"sleep"})
  <2>0. f.kind = "privacy" /\ f.doc = "sleep"
    BY <1>19 DEF About
  <2>1. TheForms!Program(f) = TheForms!servePrivacyMode
    BY <2>0 DEF TheForms!Program
  <2> QED BY <2>0, <2>1, PrivacyListed
<1>20. CASE About(f, {"light"}, {"led"})
  <2>0. f.kind = "light" /\ f.doc = "led"
    BY <1>20 DEF About
  <2> DEFINE a == TheForms!Read(f.doc, "refused", "none")
             b == TheForms!Write(f.doc, "refused", "refused")
             c == TheForms!After(f.doc, "accepted", "accepted", "never")
  <2>1. TheForms!Program(f) = <<a, b, c>>
    BY <2>0 DEF TheForms!Program, TheForms!serveApplyFloodlight
  <2>2. f.doc \in TheForms!Docs /\ f.doc # "general" /\ f.kind \notin {"netport", "undo"}
    BY <1>2, <2>0
  <2>3. f.kind = "sync" <=> "never" = "clock"
    BY <2>0
  <2>4. Listed(f, <<a, b, c>>)
    BY ONLY <1>1, <2>2, <2>3, ThreeListed
  <2> QED BY <2>1, <2>4
<1>21. CASE About(f, {"ntp"}, {"ntp"})
  <2>0. f.kind = "ntp" /\ f.doc = "ntp"
    BY <1>21 DEF About
  <2> DEFINE a == TheForms!Read(f.doc, "error", "none")
             b == TheForms!Write(f.doc, "refused", "refused")
             c == TheForms!After(f.doc, "accepted", "accepted", "leaf")
  <2>1. TheForms!Program(f) = <<a, b, c>>
    BY <2>0 DEF TheForms!Program, TheForms!setNTP
  <2>2. f.doc \in TheForms!Docs /\ f.doc # "general" /\ f.kind \notin {"netport", "undo"}
    BY <1>2, <2>0
  <2>3. f.kind = "sync" <=> "leaf" = "clock"
    BY <2>0
  <2>4. Listed(f, <<a, b, c>>)
    BY ONLY <1>1, <2>2, <2>3, ThreeListed
  <2> QED BY <2>1, <2>4
<1>22. CASE About(f, {"encoding"}, {"enc"})
  <2>0. f.kind = "encoding" /\ f.doc = "enc"
    BY <1>22 DEF About
  <2>1. TheForms!Program(f) = TheForms!serveApplyEncoding(FALSE)
    BY <2>0 DEF TheForms!Program
  <2> QED BY <2>0, <2>1, SoundListed
<1>23. CASE About(f, {"camera audio"}, {"enc"})
  <2>0. f.kind = "camera audio" /\ f.doc = "enc"
    BY <1>23 DEF About
  <2>1. TheForms!Program(f) = TheForms!serveApplyEncoding(TRUE)
    BY <2>0 DEF TheForms!Program
  <2> QED BY <2>0, <2>1, AudioListed
<1>24. \/ About(f, {"setting"}, {"general", "osd"})
       \/ About(f, {"raw"}, {"general", "osd"})
       \/ About(f, {"undo"}, {"general", "osd"})
       \/ About(f, {"copy"}, {"osd"})
       \/ About(f, {"schedule", "sound"}, {"audio"})
       \/ About(f, {"timezone"}, {"time"})
       \/ About(f, {"sync"}, {"time"})
       \/ About(f, {"zone"}, {"md"})
       \/ About(f, {"mask"}, {"mask"})
       \/ About(f, {"siren"}, {"alarm"})
       \/ About(f, {"netport"}, {"stream ports", "web ports"})
       \/ About(f, {"rule"}, {"rules"})
       \/ About(f, {"rename"}, {"osd"})
       \/ About(f, {"range", "tracking"}, {"track"})
       \/ About(f, {"privacy"}, {"sleep"})
       \/ About(f, {"light"}, {"led"})
       \/ About(f, {"ntp"}, {"ntp"})
       \/ About(f, {"encoding", "camera audio"}, {"enc"})
  BY FormsAre
<1>25. /\ About(f, {"schedule", "sound"}, {"audio"}) => About(f, {"schedule"}, {"audio"}) \/ About(f, {"sound"}, {"audio"})
       /\ About(f, {"range", "tracking"}, {"track"}) => About(f, {"range"}, {"track"}) \/ About(f, {"tracking"}, {"track"})
       /\ About(f, {"encoding", "camera audio"}, {"enc"})
            => About(f, {"encoding"}, {"enc"}) \/ About(f, {"camera audio"}, {"enc"})
  BY DEF About
<1> QED BY ONLY <1>3, <1>4, <1>5, <1>6, <1>7, <1>8, <1>9, <1>10, <1>11, <1>12, <1>13, <1>14, <1>15, <1>16, <1>17,
           <1>18, <1>19, <1>20, <1>21, <1>22, <1>23, <1>24, <1>25

-----------------------------------------------------------------------------
(* The forms together *)

\* A form is sent: its list is whole, and it has neither read nor copied anything but
\* what an undo sends back.
LEMMA SendFair ==
  ASSUME FormsInv, NEW r \in Sends, TheForms!Send(r)
  PROVE  FormsInv'
<1> DEFINE u == TheForms!Unsent
           New(f, seen) == [u EXCEPT !.form = f, !.todo = TheForms!Program(f), !.out = "confirmed", !.seen = seen]
<1>1. now' = now /\ clock' = clock /\ TheForms!Remember /\ form[r] = u
  BY DEF TheForms!Send
<1>2. PICK f \in TheForms!Forms : \E seen : form' = [form EXCEPT ![r] = New(f, seen)]
  BY DEF TheForms!Send
<1>3. /\ DOMAIN u = {"form", "todo", "seen", "before", "out", "ans", "late"} /\ u.ans = "" /\ u.late = FALSE
  BY DEF TheForms!Unsent
<1>4. PICK p : (\E seen : p = New(f, seen)) /\ form' = [form EXCEPT ![r] = p]
  BY <1>2
<1> HIDE DEF u
<1>5. /\ DOMAIN p = {"form", "todo", "seen", "before", "out", "ans", "late"}
      /\ p.form = f /\ p.todo = TheForms!Program(f) /\ p.out = "confirmed" /\ p.ans = "" /\ p.late = FALSE
  BY <1>3, <1>4
<1>6. /\ DOMAIN f = {"kind", "doc", "leaves"} /\ (f.kind \notin TheForms!Believers => f.leaves \subseteq Leaves)
      /\ f.kind = "undo" => f.doc \in {"general", "osd"}
  <2>1. f.kind = "undo" => About(f, {"undo"}, {"general", "osd"})
    BY FormsAre DEF About
  <2> QED BY <2>1, FormsAre DEF About
<1>7. Listed(f, p.todo)
  BY <1>5, ProgramListed
<1>8. now \in Int /\ clock \in Int /\ now - clock <= Behind /\ DOMAIN form = Sends
  BY DEF FormsInv
<1>9. form'[r] = p /\ DOMAIN form' = Sends /\ \A d \in Sends : d # r => form'[d] = form[d]
  BY <1>4, <1>8
<1>10. Aged \subseteq Aged'
  BY <1>1, <1>3, <1>9 DEF Aged
<1>11. Behind \in Nat /\ Behind' \in Nat /\ Behind <= Behind'
  BY <1>10, BehindType
<1>12. held \subseteq held'
  BY <1>1, Remembers
<1>13. FairForm(p, FALSE, now, Behind')
  <2> DEFINE D == DOMAIN p.todo
  <2>1. Framed(p)
    BY <1>5, <1>6 DEF Framed
  <2>2. D \subseteq Nat /\ D # {} /\ \A i \in D : FitStep(p.form, p.todo[i])
    BY <1>5, <1>7 DEF Listed
  <2>3. Compares(p) => Deciding(p.form, p.todo, D)
    BY <1>5, <1>7 DEF Listed, Compares
  <2>4. Compares(p) => p.form.leaves \subseteq Leaves /\ (p.form.kind = "undo" => p.form.doc \in {"general", "osd"})
    BY <1>5, <1>6 DEF Compares
  <2>5. \A e : Starts(f, e) => Clocked(p, e, D, now, Behind')
    BY <1>5, <1>7 DEF Listed, Clocked
  <2>6. Clocked(p, "general", D, now, Behind') /\ (p.form.kind # "sync" => Clocked(p, "time", D, now, Behind'))
    BY <1>5, <2>5 DEF Starts
  <2>7. OnItsWay(p, D, p.out, FALSE, now, Behind')
    BY <2>2, <2>3, <2>4, <2>6 DEF OnItsWay
  <2>8. Says(p.out) /\ ~(p.ans = "confirmed")
    BY <1>5 DEF Says
  <2> QED BY <2>1, <2>2, <2>7, <2>8 DEF FairForm
<1>14. ASSUME NEW d \in Sends PROVE \E k \in BOOLEAN : (k => d \in held') /\ FairForm(form'[d], k, now, Behind')
  <2>1. now - Behind' <= now - Behind /\ Behind \in Int /\ Behind' \in Int /\ now \in Int
    <3>1. \A n \in Int, N, M \in Nat : N <= M => n - M <= n - N
      OBVIOUS
    <3>2. \A N \in Nat : N \in Int
      OBVIOUS
    <3> QED BY ONLY <1>8, <1>11, <3>1, <3>2, Zenon
  <2>2. CASE d = r
    BY <1>9, <1>13, <2>2
  <2>3. CASE d # r
    <3>1. PICK k \in BOOLEAN : (k => d \in held) /\ FairForm(form[d], k, now, Behind)
      BY DEF FormsInv
    <3>2. FairForm(form[d], k, now, Behind')
      BY ONLY <2>1, <3>1, FairLater, k \in BOOLEAN
    <3> QED BY <1>9, <1>12, <2>3, <3>1, <3>2
  <2> QED BY <2>2, <2>3
<1>15. now' - clock' <= Behind'
  <2>1. \A c \in Int : now - c <= Behind => now - c <= Behind'
    BY ONLY <1>8, <1>11
  <2> QED BY <1>1, <1>8, <2>1
<1> QED BY <1>1, <1>8, <1>9, <1>14, <1>15 DEF FormsInv

\* Before any form is sent.
LEMMA InitFair ==
  ASSUME TheForms!Init
  PROVE  FormsInv
<1> DEFINE u == TheForms!Unsent
<1>1. now = 0 /\ clock = 0 /\ form = [r \in Sends |-> u]
  BY DEF TheForms!Init
<1>2. Framed(u) /\ u.form.kind = "none" /\ u.ans = ""
  BY DEF TheForms!Unsent, TheForms!Form, Framed
<1> HIDE DEF u
<1>3. FairForm(u, FALSE, now, Behind)
  BY <1>2 DEF FairForm, BeingServed
<1>4. Behind \in Nat
  BY BehindType
<1>5. now \in Int /\ clock \in Int /\ now - clock <= Behind
  BY <1>1, <1>4
<1>6. DOMAIN form = Sends /\ \A r \in Sends : form[r] = u
  BY <1>1
<1>7. \A r \in Sends : \E h \in BOOLEAN : (h => r \in held) /\ FairForm(form[r], h, now, Behind)
  BY <1>3, <1>6
<1> QED BY <1>5, <1>6, <1>7 DEF FormsInv

\* Every step of the forms keeps the invariant.
LEMMA NextFair ==
  ASSUME FormsInv, TheForms!Next
  PROVE  FormsInv'
<1>1. ASSUME NEW r \in Sends, TheForms!Serve(r) PROVE FormsInv'
  BY <1>1, ReadDocFair, ReadBeforeFair, WriteFair, NoAnswerFair, AfterFair DEF TheForms!Serve
<1> QED BY <1>1, SendFair, TickFair DEF TheForms!Next

\* It says that what is confirmed has been held and that the clock is kept.
LEMMA FairSays ==
  ASSUME FormsInv
  PROVE  TheForms!ConfirmedHeld /\ TheForms!ClockKept
<1>1. TheForms!ConfirmedHeld
  BY DEF FormsInv, FairForm, Compares, TheForms!ConfirmedHeld, TheForms!Kind
<1>2. Aged \subseteq TheForms!Sent /\ TheForms!Sent \subseteq Sends
  <2>1. TheForms!Unsent.ans = "" /\ TheForms!Unsent.late = FALSE
    BY DEF TheForms!Unsent
  <2> QED BY <2>1 DEF Aged, TheForms!Sent
<1>3. PICK M : M = Cardinality(TheForms!Sent)
  OBVIOUS
<1>4. Behind \in Nat /\ M \in Nat /\ Behind <= M
  BY <1>2, <1>3, AgedCount DEF Behind
<1>5. now \in Int /\ clock \in Int /\ now - clock <= Behind
  BY DEF FormsInv
<1>6. now - clock <= M
  <2>1. \A n, c \in Int, N, K \in Nat : n - c <= N /\ N <= K => n - c <= K
    OBVIOUS
  <2> QED BY ONLY <1>4, <1>5, <2>1
<1>7. TheForms!Cardinality(TheForms!Sent) = Cardinality(TheForms!Sent)
  BY DEF TheForms!Cardinality, Cardinality
<1>8. TheForms!ClockKept
  BY ONLY <1>3, <1>6, <1>7 DEF TheForms!ClockKept
<1> QED BY <1>1, <1>8

\* "Confirmed" means that the camera has held the value since the form was sent, and no
\* form sets the camera's clock back by more than the time it is served, however many
\* forms there are and whatever the camera fails to do (write.go writeBlockWith, clock.go).
THEOREM ConfirmedHeldCorrect == ConfigSpec => []ConfirmedHeld
<1> DEFINE Inv == part = "forms" => FormsInv
<1>1. ConfigInit => Inv
  BY InitFair DEF ConfigInit
<1>2. Inv /\ [ConfigNext]_configVars => Inv'
  <2> SUFFICES ASSUME Inv, [ConfigNext]_configVars, part' = "forms" PROVE FormsInv'
    OBVIOUS
  <2>1. CASE ConfigNext
    <3>1. part = "forms" /\ TheForms!Next
      BY <2>1 DEF ConfigNext, Alone
    <3> QED BY <3>1, NextFair
  <2>2. CASE UNCHANGED configVars
    <3>1. part = "forms" /\ now' = now /\ clock' = clock /\ form' = form /\ held' = held
      BY <2>2 DEF configVars, formVars
    <3>2. FormsInv /\ Aged' = Aged
      BY <3>1 DEF Aged
    <3> QED BY <3>1, <3>2 DEF FormsInv, Behind
  <2> QED BY <2>1, <2>2
<1>3. Inv => ConfirmedHeld
  BY FairSays DEF ConfirmedHeld
<1> QED BY <1>1, <1>2, <1>3, PTL DEF ConfigSpec
=============================================================================
