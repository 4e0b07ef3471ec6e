----------------------------- MODULE CameraForms -----------------------------
(***************************************************************************)
(* The forms of the page that change a camera.  A camera takes whole       *)
(* documents, so a form reads one, changes the leaves it is about and      *)
(* sends it back, and there is no lock: two browsers, or a browser and the *)
(* daily clock sync, can be at it together.  A camera that answers 200 has *)
(* not necessarily changed anything, so most forms read the document again *)
(* before they say "confirmed".  Each handler is the list of what it asks  *)
(* of the camera, with what it answers when that fails; one set of actions *)
(* carries out any of them.                                                *)
(***************************************************************************)
EXTENDS Integers, Sequences, FiniteSets

CONSTANTS Requests,  \* each is one form, served once
          Leaves,    \* the leaves of a document that forms are about
          MaxTicks,  \* bound on the time that passes
          MaxFaults  \* bound on what the camera fails to do

VARIABLES cam,    \* document -> leaf -> value: "old", who set it, or "missing"
          now, clock, \* the time, and the camera's idea of it
          req,    \* per request: the form, what is left of its list (by number) and its copies
          faults,
          start,  \* per request: the camera as it was when the form was sent
          held    \* requests whose values the camera has held since they were sent

vars == <<cam, now, clock, req, faults, start, held>>

Docs == {"general", "osd", "time", "volume", "alarm", "led", "ntp", "md", "ai", "mask",
         "sleep", "enc", "rules", "stream ports", "web ports", "audio", "track"}
ClockDocs == {"general", "time"} \* the camera sets its clock from these

Document(d) == [leaf |-> cam[d], clock |-> IF d \in ClockDocs THEN clock ELSE 0]

-----------------------------------------------------------------------------
(* The lists.  A step: what is done, on which documents, what the form     *)
(* answers when the camera does not ("skip" and "noted" go on with the     *)
(* next document), when it refuses or reads back otherwise, and what is    *)
(* compared with what was sent.                                            *)

Step(do, on, fails, refuses, compare) ==
  [do |-> do, on |-> on, fails |-> fails, refuses |-> refuses, compare |-> compare]
(* A document without the leaf, or with two, is refused by setField.       *)
Read(d, fails, missing) == Step("read", {d}, fails, missing, "leaf")
Before(d, fails) == Step("before", {d}, fails, fails, "leaf")
Write(d, fails, refuses) == Step("write", {d}, fails, refuses, "leaf")
After(d, fails, differs, compare) == Step("after", {d}, fails, differs, compare)

(* writeBlockWith: on one connection the document is read once more and    *)
(* written; then read on a fresh one.                                      *)
writeBlockWith(d, fails, differs, compare) ==
  <<Before(d, fails), Write(d, fails, "refused"), After(d, "accepted", differs, compare)>>

serveApplySetting(d) == <<Read(d, "error", "refused")>> \o writeBlockWith(d, "error", "refused", "leaf")
serveWrite(d) == writeBlockWith(d, "error", "accepted", "whole")
serveApplyRawValue(d) == <<Read(d, "refused", "refused")>> \o writeBlockWith(d, "refused", "accepted", "whole")
serveSchedule(d) == <<Read(d, "error", "refused")>> \o writeBlockWith(d, "error", "accepted", "whole")
serveMask == <<Read("mask", "error", "none")>> \o writeBlockWith("mask", "error", "refused", "leaf")
serveTrackLimit == <<Read("track", "refused", "refused")>> \o writeBlockWith("track", "error", "accepted", "whole")
setCameraText(d) == <<Read(d, "noted", "noted"), Before(d, "noted"), Write(d, "noted", "noted"),
                      After(d, "skip", "skip", "whole")>>
serveRename == setCameraText("general") \o setCameraText("osd")
serveZone == <<Read("md", "error", "refused"), Read("ai", "skip", "skip")>>
             \o writeBlockWith("md", "error", "accepted", "whole")
             \o <<Write("ai", "partly", "partly"), After("ai", "partly", "partly", "leaf")>>
(* Only the group that changes is written, if it still has to be.          *)
serveApplyNetPort == <<Step("read", {"stream ports", "web ports"}, "refused", "none", "leaf"),
                       Step("before", {"stream ports", "web ports"}, "refused", "refused", "leaf"),
                       Write("stream ports", "refused", "refused"), Write("web ports", "refused", "refused"),
                       Step("after", {"stream ports", "web ports"}, "refused", "refused", "leaf")>>
servePrivacyMode == <<Write("sleep", "error", "refused"), After("sleep", "accepted", "accepted", "leaf")>>
serveRule == <<Read("rules", "refused", "none"), Write("rules", "error", "refused"),
               After("rules", "refused", "refused", "leaf")>>
(* Through the CGI API, on one session.                                    *)
serveApplySiren == <<Read("volume", "refused", "none"), Write("volume", "refused", "refused"),
                     Read("alarm", "refused", "none"), Write("alarm", "refused", "refused")>>
serveApplyFloodlight == <<Read("led", "refused", "none"), Write("led", "refused", "refused"),
                          After("led", "accepted", "accepted", "never")>>
setNTP == <<Read("ntp", "error", "none"), Write("ntp", "refused", "refused"),
            After("ntp", "accepted", "accepted", "leaf")>>
setTimeZone == <<Read("time", "error", "none"), Write("time", "refused", "refused"),
                 After("time", "accepted", "accepted", "leaf")>>
syncClock == <<Read("time", "error", "none"), Write("time", "refused", "refused"),
               After("time", "accepted", "accepted", "clock")>>
serveApplyEncoding(audio) == <<Read("enc", "refused", "none"), Write("enc", "refused", "refused")>>
  \o (IF audio THEN <<After("enc", "refused", "refused", "leaf")>> ELSE <<>>)
serveSound == <<Read("audio", "skip", "skip"), Write("audio", "skip", "skip")>>
copyGroupTo(d) == <<Read(d, "refused", "skip leaf"), Before(d, "refused"),
                    Write(d, "refused", "refused"), After(d, "confirmed", "confirmed", "leaf")>>
serveApplyAutoTrack == <<Read("track", "refused", "refused"), Write("track", "refused", "refused"),
                         After("track", "refused", "refused", "leaf")>>

Form(k, d, l) == [kind |-> k, doc |-> d, leaves |-> l]
Some == SUBSET Leaves \ {{}}
One == {{l} : l \in Leaves}
Forms == [kind : {"setting"}, doc : {"general", "osd"}, leaves : Some]
         \cup [kind : {"raw"}, doc : {"general", "osd"}, leaves : One]
         \cup [kind : {"undo"}, doc : {"general", "osd"}, leaves : {Leaves}]
         \cup [kind : {"copy"}, doc : {"osd"}, leaves : {Leaves}]
         \cup [kind : {"schedule", "sound"}, doc : {"audio"}, leaves : One]
         \cup [kind : {"timezone"}, doc : {"time"}, leaves : One]
         \cup [kind : {"sync"}, doc : {"time"}, leaves : {{}}]
         \cup [kind : {"zone"}, doc : {"md"}, leaves : One]
         \cup [kind : {"mask"}, doc : {"mask"}, leaves : {Leaves}]
         \cup [kind : {"siren"}, doc : {"alarm"}, leaves : One]
         \cup [kind : {"netport"}, doc : {"stream ports", "web ports"}, leaves : One]
         \cup [kind : {"rule"}, doc : {"rules"}, leaves : {{}}]
         \cup {Form("rename", "osd", {CHOOSE l \in Leaves : TRUE})}
         \cup [kind : {"range", "tracking"}, doc : {"track"}, leaves : One]
         \cup [kind : {"privacy"}, doc : {"sleep"}, leaves : One]
         \cup [kind : {"light"}, doc : {"led"}, leaves : One]
         \cup [kind : {"ntp"}, doc : {"ntp"}, leaves : One]
         \cup [kind : {"encoding", "camera audio"}, doc : {"enc"}, leaves : One]

Program(f) ==
  CASE f.kind = "setting" -> serveApplySetting(f.doc)
    [] f.kind = "undo" -> serveWrite(f.doc)
    [] f.kind = "raw" -> serveApplyRawValue(f.doc)
    [] f.kind = "copy" -> copyGroupTo(f.doc)
    [] f.kind = "schedule" -> serveSchedule(f.doc)
    [] f.kind = "sound" -> serveSound
    [] f.kind = "timezone" -> setTimeZone
    [] f.kind = "sync" -> syncClock
    [] f.kind = "zone" -> serveZone
    [] f.kind = "mask" -> serveMask
    [] f.kind = "siren" -> serveApplySiren
    [] f.kind = "netport" -> serveApplyNetPort
    [] f.kind = "rule" -> serveRule
    [] f.kind = "rename" -> serveRename
    [] f.kind = "range" -> serveTrackLimit
    [] f.kind = "tracking" -> serveApplyAutoTrack
    [] f.kind = "privacy" -> servePrivacyMode
    [] f.kind = "light" -> serveApplyFloodlight
    [] f.kind = "ntp" -> setNTP
    [] f.kind = "encoding" -> serveApplyEncoding(FALSE)
    [] f.kind = "camera audio" -> serveApplyEncoding(TRUE)

-----------------------------------------------------------------------------
Nothing == [d \in {} |-> 0]
Unsent == [form |-> Form("none", "osd", {}), todo |-> Nothing, seen |-> Nothing, before |-> Nothing,
           out |-> "", ans |-> "", late |-> FALSE]
Active(r) == req[r].form.kind /= "none" /\ req[r].ans = ""
Kind(r) == req[r].form.kind
\* Of what is left of the list, the first.
Earliest(q) == CHOOSE i \in DOMAIN q.todo : \A j \in DOMAIN q.todo : i <= j
Due(q) == q.todo[Earliest(q)]
Does(r, do) == Active(r) /\ Due(req[r]).do = do
On(r) == Due(req[r]).on
Doc(r) == CHOOSE d \in On(r) : TRUE

DocsOf(f) == UNION {Program(f)[i].on : i \in DOMAIN Program(f)}
(* Bounds: the forms of a run share a document, and time passes in those   *)
(* about the clock.                                                        *)
Sent == {q \in Requests : req[q] /= Unsent}
Meets(f) == \A q \in Sent : DocsOf(f) \cap DocsOf(req[q].form) /= {}
AboutClock == \E q \in Sent : DocsOf(req[q].form) \cap ClockDocs /= {}

(* What the answer so far and the rest of the list make of a request.      *)
Further(q, left, out) == [q EXCEPT !.todo = [i \in left |-> q.todo[i]], !.out = out,
                                   !.ans = IF left = {} THEN out ELSE ""]
Rest(q) == DOMAIN q.todo \ {Earliest(q)}
Onward(q) == Further(q, Rest(q), q.out)
Fail(q, how) ==
  LET Others == {i \in Rest(q) : q.todo[i].on \cap Due(q).on = {}}
  IN IF how \in {"skip", "noted"}
     THEN Further(q, Others, IF how = "noted" THEN "refused" ELSE q.out)
     ELSE [q EXCEPT !.todo = Nothing, !.ans = how]

HeldIn(c, r) == LET f == req[r].form
                IN IF f.kind = "sync" THEN clock' = now'
                   ELSE IF f.kind = "undo" THEN c[f.doc] = req[r].seen[f.doc].leaf
                   ELSE \A l \in f.leaves : c[f.doc][l] = r
Remember == held' = held \cup {r \in Requests : Active(r) /\ HeldIn(cam', r)}
(* Of a form that has been answered the page keeps what an undo sends.     *)
Kept(q) == [Unsent EXCEPT !.form = q.form, !.ans = q.ans,
                          !.before = IF q.form.kind = "setting" THEN q.before ELSE Nothing]
Set(r, q) == IF q.ans = "" THEN req' = [req EXCEPT ![r] = q] /\ UNCHANGED start
             ELSE req' = [req EXCEPT ![r] = Kept(q)] /\ start' = [start EXCEPT ![r] = Nothing]
Fault == faults < MaxFaults /\ faults' = faults + 1

(* A form is sent; "undo" sends back what an earlier form found.           *)
Send(r) ==
  /\ req[r] = Unsent /\ r = CHOOSE q \in Requests : req[q] = Unsent
  /\ \E f \in Forms :
       LET New(seen) == [Unsent EXCEPT !.form = f, !.todo = Program(f), !.out = "confirmed", !.seen = seen]
       IN /\ Meets(f)
          /\ IF f.kind = "undo"
             THEN \E q \in Requests : /\ req[q].ans /= "" /\ f.doc \in DOMAIN req[q].before
                                      /\ req' = [req EXCEPT ![r] = New(req[q].before)]
             ELSE req' = [req EXCEPT ![r] = New(Nothing)]
  /\ start' = [start EXCEPT ![r] = cam]
  /\ UNCHANGED <<cam, now, clock, faults>> /\ Remember

Copy(r, f) == [d \in DOMAIN f \cup On(r) |-> IF d \in On(r) THEN Document(d) ELSE f[d]]
Missing(r) == {l \in req[r].form.leaves : \E d \in On(r) : cam[d][l] = "missing"}

(* The document is read, and what is asked of it looked at.                *)
ReadDoc(r) ==
  /\ Does(r, "read")
  /\ LET q == [req[r] EXCEPT !.seen = Copy(r, @)]
         Free == {l \in Leaves : cam["rules"][l] = "missing"}
         First == CHOOSE l \in Free : \A m \in Free : l <= m
         missing == Due(req[r]).refuses
     IN Set(r, IF Kind(r) = "rule"
               THEN IF Free = {} THEN Fail(q, "refused") ELSE Onward([q EXCEPT !.form.leaves = {First}])
               ELSE IF Missing(r) = {} THEN Onward(q)
               ELSE IF missing = "skip leaf" /\ Missing(r) /= req[r].form.leaves
                    THEN Onward([q EXCEPT !.form.leaves = @ \ Missing(r)])
               ELSE Fail(q, IF missing = "skip leaf" THEN "refused" ELSE missing))
  /\ UNCHANGED <<cam, now, clock, faults>> /\ Remember

ReadBefore(r) ==
  /\ Does(r, "before")
  /\ Set(r, Onward([req[r] EXCEPT !.before = Copy(r, @)]))
  /\ UNCHANGED <<cam, now, clock, faults>> /\ Remember

\* Mutant: the document goes out with the clock it came with.
staleClock(r, d) == req[r].seen[d].clock
(* The general block is written with the clock read just before.           *)
freshClock(r, d) == IF d = "general" THEN req[r].before[d].clock ELSE req[r].seen[d].clock

\* Mutant: the leaves a form is not about are sent as the page knows them.
BodyAsShown(r, d) ==
  [leaf |-> [l \in Leaves |-> IF l \in req[r].form.leaves THEN r ELSE "old"], clock |-> clock]
(* What is sent: the document as it was read, with the leaves of the form  *)
(* set; or those leaves alone, for which the camera keeps the others.      *)
Alone(d) == d \in {"volume", "mask", "sleep", "rules"}
Body(r, d) ==
  LET base == IF Alone(d) THEN cam[d] ELSE req[r].seen[d].leaf
      Own(l) == l \in req[r].form.leaves /\ (d \in {"stream ports", "web ports"} => d = req[r].form.doc)
  IN [leaf |-> IF Kind(r) = "undo" THEN base ELSE [l \in Leaves |-> IF Own(l) THEN r ELSE base[l]],
      clock |-> IF Kind(r) = "sync" THEN now ELSE IF Alone(d) THEN 0 ELSE freshClock(r, d)]

Take(r, d) == /\ cam' = [cam EXCEPT ![d] = Body(r, d).leaf]
              /\ clock' = IF d \in ClockDocs THEN Body(r, d).clock ELSE clock

WriteTaken(r) ==
  /\ Does(r, "write") /\ Set(r, Onward(req[r]))
  /\ IF Kind(r) = "netport" /\ Body(r, Doc(r)).leaf = req[r].before[Doc(r)].leaf
     THEN UNCHANGED <<cam, clock>> \* SetPorts sees nothing to write
     ELSE Take(r, Doc(r))
  /\ UNCHANGED <<now, faults>> /\ Remember
(* The camera answers 200 and changes nothing; it refuses; its answer to a *)
(* write it took is lost; it does not answer.                              *)
WriteIgnored(r) == /\ Does(r, "write") /\ Fault /\ Set(r, Onward(req[r]))
                   /\ UNCHANGED <<cam, now, clock>> /\ Remember
WriteRefused(r) == /\ Does(r, "write") /\ Fault /\ Set(r, Fail(req[r], Due(req[r]).refuses))
                   /\ UNCHANGED <<cam, now, clock>> /\ Remember
WriteLost(r) == /\ Does(r, "write") /\ Fault /\ Set(r, Fail(req[r], Due(req[r]).fails))
                /\ Take(r, Doc(r)) /\ UNCHANGED now /\ Remember
NoAnswer(r) == /\ Active(r) /\ Due(req[r]).do /= "after" /\ Fault
               /\ Set(r, Fail(req[r], Due(req[r]).fails))
               /\ UNCHANGED <<cam, now, clock>> /\ Remember

(* The document is read back.                                              *)
\* Mutant: a camera that answered 200 is believed.
BelievesStatus(r) == TRUE
ReadsAsSent(r) ==
  LET f == req[r].form
      d == IF Kind(r) = "netport" THEN f.doc ELSE Doc(r)
  IN CASE Due(req[r]).compare = "never" -> FALSE
       [] Due(req[r]).compare = "clock" -> clock = now
       [] Kind(r) = "rule" -> \A l \in f.leaves : cam[d][l] /= "missing"
       [] Due(req[r]).compare = "leaf" -> \A l \in f.leaves : cam[d][l] = r
       [] Due(req[r]).compare = "whole" -> Document(d) = Body(r, d)

Back(r, how) == IF how \in {"accepted", "confirmed"} THEN Further(req[r], Rest(req[r]), how)
                ELSE Fail(req[r], how)
ReadAfter(r) ==
  /\ Does(r, "after")
  /\ Set(r, IF ReadsAsSent(r) THEN Onward(req[r]) ELSE Back(r, Due(req[r]).refuses))
  /\ UNCHANGED <<cam, now, clock, faults>> /\ Remember
NoReadBack(r) ==
  /\ Does(r, "after") /\ Fault /\ Set(r, Back(r, Due(req[r]).fails))
  /\ UNCHANGED <<cam, now, clock>> /\ Remember

(* Time passes, but a form is over within probeTimeout, here one tick.     *)
Tick == /\ now < MaxTicks /\ AboutClock /\ \A r \in Requests : Active(r) => ~req[r].late
        /\ now' = now + 1 /\ clock' = clock + 1
        /\ req' = [r \in Requests |-> IF Active(r) THEN [req[r] EXCEPT !.late = TRUE] ELSE req[r]]
        /\ UNCHANGED <<cam, faults, start>> /\ Remember

Init ==
  /\ \E lacks \in SUBSET {CHOOSE l \in Leaves : \A m \in Leaves : m <= l} :
       cam = [d \in Docs |-> [l \in Leaves |->
                IF d = "rules" \/ (d = "osd" /\ l \in lacks) THEN "missing" ELSE "old"]]
  /\ now = 0 /\ clock = 0 /\ faults = 0 /\ held = {}
  /\ req = [r \in Requests |-> Unsent] /\ start = [r \in Requests |-> Nothing]

Serve(r) == \/ ReadDoc(r) \/ ReadBefore(r) \/ WriteTaken(r) \/ WriteIgnored(r) \/ WriteRefused(r)
            \/ WriteLost(r) \/ NoAnswer(r) \/ ReadAfter(r) \/ NoReadBack(r)
Next == \/ \E r \in Requests : Send(r) \/ Serve(r)
        \/ Tick
Spec == Init /\ [][Next]_vars

-----------------------------------------------------------------------------
(* Forms that say "confirmed" without asking the camera again, or without  *)
(* comparing what it holds.                                                *)
Believers == {"siren", "encoding", "sound", "copy", "rename", "rule"}

(* "Confirmed" means the camera has held the value since the form was      *)
(* sent, whatever else was being written to it meanwhile and whatever the  *)
(* camera answered.                                                        *)
ConfirmedHeld == \A r \in Requests : req[r].ans = "confirmed" /\ Kind(r) \notin Believers => r \in held

(* What a page says of every form: a 200 from the camera is not called     *)
(* confirmed unless it was read back.                                      *)
AllConfirmedHeld == \A r \in Requests : req[r].ans = "confirmed" /\ Kind(r) /= "sound" => r \in held

(* Whichever step fails, a form changes the leaves it is about.  Another   *)
(* leaf it can only put back to what it was when the form was sent, which  *)
(* is a change another form made while this one was being served.          *)
ChangesItsOwn ==
  \A d \in Docs, l \in Leaves : cam'[d][l] /= cam[d][l] =>
    \E r \in Requests : /\ Active(r) /\ d \in DocsOf(req[r].form)
                        /\ l \in req[r].form.leaves \/ cam'[d][l] = start[r][d][l]
OnlyItsOwn == [][ChangesItsOwn]_vars

(* A write that carries the clock sets it back by no more than the time    *)
(* one form takes, however old the document it came from: an undo an hour  *)
(* later does not set the camera back an hour.                             *)
ClockKept == now - clock <= Cardinality(Sent)
=============================================================================
