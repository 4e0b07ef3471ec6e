-------------------------------- MODULE Talk --------------------------------
(***************************************************************************)
(* Two-way audio.  A back channel (internal/rtsp) or the page's talk button *)
(* (internal/control) opens a session on the camera (internal/talk), each  *)
(* on a connection of its own, sends it audio, and releases it: the camera *)
(* talks with one at a time, and one that is hung up on instead of being   *)
(* told "talk close" may refuse everyone until it is restarted.            *)
(*                                                                         *)
(* The camera is external: it takes a configuration if it talks with       *)
(* nobody, answers or not, and may break a connection.                     *)
(***************************************************************************)
EXTENDS Integers

CONSTANTS Channels,  \* back channels
          Buttons,   \* talk buttons of the page
          MaxSaid,  \* packets a back channel holds: 128
          None

VARIABLES doing,    \* where each of them is
          said,     \* packets waiting for a back channel's goroutine
          pressed,  \* does someone talk into it
          leaving,   \* its RTSP session is closed, its WebSocket gone
          later,    \* retryAt has not come
          lull,     \* the idle timer has fired
          mic       \* the camera: whom it talks with, and whether it was left hanging

vars == <<doing, said, pressed, leaving, later, lull, mic>>

Talkers == Channels \cup Buttons
At(g, where) == doing[g] = where
Goes(g, where) == doing' = [doing EXCEPT ![g] = where]

Opening == {"dial", "ask", "config"}

Init ==
    /\ doing = [g \in Talkers |-> "none"]
    /\ said = [g \in Channels |-> 0]
    /\ pressed = [g \in Talkers |-> FALSE] /\ leaving = [g \in Talkers |-> FALSE]
    /\ later = [g \in Channels |-> FALSE] /\ lull = [g \in Channels |-> FALSE]
    /\ mic = [with |-> None, hung |-> "no"]

\* The connection is closed: the camera loses whoever it talks with, and that is no good way to go.
HangUp(g, how) == mic' = IF mic.with = g THEN [with |-> None, hung |-> how] ELSE mic

-----------------------------------------------------------------------------
(* Those who talk. *)

\* listenBackChannel, for a client that set the back channel up.
Listen(g) ==
    /\ g \in Channels /\ At(g, "none") /\ ~leaving[g]
    /\ Goes(g, "loop")
    /\ UNCHANGED <<said, pressed, leaving, later, lull, mic>>

\* serveTalk: the session is opened before anything is read from the WebSocket.
Press(g) ==
    /\ g \in Buttons /\ At(g, "none") /\ ~leaving[g]
    /\ Goes(g, "dial") /\ pressed' = [pressed EXCEPT ![g] = TRUE]
    /\ UNCHANGED <<said, leaving, later, lull, mic>>

\* packet: never blocks, and drops what there is no room for.
Packet(g) ==
    /\ g \in Channels /\ ~At(g, "none") /\ ~leaving[g]
    /\ pressed' = [pressed EXCEPT ![g] = TRUE]
    /\ said' = [said EXCEPT ![g] = IF @ < MaxSaid THEN @ + 1 ELSE @]
    /\ UNCHANGED <<doing, leaving, later, lull, mic>>

Hush(g) ==
    /\ g \in Channels /\ pressed[g] /\ pressed' = [pressed EXCEPT ![g] = FALSE]
    /\ UNCHANGED <<doing, said, leaving, later, lull, mic>>

\* OnSessionClose closes `stop`, which a cancelled Open sees too, and waits; or the button is let go.
Leave(g) ==
    /\ ~At(g, "none") /\ ~leaving[g]
    /\ leaving' = [leaving EXCEPT ![g] = TRUE] /\ pressed' = [pressed EXCEPT ![g] = FALSE]
    /\ UNCHANGED <<doing, said, later, lull, mic>>

-----------------------------------------------------------------------------
(* backChannel.run and serveTalk. *)

\* Mutant: the goroutine is done at once, session or not.
leavesItOpen(g) == "gone"

AfterStop(g) == IF At(g, "open") THEN "closing" ELSE "gone"

\* `stop`: release, if there is a session, and done.
Stopped(g) ==
    /\ g \in Channels /\ leaving[g] /\ doing[g] \in {"loop", "open"}
    /\ Goes(g, AfterStop(g))
    /\ UNCHANGED <<said, pressed, leaving, later, lull, mic>>

\* A packet without a session: one is opened, unless that failed not long ago.
Take(g) ==
    /\ g \in Channels /\ At(g, "loop") /\ said[g] > 0
    /\ said' = [said EXCEPT ![g] = @ - 1]
    /\ Goes(g, IF later[g] THEN "loop" ELSE "dial")
    /\ UNCHANGED <<pressed, leaving, later, lull, mic>>

Retry(g) ==
    /\ g \in Channels /\ later[g] /\ later' = [later EXCEPT ![g] = FALSE]
    /\ UNCHANGED <<doing, said, pressed, leaving, lull, mic>>

\* Open, step by step: the dial, the look for a speaker and the abilities, and the configuration,
\* which the camera has taken when it answers.
Dialled(g) ==
    /\ At(g, "dial") /\ Goes(g, "ask")
    /\ UNCHANGED <<said, pressed, leaving, later, lull, mic>>

TalkConfig(g) ==
    /\ At(g, "ask") /\ Goes(g, "config")
    /\ mic' \in IF mic.with = None /\ mic.hung = "no" THEN {mic, [mic EXCEPT !.with = g]} ELSE {mic}
    /\ UNCHANGED <<said, pressed, leaving, later, lull>>

\* The 200, and the write of the packet that opened the session.
Opened(g) ==
    /\ At(g, "config") /\ mic.with = g
    /\ Goes(g, "open")
    /\ lull' = IF g \in Channels THEN [lull EXCEPT ![g] = FALSE] ELSE lull
    /\ UNCHANGED <<said, pressed, leaving, later, mic>>

\* Open fails: refused, no speaker, timed out, the connection lost, or, of a back channel, cancelled.
\* The connection is closed as it is.
OpenFails(g) ==
    /\ doing[g] \in Opening
    /\ HangUp(g, "opening")
    /\ later' = IF g \in Channels THEN [later EXCEPT ![g] = TRUE] ELSE later
    /\ Goes(g, IF g \in Channels THEN "loop" ELSE "gone")
    /\ UNCHANGED <<said, pressed, leaving, lull>>

\* A packet is sent, and the idle timer started anew; or the send fails, and the session is released.
Write(g) ==
    /\ g \in Channels /\ At(g, "open") /\ said[g] > 0
    /\ said' = [said EXCEPT ![g] = @ - 1]
    /\ \/ lull' = [lull EXCEPT ![g] = FALSE] /\ UNCHANGED doing
       \/ Goes(g, "closing") /\ UNCHANGED lull
    /\ UNCHANGED <<pressed, leaving, later, mic>>

Lull(g) ==
    /\ g \in Channels /\ At(g, "open") /\ ~lull[g]
    /\ lull' = [lull EXCEPT ![g] = TRUE]
    /\ UNCHANGED <<doing, said, pressed, leaving, later, mic>>

\* Mutant: a session without audio is kept.
neverRests(g) == FALSE

Rests(g) == lull[g]

\* The idle timer, or a ping that fails.
Release(g) ==
    /\ g \in Channels /\ At(g, "open") /\ Rests(g)
    /\ Goes(g, "closing") /\ lull' = [lull EXCEPT ![g] = FALSE]
    /\ UNCHANGED <<said, pressed, leaving, later, mic>>

\* serveTalk's read or write fails.
Unpress(g) ==
    /\ g \in Buttons /\ At(g, "open") /\ leaving[g]
    /\ Goes(g, "closing")
    /\ UNCHANGED <<said, pressed, leaving, later, lull, mic>>

\* The connection breaks, which the camera knows as well: the next write or ping fails.
Break(g) ==
    /\ At(g, "open") /\ mic.with = g
    /\ mic' = [mic EXCEPT !.with = None] /\ Goes(g, "closing")
    /\ UNCHANGED <<said, pressed, leaving, later, lull>>

\* The camera is told "talk close" and answers, or does not.
Closes(g) ==
    /\ At(g, "closing") /\ mic.with = g
    /\ mic' = [mic EXCEPT !.with = None]
    /\ UNCHANGED <<doing, said, pressed, leaving, later, lull>>

\* Mutant: the connection is left open when the camera does not answer.
waitsForAnswer(g) == At(g, "closing") /\ mic.with # g

Waited(g) == At(g, "closing")

\* The answer, or talkCloseWait, and the connection is closed.
Closed(g) ==
    /\ Waited(g)
    /\ HangUp(g, "unanswered")
    /\ Goes(g, IF g \in Channels /\ ~leaving[g] THEN "loop" ELSE "gone")
    /\ UNCHANGED <<said, pressed, leaving, later, lull>>

Reboot ==
    /\ mic.hung # "no" /\ mic' = [mic EXCEPT !.hung = "no"]
    /\ UNCHANGED <<doing, said, pressed, leaving, later, lull>>

Step(g) ==
    \/ Stopped(g) \/ Take(g) \/ Opened(g) \/ OpenFails(g) \/ Write(g) \/ Release(g) \/ Unpress(g) \/ Closed(g)

Next ==
    \/ Reboot
    \/ \E g \in Talkers :
        \/ Listen(g) \/ Press(g) \/ Packet(g) \/ Hush(g) \/ Leave(g) \/ Retry(g) \/ Dialled(g) \/ TalkConfig(g)
        \/ Lull(g) \/ Break(g) \/ Closes(g) \/ Step(g)

\* Opening and closing are bounded by timeouts, and the goroutine takes what is ready. The camera
\* owes no answer, and nobody has to talk.
Fairness == \A g \in Talkers : /\ WF_vars(Opened(g) \/ OpenFails(g)) /\ WF_vars(Closed(g)) /\ WF_vars(Unpress(g))
                               /\ SF_vars(Stopped(g)) /\ WF_vars(Lull(g)) /\ SF_vars(Release(g)) /\ WF_vars(Write(g))

Spec == Init /\ [][Next]_vars /\ Fairness

-----------------------------------------------------------------------------
(* Properties. *)

\* Whoever is done has released the camera, which is what OnSessionClose waits for
\* (server.go:391-404), and no two sessions are open on it at once.
Released ==
    /\ \A g \in Talkers : doing[g] \in {"none", "loop", "dial", "ask", "gone"} => mic.with # g
    /\ \A g, h \in Talkers : doing[g] = "open" /\ doing[h] = "open" => g = h

\* The camera is given back when nobody talks, and a session that ends does end, though the
\* camera never answers (rtsp/talk.go:135-219, talk/talk.go:108-146).
Owes(g) == (mic.with = g /\ ~pressed[g]) \/ (leaving[g] /\ ~At(g, "gone"))
Hushed == \A g \in Talkers : Owes(g) ~> ~Owes(g)

\* "The app waits for the camera's answer before it hangs up. Hanging up at once left an
\* RLC-833A refusing every later talk session with 422 until it rebooted (#18)"
\* (talk/talk.go:120-124): a camera that took the configuration is told before it is hung up on.
NeverHungUpOn == mic.hung # "opening"
=============================================================================
