------------------------------ MODULE CameraConn ------------------------------
(***************************************************************************)
(* One connection to a camera (baichuan/conn.go): dialling and logging in  *)
(* before a deadline, the loop that reads its messages, the previews that  *)
(* are started and stopped on it, and closing it.                          *)
(*                                                                         *)
(* While it logs in, a watcher pulls the deadline of the socket in when    *)
(* the caller gives up. The calls of the owner are made one at a time: a   *)
(* stream makes them from its own goroutine, a recorder's shared           *)
(* connection under its lock. A camera keeps the session of a stream that  *)
(* was not stopped for minutes.                                            *)
(***************************************************************************)
EXTENDS Integers, FiniteSets

CONSTANTS
    Previews,  \* channel and stream of a preview, with its handle
    Cap,       \* what the channel of messages holds (256 there)
    MaxSent,   \* bound: messages the camera sends
    None

VARIABLES
    dial,      \* newConn: where login is, and why it failed
    giving,    \* lctx: its deadline has passed, and it is done
    watcher,   \* the goroutine that waits for lctx or the end of the login
    deadline,  \* the deadline of the socket
    socket,    \* the socket, at our end
    line,      \* what we write reaches the camera
    loop,      \* readLoop
    inbox,     \* messages in the channel, and how many the camera sent
    owner,     \* who dialled: what it does
    asked,     \* Conn.stream and Conn.also: the previews Close will stop
    running    \* the previews the camera runs for this connection

connVars == <<dial, giving, watcher, deadline, socket, line, loop, inbox, owner, asked, running>>

Init ==
    /\ dial = [at |-> "none", why |-> None]
    /\ giving = [late |-> FALSE, done |-> FALSE]
    /\ watcher = "none"
    /\ deadline = "none"
    /\ socket = "none"
    /\ line = "up"
    /\ loop = "none"
    /\ inbox = [has |-> 0, sent |-> 0]
    /\ owner = [at |-> "dialling", told |-> None, left |-> {}]
    /\ asked = [video |-> {}, also |-> {}]
    /\ running = {}

-----------------------------------------------------------------------------
(* Dial and newConn. *)

AfterLogin == <<loop, inbox, asked, running>>

Connect ==
    /\ dial.at = "none" /\ owner.at = "dialling"
    /\ dial' = [dial EXCEPT !.at = "probe"]
    /\ socket' = "open" /\ deadline' = "login" /\ watcher' = "waits"
    /\ UNCHANGED <<giving, line, owner>> /\ UNCHANGED AfterLogin

Unreachable ==
    /\ dial.at = "none" /\ owner.at = "dialling"
    /\ owner' = [owner EXCEPT !.at = "failed", !.told = "unreachable"]
    /\ UNCHANGED <<dial, giving, watcher, deadline, socket, line>> /\ UNCHANGED AfterLogin

\* The deadline of the login passes; its context is marked done a moment
\* later. Or the caller gives up.
Pass ==
    /\ socket = "open" /\ ~giving.late
    /\ giving' = [giving EXCEPT !.late = TRUE]
    /\ UNCHANGED <<dial, watcher, deadline, socket, line, owner>> /\ UNCHANGED AfterLogin

Done ==
    /\ socket = "open" /\ ~giving.done
    /\ giving' = [giving EXCEPT !.done = TRUE]
    /\ UNCHANGED <<dial, watcher, deadline, socket, line, owner>> /\ UNCHANGED AfterLogin

Wake ==
    /\ watcher = "waits" /\ giving.done
    /\ watcher' = "woken"
    /\ UNCHANGED <<dial, giving, deadline, socket, line, owner>> /\ UNCHANGED AfterLogin

PullIn ==
    /\ watcher = "woken"
    /\ watcher' = "over" /\ deadline' = "now"
    /\ UNCHANGED <<dial, giving, socket, line, owner>> /\ UNCHANGED AfterLogin

Leave ==
    /\ watcher = "waits" /\ dial.at \in {"in", "failed"}
    /\ watcher' = "over"
    /\ UNCHANGED <<dial, giving, deadline, socket, line, owner>> /\ UNCHANGED AfterLogin

-----------------------------------------------------------------------------
(* login. *)

TimeUp == deadline = "now" \/ (deadline = "login" /\ giving.late)

Logs(at, why) ==
    /\ dial.at \in {"probe", "login"}
    /\ dial' = [at |-> at, why |-> why]
    /\ UNCHANGED <<giving, watcher, deadline, socket, line, owner>> /\ UNCHANGED AfterLogin

Nonce == dial.at = "probe" /\ line = "up" /\ ~TimeUp /\ Logs("login", None)
Accept == dial.at = "login" /\ line = "up" /\ ~TimeUp /\ Logs("in", None)

\* No password, no nonce, no document: whatever it was that the camera said.
Refuse == line = "up" /\ ~TimeUp /\ Logs("failed", "refused")
Hangs == TimeUp /\ Logs("failed", "timeout")
Broken == line = "broken" /\ ~TimeUp /\ Logs("failed", "broken")

\* Mutant: the watcher is not waited for.
goesAhead == TRUE

WatcherDone == watcher = "over"

\* The socket's deadline can be seen before the context is marked done.
OutOfTime == giving.done \/ (dial.why = "timeout" /\ giving.late)

Fail ==
    /\ dial.at = "failed" /\ owner.at = "dialling" /\ WatcherDone
    /\ owner' = [owner EXCEPT !.at = "failed", !.told = IF OutOfTime THEN "timeout" ELSE dial.why]
    /\ socket' = "closed"
    /\ UNCHANGED <<dial, giving, watcher, deadline, line>> /\ UNCHANGED AfterLogin

Up ==
    /\ dial.at = "in" /\ owner.at = "dialling" /\ WatcherDone
    /\ owner' = [owner EXCEPT !.at = "using"]
    /\ deadline' = "none"
    /\ loop' = "reads"
    /\ UNCHANGED <<dial, giving, watcher, socket, line, inbox, asked, running>>

-----------------------------------------------------------------------------
(* readLoop. *)

BeforeLogin == <<dial, giving, watcher, deadline, socket, line>>

Read ==
    /\ loop = "reads" /\ socket = "open" /\ line = "up" /\ deadline = "none" /\ inbox.sent < MaxSent
    /\ inbox' = [inbox EXCEPT !.sent = @ + 1]
    /\ loop' \in {"answers", "offers"}
    /\ UNCHANGED BeforeLogin /\ UNCHANGED <<owner, asked, running>>

\* The end of the connection, at either end, or nothing for a while.
ReadFails ==
    /\ loop = "reads"
    /\ loop' = "ended"
    /\ UNCHANGED BeforeLogin /\ UNCHANGED <<inbox, owner, asked, running>>

AnswerKeepAlive ==
    /\ loop = "answers"
    /\ loop' = "reads"
    /\ UNCHANGED BeforeLogin /\ UNCHANGED <<inbox, owner, asked, running>>

Offer ==
    /\ loop = "offers" /\ inbox.has < Cap
    /\ inbox' = [inbox EXCEPT !.has = @ + 1]
    /\ loop' = "reads"
    /\ UNCHANGED BeforeLogin /\ UNCHANGED <<owner, asked, running>>

\* Mutant: a reader is all that it waits for.
waitsOn == FALSE

\* Conn.done is closed.
Ending == owner.at \in {"closing", "closed"}

Discard ==
    /\ loop = "offers" /\ Ending
    /\ loop' = "ended"
    /\ UNCHANGED BeforeLogin /\ UNCHANGED <<inbox, owner, asked, running>>

-----------------------------------------------------------------------------
(* The owner. *)

Take ==
    /\ owner.at = "using" /\ inbox.has > 0
    /\ inbox' = [inbox EXCEPT !.has = @ - 1]
    /\ UNCHANGED BeforeLogin /\ UNCHANGED <<loop, owner, asked, running>>

Runs(with) == running' = IF line = "up" THEN with ELSE running

\* StartVideo is remembered whether or not it could be sent; StartVideoOn, in
\* the list beside it, once it was (a broken line may still take it). A handle
\* is used once.
StartVideo(p) ==
    /\ owner.at = "using" /\ asked.video = {} /\ p \notin asked.also \union running
    /\ asked' = [asked EXCEPT !.video = {p}]
    /\ Runs(running \union {p})
    /\ UNCHANGED BeforeLogin /\ UNCHANGED <<loop, inbox, owner>>

StartVideoOn(p) ==
    /\ owner.at = "using" /\ p \notin asked.video \union asked.also \union running
    /\ asked' \in {[asked EXCEPT !.also = @ \union {p}]} \union (IF line = "up" THEN {} ELSE {asked})
    /\ Runs(running \union {p})
    /\ UNCHANGED BeforeLogin /\ UNCHANGED <<loop, inbox, owner>>

StopVideoOn(p) ==
    /\ owner.at = "using" /\ p \in asked.also
    /\ asked' = [asked EXCEPT !.also = @ \ {p}]
    /\ Runs(running \ {p})
    /\ UNCHANGED BeforeLogin /\ UNCHANGED <<loop, inbox, owner>>

\* Mutant: the streams beside the one of StartVideo are forgotten.
onlyItsOwn == asked.video

ToStop == asked.video \union asked.also

Close ==
    /\ owner.at = "using"
    /\ owner' = [owner EXCEPT !.at = "closing", !.left = ToStop]
    /\ UNCHANGED BeforeLogin /\ UNCHANGED <<loop, inbox, asked, running>>

StopVideo ==
    /\ owner.at = "closing"
    /\ \E p \in owner.left : owner' = [owner EXCEPT !.left = @ \ {p}] /\ Runs(running \ {p})
    /\ UNCHANGED BeforeLogin /\ UNCHANGED <<loop, inbox, asked>>

Closed ==
    /\ owner.at = "closing" /\ owner.left = {}
    /\ owner' = [owner EXCEPT !.at = "closed"]
    /\ socket' = "closed"
    /\ UNCHANGED <<dial, giving, watcher, deadline, line>> /\ UNCHANGED AfterLogin

\* The camera restarts, or the network fails.
Break ==
    /\ socket = "open" /\ line = "up"
    /\ line' = "broken"
    /\ UNCHANGED <<dial, giving, watcher, deadline, socket, owner>> /\ UNCHANGED AfterLogin

-----------------------------------------------------------------------------
Watch == Wake \/ PullIn \/ Leave
Login == Nonce \/ Accept \/ Refuse \/ Hangs \/ Broken
Return == Fail \/ Up
LoopStep == Read \/ ReadFails \/ AnswerKeepAlive \/ Offer \/ Discard
Use == Take \/ Close \/ \E p \in Previews : StartVideo(p) \/ StartVideoOn(p) \/ StopVideoOn(p)

Next ==
    \/ Connect \/ Unreachable \/ Pass \/ Done \/ Break
    \/ Watch \/ Login \/ Return \/ LoopStep \/ Use \/ StopVideo \/ Closed

\* Goroutines run and time passes; the camera owes nothing.
Fairness ==
    /\ WF_connVars(Pass) /\ WF_connVars(Wake \/ PullIn \/ Leave)
    /\ WF_connVars(Hangs \/ Broken) /\ WF_connVars(Fail \/ Up)
    /\ WF_connVars(AnswerKeepAlive \/ Discard) /\ WF_connVars(socket = "closed" /\ ReadFails)

Spec == Init /\ [][Next]_connVars /\ Fairness

-----------------------------------------------------------------------------
\* A connection that is up has no deadline left over from its login, though its
\* caller gave up just as it succeeded; one that failed to log in is closed, and
\* nothing reads it; and no preview that this connection asked the camera for is
\* left running when it closes, though some were stopped before (conn.go newConn,
\* StopVideoOn, Close).
ConnKept ==
    /\ owner.at \in {"using", "closing", "closed"} => deadline = "none"
    /\ owner.at = "failed" => socket # "open" /\ loop = "none"
    /\ owner.at = "closed" /\ line = "up" => running = {}

\* A login that is never answered ends, and so does the loop of a connection
\* that was closed, also when nobody reads its messages any more (conn.go
\* newConn, readLoop).
ConnEnds ==
    /\ socket = "open" ~> owner.at # "dialling"
    /\ owner.at = "closed" ~> loop = "ended"
=============================================================================
