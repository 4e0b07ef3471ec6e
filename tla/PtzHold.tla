------------------------------- MODULE PtzHold -------------------------------
(***************************************************************************)
(* The connection the control page holds for a camera's pan and tilt pad   *)
(* (control/ptzhold.go): the commands that share it, the timer that closes *)
(* it once the pad is quiet, and the camera at its other end.              *)
(*                                                                         *)
(* A command waits for the next message with its id, and every command of  *)
(* the pad has the same id: an answer that comes after its command gave up *)
(* would be the answer of the next one on the same connection.             *)
(***************************************************************************)
EXTENDS Integers, Sequences

CONSTANTS
    Commands,  \* requests of the pad
    MaxConns,  \* bound: connections dialled
    None

VARIABLES
    hold,    \* ptzHold: who has mu, the connection (0: none), its timer
    fired,   \* timers that fired and wait for mu
    conns,   \* the connections: open here, alive, and the answers on their way
    cmd      \* the requests

holdVars == <<hold, fired, conns, cmd>>

NewConn == [open |-> TRUE, alive |-> TRUE, answers |-> <<>>]

Init ==
    /\ hold = [mu |-> None, conn |-> 0, timer |-> "off"]
    /\ fired = 0
    /\ conns = <<>>
    /\ cmd = [c \in Commands |-> [at |-> "none", expired |-> FALSE, again |-> FALSE, fresh |-> FALSE, told |-> None]]

Has(c, at) == cmd[c].at = at
Goes(c, at) == cmd' = [cmd EXCEPT ![c].at = at]

-----------------------------------------------------------------------------
(* withPtzConn. *)

Press(c) ==
    /\ Has(c, "none")
    /\ Goes(c, "wait")
    /\ UNCHANGED <<hold, fired, conns>>

\* The deadline of the request, or its client goes away.
Expire(c) ==
    /\ cmd[c].at \in {"wait", "dial", "send", "await"} /\ ~cmd[c].expired
    /\ cmd' = [cmd EXCEPT ![c].expired = TRUE]
    /\ UNCHANGED <<hold, fired, conns>>

\* Stop does nothing to a timer that fired: its callback runs once mu is free.
Lock(c) ==
    /\ Has(c, "wait") /\ hold.mu = None
    /\ hold' = [hold EXCEPT !.mu = c, !.timer = "off"]
    /\ Goes(c, IF hold.conn = 0 THEN "dial" ELSE "send")
    /\ UNCHANGED <<fired, conns>>

Unlocked(timer) == [hold EXCEPT !.mu = None, !.timer = timer]

Dial(c) ==
    /\ Has(c, "dial") /\ ~cmd[c].expired /\ Len(conns) < MaxConns
    /\ conns' = Append(conns, NewConn)
    /\ hold' = [hold EXCEPT !.conn = Len(conns) + 1]
    /\ cmd' = [cmd EXCEPT ![c].at = "send", ![c].fresh = TRUE]
    /\ UNCHANGED fired

DialFails(c) ==
    /\ Has(c, "dial")
    /\ hold' = Unlocked("off")
    /\ cmd' = [cmd EXCEPT ![c].at = "failed"]
    /\ UNCHANGED <<fired, conns>>

\* SetConfig: a camera that is there answers, whenever it does.
Send(c) ==
    /\ Has(c, "send") /\ conns[hold.conn].alive
    /\ conns' = [conns EXCEPT ![hold.conn].answers = Append(@, [of |-> c, good |-> TRUE, come |-> FALSE])]
    /\ Goes(c, "await")
    /\ UNCHANGED <<hold, fired>>

\* awaitReply takes the next answer with the id of the command.
Receive(c) ==
    LET k == hold.conn IN
    /\ Has(c, "await") /\ conns[k].answers # <<>> /\ Head(conns[k].answers).come
    /\ Head(conns[k].answers).good
    /\ cmd' = [cmd EXCEPT ![c].at = "done", ![c].told = Head(conns[k].answers).of]
    /\ conns' = [conns EXCEPT ![k].answers = Tail(@)]
    /\ hold' = Unlocked("armed")
    /\ UNCHANGED fired

\* Mutant: a connection a command gave up on is held on to.
holdsOn(k) == conns

\* The connection a command failed on is closed.
Dropped(k) == [conns EXCEPT ![k] = [open |-> FALSE, alive |-> FALSE, answers |-> <<>>]]

\* Mutant: the command that failed still holds the connection it closed.
stillHeld(h) == h

\* No connection is held then.
NoneHeld(h) == [h EXCEPT !.conn = 0]

\* The command fails: it could not be sent or lost its connection, was refused,
\* or its time is up. On a connection that was held before, it is tried again
\* on a fresh one, if there is time.
Refused(k) == /\ conns[k].answers # <<>> /\ Head(conns[k].answers).come /\ ~Head(conns[k].answers).good

Fail(c) ==
    LET k == hold.conn IN
    /\ \/ Has(c, "send") /\ ~conns[k].alive
       \/ Has(c, "await") /\ ~conns[k].alive /\ conns[k].answers = <<>>
       \/ Has(c, "await") /\ (Refused(k) \/ cmd[c].expired)
    /\ conns' = Dropped(k)
    /\ IF cmd[c].fresh \/ cmd[c].expired
       THEN /\ hold' = NoneHeld(Unlocked(hold.timer))
            /\ cmd' = [cmd EXCEPT ![c].at = "failed"]
       ELSE /\ hold' = NoneHeld(hold)
            /\ Goes(c, "dial")
    /\ UNCHANGED fired

\* Whoever sent it presses again.
Again(c) ==
    /\ cmd[c].at \in {"done", "failed"} /\ ~cmd[c].again
    /\ cmd' = [cmd EXCEPT ![c] = [at |-> "none", expired |-> FALSE, again |-> TRUE, fresh |-> FALSE, told |-> None]]
    /\ UNCHANGED <<hold, fired, conns>>

-----------------------------------------------------------------------------
(* The timer. *)

Fire ==
    /\ hold.timer = "armed"
    /\ hold' = [hold EXCEPT !.timer = "off"]
    /\ fired' = fired + 1
    /\ UNCHANGED <<conns, cmd>>

Quiet ==
    /\ fired > 0 /\ hold.mu = None
    /\ fired' = fired - 1
    /\ conns' = IF hold.conn = 0 THEN conns ELSE Dropped(hold.conn)
    /\ hold' = NoneHeld(hold)
    /\ UNCHANGED cmd

-----------------------------------------------------------------------------
(* The camera. *)

\* An answer comes, good or not. (It answers in the order it is asked.)
Answer(k) ==
    /\ conns[k].alive
    /\ \E n \in DOMAIN conns[k].answers, good \in BOOLEAN :
          /\ ~conns[k].answers[n].come
          /\ \A m \in 1..(n - 1) : conns[k].answers[m].come
          /\ conns' = [conns EXCEPT ![k].answers[n].come = TRUE, ![k].answers[n].good = good]
    /\ UNCHANGED <<hold, fired, cmd>>

\* It restarts, or drops the connection: what came before can still be read.
Lose(k) ==
    /\ conns[k].alive
    /\ \E n \in 0..Len(conns[k].answers) :
          /\ \A m \in DOMAIN conns[k].answers : conns[k].answers[m].come <=> m <= n
          /\ conns' = [conns EXCEPT ![k].alive = FALSE, ![k].answers = SubSeq(@, 1, n)]
    /\ UNCHANGED <<hold, fired, cmd>>

-----------------------------------------------------------------------------
Next ==
    \/ \E c \in Commands : \/ Press(c) \/ Expire(c) \/ Lock(c) \/ Dial(c) \/ DialFails(c)
                           \/ Send(c) \/ Receive(c) \/ Fail(c) \/ Again(c)
    \/ Fire \/ Quiet
    \/ \E k \in DOMAIN conns : Answer(k) \/ Lose(k)

Spec == Init /\ [][Next]_holdVars

-----------------------------------------------------------------------------
\* Nobody is told the outcome of another command; the one connection that is
\* open is the one that is held, and while nobody uses it a timer is set or has
\* fired, so it closes once the pad is quiet; and what is held was not closed,
\* not even by a timer that fired before the command that now uses it
\* (ptzhold.go withPtzConn).
HeldWell ==
    /\ \A c \in Commands : Has(c, "done") => cmd[c].told = c
    /\ {k \in DOMAIN conns : conns[k].open} = {hold.conn} \ {0}
    /\ hold.conn # 0 /\ hold.mu = None => hold.timer = "armed" \/ fired > 0
=============================================================================
