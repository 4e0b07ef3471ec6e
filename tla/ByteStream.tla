----------------------------- MODULE ByteStream -----------------------------
(***************************************************************************)
(* What internal/bcudp promises of one direction of a session: "a reliable *)
(* ordered byte stream".  Bytes are read in the order they were sent, each *)
(* once, and none after the reader has shut the stream.                    *)
(***************************************************************************)
EXTENDS Naturals, Sequences

CONSTANT Pieces

VARIABLES
  sent,   \* the pieces sent, in order
  got,    \* the pieces read, in order
  shut    \* has the reader shut the stream?

Init == sent = <<>> /\ got = <<>> /\ shut = "no"

Send == \E p \in Pieces : sent' = Append(sent, p) /\ UNCHANGED <<got, shut>>

Take ==
  /\ shut = "no"
  /\ \E n \in Len(got) + 1..Len(sent) : got' = SubSeq(sent, 1, n)
  /\ UNCHANGED <<sent, shut>>

Shut == shut = "no" /\ shut' = "yes" /\ UNCHANGED <<sent, got>>

Next == Send \/ Take \/ Shut

Spec == Init /\ [][Next]_<<sent, got, shut>>
=============================================================================
