------------------------------ MODULE MCBcUdp ------------------------------
EXTENDS BcUdp

\* Ids wrap at 8: sessions that start at 6 pass the wrap.
SmallSessions ==
  {[start |-> 6, ours |-> 2, theirs |-> 0, acks |-> 2, events |-> {}],
   [start |-> 6, ours |-> 0, theirs |-> 3, acks |-> 2, events |-> {}],
   [start |-> 0, ours |-> 1, theirs |-> 1, acks |-> 1, events |-> {"close", "silence"}],
   [start |-> 0, ours |-> 0, theirs |-> 1, acks |-> 0, events |-> Events]}
=============================================================================
