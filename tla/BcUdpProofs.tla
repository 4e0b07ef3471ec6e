----------------------------- MODULE BcUdpProofs -----------------------------
(***************************************************************************)
(* Theorems about BcUdp, for any id width and any sessions.                *)
(*                                                                         *)
(* A packet is known by its place, the distance of its id from the first   *)
(* one of the session.  In a session of at most half the ids the order of  *)
(* ids is the order of places (BehindIs), and each direction is a link     *)
(* between a sender and a receiver whose invariant is the same: what is    *)
(* not resent is held, and what an ack on the way says is so.              *)
(***************************************************************************)
EXTENDS BcUdp, FiniteSetTheorems, SequenceTheorems, WellFoundedInduction, TLAPS

Half == Mod \div 2

-----------------------------------------------------------------------------
(* Arithmetic of ids *)

\* There are ids, and more than half of them.
LEMMA ModIs == Mod \in Nat /\ Half \in Nat /\ Half < Mod /\ 2 * Half <= Mod /\ MaxAhead \in Nat
  BY BcUdpAssumption DEF Half

\* The remainder of a number that is at most once around.
LEMMA OnceRound ==
  ASSUME NEW m \in Nat \ {0}, NEW a \in Nat
  PROVE  /\ a < m => a % m = a
         /\ m <= a /\ a < 2 * m => a % m = a - m
  OBVIOUS

\* Plus wraps at Mod.
LEMMA PlusIs ==
  ASSUME NEW s \in Ids, NEW n \in 0..Mod
  PROVE  /\ Plus(s, n) = IF s + n < Mod THEN s + n ELSE s + n - Mod
         /\ Plus(s, n) \in Ids
<1>1. CASE s + n < Mod
  BY <1>1, BcUdpAssumption DEF Plus, Ids
<1>2. CASE s + n >= Mod
  BY <1>2, BcUdpAssumption DEF Plus, Ids
<1> QED BY <1>1, <1>2, BcUdpAssumption DEF Ids

\* Gap is the distance, around the wrap.
LEMMA GapIs ==
  ASSUME NEW s \in Ids, NEW id \in Ids
  PROVE  /\ Gap(id, s) = IF s <= id THEN id - s ELSE id + Mod - s
         /\ Gap(id, s) \in Ids
<1>1. CASE s <= id
  <2> DEFINE a == id + Mod - s
  <2>1. Mod <= a /\ a < 2 * Mod /\ a \in Nat
    BY <1>1, BcUdpAssumption DEF Ids
  <2> HIDE DEF a
  <2>2. a % Mod = a - Mod
    BY <2>1, OnceRound, BcUdpAssumption
  <2>3. (id + Mod - s) % Mod = id - s
    BY <2>2, BcUdpAssumption DEF a, Ids
  <2> QED BY <1>1, <2>3, BcUdpAssumption DEF Gap, Ids
<1>2. CASE s > id
  <2>1. id + Mod - s < Mod /\ id + Mod - s \in Nat
    BY <1>2, BcUdpAssumption DEF Ids
  <2>2. (id + Mod - s) % Mod = id + Mod - s
    BY <2>1, BcUdpAssumption
  <2> QED BY <1>2, <2>1, <2>2, BcUdpAssumption DEF Gap, Ids
<1> QED BY <1>1, <1>2, BcUdpAssumption DEF Ids

\* The id at a place is at that place.
LEMMA PlaceOfPlus ==
  ASSUME NEW s \in Ids, NEW n \in 0..Mod - 1
  PROVE  Plus(s, n) \in Ids /\ Gap(Plus(s, n), s) = n
<1>1. n \in 0..Mod
  BY BcUdpAssumption
<1>2. Plus(s, n) \in Ids /\ Plus(s, n) = IF s + n < Mod THEN s + n ELSE s + n - Mod
  BY <1>1, PlusIs
<1>3. Gap(Plus(s, n), s) = IF s <= Plus(s, n) THEN Plus(s, n) - s ELSE Plus(s, n) + Mod - s
  BY <1>2, GapIs
<1> QED BY <1>2, <1>3, BcUdpAssumption DEF Ids

\* Every id is the one at its place.
LEMMA PlusOfPlace ==
  ASSUME NEW s \in Ids, NEW id \in Ids
  PROVE  Plus(s, Gap(id, s)) = id
<1>1. Gap(id, s) \in 0..Mod
  BY GapIs, BcUdpAssumption DEF Ids
<1>2. Gap(id, s) = IF s <= id THEN id - s ELSE id + Mod - s
  BY GapIs
<1>3. Plus(s, Gap(id, s)) = IF s + Gap(id, s) < Mod THEN s + Gap(id, s) ELSE s + Gap(id, s) - Mod
  BY <1>1, PlusIs
<1> QED BY <1>1, <1>2, <1>3, BcUdpAssumption DEF Ids

\* Two ids at one place are one.
LEMMA SamePlace ==
  ASSUME NEW s \in Ids, NEW id \in Ids, NEW other \in Ids, Gap(id, s) = Gap(other, s)
  PROVE  id = other
  BY PlusOfPlace

\* n further on is n places further on, short of the wrap.
LEMMA PlaceFurther ==
  ASSUME NEW s \in Ids, NEW id \in Ids, NEW n \in Nat, Gap(id, s) + n < Mod
  PROVE  Plus(id, n) \in Ids /\ Gap(Plus(id, n), s) = Gap(id, s) + n
<1>1. n \in 0..Mod /\ Gap(id, s) \in Ids
  BY GapIs, BcUdpAssumption DEF Ids
<1>2. Plus(id, n) \in Ids /\ Plus(id, n) = IF id + n < Mod THEN id + n ELSE id + n - Mod
  BY <1>1, PlusIs
<1>3. Gap(id, s) = IF s <= id THEN id - s ELSE id + Mod - s
  BY GapIs
<1>4. Gap(Plus(id, n), s) = IF s <= Plus(id, n) THEN Plus(id, n) - s ELSE Plus(id, n) + Mod - s
  BY <1>2, GapIs
<1> QED BY <1>1, <1>2, <1>3, <1>4, BcUdpAssumption DEF Ids

\* The gap of two ids is the distance of their places, around the wrap.
LEMMA GapOfPlaces ==
  ASSUME NEW s \in Ids, NEW id \in Ids, NEW base \in Ids
  PROVE  Gap(id, base) = IF Gap(base, s) <= Gap(id, s) THEN Gap(id, s) - Gap(base, s)
                         ELSE Gap(id, s) + Mod - Gap(base, s)
<1>1. Gap(id, base) = IF base <= id THEN id - base ELSE id + Mod - base
  BY GapIs
<1>2. Gap(id, s) = IF s <= id THEN id - s ELSE id + Mod - s
  BY GapIs
<1>3. Gap(base, s) = IF s <= base THEN base - s ELSE base + Mod - s
  BY GapIs
<1> QED BY <1>1, <1>2, <1>3, BcUdpAssumption DEF Ids

\* In the first half of the ids of a session, the order of ids is the order
\* of places.
LEMMA BehindIs ==
  ASSUME NEW s \in Ids, NEW id \in Ids, NEW base \in Ids,
         Gap(id, s) < Half, Gap(base, s) <= Half
  PROVE  Behind(id, base) <=> Gap(id, s) < Gap(base, s)
<1>1. Gap(id, s) \in Nat /\ Gap(base, s) \in Nat
  BY GapIs, BcUdpAssumption DEF Ids
<1>2. Behind(id, base) <=> Gap(id, base) >= Half
  BY DEF Behind, Half
<1> QED BY <1>1, <1>2, GapOfPlaces, ModIs

\* What AckLocked names is the id before the next one in order.
LEMMA AckNames ==
  ASSUME NEW base \in Ids, NEW kept
  PROVE  AckLocked(base, kept).last \in Ids /\ Plus(AckLocked(base, kept).last, 1) = base
<1>1. Mod - 1 \in 0..Mod /\ 1 \in 0..Mod
  BY BcUdpAssumption
<1>2. AckLocked(base, kept).last = Plus(base, Mod - 1)
  BY DEF AckLocked
<1>3. Plus(base, Mod - 1) \in Ids
      /\ Plus(base, Mod - 1) = IF base + (Mod - 1) < Mod THEN base + (Mod - 1)
                               ELSE base + (Mod - 1) - Mod
  BY <1>1, PlusIs
<1>4. Plus(Plus(base, Mod - 1), 1) = IF Plus(base, Mod - 1) + 1 < Mod
                                     THEN Plus(base, Mod - 1) + 1
                                     ELSE Plus(base, Mod - 1) + 1 - Mod
  BY <1>1, <1>3, PlusIs
<1>5. Plus(Plus(base, Mod - 1), 1) = base
  BY <1>3, <1>4, BcUdpAssumption DEF Ids
<1> QED BY <1>2, <1>3, <1>5

-----------------------------------------------------------------------------
(* What a packet in order releases *)

\* A set of numbers that is not empty has a least one: the intervals below
\* them are finite sets, which inclusion orders well.
LEMMA LeastNat ==
  ASSUME NEW T \in SUBSET Nat, T # {}
  PROVE  \E n \in T : \A m \in T : n <= m
<1> DEFINE R == StrictSubsetOrdering(Nat)
           W == {1..n : n \in T}
<1>1. IsWellFoundedOn(R, FiniteSubsetsOf(Nat))
  BY FS_StrictSubsetOrderingWellFounded
<1>2. \A n \in Nat : 1..n \in FiniteSubsetsOf(Nat)
  BY FS_Interval DEF FiniteSubsetsOf
<1>3. W \subseteq FiniteSubsetsOf(Nat) /\ W # {}
  BY <1>2
<1>4. \E x \in W : \A y \in W : ~ (<<y, x>> \in R)
  <2> HIDE DEF R, W
  <2> QED BY <1>1, <1>3, WFMin
<1>5. PICK n \in T : \A m \in T : ~ (<<1..m, 1..n>> \in R)
  BY <1>4
<1>6. ASSUME NEW m \in T, m < n PROVE FALSE
  <2>1. 1..m \subseteq 1..n /\ 1..m # 1..n
    <3>1. n \in 1..n /\ n \notin 1..m
      BY <1>6
    <3> QED BY <1>6, <3>1
  <2>2. <<1..m, 1..n>> \in R
    BY <2>1 DEF StrictSubsetOrdering
  <2> QED BY <1>5, <2>2
<1> QED BY <1>6

\* The packet in order is released with the run of those kept after it, up to
\* the first that is missing.
IsRun(r, id, kept, m) ==
  /\ r = [i \in 1..m |-> Plus(id, i - 1)]
  /\ \A i \in 2..m : Plus(id, i - 1) \in kept
  /\ Plus(id, m) \notin kept

\* There is such a run: as long as it goes on, more packets are kept.
LEMMA RunExists ==
  ASSUME NEW s \in Ids, NEW n \in 0..Half, NEW id \in Ids, Gap(id, s) < n, NEW kept \in SUBSET Ids,
         \A x \in kept : Gap(x, s) < n
  PROVE  \E m \in 1..Cardinality(kept) + 1 : IsRun([i \in 1..m |-> Plus(id, i - 1)], id, kept, m)
<1> DEFINE T == {m \in Nat \ {0} : Plus(id, m) \notin kept}
           k == n - Gap(id, s)
<1>1. Gap(id, s) \in Nat /\ n \in Nat /\ n < Mod /\ k \in Nat \ {0}
  <2>1. Gap(id, s) \in Ids
    BY GapIs
  <2>2. Gap(id, s) \in Nat
    BY <2>1, ModIs DEF Ids
  <2> QED BY <2>2, ModIs
<1>2. Gap(Plus(id, k), s) = n
  BY <1>1, PlaceFurther
<1>3. k \in T
  BY <1>1, <1>2
<1>4. PICK m \in T : \A j \in T : m <= j
  <2>1. T \in SUBSET Nat /\ T # {}
    BY <1>3
  <2> HIDE DEF T
  <2> QED BY <2>1, LeastNat
<1>5. m \in Nat \ {0} /\ Plus(id, m) \notin kept /\ m <= k
  BY <1>3, <1>4
<1>6. \A j \in 1..m - 1 : Plus(id, j) \in kept
  BY <1>4, <1>5
<1>7. \A i \in 2..m : Plus(id, i - 1) \in kept
  <2>1. \A i \in 2..m : i - 1 \in 1..m - 1
    BY <1>5
  <2> QED BY <1>6, <2>1
<1>8. m - 1 <= Cardinality(kept)
  <2> DEFINE f == [j \in 1..m - 1 |-> Plus(id, j)]
  <2>1. IsFiniteSet(kept) /\ Cardinality(kept) \in Nat
    <3>1. IsFiniteSet(Ids)
      BY FS_Interval, ModIs DEF Ids
    <3> QED BY <3>1, FS_Subset, FS_CardinalityType
  <2>2. f \in [1..m - 1 -> kept]
    BY <1>6
  <2>3. ASSUME NEW i \in 1..m - 1, NEW j \in 1..m - 1, f[i] = f[j] PROVE i = j
    <3>1. Gap(Plus(id, i), s) = Gap(id, s) + i /\ Gap(Plus(id, j), s) = Gap(id, s) + j
      <4>1. i \in Nat /\ j \in Nat /\ Gap(id, s) + i < Mod /\ Gap(id, s) + j < Mod
        BY <1>1, <1>5, ModIs
      <4> QED BY <4>1, PlaceFurther
    <3> QED BY <1>1, <2>3, <3>1
  <2>4. IsFiniteSet(1..m - 1) /\ Cardinality(1..m - 1) = m - 1
    <3>1. 1 \in Int /\ m - 1 \in Int /\ m - 1 >= 0
      BY <1>5
    <3>2. Cardinality(1..m - 1) = IF 1 > m - 1 THEN 0 ELSE m - 1 - 1 + 1
      BY <3>1, FS_Interval
    <3> QED BY <1>5, <3>1, <3>2, FS_Interval
  <2>5. f \in Injection(1..m - 1, kept)
    <3> HIDE DEF f
    <3> QED BY <2>2, <2>3 DEF Injection, IsInjective
  <2>6. Cardinality(1..m - 1) <= Cardinality(kept)
    <3> HIDE DEF f
    <3> QED BY <2>1, <2>4, <2>5, FS_Injection
  <2> QED BY <2>4, <2>6
<1>9. m \in 1..Cardinality(kept) + 1
  <2>1. Cardinality(kept) \in Nat
    <3>1. IsFiniteSet(Ids)
      BY FS_Interval, ModIs DEF Ids
    <3> QED BY <3>1, FS_Subset, FS_CardinalityType
  <2> QED BY <1>5, <1>8, <2>1
<1> QED BY <1>5, <1>7, <1>9 DEF IsRun

\* Run is such a run.
LEMMA RunIs ==
  ASSUME NEW s \in Ids, NEW n \in 0..Half, NEW id \in Ids, Gap(id, s) < n, NEW kept \in SUBSET Ids,
         \A x \in kept : Gap(x, s) < n
  PROVE  \E m \in Nat \ {0} : IsRun(Run(id, kept), id, kept, m)
<1> DEFINE Q == {[i \in 1..m |-> Plus(id, i - 1)] : m \in 1..Cardinality(kept) + 1}
           Good(r) == /\ \A i \in 2..Len(r) : r[i] \in kept
                      /\ Plus(id, Len(r)) \notin kept
<1>1. PICK m \in 1..Cardinality(kept) + 1 : IsRun([i \in 1..m |-> Plus(id, i - 1)], id, kept, m)
  BY RunExists
<1>2. Cardinality(kept) \in Nat
  <2>1. IsFiniteSet(Ids)
    BY FS_Interval, ModIs DEF Ids
  <2> QED BY <2>1, FS_Subset, FS_CardinalityType
<1>3. \E r \in Q : Good(r)
  <2> DEFINE r == [i \in 1..m |-> Plus(id, i - 1)]
  <2>1. m \in Nat /\ Len(r) = m
    BY <1>2
  <2>2. \A i \in 2..m : r[i] = Plus(id, i - 1)
    BY <2>1
  <2>3. Good(r)
    BY <1>1, <2>1, <2>2 DEF IsRun
  <2> QED BY <2>3
<1>4. Run(id, kept) \in Q /\ Good(Run(id, kept))
  <2>1. Run(id, kept) = CHOOSE r \in Q : Good(r)
    BY DEF Run
  <2> HIDE DEF Q, Good
  <2> QED BY <1>3, <2>1
<1>5. PICK l \in 1..Cardinality(kept) + 1 : Run(id, kept) = [i \in 1..l |-> Plus(id, i - 1)]
  BY <1>4
<1>6. l \in Nat \ {0} /\ Len(Run(id, kept)) = l
  BY <1>2, <1>5
<1>7. \A i \in 2..l : Run(id, kept)[i] = Plus(id, i - 1)
  BY <1>5, <1>6
<1>8. IsRun(Run(id, kept), id, kept, l)
  BY <1>4, <1>5, <1>6, <1>7 DEF IsRun
<1> QED BY <1>6, <1>8

-----------------------------------------------------------------------------
(* One direction: a sender and a receiver *)

\* The receiver has all before base, and of the later packets those kept.
Recv(s, n, base, kept) ==
  /\ base \in Ids /\ kept \in SUBSET Ids /\ Gap(base, s) <= n
  /\ \A x \in kept : Gap(base, s) < Gap(x, s) /\ Gap(x, s) < n

Held(s, base, kept, id) == Gap(id, s) < Gap(base, s) \/ id \in kept

\* The sender sends again what it has sent and the receiver may lack.
Resending(s, n, resent, base, kept) ==
  /\ resent \in SUBSET Ids /\ \A x \in resent : Gap(x, s) < n
  /\ \A id \in Ids : Gap(id, s) < n => id \in resent \/ Held(s, base, kept, id)

\* Packets on the way have been sent.
DataSent(s, n, wire) == \A id \in Ids : Data(id) \in wire => Gap(id, s) < n

\* What an ack says the receiver has, it has.
SaysSo(s, base, kept, a) ==
  /\ Plus(a.last, 1) \in Ids /\ Gap(Plus(a.last, 1), s) <= Gap(base, s)
  /\ \A id \in a.have : id \in Ids /\ Held(s, base, kept, id)

AcksTrue(s, base, kept, wire) == \A a \in AckPackets(wire) : SaysSo(s, base, kept, a)

\* n packets sent from s on; data on one wire, acks on the other.
Link(s, n, resent, base, kept, data, acks) ==
  /\ s \in Ids /\ n \in 0..Half
  /\ Recv(s, n, base, kept)
  /\ Resending(s, n, resent, base, kept)
  /\ DataSent(s, n, data)
  /\ AcksTrue(s, base, kept, acks)

\* Nothing but a base further on: the packet in order releases a run.
LEMMA ArrivedInOrder ==
  ASSUME NEW s \in Ids, NEW n \in 0..Half, NEW base, NEW kept, Recv(s, n, base, kept),
         Gap(base, s) < n, NEW r, NEW m \in Nat \ {0}, IsRun(r, base, kept, m),
         NEW left \in SUBSET kept, \A x \in kept : x \in left <=> \A i \in 1..Len(r) : x # r[i]
  PROVE  /\ Len(r) = m
         /\ Recv(s, n, Plus(base, m), left)
         /\ Gap(Plus(base, m), s) = Gap(base, s) + m
         /\ \A x \in Ids : Held(s, base, kept, x) => Held(s, Plus(base, m), left, x)
<1> DEFINE g == Gap(base, s)
<1>1. g \in Nat /\ n \in Nat /\ n < Mod /\ Mod \in Nat /\ base \in Ids
  <2>1. g \in Ids
    BY GapIs DEF Recv
  <2>2. g \in Nat
    BY <2>1, ModIs DEF Ids
  <2> QED BY <2>2, ModIs DEF Recv
<1>2. Len(r) = m /\ \A i \in 1..m : r[i] = Plus(base, i - 1)
  BY DEF IsRun
<1>3. g + m <= n
  <2> SUFFICES ASSUME g + m > n PROVE FALSE
    BY <1>1
  <2> DEFINE k == n - g
  <2>1. k \in Nat \ {0} /\ k + 1 \in 2..m /\ (k + 1) - 1 = k /\ g + k = n
    BY <1>1
  <2>2. Plus(base, k) \in kept
    <3>1. \A i \in 2..m : Plus(base, i - 1) \in kept
      BY DEF IsRun
    <3> HIDE DEF k
    <3> QED BY <2>1, <3>1
  <2>3. Gap(Plus(base, k), s) = n
    <3> HIDE DEF k
    <3> QED BY <1>1, <2>1, PlaceFurther
  <2> QED BY <1>1, <2>2, <2>3 DEF Recv
<1>4. \A j \in 0..m : Plus(base, j) \in Ids /\ Gap(Plus(base, j), s) = g + j
  <2> SUFFICES ASSUME NEW j \in 0..m PROVE Plus(base, j) \in Ids /\ Gap(Plus(base, j), s) = g + j
    OBVIOUS
  <2>1. j \in Nat /\ g + j < Mod
    BY <1>1, <1>3
  <2> QED BY <1>1, <2>1, PlaceFurther
<1>5. Plus(base, m) \in Ids /\ Gap(Plus(base, m), s) = g + m
  BY <1>4
<1> HIDE DEF g
<1>6. ASSUME NEW x \in left PROVE g + m < Gap(x, s)
  <2>1. x \in kept /\ x \in Ids /\ g < Gap(x, s) /\ Gap(x, s) \in Nat
    <3>1. x \in kept /\ x \in Ids /\ g < Gap(x, s)
      BY <1>6 DEF Recv, g
    <3>2. Gap(x, s) \in Ids
      BY <3>1, GapIs
    <3> QED BY <1>1, <3>1, <3>2 DEF Ids
  <2> SUFFICES ASSUME Gap(x, s) <= g + m PROVE FALSE
    BY <1>1, <2>1
  <2> DEFINE j == Gap(x, s) - g
  <2>2. j \in 1..m /\ Gap(x, s) = g + j
    BY <1>1, <2>1
  <2> HIDE DEF j
  <2>3. x = Plus(base, j)
    <3>1. Gap(Plus(base, j), s) = Gap(x, s) /\ Plus(base, j) \in Ids
      BY <1>4, <2>2
    <3> QED BY <2>1, <3>1, SamePlace
  <2>4. CASE j = m
    BY <2>1, <2>3, <2>4 DEF IsRun
  <2>5. CASE j # m
    <3>1. j + 1 \in 1..m /\ (j + 1) - 1 = j
      BY <2>2, <2>5
    <3>2. r[j + 1] = x
      BY <1>2, <2>3, <3>1
    <3> QED BY <1>2, <1>6, <3>1, <3>2
  <2> QED BY <2>4, <2>5
<1>7. Recv(s, n, Plus(base, m), left)
  <2>1. left \in SUBSET Ids /\ \A x \in left : Gap(x, s) < n
    BY DEF Recv
  <2> QED BY <1>3, <1>5, <1>6, <2>1 DEF Recv
<1>8. ASSUME NEW x \in Ids, Held(s, base, kept, x) PROVE Held(s, Plus(base, m), left, x)
  <2>0. Gap(x, s) \in Nat
    <3>1. Gap(x, s) \in Ids
      BY GapIs
    <3> QED BY <1>1, <3>1 DEF Ids
  <2>1. CASE Gap(x, s) < g
    BY <1>1, <1>5, <2>0, <2>1 DEF Held
  <2>2. CASE x \in left
    BY <2>2 DEF Held
  <2>3. CASE x \in kept /\ x \notin left
    <3>1. PICK i \in 1..m : x = r[i]
      BY <1>2, <2>3
    <3>2. x = Plus(base, i - 1) /\ i - 1 \in 0..m /\ i - 1 < m
      BY <1>2, <3>1
    <3>3. Gap(x, s) = g + (i - 1)
      BY <1>4, <3>2
    <3> QED BY <1>1, <1>5, <3>2, <3>3 DEF Held
  <2> QED BY <1>8, <2>1, <2>2, <2>3 DEF Held, g
<1> QED BY <1>2, <1>5, <1>7, <1>8 DEF g

\* A packet that arrives, in order, early, late or too far ahead: the receiver
\* goes on by the run it releases, and still has all that it had.
LEMMA ArrivedIs ==
  ASSUME NEW s \in Ids, NEW n \in 0..Half, NEW base, NEW kept, Recv(s, n, base, kept),
         NEW id \in Ids, Gap(id, s) < n
  PROVE  LET a == Arrived(id, base, kept)
         IN  \E m \in Nat :
               /\ a.run = [i \in 1..m |-> Plus(base, i - 1)] /\ Len(a.run) = m
               /\ id # base => m = 0
               /\ Recv(s, n, Plus(base, m), a.kept)
               /\ Gap(Plus(base, m), s) = Gap(base, s) + m
               /\ \A x \in Ids : Held(s, base, kept, x) => Held(s, Plus(base, m), a.kept, x)
<1> DEFINE a == Arrived(id, base, kept)
           Early == id # base /\ ~Behind(id, base) /\ Gap(id, base) < MaxAhead
<1>1. base \in Ids /\ kept \in SUBSET Ids
  BY DEF Recv
<1>2. CASE id = base
  <2>1. a = [run |-> Run(id, kept), kept |-> kept \ {Run(id, kept)[i] : i \in 1..Len(Run(id, kept))}]
    BY <1>2 DEF Arrived
  <2>2. PICK m \in Nat \ {0} : IsRun(Run(id, kept), base, kept, m)
    <3>1. \A x \in kept : Gap(x, s) < n
      BY DEF Recv
    <3> QED BY <1>1, <1>2, <3>1, RunIs
  <2>3. /\ Len(a.run) = m
        /\ Recv(s, n, Plus(base, m), a.kept)
        /\ Gap(Plus(base, m), s) = Gap(base, s) + m
        /\ \A x \in Ids : Held(s, base, kept, x) => Held(s, Plus(base, m), a.kept, x)
    <3>1. a.run = Run(id, kept) /\ a.kept = kept \ {a.run[i] : i \in 1..Len(a.run)}
      BY <2>1
    <3>2. Gap(base, s) < n
      BY <1>2
    <3>3. IsRun(a.run, base, kept, m)
      BY <2>2, <3>1
    <3> HIDE DEF a
    <3>4. ASSUME NEW r, r = a.run, NEW left, left = a.kept
          PROVE  /\ Len(r) = m
                 /\ Recv(s, n, Plus(base, m), left)
                 /\ Gap(Plus(base, m), s) = Gap(base, s) + m
                 /\ \A x \in Ids : Held(s, base, kept, x) => Held(s, Plus(base, m), left, x)
      <4>1. IsRun(r, base, kept, m) /\ left = kept \ {r[i] : i \in 1..Len(r)}
        BY <3>1, <3>3, <3>4
      <4>2. left \in SUBSET kept /\ \A x \in kept : x \in left <=> \A i \in 1..Len(r) : x # r[i]
        BY <4>1
      <4>3. IsRun(r, base, kept, m)
        BY <4>1
      <4> QED BY <3>2, <4>2, <4>3, ArrivedInOrder
    <3> QED BY <3>4
  <2>4. a.run = [i \in 1..m |-> Plus(base, i - 1)]
    BY <2>1, <2>2 DEF IsRun
  <2> HIDE DEF a
  <2> QED BY <1>2, <2>2, <2>3, <2>4 DEF a
<1>3. CASE id # base
  <2>1. a.run = <<>> /\ (a.kept = kept \/ (a.kept = kept \union {id} /\ ~ Behind(id, base)))
    <3>1. CASE Early
      BY <1>3, <3>1 DEF Arrived
    <3>2. CASE ~ Early
      <4>1. a = [run |-> <<>>, kept |-> kept]
        <5>1. CASE Behind(id, base)
          BY <1>3, <5>1 DEF Arrived
        <5>2. CASE ~ Behind(id, base) /\ ~ (Gap(id, base) < MaxAhead)
          BY <1>3, <5>2 DEF Arrived
        <5> QED BY <1>3, <3>2, <5>1, <5>2
      <4>2. a.run = <<>>
        BY <4>1
      <4>3. a.kept = kept
        BY <4>1
      <4> HIDE DEF a
      <4> QED BY <4>2, <4>3
    <3> QED BY <3>1, <3>2
  <2> HIDE DEF a
  <2>2. Plus(base, 0) = base
    <3>1. 0 \in 0..Mod
      BY ModIs
    <3>2. Plus(base, 0) = IF base + 0 < Mod THEN base + 0 ELSE base + 0 - Mod
      BY <1>1, <3>1, PlusIs
    <3> QED BY <1>1, <3>2, ModIs DEF Ids
  <2>3. Gap(base, s) \in Nat /\ Gap(id, s) \in Nat
    <3>1. Gap(base, s) \in Ids /\ Gap(id, s) \in Ids
      BY <1>1, GapIs
    <3> QED BY <3>1, ModIs DEF Ids
  <2>4. ~ Behind(id, base) => Gap(base, s) < Gap(id, s)
    <3>1. Gap(id, s) < Half /\ Gap(base, s) <= Half
      BY <2>3, ModIs DEF Recv
    <3>2. Gap(id, s) # Gap(base, s)
      BY <1>1, <1>3, SamePlace
    <3> QED BY <1>1, <2>3, <3>1, <3>2, BehindIs
  <2>5. Recv(s, n, base, a.kept)
    BY <2>1, <2>4 DEF Recv
  <2>6. a.run = [i \in 1..0 |-> Plus(base, i - 1)] /\ Len(a.run) = 0
    BY <2>1
  <2>7. \A x \in Ids : Held(s, base, kept, x) => Held(s, base, a.kept, x)
    BY <2>1 DEF Held
  <2>8. Gap(base, s) = Gap(base, s) + 0
    BY <2>3
  <2> QED BY <2>2, <2>5, <2>6, <2>7, <2>8 DEF a
<1> QED BY <1>2, <1>3

\* The receiver takes a packet from the wire.
LEMMA LinkData ==
  ASSUME NEW s, NEW n, NEW r, NEW b, NEW k, NEW wd, NEW wa, Link(s, n, r, b, k, wd, wa),
         NEW id \in Ids, Data(id) \in wd, NEW a, a = Arrived(id, b, k)
  PROVE  /\ Link(s, n, r, Plus(b, Len(a.run)), a.kept, wd, wa)
         /\ Gap(Plus(b, Len(a.run)), s) = Gap(b, s) + Len(a.run) /\ Len(a.run) \in Nat
         /\ a.run = [i \in 1..Len(a.run) |-> Plus(b, i - 1)]
         /\ id # b => a.run = <<>>
<1>1. s \in Ids /\ n \in 0..Half /\ Recv(s, n, b, k) /\ Gap(id, s) < n
  BY DEF Link, DataSent
<1>2. PICK m \in Nat :
        /\ a.run = [i \in 1..m |-> Plus(b, i - 1)] /\ Len(a.run) = m
        /\ id # b => m = 0
        /\ Recv(s, n, Plus(b, m), a.kept)
        /\ Gap(Plus(b, m), s) = Gap(b, s) + m
        /\ \A x \in Ids : Held(s, b, k, x) => Held(s, Plus(b, m), a.kept, x)
  BY <1>1, ArrivedIs
<1>3. Resending(s, n, r, Plus(b, m), a.kept)
  BY <1>2 DEF Link, Resending
<1>4. \A x : Held(s, b, k, x) /\ x \in Ids => Held(s, Plus(b, m), a.kept, x)
  BY <1>2
<1>5. Gap(b, s) \in Nat /\ b \in Ids
  <2>1. b \in Ids /\ Gap(b, s) \in Ids
    BY <1>1, GapIs DEF Recv
  <2> QED BY <2>1, ModIs DEF Ids
<1>6. AcksTrue(s, Plus(b, m), a.kept, wa)
  <2> SUFFICES ASSUME NEW p \in AckPackets(wa) PROVE SaysSo(s, Plus(b, m), a.kept, p)
    BY DEF AcksTrue
  <2>1. SaysSo(s, b, k, p)
    BY DEF Link, AcksTrue
  <2>2. Gap(Plus(p.last, 1), s) \in Nat
    <3>1. Gap(Plus(p.last, 1), s) \in Ids
      BY <1>1, <2>1, GapIs DEF SaysSo
    <3> QED BY <3>1, ModIs DEF Ids
  <2>3. Gap(Plus(p.last, 1), s) <= Gap(Plus(b, m), s)
    BY <1>2, <1>5, <2>1, <2>2 DEF SaysSo
  <2>4. \A x \in p.have : x \in Ids
    BY <2>1 DEF SaysSo
  <2> QED BY <1>4, <2>1, <2>3, <2>4 DEF SaysSo
<1>7. id # b => a.run = <<>>
  BY <1>2
<1> QED BY <1>1, <1>2, <1>3, <1>6, <1>7 DEF Link

\* The sender takes an ack from the wire: what it forgets the receiver has.
LEMMA LinkAck ==
  ASSUME NEW s, NEW n, NEW r, NEW b, NEW k, NEW wd, NEW wa, Link(s, n, r, b, k, wd, wa),
         NEW a \in AckPackets(wa)
  PROVE  Link(s, n, Unconfirmed(r, a), b, k, wd, wa)
<1>1. s \in Ids /\ n \in 0..Half /\ Recv(s, n, b, k) /\ Resending(s, n, r, b, k) /\ SaysSo(s, b, k, a)
  BY DEF Link, AcksTrue
<1> DEFINE l == Plus(a.last, 1)
<1>2. l \in Ids /\ Gap(l, s) <= Gap(b, s) /\ Gap(b, s) <= n /\ b \in Ids
  BY <1>1 DEF SaysSo, Recv
<1>3. Gap(l, s) \in Nat /\ Gap(b, s) \in Nat
  <2>1. Gap(l, s) \in Ids /\ Gap(b, s) \in Ids
    BY <1>1, <1>2, GapIs
  <2> QED BY <2>1, ModIs DEF Ids
<1> HIDE DEF l
<1>4. ASSUME NEW id \in r, Behind(id, l) PROVE Held(s, b, k, id)
  <2>1. id \in Ids /\ Gap(id, s) < n
    BY <1>1 DEF Resending
  <2>2. Gap(id, s) \in Nat
    <3>1. Gap(id, s) \in Ids
      BY <1>1, <2>1, GapIs
    <3> QED BY <3>1, ModIs DEF Ids
  <2>3. Gap(id, s) < Half /\ Gap(l, s) <= Half
    BY <1>1, <1>2, <1>3, <2>1, <2>2, ModIs
  <2>4. Gap(id, s) < Gap(l, s)
    BY <1>1, <1>2, <1>4, <2>1, <2>3, BehindIs
  <2> QED BY <1>2, <1>3, <2>2, <2>4 DEF Held
<1>5. \A id \in r : id \in Unconfirmed(r, a) \/ Held(s, b, k, id)
  BY <1>1, <1>4 DEF Unconfirmed, SaysSo, l
<1>6. Unconfirmed(r, a) \subseteq r
  BY DEF Unconfirmed
<1>7. Resending(s, n, Unconfirmed(r, a), b, k)
  BY <1>1, <1>5, <1>6 DEF Resending
<1> QED BY <1>7 DEF Link

\* The wires lose packets, and gain ones that are resent and acks of now.
LEMMA LinkWires ==
  ASSUME NEW s, NEW n, NEW r, NEW b, NEW k, NEW wd, NEW wa, Link(s, n, r, b, k, wd, wa),
         NEW vd, NEW va,
         \A id \in Ids : Data(id) \in vd => Data(id) \in wd \/ id \in r,
         \A a \in AckPackets(va) : a \in AckPackets(wa) \/ a = AckLocked(b, k)
  PROVE  Link(s, n, r, b, k, vd, va)
<1>1. DataSent(s, n, vd)
  BY DEF Link, DataSent, Resending
<1>2. SaysSo(s, b, k, AckLocked(b, k))
  <2>1. b \in Ids /\ Gap(b, s) \in Ids
    BY GapIs DEF Link, Recv
  <2>2. Plus(AckLocked(b, k).last, 1) = b /\ AckLocked(b, k).have = k
    BY <2>1, AckNames DEF AckLocked
  <2>3. Gap(b, s) <= Gap(b, s)
    BY <2>1, ModIs DEF Ids
  <2>4. k \subseteq Ids
    BY DEF Link, Recv
  <2> QED BY <2>1, <2>2, <2>3, <2>4 DEF SaysSo, Held
<1>3. AcksTrue(s, b, k, va)
  BY <1>2 DEF Link, AcksTrue
<1> QED BY <1>1, <1>3 DEF Link

\* The sender sends new packets, which it will send again.
LEMMA LinkSend ==
  ASSUME NEW s, NEW n, NEW r, NEW b, NEW k, NEW wd, NEW wa, Link(s, n, r, b, k, wd, wa),
         NEW l \in Nat, n + l <= Half, NEW ids \in SUBSET Ids,
         \A x \in Ids : x \in ids <=> n <= Gap(x, s) /\ Gap(x, s) < n + l,
         NEW vd, \A id \in Ids : Data(id) \in vd => Data(id) \in wd \/ id \in ids
  PROVE  Link(s, n + l, r \union ids, b, k, vd, wa)
<1>1. s \in Ids /\ n \in Nat /\ n + l \in 0..Half /\ \A x \in Ids : Gap(x, s) \in Nat
  <2>1. s \in Ids /\ n \in Nat /\ n + l \in 0..Half
    BY ModIs DEF Link
  <2>2. \A x \in Ids : Gap(x, s) \in Ids
    BY <2>1, GapIs
  <2> QED BY <2>1, <2>2, ModIs DEF Ids
<1>2. Recv(s, n + l, b, k)
  BY <1>1 DEF Link, Recv
<1>3. Resending(s, n + l, r \union ids, b, k)
  <2>1. ASSUME NEW x \in r \union ids PROVE x \in Ids /\ Gap(x, s) < n + l
    BY <1>1 DEF Link, Resending
  <2>2. ASSUME NEW x \in Ids, Gap(x, s) < n + l PROVE x \in r \union ids \/ Held(s, b, k, x)
    <3>1. CASE Gap(x, s) < n
      BY <3>1 DEF Link, Resending
    <3>2. CASE n <= Gap(x, s)
      BY <2>2, <3>2
    <3> QED BY <1>1, <3>1, <3>2
  <2> QED BY <2>1, <2>2 DEF Resending
<1>4. DataSent(s, n + l, vd)
  <2> SUFFICES ASSUME NEW x \in Ids, Data(x) \in vd PROVE Gap(x, s) < n + l
    BY DEF DataSent
  <2>1. CASE Data(x) \in wd
    <3>1. Gap(x, s) < n
      BY <2>1 DEF Link, DataSent
    <3> QED BY <1>1, <3>1
  <2> QED BY <2>1
<1> QED BY <1>1, <1>2, <1>3, <1>4 DEF Link

-----------------------------------------------------------------------------
(* The invariant *)

OurLink == Link(session.start, sent, unacked, cam.expect, cam.ahead, toCam, toUs)
TheirLink == Link(session.start, cam.sent, cam.unacked, expect, ahead, toUs, toCam)

\* What has been read and what may be read next is what has come in order.
Delivered == read \o buf = FirstIds(Gap(expect, session.start))

\* A closed session has failed, and was opened.
Closing == (closed = "yes" => err # "none") /\ (closer # "no" => dial = "open")

IInv == TypeOK /\ Closing /\ ReaderAwake /\ OurLink /\ TheirLink /\ Delivered

\* A run of ids is a sequence of ids.
LEMMA RunType ==
  ASSUME NEW base \in Ids, NEW m \in Nat
  PROVE  [i \in 1..m |-> Plus(base, i - 1)] \in Seq(Ids)
<1>1. \A i \in 1..m : Plus(base, i - 1) \in Ids
  BY ModIs, BcUdpAssumption DEF Plus, Ids
<1> QED BY <1>1

\* Plus never leaves the ids.
LEMMA PlusIn ==
  ASSUME NEW id \in Nat, NEW n \in Nat
  PROVE  Plus(id, n) \in Ids
<1>1. id + n \in Nat
  OBVIOUS
<1> QED BY <1>1, BcUdpAssumption DEF Plus, Ids

\* Only the packet in order releases any.
LEMMA NothingReleased ==
  ASSUME NEW id, NEW base, NEW kept, id # base
  PROVE  Arrived(id, base, kept).run = <<>>
<1> DEFINE Early == id # base /\ ~Behind(id, base) /\ Gap(id, base) < MaxAhead
<1>1. CASE Early
  <2>1. Arrived(id, base, kept) = [run |-> <<>>, kept |-> kept \cup {id}]
    BY <1>1 DEF Arrived
  <2> QED BY <2>1
<1>2. CASE Behind(id, base)
  <2>1. Arrived(id, base, kept) = [run |-> <<>>, kept |-> kept]
    BY <1>2 DEF Arrived
  <2> QED BY <2>1
<1>3. CASE ~ Behind(id, base) /\ ~ (Gap(id, base) < MaxAhead)
  <2>1. Arrived(id, base, kept) = [run |-> <<>>, kept |-> kept]
    BY <1>3 DEF Arrived
  <2> QED BY <2>1
<1> QED BY <1>1, <1>2, <1>3

\* The bounds of a session keep its places in the first half.
LEMMA SessionBounds ==
  ASSUME session \in Sessions
  PROVE  /\ session.start \in Ids
         /\ session.ours \in Nat /\ session.ours <= Half /\ session.theirs \in Nat /\ session.theirs <= Half
<1>1. session \in SessionType
  BY BcUdpAssumption
<1>2. session.start \in Ids /\ session.ours \in 0..Mod - 1 /\ session.theirs \in 0..Mod - 1
  BY <1>1 DEF SessionType, Ids
<1> QED BY <1>2, ShortSessions, ModIs DEF Half

\* What TypeOK says of the camera, field by field.
LEMMA CamTypes ==
  ASSUME TypeOK
  PROVE  /\ cam.state \in {"away", "in", "left"} /\ cam.sent \in 0..session.theirs
         /\ cam.unacked \in SUBSET Ids /\ cam.expect \in Ids /\ cam.ahead \in SUBSET Ids
  BY DEF TypeOK

\* Initially nothing has been sent.
LEMMA InitInv == Init => IInv
<1> SUFFICES ASSUME Init PROVE IInv
  OBVIOUS
<1>1. session.start \in Ids /\ session.ours \in Nat /\ session.theirs \in Nat
  BY SessionBounds DEF Init
<1>2. Gap(session.start, session.start) = 0
  BY <1>1, GapIs, ModIs DEF Ids
<1>3. TypeOK
  BY <1>1 DEF Init, TypeOK
<1>4. Closing /\ ReaderAwake
  BY DEF Init, Closing, ReaderAwake
<1>5. \A id \in Ids : ~ (Gap(id, session.start) < 0)
  <2>1. \A id \in Ids : Gap(id, session.start) \in Ids
    BY <1>1, GapIs
  <2> QED BY <2>1, ModIs DEF Ids
<1>6. Link(session.start, 0, {}, session.start, {}, {}, {})
  BY <1>1, <1>2, <1>5, ModIs DEF Link, Recv, Resending, DataSent, AcksTrue, AckPackets
<1>7. OurLink /\ TheirLink
  BY <1>6 DEF Init, OurLink, TheirLink
<1>8. Delivered
  <2>1. FirstIds(0) = <<>>
    BY DEF FirstIds
  <2> QED BY <1>2, <2>1 DEF Init, Delivered
<1> QED BY <1>3, <1>4, <1>7, <1>8 DEF IInv

\* Every step keeps the types.
LEMMA TypesStep ==
  ASSUME TypeOK, Closing, OurLink, TheirLink, [Next]_vars
  PROVE  TypeOK'
<1>1. CASE Dial
  BY <1>1
  DEF Dial, TypeOK, Closing, streamVars, readVars, lifeVars, netVars
<1>2. CASE Ask
  BY <1>2
  DEF Ask, TypeOK, Closing, streamVars, readVars, lifeVars, netVars
<1>3. CASE Connected
  BY <1>3
  DEF Connected, TypeOK, Closing, streamVars, readVars, lifeVars, netVars
<1>4. CASE NotConnected
  BY <1>4
  DEF NotConnected, TypeOK, Closing, streamVars, readVars, lifeVars, netVars
<1>5. ASSUME NEW id \in Ids, HandleData(id) PROVE TypeOK'
  <2> DEFINE a == Arrived(id, expect, ahead)
  <2>2. Link(session.start, cam.sent, cam.unacked, Plus(expect, Len(a.run)), a.kept, toUs, toCam)
        /\ Len(a.run) \in Nat /\ a.run = [i \in 1..Len(a.run) |-> Plus(expect, i - 1)]
    BY <1>5, LinkData DEF HandleData, TheirLink
  <2>3. Plus(expect, Len(a.run)) \in Ids /\ a.kept \in SUBSET Ids
    BY <2>2 DEF Link, Recv
  <2>4. a.run \in Seq(Ids)
    BY <2>2, RunType DEF TypeOK
  <2>5. expect' \in Ids /\ ahead' \subseteq Ids
    BY <1>5, <2>3 DEF HandleData
  <2>6. buf' \in Seq(Ids)
    <3>1. buf' = buf \o a.run
      BY <1>5 DEF HandleData
    <3> HIDE DEF a
    <3> QED BY <2>4, <3>1, ConcatProperties DEF TypeOK
  <2>7. reader' \in {"away", "looking", "waiting", "woken"}
    BY <1>5 DEF HandleData, Signal, TypeOK
  <2> QED BY <1>5, <2>5, <2>6, <2>7 DEF HandleData, TypeOK, readVars, lifeVars
<1>6. CASE HandleAck
  <2>1. PICK a \in AckPackets(toUs) : unacked' = Unconfirmed(unacked, a)
    BY <1>6 DEF HandleAck
  <2>2. unacked' \subseteq Ids
    BY <2>1 DEF Unconfirmed, TypeOK
  <2> QED BY <1>6, <2>2 DEF HandleAck, TypeOK, streamVars, readVars, lifeVars
<1>7. CASE HandleDisc
  BY <1>7
  DEF HandleDisc, Fail, Signal, TypeOK, Closing, streamVars, readVars, lifeVars, netVars
<1>8. CASE RecvEnds
  BY <1>8
  DEF RecvEnds, Fail, Signal, TypeOK, Closing, streamVars, readVars, lifeVars, netVars
<1>9. ASSUME NEW due \in SUBSET unacked, Tick(due) PROVE TypeOK'
  BY <1>9
  DEF Tick, Fail, Signal, TypeOK, Closing, streamVars, readVars, lifeVars, netVars
<1>10. CASE TimerEnds
  BY <1>10
  DEF TimerEnds, TypeOK, Closing, streamVars, readVars, lifeVars, netVars
<1>11. CASE Read
  BY <1>11
  DEF Read, TypeOK, Closing, streamVars, readVars, lifeVars, netVars
<1>12. CASE Look
  <2>1. buf' \in Seq(Ids) /\ read' \in Seq(Ids)
    <3>1. CASE buf # <<>> /\ closed = "no"
      <4>1. PICK n \in 1..Len(buf) : read' = read \o SubSeq(buf, 1, n) /\ buf' = SubSeq(buf, n + 1, Len(buf))
        BY <1>12, <3>1 DEF Look
      <4>2. Len(buf) \in Nat /\ n \in Nat /\ buf \in Seq(Ids) /\ read \in Seq(Ids)
        BY DEF TypeOK
      <4>3. SubSeq(buf, 1, n) \in Seq(Ids) /\ SubSeq(buf, n + 1, Len(buf)) \in Seq(Ids)
        <5>1. \A i \in 1..n : i \in 1..Len(buf)
          BY <4>2
        <5>2. \A i \in n + 1..Len(buf) : i \in 1..Len(buf)
          BY <4>2
        <5> QED BY <4>2, <5>1, <5>2, SubSeqProperties
      <4> QED BY <4>1, <4>2, <4>3, ConcatProperties
    <3>2. CASE ~ (buf # <<>> /\ closed = "no")
      BY <1>12, <3>2 DEF Look, TypeOK
    <3> QED BY <3>1, <3>2
  <2>2. reader' \in {"away", "looking", "waiting", "woken"} /\ held' \in {"none", "set"}
    BY <1>12 DEF Look, TypeOK
  <2> QED BY <1>12, <2>1, <2>2 DEF Look, TypeOK, lifeVars
<1>13. CASE Woken
  BY <1>13
  DEF Woken, TypeOK, Closing, streamVars, readVars, lifeVars, netVars
<1>14. CASE Expire
  BY <1>14
  DEF Expire, TypeOK, Closing, streamVars, readVars, lifeVars, netVars
<1>15. CASE SetReadDeadline
  BY <1>15
  DEF SetReadDeadline, Signal, TypeOK, Closing, streamVars, readVars, lifeVars, netVars
<1>16. ASSUME NEW n \in 1..session.ours, Write(n) PROVE TypeOK'
  <2>1. sent' \in 0..session.ours
    BY <1>16, SessionBounds DEF Write, TypeOK
  <2>2. unacked' \subseteq Ids
    <3>1. \A i \in 0..n - 1 : Plus(NextID, i) \in Ids
      <4>1. session.start \in Nat /\ sent \in Nat
        BY SessionBounds, ModIs DEF TypeOK, Ids
      <4>2. NextID \in Nat
        <5>1. NextID \in Ids
          BY <4>1, PlusIn DEF NextID
        <5> QED BY <5>1, ModIs DEF Ids
      <4>3. \A i \in 0..n - 1 : i \in Nat
        OBVIOUS
      <4> QED BY <4>2, <4>3, PlusIn
    <3> QED BY <1>16, <3>1 DEF Write, TypeOK
  <2> QED BY <1>16, <2>1, <2>2 DEF Write, TypeOK, streamVars, readVars, lifeVars
<1>17. CASE Close
  BY <1>17
  DEF Close, Fail, Signal, TypeOK, Closing, streamVars, readVars, lifeVars, netVars
<1>18. CASE CloseTell
  BY <1>18
  DEF CloseTell, TypeOK, Closing, streamVars, readVars, lifeVars, netVars
<1>19. CASE CloseSocket
  BY <1>19
  DEF CloseSocket, TypeOK, Closing, streamVars, readVars, lifeVars, netVars
<1>20. CASE CloseReturns
  BY <1>20
  DEF CloseReturns, TypeOK, Closing, streamVars, readVars, lifeVars, netVars
<1>21. CASE CamAnswer
  <2>1. cam' \in [state : {"away", "in", "left"}, sent : 0..session.theirs,
                  unacked : SUBSET Ids, expect : Ids, ahead : SUBSET Ids]
    BY <1>21 DEF CamAnswer, TypeOK
  <2>2. UNCHANGED ourVars
    BY <1>21 DEF CamAnswer
  <2> QED BY <2>1, <2>2 DEF TypeOK, ourVars, streamVars, readVars, lifeVars
<1>22. CASE CamSend
  <2>1. cam' \in [state : {"away", "in", "left"}, sent : 0..session.theirs,
                  unacked : SUBSET Ids, expect : Ids, ahead : SUBSET Ids]
    <3>1. cam' = [cam EXCEPT !.sent = cam.sent + 1, !.unacked = cam.unacked \union {NextTheirs}]
      BY <1>22 DEF CamSend
    <3>2. NextTheirs \in Ids
      <4>1. session.start \in Nat /\ cam.sent \in Nat
        BY SessionBounds, CamTypes, ModIs DEF TypeOK, Ids
      <4> QED BY <4>1, PlusIn DEF NextTheirs
    <3>3. cam.sent + 1 \in 0..session.theirs
      BY <1>22, CamTypes, SessionBounds DEF CamSend, TypeOK
    <3> QED BY <3>1, <3>2, <3>3 DEF TypeOK
  <2>2. UNCHANGED ourVars
    BY <1>22 DEF CamSend
  <2> QED BY <2>1, <2>2 DEF TypeOK, ourVars, streamVars, readVars, lifeVars
<1>23. CASE CamAck
  BY <1>23
  DEF CamAck, TypeOK, Closing, ourVars, streamVars, readVars, lifeVars, netVars
<1>24. CASE CamHandleAck
  <2>1. cam' \in [state : {"away", "in", "left"}, sent : 0..session.theirs,
                  unacked : SUBSET Ids, expect : Ids, ahead : SUBSET Ids]
    <3>1. PICK a \in AckPackets(toCam) : cam' = [cam EXCEPT !.unacked = Unconfirmed(cam.unacked, a)]
      BY <1>24 DEF CamHandleAck
    <3>2. Unconfirmed(cam.unacked, a) \subseteq cam.unacked
      BY DEF Unconfirmed
    <3> QED BY <3>1, <3>2 DEF TypeOK
  <2>2. UNCHANGED ourVars
    BY <1>24 DEF CamHandleAck
  <2> QED BY <2>1, <2>2 DEF TypeOK, ourVars, streamVars, readVars, lifeVars
<1>25. CASE CamLeave
  <2>1. cam' \in [state : {"away", "in", "left"}, sent : 0..session.theirs,
                  unacked : SUBSET Ids, expect : Ids, ahead : SUBSET Ids]
    BY <1>25 DEF CamLeave, TypeOK
  <2>2. UNCHANGED ourVars
    BY <1>25 DEF CamLeave
  <2> QED BY <2>1, <2>2 DEF TypeOK, ourVars, streamVars, readVars, lifeVars
<1>26. ASSUME NEW id \in cam.unacked, CamResend(id) PROVE TypeOK'
  BY <1>26
  DEF CamResend, TypeOK, Closing, ourVars, streamVars, readVars, lifeVars, netVars
<1>27. ASSUME NEW id \in Ids, CamHandleData(id) PROVE TypeOK'
  <2>1. cam' \in [state : {"away", "in", "left"}, sent : 0..session.theirs,
                  unacked : SUBSET Ids, expect : Ids, ahead : SUBSET Ids]
    <3> DEFINE a == Arrived(id, cam.expect, cam.ahead)
    <3>1. Link(session.start, sent, unacked, Plus(cam.expect, Len(a.run)), a.kept, toCam, toUs)
      BY <1>27, LinkData DEF CamHandleData, OurLink
    <3>2. Plus(cam.expect, Len(a.run)) \in Ids /\ a.kept \in SUBSET Ids
      BY <3>1 DEF Link, Recv
    <3>3. cam' = [cam EXCEPT !.expect = Plus(cam.expect, Len(a.run)), !.ahead = a.kept]
      BY <1>27 DEF CamHandleData
    <3> HIDE DEF a
    <3> QED BY <3>2, <3>3 DEF TypeOK
  <2>2. UNCHANGED ourVars
    BY <1>27 DEF CamHandleData
  <2> QED BY <2>1, <2>2 DEF TypeOK, ourVars, streamVars, readVars, lifeVars
<1>28. CASE Lose
  BY <1>28
  DEF Lose, TypeOK, Closing, ourVars, streamVars, readVars, lifeVars, netVars
<1>29. CASE UNCHANGED vars
  BY <1>29 DEF TypeOK, vars, lifeVars, readVars, streamVars, netVars
<1> QED
  BY <1>1, <1>2, <1>3, <1>4, <1>5, <1>6, <1>7, <1>8, <1>9, <1>10, <1>11, <1>12,
     <1>13, <1>14, <1>15, <1>16, <1>17, <1>18, <1>19, <1>20, <1>21, <1>22, <1>23, <1>24,
     <1>25, <1>26, <1>27, <1>28, <1>29 DEF Next

\* Close fails the session, and only an open one is closed.
LEMMA ClosingStep ==
  ASSUME TypeOK, Closing, [Next]_vars
  PROVE  Closing'
<1>1. CASE Dial
  BY <1>1
  DEF Dial, TypeOK, Closing, streamVars, readVars, lifeVars, netVars
<1>2. CASE Ask
  BY <1>2
  DEF Ask, TypeOK, Closing, streamVars, readVars, lifeVars, netVars
<1>3. CASE Connected
  BY <1>3
  DEF Connected, TypeOK, Closing, streamVars, readVars, lifeVars, netVars
<1>4. CASE NotConnected
  BY <1>4
  DEF NotConnected, TypeOK, Closing, streamVars, readVars, lifeVars, netVars
<1>5. ASSUME NEW id \in Ids, HandleData(id) PROVE Closing'
  BY <1>5
  DEF HandleData, Signal, TypeOK, Closing, streamVars, readVars, lifeVars, netVars
<1>6. CASE HandleAck
  BY <1>6
  DEF HandleAck, TypeOK, Closing, streamVars, readVars, lifeVars, netVars
<1>7. CASE HandleDisc
  BY <1>7
  DEF HandleDisc, Fail, Signal, TypeOK, Closing, streamVars, readVars, lifeVars, netVars
<1>8. CASE RecvEnds
  BY <1>8
  DEF RecvEnds, Fail, Signal, TypeOK, Closing, streamVars, readVars, lifeVars, netVars
<1>9. ASSUME NEW due \in SUBSET unacked, Tick(due) PROVE Closing'
  BY <1>9
  DEF Tick, Fail, Signal, TypeOK, Closing, streamVars, readVars, lifeVars, netVars
<1>10. CASE TimerEnds
  BY <1>10
  DEF TimerEnds, TypeOK, Closing, streamVars, readVars, lifeVars, netVars
<1>11. CASE Read
  BY <1>11
  DEF Read, TypeOK, Closing, streamVars, readVars, lifeVars, netVars
<1>12. CASE Look
  BY <1>12
  DEF Look, TypeOK, Closing, streamVars, readVars, lifeVars, netVars
<1>13. CASE Woken
  BY <1>13
  DEF Woken, TypeOK, Closing, streamVars, readVars, lifeVars, netVars
<1>14. CASE Expire
  BY <1>14
  DEF Expire, TypeOK, Closing, streamVars, readVars, lifeVars, netVars
<1>15. CASE SetReadDeadline
  BY <1>15
  DEF SetReadDeadline, Signal, TypeOK, Closing, streamVars, readVars, lifeVars, netVars
<1>16. ASSUME NEW n \in 1..session.ours, Write(n) PROVE Closing'
  BY <1>16
  DEF Write, TypeOK, Closing, streamVars, readVars, lifeVars, netVars
<1>17. CASE Close
  BY <1>17
  DEF Close, Fail, Signal, TypeOK, Closing, streamVars, readVars, lifeVars, netVars
<1>18. CASE CloseTell
  BY <1>18
  DEF CloseTell, TypeOK, Closing, streamVars, readVars, lifeVars, netVars
<1>19. CASE CloseSocket
  BY <1>19
  DEF CloseSocket, TypeOK, Closing, streamVars, readVars, lifeVars, netVars
<1>20. CASE CloseReturns
  BY <1>20
  DEF CloseReturns, TypeOK, Closing, streamVars, readVars, lifeVars, netVars
<1>21. CASE CamAnswer
  BY <1>21
  DEF CamAnswer, TypeOK, Closing, ourVars, streamVars, readVars, lifeVars, netVars
<1>22. CASE CamSend
  BY <1>22
  DEF CamSend, TypeOK, Closing, ourVars, streamVars, readVars, lifeVars, netVars
<1>23. CASE CamAck
  BY <1>23
  DEF CamAck, TypeOK, Closing, ourVars, streamVars, readVars, lifeVars, netVars
<1>24. CASE CamHandleAck
  BY <1>24
  DEF CamHandleAck, TypeOK, Closing, ourVars, streamVars, readVars, lifeVars, netVars
<1>25. CASE CamLeave
  BY <1>25
  DEF CamLeave, TypeOK, Closing, ourVars, streamVars, readVars, lifeVars, netVars
<1>26. ASSUME NEW id \in cam.unacked, CamResend(id) PROVE Closing'
  BY <1>26
  DEF CamResend, TypeOK, Closing, ourVars, streamVars, readVars, lifeVars, netVars
<1>27. ASSUME NEW id \in Ids, CamHandleData(id) PROVE Closing'
  BY <1>27
  DEF CamHandleData, TypeOK, Closing, ourVars, streamVars, readVars, lifeVars, netVars
<1>28. CASE Lose
  BY <1>28
  DEF Lose, TypeOK, Closing, ourVars, streamVars, readVars, lifeVars, netVars
<1>29. CASE UNCHANGED vars
  BY <1>29 DEF Closing, vars, lifeVars, readVars, streamVars, netVars
<1> QED
  BY <1>1, <1>2, <1>3, <1>4, <1>5, <1>6, <1>7, <1>8, <1>9, <1>10, <1>11, <1>12,
     <1>13, <1>14, <1>15, <1>16, <1>17, <1>18, <1>19, <1>20, <1>21, <1>22, <1>23, <1>24,
     <1>25, <1>26, <1>27, <1>28, <1>29 DEF Next

\* Whatever there is to return wakes the reader.
LEMMA AwakeStep ==
  ASSUME TypeOK, Closing, ReaderAwake, [Next]_vars
  PROVE  ReaderAwake'
<1>1. CASE Dial
  BY <1>1
  DEF Dial, TypeOK, Closing, ReaderAwake, streamVars, readVars, lifeVars, netVars
<1>2. CASE Ask
  BY <1>2
  DEF Ask, TypeOK, Closing, ReaderAwake, streamVars, readVars, lifeVars, netVars
<1>3. CASE Connected
  BY <1>3
  DEF Connected, TypeOK, Closing, ReaderAwake, streamVars, readVars, lifeVars, netVars
<1>4. CASE NotConnected
  BY <1>4
  DEF NotConnected, TypeOK, Closing, ReaderAwake, streamVars, readVars, lifeVars, netVars
<1>5. ASSUME NEW id \in Ids, HandleData(id) PROVE ReaderAwake'
  <2>1. CASE id = expect
    BY <1>5, <2>1 DEF HandleData, Signal, ReaderAwake, TypeOK
  <2>2. CASE id # expect
    <3> DEFINE a == Arrived(id, expect, ahead)
    <3>1. a.run = <<>>
      BY <2>2, NothingReleased
    <3>2. buf' = buf \o <<>>
      BY <1>5, <3>1 DEF HandleData
    <3>3. buf' = buf
      BY <3>2, ConcatEmptySeq DEF TypeOK
    <3> QED BY <1>5, <2>2, <3>3 DEF HandleData, ReaderAwake
  <2> QED BY <2>1, <2>2
<1>6. CASE HandleAck
  BY <1>6
  DEF HandleAck, TypeOK, Closing, ReaderAwake, streamVars, readVars, lifeVars, netVars
<1>7. CASE HandleDisc
  BY <1>7
  DEF HandleDisc, Fail, Signal, TypeOK, Closing, ReaderAwake, streamVars, readVars, lifeVars, netVars
<1>8. CASE RecvEnds
  BY <1>8
  DEF RecvEnds, Fail, Signal, TypeOK, Closing, ReaderAwake, streamVars, readVars, lifeVars, netVars
<1>9. ASSUME NEW due \in SUBSET unacked, Tick(due) PROVE ReaderAwake'
  BY <1>9
  DEF Tick, Fail, Signal, TypeOK, Closing, ReaderAwake, streamVars, readVars, lifeVars, netVars
<1>10. CASE TimerEnds
  BY <1>10
  DEF TimerEnds, TypeOK, Closing, ReaderAwake, streamVars, readVars, lifeVars, netVars
<1>11. CASE Read
  BY <1>11
  DEF Read, TypeOK, Closing, ReaderAwake, streamVars, readVars, lifeVars, netVars
<1>12. CASE Look
  BY <1>12
  DEF Look, TypeOK, Closing, ReaderAwake, streamVars, readVars, lifeVars, netVars
<1>13. CASE Woken
  BY <1>13
  DEF Woken, TypeOK, Closing, ReaderAwake, streamVars, readVars, lifeVars, netVars
<1>14. CASE Expire
  BY <1>14
  DEF Expire, TypeOK, Closing, ReaderAwake, streamVars, readVars, lifeVars, netVars
<1>15. CASE SetReadDeadline
  BY <1>15
  DEF SetReadDeadline, Signal, TypeOK, Closing, ReaderAwake, streamVars, readVars, lifeVars, netVars
<1>16. ASSUME NEW n \in 1..session.ours, Write(n) PROVE ReaderAwake'
  BY <1>16
  DEF Write, TypeOK, Closing, ReaderAwake, streamVars, readVars, lifeVars, netVars
<1>17. CASE Close
  BY <1>17
  DEF Close, Fail, Signal, TypeOK, Closing, ReaderAwake, streamVars, readVars, lifeVars, netVars
<1>18. CASE CloseTell
  BY <1>18
  DEF CloseTell, TypeOK, Closing, ReaderAwake, streamVars, readVars, lifeVars, netVars
<1>19. CASE CloseSocket
  BY <1>19
  DEF CloseSocket, TypeOK, Closing, ReaderAwake, streamVars, readVars, lifeVars, netVars
<1>20. CASE CloseReturns
  BY <1>20
  DEF CloseReturns, TypeOK, Closing, ReaderAwake, streamVars, readVars, lifeVars, netVars
<1>21. CASE CamAnswer
  BY <1>21
  DEF CamAnswer, TypeOK, Closing, ReaderAwake, ourVars, streamVars, readVars, lifeVars, netVars
<1>22. CASE CamSend
  BY <1>22
  DEF CamSend, TypeOK, Closing, ReaderAwake, ourVars, streamVars, readVars, lifeVars, netVars
<1>23. CASE CamAck
  BY <1>23
  DEF CamAck, TypeOK, Closing, ReaderAwake, ourVars, streamVars, readVars, lifeVars, netVars
<1>24. CASE CamHandleAck
  BY <1>24
  DEF CamHandleAck, TypeOK, Closing, ReaderAwake, ourVars, streamVars, readVars, lifeVars, netVars
<1>25. CASE CamLeave
  BY <1>25
  DEF CamLeave, TypeOK, Closing, ReaderAwake, ourVars, streamVars, readVars, lifeVars, netVars
<1>26. ASSUME NEW id \in cam.unacked, CamResend(id) PROVE ReaderAwake'
  BY <1>26
  DEF CamResend, TypeOK, Closing, ReaderAwake, ourVars, streamVars, readVars, lifeVars, netVars
<1>27. ASSUME NEW id \in Ids, CamHandleData(id) PROVE ReaderAwake'
  BY <1>27
  DEF CamHandleData, TypeOK, Closing, ReaderAwake, ourVars, streamVars, readVars, lifeVars, netVars
<1>28. CASE Lose
  BY <1>28
  DEF Lose, TypeOK, Closing, ReaderAwake, ourVars, streamVars, readVars, lifeVars, netVars
<1>29. CASE UNCHANGED vars
  BY <1>29 DEF ReaderAwake, vars, lifeVars, readVars, streamVars, netVars
<1> QED
  BY <1>1, <1>2, <1>3, <1>4, <1>5, <1>6, <1>7, <1>8, <1>9, <1>10, <1>11, <1>12,
     <1>13, <1>14, <1>15, <1>16, <1>17, <1>18, <1>19, <1>20, <1>21, <1>22, <1>23, <1>24,
     <1>25, <1>26, <1>27, <1>28, <1>29 DEF Next

\* The kinds of packets are told apart.
LEMMA Kinds ==
  /\ \A id, x : Data(id) = Data(x) => id = x
  /\ \A id, k : k # "data" => Data(id) # Discovery(k)
  /\ \A id, b, k : Data(id) # AckLocked(b, k)
  /\ \A id, w : Data(id) \notin AckPackets(w)
  /\ \A w, k : k # "ack" => Discovery(k) \notin AckPackets(w)
<1>1. \A id : Data(id).kind = "data" /\ Data(id).id = id
  BY DEF Data
<1>2. \A b, k : AckLocked(b, k).kind = "ack"
  BY DEF AckLocked
<1>3. \A k : Discovery(k).kind = k
  BY DEF Discovery
<1>4. \A w : \A p \in AckPackets(w) : p.kind = "ack"
  BY DEF AckPackets
<1>5. \A id, w : Data(id) \notin AckPackets(w)
  BY <1>1, <1>4
<1>6. \A w, k : k # "ack" => Discovery(k) \notin AckPackets(w)
  BY <1>3, <1>4
<1>7. \A id, b, k : Data(id) # AckLocked(b, k)
  BY <1>1, <1>2
<1>8. \A id, k : k # "data" => Data(id) # Discovery(k)
  BY <1>1, <1>3
<1>9. \A id, x : Data(id) = Data(x) => id = x
  BY <1>1
<1> QED BY <1>5, <1>6, <1>7, <1>8, <1>9

\* What is new on a wire from a sender that resends and acknowledges.
Sends(w, v, resent, base, kept) ==
  /\ \A id \in Ids : Data(id) \in v => Data(id) \in w \/ id \in resent
  /\ \A a \in AckPackets(v) : a \in AckPackets(w) \/ a = AckLocked(base, kept)

\* Both wires are such, and nothing else of a link changes.
LEMMA LinksKept ==
  ASSUME OurLink, TheirLink,
         Sends(toCam, toCam', unacked, expect, ahead),
         Sends(toUs, toUs', cam.unacked, cam.expect, cam.ahead),
         UNCHANGED <<session, sent, unacked, expect, ahead>>,
         cam'.sent = cam.sent, cam'.unacked = cam.unacked,
         cam'.expect = cam.expect, cam'.ahead = cam.ahead
  PROVE  OurLink' /\ TheirLink'
<1>1. Link(session.start, sent, unacked, cam.expect, cam.ahead, toCam', toUs')
  <2>1. Link(session.start, sent, unacked, cam.expect, cam.ahead, toCam, toUs)
    BY DEF OurLink
  <2>2. \A id \in Ids : Data(id) \in toCam' => Data(id) \in toCam \/ id \in unacked
    BY DEF Sends
  <2>3. \A a \in AckPackets(toUs') : a \in AckPackets(toUs) \/ a = AckLocked(cam.expect, cam.ahead)
    BY DEF Sends
  <2> QED BY <2>1, <2>2, <2>3, LinkWires
<1>2. Link(session.start, cam.sent, cam.unacked, expect, ahead, toUs', toCam')
  <2>1. Link(session.start, cam.sent, cam.unacked, expect, ahead, toUs, toCam)
    BY DEF TheirLink
  <2>2. \A id \in Ids : Data(id) \in toUs' => Data(id) \in toUs \/ id \in cam.unacked
    BY DEF Sends
  <2>3. \A a \in AckPackets(toCam') : a \in AckPackets(toCam) \/ a = AckLocked(expect, ahead)
    BY DEF Sends
  <2> QED BY <2>1, <2>2, <2>3, LinkWires
<1> QED BY <1>1, <1>2 DEF OurLink, TheirLink

\* A wire as it was, or with packets lost.
LEMMA SendsLess ==
  ASSUME NEW w, NEW v, v \subseteq w, NEW r, NEW b, NEW k
  PROVE  Sends(w, v, r, b, k)
  BY DEF Sends, AckPackets

\* A handshake packet is neither data nor ack.
LEMMA SendsDiscovery ==
  ASSUME NEW w, NEW c \in {"connect", "accept", "refuse", "disc"}, NEW r, NEW b, NEW k
  PROVE  Sends(w, w \union {Discovery(c)}, r, b, k)
<1>1. \A id : Data(id) # Discovery(c)
  BY Kinds
<1>2. Discovery(c).kind # "ack"
  BY DEF Discovery
<1> QED BY <1>1, <1>2 DEF Sends, AckPackets

\* A packet sent again, with or without an ack before it.
LEMMA SendsAgain ==
  ASSUME NEW w, NEW r, NEW b, NEW k, NEW due \in SUBSET r
  PROVE  Sends(w, Carry(w, AckLocked(b, k)) \union {Data(id) : id \in due}, r, b, k)
         /\ Sends(w, w \union {Data(id) : id \in due}, r, b, k)
<1> DEFINE v == Carry(w, AckLocked(b, k)) \union {Data(id) : id \in due}
<1>1. Carry(w, AckLocked(b, k)) \subseteq w \union {AckLocked(b, k)}
  BY DEF Carry
<1>2. ASSUME NEW id \in Ids, Data(id) \in v PROVE Data(id) \in w \/ id \in r
  <2>1. Data(id) \in w \/ Data(id) = AckLocked(b, k) \/ \E x \in due : Data(id) = Data(x)
    BY <1>1, <1>2
  <2> QED BY <2>1, Kinds
<1>3. ASSUME NEW a \in AckPackets(v) PROVE a \in AckPackets(w) \/ a = AckLocked(b, k)
  <2>1. a \in v /\ a.kind = "ack"
    BY DEF AckPackets
  <2>2. \A x : Data(x).kind # "ack"
    BY DEF Data
  <2>3. a \in w \/ a = AckLocked(b, k)
    BY <1>1, <2>1, <2>2
  <2> QED BY <2>1, <2>3 DEF AckPackets
<1>4. ASSUME NEW id \in Ids, Data(id) \in w \union {Data(x) : x \in due} PROVE Data(id) \in w \/ id \in r
  <2>1. Data(id) \in w \/ \E x \in due : Data(id) = Data(x)
    BY <1>4
  <2> QED BY <2>1, Kinds
<1>5. ASSUME NEW a \in AckPackets(w \union {Data(x) : x \in due}) PROVE a \in AckPackets(w)
  <2>1. \A x : Data(x).kind # "ack"
    BY DEF Data
  <2> QED BY <2>1 DEF AckPackets
<1> QED BY <1>2, <1>3, <1>4, <1>5 DEF Sends

\* The ids of n packets from the next one on are those at the next n places.
LEMMA NewIds ==
  ASSUME TypeOK, NEW n \in Nat \ {0}, sent + n <= session.ours
  PROVE  LET ids == {Plus(NextID, i) : i \in 0..n - 1}
         IN  /\ ids \in SUBSET Ids
             /\ \A x \in Ids : x \in ids <=> sent <= Gap(x, session.start)
                                             /\ Gap(x, session.start) < sent + n
<1> DEFINE s == session.start
           ids == {Plus(NextID, i) : i \in 0..n - 1}
<1>1. s \in Ids /\ sent \in Nat /\ sent + n <= Half
  BY SessionBounds, ModIs DEF TypeOK
<1>2. NextID \in Ids /\ Gap(NextID, s) = sent
  <2>1. sent \in 0..Mod - 1
    BY <1>1, ModIs
  <2> QED BY <1>1, <2>1, PlaceOfPlus DEF NextID
<1> HIDE DEF s
<1>3. \A i \in 0..n - 1 : Plus(NextID, i) \in Ids /\ Gap(Plus(NextID, i), s) = sent + i
  <2> SUFFICES ASSUME NEW i \in 0..n - 1
               PROVE  Plus(NextID, i) \in Ids /\ Gap(Plus(NextID, i), s) = sent + i
    OBVIOUS
  <2>1. i \in Nat /\ sent + i < Mod
    BY <1>1, ModIs
  <2> QED BY <1>1, <1>2, <2>1, PlaceFurther
<1>4. ASSUME NEW x \in ids PROVE sent <= Gap(x, s) /\ Gap(x, s) < sent + n
  <2>1. PICK i \in 0..n - 1 : x = Plus(NextID, i)
    OBVIOUS
  <2> QED BY <1>1, <1>3, <2>1
<1>5. ASSUME NEW x \in Ids, sent <= Gap(x, s), Gap(x, s) < sent + n PROVE x \in ids
  <2>1. Gap(x, s) \in Nat
    <3>1. Gap(x, s) \in Ids
      BY <1>1, GapIs
    <3> QED BY <3>1, ModIs DEF Ids
  <2> DEFINE i == Gap(x, s) - sent
  <2>2. i \in 0..n - 1 /\ sent + i = Gap(x, s)
    BY <1>1, <1>5, <2>1
  <2> HIDE DEF i
  <2>3. Plus(NextID, i) \in Ids /\ Gap(Plus(NextID, i), s) = Gap(x, s)
    BY <1>3, <2>2
  <2>4. x = Plus(NextID, i)
    BY <1>1, <2>3, SamePlace
  <2> QED BY <2>2, <2>4
<1>6. ids \in SUBSET Ids
  BY <1>3
<1> QED BY <1>4, <1>5, <1>6 DEF s

\* Every step keeps both directions.
LEMMA LinksStep ==
  ASSUME TypeOK, OurLink, TheirLink, [Next]_vars
  PROVE  OurLink' /\ TheirLink'
<1>1. CASE Dial
  <2>1. Sends(toCam, toCam', unacked, expect, ahead)
    BY <1>1, SendsLess DEF Dial, streamVars, readVars, lifeVars, netVars
  <2>2. Sends(toUs, toUs', cam.unacked, cam.expect, cam.ahead)
    BY <1>1, SendsLess DEF Dial, streamVars, readVars, lifeVars, netVars
  <2>3. UNCHANGED <<session, sent, unacked, expect, ahead>>
    BY <1>1 DEF Dial, streamVars, readVars, lifeVars, netVars
  <2>4. cam'.sent = cam.sent /\ cam'.unacked = cam.unacked /\ cam'.expect = cam.expect /\ cam'.ahead = cam.ahead
    BY <1>1 DEF Dial, streamVars, readVars, lifeVars, netVars
  <2> QED BY <2>1, <2>2, <2>3, <2>4, LinksKept
<1>2. CASE Ask
  <2>1. Sends(toCam, toCam', unacked, expect, ahead)
    BY <1>2, SendsDiscovery DEF Ask
  <2>2. Sends(toUs, toUs', cam.unacked, cam.expect, cam.ahead)
    BY <1>2, SendsLess DEF Ask, streamVars, readVars, lifeVars, netVars
  <2>3. UNCHANGED <<session, sent, unacked, expect, ahead>>
    BY <1>2 DEF Ask, streamVars, readVars, lifeVars, netVars
  <2>4. cam'.sent = cam.sent /\ cam'.unacked = cam.unacked /\ cam'.expect = cam.expect /\ cam'.ahead = cam.ahead
    BY <1>2 DEF Ask, streamVars, readVars, lifeVars, netVars
  <2> QED BY <2>1, <2>2, <2>3, <2>4, LinksKept
<1>3. CASE Connected
  <2>1. Sends(toCam, toCam', unacked, expect, ahead)
    BY <1>3, SendsLess DEF Connected, streamVars, readVars, lifeVars, netVars
  <2>2. Sends(toUs, toUs', cam.unacked, cam.expect, cam.ahead)
    BY <1>3, SendsLess DEF Connected, streamVars, readVars, lifeVars, netVars
  <2>3. UNCHANGED <<session, sent, unacked, expect, ahead>>
    BY <1>3 DEF Connected, streamVars, readVars, lifeVars, netVars
  <2>4. cam'.sent = cam.sent /\ cam'.unacked = cam.unacked /\ cam'.expect = cam.expect /\ cam'.ahead = cam.ahead
    BY <1>3 DEF Connected, streamVars, readVars, lifeVars, netVars
  <2> QED BY <2>1, <2>2, <2>3, <2>4, LinksKept
<1>4. CASE NotConnected
  <2>1. Sends(toCam, toCam', unacked, expect, ahead)
    BY <1>4, SendsLess DEF NotConnected, streamVars, readVars, lifeVars, netVars
  <2>2. Sends(toUs, toUs', cam.unacked, cam.expect, cam.ahead)
    BY <1>4, SendsLess DEF NotConnected, streamVars, readVars, lifeVars, netVars
  <2>3. UNCHANGED <<session, sent, unacked, expect, ahead>>
    BY <1>4 DEF NotConnected, streamVars, readVars, lifeVars, netVars
  <2>4. cam'.sent = cam.sent /\ cam'.unacked = cam.unacked /\ cam'.expect = cam.expect /\ cam'.ahead = cam.ahead
    BY <1>4 DEF NotConnected, streamVars, readVars, lifeVars, netVars
  <2> QED BY <2>1, <2>2, <2>3, <2>4, LinksKept
<1>5. ASSUME NEW id \in Ids, HandleData(id) PROVE OurLink' /\ TheirLink'
  <2> DEFINE a == Arrived(id, expect, ahead)
  <2>1. Link(session.start, cam.sent, cam.unacked, Plus(expect, Len(a.run)), a.kept, toUs, toCam)
    BY <1>5, LinkData DEF HandleData, TheirLink
  <2>2. expect' = Plus(expect, Len(a.run)) /\ ahead' = a.kept
    BY <1>5 DEF HandleData
  <2> HIDE DEF a
  <2>3. UNCHANGED <<session, sent, unacked, cam, toUs, toCam>>
    BY <1>5 DEF HandleData, netVars
  <2> QED BY <2>1, <2>2, <2>3 DEF OurLink, TheirLink
<1>6. CASE HandleAck
  <2>1. PICK a \in AckPackets(toUs) : unacked' = Unconfirmed(unacked, a)
    BY <1>6 DEF HandleAck
  <2>2. Link(session.start, sent, Unconfirmed(unacked, a), cam.expect, cam.ahead, toCam, toUs)
    BY LinkAck DEF OurLink
  <2>3. UNCHANGED <<session, sent, expect, ahead, cam, toUs, toCam>>
    BY <1>6 DEF HandleAck, netVars, streamVars
  <2> QED BY <2>1, <2>2, <2>3 DEF OurLink, TheirLink
<1>7. CASE HandleDisc
  <2>1. Sends(toCam, toCam', unacked, expect, ahead)
    BY <1>7, SendsLess DEF HandleDisc, streamVars, readVars, lifeVars, netVars
  <2>2. Sends(toUs, toUs', cam.unacked, cam.expect, cam.ahead)
    BY <1>7, SendsLess DEF HandleDisc, streamVars, readVars, lifeVars, netVars
  <2>3. UNCHANGED <<session, sent, unacked, expect, ahead>>
    BY <1>7 DEF HandleDisc, streamVars, readVars, lifeVars, netVars
  <2>4. cam'.sent = cam.sent /\ cam'.unacked = cam.unacked /\ cam'.expect = cam.expect /\ cam'.ahead = cam.ahead
    BY <1>7 DEF HandleDisc, streamVars, readVars, lifeVars, netVars
  <2> QED BY <2>1, <2>2, <2>3, <2>4, LinksKept
<1>8. CASE RecvEnds
  <2>1. Sends(toCam, toCam', unacked, expect, ahead)
    BY <1>8, SendsLess DEF RecvEnds, streamVars, readVars, lifeVars, netVars
  <2>2. Sends(toUs, toUs', cam.unacked, cam.expect, cam.ahead)
    BY <1>8, SendsLess DEF RecvEnds, streamVars, readVars, lifeVars, netVars
  <2>3. UNCHANGED <<session, sent, unacked, expect, ahead>>
    BY <1>8 DEF RecvEnds, streamVars, readVars, lifeVars, netVars
  <2>4. cam'.sent = cam.sent /\ cam'.unacked = cam.unacked /\ cam'.expect = cam.expect /\ cam'.ahead = cam.ahead
    BY <1>8 DEF RecvEnds, streamVars, readVars, lifeVars, netVars
  <2> QED BY <2>1, <2>2, <2>3, <2>4, LinksKept
<1>9. ASSUME NEW due \in SUBSET unacked, Tick(due) PROVE OurLink' /\ TheirLink'
  <2>1. Sends(toCam, toCam', unacked, expect, ahead)
    BY <1>9, SendsAgain, SendsLess DEF Tick
  <2>2. Sends(toUs, toUs', cam.unacked, cam.expect, cam.ahead)
    BY <1>9, SendsLess DEF Tick, streamVars, readVars, lifeVars, netVars
  <2>3. UNCHANGED <<session, sent, unacked, expect, ahead>>
    BY <1>9 DEF Tick, streamVars, readVars, lifeVars, netVars
  <2>4. cam'.sent = cam.sent /\ cam'.unacked = cam.unacked /\ cam'.expect = cam.expect /\ cam'.ahead = cam.ahead
    BY <1>9 DEF Tick, streamVars, readVars, lifeVars, netVars
  <2> QED BY <2>1, <2>2, <2>3, <2>4, LinksKept
<1>10. CASE TimerEnds
  <2>1. Sends(toCam, toCam', unacked, expect, ahead)
    BY <1>10, SendsLess DEF TimerEnds, streamVars, readVars, lifeVars, netVars
  <2>2. Sends(toUs, toUs', cam.unacked, cam.expect, cam.ahead)
    BY <1>10, SendsLess DEF TimerEnds, streamVars, readVars, lifeVars, netVars
  <2>3. UNCHANGED <<session, sent, unacked, expect, ahead>>
    BY <1>10 DEF TimerEnds, streamVars, readVars, lifeVars, netVars
  <2>4. cam'.sent = cam.sent /\ cam'.unacked = cam.unacked /\ cam'.expect = cam.expect /\ cam'.ahead = cam.ahead
    BY <1>10 DEF TimerEnds, streamVars, readVars, lifeVars, netVars
  <2> QED BY <2>1, <2>2, <2>3, <2>4, LinksKept
<1>11. CASE Read
  <2>1. Sends(toCam, toCam', unacked, expect, ahead)
    BY <1>11, SendsLess DEF Read, streamVars, readVars, lifeVars, netVars
  <2>2. Sends(toUs, toUs', cam.unacked, cam.expect, cam.ahead)
    BY <1>11, SendsLess DEF Read, streamVars, readVars, lifeVars, netVars
  <2>3. UNCHANGED <<session, sent, unacked, expect, ahead>>
    BY <1>11 DEF Read, streamVars, readVars, lifeVars, netVars
  <2>4. cam'.sent = cam.sent /\ cam'.unacked = cam.unacked /\ cam'.expect = cam.expect /\ cam'.ahead = cam.ahead
    BY <1>11 DEF Read, streamVars, readVars, lifeVars, netVars
  <2> QED BY <2>1, <2>2, <2>3, <2>4, LinksKept
<1>12. CASE Look
  <2>1. Sends(toCam, toCam', unacked, expect, ahead)
    BY <1>12, SendsLess DEF Look, streamVars, readVars, lifeVars, netVars
  <2>2. Sends(toUs, toUs', cam.unacked, cam.expect, cam.ahead)
    BY <1>12, SendsLess DEF Look, streamVars, readVars, lifeVars, netVars
  <2>3. UNCHANGED <<session, sent, unacked, expect, ahead>>
    BY <1>12 DEF Look, streamVars, readVars, lifeVars, netVars
  <2>4. cam'.sent = cam.sent /\ cam'.unacked = cam.unacked /\ cam'.expect = cam.expect /\ cam'.ahead = cam.ahead
    BY <1>12 DEF Look, streamVars, readVars, lifeVars, netVars
  <2> QED BY <2>1, <2>2, <2>3, <2>4, LinksKept
<1>13. CASE Woken
  <2>1. Sends(toCam, toCam', unacked, expect, ahead)
    BY <1>13, SendsLess DEF Woken, streamVars, readVars, lifeVars, netVars
  <2>2. Sends(toUs, toUs', cam.unacked, cam.expect, cam.ahead)
    BY <1>13, SendsLess DEF Woken, streamVars, readVars, lifeVars, netVars
  <2>3. UNCHANGED <<session, sent, unacked, expect, ahead>>
    BY <1>13 DEF Woken, streamVars, readVars, lifeVars, netVars
  <2>4. cam'.sent = cam.sent /\ cam'.unacked = cam.unacked /\ cam'.expect = cam.expect /\ cam'.ahead = cam.ahead
    BY <1>13 DEF Woken, streamVars, readVars, lifeVars, netVars
  <2> QED BY <2>1, <2>2, <2>3, <2>4, LinksKept
<1>14. CASE Expire
  <2>1. Sends(toCam, toCam', unacked, expect, ahead)
    BY <1>14, SendsLess DEF Expire, streamVars, readVars, lifeVars, netVars
  <2>2. Sends(toUs, toUs', cam.unacked, cam.expect, cam.ahead)
    BY <1>14, SendsLess DEF Expire, streamVars, readVars, lifeVars, netVars
  <2>3. UNCHANGED <<session, sent, unacked, expect, ahead>>
    BY <1>14 DEF Expire, streamVars, readVars, lifeVars, netVars
  <2>4. cam'.sent = cam.sent /\ cam'.unacked = cam.unacked /\ cam'.expect = cam.expect /\ cam'.ahead = cam.ahead
    BY <1>14 DEF Expire, streamVars, readVars, lifeVars, netVars
  <2> QED BY <2>1, <2>2, <2>3, <2>4, LinksKept
<1>15. CASE SetReadDeadline
  <2>1. Sends(toCam, toCam', unacked, expect, ahead)
    BY <1>15, SendsLess DEF SetReadDeadline, streamVars, readVars, lifeVars, netVars
  <2>2. Sends(toUs, toUs', cam.unacked, cam.expect, cam.ahead)
    BY <1>15, SendsLess DEF SetReadDeadline, streamVars, readVars, lifeVars, netVars
  <2>3. UNCHANGED <<session, sent, unacked, expect, ahead>>
    BY <1>15 DEF SetReadDeadline, streamVars, readVars, lifeVars, netVars
  <2>4. cam'.sent = cam.sent /\ cam'.unacked = cam.unacked /\ cam'.expect = cam.expect /\ cam'.ahead = cam.ahead
    BY <1>15 DEF SetReadDeadline, streamVars, readVars, lifeVars, netVars
  <2> QED BY <2>1, <2>2, <2>3, <2>4, LinksKept
<1>16. ASSUME NEW n \in 1..session.ours, Write(n) PROVE OurLink' /\ TheirLink'
  <2> DEFINE ids == {Plus(NextID, i) : i \in 0..n - 1}
  <2>1. PICK lost \in SUBSET Ids : toCam' = toCam \union {Data(id) : id \in ids \ lost}
    <3>1. n - 1 \in 0..n - 1
      BY SessionBounds DEF TypeOK
    <3>2. {} \in SUBSET Ids /\ {Plus(NextID, n - 1)} \in SUBSET Ids
      BY <3>1, NewIds, <1>16 DEF Write
    <3> QED BY <1>16, <3>2 DEF Write
  <2>2. sent' = sent + n /\ unacked' = unacked \union ids
        /\ UNCHANGED <<session, expect, ahead, cam, toUs>>
    BY <1>16 DEF Write, streamVars
  <2>3. ids \in SUBSET Ids /\ \A x \in Ids : x \in ids <=> sent <= Gap(x, session.start) /\ Gap(x, session.start) < sent + n
    BY <1>16, NewIds DEF Write
  <2>4. n \in Nat /\ sent + n <= Half
    BY <1>16, SessionBounds, ModIs DEF Write, TypeOK
  <2> HIDE DEF ids
  <2>5. \A id \in Ids : Data(id) \in toCam' => Data(id) \in toCam \/ id \in ids
    <3>1. \A id \in Ids : Data(id) \in toCam' => Data(id) \in toCam \/ \E x \in ids : Data(id) = Data(x)
      BY <2>1
    <3> QED BY <3>1, Kinds
  <2>6. Link(session.start, sent + n, unacked \union ids, cam.expect, cam.ahead, toCam', toUs)
    <3>1. Link(session.start, sent, unacked, cam.expect, cam.ahead, toCam, toUs)
      BY DEF OurLink
    <3> QED BY <2>3, <2>4, <2>5, <3>1, LinkSend
  <2>7. Link(session.start, cam.sent, cam.unacked, expect, ahead, toUs, toCam')
    <3>1. Link(session.start, cam.sent, cam.unacked, expect, ahead, toUs, toCam)
      BY DEF TheirLink
    <3>2. \A a \in AckPackets(toCam') : a \in AckPackets(toCam)
      <4>1. \A x : Data(x).kind # "ack"
        BY DEF Data
      <4> QED BY <2>1, <4>1 DEF AckPackets
    <3> QED BY <3>1, <3>2, LinkWires
  <2> QED BY <2>2, <2>6, <2>7 DEF OurLink, TheirLink
<1>17. CASE Close
  <2>1. Sends(toCam, toCam', unacked, expect, ahead)
    BY <1>17, SendsLess DEF Close, streamVars, readVars, lifeVars, netVars
  <2>2. Sends(toUs, toUs', cam.unacked, cam.expect, cam.ahead)
    BY <1>17, SendsLess DEF Close, streamVars, readVars, lifeVars, netVars
  <2>3. UNCHANGED <<session, sent, unacked, expect, ahead>>
    BY <1>17 DEF Close, streamVars, readVars, lifeVars, netVars
  <2>4. cam'.sent = cam.sent /\ cam'.unacked = cam.unacked /\ cam'.expect = cam.expect /\ cam'.ahead = cam.ahead
    BY <1>17 DEF Close, streamVars, readVars, lifeVars, netVars
  <2> QED BY <2>1, <2>2, <2>3, <2>4, LinksKept
<1>18. CASE CloseTell
  <2>1. Sends(toCam, toCam', unacked, expect, ahead)
    BY <1>18, SendsDiscovery DEF CloseTell
  <2>2. Sends(toUs, toUs', cam.unacked, cam.expect, cam.ahead)
    BY <1>18, SendsLess DEF CloseTell, streamVars, readVars, lifeVars, netVars
  <2>3. UNCHANGED <<session, sent, unacked, expect, ahead>>
    BY <1>18 DEF CloseTell, streamVars, readVars, lifeVars, netVars
  <2>4. cam'.sent = cam.sent /\ cam'.unacked = cam.unacked /\ cam'.expect = cam.expect /\ cam'.ahead = cam.ahead
    BY <1>18 DEF CloseTell, streamVars, readVars, lifeVars, netVars
  <2> QED BY <2>1, <2>2, <2>3, <2>4, LinksKept
<1>19. CASE CloseSocket
  <2>1. Sends(toCam, toCam', unacked, expect, ahead)
    BY <1>19, SendsLess DEF CloseSocket, streamVars, readVars, lifeVars, netVars
  <2>2. Sends(toUs, toUs', cam.unacked, cam.expect, cam.ahead)
    BY <1>19, SendsLess DEF CloseSocket, streamVars, readVars, lifeVars, netVars
  <2>3. UNCHANGED <<session, sent, unacked, expect, ahead>>
    BY <1>19 DEF CloseSocket, streamVars, readVars, lifeVars, netVars
  <2>4. cam'.sent = cam.sent /\ cam'.unacked = cam.unacked /\ cam'.expect = cam.expect /\ cam'.ahead = cam.ahead
    BY <1>19 DEF CloseSocket, streamVars, readVars, lifeVars, netVars
  <2> QED BY <2>1, <2>2, <2>3, <2>4, LinksKept
<1>20. CASE CloseReturns
  <2>1. Sends(toCam, toCam', unacked, expect, ahead)
    BY <1>20, SendsLess DEF CloseReturns, streamVars, readVars, lifeVars, netVars
  <2>2. Sends(toUs, toUs', cam.unacked, cam.expect, cam.ahead)
    BY <1>20, SendsLess DEF CloseReturns, streamVars, readVars, lifeVars, netVars
  <2>3. UNCHANGED <<session, sent, unacked, expect, ahead>>
    BY <1>20 DEF CloseReturns, streamVars, readVars, lifeVars, netVars
  <2>4. cam'.sent = cam.sent /\ cam'.unacked = cam.unacked /\ cam'.expect = cam.expect /\ cam'.ahead = cam.ahead
    BY <1>20 DEF CloseReturns, streamVars, readVars, lifeVars, netVars
  <2> QED BY <2>1, <2>2, <2>3, <2>4, LinksKept
<1>21. CASE CamAnswer
  <2>1. Sends(toCam, toCam', unacked, expect, ahead)
    BY <1>21, SendsLess DEF CamAnswer, ourVars, streamVars, readVars, lifeVars, netVars
  <2>2. Sends(toUs, toUs', cam.unacked, cam.expect, cam.ahead)
    <3>1. \E c \in {"accept", "refuse"} : toUs' = toUs \union {Discovery(c)}
      BY <1>21 DEF CamAnswer
    <3>2. PICK c \in {"connect", "accept", "refuse", "disc"} : toUs' = toUs \union {Discovery(c)}
      BY <3>1
    <3> QED BY <3>2, SendsDiscovery
  <2>3. UNCHANGED <<session, sent, unacked, expect, ahead>>
    BY <1>21 DEF CamAnswer, ourVars, streamVars, readVars, lifeVars, netVars
  <2>4. cam'.sent = cam.sent /\ cam'.unacked = cam.unacked /\ cam'.expect = cam.expect /\ cam'.ahead = cam.ahead
    BY <1>21, CamTypes DEF CamAnswer, TypeOK
  <2> QED BY <2>1, <2>2, <2>3, <2>4, LinksKept
<1>22. CASE CamSend
  <2> DEFINE ids == {NextTheirs}
  <2>1. cam' = [cam EXCEPT !.sent = cam.sent + 1, !.unacked = cam.unacked \union ids]
        /\ toUs' = toUs \union {Data(NextTheirs)}
    BY <1>22 DEF CamSend
  <2>2. cam'.sent = cam.sent + 1 /\ cam'.unacked = cam.unacked \union ids
        /\ cam'.expect = cam.expect /\ cam'.ahead = cam.ahead
    BY <2>1 DEF TypeOK
  <2>3. UNCHANGED <<session, sent, unacked, expect, ahead, toCam>>
    BY <1>22 DEF CamSend, ourVars, streamVars
  <2>4. cam.sent + 1 <= Half
    BY <1>22, SessionBounds, CamTypes, ModIs DEF CamSend, TypeOK
  <2>5. ids \in SUBSET Ids /\ \A x \in Ids : x \in ids <=> cam.sent <= Gap(x, session.start) /\ Gap(x, session.start) < cam.sent + 1
    <3>1. cam.sent \in 0..Mod - 1 /\ session.start \in Ids
      BY <2>4, CamTypes, SessionBounds, ModIs DEF TypeOK
    <3>2. NextTheirs \in Ids /\ Gap(NextTheirs, session.start) = cam.sent
      BY <3>1, PlaceOfPlus DEF NextTheirs
    <3>3. \A x \in Ids : Gap(x, session.start) \in Nat
      <4>1. \A x \in Ids : Gap(x, session.start) \in Ids
        BY <3>1, GapIs
      <4> QED BY <4>1, ModIs DEF Ids
    <3>4. \A x \in Ids : Gap(x, session.start) = cam.sent => x = NextTheirs
      BY <3>1, <3>2, SamePlace
    <3>5. \A x \in Ids : cam.sent <= Gap(x, session.start) /\ Gap(x, session.start) < cam.sent + 1 => Gap(x, session.start) = cam.sent
      BY <3>1, <3>3
    <3> QED BY <3>1, <3>2, <3>4, <3>5
  <2> HIDE DEF ids
  <2>6. \A id \in Ids : Data(id) \in toUs' => Data(id) \in toUs \/ id \in ids
    BY <2>1, Kinds DEF ids
  <2>7. Link(session.start, cam.sent + 1, cam.unacked \union ids, expect, ahead, toUs', toCam)
    <3>1. Link(session.start, cam.sent, cam.unacked, expect, ahead, toUs, toCam)
      BY DEF TheirLink
    <3> QED BY <2>4, <2>5, <2>6, <3>1, LinkSend
  <2>8. Link(session.start, sent, unacked, cam.expect, cam.ahead, toCam, toUs')
    <3>1. Link(session.start, sent, unacked, cam.expect, cam.ahead, toCam, toUs)
      BY DEF OurLink
    <3>2. \A a \in AckPackets(toUs') : a \in AckPackets(toUs)
      <4>1. \A x : Data(x).kind # "ack"
        BY DEF Data
      <4> QED BY <2>1, <4>1 DEF AckPackets
    <3> QED BY <3>1, <3>2, LinkWires
  <2> QED BY <2>2, <2>3, <2>7, <2>8 DEF OurLink, TheirLink
<1>23. CASE CamAck
  <2>1. Sends(toCam, toCam', unacked, expect, ahead)
    BY <1>23, SendsLess DEF CamAck, ourVars, streamVars, readVars, lifeVars, netVars
  <2>2. Sends(toUs, toUs', cam.unacked, cam.expect, cam.ahead)
    <3>1. toUs' = Carry(toUs, AckLocked(cam.expect, cam.ahead)) \union {Data(x) : x \in {}}
      BY <1>23 DEF CamAck
    <3> QED BY <3>1, SendsAgain
  <2>3. UNCHANGED <<session, sent, unacked, expect, ahead>>
    BY <1>23 DEF CamAck, ourVars, streamVars, readVars, lifeVars, netVars
  <2>4. cam'.sent = cam.sent /\ cam'.unacked = cam.unacked /\ cam'.expect = cam.expect /\ cam'.ahead = cam.ahead
    BY <1>23 DEF CamAck, ourVars, streamVars, readVars, lifeVars, netVars
  <2> QED BY <2>1, <2>2, <2>3, <2>4, LinksKept
<1>24. CASE CamHandleAck
  <2>1. PICK a \in AckPackets(toCam) : cam' = [cam EXCEPT !.unacked = Unconfirmed(cam.unacked, a)]
    BY <1>24 DEF CamHandleAck
  <2>2. Link(session.start, cam.sent, Unconfirmed(cam.unacked, a), expect, ahead, toUs, toCam)
    BY LinkAck DEF TheirLink
  <2>3. cam'.expect = cam.expect /\ cam'.ahead = cam.ahead
        /\ cam'.sent = cam.sent /\ cam'.unacked = Unconfirmed(cam.unacked, a)
    BY <2>1 DEF TypeOK
  <2>4. UNCHANGED <<session, sent, unacked, expect, ahead, toUs, toCam>>
    BY <1>24 DEF CamHandleAck, ourVars, netVars, streamVars
  <2> QED BY <2>2, <2>3, <2>4 DEF OurLink, TheirLink
<1>25. CASE CamLeave
  <2>1. Sends(toCam, toCam', unacked, expect, ahead)
    BY <1>25, SendsLess DEF CamLeave, ourVars, streamVars, readVars, lifeVars, netVars
  <2>2. Sends(toUs, toUs', cam.unacked, cam.expect, cam.ahead)
    <3>1. toUs' = toUs \/ toUs' = toUs \union {Discovery("disc")}
      BY <1>25 DEF CamLeave
    <3>2. CASE toUs' = toUs
      BY <3>2, SendsLess
    <3>3. CASE toUs' = toUs \union {Discovery("disc")}
      BY <3>3, SendsDiscovery
    <3> QED BY <3>1, <3>2, <3>3
  <2>3. UNCHANGED <<session, sent, unacked, expect, ahead>>
    BY <1>25 DEF CamLeave, ourVars, streamVars, readVars, lifeVars, netVars
  <2>4. cam'.sent = cam.sent /\ cam'.unacked = cam.unacked /\ cam'.expect = cam.expect /\ cam'.ahead = cam.ahead
    BY <1>25, CamTypes DEF CamLeave, TypeOK
  <2> QED BY <2>1, <2>2, <2>3, <2>4, LinksKept
<1>26. ASSUME NEW id \in cam.unacked, CamResend(id) PROVE OurLink' /\ TheirLink'
  <2>1. Sends(toCam, toCam', unacked, expect, ahead)
    BY <1>26, SendsLess DEF CamResend, ourVars, streamVars, readVars, lifeVars, netVars
  <2>2. Sends(toUs, toUs', cam.unacked, cam.expect, cam.ahead)
    <3>1. toUs' = toUs \union {Data(x) : x \in {id}} /\ {id} \in SUBSET cam.unacked
      BY <1>26 DEF CamResend
    <3> QED BY <3>1, SendsAgain
  <2>3. UNCHANGED <<session, sent, unacked, expect, ahead>>
    BY <1>26 DEF CamResend, ourVars, streamVars, readVars, lifeVars, netVars
  <2>4. cam'.sent = cam.sent /\ cam'.unacked = cam.unacked /\ cam'.expect = cam.expect /\ cam'.ahead = cam.ahead
    BY <1>26 DEF CamResend, ourVars, streamVars, readVars, lifeVars, netVars
  <2> QED BY <2>1, <2>2, <2>3, <2>4, LinksKept
<1>27. ASSUME NEW id \in Ids, CamHandleData(id) PROVE OurLink' /\ TheirLink'
  <2> DEFINE a == Arrived(id, cam.expect, cam.ahead)
  <2>1. Link(session.start, sent, unacked, Plus(cam.expect, Len(a.run)), a.kept, toCam, toUs)
    BY <1>27, LinkData DEF CamHandleData, OurLink
  <2>2. cam' = [cam EXCEPT !.expect = Plus(cam.expect, Len(a.run)), !.ahead = a.kept]
    BY <1>27 DEF CamHandleData
  <2> HIDE DEF a
  <2>3. cam'.expect = Plus(cam.expect, Len(a.run)) /\ cam'.ahead = a.kept
        /\ cam'.sent = cam.sent /\ cam'.unacked = cam.unacked
    BY <2>2 DEF TypeOK
  <2>4. UNCHANGED <<session, sent, unacked, expect, ahead, toUs, toCam>>
    BY <1>27 DEF CamHandleData, ourVars, netVars, streamVars
  <2> QED BY <2>1, <2>3, <2>4 DEF OurLink, TheirLink
<1>28. CASE Lose
  <2>1. Sends(toCam, toCam', unacked, expect, ahead)
    BY <1>28, SendsLess DEF Lose
  <2>2. Sends(toUs, toUs', cam.unacked, cam.expect, cam.ahead)
    BY <1>28, SendsLess DEF Lose
  <2>3. UNCHANGED <<session, sent, unacked, expect, ahead>>
    BY <1>28 DEF Lose, ourVars, streamVars, readVars, lifeVars, netVars
  <2>4. cam'.sent = cam.sent /\ cam'.unacked = cam.unacked /\ cam'.expect = cam.expect /\ cam'.ahead = cam.ahead
    BY <1>28 DEF Lose, ourVars, streamVars, readVars, lifeVars, netVars
  <2> QED BY <2>1, <2>2, <2>3, <2>4, LinksKept
<1>29. CASE UNCHANGED vars
  BY <1>29 DEF OurLink, TheirLink, vars, lifeVars, readVars, streamVars, netVars
<1> QED
  BY <1>1, <1>2, <1>3, <1>4, <1>5, <1>6, <1>7, <1>8, <1>9, <1>10, <1>11, <1>12,
     <1>13, <1>14, <1>15, <1>16, <1>17, <1>18, <1>19, <1>20, <1>21, <1>22, <1>23, <1>24,
     <1>25, <1>26, <1>27, <1>28, <1>29 DEF Next

-----------------------------------------------------------------------------
(* What the reader gets *)

\* The ids at the first places.
Firsts(s, n) == [i \in 1..n |-> Plus(s, i - 1)]

\* Appending what was appended to is appending both in turn.
LEMMA Regroup == \A x, y, z \in Seq(Ids) : x \o (y \o z) = (x \o y) \o z
<1>1. \A S : \A x, y, z \in Seq(S) : (x \o y) \o z = x \o (y \o z)
  BY ConcatAssociative
<1> QED BY <1>1

\* They are ids, each at its place.
LEMMA FirstsType ==
  ASSUME NEW s \in Ids, NEW n \in Nat
  PROVE  /\ Firsts(s, n) \in Seq(Ids) /\ Len(Firsts(s, n)) = n
         /\ \A i \in 1..n : Firsts(s, n)[i] = Plus(s, i - 1)
<1>1. Firsts(s, n) \in Seq(Ids)
  BY RunType DEF Firsts
<1>2. Len(Firsts(s, n)) = n /\ \A i \in 1..n : Firsts(s, n)[i] = Plus(s, i - 1)
  BY DEF Firsts
<1> QED BY <1>1, <1>2

\* A run from the next place on goes on where the first ones end.
LEMMA FirstsFurther ==
  ASSUME NEW s \in Ids, NEW b \in Ids, NEW m \in Nat, Gap(b, s) + m <= Half,
         NEW r, r = [i \in 1..m |-> Plus(b, i - 1)]
  PROVE  Firsts(s, Gap(b, s)) \o r = Firsts(s, Gap(b, s) + m)
<1> DEFINE e == Gap(b, s)
           F == Firsts(s, e)
           G == Firsts(s, e + m)
<1>1. e \in Nat /\ e + m \in Nat /\ e + m < Mod /\ Mod \in Nat
  <2>1. e \in Ids
    BY GapIs
  <2>2. e \in Nat
    BY <2>1, ModIs DEF Ids
  <2> QED BY <2>2, ModIs
<1>2. \A i \in 1..m : Plus(b, i - 1) = Plus(s, e + i - 1)
  <2> SUFFICES ASSUME NEW i \in 1..m PROVE Plus(b, i - 1) = Plus(s, e + i - 1)
    OBVIOUS
  <2>1. i - 1 \in Nat /\ e + (i - 1) < Mod /\ e + (i - 1) = e + i - 1
    BY <1>1
  <2>2. Plus(b, i - 1) \in Ids /\ Gap(Plus(b, i - 1), s) = e + (i - 1)
    BY <2>1, PlaceFurther
  <2>3. Plus(s, Gap(Plus(b, i - 1), s)) = Plus(b, i - 1)
    BY <2>2, PlusOfPlace
  <2> QED BY <2>1, <2>2, <2>3
<1>3. F \in Seq(Ids) /\ Len(F) = e /\ \A i \in 1..e : F[i] = Plus(s, i - 1)
  BY <1>1, FirstsType
<1>4. G \in Seq(Ids) /\ Len(G) = e + m /\ \A i \in 1..e + m : G[i] = Plus(s, i - 1)
  BY <1>1, FirstsType
<1>5. r \in Seq(Ids) /\ Len(r) = m /\ \A i \in 1..m : r[i] = Plus(b, i - 1)
  <2>1. r \in Seq(Ids)
    BY RunType
  <2> QED BY <2>1
<1> HIDE DEF e, F, G
<1>6. F \o r \in Seq(Ids) /\ Len(F \o r) = e + m
      /\ \A i \in 1..e + m : (F \o r)[i] = IF i <= e THEN F[i] ELSE r[i - e]
  <2>1. F \o r \in Seq(Ids) /\ Len(F \o r) = Len(F) + Len(r)
        /\ \A i \in 1..Len(F) + Len(r) : (F \o r)[i] = IF i <= Len(F) THEN F[i] ELSE r[i - Len(F)]
    <3>1. F \in Seq(Ids) /\ r \in Seq(Ids)
      BY <1>3, <1>5
    <3> QED BY <3>1, ConcatProperties
  <2> QED BY <1>3, <1>5, <2>1
<1>7. ASSUME NEW i \in 1..e + m PROVE (F \o r)[i] = G[i]
  <2>1. CASE i <= e
    <3>1. i \in 1..e
      BY <1>1, <2>1
    <3> QED BY <1>3, <1>4, <1>6, <2>1, <3>1
  <2>2. CASE i > e
    <3>1. i - e \in 1..m /\ e + (i - e) - 1 = i - 1
      BY <1>1, <2>2
    <3>2. r[i - e] = Plus(s, i - 1)
      <4>1. r[i - e] = Plus(b, (i - e) - 1) /\ Plus(b, (i - e) - 1) = Plus(s, e + (i - e) - 1)
        BY <1>2, <1>5, <3>1
      <4> QED BY <3>1, <4>1
    <3>3. (F \o r)[i] = r[i - e]
      BY <1>1, <1>6, <2>2
    <3>4. G[i] = Plus(s, i - 1)
      BY <1>4
    <3> QED BY <3>2, <3>3, <3>4
  <2>3. i <= e \/ i > e
    BY <1>1
  <2> QED BY <2>1, <2>2, <2>3, Zenon
<1>8. F \o r = G
  BY <1>4, <1>6, <1>7, SeqEqual
<1> QED BY <1>8 DEF e, F, G

\* A read moves the first of the buffer.
LEMMA Moved ==
  ASSUME NEW r \in Seq(Ids), NEW b \in Seq(Ids), NEW n \in 1..Len(b)
  PROVE  /\ r \o SubSeq(b, 1, n) \in Seq(Ids) /\ SubSeq(b, n + 1, Len(b)) \in Seq(Ids)
         /\ Len(r \o SubSeq(b, 1, n)) = Len(r) + n
         /\ (r \o SubSeq(b, 1, n)) \o SubSeq(b, n + 1, Len(b)) = r \o b
<1>1. Len(b) \in Nat /\ n \in Nat
  OBVIOUS
<1>2. SubSeq(b, 1, n) \in Seq(Ids) /\ SubSeq(b, n + 1, Len(b)) \in Seq(Ids) /\ Len(SubSeq(b, 1, n)) = n
  <2>1. \A i \in 1..n : b[i] \in Ids
    BY <1>1
  <2>2. \A i \in n + 1..Len(b) : b[i] \in Ids
    BY <1>1
  <2>3. SubSeq(b, 1, n) \in Seq(Ids) /\ Len(SubSeq(b, 1, n)) = n
    BY <1>1, <2>1, SubSeqProperties
  <2>4. SubSeq(b, n + 1, Len(b)) \in Seq(Ids)
    BY <1>1, <2>2, SubSeqProperties
  <2> QED BY <2>3, <2>4
<1>3. SubSeq(b, 1, n) \o SubSeq(b, n + 1, Len(b)) = b
  <2>1. 1 \in 1..Len(b) + 1 /\ n \in 1 - 1..Len(b) /\ Len(b) \in n..Len(b)
    BY <1>1
  <2>2. SubSeq(b, 1, n) \o SubSeq(b, n + 1, Len(b)) = SubSeq(b, 1, Len(b))
    BY <2>1, ConcatAdjacentSubSeq
  <2> QED BY <2>2, SubSeqFull
<1> DEFINE x == SubSeq(b, 1, n)
           y == SubSeq(b, n + 1, Len(b))
<1> HIDE DEF x, y
<1>4. x \in Seq(Ids) /\ y \in Seq(Ids) /\ Len(x) = n /\ x \o y = b
  BY <1>2, <1>3 DEF x, y
<1>5. (r \o x) \o y = r \o (x \o y)
  <2>1. x \in Seq(Ids) /\ y \in Seq(Ids)
    BY <1>4
  <2> QED BY <2>1, Regroup
<1>6. r \o x \in Seq(Ids) /\ Len(r \o x) = Len(r) + n
  BY <1>4, ConcatProperties
<1> QED BY <1>4, <1>5, <1>6 DEF x, y

\* What is read of the first ones is the beginning of what was sent.
LEMMA Beginning ==
  ASSUME NEW s \in Ids, NEW e \in Nat, NEW k \in Nat, e <= k,
         NEW r \in Seq(Ids), NEW b \in Seq(Ids), r \o b = Firsts(s, e), Len(r) # 0
  PROVE  Len(r) \in 1..k /\ r = SubSeq(Firsts(s, k), 1, Len(r))
<1> DEFINE F == Firsts(s, e)
           G == Firsts(s, k)
           l == Len(r)
<1>1. F \in Seq(Ids) /\ Len(F) = e /\ \A i \in 1..e : F[i] = Plus(s, i - 1)
  BY FirstsType
<1>2. G \in Seq(Ids) /\ Len(G) = k /\ \A i \in 1..k : G[i] = Plus(s, i - 1)
  BY FirstsType
<1> HIDE DEF F, G
<1>3. Len(r \o b) = Len(r) + Len(b)
      /\ \A i \in 1..Len(r) + Len(b) : (r \o b)[i] = IF i <= Len(r) THEN r[i] ELSE b[i - Len(r)]
  BY ConcatProperties
<1>4. l \in Nat \ {0} /\ Len(b) \in Nat /\ l + Len(b) = e
  BY <1>1, <1>3 DEF F
<1> HIDE DEF l
<1>5. \A i \in 1..l : r[i] = G[i]
  <2> SUFFICES ASSUME NEW i \in 1..l PROVE r[i] = G[i]
    OBVIOUS
  <2>1. i \in 1..e /\ i \in 1..k /\ i <= l
    BY <1>4
  <2>2. F[i] = r[i]
    <3>1. i \in 1..Len(r) + Len(b) /\ i <= Len(r)
      BY <1>4, <2>1 DEF l
    <3> QED BY <1>3, <3>1 DEF F
  <2> QED BY <1>1, <1>2, <2>1, <2>2
<1>6. SubSeq(G, 1, l) \in Seq(Ids) /\ Len(SubSeq(G, 1, l)) = l
      /\ \A i \in 1..l : SubSeq(G, 1, l)[i] = G[i]
  <2>1. 1 \in Int /\ l \in Int /\ 1 <= l
    BY <1>4
  <2>2. \A i \in 1..l : G[i] \in Ids
    <3>1. \A i \in 1..l : i \in 1..k
      BY <1>4
    <3> QED BY <1>2, <3>1
  <2>3. SubSeq(G, 1, l) \in Seq(Ids) /\ Len(SubSeq(G, 1, l)) = l - 1 + 1
        /\ \A i \in 1..l - 1 + 1 : SubSeq(G, 1, l)[i] = G[1 + i - 1]
    BY <2>1, <2>2, SubSeqProperties
  <2>4. l - 1 + 1 = l /\ \A i \in 1..l : 1 + i - 1 = i
    BY <1>4
  <2> QED BY <2>3, <2>4
<1>7. r = SubSeq(G, 1, l)
  <2>1. Len(r) = l
    BY DEF l
  <2> QED BY <1>5, <1>6, <2>1, SeqEqual
<1> QED BY <1>4, <1>7 DEF G, l

\* What has come in order has been sent.
LEMMA Places ==
  ASSUME TypeOK, TheirLink
  PROVE  /\ session.start \in Ids /\ expect \in Ids /\ cam.sent \in Nat /\ cam.sent <= Half
         /\ Gap(expect, session.start) \in Nat /\ Gap(expect, session.start) <= cam.sent
<1>1. session.start \in Ids /\ cam.sent \in Nat /\ cam.sent <= Half
  BY SessionBounds, CamTypes, ModIs DEF TypeOK
<1>2. expect \in Ids /\ Gap(expect, session.start) <= cam.sent
  BY DEF TheirLink, Link, Recv
<1>3. Gap(expect, session.start) \in Ids
  BY <1>1, <1>2, GapIs
<1> QED BY <1>1, <1>2, <1>3, ModIs DEF Ids

\* What is read and buffered stays what has come in order: a packet in order
\* extends it by the run it releases, and a read moves it.
LEMMA DeliveredStep ==
  ASSUME TypeOK, Closing, TheirLink, Delivered, [Next]_vars
  PROVE  Delivered'
<1>1. CASE Dial
  BY <1>1
  DEF Dial, Delivered, FirstIds, streamVars, readVars, lifeVars, netVars
<1>2. CASE Ask
  BY <1>2
  DEF Ask, Delivered, FirstIds, streamVars, readVars, lifeVars, netVars
<1>3. CASE Connected
  BY <1>3
  DEF Connected, Delivered, FirstIds, streamVars, readVars, lifeVars, netVars
<1>4. CASE NotConnected
  BY <1>4
  DEF NotConnected, Delivered, FirstIds, streamVars, readVars, lifeVars, netVars
<1>5. ASSUME NEW id \in Ids, HandleData(id) PROVE Delivered'
  <2> DEFINE a == Arrived(id, expect, ahead)
             m == Len(a.run)
             s == session.start
             e == Gap(expect, s)
  <2>1. Link(s, cam.sent, cam.unacked, Plus(expect, m), a.kept, toUs, toCam)
        /\ Gap(Plus(expect, m), s) = e + m /\ m \in Nat
        /\ a.run = [i \in 1..m |-> Plus(expect, i - 1)]
    BY <1>5, LinkData DEF HandleData, TheirLink
  <2>2. expect' = Plus(expect, m) /\ buf' = buf \o a.run /\ UNCHANGED <<session, read>>
    BY <1>5 DEF HandleData, readVars
  <2>3. s \in Ids /\ expect \in Ids /\ e \in Nat /\ cam.sent <= Half /\ cam.sent \in Nat
    BY Places
  <2>4. a.run \in Seq(Ids)
    BY <2>1, <2>3, RunType
  <2> DEFINE r == a.run
  <2> HIDE DEF a
  <2>5. e + m <= Half
    <3>1. e + m <= cam.sent
      <4>1. Gap(Plus(expect, m), s) <= cam.sent
        BY <2>1 DEF Link, Recv
      <4> QED BY <2>1, <4>1
    <3> QED BY <2>1, <2>3, <3>1, ModIs
  <2>6. Firsts(s, e) \o r = Firsts(s, e + m)
    BY <2>1, <2>3, <2>5, FirstsFurther
  <2>7. read \o (buf \o r) = (read \o buf) \o r
    <3>1. read \in Seq(Ids) /\ buf \in Seq(Ids) /\ r \in Seq(Ids)
      BY <2>4 DEF TypeOK
    <3> QED BY <3>1, Regroup
  <2>8. read \o buf = Firsts(s, e)
    BY DEF Delivered, FirstIds, Firsts
  <2>9. read' \o buf' = Firsts(s, Gap(expect', s))
    BY <2>1, <2>2, <2>6, <2>7, <2>8
  <2> QED BY <2>2, <2>9 DEF Delivered, FirstIds, Firsts
<1>6. CASE HandleAck
  BY <1>6
  DEF HandleAck, Delivered, FirstIds, streamVars, readVars, lifeVars, netVars
<1>7. CASE HandleDisc
  BY <1>7
  DEF HandleDisc, Fail, Signal, Delivered, FirstIds, streamVars, readVars, lifeVars, netVars
<1>8. CASE RecvEnds
  BY <1>8
  DEF RecvEnds, Fail, Signal, Delivered, FirstIds, streamVars, readVars, lifeVars, netVars
<1>9. ASSUME NEW due \in SUBSET unacked, Tick(due) PROVE Delivered'
  BY <1>9
  DEF Tick, Fail, Signal, Delivered, FirstIds, streamVars, readVars, lifeVars, netVars
<1>10. CASE TimerEnds
  BY <1>10
  DEF TimerEnds, Delivered, FirstIds, streamVars, readVars, lifeVars, netVars
<1>11. CASE Read
  BY <1>11
  DEF Read, Delivered, FirstIds, streamVars, readVars, lifeVars, netVars
<1>12. CASE Look
  <2>1. UNCHANGED <<session, expect>>
    BY <1>12 DEF Look
  <2>2. read' \o buf' = read \o buf
    <3>1. CASE buf # <<>> /\ closed = "no"
      <4>1. PICK n \in 1..Len(buf) : read' = read \o SubSeq(buf, 1, n) /\ buf' = SubSeq(buf, n + 1, Len(buf))
        BY <1>12, <3>1 DEF Look
      <4> QED BY <4>1, Moved DEF TypeOK
    <3>2. CASE ~ (buf # <<>> /\ closed = "no")
      BY <1>12, <3>2 DEF Look
    <3> QED BY <3>1, <3>2
  <2> QED BY <2>1, <2>2 DEF Delivered, FirstIds
<1>13. CASE Woken
  BY <1>13
  DEF Woken, Delivered, FirstIds, streamVars, readVars, lifeVars, netVars
<1>14. CASE Expire
  BY <1>14
  DEF Expire, Delivered, FirstIds, streamVars, readVars, lifeVars, netVars
<1>15. CASE SetReadDeadline
  BY <1>15
  DEF SetReadDeadline, Signal, Delivered, FirstIds, streamVars, readVars, lifeVars, netVars
<1>16. ASSUME NEW n \in 1..session.ours, Write(n) PROVE Delivered'
  BY <1>16
  DEF Write, Delivered, FirstIds, streamVars, readVars, lifeVars, netVars
<1>17. CASE Close
  BY <1>17
  DEF Close, Fail, Signal, Delivered, FirstIds, streamVars, readVars, lifeVars, netVars
<1>18. CASE CloseTell
  BY <1>18
  DEF CloseTell, Delivered, FirstIds, streamVars, readVars, lifeVars, netVars
<1>19. CASE CloseSocket
  BY <1>19
  DEF CloseSocket, Delivered, FirstIds, streamVars, readVars, lifeVars, netVars
<1>20. CASE CloseReturns
  BY <1>20
  DEF CloseReturns, Delivered, FirstIds, streamVars, readVars, lifeVars, netVars
<1>21. CASE CamAnswer
  BY <1>21
  DEF CamAnswer, Delivered, FirstIds, ourVars, streamVars, readVars, lifeVars, netVars
<1>22. CASE CamSend
  BY <1>22
  DEF CamSend, Delivered, FirstIds, ourVars, streamVars, readVars, lifeVars, netVars
<1>23. CASE CamAck
  BY <1>23
  DEF CamAck, Delivered, FirstIds, ourVars, streamVars, readVars, lifeVars, netVars
<1>24. CASE CamHandleAck
  BY <1>24
  DEF CamHandleAck, Delivered, FirstIds, ourVars, streamVars, readVars, lifeVars, netVars
<1>25. CASE CamLeave
  BY <1>25
  DEF CamLeave, Delivered, FirstIds, ourVars, streamVars, readVars, lifeVars, netVars
<1>26. ASSUME NEW id \in cam.unacked, CamResend(id) PROVE Delivered'
  BY <1>26
  DEF CamResend, Delivered, FirstIds, ourVars, streamVars, readVars, lifeVars, netVars
<1>27. ASSUME NEW id \in Ids, CamHandleData(id) PROVE Delivered'
  BY <1>27
  DEF CamHandleData, Delivered, FirstIds, ourVars, streamVars, readVars, lifeVars, netVars
<1>28. CASE Lose
  BY <1>28
  DEF Lose, Delivered, FirstIds, ourVars, streamVars, readVars, lifeVars, netVars
<1>29. CASE UNCHANGED vars
  BY <1>29 DEF Delivered, FirstIds, vars, lifeVars, readVars, streamVars, netVars
<1> QED
  BY <1>1, <1>2, <1>3, <1>4, <1>5, <1>6, <1>7, <1>8, <1>9, <1>10, <1>11, <1>12,
     <1>13, <1>14, <1>15, <1>16, <1>17, <1>18, <1>19, <1>20, <1>21, <1>22, <1>23, <1>24,
     <1>25, <1>26, <1>27, <1>28, <1>29 DEF Next

\* The invariant holds of every reachable state.
LEMMA Invariant == Spec => []IInv
<1>1. IInv /\ [Next]_vars => IInv'
  BY TypesStep, ClosingStep, AwakeStep, LinksStep, DeliveredStep DEF IInv
<1> QED BY <1>1, InitInv, PTL DEF Spec

-----------------------------------------------------------------------------
(* The theorems *)

\* What either side stops resending the other side has, and no wake-up of a
\* reader is lost.
THEOREM NothingLostCorrect == Spec => []NothingLost
<1>1. ASSUME NEW s, NEW n, NEW r, NEW b, NEW k, NEW wd, NEW wa, Link(s, n, r, b, k, wd, wa),
             NEW i \in 0..n - 1
      PROVE  Plus(s, i) \in r \/ i < Gap(b, s) \/ Plus(s, i) \in k
  <2>1. s \in Ids /\ n \in 0..Half /\ Resending(s, n, r, b, k)
    BY <1>1 DEF Link
  <2>2. i \in 0..Mod - 1 /\ i < n
    BY <1>1, <2>1, ModIs
  <2>3. Plus(s, i) \in Ids /\ Gap(Plus(s, i), s) = i
    BY <2>1, <2>2, PlaceOfPlus
  <2>4. Plus(s, i) \in r \/ Held(s, b, k, Plus(s, i))
    BY <2>1, <2>2, <2>3 DEF Resending
  <2> QED BY <2>3, <2>4 DEF Held
<1>2. IInv => NothingForgotten
  <2> SUFFICES ASSUME IInv PROVE NothingForgotten
    OBVIOUS
  <2>1. \A i \in 0..sent - 1 :
          Plus(session.start, i) \in unacked \/ Holds(cam.expect, cam.ahead, i)
    BY <1>1 DEF IInv, OurLink, Holds
  <2>2. \A i \in 0..cam.sent - 1 :
          Plus(session.start, i) \in cam.unacked \/ Holds(expect, ahead, i)
    BY <1>1 DEF IInv, TheirLink, Holds
  <2> QED BY <2>1, <2>2 DEF NothingForgotten
<1>3. IInv => NothingLost
  BY <1>2 DEF IInv, NothingLost
<1> QED BY <1>3, Invariant, PTL

\* Every step is one of the byte stream, or none: the camera sends, a read takes
\* the next of what was sent, Close shuts.
LEMMA WireStep ==
  ASSUME TypeOK, TheirLink, Delivered, [Next]_vars
  PROVE  [Wire!Next]_<<FirstIds(cam.sent), read, closed>>
<1>1. CASE Dial
  BY <1>1
  DEF Dial, FirstIds, streamVars, readVars, lifeVars, netVars
<1>2. CASE Ask
  BY <1>2
  DEF Ask, FirstIds, streamVars, readVars, lifeVars, netVars
<1>3. CASE Connected
  BY <1>3
  DEF Connected, FirstIds, streamVars, readVars, lifeVars, netVars
<1>4. CASE NotConnected
  BY <1>4
  DEF NotConnected, FirstIds, streamVars, readVars, lifeVars, netVars
<1>5. ASSUME NEW id \in Ids, HandleData(id) PROVE [Wire!Next]_<<FirstIds(cam.sent), read, closed>>
  BY <1>5
  DEF HandleData, Signal, FirstIds, streamVars, readVars, lifeVars, netVars
<1>6. CASE HandleAck
  BY <1>6
  DEF HandleAck, FirstIds, streamVars, readVars, lifeVars, netVars
<1>7. CASE HandleDisc
  BY <1>7
  DEF HandleDisc, Fail, Signal, FirstIds, streamVars, readVars, lifeVars, netVars
<1>8. CASE RecvEnds
  BY <1>8
  DEF RecvEnds, Fail, Signal, FirstIds, streamVars, readVars, lifeVars, netVars
<1>9. ASSUME NEW due \in SUBSET unacked, Tick(due) PROVE [Wire!Next]_<<FirstIds(cam.sent), read, closed>>
  BY <1>9
  DEF Tick, Fail, Signal, FirstIds, streamVars, readVars, lifeVars, netVars
<1>10. CASE TimerEnds
  BY <1>10
  DEF TimerEnds, FirstIds, streamVars, readVars, lifeVars, netVars
<1>11. CASE Read
  BY <1>11
  DEF Read, FirstIds, streamVars, readVars, lifeVars, netVars
<1>12. CASE Look
  <2>1. UNCHANGED <<session, expect, cam, closed>>
    BY <1>12 DEF Look, lifeVars
  <2>2. FirstIds(cam.sent)' = FirstIds(cam.sent)
    BY <2>1 DEF FirstIds
  <2>3. CASE buf # <<>> /\ closed = "no"
    <3>1. PICK n \in 1..Len(buf) : read' = read \o SubSeq(buf, 1, n) /\ buf' = SubSeq(buf, n + 1, Len(buf))
      BY <1>12, <2>3 DEF Look
    <3>2. read' \in Seq(Ids) /\ buf' \in Seq(Ids) /\ Len(read') = Len(read) + n
          /\ read' \o buf' = read \o buf
      BY <3>1, Moved DEF TypeOK
    <3>3. Len(read) \in Nat /\ n \in Nat \ {0}
      BY DEF TypeOK
    <3> DEFINE s == session.start
               e == Gap(expect, s)
    <3>4. s \in Ids /\ e \in Nat /\ cam.sent \in Nat /\ e <= cam.sent
      BY Places
    <3>5. read' \o buf' = Firsts(s, e)
      BY <3>2 DEF Delivered, FirstIds, Firsts
    <3> HIDE DEF s, e
    <3>6. Len(read') \in 1..cam.sent /\ read' = SubSeq(Firsts(s, cam.sent), 1, Len(read'))
      <4> DEFINE x == read'
                 y == buf'
                 k == cam.sent
      <4>1. x \in Seq(Ids) /\ y \in Seq(Ids) /\ x \o y = Firsts(s, e) /\ Len(x) # 0
        BY <3>2, <3>3, <3>5
      <4>2. s \in Ids /\ e \in Nat /\ k \in Nat /\ e <= k
        BY <3>4
      <4> HIDE DEF x, y, k
      <4>3. Len(x) \in 1..k /\ x = SubSeq(Firsts(s, k), 1, Len(x))
        BY <4>1, <4>2, Beginning
      <4> QED BY <4>3 DEF x, k
    <3>7. Len(read') \in Len(read) + 1..cam.sent
      BY <3>2, <3>3, <3>4, <3>6
    <3>8. FirstIds(cam.sent) = Firsts(s, cam.sent) /\ Len(FirstIds(cam.sent)) = cam.sent
      BY <3>4, FirstsType DEF FirstIds, Firsts, s
    <3>9. \E j \in Len(read) + 1..Len(FirstIds(cam.sent)) : read' = SubSeq(FirstIds(cam.sent), 1, j)
      BY <3>6, <3>7, <3>8
    <3> QED BY <2>1, <2>2, <2>3, <3>9 DEF Wire!Next, Wire!Take
  <2>4. CASE ~ (buf # <<>> /\ closed = "no")
    BY <1>12, <2>1, <2>2, <2>4 DEF Look
  <2> QED BY <2>3, <2>4
<1>13. CASE Woken
  BY <1>13
  DEF Woken, FirstIds, streamVars, readVars, lifeVars, netVars
<1>14. CASE Expire
  BY <1>14
  DEF Expire, FirstIds, streamVars, readVars, lifeVars, netVars
<1>15. CASE SetReadDeadline
  BY <1>15
  DEF SetReadDeadline, Signal, FirstIds, streamVars, readVars, lifeVars, netVars
<1>16. ASSUME NEW n \in 1..session.ours, Write(n) PROVE [Wire!Next]_<<FirstIds(cam.sent), read, closed>>
  BY <1>16
  DEF Write, FirstIds, streamVars, readVars, lifeVars, netVars
<1>17. CASE Close
  <2>1. closed = "no" /\ closed' = "yes" /\ UNCHANGED <<session, cam, read>>
    BY <1>17 DEF Close, TypeOK, readVars
  <2>2. FirstIds(cam.sent)' = FirstIds(cam.sent)
    BY <2>1 DEF FirstIds
  <2> QED BY <2>1, <2>2 DEF Wire!Next, Wire!Shut
<1>18. CASE CloseTell
  BY <1>18
  DEF CloseTell, FirstIds, streamVars, readVars, lifeVars, netVars
<1>19. CASE CloseSocket
  BY <1>19
  DEF CloseSocket, FirstIds, streamVars, readVars, lifeVars, netVars
<1>20. CASE CloseReturns
  BY <1>20
  DEF CloseReturns, FirstIds, streamVars, readVars, lifeVars, netVars
<1>21. CASE CamAnswer
  <2>1. cam'.sent = cam.sent
    BY <1>21 DEF CamAnswer, TypeOK
  <2>2. UNCHANGED <<session, read, closed>>
    BY <1>21 DEF CamAnswer, ourVars, readVars, lifeVars
  <2> QED BY <2>1, <2>2 DEF FirstIds
<1>22. CASE CamSend
  <2>1. cam' = [cam EXCEPT !.sent = cam.sent + 1, !.unacked = cam.unacked \union {NextTheirs}]
    BY <1>22 DEF CamSend
  <2>2. cam'.sent = cam.sent + 1
    BY <2>1 DEF TypeOK
  <2>3. UNCHANGED <<session, read, closed>>
    BY <1>22 DEF CamSend, ourVars, readVars, lifeVars
  <2> DEFINE s == session.start
             k == cam.sent
             p == NextTheirs
  <2>4. s \in Ids /\ k \in Nat
    BY Places
  <2>5. p \in Ids /\ p = Plus(s, k)
    <3>1. s \in Nat
      BY <2>4, ModIs DEF Ids
    <3>2. Plus(s, k) \in Ids
      BY <2>4, <3>1, PlusIn
    <3> QED BY <3>2 DEF NextTheirs
  <2> HIDE DEF s, k, p
  <2>6. Firsts(s, k + 1) = Append(Firsts(s, k), p)
    <3>1. Firsts(s, k) \in Seq(Ids) /\ Len(Firsts(s, k)) = k
          /\ \A i \in 1..k : Firsts(s, k)[i] = Plus(s, i - 1)
      BY <2>4, FirstsType
    <3>2. Firsts(s, k + 1) \in Seq(Ids) /\ Len(Firsts(s, k + 1)) = k + 1
          /\ \A i \in 1..k + 1 : Firsts(s, k + 1)[i] = Plus(s, i - 1)
      <4>1. k + 1 \in Nat
        BY <2>4
      <4> QED BY <2>4, <4>1, FirstsType
    <3>3. Append(Firsts(s, k), p) \in Seq(Ids) /\ Len(Append(Firsts(s, k), p)) = k + 1
          /\ (\A i \in 1..k : Append(Firsts(s, k), p)[i] = Firsts(s, k)[i])
          /\ Append(Firsts(s, k), p)[k + 1] = p
      BY <2>5, <3>1, AppendProperties
    <3>4. ASSUME NEW i \in 1..k + 1 PROVE Firsts(s, k + 1)[i] = Append(Firsts(s, k), p)[i]
      <4>1. CASE i \in 1..k
        BY <3>1, <3>2, <3>3, <4>1
      <4>2. CASE i = k + 1
        <5>1. (k + 1) - 1 = k
          BY <2>4
        <5>2. k + 1 \in 1..k + 1
          BY <2>4
        <5>3. Firsts(s, k + 1)[k + 1] = Plus(s, (k + 1) - 1)
          BY <3>2, <5>2
        <5>4. Append(Firsts(s, k), p)[k + 1] = p
          BY <3>3
        <5> QED BY <2>5, <4>2, <5>1, <5>3, <5>4
      <4>3. i \in 1..k \/ i = k + 1
        BY <2>4
      <4> QED BY <4>1, <4>2, <4>3, Zenon
    <3> QED BY <3>2, <3>3, <3>4, SeqEqual
  <2>7. FirstIds(cam.sent)' = Append(FirstIds(cam.sent), p)
    BY <2>2, <2>3, <2>6 DEF FirstIds, Firsts, s, k
  <2> QED BY <2>3, <2>5, <2>7 DEF Wire!Next, Wire!Send
<1>23. CASE CamAck
  BY <1>23
  DEF CamAck, FirstIds, ourVars, streamVars, readVars, lifeVars, netVars
<1>24. CASE CamHandleAck
  <2>1. cam'.sent = cam.sent
    BY <1>24 DEF CamHandleAck, TypeOK
  <2>2. UNCHANGED <<session, read, closed>>
    BY <1>24 DEF CamHandleAck, ourVars, readVars, lifeVars
  <2> QED BY <2>1, <2>2 DEF FirstIds
<1>25. CASE CamLeave
  <2>1. cam'.sent = cam.sent
    BY <1>25 DEF CamLeave, TypeOK
  <2>2. UNCHANGED <<session, read, closed>>
    BY <1>25 DEF CamLeave, ourVars, readVars, lifeVars
  <2> QED BY <2>1, <2>2 DEF FirstIds
<1>26. ASSUME NEW id \in cam.unacked, CamResend(id) PROVE [Wire!Next]_<<FirstIds(cam.sent), read, closed>>
  BY <1>26
  DEF CamResend, FirstIds, ourVars, streamVars, readVars, lifeVars, netVars
<1>27. ASSUME NEW id \in Ids, CamHandleData(id) PROVE [Wire!Next]_<<FirstIds(cam.sent), read, closed>>
  <2>1. cam'.sent = cam.sent
    BY <1>27 DEF CamHandleData, TypeOK
  <2>2. UNCHANGED <<session, read, closed>>
    BY <1>27 DEF CamHandleData, ourVars, readVars, lifeVars
  <2> QED BY <2>1, <2>2 DEF FirstIds
<1>28. CASE Lose
  BY <1>28
  DEF Lose, FirstIds, ourVars, streamVars, readVars, lifeVars, netVars
<1>29. CASE UNCHANGED vars
  BY <1>29 DEF FirstIds, vars, lifeVars, readVars, streamVars, netVars
<1> QED
  BY <1>1, <1>2, <1>3, <1>4, <1>5, <1>6, <1>7, <1>8, <1>9, <1>10, <1>11, <1>12,
     <1>13, <1>14, <1>15, <1>16, <1>17, <1>18, <1>19, <1>20, <1>21, <1>22, <1>23, <1>24,
     <1>25, <1>26, <1>27, <1>28, <1>29 DEF Next

\* The session implements the byte stream: what is read is, in order and each
\* once, what the camera sent, and nothing after Close.
THEOREM StreamCorrect == Spec => Stream
<1>1. Init => Wire!Init
  <2> SUFFICES ASSUME Init PROVE Wire!Init
    OBVIOUS
  <2>1. cam.sent = 0
    BY DEF Init
  <2>2. FirstIds(0) = <<>>
    BY DEF FirstIds
  <2> QED BY <2>1, <2>2 DEF Init, Wire!Init
<1>2. IInv /\ [Next]_vars => [Wire!Next]_<<FirstIds(cam.sent), read, closed>>
  BY WireStep DEF IInv
<1> QED BY <1>1, <1>2, Invariant, PTL DEF Spec, Stream, Wire!Spec

===============================================================================
