-------------------------- MODULE RecorderPoolProofs --------------------------
(***************************************************************************)
(* Theorems about RecorderPool, for any streams, connections and limit.    *)
(*                                                                         *)
(* Whoever holds p.mu across the steps of Open has chosen a connection     *)
(* that carries its preview or has room (ChoiceHolds): readers only leave  *)
(* meanwhile, and the last reader of a preview makes room as it leaves.    *)
(* A connection is on its way into the pool or in it, never both (Found),  *)
(* and the last reader to leave has yet to report it (NoneForgotten).      *)
(***************************************************************************)
EXTENDS RecorderPool, FiniteSetTheorems, SequenceTheorems, WellFoundedInduction, TLAPS

\* A stream has a connection while it is about to subscribe, subscribed, or
\* about to report it idle.
Attached ==
  \A r \in Readers :
    /\ at[r] # None <=> \/ opener[r] \in {"chosen", "subscribed", "reading", "idling"}
                        \/ opener[r] = "dialed" /\ result[r] = "reading"
    /\ result[r] # None <=> opener[r] = "dialed"

\* Who holds p.mu, and whose dial it is.
Holders ==
  \A r \in Readers :
    /\ opener[r] = "chosen" <=> mu = r
    /\ opener[r] \in {"dialing", "subscribed", "dialed"} <=> dialing = r

\* Only streams that are subscribed are on a connection, and it is open.
Subscribed ==
  \A c \in Conns : \A r \in on[c] :
    /\ IsOpen(c) /\ at[r] = c
    /\ opener[r] \in {"subscribed", "reading", "dialed"}

\* What has been chosen carries the preview already, or has room for it.
ChoiceHolds ==
  \A r \in Readers : opener[r] = "chosen" /\ IsOpen(at[r]) =>
    HasRoom(at[r]) \/ keyOf[r] \in Previews(at[r])

In(s, c) == \E i \in 1..Len(s) : s[i] = c
Once(s) == \A i \in 1..Len(s) : \A j \in 1..Len(s) : s[i] = s[j] => i = j

\* A connection is in the pool once, or its dial is under way.
Found ==
  /\ Once(pool)
  /\ \A r \in Readers : opener[r] = "subscribed" => ~In(pool, at[r])
  /\ \A c \in Conns : IsOpen(c) =>
       In(pool, c) \/ \E r \in Readers : opener[r] = "subscribed" /\ at[r] = c

IInv ==
  TypeOK /\ Attached /\ Holders /\ Subscribed /\ AtMostMaxPreviews /\ ChoiceHolds /\ Found
  /\ NoneForgotten

-----------------------------------------------------------------------------
(* Keeping, by the least number of elements for which it would go wrong. *)

\* A set of numbers that is not empty has a least one: the intervals below
\* them are finite sets, which inclusion orders well.
LEMMA LeastNat ==
  ASSUME NEW T \in SUBSET Nat, T # {}
  PROVE  \E n \in T : \A m \in T : n <= m
<1> DEFINE R == StrictSubsetOrdering(Nat)
           W == {1..n : n \in T}
<1>1. IsWellFoundedOn(R, FiniteSubsetsOf(Nat))
  BY FS_StrictSubsetOrderingWellFounded
<1>2. \A n \in Nat : 1..n \in FiniteSubsetsOf(Nat)
  BY FS_Interval DEF FiniteSubsetsOf
<1>3. W \subseteq FiniteSubsetsOf(Nat) /\ W # {}
  BY <1>2
<1>4. \E x \in W : \A y \in W : ~ (<<y, x>> \in R)
  <2> HIDE DEF R, W
  <2> QED BY <1>1, <1>3, WFMin
<1>5. PICK n \in T : \A m \in T : ~ (<<1..m, 1..n>> \in R)
  BY <1>4
<1>6. ASSUME NEW m \in T, m < n PROVE FALSE
  <2>1. 1..m \subseteq 1..n /\ 1..m # 1..n
    <3>1. n \in 1..n /\ n \notin 1..m
      BY <1>6
    <3> QED BY <1>6, <3>1
  <2>2. <<1..m, 1..n>> \in R
    BY <2>1 DEF StrictSubsetOrdering
  <2> QED BY <1>5, <2>2
<1> QED BY <1>6

\* What the recursion of Keeping says of the function that it defines.
KeptAt(s, T, g, n) ==
   IF n = 0 THEN <<>> ELSE IF s[n] \in T THEN Append(g[n - 1], s[n]) ELSE g[n - 1]
Keeps(s, T, g, l) == g = [n \in 0..l |-> KeptAt(s, T, g, n)]

\* There is such a function, for a sequence of any length.
LEMMA KeepsExists ==
  ASSUME NEW s, NEW T, NEW l \in Nat
  PROVE  \E g : Keeps(s, T, g, l)
<1> DEFINE B == {n \in Nat : ~ \E g : Keeps(s, T, g, n)}
<1> SUFFICES ASSUME B # {} PROVE FALSE
  OBVIOUS
<1>1. PICK n \in B : \A m \in B : n <= m
  <2> HIDE DEF B
  <2>1. B \in SUBSET Nat
    BY DEF B
  <2> QED BY <2>1, LeastNat
<1>2. n # 0
  <2> SUFFICES ASSUME n = 0 PROVE \E g : Keeps(s, T, g, n)
    BY <1>1
  <2>1. Keeps(s, T, [i \in 0..0 |-> <<>>], 0)
    BY DEF Keeps, KeptAt
  <2> QED BY <2>1
<1>3. n - 1 \in Nat /\ n - 1 \notin B
  BY <1>1, <1>2
<1>4. PICK g : Keeps(s, T, g, n - 1)
  BY <1>3
<1> DEFINE h == [i \in 0..n |-> IF i = n THEN KeptAt(s, T, g, n) ELSE g[i]]
<1>5. ASSUME NEW i \in 0..n PROVE h[i] = KeptAt(s, T, h, i)
  <2>1. CASE i = n
    <3>1. h[n - 1] = g[n - 1]
      BY <1>3
    <3> QED BY <1>2, <2>1, <3>1 DEF KeptAt
  <2>2. CASE i # n
    <3>1. i \in 0..(n-1) /\ h[i] = g[i] /\ (i # 0 => h[i - 1] = g[i - 1])
      BY <1>3, <2>2
    <3>2. g[i] = KeptAt(s, T, g, i)
      BY <1>4, <3>1 DEF Keeps
    <3> QED BY <3>1, <3>2 DEF KeptAt
  <2> QED BY <2>1, <2>2
<1>6. Keeps(s, T, h, n)
  BY <1>5 DEF Keeps
<1> QED BY <1>1, <1>6

\* Keeping is the last value of one.
LEMMA KeepingIs ==
  ASSUME NEW s, NEW T, Len(s) \in Nat
  PROVE  \E g : Keeps(s, T, g, Len(s)) /\ Keeping(s, T) = g[Len(s)]
<1> DEFINE f == CHOOSE g : Keeps(s, T, g, Len(s))
<1>1. Keeps(s, T, f, Len(s))
  BY KeepsExists
<1>2. Keeping(s, T) = f[Len(s)]
  BY DEF Keeping, Keeps, KeptAt
<1> QED BY <1>1, <1>2

\* Min picks an element of a set of numbers that is not empty.
LEMMA MinIn ==
  ASSUME NEW T \in SUBSET Nat, T # {}
  PROVE  Min(T) \in T
<1>1. PICK n \in T : \A m \in T : n <= m
  BY LeastNat
<1> QED BY <1>1 DEF Min

\* What is kept is a sequence, of elements that are to be kept and were there.
Among(t, s, T, n) ==
  /\ \A i \in 1..Len(t) : t[i] \in T /\ \E j \in 1..n : s[j] = t[i]
  /\ \A j \in 1..n : s[j] \in T => \E i \in 1..Len(t) : t[i] = s[j]

\* One element more: what is kept of it goes to the end.
LEMMA KeepOne ==
  ASSUME NEW S, NEW s \in Seq(S), NEW T, NEW n \in 1..Len(s),
         NEW t \in Seq(S), Among(t, s, T, n - 1), s[n] \in T
  PROVE  Append(t, s[n]) \in Seq(S) /\ Among(Append(t, s[n]), s, T, n)
<1> DEFINE u == Append(t, s[n])
           k == Len(t) + 1
<1>1. s[n] \in S /\ Len(t) \in Nat /\ n \in Nat /\ n >= 1
  OBVIOUS
<1>2. u \in Seq(S) /\ Len(u) = k /\ u[k] = s[n] /\ \A i \in 1..Len(t) : u[i] = t[i]
  BY <1>1, AppendProperties
<1> HIDE DEF u
<1>3. ASSUME NEW i \in 1..Len(u) PROVE u[i] \in T /\ \E j \in 1..n : s[j] = u[i]
  <2>1. CASE i = k
    BY <1>1, <1>2, <2>1
  <2>2. CASE i # k
    <3>1. i \in 1..Len(t)
      BY <1>1, <1>2, <2>2
    <3>2. PICK j \in 1..(n - 1) : s[j] = t[i]
      BY <3>1 DEF Among
    <3>3. j \in 1..n
      BY <1>1
    <3> QED BY <1>2, <3>1, <3>2, <3>3 DEF Among
  <2> QED BY <2>1, <2>2
<1>4. ASSUME NEW j \in 1..n, s[j] \in T PROVE \E i \in 1..Len(u) : u[i] = s[j]
  <2>1. CASE j = n
    <3>1. k \in 1..Len(u)
      BY <1>1, <1>2
    <3> QED BY <1>2, <2>1, <3>1
  <2>2. CASE j # n
    <3>1. j \in 1..(n - 1)
      BY <1>1, <2>2
    <3>2. PICK i \in 1..Len(t) : t[i] = s[j]
      BY <1>4, <3>1 DEF Among
    <3>3. i \in 1..Len(u)
      BY <1>1, <1>2
    <3> QED BY <1>2, <3>2, <3>3
  <2> QED BY <2>1, <2>2
<1>5. Among(u, s, T, n)
  BY <1>3, <1>4 DEF Among
<1> QED BY <1>2, <1>5 DEF u

\* One element more, which is left out.
LEMMA SkipOne ==
  ASSUME NEW S, NEW s \in Seq(S), NEW T, NEW n \in 1..Len(s),
         NEW t \in Seq(S), Among(t, s, T, n - 1), s[n] \notin T
  PROVE  Among(t, s, T, n)
<1>1. \A j \in 1..(n - 1) : j \in 1..n
  OBVIOUS
<1>2. \A j \in 1..n : j = n \/ j \in 1..(n - 1)
  OBVIOUS
<1> QED BY <1>1, <1>2 DEF Among

\* A new element may follow in a sequence without repetition.
LEMMA OnceMore ==
  ASSUME NEW S, NEW t \in Seq(S), Once(t), NEW x \in S,
         \A i \in 1..Len(t) : t[i] # x
  PROVE  Once(Append(t, x))
<1> DEFINE u == Append(t, x)
           k == Len(t) + 1
<1>1. Len(t) \in Nat /\ Len(u) = k /\ u[k] = x /\ \A i \in 1..Len(t) : u[i] = t[i]
  BY AppendProperties
<1> HIDE DEF u
<1>2. \A i \in 1..Len(u) : i = k \/ i \in 1..Len(t)
  BY <1>1
<1>3. Once(u)
  BY <1>1, <1>2 DEF Once
<1> QED BY <1>3 DEF u

\* An element that comes later in a sequence without repetition is new.
LEMMA OneMoreOnce ==
  ASSUME NEW S, NEW s \in Seq(S), NEW T, NEW n \in 1..Len(s),
         NEW t \in Seq(S), Among(t, s, T, n - 1), Once(s) => Once(t)
  PROVE  Once(s) => Once(Append(t, s[n]))
<1> SUFFICES ASSUME Once(s) PROVE Once(Append(t, s[n]))
  OBVIOUS
<1>1. \A i \in 1..Len(t) : t[i] # s[n]
  <2> SUFFICES ASSUME NEW i \in 1..Len(t), t[i] = s[n] PROVE FALSE
    OBVIOUS
  <2>1. PICK j \in 1..(n - 1) : s[j] = t[i]
    BY DEF Among
  <2> QED BY <2>1 DEF Once
<1> QED BY <1>1, OnceMore

\* What Keeping keeps, for sequences of any length: nothing twice that was
\* there once.
LEMMA KeepingProperties ==
  ASSUME NEW S, NEW s \in Seq(S), NEW T
  PROVE  /\ Keeping(s, T) \in Seq(S) /\ Among(Keeping(s, T), s, T, Len(s))
         /\ Once(s) => Once(Keeping(s, T))
<1>1. PICK g : Keeps(s, T, g, Len(s)) /\ Keeping(s, T) = g[Len(s)]
  BY KeepingIs
<1>2. \A n \in 0..Len(s) : g[n] = KeptAt(s, T, g, n)
  BY <1>1 DEF Keeps
<1> DEFINE Right(n) == g[n] \in Seq(S) /\ Among(g[n], s, T, n) /\ (Once(s) => Once(g[n]))
           B == {n \in 0..Len(s) : ~ Right(n)}
<1> HIDE DEF Right
<1>3. ASSUME B # {} PROVE FALSE
  <2>1. PICK n \in B : \A m \in B : n <= m
    <3>1. B \in SUBSET Nat
      OBVIOUS
    <3> HIDE DEF B
    <3> QED BY <1>3, <3>1, LeastNat
  <2>2. CASE n = 0
    <3>1. g[n] = <<>>
      BY <1>2, <2>1, <2>2 DEF KeptAt
    <3>2. Right(n)
      BY <2>2, <3>1 DEF Right, Among, Once
    <3> QED BY <2>1, <3>2
  <2>3. CASE n # 0
    <3>1. n \in 1..Len(s) /\ n - 1 \in 0..Len(s) /\ n - 1 \notin B
      BY <2>1, <2>3
    <3>2. /\ g[n - 1] \in Seq(S) /\ Among(g[n - 1], s, T, n - 1)
          /\ Once(s) => Once(g[n - 1])
      BY <3>1 DEF Right
    <3>3. g[n] = IF s[n] \in T THEN Append(g[n - 1], s[n]) ELSE g[n - 1]
      BY <1>2, <2>1, <2>3 DEF KeptAt
    <3>4. CASE s[n] \in T
      <4>1. Append(g[n - 1], s[n]) \in Seq(S) /\ Among(Append(g[n - 1], s[n]), s, T, n)
        BY <3>1, <3>2, <3>4, KeepOne
      <4>2. Once(s) => Once(Append(g[n - 1], s[n]))
        BY <3>1, <3>2, OneMoreOnce
      <4>3. Right(n)
        BY <3>3, <3>4, <4>1, <4>2 DEF Right
      <4> QED BY <2>1, <4>3
    <3>5. CASE s[n] \notin T
      <4>1. Among(g[n - 1], s, T, n)
        BY <3>1, <3>2, <3>5, SkipOne
      <4>2. Right(n)
        BY <3>2, <3>3, <3>5, <4>1 DEF Right
      <4> QED BY <2>1, <4>2
    <3> QED BY <3>4, <3>5
  <2> QED BY <2>2, <2>3
<1>4. Right(Len(s))
  <2>1. Len(s) \in 0..Len(s)
    OBVIOUS
  <2> QED BY <1>3, <2>1
<1> QED BY <1>1, <1>4 DEF Right

-----------------------------------------------------------------------------
(* The pool as Open leaves it, and as idle does.                           *)

\* Live keeps the open connections of the pool, in their order.
LEMMA LiveProperties ==
  ASSUME TypeOK
  PROVE  /\ Live \in Seq(Conns)
         /\ \A c \in Conns : In(Live, c) <=> In(pool, c) /\ IsOpen(c)
         /\ Once(pool) => Once(Live)
<1> DEFINE T == {c \in Conns : IsOpen(c)}
<1>1. pool \in Seq(Conns)
  BY DEF TypeOK
<1>2. Live = Keeping(pool, T)
  BY DEF Live
<1> HIDE DEF T
<1>3. /\ Live \in Seq(Conns) /\ Among(Live, pool, T, Len(pool))
      /\ Once(pool) => Once(Live)
  BY <1>1, <1>2, KeepingProperties
<1>4. ASSUME NEW c \in Conns PROVE In(Live, c) <=> In(pool, c) /\ c \in T
  BY <1>3 DEF Among, In
<1> QED BY <1>3, <1>4 DEF T

\* idle takes the connection that it closes out of the pool, and no other.
LEMMA RemovedProperties ==
  ASSUME TypeOK, NEW c \in Conns
  PROVE  /\ Keeping(pool, Conns \ {c}) \in Seq(Conns)
         /\ \A d \in Conns : In(Keeping(pool, Conns \ {c}), d) <=> In(pool, d) /\ d # c
         /\ Once(pool) => Once(Keeping(pool, Conns \ {c}))
<1> DEFINE T == Conns \ {c}
           s == Keeping(pool, T)
<1>1. pool \in Seq(Conns)
  BY DEF TypeOK
<1> HIDE DEF T
<1>2. s \in Seq(Conns) /\ Among(s, pool, T, Len(pool)) /\ (Once(pool) => Once(s))
  BY <1>1, KeepingProperties
<1> HIDE DEF s
<1>3. ASSUME NEW d \in Conns PROVE In(s, d) <=> In(pool, d) /\ d \in T
  BY <1>2 DEF Among, In
<1> QED BY <1>2, <1>3 DEF T, s

\* The choice of Open is an open connection of the pool that carries the
\* preview already, or has room.
LEMMA ChosenProperties ==
  ASSUME TypeOK, NEW r \in Readers, Candidates(keyOf[r]) # {}
  PROVE  /\ Live[Min(Candidates(keyOf[r]))] \in Conns
         /\ \/ HasRoom(Live[Min(Candidates(keyOf[r]))])
            \/ keyOf[r] \in Previews(Live[Min(Candidates(keyOf[r]))])
<1> DEFINE C == Candidates(keyOf[r])
<1>1. Live \in Seq(Conns)
  BY LiveProperties
<1>2. C \in SUBSET (1..Len(Live)) /\ 1..Len(Live) \in SUBSET Nat
  BY <1>1 DEF Candidates, Carrying, Roomy
<1>3. Min(C) \in C
  <2> HIDE DEF C
  <2> QED BY <1>2, MinIn DEF C
<1>4. Min(C) \in Carrying(keyOf[r]) \/ Min(C) \in Roomy
  BY <1>3 DEF Candidates
<1> QED BY <1>1, <1>2, <1>3, <1>4 DEF Carrying, Roomy

-----------------------------------------------------------------------------
(* One part of the invariant at a time. *)

\* Initially there is no connection and nobody reads.
LEMMA InitInv == Init => IInv
<1> SUFFICES ASSUME Init PROVE IInv
  OBVIOUS
<1>1. TypeOK
  BY PoolAssumption DEF Init, TypeOK
<1>2. Attached /\ Holders /\ Subscribed /\ ChoiceHolds /\ NoneForgotten
  BY PoolAssumption DEF Init, Attached, Holders, Subscribed, ChoiceHolds, NoneForgotten, IsOpen
<1>3. AtMostMaxPreviews
  <2>1. \A c \in Conns : Previews(c) = {}
    BY DEF Init, Previews
  <2> QED BY <2>1, FS_EmptySet, PoolAssumption DEF AtMostMaxPreviews
<1>4. Found
  BY DEF Init, Found, Once, IsOpen
<1> QED BY <1>1, <1>2, <1>3, <1>4 DEF IInv

\* Every step keeps the types.
LEMMA TypesStep ==
  ASSUME TypeOK, Attached, [Next]_vars
  PROVE  TypeOK'
<1>1. ASSUME NEW r \in Readers, Open(r) PROVE TypeOK'
  BY <1>1, PoolAssumption
  DEF Open, TypeOK, Goto, poolVars, connVars, openVars
<1>2. ASSUME NEW r \in Readers, Choose(r) PROVE TypeOK'
  <2>1. Live \in Seq(Conns)
    BY LiveProperties
  <2>2. Live[Min(Candidates(keyOf[r]))] \in Conns
    BY <1>2, ChosenProperties DEF Choose
  <2> QED BY <1>2, <2>1, <2>2 DEF Choose, Consider, TypeOK, Goto, connVars
<1>3. ASSUME NEW r \in Readers, Wait(r) PROVE TypeOK'
  <2>1. Live \in Seq(Conns)
    BY LiveProperties
  <2> QED BY <1>3, <2>1 DEF Wait, Consider, TypeOK, Goto, connVars
<1>4. ASSUME NEW r \in Readers, BeginDial(r) PROVE TypeOK'
  <2>1. Live \in Seq(Conns)
    BY LiveProperties
  <2> QED BY <1>4, <2>1 DEF BeginDial, Consider, TypeOK, Goto, connVars
<1>5. ASSUME NEW r \in Readers, BeginCameraDial(r) PROVE TypeOK'
  BY <1>5, PoolAssumption
  DEF BeginCameraDial, Consider, TypeOK, Goto, poolVars, connVars, openVars
<1>6. ASSUME NEW r \in Readers, SubscribeChosen(r) PROVE TypeOK'
  BY <1>6, PoolAssumption
  DEF SubscribeChosen, TypeOK, Goto, poolVars, connVars, openVars
<1>7. ASSUME NEW r \in Readers, DialFails(r) PROVE TypeOK'
  BY <1>7, PoolAssumption
  DEF DialFails, TypeOK, Goto, poolVars, connVars, openVars
<1>8. ASSUME NEW r \in Readers, DialFindsCamera(r) PROVE TypeOK'
  BY <1>8, PoolAssumption
  DEF DialFindsCamera, TypeOK, Goto, poolVars, connVars, openVars
<1>9. ASSUME NEW r \in Readers, DialFindsRecorder(r) PROVE TypeOK'
  BY <1>9, PoolAssumption
  DEF DialFindsRecorder, TypeOK, Goto, poolVars, connVars, openVars
<1>10. ASSUME NEW r \in Readers, Publish(r) PROVE TypeOK'
  <2>1. at[r] \in Conns
    BY <1>10 DEF Publish, Attached, TypeOK
  <2>2. Append(pool, at[r]) \in Seq(Conns)
    BY <2>1, AppendProperties DEF TypeOK
  <2> QED BY <1>10, <2>2 DEF Publish, TypeOK, Goto, connVars
<1>11. ASSUME NEW r \in Readers, EndDial(r) PROVE TypeOK'
  <2>1. result[r] \in {"absent", "reading", "owning"}
    BY <1>11 DEF EndDial, Attached, TypeOK
  <2> QED BY <1>11, <2>1 DEF EndDial, TypeOK, connVars
<1>12. ASSUME NEW r \in Readers, CameraDialEnds(r) PROVE TypeOK'
  BY <1>12, PoolAssumption
  DEF CameraDialEnds, TypeOK, Goto, poolVars, connVars, openVars
<1>13. ASSUME NEW r \in Readers, GiveUp(r) PROVE TypeOK'
  BY <1>13, PoolAssumption
  DEF GiveUp, TypeOK, Goto, poolVars, connVars, openVars
<1>14. ASSUME NEW r \in Readers, CloseOwn(r) PROVE TypeOK'
  BY <1>14, PoolAssumption
  DEF CloseOwn, TypeOK, Goto, poolVars, connVars, openVars
<1>15. ASSUME NEW r \in Readers, Close(r) PROVE TypeOK'
  BY <1>15, PoolAssumption
  DEF Close, TypeOK, Goto, poolVars, connVars, openVars
<1>16. ASSUME NEW r \in Readers, Stall(r) PROVE TypeOK'
  BY <1>16, PoolAssumption
  DEF Stall, TypeOK, Goto, poolVars, connVars, openVars
<1>17. ASSUME NEW r \in Readers, IdleByReader(r) PROVE TypeOK'
  <2>0. at[r] \in Conns
    BY <1>17 DEF IdleByReader, Attached, TypeOK
  <2>1. pool' \in Seq(Conns)
    BY <1>17, <2>0, RemovedProperties DEF IdleByReader, IdleClose, TypeOK
  <2>2. state' \in [Conns -> {"open", "closed"}] /\ session' \in [Conns -> {"held", "released"}]
    BY <1>17, <2>0 DEF IdleByReader, IdleClose, TypeOK
  <2> QED BY <1>17, <2>1, <2>2 DEF IdleByReader, TypeOK, Goto
<1>18. ASSUME NEW c \in Conns, IdleByDemux(c) PROVE TypeOK'
  <2>1. pool' \in Seq(Conns)
    BY <1>18, RemovedProperties DEF IdleByDemux, IdleClose, TypeOK
  <2>2. state' \in [Conns -> {"open", "closed"}] /\ session' \in [Conns -> {"held", "released"}]
    BY <1>18 DEF IdleByDemux, IdleClose, TypeOK
  <2> QED BY <1>18, <2>1, <2>2 DEF IdleByDemux, TypeOK, Goto, openVars
<1>19. ASSUME NEW c \in Conns, ConnectionEnds(c) PROVE TypeOK'
  BY <1>19, PoolAssumption
  DEF ConnectionEnds, TypeOK, Goto, poolVars, connVars, openVars
<1>20. ASSUME NEW c \in Conns, Collect(c) PROVE TypeOK'
  BY <1>20, PoolAssumption
  DEF Collect, TypeOK, Goto, poolVars, connVars, openVars
<1>21. CASE UNCHANGED vars
  BY <1>21 DEF TypeOK, vars, poolVars, connVars, openVars
<1> QED
  BY <1>1, <1>2, <1>3, <1>4, <1>5, <1>6, <1>7, <1>8, <1>9, <1>10, <1>11,
     <1>12, <1>13, <1>14, <1>15, <1>16, <1>17, <1>18, <1>19, <1>20, <1>21
  DEF Next, OpenStep, DialStep

\* A stream has a connection, and a result, in the states that say so.
LEMMA AttachedStep ==
  ASSUME TypeOK, Attached, [Next]_vars
  PROVE  Attached'
<1>1. ASSUME NEW r \in Readers, Open(r) PROVE Attached'
  BY <1>1, PoolAssumption
  DEF Open, TypeOK, Attached, None, Goto, poolVars, connVars, openVars
<1>2. ASSUME NEW r \in Readers, Choose(r) PROVE Attached'
  <2>1. Live[Min(Candidates(keyOf[r]))] \in Conns
    BY <1>2, ChosenProperties DEF Choose
  <2> QED BY <1>2, <2>1, PoolAssumption DEF Choose, Consider, TypeOK, Attached, Goto
<1>3. ASSUME NEW r \in Readers, Wait(r) PROVE Attached'
  BY <1>3, PoolAssumption
  DEF Wait, Consider, TypeOK, Attached, None, Goto, poolVars, connVars, openVars
<1>4. ASSUME NEW r \in Readers, BeginDial(r) PROVE Attached'
  BY <1>4, PoolAssumption
  DEF BeginDial, Consider, TypeOK, Attached, None, Goto, poolVars, connVars, openVars
<1>5. ASSUME NEW r \in Readers, BeginCameraDial(r) PROVE Attached'
  BY <1>5, PoolAssumption
  DEF BeginCameraDial, Consider, TypeOK, Attached, None, Goto, poolVars, connVars, openVars
<1>6. ASSUME NEW r \in Readers, SubscribeChosen(r) PROVE Attached'
  BY <1>6, PoolAssumption
  DEF SubscribeChosen, TypeOK, Attached, None, Goto, poolVars, connVars, openVars
<1>7. ASSUME NEW r \in Readers, DialFails(r) PROVE Attached'
  BY <1>7, PoolAssumption
  DEF DialFails, TypeOK, Attached, None, Goto, poolVars, connVars, openVars
<1>8. ASSUME NEW r \in Readers, DialFindsCamera(r) PROVE Attached'
  BY <1>8, PoolAssumption
  DEF DialFindsCamera, TypeOK, Attached, None, Goto, poolVars, connVars, openVars
<1>9. ASSUME NEW r \in Readers, DialFindsRecorder(r) PROVE Attached'
  BY <1>9, PoolAssumption
  DEF DialFindsRecorder, TypeOK, Attached, None, Goto, poolVars, connVars, openVars
<1>10. ASSUME NEW r \in Readers, Publish(r) PROVE Attached'
  BY <1>10, PoolAssumption
  DEF Publish, TypeOK, Attached, None, Goto, poolVars, connVars, openVars
<1>11. ASSUME NEW r \in Readers, EndDial(r) PROVE Attached'
  <2>1. result[r] \in {"absent", "reading", "owning"}
    BY <1>11 DEF EndDial, Attached, TypeOK
  <2> QED BY <1>11, <2>1, PoolAssumption DEF EndDial, TypeOK, Attached
<1>12. ASSUME NEW r \in Readers, CameraDialEnds(r) PROVE Attached'
  BY <1>12, PoolAssumption
  DEF CameraDialEnds, TypeOK, Attached, None, Goto, poolVars, connVars, openVars
<1>13. ASSUME NEW r \in Readers, GiveUp(r) PROVE Attached'
  BY <1>13, PoolAssumption
  DEF GiveUp, TypeOK, Attached, None, Goto, poolVars, connVars, openVars
<1>14. ASSUME NEW r \in Readers, CloseOwn(r) PROVE Attached'
  BY <1>14, PoolAssumption
  DEF CloseOwn, TypeOK, Attached, None, Goto, poolVars, connVars, openVars
<1>15. ASSUME NEW r \in Readers, Close(r) PROVE Attached'
  BY <1>15, PoolAssumption
  DEF Close, TypeOK, Attached, None, Goto, poolVars, connVars, openVars
<1>16. ASSUME NEW r \in Readers, Stall(r) PROVE Attached'
  BY <1>16, PoolAssumption
  DEF Stall, TypeOK, Attached, None, Goto, poolVars, connVars, openVars
<1>17. ASSUME NEW r \in Readers, IdleByReader(r) PROVE Attached'
  BY <1>17, PoolAssumption
  DEF IdleByReader, IdleClose, TypeOK, Attached, None, Goto, poolVars, connVars, openVars
<1>18. ASSUME NEW c \in Conns, IdleByDemux(c) PROVE Attached'
  BY <1>18, PoolAssumption
  DEF IdleByDemux, IdleClose, TypeOK, Attached, None, Goto, poolVars, connVars, openVars
<1>19. ASSUME NEW c \in Conns, ConnectionEnds(c) PROVE Attached'
  BY <1>19, PoolAssumption
  DEF ConnectionEnds, TypeOK, Attached, None, Goto, poolVars, connVars, openVars
<1>20. ASSUME NEW c \in Conns, Collect(c) PROVE Attached'
  BY <1>20, PoolAssumption
  DEF Collect, TypeOK, Attached, None, Goto, poolVars, connVars, openVars
<1>21. CASE UNCHANGED vars
  BY <1>21 DEF Attached, vars, poolVars, connVars, openVars
<1> QED
  BY <1>1, <1>2, <1>3, <1>4, <1>5, <1>6, <1>7, <1>8, <1>9, <1>10, <1>11,
     <1>12, <1>13, <1>14, <1>15, <1>16, <1>17, <1>18, <1>19, <1>20, <1>21
  DEF Next, OpenStep, DialStep

\* p.mu and g.dialing name the stream that is between their two steps.
LEMMA HoldersStep ==
  ASSUME TypeOK, Attached, Holders, [Next]_vars
  PROVE  Holders'
<1>1. ASSUME NEW r \in Readers, Open(r) PROVE Holders'
  BY <1>1, PoolAssumption
  DEF Open, TypeOK, Holders, Goto, poolVars, connVars, openVars
<1>2. ASSUME NEW r \in Readers, Choose(r) PROVE Holders'
  BY <1>2, PoolAssumption
  DEF Choose, Consider, TypeOK, Holders, Goto, poolVars, connVars, openVars
<1>3. ASSUME NEW r \in Readers, Wait(r) PROVE Holders'
  BY <1>3, PoolAssumption
  DEF Wait, Consider, TypeOK, Holders, Goto, poolVars, connVars, openVars
<1>4. ASSUME NEW r \in Readers, BeginDial(r) PROVE Holders'
  BY <1>4, PoolAssumption
  DEF BeginDial, Consider, TypeOK, Holders, Goto, poolVars, connVars, openVars
<1>5. ASSUME NEW r \in Readers, BeginCameraDial(r) PROVE Holders'
  BY <1>5, PoolAssumption
  DEF BeginCameraDial, Consider, TypeOK, Holders, Goto, poolVars, connVars, openVars
<1>6. ASSUME NEW r \in Readers, SubscribeChosen(r) PROVE Holders'
  BY <1>6, PoolAssumption
  DEF SubscribeChosen, TypeOK, Holders, Goto, poolVars, connVars, openVars
<1>7. ASSUME NEW r \in Readers, DialFails(r) PROVE Holders'
  BY <1>7, PoolAssumption
  DEF DialFails, TypeOK, Holders, Goto, poolVars, connVars, openVars
<1>8. ASSUME NEW r \in Readers, DialFindsCamera(r) PROVE Holders'
  BY <1>8, PoolAssumption
  DEF DialFindsCamera, TypeOK, Holders, Goto, poolVars, connVars, openVars
<1>9. ASSUME NEW r \in Readers, DialFindsRecorder(r) PROVE Holders'
  BY <1>9, PoolAssumption
  DEF DialFindsRecorder, TypeOK, Holders, Goto, poolVars, connVars, openVars
<1>10. ASSUME NEW r \in Readers, Publish(r) PROVE Holders'
  BY <1>10, PoolAssumption
  DEF Publish, TypeOK, Holders, Goto, poolVars, connVars, openVars
<1>11. ASSUME NEW r \in Readers, EndDial(r) PROVE Holders'
  <2>1. result[r] \in {"absent", "reading", "owning"}
    BY <1>11 DEF EndDial, Attached, TypeOK
  <2>2. mu = None /\ dialing = r /\ mu' = None /\ dialing' = None
    BY <1>11 DEF EndDial, Holders
  <2>3. ASSUME NEW s \in Readers
        PROVE  opener'[s] \notin {"chosen", "dialing", "subscribed", "dialed"}
    BY <1>11, <2>1, <2>2, <2>3, PoolAssumption DEF EndDial, Holders, TypeOK
  <2> QED BY <2>2, <2>3, PoolAssumption DEF Holders
<1>12. ASSUME NEW r \in Readers, CameraDialEnds(r) PROVE Holders'
  BY <1>12, PoolAssumption
  DEF CameraDialEnds, TypeOK, Holders, Goto, poolVars, connVars, openVars
<1>13. ASSUME NEW r \in Readers, GiveUp(r) PROVE Holders'
  BY <1>13, PoolAssumption
  DEF GiveUp, TypeOK, Holders, Goto, poolVars, connVars, openVars
<1>14. ASSUME NEW r \in Readers, CloseOwn(r) PROVE Holders'
  BY <1>14, PoolAssumption
  DEF CloseOwn, TypeOK, Holders, Goto, poolVars, connVars, openVars
<1>15. ASSUME NEW r \in Readers, Close(r) PROVE Holders'
  BY <1>15, PoolAssumption
  DEF Close, TypeOK, Holders, Goto, poolVars, connVars, openVars
<1>16. ASSUME NEW r \in Readers, Stall(r) PROVE Holders'
  BY <1>16, PoolAssumption
  DEF Stall, TypeOK, Holders, Goto, poolVars, connVars, openVars
<1>17. ASSUME NEW r \in Readers, IdleByReader(r) PROVE Holders'
  BY <1>17, PoolAssumption
  DEF IdleByReader, IdleClose, TypeOK, Holders, Goto, poolVars, connVars, openVars
<1>18. ASSUME NEW c \in Conns, IdleByDemux(c) PROVE Holders'
  BY <1>18, PoolAssumption
  DEF IdleByDemux, IdleClose, TypeOK, Holders, Goto, poolVars, connVars, openVars
<1>19. ASSUME NEW c \in Conns, ConnectionEnds(c) PROVE Holders'
  BY <1>19, PoolAssumption
  DEF ConnectionEnds, TypeOK, Holders, Goto, poolVars, connVars, openVars
<1>20. ASSUME NEW c \in Conns, Collect(c) PROVE Holders'
  BY <1>20, PoolAssumption
  DEF Collect, TypeOK, Holders, Goto, poolVars, connVars, openVars
<1>21. CASE UNCHANGED vars
  BY <1>21 DEF Holders, vars, poolVars, connVars, openVars
<1> QED
  BY <1>1, <1>2, <1>3, <1>4, <1>5, <1>6, <1>7, <1>8, <1>9, <1>10, <1>11,
     <1>12, <1>13, <1>14, <1>15, <1>16, <1>17, <1>18, <1>19, <1>20, <1>21
  DEF Next, OpenStep, DialStep

\* Readers are on open connections, their own, and subscribed.
LEMMA SubscribedStep ==
  ASSUME TypeOK, Attached, Holders, Subscribed, [Next]_vars
  PROVE  Subscribed'
<1>1. ASSUME NEW r \in Readers, Open(r) PROVE Subscribed'
  BY <1>1, PoolAssumption
  DEF Open, TypeOK, Attached, Subscribed, IsOpen, Goto, poolVars, connVars, openVars
<1>2. ASSUME NEW r \in Readers, Choose(r) PROVE Subscribed'
  BY <1>2, PoolAssumption
  DEF Choose, Consider, TypeOK, Attached, Subscribed, IsOpen, Goto, poolVars, connVars, openVars
<1>3. ASSUME NEW r \in Readers, Wait(r) PROVE Subscribed'
  BY <1>3, PoolAssumption
  DEF Wait, Consider, TypeOK, Attached, Subscribed, IsOpen, Goto, poolVars, connVars, openVars
<1>4. ASSUME NEW r \in Readers, BeginDial(r) PROVE Subscribed'
  BY <1>4, PoolAssumption
  DEF BeginDial, Consider, TypeOK, Attached, Subscribed, IsOpen, Goto, poolVars, connVars, openVars
<1>5. ASSUME NEW r \in Readers, BeginCameraDial(r) PROVE Subscribed'
  BY <1>5, PoolAssumption
  DEF BeginCameraDial, Consider, TypeOK, Attached, Subscribed, IsOpen, Goto, poolVars, connVars, openVars
<1>6. ASSUME NEW r \in Readers, SubscribeChosen(r) PROVE Subscribed'
  BY <1>6, PoolAssumption
  DEF SubscribeChosen, TypeOK, Attached, Subscribed, IsOpen, Goto, poolVars, connVars, openVars
<1>7. ASSUME NEW r \in Readers, DialFails(r) PROVE Subscribed'
  BY <1>7, PoolAssumption
  DEF DialFails, TypeOK, Attached, Subscribed, IsOpen, Goto, poolVars, connVars, openVars
<1>8. ASSUME NEW r \in Readers, DialFindsCamera(r) PROVE Subscribed'
  BY <1>8, PoolAssumption
  DEF DialFindsCamera, TypeOK, Attached, Subscribed, IsOpen, Goto, poolVars, connVars, openVars
<1>9. ASSUME NEW r \in Readers, DialFindsRecorder(r) PROVE Subscribed'
  BY <1>9, PoolAssumption
  DEF DialFindsRecorder, TypeOK, Attached, Subscribed, IsOpen, Goto, poolVars, connVars, openVars
<1>10. ASSUME NEW r \in Readers, Publish(r) PROVE Subscribed'
  BY <1>10, PoolAssumption
  DEF Publish, TypeOK, Attached, Subscribed, IsOpen, Goto, poolVars, connVars, openVars
<1>11. ASSUME NEW r \in Readers, EndDial(r) PROVE Subscribed'
  BY <1>11, PoolAssumption
  DEF EndDial, TypeOK, Attached, Subscribed, IsOpen, Goto, poolVars, connVars, openVars
<1>12. ASSUME NEW r \in Readers, CameraDialEnds(r) PROVE Subscribed'
  BY <1>12, PoolAssumption
  DEF CameraDialEnds, TypeOK, Attached, Subscribed, IsOpen, Goto, poolVars, connVars, openVars
<1>13. ASSUME NEW r \in Readers, GiveUp(r) PROVE Subscribed'
  BY <1>13, PoolAssumption
  DEF GiveUp, TypeOK, Attached, Subscribed, IsOpen, Goto, poolVars, connVars, openVars
<1>14. ASSUME NEW r \in Readers, CloseOwn(r) PROVE Subscribed'
  BY <1>14, PoolAssumption
  DEF CloseOwn, TypeOK, Attached, Subscribed, IsOpen, Goto, poolVars, connVars, openVars
<1>15. ASSUME NEW r \in Readers, Close(r) PROVE Subscribed'
  BY <1>15, PoolAssumption
  DEF Close, TypeOK, Attached, Subscribed, IsOpen, Goto, poolVars, connVars, openVars
<1>16. ASSUME NEW r \in Readers, Stall(r) PROVE Subscribed'
  BY <1>16, PoolAssumption
  DEF Stall, TypeOK, Attached, Subscribed, IsOpen, Goto, poolVars, connVars, openVars
<1>17. ASSUME NEW r \in Readers, IdleByReader(r) PROVE Subscribed'
  BY <1>17, PoolAssumption
  DEF IdleByReader, IdleClose, TypeOK, Attached, Subscribed, IsOpen, Goto, poolVars, connVars, openVars
<1>18. ASSUME NEW c \in Conns, IdleByDemux(c) PROVE Subscribed'
  BY <1>18, PoolAssumption
  DEF IdleByDemux, IdleClose, TypeOK, Attached, Subscribed, IsOpen, Goto, poolVars, connVars, openVars
<1>19. ASSUME NEW c \in Conns, ConnectionEnds(c) PROVE Subscribed'
  BY <1>19, PoolAssumption
  DEF ConnectionEnds, TypeOK, Attached, Subscribed, IsOpen, Goto, poolVars, connVars, openVars
<1>20. ASSUME NEW c \in Conns, Collect(c) PROVE Subscribed'
  BY <1>20, PoolAssumption
  DEF Collect, TypeOK, Attached, Subscribed, IsOpen, Goto, poolVars, connVars, openVars
<1>21. CASE UNCHANGED vars
  BY <1>21 DEF Subscribed, IsOpen, vars, poolVars, connVars, openVars
<1> QED
  BY <1>1, <1>2, <1>3, <1>4, <1>5, <1>6, <1>7, <1>8, <1>9, <1>10, <1>11,
     <1>12, <1>13, <1>14, <1>15, <1>16, <1>17, <1>18, <1>19, <1>20, <1>21
  DEF Next, OpenStep, DialStep

-----------------------------------------------------------------------------
(* Previews on a connection. *)

\* A connection carries finitely many previews; one that is dropped makes
\* room, since there were no more than the limit.
LEMMA PreviewsFinite ==
  ASSUME TypeOK, NEW c \in Conns
  PROVE  /\ IsFiniteSet(Previews(c)) /\ Cardinality(Previews(c)) \in Nat
         /\ Previews(c) \subseteq Keys
<1>1. Previews(c) \subseteq Keys
  BY DEF TypeOK, Previews
<1>2. IsFiniteSet(Previews(c))
  BY <1>1, FS_Subset, PoolAssumption
<1> QED BY <1>1, <1>2, FS_CardinalityType

\* After a reader has left, a connection is within the limit, and what was
\* chosen of it still holds: it carries the preview, or has room for it.
LEMMA LeaverMakesRoom ==
  ASSUME TypeOK, TypeOK', keyOf' = keyOf, NEW c \in Conns, on'[c] \subseteq on[c],
         Cardinality(Previews(c)) <= MaxPreviews, NEW k
  PROVE  /\ Cardinality(Previews(c)') <= MaxPreviews
         /\ HasRoom(c) \/ k \in Previews(c) => HasRoom(c)' \/ k \in Previews(c)'
<1>1. Previews(c)' \subseteq Previews(c)
  BY DEF Previews
<1>2. IsFiniteSet(Previews(c)) /\ Cardinality(Previews(c)) \in Nat
  BY PreviewsFinite
<1>3. IsFiniteSet(Previews(c)') /\ Cardinality(Previews(c)') \in Nat
  BY <1>1, <1>2, FS_Subset, FS_CardinalityType
<1>4. Cardinality(Previews(c)') <= Cardinality(Previews(c))
  BY <1>1, <1>2, FS_Subset
<1>5. ASSUME k \in Previews(c), k \notin Previews(c)' PROVE HasRoom(c)'
  <2>1. Cardinality(Previews(c)') < Cardinality(Previews(c))
    <3>1. Cardinality(Previews(c)') # Cardinality(Previews(c))
      BY <1>1, <1>2, <1>5, FS_Subset
    <3> QED BY <1>2, <1>3, <1>4, <3>1
  <2> QED BY <1>2, <1>3, <2>1, PoolAssumption DEF HasRoom
<1>6. HasRoom(c) => HasRoom(c)'
  BY <1>2, <1>3, <1>4, PoolAssumption DEF HasRoom
<1>7. Cardinality(Previews(c)') <= MaxPreviews
  BY <1>2, <1>3, <1>4, PoolAssumption
<1> QED BY <1>5, <1>6, <1>7

\* A reader may join where its preview is carried already or there is room.
LEMMA JoinerFits ==
  ASSUME TypeOK, TypeOK', keyOf' = keyOf, NEW c \in Conns, NEW r \in Readers,
         on'[c] = on[c] \union {r}, Cardinality(Previews(c)) <= MaxPreviews,
         HasRoom(c) \/ keyOf[r] \in Previews(c)
  PROVE  Cardinality(Previews(c)') <= MaxPreviews
<1>1. Previews(c)' = Previews(c) \union {keyOf[r]}
  BY DEF Previews
<1>2. IsFiniteSet(Previews(c)) /\ Cardinality(Previews(c)) \in Nat
  BY PreviewsFinite
<1>3. CASE keyOf[r] \in Previews(c)
  <2>1. Previews(c)' = Previews(c)
    BY <1>1, <1>3
  <2> QED BY <2>1
<1>4. CASE keyOf[r] \notin Previews(c)
  <2>1. Cardinality(Previews(c)') = Cardinality(Previews(c)) + 1
    BY <1>1, <1>2, <1>4, FS_AddElement
  <2> QED BY <1>2, <1>4, <2>1, PoolAssumption DEF HasRoom
<1> QED BY <1>3, <1>4

\* As long as no connection gains a reader, the limit is kept, and so is what
\* the choice of a connection saw.
LEMMA FewerReaders ==
  ASSUME TypeOK, TypeOK', keyOf' = keyOf, \A c \in Conns : on'[c] \subseteq on[c],
         AtMostMaxPreviews
  PROVE  /\ AtMostMaxPreviews'
         /\ \A c \in Conns : \A k :
              HasRoom(c) \/ k \in Previews(c) => HasRoom(c)' \/ k \in Previews(c)'
<1>1. \A c \in Conns : Cardinality(Previews(c)) <= MaxPreviews
  BY DEF AtMostMaxPreviews
<1>2. ASSUME NEW c \in Conns, NEW k
      PROVE  /\ Cardinality(Previews(c)') <= MaxPreviews
             /\ HasRoom(c) \/ k \in Previews(c) => HasRoom(c)' \/ k \in Previews(c)'
  BY <1>1, <1>2, LeaverMakesRoom
<1>3. \A c \in Conns : Cardinality(Previews(c)') <= MaxPreviews
  BY <1>2
<1> QED BY <1>2, <1>3 DEF AtMostMaxPreviews

\* The steps that add readers are Subscribe's two.
LEMMA WhoJoins ==
  ASSUME TypeOK, [Next]_vars
  PROVE  /\ keyOf' = keyOf
         /\ \/ \A c \in Conns : on'[c] \subseteq on[c]
            \/ \E r \in Readers : SubscribeChosen(r) /\ IsOpen(at[r]) /\ on' = [on EXCEPT ![at[r]] = @ \union {r}]
            \/ \E r \in Readers : DialFindsRecorder(r)
<1> DEFINE Fewer == \A c \in Conns : on'[c] \subseteq on[c]
           Joins == \E r \in Readers : SubscribeChosen(r) /\ IsOpen(at[r]) /\ on' = [on EXCEPT ![at[r]] = @ \union {r}]
<1>1. ASSUME NEW r \in Readers, Open(r) PROVE keyOf' = keyOf /\ Fewer
  BY <1>1 DEF Open, connVars, TypeOK
<1>2. ASSUME NEW r \in Readers, Choose(r) PROVE keyOf' = keyOf /\ Fewer
  BY <1>2 DEF Choose, Consider, connVars, TypeOK
<1>3. ASSUME NEW r \in Readers, Wait(r) PROVE keyOf' = keyOf /\ Fewer
  BY <1>3 DEF Wait, Consider, connVars, TypeOK
<1>4. ASSUME NEW r \in Readers, BeginDial(r) PROVE keyOf' = keyOf /\ Fewer
  BY <1>4 DEF BeginDial, Consider, connVars, TypeOK
<1>5. ASSUME NEW r \in Readers, BeginCameraDial(r) PROVE keyOf' = keyOf /\ Fewer
  BY <1>5 DEF BeginCameraDial, Consider, connVars, TypeOK
<1>6. ASSUME NEW r \in Readers, SubscribeChosen(r) PROVE keyOf' = keyOf /\ (Fewer \/ Joins)
  BY <1>6 DEF SubscribeChosen, connVars, TypeOK
<1>7. ASSUME NEW r \in Readers, DialFails(r) PROVE keyOf' = keyOf /\ Fewer
  BY <1>7 DEF DialFails, connVars, TypeOK
<1>8. ASSUME NEW r \in Readers, DialFindsCamera(r) PROVE keyOf' = keyOf /\ Fewer
  BY <1>8 DEF DialFindsCamera, connVars, TypeOK
<1>9. ASSUME NEW r \in Readers, DialFindsRecorder(r) PROVE keyOf' = keyOf
  BY <1>9 DEF DialFindsRecorder, connVars, TypeOK
<1>10. ASSUME NEW r \in Readers, Publish(r) PROVE keyOf' = keyOf /\ Fewer
  BY <1>10 DEF Publish, connVars, TypeOK
<1>11. ASSUME NEW r \in Readers, EndDial(r) PROVE keyOf' = keyOf /\ Fewer
  BY <1>11 DEF EndDial, connVars, TypeOK
<1>12. ASSUME NEW r \in Readers, CameraDialEnds(r) PROVE keyOf' = keyOf /\ Fewer
  BY <1>12 DEF CameraDialEnds, connVars, TypeOK
<1>13. ASSUME NEW r \in Readers, GiveUp(r) PROVE keyOf' = keyOf /\ Fewer
  BY <1>13 DEF GiveUp, connVars, TypeOK
<1>14. ASSUME NEW r \in Readers, CloseOwn(r) PROVE keyOf' = keyOf /\ Fewer
  BY <1>14 DEF CloseOwn, connVars, TypeOK
<1>15. ASSUME NEW r \in Readers, Close(r) PROVE keyOf' = keyOf /\ Fewer
  BY <1>15 DEF Close, connVars, TypeOK
<1>16. ASSUME NEW r \in Readers, Stall(r) PROVE keyOf' = keyOf /\ Fewer
  BY <1>16 DEF Stall, connVars, TypeOK
<1>17. ASSUME NEW r \in Readers, IdleByReader(r) PROVE keyOf' = keyOf /\ Fewer
  BY <1>17 DEF IdleByReader, connVars, TypeOK
<1>18. ASSUME NEW c \in Conns, IdleByDemux(c) PROVE keyOf' = keyOf /\ Fewer
  BY <1>18 DEF IdleByDemux, connVars, TypeOK
<1>19. ASSUME NEW c \in Conns, ConnectionEnds(c) PROVE keyOf' = keyOf /\ Fewer
  BY <1>19 DEF ConnectionEnds, connVars, TypeOK
<1>20. ASSUME NEW c \in Conns, Collect(c) PROVE keyOf' = keyOf /\ Fewer
  BY <1>20 DEF Collect, connVars, TypeOK
<1>21. CASE UNCHANGED vars
  BY <1>21 DEF vars, connVars
<1> HIDE DEF Fewer, Joins
<1> QED
  BY <1>1, <1>2, <1>3, <1>4, <1>5, <1>6, <1>7, <1>8, <1>9, <1>10, <1>11,
     <1>12, <1>13, <1>14, <1>15, <1>16, <1>17, <1>18, <1>19, <1>20, <1>21
  DEF Next, OpenStep, DialStep, Fewer, Joins

\* No connection gets more previews than it may carry.
LEMMA LimitStep ==
  ASSUME TypeOK, TypeOK', Attached, AtMostMaxPreviews, ChoiceHolds, [Next]_vars
  PROVE  AtMostMaxPreviews'
<1>1. keyOf' = keyOf
  BY WhoJoins
<1>2. CASE \A c \in Conns : on'[c] \subseteq on[c]
  BY <1>1, <1>2, FewerReaders
<1>3. ASSUME NEW r \in Readers, SubscribeChosen(r), IsOpen(at[r]),
             on' = [on EXCEPT ![at[r]] = @ \union {r}], NEW c \in Conns
      PROVE  Cardinality(Previews(c)') <= MaxPreviews
  <2>1. Cardinality(Previews(c)) <= MaxPreviews
    BY DEF AtMostMaxPreviews
  <2>2. CASE c = at[r]
    <3>1. HasRoom(c) \/ keyOf[r] \in Previews(c)
      BY <1>3, <2>2 DEF SubscribeChosen, ChoiceHolds
    <3>2. on'[c] = on[c] \union {r}
      BY <1>3, <2>2 DEF TypeOK
    <3> QED BY <1>1, <2>1, <3>1, <3>2, JoinerFits
  <2>3. CASE c # at[r]
    <3>1. on'[c] \subseteq on[c]
      BY <1>3, <2>3 DEF TypeOK
    <3> QED BY <1>1, <2>1, <3>1, LeaverMakesRoom
  <2> QED BY <2>2, <2>3
<1>4. ASSUME NEW r \in Readers, DialFindsRecorder(r), NEW c \in Conns
      PROVE  Cardinality(Previews(c)') <= MaxPreviews
  <2>1. Cardinality(Previews(c)) <= MaxPreviews
    BY DEF AtMostMaxPreviews
  <2>2. CASE on'[c] = {r}
    <3>1. Previews(c)' = {keyOf'[r]}
      BY <2>2 DEF Previews
    <3> QED BY <3>1, FS_Singleton, PoolAssumption
  <2>3. CASE on'[c] # {r}
    <3>1. on'[c] \subseteq on[c]
      BY <1>4, <2>3 DEF DialFindsRecorder, TypeOK
    <3> QED BY <1>1, <2>1, <3>1, LeaverMakesRoom
  <2> QED BY <2>2, <2>3
<1>5. CASE \E r \in Readers : SubscribeChosen(r) /\ IsOpen(at[r])
                             /\ on' = [on EXCEPT ![at[r]] = @ \union {r}]
  BY <1>3, <1>5 DEF AtMostMaxPreviews
<1>6. CASE \E r \in Readers : DialFindsRecorder(r)
  BY <1>4, <1>6 DEF AtMostMaxPreviews
<1> QED BY <1>2, <1>5, <1>6, WhoJoins

\* A stream that has chosen an open connection had done so before, except in
\* the step that chooses.
LEMMA ChosenBefore ==
  ASSUME TypeOK, Attached, [Next]_vars, NEW s \in Readers,
         opener'[s] = "chosen", IsOpen(at[s])'
  PROVE  \/ opener[s] = "chosen" /\ at'[s] = at[s] /\ IsOpen(at[s])
         \/ \E r \in Readers : Choose(r)
<1> DEFINE Before == opener[s] = "chosen" /\ at'[s] = at[s] /\ IsOpen(at[s])
<1>1. ASSUME NEW r \in Readers, Open(r) PROVE Before
  BY <1>1 DEF Open, TypeOK, Attached, Goto, connVars, openVars, IsOpen
<1>2. ASSUME NEW r \in Readers, Wait(r) PROVE Before
  BY <1>2 DEF Wait, Consider, TypeOK, Attached, Goto, connVars, openVars, IsOpen
<1>3. ASSUME NEW r \in Readers, BeginDial(r) PROVE Before
  BY <1>3 DEF BeginDial, Consider, TypeOK, Attached, Goto, connVars, openVars, IsOpen
<1>4. ASSUME NEW r \in Readers, BeginCameraDial(r) PROVE Before
  BY <1>4 DEF BeginCameraDial, Consider, TypeOK, Attached, Goto, connVars, openVars, IsOpen
<1>5. ASSUME NEW r \in Readers, SubscribeChosen(r) PROVE Before
  BY <1>5 DEF SubscribeChosen, TypeOK, Attached, Goto, connVars, openVars, IsOpen
<1>6. ASSUME NEW r \in Readers, DialFails(r) PROVE Before
  BY <1>6 DEF DialFails, TypeOK, Attached, Goto, connVars, openVars, IsOpen
<1>7. ASSUME NEW r \in Readers, DialFindsCamera(r) PROVE Before
  BY <1>7 DEF DialFindsCamera, TypeOK, Attached, Goto, connVars, openVars, IsOpen
<1>8. ASSUME NEW r \in Readers, DialFindsRecorder(r) PROVE Before
  BY <1>8 DEF DialFindsRecorder, Unused, TypeOK, Attached, Goto, connVars, openVars, IsOpen
<1>9. ASSUME NEW r \in Readers, Publish(r) PROVE Before
  BY <1>9 DEF Publish, TypeOK, Attached, Goto, connVars, openVars, IsOpen
<1>10. ASSUME NEW r \in Readers, EndDial(r) PROVE Before
  BY <1>10 DEF EndDial, TypeOK, Attached, Goto, connVars, openVars, IsOpen
<1>11. ASSUME NEW r \in Readers, CameraDialEnds(r) PROVE Before
  BY <1>11 DEF CameraDialEnds, TypeOK, Attached, Goto, connVars, openVars, IsOpen
<1>12. ASSUME NEW r \in Readers, GiveUp(r) PROVE Before
  BY <1>12 DEF GiveUp, TypeOK, Attached, Goto, connVars, openVars, IsOpen
<1>13. ASSUME NEW r \in Readers, CloseOwn(r) PROVE Before
  BY <1>13 DEF CloseOwn, TypeOK, Attached, Goto, connVars, openVars, IsOpen
<1>14. ASSUME NEW r \in Readers, Close(r) PROVE Before
  BY <1>14 DEF Close, TypeOK, Attached, Goto, connVars, openVars, IsOpen
<1>15. ASSUME NEW r \in Readers, Stall(r) PROVE Before
  BY <1>15 DEF Stall, TypeOK, Attached, Goto, connVars, openVars, IsOpen
<1>16. ASSUME NEW r \in Readers, IdleByReader(r) PROVE Before
  BY <1>16 DEF IdleByReader, IdleClose, TypeOK, Attached, Goto, connVars, openVars, IsOpen
<1>17. ASSUME NEW c \in Conns, IdleByDemux(c) PROVE Before
  BY <1>17 DEF IdleByDemux, IdleClose, TypeOK, Attached, Goto, connVars, openVars, IsOpen
<1>18. ASSUME NEW c \in Conns, ConnectionEnds(c) PROVE Before
  BY <1>18 DEF ConnectionEnds, TypeOK, Attached, Goto, connVars, openVars, IsOpen
<1>19. ASSUME NEW c \in Conns, Collect(c) PROVE Before
  BY <1>19 DEF Collect, TypeOK, Attached, Goto, connVars, openVars, IsOpen
<1>20. CASE UNCHANGED vars
  BY <1>20 DEF vars, connVars, openVars, IsOpen
<1> HIDE DEF Before
<1> QED
  BY <1>1, <1>2, <1>3, <1>4, <1>5, <1>6, <1>7, <1>8, <1>9, <1>10, <1>11,
     <1>12, <1>13, <1>14, <1>15, <1>16, <1>17, <1>18, <1>19, <1>20
  DEF Next, OpenStep, DialStep, Before

\* What Open has chosen keeps its room until the holder of p.mu subscribes.
LEMMA ChoiceStep ==
  ASSUME TypeOK, TypeOK', Attached, Holders, AtMostMaxPreviews, ChoiceHolds, [Next]_vars
  PROVE  ChoiceHolds'
<1> DEFINE Holds(c, k) == HasRoom(c) \/ k \in Previews(c)
<1> SUFFICES ASSUME NEW s \in Readers, opener'[s] = "chosen", IsOpen(at[s])'
             PROVE  HasRoom(at[s])' \/ (keyOf[s] \in Previews(at[s]))'
  BY DEF ChoiceHolds
<1>1. keyOf' = keyOf
  BY WhoJoins
<1>2. ASSUME NEW r \in Readers, Choose(r)
      PROVE  HasRoom(at[s])' \/ (keyOf[s] \in Previews(at[s]))'
  <2>1. s = r
    BY <1>2, PoolAssumption DEF Choose, Consider, Holders, Goto, TypeOK
  <2>2. at'[r] = Live[Min(Candidates(keyOf[r]))]
    BY <1>2 DEF Choose, TypeOK
  <2>3. HasRoom(at'[r]) \/ keyOf[r] \in Previews(at'[r])
    BY <1>2, <2>2, ChosenProperties DEF Choose
  <2>4. on' = on
    BY <1>2 DEF Choose, connVars
  <2> QED BY <1>1, <2>1, <2>3, <2>4 DEF HasRoom, Previews
<1>3. ASSUME opener[s] = "chosen", at'[s] = at[s], IsOpen(at[s])
      PROVE  HasRoom(at[s])' \/ (keyOf[s] \in Previews(at[s]))'
  <2>0. PICK c \in Conns : c = at[s] /\ at'[s] = c
    BY <1>3, PoolAssumption DEF Attached, TypeOK
  <2>1. HasRoom(c) \/ keyOf[s] \in Previews(c)
    BY <1>3, <2>0 DEF ChoiceHolds
  <2>2. CASE \A d \in Conns : on'[d] \subseteq on[d]
    <3>1. HasRoom(c)' \/ keyOf[s] \in Previews(c)'
      BY <1>1, <2>1, <2>2, FewerReaders
    <3> QED BY <1>1, <2>0, <3>1 DEF HasRoom, Previews
  <2>3. ASSUME NEW r \in Readers, SubscribeChosen(r) PROVE FALSE
    BY <1>3, <2>3 DEF SubscribeChosen, Holders, Goto, TypeOK
  <2>4. ASSUME NEW r \in Readers, DialFindsRecorder(r)
        PROVE  HasRoom(at[s])' \/ (keyOf[s] \in Previews(at[s]))'
    <3>1. on'[c] = on[c]
      BY <2>0, <2>4 DEF DialFindsRecorder, Unused, TypeOK
    <3> QED BY <1>1, <2>0, <2>1, <3>1 DEF HasRoom, Previews
  <2> QED BY <2>2, <2>3, <2>4, WhoJoins
<1> QED BY <1>2, <1>3, ChosenBefore

-----------------------------------------------------------------------------
(* No connection is lost sight of. *)

\* An open connection that carries nothing has someone about to look at it.
LEMMA ForgottenStep ==
  ASSUME TypeOK, TypeOK', Attached, Subscribed, NoneForgotten, [Next]_vars
  PROVE  NoneForgotten'
<1>1. ASSUME NEW r \in Readers, Open(r) PROVE NoneForgotten'
  BY <1>1, PoolAssumption
  DEF Open, TypeOK, Attached, Subscribed, NoneForgotten, IsOpen, Goto, poolVars, connVars, openVars
<1>2. ASSUME NEW r \in Readers, Choose(r) PROVE NoneForgotten'
  BY <1>2, PoolAssumption
  DEF Choose, Consider, TypeOK, Attached, Subscribed, NoneForgotten, IsOpen, Goto, poolVars, connVars, openVars
<1>3. ASSUME NEW r \in Readers, Wait(r) PROVE NoneForgotten'
  BY <1>3, PoolAssumption
  DEF Wait, Consider, TypeOK, Attached, Subscribed, NoneForgotten, IsOpen, Goto, poolVars, connVars, openVars
<1>4. ASSUME NEW r \in Readers, BeginDial(r) PROVE NoneForgotten'
  BY <1>4, PoolAssumption
  DEF BeginDial, Consider, TypeOK, Attached, Subscribed, NoneForgotten, IsOpen, Goto, poolVars, connVars, openVars
<1>5. ASSUME NEW r \in Readers, BeginCameraDial(r) PROVE NoneForgotten'
  BY <1>5, PoolAssumption
  DEF BeginCameraDial, Consider, TypeOK, Attached, Subscribed, NoneForgotten, IsOpen, Goto, poolVars, connVars, openVars
<1>6. ASSUME NEW r \in Readers, SubscribeChosen(r) PROVE NoneForgotten'
  BY <1>6, PoolAssumption
  DEF SubscribeChosen, TypeOK, Attached, Subscribed, NoneForgotten, IsOpen, Goto, poolVars, connVars, openVars
<1>7. ASSUME NEW r \in Readers, DialFails(r) PROVE NoneForgotten'
  BY <1>7, PoolAssumption
  DEF DialFails, TypeOK, Attached, Subscribed, NoneForgotten, IsOpen, Goto, poolVars, connVars, openVars
<1>8. ASSUME NEW r \in Readers, DialFindsCamera(r) PROVE NoneForgotten'
  BY <1>8, PoolAssumption
  DEF DialFindsCamera, TypeOK, Attached, Subscribed, NoneForgotten, IsOpen, Goto, poolVars, connVars, openVars
<1>9. ASSUME NEW r \in Readers, DialFindsRecorder(r) PROVE NoneForgotten'
  BY <1>9, PoolAssumption
  DEF DialFindsRecorder, TypeOK, Attached, Subscribed, NoneForgotten, IsOpen, Goto, poolVars, connVars, openVars
<1>10. ASSUME NEW r \in Readers, Publish(r) PROVE NoneForgotten'
  BY <1>10, PoolAssumption
  DEF Publish, TypeOK, Attached, Subscribed, NoneForgotten, IsOpen, Goto, poolVars, connVars, openVars
<1>11. ASSUME NEW r \in Readers, EndDial(r) PROVE NoneForgotten'
  <2>1. \A s \in Readers : opener[s] = "idling" => opener'[s] = "idling"
    BY <1>11 DEF EndDial, TypeOK
  <2> QED BY <1>11, <2>1 DEF EndDial, connVars, NoneForgotten, IsOpen
<1>12. ASSUME NEW r \in Readers, CameraDialEnds(r) PROVE NoneForgotten'
  BY <1>12, PoolAssumption
  DEF CameraDialEnds, TypeOK, Attached, Subscribed, NoneForgotten, IsOpen, Goto, poolVars, connVars, openVars
<1>13. ASSUME NEW r \in Readers, GiveUp(r) PROVE NoneForgotten'
  BY <1>13, PoolAssumption
  DEF GiveUp, TypeOK, Attached, Subscribed, NoneForgotten, IsOpen, Goto, poolVars, connVars, openVars
<1>14. ASSUME NEW r \in Readers, CloseOwn(r) PROVE NoneForgotten'
  BY <1>14, PoolAssumption
  DEF CloseOwn, TypeOK, Attached, Subscribed, NoneForgotten, IsOpen, Goto, poolVars, connVars, openVars
<1>15. ASSUME NEW r \in Readers, Close(r) PROVE NoneForgotten'
  BY <1>15, PoolAssumption
  DEF Close, TypeOK, Attached, Subscribed, NoneForgotten, IsOpen, Goto, poolVars, connVars, openVars
<1>16. ASSUME NEW r \in Readers, Stall(r) PROVE NoneForgotten'
  BY <1>16, PoolAssumption
  DEF Stall, TypeOK, Attached, Subscribed, NoneForgotten, IsOpen, Goto, poolVars, connVars, openVars
<1>17. ASSUME NEW r \in Readers, IdleByReader(r) PROVE NoneForgotten'
  BY <1>17, PoolAssumption
  DEF IdleByReader, IdleClose, TypeOK, Attached, Subscribed, NoneForgotten, IsOpen, Goto, poolVars, connVars, openVars
<1>18. ASSUME NEW c \in Conns, IdleByDemux(c) PROVE NoneForgotten'
  BY <1>18, PoolAssumption
  DEF IdleByDemux, IdleClose, TypeOK, Attached, Subscribed, NoneForgotten, IsOpen, Goto, poolVars, connVars, openVars
<1>19. ASSUME NEW c \in Conns, ConnectionEnds(c) PROVE NoneForgotten'
  <2>1. \A d \in Conns : IsOpen(d)' => IsOpen(d) /\ on'[d] = on[d]
    BY <1>19 DEF ConnectionEnds, IsOpen, TypeOK
  <2> QED BY <1>19, <2>1 DEF ConnectionEnds, openVars, NoneForgotten
<1>20. ASSUME NEW c \in Conns, Collect(c) PROVE NoneForgotten'
  BY <1>20, PoolAssumption
  DEF Collect, TypeOK, Attached, Subscribed, NoneForgotten, IsOpen, Goto, poolVars, connVars, openVars
<1>21. CASE UNCHANGED vars
  BY <1>21 DEF NoneForgotten, IsOpen, vars, poolVars, connVars, openVars
<1> QED
  BY <1>1, <1>2, <1>3, <1>4, <1>5, <1>6, <1>7, <1>8, <1>9, <1>10, <1>11,
     <1>12, <1>13, <1>14, <1>15, <1>16, <1>17, <1>18, <1>19, <1>20, <1>21
  DEF Next, OpenStep, DialStep

\* What a stream has dialed and not yet published stays so.
StillDialed(s) ==
  /\ opener'[s] = "subscribed" <=> opener[s] = "subscribed"
  /\ opener[s] = "subscribed" => at'[s] = at[s]

\* A pool that loses none but closed connections accounts for the others.
LEMMA FoundKept ==
  ASSUME Found, Once(pool)', \A s \in Readers : StillDialed(s),
         \A d \in Conns : In(pool, d)' => In(pool, d),
         \A d \in Conns : IsOpen(d)' => IsOpen(d) /\ (In(pool, d) => In(pool, d)'),
         TypeOK, Attached
  PROVE  Found'
<1>1. ASSUME NEW s \in Readers, opener'[s] = "subscribed" PROVE ~ In(pool', at'[s])
  <2>1. PICK c \in Conns : c = at[s] /\ c = at'[s]
    BY <1>1, PoolAssumption DEF StillDialed, Attached, TypeOK
  <2>2. ~ In(pool, c)
    BY <1>1, <2>1 DEF Found, StillDialed
  <2>3. ~ In(pool, c)'
    BY <2>2
  <2> QED BY <2>1, <2>3 DEF In
<1>2. ASSUME NEW d \in Conns, IsOpen(d)'
      PROVE  In(pool, d)' \/ \E s \in Readers : opener'[s] = "subscribed" /\ at'[s] = d
  BY <1>2 DEF Found, StillDialed
<1> QED BY <1>1, <1>2 DEF Found, In

\* One element more at the end of a sequence.
LEMMA InMore ==
  ASSUME NEW S, NEW t \in Seq(S), NEW x \in S, NEW y
  PROVE  In(Append(t, x), y) <=> In(t, y) \/ y = x
<1> DEFINE u == Append(t, x)
           k == Len(t) + 1
<1>1. Len(t) \in Nat /\ Len(u) = k /\ u[k] = x /\ \A i \in 1..Len(t) : u[i] = t[i]
  BY AppendProperties
<1> HIDE DEF u
<1>2. (\A i \in 1..Len(u) : i = k \/ i \in 1..Len(t)) /\ k \in 1..Len(u)
  BY <1>1
<1>3. \A i \in 1..Len(t) : i \in 1..Len(u)
  BY <1>1
<1>4. In(u, y) <=> In(t, y) \/ y = x
  BY <1>1, <1>2, <1>3 DEF In
<1> QED BY <1>4 DEF u

\* An open connection is in the pool once, or its dial is under way.
LEMMA FoundStep ==
  ASSUME TypeOK, TypeOK', Attached, Holders, Found, [Next]_vars
  PROVE  Found'
<1>1. ASSUME NEW r \in Readers, Open(r) PROVE Found'
  <2>1. pool' = pool /\ \A d \in Conns : state'[d] = "open" => state[d] = "open"
    BY <1>1 DEF Open, TypeOK, poolVars, connVars
  <2>2. \A s \in Readers : StillDialed(s)
    BY <1>1 DEF Open, TypeOK, Attached, Goto, openVars, StillDialed
  <2> QED BY <2>1, <2>2, FoundKept DEF Found, In, Once, IsOpen
<1>2. ASSUME NEW r \in Readers, Choose(r) PROVE Found'
  <2>1. \A s \in Readers : StillDialed(s)
    BY <1>2 DEF Choose, Consider, StillDialed, Goto, TypeOK
  <2>2. pool' = Live /\ state' = state
    BY <1>2 DEF Choose, connVars
  <2>3. Once(pool)' /\ \A d \in Conns : In(pool, d)' <=> In(pool, d) /\ IsOpen(d)
    BY <2>2, LiveProperties DEF Found, In, Once
  <2> QED BY <2>1, <2>2, <2>3, FoundKept DEF IsOpen
<1>3. ASSUME NEW r \in Readers, Wait(r) PROVE Found'
  <2>1. \A s \in Readers : StillDialed(s)
    BY <1>3 DEF Wait, Consider, StillDialed, Goto, TypeOK
  <2>2. pool' = Live /\ state' = state
    BY <1>3 DEF Wait, connVars
  <2>3. Once(pool)' /\ \A d \in Conns : In(pool, d)' <=> In(pool, d) /\ IsOpen(d)
    BY <2>2, LiveProperties DEF Found, In, Once
  <2> QED BY <2>1, <2>2, <2>3, FoundKept DEF IsOpen
<1>4. ASSUME NEW r \in Readers, BeginDial(r) PROVE Found'
  <2>1. \A s \in Readers : StillDialed(s)
    BY <1>4 DEF BeginDial, Consider, StillDialed, Goto, TypeOK
  <2>2. pool' = Live /\ state' = state
    BY <1>4 DEF BeginDial, connVars
  <2>3. Once(pool)' /\ \A d \in Conns : In(pool, d)' <=> In(pool, d) /\ IsOpen(d)
    BY <2>2, LiveProperties DEF Found, In, Once
  <2> QED BY <2>1, <2>2, <2>3, FoundKept DEF IsOpen
<1>5. ASSUME NEW r \in Readers, BeginCameraDial(r) PROVE Found'
  <2>1. pool' = pool /\ \A d \in Conns : state'[d] = "open" => state[d] = "open"
    BY <1>5 DEF BeginCameraDial, Consider, TypeOK, poolVars, connVars
  <2>2. \A s \in Readers : StillDialed(s)
    BY <1>5 DEF BeginCameraDial, Consider, TypeOK, Attached, Goto, openVars, StillDialed
  <2> QED BY <2>1, <2>2, FoundKept DEF Found, In, Once, IsOpen
<1>6. ASSUME NEW r \in Readers, SubscribeChosen(r) PROVE Found'
  <2>1. pool' = pool /\ \A d \in Conns : state'[d] = "open" => state[d] = "open"
    BY <1>6 DEF SubscribeChosen, TypeOK, poolVars, connVars
  <2>2. \A s \in Readers : StillDialed(s)
    BY <1>6 DEF SubscribeChosen, TypeOK, Attached, Goto, openVars, StillDialed
  <2> QED BY <2>1, <2>2, FoundKept DEF Found, In, Once, IsOpen
<1>7. ASSUME NEW r \in Readers, DialFails(r) PROVE Found'
  <2>1. pool' = pool /\ \A d \in Conns : state'[d] = "open" => state[d] = "open"
    BY <1>7 DEF DialFails, TypeOK, poolVars, connVars
  <2>2. \A s \in Readers : StillDialed(s)
    BY <1>7 DEF DialFails, TypeOK, Attached, Goto, openVars, StillDialed
  <2> QED BY <2>1, <2>2, FoundKept DEF Found, In, Once, IsOpen
<1>8. ASSUME NEW r \in Readers, DialFindsCamera(r) PROVE Found'
  <2>1. pool' = pool /\ \A d \in Conns : state'[d] = "open" => state[d] = "open"
    BY <1>8 DEF DialFindsCamera, TypeOK, poolVars, connVars
  <2>2. \A s \in Readers : StillDialed(s)
    BY <1>8 DEF DialFindsCamera, TypeOK, Attached, Goto, openVars, StillDialed
  <2> QED BY <2>1, <2>2, FoundKept DEF Found, In, Once, IsOpen
<1>9. ASSUME NEW r \in Readers, DialFindsRecorder(r) PROVE Found'
  <2>1. PICK c \in Conns : Unused(c) /\ state' = [state EXCEPT ![c] = "open"]
                         /\ at' = [at EXCEPT ![r] = c]
    BY <1>9 DEF DialFindsRecorder
  <2>2. pool' = pool /\ ~ In(pool, c)
    BY <1>9, <2>1 DEF DialFindsRecorder, Unused, In, poolVars
  <2>3. opener'[r] = "subscribed" /\ at'[r] = c
        /\ \A s \in Readers : s # r => opener'[s] # "subscribed" /\ opener[s] # "subscribed"
    BY <1>9, <2>1 DEF DialFindsRecorder, Holders, Goto, TypeOK
  <2>4. ASSUME NEW d \in Conns, IsOpen(d)'
        PROVE  In(pool, d)' \/ \E s \in Readers : opener'[s] = "subscribed" /\ at'[s] = d
    <3>1. CASE d = c
      BY <2>3, <3>1
    <3>2. CASE d # c
      <4>1. IsOpen(d)
        BY <2>1, <2>4, <3>2 DEF IsOpen, TypeOK
      <4>2. opener[r] = "dialing"
        BY <1>9 DEF DialFindsRecorder
      <4> QED BY <2>2, <2>3, <4>1, <4>2 DEF Found, In
    <3> QED BY <3>1, <3>2
  <2> QED BY <2>2, <2>3, <2>4 DEF Found, In, Once
<1>10. ASSUME NEW r \in Readers, Publish(r) PROVE Found'
  <2>1. PICK c \in Conns : c = at[r] /\ pool' = Append(pool, c)
    BY <1>10, PoolAssumption DEF Publish, Attached, TypeOK
  <2>2. ~ In(pool, c)
    BY <1>10, <2>1 DEF Publish, Found
  <2>3. Once(pool)'
    BY <2>1, <2>2, OnceMore DEF In, Found, TypeOK
  <2>4. ASSUME NEW d \in Conns PROVE In(pool, d)' <=> In(pool, d) \/ d = c
    <3>1. In(pool, d)' <=> In(Append(pool, c), d)
      BY <2>1 DEF In
    <3> QED BY <3>1, InMore DEF TypeOK
  <2>5. state' = state /\ at' = at /\ opener' = [opener EXCEPT ![r] = "dialed"]
    BY <1>10 DEF Publish, Goto, connVars
  <2>6. \A s \in Readers : opener'[s] # "subscribed"
    BY <1>10, <2>5 DEF Publish, Holders, TypeOK
  <2>7. ASSUME NEW d \in Conns, IsOpen(d) PROVE In(pool, d)'
    <3>1. In(pool, d) \/ \E s \in Readers : opener[s] = "subscribed" /\ at[s] = d
      BY <2>7 DEF Found
    <3>2. \A s \in Readers : opener[s] = "subscribed" => s = r
      BY <1>10 DEF Publish, Holders
    <3> QED BY <2>1, <2>4, <3>1, <3>2
  <2> QED BY <2>3, <2>5, <2>6, <2>7 DEF Found, IsOpen
<1>11. ASSUME NEW r \in Readers, EndDial(r) PROVE Found'
  <2>1. pool' = pool /\ \A d \in Conns : state'[d] = "open" => state[d] = "open"
    BY <1>11 DEF EndDial, TypeOK, poolVars, connVars
  <2>2. \A s \in Readers : StillDialed(s)
    BY <1>11 DEF EndDial, TypeOK, Attached, Goto, openVars, StillDialed
  <2> QED BY <2>1, <2>2, FoundKept DEF Found, In, Once, IsOpen
<1>12. ASSUME NEW r \in Readers, CameraDialEnds(r) PROVE Found'
  <2>1. pool' = pool /\ \A d \in Conns : state'[d] = "open" => state[d] = "open"
    BY <1>12 DEF CameraDialEnds, TypeOK, poolVars, connVars
  <2>2. \A s \in Readers : StillDialed(s)
    BY <1>12 DEF CameraDialEnds, TypeOK, Attached, Goto, openVars, StillDialed
  <2> QED BY <2>1, <2>2, FoundKept DEF Found, In, Once, IsOpen
<1>13. ASSUME NEW r \in Readers, GiveUp(r) PROVE Found'
  <2>1. pool' = pool /\ \A d \in Conns : state'[d] = "open" => state[d] = "open"
    BY <1>13 DEF GiveUp, TypeOK, poolVars, connVars
  <2>2. \A s \in Readers : StillDialed(s)
    BY <1>13 DEF GiveUp, TypeOK, Attached, Goto, openVars, StillDialed
  <2> QED BY <2>1, <2>2, FoundKept DEF Found, In, Once, IsOpen
<1>14. ASSUME NEW r \in Readers, CloseOwn(r) PROVE Found'
  <2>1. pool' = pool /\ \A d \in Conns : state'[d] = "open" => state[d] = "open"
    BY <1>14 DEF CloseOwn, TypeOK, poolVars, connVars
  <2>2. \A s \in Readers : StillDialed(s)
    BY <1>14 DEF CloseOwn, TypeOK, Attached, Goto, openVars, StillDialed
  <2> QED BY <2>1, <2>2, FoundKept DEF Found, In, Once, IsOpen
<1>15. ASSUME NEW r \in Readers, Close(r) PROVE Found'
  <2>1. pool' = pool /\ \A d \in Conns : state'[d] = "open" => state[d] = "open"
    BY <1>15 DEF Close, TypeOK, poolVars, connVars
  <2>2. \A s \in Readers : StillDialed(s)
    BY <1>15 DEF Close, TypeOK, Attached, Goto, openVars, StillDialed
  <2> QED BY <2>1, <2>2, FoundKept DEF Found, In, Once, IsOpen
<1>16. ASSUME NEW r \in Readers, Stall(r) PROVE Found'
  <2>1. pool' = pool /\ \A d \in Conns : state'[d] = "open" => state[d] = "open"
    BY <1>16 DEF Stall, TypeOK, poolVars, connVars
  <2>2. \A s \in Readers : StillDialed(s)
    BY <1>16 DEF Stall, TypeOK, Attached, Goto, openVars, StillDialed
  <2> QED BY <2>1, <2>2, FoundKept DEF Found, In, Once, IsOpen
<1>17. ASSUME NEW r \in Readers, IdleByReader(r) PROVE Found'
  <2>1. \A s \in Readers : StillDialed(s)
    BY <1>17 DEF IdleByReader, StillDialed, Goto, TypeOK, openVars
  <2>2. CASE state' = state /\ pool' = pool
    BY <2>1, <2>2, FoundKept DEF Found, In, Once, IsOpen
  <2>3. CASE ~ (state' = state /\ pool' = pool)
    <3>1. PICK d \in Conns : d = at[r]
      BY <1>17 DEF IdleByReader, TypeOK, Attached
    <3>2. state' = [state EXCEPT ![d] = "closed"] /\ pool' = Keeping(pool, Conns \ {d})
      BY <1>17, <2>3, <3>1 DEF IdleByReader, IdleClose
    <3>3. Once(pool)'
      BY <3>1, <3>2, RemovedProperties DEF Found, Once
    <3>4. \A e \in Conns : In(pool, e)' <=> In(pool, e) /\ e # d
      BY <3>2, RemovedProperties DEF In
    <3>5. \A e \in Conns : IsOpen(e)' => IsOpen(e) /\ e # d
      BY <3>1, <3>2 DEF IsOpen, TypeOK
    <3> QED BY <2>1, <3>3, <3>4, <3>5, FoundKept
  <2> QED BY <2>2, <2>3
<1>18. ASSUME NEW c \in Conns, IdleByDemux(c) PROVE Found'
  <2>1. \A s \in Readers : StillDialed(s)
    BY <1>18 DEF IdleByDemux, StillDialed, Goto, TypeOK, openVars
  <2>2. CASE state' = state /\ pool' = pool
    BY <2>1, <2>2, FoundKept DEF Found, In, Once, IsOpen
  <2>3. CASE ~ (state' = state /\ pool' = pool)
    <3>1. PICK d \in Conns : d = c
      BY <1>18
    <3>2. state' = [state EXCEPT ![d] = "closed"] /\ pool' = Keeping(pool, Conns \ {d})
      BY <1>18, <2>3, <3>1 DEF IdleByDemux, IdleClose
    <3>3. Once(pool)'
      BY <3>1, <3>2, RemovedProperties DEF Found, Once
    <3>4. \A e \in Conns : In(pool, e)' <=> In(pool, e) /\ e # d
      BY <3>2, RemovedProperties DEF In
    <3>5. \A e \in Conns : IsOpen(e)' => IsOpen(e) /\ e # d
      BY <3>1, <3>2 DEF IsOpen, TypeOK
    <3> QED BY <2>1, <3>3, <3>4, <3>5, FoundKept
  <2> QED BY <2>2, <2>3
<1>19. ASSUME NEW c \in Conns, ConnectionEnds(c) PROVE Found'
  <2>1. pool' = pool /\ \A d \in Conns : state'[d] = "open" => state[d] = "open"
    BY <1>19 DEF ConnectionEnds, TypeOK, poolVars, connVars
  <2>2. \A s \in Readers : StillDialed(s)
    BY <1>19 DEF ConnectionEnds, TypeOK, Attached, Goto, openVars, StillDialed
  <2> QED BY <2>1, <2>2, FoundKept DEF Found, In, Once, IsOpen
<1>20. ASSUME NEW c \in Conns, Collect(c) PROVE Found'
  <2>1. pool' = pool /\ \A d \in Conns : state'[d] = "open" => state[d] = "open"
    BY <1>20 DEF Collect, TypeOK, poolVars, connVars
  <2>2. \A s \in Readers : StillDialed(s)
    BY <1>20 DEF Collect, TypeOK, Attached, Goto, openVars, StillDialed
  <2> QED BY <2>1, <2>2, FoundKept DEF Found, In, Once, IsOpen
<1>21. CASE UNCHANGED vars
  BY <1>21 DEF Found, IsOpen, In, vars, poolVars, connVars, openVars
<1> QED
  BY <1>1, <1>2, <1>3, <1>4, <1>5, <1>6, <1>7, <1>8, <1>9, <1>10, <1>11,
     <1>12, <1>13, <1>14, <1>15, <1>16, <1>17, <1>18, <1>19, <1>20, <1>21
  DEF Next, OpenStep, DialStep

-----------------------------------------------------------------------------
(* The theorems. *)

\* The invariant is inductive.
LEMMA NextInv == IInv /\ [Next]_vars => IInv'
<1> SUFFICES ASSUME IInv, [Next]_vars PROVE IInv'
  OBVIOUS
<1> USE DEF IInv
<1>1. TypeOK'
  BY TypesStep
<1>2. Attached'
  BY AttachedStep
<1>3. Holders'
  BY HoldersStep
<1>4. Subscribed'
  BY SubscribedStep
<1>5. AtMostMaxPreviews'
  BY <1>1, LimitStep
<1>6. ChoiceHolds'
  BY <1>1, ChoiceStep
<1>7. NoneForgotten'
  BY <1>1, ForgottenStep
<1>8. Found'
  BY <1>1, FoundStep
<1> QED BY <1>1, <1>2, <1>3, <1>4, <1>5, <1>6, <1>7, <1>8

\* Every reachable state satisfies the invariant.
LEMMA Invariant == Spec => []IInv
<1>1. Init => IInv
  BY InitInv
<1>2. IInv /\ [Next]_vars => IInv'
  BY NextInv
<1> QED BY <1>1, <1>2, PTL DEF Spec

\* A subset of one element has at most one.
LEMMA AtMostOne ==
  ASSUME NEW S, NEW x, S \subseteq {x}
  PROVE  Cardinality(S) = IF x \in S THEN 1 ELSE 0
<1>1. S = {x} \/ S = {}
  OBVIOUS
<1> QED BY <1>1, FS_Singleton, FS_EmptySet

\* Only the stream that g.dialing names is dialing.
LEMMA HoldersOneDial == Holders => OneDial
<1> SUFFICES ASSUME Holders PROVE OneDial
  OBVIOUS
<1> DEFINE S == {r \in Readers : opener[r] \in {"dialing", "subscribed", "dialed"}}
<1>1. S \subseteq {dialing}
  BY DEF Holders
<1>2. Cardinality(S) = IF dialing \in S THEN 1 ELSE 0
  <2> HIDE DEF S
  <2> QED BY <1>1, AtMostOne
<1>3. Cardinality(S) <= 1
  <2> HIDE DEF S
  <2> QED BY <1>2
<1> QED BY <1>3 DEF OneDial

\* Found counts the places where an open connection is found: one.
LEMMA FoundIsOne == TypeOK /\ Holders /\ Found => NoneHidden
<1> SUFFICES ASSUME TypeOK, Holders, Found, NEW c \in Conns, IsOpen(c)
             PROVE  Cardinality({i \in 1..Len(pool) : pool[i] = c})
                      + Cardinality({r \in Readers : opener[r] = "subscribed" /\ at[r] = c}) = 1
  BY DEF NoneHidden
<1> DEFINE P == {i \in 1..Len(pool) : pool[i] = c}
           D == {r \in Readers : opener[r] = "subscribed" /\ at[r] = c}
<1>1. In(pool, c) <=> P # {}
  BY DEF In
<1>2. \A i \in P : \A j \in P : i = j
  BY DEF Found, Once
<1>3. In(pool, c) \/ D # {}
  BY DEF Found
<1>4. In(pool, c) => D = {}
  BY DEF Found
<1>5. D \subseteq {dialing}
  BY DEF Holders
<1> HIDE DEF P, D
<1>6. CASE In(pool, c)
  <2>1. PICK i \in P : P \subseteq {i}
    BY <1>1, <1>2, <1>6
  <2>2. Cardinality(P) = 1 /\ Cardinality(D) = 0
    BY <1>4, <1>6, <2>1, AtMostOne, FS_EmptySet
  <2> QED BY <2>2 DEF P, D
<1>7. CASE ~ In(pool, c)
  <2>1. P = {} /\ dialing \in D
    BY <1>1, <1>3, <1>5, <1>7
  <2>2. Cardinality(P) = 0 /\ Cardinality(D) = 1
    BY <1>5, <2>1, AtMostOne, FS_EmptySet
  <2> QED BY <2>2 DEF P, D
<1> QED BY <1>6, <1>7

\* However readers come and go between Open's choice of a connection and its
\* Subscribe, no connection carries more previews than Pool.MaxPreviews, and
\* one stream dials at a time.
THEOREM WithinLimitsCorrect == Spec => []WithinLimits
<1>1. IInv => WithinLimits
  BY HoldersOneDial DEF IInv, WithinLimits
<1> QED BY <1>1, Invariant, PTL

\* The pool accounts for every open connection: a stream that could share it
\* finds it, in the pool or at the end of the dial it waits for, and one that
\* carries nothing has someone about to close it or to read on it.
THEOREM PoolAccountsCorrect == Spec => []PoolAccounts
<1>1. IInv => PoolAccounts
  BY FoundIsOne DEF IInv, PoolAccounts
<1> QED BY <1>1, Invariant, PTL

\* The connection that a call of idle closes is the one it was called about.
LEMMA IdleClosesItsOwn ==
  ASSUME IInv, NEW c \in Conns, state'[c] # state[c],
         (\E r \in Readers : IdleByReader(r)) \/ IdleByDemux(c)
  PROVE  on[c] = {} /\ mu = None
<1>1. state \in [Conns -> {"open", "closed"}]
  BY DEF IInv, TypeOK
<1>2. ASSUME NEW r \in Readers, IdleByReader(r) PROVE on[c] = {} /\ mu = None
  BY <1>1, <1>2 DEF IdleByReader, IdleClose
<1>3. ASSUME IdleByDemux(c) PROVE on[c] = {} /\ mu = None
  BY <1>1, <1>3 DEF IdleByDemux, IdleClose
<1> QED BY <1>2, <1>3

\* Pool.idle takes no stream from a reader, and no choice from an Open that
\* holds p.mu.
THEOREM IdleCloseCorrect == Spec => IdleCloseHarmless
<1>1. ASSUME IInv, NEW c \in Conns, state'[c] # state[c],
             (\E r \in Readers : IdleByReader(r)) \/ IdleByDemux(c)
      PROVE  on[c] = {} /\ \A r \in Readers : ~ (opener[r] = "chosen" /\ at[r] = c)
  <2>1. on[c] = {} /\ mu = None
    BY <1>1, IdleClosesItsOwn
  <2> QED BY <1>1, <2>1, PoolAssumption DEF IInv, Holders
<1>2. IInv => [\A c \in Conns :
       ((\E r \in Readers : IdleByReader(r)) \/ IdleByDemux(c)) /\ state'[c] # state[c]
         => on[c] = {} /\ \A r \in Readers : ~(opener[r] = "chosen" /\ at[r] = c)]_vars
  BY <1>1
<1> QED BY <1>2, Invariant, PTL DEF IdleCloseHarmless

===============================================================================
