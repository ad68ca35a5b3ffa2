-------------------------- MODULE LoadStoreProofs --------------------------
(***************************************************************************)
(* Proofs about LoadStore, for every size of its rings, every memory and   *)
(* every set of micro-operations.                                          *)
(***************************************************************************)
EXTENDS LoadStore, RobFacts

-----------------------------------------------------------------------------
(* Rings of any size: the station's and the store buffer's.                *)

RingSlot(N, base, k) == (base + k) % N
RingDist(N, base, i) == (i - base) % N

(* Slots and distances from any slot are one to one.                       *)
LEMMA RingOneToOne ==
    ASSUME NEW N \in Nat \ {0}, NEW base \in 0 .. N - 1
    PROVE  /\ \A k \in 0 .. N - 1 : /\ RingSlot(N, base, k) \in 0 .. N - 1
                                    /\ RingDist(N, base, RingSlot(N, base, k)) = k
           /\ \A i \in 0 .. N - 1 : /\ RingDist(N, base, i) \in 0 .. N - 1
                                    /\ RingSlot(N, base, RingDist(N, base, i)) = i
           /\ \A i, j \in 0 .. N - 1 : RingDist(N, base, i) = RingDist(N, base, j) => i = j
           /\ RingSlot(N, base, 0) = base /\ RingSlot(N, base, N) = base
           /\ RingDist(N, base, base) = 0
<1>1. \A k \in 0 .. N - 1 : /\ RingSlot(N, base, k) \in 0 .. N - 1
                            /\ RingDist(N, base, RingSlot(N, base, k)) = k
  BY DEF RingSlot, RingDist
<1>2. \A i \in 0 .. N - 1 : /\ RingDist(N, base, i) \in 0 .. N - 1
                            /\ RingSlot(N, base, RingDist(N, base, i)) = i
  BY DEF RingSlot, RingDist
<1>3. /\ RingSlot(N, base, 0) = base /\ RingSlot(N, base, N) = base
      /\ RingDist(N, base, base) = 0
  BY DEF RingSlot, RingDist
<1>4. QED
  BY <1>1, <1>2, <1>3

(* The slot some way on is that far away.                                  *)
LEMMA RingBack ==
    ASSUME NEW N \in Nat \ {0}, NEW b \in 0 .. N - 1, NEW c \in 0 .. N - 1
    PROVE  RingSlot(N, b, c) \in 0 .. N - 1 /\ RingDist(N, b, RingSlot(N, b, c)) = c
BY RingOneToOne

(* The slot at a slot's distance is that slot.                             *)
LEMMA RingThere ==
    ASSUME NEW N \in Nat \ {0}, NEW b \in 0 .. N - 1, NEW i \in 0 .. N - 1
    PROVE  /\ RingDist(N, b, i) \in 0 .. N - 1 /\ RingSlot(N, b, RingDist(N, b, i)) = i
           /\ RingDist(N, b, i) = 0 => i = b
<1>1. RingDist(N, b, b) = 0
  BY RingOneToOne
<1>2. RingDist(N, b, i) \in 0 .. N - 1 /\ RingSlot(N, b, RingDist(N, b, i)) = i
  BY RingOneToOne
<1>3. RingDist(N, b, i) = RingDist(N, b, b) => i = b
  BY RingOneToOne
<1>4. QED
  BY <1>1, <1>2, <1>3

(* Moving the base on by n takes n off the distance of what stays.         *)
LEMMA RingMoves ==
    ASSUME NEW N \in Nat \ {0}, NEW base \in 0 .. N - 1, NEW n \in 0 .. N
    PROVE  /\ RingSlot(N, base, n) \in 0 .. N - 1
           /\ \A i \in 0 .. N - 1 : RingDist(N, RingSlot(N, base, n), i) =
                 IF RingDist(N, base, i) >= n THEN RingDist(N, base, i) - n
                                              ELSE RingDist(N, base, i) - n + N
           /\ \A k \in 0 .. N - n : RingSlot(N, RingSlot(N, base, n), k) = RingSlot(N, base, n + k)
<1>1. RingSlot(N, base, n) \in 0 .. N - 1
  BY DEF RingSlot
<1>2. \A i \in 0 .. N - 1 : RingDist(N, RingSlot(N, base, n), i) =
          IF RingDist(N, base, i) >= n THEN RingDist(N, base, i) - n
                                       ELSE RingDist(N, base, i) - n + N
  BY DEF RingSlot, RingDist
<1>3. \A k \in 0 .. N - n : RingSlot(N, RingSlot(N, base, n), k) = RingSlot(N, base, n + k)
  BY DEF RingSlot
<1>4. QED
  BY <1>1, <1>2, <1>3

(* Slots some way on from a slot some way on.                              *)
LEMMA RingOn ==
    ASSUME NEW N \in Nat \ {0}, NEW b \in 0 .. N - 1, NEW n \in 0 .. N, NEW k \in 0 .. N - n
    PROVE  RingSlot(N, RingSlot(N, b, n), k) = RingSlot(N, b, n + k)
BY RingMoves

(* The n slots from a base on.                                             *)
Run(N, base, n) == {k \in 0 .. N - 1 : RingDist(N, base, k) < n}

(* A run has as many slots as its length.                                  *)
LEMMA RunSize ==
    ASSUME NEW N \in Nat \ {0}, NEW base \in 0 .. N - 1, NEW n \in 0 .. N
    PROVE  IsFiniteSet(Run(N, base, n)) /\ Cardinality(Run(N, base, n)) = n
<1> DEFINE f == [d \in 0 .. n - 1 |-> RingSlot(N, base, d)]
           T == Run(N, base, n)
<1>1. \A d \in 0 .. n - 1 : d \in 0 .. N - 1
  OBVIOUS
<1>2. \A d, e \in 0 .. n - 1 : f[d] = f[e] => d = e
  <2>1. \A d \in 0 .. n - 1 : RingDist(N, base, f[d]) = d
    BY <1>1, RingOneToOne
  <2> HIDE DEF f
  <2>2. QED
    BY <2>1
<1>3. T = {f[d] : d \in 0 .. n - 1}
  <2>1. ASSUME NEW k \in T PROVE \E d \in 0 .. n - 1 : k = f[d]
    <3>1. k \in 0 .. N - 1 /\ RingDist(N, base, k) < n
      BY DEF Run
    <3>2. RingDist(N, base, k) \in 0 .. n - 1 /\ RingSlot(N, base, RingDist(N, base, k)) = k
      BY <3>1, RingOneToOne
    <3>3. QED
      BY <3>2
  <2>2. ASSUME NEW d \in 0 .. n - 1 PROVE f[d] \in T
    <3>1. RingSlot(N, base, d) \in 0 .. N - 1 /\ RingDist(N, base, RingSlot(N, base, d)) = d /\ d < n
      BY <1>1, RingOneToOne
    <3>2. QED
      BY <3>1 DEF Run
  <2> HIDE DEF f, T
  <2>3. QED
    BY <2>1, <2>2
<1>4. IsFiniteSet(0 .. n - 1) /\ Cardinality(0 .. n - 1) = n
  BY FS_Interval
<1>5. DOMAIN f = 0 .. n - 1 /\ f = [d \in 0 .. n - 1 |-> f[d]]
  OBVIOUS
<1> HIDE DEF f, T
<1>6. IsFiniteSet(T) /\ Cardinality(T) = n
  BY <1>2, <1>3, <1>4, <1>5, ImageCount
<1>7. QED
  BY <1>6 DEF T

(* A run of n slots from base loses its first (e = 1) or not (e = 0) and   *)
(* gains w at its end: h is its new first slot, a the first free one.      *)
RunMoved(N, base, n, w, e, h, a) ==
    /\ h \in 0 .. N - 1 /\ a \in 0 .. N - 1 /\ n - e + w \in 0 .. N
    /\ \A k \in 0 .. N - 1 : k \in Run(N, h, n - e + w) <=>
          \/ k \in Run(N, base, n) /\ ~(e = 1 /\ k = base)
          \/ RingDist(N, a, k) < w
    /\ \A k \in Run(N, base, n) :
          /\ k \in 0 .. N - 1 /\ ~(RingDist(N, a, k) < w)
          /\ ~(e = 1 /\ k = base) => RingDist(N, h, k) = RingDist(N, base, k) - e
    /\ \A d \in 0 .. w - 1 :
          /\ RingSlot(N, a, d) \in 0 .. N - 1 /\ RingSlot(N, a, d) \notin Run(N, base, n)
          /\ RingDist(N, h, RingSlot(N, a, d)) = n + d - e
          /\ RingDist(N, a, RingSlot(N, a, d)) = d
    /\ RingSlot(N, a, w) = RingSlot(N, h, n - e + w)
    /\ e = 1 => base \in Run(N, base, n) /\ RingDist(N, base, base) = 0

(* Then it is still a run, and what stays is e places nearer its first.    *)
LEMMA RunMoves ==
    ASSUME NEW N \in Nat \ {0}, NEW base \in 0 .. N - 1, NEW n \in 0 .. N,
           NEW w \in 0 .. N - n, NEW e \in 0 .. 1, e <= n,
           NEW h, h = RingSlot(N, base, e), NEW a, a = RingSlot(N, base, n)
    PROVE  RunMoved(N, base, n, w, e, h, a)
<1>1. /\ h \in 0 .. N - 1 /\ a \in 0 .. N - 1 /\ n - e + w \in 0 .. N
      /\ e \in 0 .. N
  <2>1. e \in 0 .. N
    OBVIOUS
  <2>2. h \in 0 .. N - 1 /\ a \in 0 .. N - 1
    BY <2>1, RingMoves
  <2>3. QED
    BY <2>1, <2>2
<1>2. /\ \A k \in 0 .. N - 1 : RingDist(N, base, k) \in 0 .. N - 1
      /\ RingDist(N, base, base) = 0
      /\ \A k \in 0 .. N - 1 : RingDist(N, base, k) = 0 <=> k = base
  <2>1. \A k \in 0 .. N - 1 : RingDist(N, base, k) \in 0 .. N - 1
    BY RingThere
  <2>2. \A k \in 0 .. N - 1 : RingDist(N, base, k) = 0 => k = base
    BY RingThere
  <2>3. RingDist(N, base, base) = 0
    BY RingOneToOne
  <2>4. QED
    BY <2>1, <2>2, <2>3
<1>3. \A k \in 0 .. N - 1 : RingDist(N, a, k) =
          IF RingDist(N, base, k) >= n THEN RingDist(N, base, k) - n ELSE RingDist(N, base, k) - n + N
  BY RingMoves
<1>4. \A k \in 0 .. N - 1 : RingDist(N, h, k) =
          IF RingDist(N, base, k) >= e THEN RingDist(N, base, k) - e ELSE RingDist(N, base, k) - e + N
  BY <1>1, RingMoves
<1>5. ASSUME NEW k \in 0 .. N - 1
      PROVE  /\ RingDist(N, a, k) < w <=> RingDist(N, base, k) \in n .. n + w - 1
             /\ RingDist(N, h, k) < n - e + w <=> RingDist(N, base, k) \in e .. n + w - 1
             /\ RingDist(N, base, k) >= e <=> ~(e = 1 /\ k = base)
             /\ RingDist(N, base, k) \in 0 .. N - 1
  <2>1. /\ RingDist(N, base, k) \in 0 .. N - 1
        /\ RingDist(N, base, k) = 0 <=> k = base
    BY <1>2
  <2>2. RingDist(N, a, k) < w <=> RingDist(N, base, k) \in n .. n + w - 1
    BY <1>3, <2>1
  <2>3. RingDist(N, h, k) < n - e + w <=> RingDist(N, base, k) \in e .. n + w - 1
    BY <1>4, <2>1
  <2>4. RingDist(N, base, k) >= e <=> ~(e = 1 /\ k = base)
    BY <2>1
  <2>5. QED
    BY <2>1, <2>2, <2>3, <2>4
<1>6. ASSUME NEW k \in 0 .. N - 1
      PROVE  k \in Run(N, h, n - e + w) <=>
                 \/ k \in Run(N, base, n) /\ ~(e = 1 /\ k = base)
                 \/ RingDist(N, a, k) < w
  <2> DEFINE d == RingDist(N, base, k)
  <2>1. d \in 0 .. N - 1 /\ (d \in e .. n + w - 1 <=> (d < n /\ d >= e) \/ d \in n .. n + w - 1)
    <3>1. d \in 0 .. N - 1
      BY <1>5
    <3> HIDE DEF d
    <3>2. QED
      BY <3>1
  <2> HIDE DEF d
  <2>2. (k \in Run(N, h, n - e + w) <=> d \in e .. n + w - 1) /\ (k \in Run(N, base, n) <=> d < n)
    BY <1>5 DEF Run, d
  <2>3. (RingDist(N, a, k) < w <=> d \in n .. n + w - 1) /\ (d >= e <=> ~(e = 1 /\ k = base))
    BY <1>5 DEF d
  <2>4. QED
    BY <2>1, <2>2, <2>3, Zenon
<1>7. ASSUME NEW k \in Run(N, base, n)
      PROVE  /\ k \in 0 .. N - 1 /\ ~(RingDist(N, a, k) < w)
             /\ ~(e = 1 /\ k = base) => RingDist(N, h, k) = RingDist(N, base, k) - e
  <2>1. k \in 0 .. N - 1 /\ RingDist(N, base, k) < n
    BY DEF Run
  <2>2. QED
    BY <1>4, <1>5, <2>1
<1>8. ASSUME NEW d \in 0 .. w - 1
      PROVE  /\ RingSlot(N, a, d) \in 0 .. N - 1 /\ RingSlot(N, a, d) \notin Run(N, base, n)
             /\ RingDist(N, h, RingSlot(N, a, d)) = n + d - e
             /\ RingDist(N, a, RingSlot(N, a, d)) = d
  <2>1. d \in 0 .. N - 1 /\ d \in 0 .. N - n /\ n + d \in 0 .. N - 1
    OBVIOUS
  <2>2. RingSlot(N, a, d) = RingSlot(N, base, n + d)
    BY <2>1, RingMoves
  <2>3. RingSlot(N, a, d) \in 0 .. N - 1 /\ RingDist(N, a, RingSlot(N, a, d)) = d
    BY <1>1, <2>1, RingBack
  <2>4. RingDist(N, base, RingSlot(N, a, d)) = n + d
    BY <2>1, <2>2, RingOneToOne
  <2>5. RingDist(N, h, RingSlot(N, a, d)) = n + d - e
    BY <1>4, <2>1, <2>3, <2>4
  <2>6. RingSlot(N, a, d) \notin Run(N, base, n)
    BY <2>1, <2>4 DEF Run
  <2>7. QED
    BY <2>3, <2>5, <2>6
<1>9. RingSlot(N, a, w) = RingSlot(N, h, n - e + w)
  <2>1. RingSlot(N, a, w) = RingSlot(N, base, n + w)
    BY RingMoves
  <2>2. n - e + w \in 0 .. N - e /\ e + (n - e + w) = n + w
    OBVIOUS
  <2>3. RingSlot(N, h, n - e + w) = RingSlot(N, base, e + (n - e + w))
    BY <1>1, <2>2, RingMoves
  <2>4. QED
    BY <2>1, <2>2, <2>3
<1>10. e = 1 => base \in Run(N, base, n) /\ RingDist(N, base, base) = 0
  BY <1>2 DEF Run
<1>11. QED
  BY <1>1, <1>6, <1>7, <1>8, <1>9, <1>10 DEF RunMoved

(* What is left of a run when it is cut anywhere is a run.                 *)
LEMMA RunPrefix ==
    ASSUME NEW N \in Nat \ {0}, NEW base \in 0 .. N - 1, NEW n \in 0 .. N,
           NEW P \in SUBSET Run(N, base, n),
           \A j \in Run(N, base, n), k \in P :
               RingDist(N, base, j) < RingDist(N, base, k) => j \in P
    PROVE  \E m \in 0 .. n : P = Run(N, base, m)
<1>1. \A k \in Run(N, base, n) : /\ k \in 0 .. N - 1 /\ RingDist(N, base, k) \in 0 .. n - 1
                                 /\ RingDist(N, base, k) \in Int
  BY RingOneToOne DEF Run
<1>2. CASE P = {}
  <2>1. Run(N, base, 0) = {}
    BY RingOneToOne DEF Run
  <2>2. QED
    BY <1>2, <2>1
<1>3. CASE P # {}
  <2> DEFINE f == [k \in P |-> RingDist(N, base, k)]
             ds == {f[k] : k \in P}
  <2>1. IsFiniteSet(P)
    BY RunSize, FS_Subset
  <2>2. IsFiniteSet(ds)
    <3>1. f \in Surjection(P, ds)
      BY DEF Surjection
    <3>2. QED
      BY <2>1, <3>1, FS_Surjection
  <2>3. ds # {} /\ \A d \in ds : d \in Int
    BY <1>1, <1>3
  <2>4. \E d \in ds : \A e \in ds : e <= d
    <3> HIDE DEF ds
    <3>1. QED
      BY <2>2, <2>3, HighestExists
  <2>5. PICK h \in P : \A k \in P : RingDist(N, base, k) <= RingDist(N, base, h)
    BY <2>4
  <2> DEFINE m == RingDist(N, base, h) + 1
  <2>6. h \in Run(N, base, n) /\ m \in 0 .. n
    BY <1>1
  <2>7. P \subseteq Run(N, base, m)
    <3>1. SUFFICES ASSUME NEW k \in P PROVE k \in Run(N, base, m)
      OBVIOUS
    <3>2. k \in 0 .. N - 1 /\ RingDist(N, base, k) \in Int /\ RingDist(N, base, h) \in Int
      BY <1>1, <2>6
    <3>3. RingDist(N, base, k) < m
      BY <2>5, <3>2
    <3>4. QED
      BY <3>2, <3>3 DEF Run
  <2>8. Run(N, base, m) \subseteq P
    <3>1. SUFFICES ASSUME NEW k \in Run(N, base, m) PROVE k \in P
      OBVIOUS
    <3>2. k \in 0 .. N - 1 /\ h \in 0 .. N - 1 /\ RingDist(N, base, k) < m
      BY <1>1, <2>6 DEF Run
    <3>3. RingDist(N, base, k) \in Nat /\ RingDist(N, base, h) \in 0 .. n - 1
      BY <1>1, <2>6, <3>2, RingOneToOne
    <3>4. k \in Run(N, base, n)
      BY <3>2, <3>3 DEF Run
    <3>5. k = h \/ RingDist(N, base, k) < RingDist(N, base, h)
      <4>1. RingDist(N, base, k) = RingDist(N, base, h) => k = h
        BY <3>2, RingOneToOne
      <4>2. QED
        BY <3>2, <3>3, <4>1
    <3>6. QED
      BY <3>4, <3>5
  <2>9. QED
    BY <2>6, <2>7, <2>8
<1>4. QED
  BY <1>2, <1>3

-----------------------------------------------------------------------------
(* Rows ranked in program order.                                           *)

(* How many rows of S are older than row i, now and after a step.          *)
Rank(S, i) == Cardinality({j \in S : Age(j) < Age(i)})
RankNext(S, i) == Cardinality({j \in S : AgeNext(j) < AgeNext(i)})

(* Ranks number the rows of a set in their order, without gaps.            *)
LEMMA Ranks ==
    ASSUME RobTyped, NEW S \in SUBSET InFlight
    PROVE  /\ IsFiniteSet(S) /\ Cardinality(S) \in Nat
           /\ \A i \in InFlight : Rank(S, i) \in 0 .. Cardinality(S)
           /\ \A i \in S : Rank(S, i) \in 0 .. Cardinality(S) - 1
           /\ \A i \in S, j \in InFlight : Age(i) < Age(j) <=> Rank(S, i) < Rank(S, j)
           /\ \A i, j \in S : Rank(S, i) = Rank(S, j) => i = j
           /\ \A n \in 0 .. Cardinality(S) - 1 : \E i \in S : Rank(S, i) = n
<1> DEFINE ages == {Age(j) : j \in S}
           below(x) == {y \in ages : y < x}
<1>1. /\ com_ptr \in Slots /\ IsFiniteSet(S) /\ Cardinality(S) \in Nat
      /\ \A i \in InFlight : i \in Slots /\ Age(i) \in Int
      /\ \A i, j \in InFlight : Age(i) = Age(j) => i = j
  <2>1. com_ptr \in Slots /\ \A i \in InFlight : i \in Slots
    BY DEF RobTyped, InFlight
  <2>2. \A i \in InFlight : Age(i) \in Slots
    BY <2>1, SlotsAndAges, AgeIsFrom
  <2>3. \A i, j \in InFlight : Age(i) = Age(j) => i = j
    BY <2>1, SlotsAndAges, AgeIsFrom
  <2>4. IsFiniteSet(S) /\ Cardinality(S) \in Nat
    BY FromCounts, FS_CardinalityType
  <2>5. QED
    BY <2>1, <2>2, <2>3, <2>4 DEF Slots
<1>2. IsFiniteSet(ages) /\ Cardinality(ages) = Cardinality(S)
  <2> DEFINE f == [j \in S |-> Age(j)]
  <2>1. \A x, y \in S : f[x] = f[y] => x = y
    BY <1>1
  <2>2. DOMAIN f = S /\ f = [j \in S |-> f[j]] /\ ages = {f[j] : j \in S}
    OBVIOUS
  <2> HIDE DEF f, ages
  <2>3. QED
    BY <1>1, <2>1, <2>2, ImageCount
<1>3. ASSUME NEW i PROVE Rank(S, i) = Cardinality(below(Age(i)))
  <2> DEFINE P == {j \in S : Age(j) < Age(i)}
             f == [j \in P |-> Age(j)]
             Q == below(Age(i))
  <2>1. \A x, y \in P : f[x] = f[y] => x = y
    BY <1>1
  <2>2. DOMAIN f = P /\ f = [j \in P |-> f[j]] /\ Q = {f[j] : j \in P}
    OBVIOUS
  <2>3. IsFiniteSet(P)
    BY <1>1, FS_Subset
  <2> HIDE DEF f, P, Q
  <2>4. Cardinality(Q) = Cardinality(P)
    BY <2>1, <2>2, <2>3, ImageCount
  <2>5. QED
    BY <2>4 DEF P, Q, Rank
<1>4. /\ \A x \in Int : Cardinality(below(x)) \in 0 .. Cardinality(S)
      /\ \A x \in ages : Cardinality(below(x)) \in 0 .. Cardinality(S) - 1
      /\ \A x \in ages, z \in Int : x < z => Cardinality(below(x)) < Cardinality(below(z))
      /\ \A x, z \in Int : x <= z => Cardinality(below(x)) <= Cardinality(below(z))
      /\ \A n \in 0 .. Cardinality(S) - 1 : \E x \in ages : Cardinality(below(x)) = n
  <2>1. \A x \in ages : x \in Int
    BY <1>1
  <2> HIDE DEF ages
  <2>2. QED
    BY <1>2, <2>1, Numbering
<1>5. \A i \in S : i \in InFlight /\ Age(i) \in ages
  OBVIOUS
<1>6. \A x \in ages : \E i \in S : x = Age(i)
  OBVIOUS
<1> HIDE DEF ages, below
<1>7. \A i \in InFlight : Rank(S, i) \in 0 .. Cardinality(S)
  BY <1>1, <1>3, <1>4
<1>8. \A i \in S : Rank(S, i) \in 0 .. Cardinality(S) - 1
  BY <1>3, <1>4, <1>5
<1>9. ASSUME NEW i \in S, NEW j \in InFlight
      PROVE  Age(i) < Age(j) <=> Rank(S, i) < Rank(S, j)
  <2>1. i \in InFlight /\ Age(i) \in ages /\ Age(i) \in Int /\ Age(j) \in Int
    BY <1>1, <1>5
  <2>2. Age(i) < Age(j) => Rank(S, i) < Rank(S, j)
    BY <1>3, <1>4, <2>1
  <2>3. Age(j) <= Age(i) => Rank(S, j) <= Rank(S, i)
    BY <1>3, <1>4, <2>1
  <2>4. Rank(S, i) \in Int /\ Rank(S, j) \in Int
    BY <1>1, <1>7, <2>1
  <2>5. QED
    BY <2>1, <2>2, <2>3, <2>4
<1>10. ASSUME NEW i \in S, NEW j \in S, Rank(S, i) = Rank(S, j) PROVE i = j
  <2>1. i \in InFlight /\ j \in InFlight
    BY <1>5
  <2>2. Rank(S, i) \in Int /\ Rank(S, j) \in Int /\ Age(i) \in Int /\ Age(j) \in Int
    BY <1>1, <1>7, <2>1
  <2>3. ~(Age(i) < Age(j)) /\ ~(Age(j) < Age(i))
    BY <1>9, <1>10, <2>1, <2>2
  <2>4. QED
    BY <1>1, <2>1, <2>2, <2>3
<1>11. ASSUME NEW n \in 0 .. Cardinality(S) - 1 PROVE \E i \in S : Rank(S, i) = n
  BY <1>3, <1>4, <1>6
<1>12. QED
  BY <1>1, <1>7, <1>8, <1>9, <1>10, <1>11

(* The oldest rows D of S leave and the rows N join behind all of S: a row *)
(* that stays has as many fewer ahead of it, and one that joins has all    *)
(* that stay ahead of it.                                                  *)
RanksMoved(S, D, N, T) ==
    /\ Cardinality(D) \in 0 .. Cardinality(S)
    /\ Cardinality(N) = IF N = {} THEN 0 ELSE 1
    /\ Cardinality(T) = Cardinality(S) - Cardinality(D) + Cardinality(N)
    /\ \A i \in S \ D : RankNext(T, i) = Rank(S, i) - Cardinality(D)
    /\ \A x \in N : RankNext(T, x) = Cardinality(S) - Cardinality(D)

(* When at most one row joins, ranks move so.                              *)
LEMMA RanksMove ==
    ASSUME RobTyped, Gone \in Int, NEW S \in SUBSET InFlight, NEW D \in SUBSET S,
           \A d \in D, i \in S \ D : Age(d) < Age(i),
           NEW N \in SUBSET InFlight, \A i \in S, x \in N : Age(i) < Age(x),
           \A x, y \in N : x = y,
           \A i \in (S \ D) \cup N : AgeNext(i) = Age(i) - Gone,
           NEW T, T = (S \ D) \cup N
    PROVE  RanksMoved(S, D, N, T)
<1>1. /\ IsFiniteSet(S) /\ Cardinality(S) \in Nat
      /\ \A i \in InFlight : Age(i) \in Int
  <2>1. com_ptr \in Slots /\ \A i \in InFlight : i \in Slots
    BY DEF RobTyped, InFlight
  <2>2. \A i \in InFlight : Age(i) \in Slots
    BY <2>1, SlotsAndAges, AgeIsFrom
  <2>3. IsFiniteSet(S) /\ Cardinality(S) \in Nat
    BY Ranks
  <2>4. QED
    BY <2>2, <2>3 DEF Slots
<1>2. IsFiniteSet(D) /\ Cardinality(D) \in Nat /\ Cardinality(D) <= Cardinality(S)
  BY <1>1, FS_Subset, FS_CardinalityType
<1>3. IsFiniteSet(N) /\ Cardinality(N) = IF N = {} THEN 0 ELSE 1
  <2>1. CASE N = {}
    BY <2>1, FS_EmptySet
  <2>2. CASE N # {}
    <3>1. PICK x \in N : N = {x}
      BY <2>2
    <3>2. QED
      BY <2>2, <3>1, FS_Singleton
  <2>3. QED
    BY <2>1, <2>2
<1>4. N \cap S = {}
  <2>1. ASSUME NEW x \in N, x \in S PROVE FALSE
    <3>1. Age(x) < Age(x) /\ Age(x) \in Int
      BY <1>1, <2>1
    <3>2. QED
      BY <3>1
  <2>2. QED
    BY <2>1
<1>5. IsFiniteSet(S \ D) /\ Cardinality(S \ D) = Cardinality(S) - Cardinality(D)
  <2>1. S \cap D = D
    OBVIOUS
  <2>2. QED
    BY <1>1, <2>1, FS_Difference
<1>6. Cardinality(T) = Cardinality(S) - Cardinality(D) + Cardinality(N)
  <2>1. (S \ D) \cap N = {} /\ Cardinality({}) = 0
    BY <1>4, FS_EmptySet
  <2>2. Cardinality((S \ D) \cup N) = Cardinality(S \ D) + Cardinality(N) - Cardinality((S \ D) \cap N)
    BY <1>3, <1>5, FS_Union
  <2>3. Cardinality(T) = Cardinality(S \ D) + Cardinality(N) - 0
    BY <2>1, <2>2
  <2>4. Cardinality(N) \in Nat
    BY <1>3
  <2>5. QED
    BY <1>1, <1>2, <1>5, <2>3, <2>4
<1>7. ASSUME NEW i \in S \ D PROVE RankNext(T, i) = Rank(S, i) - Cardinality(D)
  <2> DEFINE P == {j \in S : Age(j) < Age(i)}
             Q == {j \in T : AgeNext(j) < AgeNext(i)}
  <2>1. \A j \in (S \ D) \cup N : AgeNext(j) < AgeNext(i) <=> Age(j) < Age(i)
    <3>1. ASSUME NEW j \in (S \ D) \cup N PROVE AgeNext(j) < AgeNext(i) <=> Age(j) < Age(i)
      <4>1. AgeNext(j) = Age(j) - Gone /\ AgeNext(i) = Age(i) - Gone
        OBVIOUS
      <4>2. Age(j) \in Int /\ Age(i) \in Int
        BY <1>1
      <4>3. QED
        BY <4>1, <4>2
    <3>2. QED
      BY <3>1
  <2>2. \A x \in N : ~(Age(x) < Age(i))
    <3>1. ASSUME NEW x \in N PROVE ~(Age(x) < Age(i))
      <4>1. Age(i) < Age(x) /\ Age(x) \in Int /\ Age(i) \in Int
        BY <1>1
      <4>2. QED
        BY <4>1
    <3>2. QED
      BY <3>1
  <2>3. Q = P \ D /\ P \cap D = D
    BY <2>1, <2>2
  <2>4. IsFiniteSet(P) /\ Cardinality(P) \in Nat
    BY <1>1, FS_Subset, FS_CardinalityType
  <2> HIDE DEF P, Q
  <2>5. Cardinality(Q) = Cardinality(P) - Cardinality(D)
    BY <2>3, <2>4, FS_Difference
  <2>6. QED
    BY <2>5 DEF P, Q, Rank, RankNext
<1>8. ASSUME NEW x \in N PROVE RankNext(T, x) = Cardinality(S) - Cardinality(D)
  <2>1. \A j \in (S \ D) \cup N : AgeNext(j) < AgeNext(x) <=> Age(j) < Age(x)
    <3>1. ASSUME NEW j \in (S \ D) \cup N PROVE AgeNext(j) < AgeNext(x) <=> Age(j) < Age(x)
      <4>1. AgeNext(j) = Age(j) - Gone /\ AgeNext(x) = Age(x) - Gone
        OBVIOUS
      <4>2. Age(j) \in Int /\ Age(x) \in Int
        BY <1>1
      <4>3. QED
        BY <4>1, <4>2
    <3>2. QED
      BY <3>1
  <2>2. N = {x} /\ Age(x) \in Int
    BY <1>1
  <2>3. {j \in T : AgeNext(j) < AgeNext(x)} = S \ D
    BY <2>1, <2>2
  <2>4. QED
    BY <1>5, <2>3 DEF RankNext
<1>9. Cardinality(D) \in 0 .. Cardinality(S)
  BY <1>1, <1>2
<1>10. QED
  BY <1>3, <1>6, <1>7, <1>8, <1>9 DEF RanksMoved

-----------------------------------------------------------------------------
(* The lanes of a group.                                                   *)

(* The row of the ROB a lane takes, and the entry of the station.          *)
SlotOf(g, l) == FreeSlot(Before(Valid(g), l))
Port(g, l) == RingSlot(RsvSize, rsv_alloc, Before(Accesses(g), l))

(* What a lane holds is told by its instruction, and no branch is a load   *)
(* or a store.                                                             *)
LEMMA LaneKinds ==
    ASSUME NEW g \in Landing
    PROVE  /\ g \in Groups
           /\ Valid(g) \in SUBSET Lanes /\ Branches(g) \in SUBSET Valid(g)
           /\ Accesses(g) \in SUBSET Valid(g) /\ Accesses(g) \cap Branches(g) = {}
           /\ \A l \in Valid(g) : g[l] \in Uops /\ g[l] # NoUop
           /\ \A l \in Valid(g) : l \in Branches(g) <=> g[l].is_branch
           /\ \A l \in Valid(g) : l \in Accesses(g) <=> IsAccess(g[l])
           /\ g = NoGroup => Valid(g) = {}
<1>1. NoGroup \in Groups
  BY DEF NoGroup, Groups
<1>2. g \in Groups
  BY <1>1 DEF Landing
<1>3. \A l \in Lanes : g[l] \in Uops \cup {NoUop}
  BY <1>2 DEF Groups
<1>4. ~NoUop.is_branch /\ ~NoUop.is_load /\ ~NoUop.is_store
  BY DEF NoUop
<1>5. \A l \in Branches(g) \cup Accesses(g) : l \in Lanes /\ g[l] # NoUop
  BY <1>4 DEF Branches, Accesses, IsAccess
<1>6. \A u \in Uops : ~(u.is_branch /\ (u.is_load \/ u.is_store))
  BY LoadStoreAssumption
<1>7. Accesses(g) \cap Branches(g) = {}
  BY <1>3, <1>5, <1>6 DEF Accesses, Branches, IsAccess
<1>8. g = NoGroup => Valid(g) = {}
  BY DEF NoGroup, Valid
<1>9. QED
  BY <1>2, <1>3, <1>5, <1>7, <1>8 DEF Valid, Branches, Accesses

(* Lanes of any kind are numbered in order, without gaps.                  *)
LEMMA LaneNumbers ==
    ASSUME NEW S \in SUBSET Lanes
    PROVE  /\ IsFiniteSet(S) /\ Cardinality(S) \in Nat
           /\ \A x \in S : x \in Nat /\ Before(S, x) \in 0 .. Cardinality(S) - 1
           /\ \A x, z \in S : x < z <=> Before(S, x) < Before(S, z)
           /\ \A x, z \in S : Before(S, x) = Before(S, z) => x = z
           /\ \A n \in 0 .. Cardinality(S) - 1 : \E x \in S : Before(S, x) = n
<1>1. FeLanes \in Nat
  BY LoadStoreAssumption, RobAssumption
<1>2. IsFiniteSet(Lanes) /\ \A x \in S : x \in Nat /\ x \in Int
  BY <1>1, FS_Interval DEF Lanes
<1>3. IsFiniteSet(S)
  BY <1>2, FS_Subset
<1>4. /\ Cardinality(S) \in Nat
      /\ \A x \in S : Before(S, x) \in 0 .. Cardinality(S) - 1
      /\ \A x \in S, z \in Int : x < z => Before(S, x) < Before(S, z)
      /\ \A n \in 0 .. Cardinality(S) - 1 : \E x \in S : Before(S, x) = n
  BY <1>2, <1>3, Numbering DEF Before
<1>5. ASSUME NEW x \in S, NEW z \in S
      PROVE  /\ x < z <=> Before(S, x) < Before(S, z)
             /\ Before(S, x) = Before(S, z) => x = z
  <2>1. /\ x \in Int /\ z \in Int /\ Before(S, x) \in Int /\ Before(S, z) \in Int
        /\ x < z => Before(S, x) < Before(S, z)
        /\ z < x => Before(S, z) < Before(S, x)
    BY <1>2, <1>4
  <2>2. x = z => Before(S, x) = Before(S, z)
    OBVIOUS
  <2>3. QED
    BY <2>1, <2>2
<1>6. QED
  BY <1>2, <1>3, <1>4, <1>5

(* The n entries of the station, from its head on, are those that wait.    *)
StationRun(n) ==
    /\ n \in 0 .. RsvSize
    /\ Waiting = Run(RsvSize, rsv_head, n)
    /\ rsv_alloc = RingSlot(RsvSize, rsv_head, n)

(* A group that lands fits into the station; its entries are those of its  *)
(* loads and stores, in lane order.                                        *)
LEMMA EntriesOfLanes ==
    ASSUME rsv_head \in RsvSlots, NEW n, StationRun(n), NEW g \in Landing,
           NEW w, w = Cardinality(Accesses(g))
    PROVE  /\ w \in 0 .. RsvSize - n
           /\ DOMAIN Entries(g) = 1 .. w /\ Len(Entries(g)) = w
           /\ \A l \in Accesses(g) : /\ Before(Accesses(g), l) \in 0 .. w - 1
                                     /\ Entries(g)[1 + Before(Accesses(g), l)] = Entry(g, l)
           /\ \A k \in 0 .. w - 1 : \E l \in Accesses(g) : Before(Accesses(g), l) = k
           /\ \A l, m \in Accesses(g) : l < m <=> Before(Accesses(g), l) < Before(Accesses(g), m)
           /\ \A l, m \in Accesses(g) : Before(Accesses(g), l) = Before(Accesses(g), m) => l = m
<1> DEFINE num(l) == Before(Accesses(g), l)
<1>1. Accesses(g) \in SUBSET Lanes
  BY LaneKinds
<1>2. /\ IsFiniteSet(Accesses(g)) /\ w \in Nat
      /\ \A l \in Accesses(g) : l \in Nat /\ num(l) \in 0 .. w - 1
      /\ \A l, m \in Accesses(g) : l < m <=> num(l) < num(m)
      /\ \A l, m \in Accesses(g) : num(l) = num(m) => l = m
      /\ \A j \in 0 .. w - 1 : \E l \in Accesses(g) : num(l) = j
  BY <1>1, LaneNumbers
<1>3. /\ DOMAIN Entries(g) = 1 .. w /\ Len(Entries(g)) = w
      /\ \A k \in 1 .. w : Entries(g)[k] = Entry(g, CHOOSE l \in Accesses(g) : num(l) = k - 1)
  BY <1>2 DEF Entries
<1>4. w <= FeLanes
  <2>1. FeLanes \in Nat
    BY LoadStoreAssumption, RobAssumption
  <2>2. IsFiniteSet(Lanes) /\ Cardinality(Lanes) = FeLanes
    BY <2>1, FS_Interval DEF Lanes
  <2>3. QED
    BY <1>1, <2>2, FS_Subset
<1>5. w <= RsvSize /\ RsvSize \in Nat \ {0} /\ FeLanes \in Nat
  BY <1>2, <1>4, LoadStoreAssumption, RobAssumption, RsvAssumption
<1>6. w <= RsvSize - n
  <2>1. n \in 0 .. RsvSize
    BY DEF StationRun
  <2>2. CASE g = NoGroup
    <3>1. Accesses(g) = {}
      BY <2>2, LaneKinds
    <3>2. w = 0
      BY <3>1, FS_EmptySet
    <3>3. QED
      BY <2>1, <3>2, <1>5
  <2>3. CASE g # NoGroup
    <3>1. \A k \in 0 .. w - 1 : RingSlot(RsvSize, rsv_alloc, k) \notin Waiting
      BY <2>3 DEF Landing, ReadyToGo, RsvFits, RingSlot
    <3>2. SUFFICES ASSUME w > RsvSize - n PROVE FALSE
      BY <1>2, <1>5, <2>1
    <3>3. RsvSize - n \in 0 .. w - 1 /\ n > 0 /\ RsvSize - n \in 0 .. RsvSize - n /\ n + (RsvSize - n) = RsvSize
      BY <1>2, <1>5, <2>1, <3>2
    <3>4. /\ rsv_head \in 0 .. RsvSize - 1
          /\ rsv_alloc = RingSlot(RsvSize, rsv_head, n) /\ Waiting = Run(RsvSize, rsv_head, n)
      BY DEF RsvSlots, StationRun
    <3>5. RingSlot(RsvSize, rsv_alloc, RsvSize - n) = RingSlot(RsvSize, rsv_head, n + (RsvSize - n))
      BY <1>5, <2>1, <3>3, <3>4, RingMoves
    <3>6. RingSlot(RsvSize, rsv_alloc, RsvSize - n) = rsv_head
      BY <1>5, <3>3, <3>4, <3>5, RingOneToOne
    <3>7. rsv_head \in Waiting
      BY <1>5, <3>3, <3>4, RingOneToOne DEF Run
    <3>8. QED
      BY <3>1, <3>3, <3>6, <3>7
  <2>4. QED
    BY <2>2, <2>3
<1>7. ASSUME NEW l \in Accesses(g) PROVE Entries(g)[1 + num(l)] = Entry(g, l)
  <2>1. num(l) \in 0 .. w - 1 /\ (1 + num(l)) - 1 = num(l) /\ 1 + num(l) \in 1 .. w
    BY <1>2
  <2>2. (CHOOSE m \in Accesses(g) : num(m) = num(l)) = l
    BY <1>2
  <2> HIDE DEF num
  <2>3. QED
    BY <1>3, <2>1, <2>2
<1>8. w \in 0 .. RsvSize - n
  BY <1>2, <1>5, <1>6 DEF StationRun
<1>9. QED
  BY <1>2, <1>3, <1>7, <1>8

-----------------------------------------------------------------------------
(* The invariant.                                                          *)

(* The loads and stores that have not finished.                            *)
Waits == {i \in Unfinished : IsAccess(table[i].uop)}

EntryOf(k) == rsv[k].rob_des_idx
RsvPos(k) == RingDist(RsvSize, rsv_head, k)
BufPos(k) == RingDist(BufDepth, buf_ret, k)

RowsAreWhole == \A i \in InFlight : table[i].uop \in Uops

RowsSound == alloc_ptr = SlotAt(used_entry_cnt) /\ TagsAreRing /\ RowsAreWhole

(* A record under way is of a load or store that has not finished.         *)
Holds(rec) == rec.rob_des_idx \in Waits /\ rec.uop = table[rec.rob_des_idx].uop

(* The two stages and the station hold the waiting rows, in order from     *)
(* stage 1 back; what has finished is older than what has not.             *)
Placed ==
    /\ \E n \in 0 .. RsvSize : StationRun(n)
    /\ stage1.valid <=> stage1_on
    /\ stage1_on => Holds(stage1)
    /\ stage0.valid => Holds(stage0)
    /\ \A k \in Waiting : Holds(rsv[k])
    /\ stage1_on /\ stage0.valid => Age(stage1.rob_des_idx) < Age(stage0.rob_des_idx)
    /\ \A k \in Waiting : stage1_on => Age(stage1.rob_des_idx) < Age(EntryOf(k))
    /\ \A k \in Waiting : stage0.valid => Age(stage0.rob_des_idx) < Age(EntryOf(k))
    /\ \A j, k \in Waiting : RsvPos(j) < RsvPos(k) => Age(EntryOf(j)) < Age(EntryOf(k))
    /\ \A i \in Waits : \/ stage1_on /\ i = stage1.rob_des_idx
                        \/ stage0.valid /\ i = stage0.rob_des_idx
                        \/ \E k \in Waiting : i = EntryOf(k)
    /\ \A i \in InFlight, j \in Waits :
          IsAccess(table[i].uop) /\ table[i].wb_fin => Age(i) < Age(j)

(* The buffer holds cnt stores, of which the ROB has retired done, and the *)
(* others are the ones in flight that have executed.                       *)
BufferRun(cnt, done) ==
    /\ cnt \in 0 .. BufDepth /\ done \in 0 .. cnt
    /\ cnt = done + Cardinality(Entered)
    /\ Busy = Run(BufDepth, buf_ret, cnt)
    /\ \A k \in Busy : buf[k].complete <=> BufPos(k) < done
    /\ buf_com = RingSlot(BufDepth, buf_ret, done)
    /\ buf_alloc = RingSlot(BufDepth, buf_ret, cnt)

Buffered == \E cnt \in 0 .. BufDepth : \E done \in 0 .. cnt : BufferRun(cnt, done)

(* Record rec carries the pair of row i.                                   *)
Follows(rec, i) == rec.spec_tag = PairTag(i) /\ (rec.is_spec <=> rec.spec_tag # {})

PairsSound ==
    /\ stage1_on => Follows(stage1, stage1.rob_des_idx)
    /\ stage0.valid => Follows(stage0, stage0.rob_des_idx)
    /\ \A k \in Waiting : Follows(rsv[k], EntryOf(k))
    /\ \A i \in Entered : Follows(buf[RowOf(i)], i)
    /\ \A k \in Busy : buf[k].complete => ~buf[k].is_spec /\ buf[k].spec_tag = {}

(* A buffered store holds the word that program order makes of it.         *)
StoreMerged(i) ==
    /\ buf[RowOf(i)].mem_addr = table[i].uop.addr
    /\ buf[RowOf(i)].data = Merged(WordBefore(i, table[i].uop.addr), table[i].uop.bytes)

(* The rows of the buffer that hold a retired store to addr.               *)
Drained(addr) == {k \in Busy : buf[k].complete /\ buf[k].mem_addr = addr}

(* What the ROB has retired at addr is in memory, or in the newest row.    *)
Committed(addr) ==
    \/ Drained(addr) = {} /\ committed[addr] = mem[addr]
    \/ \E k \in Drained(addr) : /\ \A j \in Drained(addr) : BufPos(j) <= BufPos(k)
                                /\ committed[addr] = buf[k].data

WordsSound ==
    /\ \A i \in Entered : StoreMerged(i)
    /\ \A addr \in Addrs : Committed(addr)
    /\ LoadsSeeProgramOrder

IInv ==
    /\ ~OwnAck
    /\ TypeOK
    /\ RowsSound
    /\ Placed
    /\ Buffered
    /\ PairsSound
    /\ WordsSound

(* What the proofs below use of the types.                                 *)
LEMMA Typed ==
    ASSUME IInv
    PROVE  /\ RobTyped /\ TagsTyped /\ alloc_ptr = SlotAt(used_entry_cnt)
           /\ InFlight \subseteq Slots /\ Opened = OpenBranches /\ Opened \subseteq Unfinished
           /\ Unfinished \subseteq InFlight /\ Waits \subseteq Unfinished
           /\ \A i \in Slots : /\ table[i].uop \in Uops \cup {NoUop}
                               /\ table[i].tag \in SUBSET Tags /\ table[i].wb_fin \in BOOLEAN
                               /\ DOMAIN table[i] = {"uop", "tag", "wb_fin"}
           /\ \A i \in InFlight : Age(i) \in Nat /\ table[i].uop \in Uops
           /\ RsvSize \in Nat \ {0} /\ rsv_head \in 0 .. RsvSize - 1 /\ Waiting \subseteq RsvSlots
           /\ rsv_head \in RsvSlots /\ RsvSlots = 0 .. RsvSize - 1
           /\ BufDepth \in Nat \ {0} /\ buf_ret \in 0 .. BufDepth - 1 /\ Busy \subseteq BufSlots
           /\ BufSlots = 0 .. BufDepth - 1
           /\ stage0.valid \in BOOLEAN /\ stage1_on \in BOOLEAN
           /\ mem \in [Addrs -> Word] /\ committed \in [Addrs -> Word]
<1>1. RobTyped /\ TagsTyped /\ alloc_ptr = SlotAt(used_entry_cnt)
  BY DEF IInv, TypeOK, RobTyped, TagsTyped, RowsSound
<1>2. /\ InFlight \subseteq Slots /\ Opened = OpenBranches /\ Opened \subseteq Unfinished
      /\ Unfinished \subseteq InFlight /\ Waits \subseteq Unfinished
  BY DEF InFlight, Opened, OpenBranches, Unfinished, Waits
<1>3. ASSUME NEW i \in Slots
      PROVE  /\ table[i].uop \in Uops \cup {NoUop}
             /\ table[i].tag \in SUBSET Tags /\ table[i].wb_fin \in BOOLEAN
             /\ DOMAIN table[i] = {"uop", "tag", "wb_fin"}
  <2>1. table[i] \in [uop : Uops \cup {NoUop}, tag : SUBSET Tags, wb_fin : BOOLEAN]
    BY DEF IInv, TypeOK
  <2>2. QED
    BY <2>1
<1>4. \A i \in InFlight : Age(i) \in Nat /\ table[i].uop \in Uops
  <2>1. \A i \in InFlight : Age(i) \in Slots
    BY <1>1, <1>2, SlotsAndAges, AgeIsFrom DEF RobTyped
  <2>2. QED
    BY <2>1 DEF IInv, RowsSound, RowsAreWhole, Slots
<1>5. /\ RsvSize \in Nat \ {0} /\ rsv_head \in 0 .. RsvSize - 1 /\ Waiting \subseteq RsvSlots
      /\ rsv_head \in RsvSlots /\ RsvSlots = 0 .. RsvSize - 1
      /\ BufDepth \in Nat \ {0} /\ buf_ret \in 0 .. BufDepth - 1 /\ Busy \subseteq BufSlots
      /\ BufSlots = 0 .. BufDepth - 1
  BY RsvAssumption, StoreBufAssumption DEF IInv, TypeOK, RsvSlots, BufSlots, Waiting, Busy
<1>6. stage0.valid \in BOOLEAN
  <2>1. stage0 \in Record \cup {NoEntry}
    BY DEF IInv, TypeOK
  <2>2. CASE stage0 \in Record
    BY <2>2 DEF Record
  <2>3. CASE stage0 = NoEntry
    <3>1. stage0.valid = FALSE
      BY <2>3 DEF NoEntry
    <3>2. QED
      BY <3>1
  <2>4. QED
    BY <2>1, <2>2, <2>3
<1>7. stage1_on \in BOOLEAN /\ mem \in [Addrs -> Word] /\ committed \in [Addrs -> Word]
  BY DEF IInv, TypeOK
<1>8. QED
  BY <1>1, <1>2, <1>3, <1>4, <1>5, <1>6, <1>7

(* The fields of what is under way.                                        *)
FieldsTyped(rec) ==
    /\ rec.valid /\ rec.uop \in Uops /\ rec.rob_des_idx \in Slots
    /\ rec.is_spec \in BOOLEAN /\ rec.spec_tag \in SUBSET Tags

(* Every record under way, and every row of the buffer in use, is whole.   *)
LEMMA RecordsTyped ==
    ASSUME IInv
    PROVE  /\ \A k \in Waiting : rsv[k] \in Record /\ FieldsTyped(rsv[k])
           /\ stage0.valid => stage0 \in Record /\ FieldsTyped(stage0)
           /\ stage1_on => /\ stage1 \in Result /\ FieldsTyped(stage1)
                           /\ stage1.word \in Word
           /\ \A k \in Busy : /\ buf[k] \in BufRow
                              /\ buf[k].busy /\ buf[k].complete \in BOOLEAN
                              /\ buf[k].is_spec \in BOOLEAN /\ buf[k].spec_tag \in SUBSET Tags
                              /\ buf[k].mem_addr \in Addrs /\ buf[k].data \in Word
<1>1. \A r \in Record : FieldsTyped(r)
  BY DEF Record, FieldsTyped
<1>2. \A r \in Result : FieldsTyped(r) /\ r.word \in Word
  BY DEF Result, FieldsTyped
<1>3. \A k \in Waiting : rsv[k] \in Record
  <2>1. ASSUME NEW k \in Waiting PROVE rsv[k] \in Record
    <3>1. rsv[k] \in Record \cup {NoEntry} /\ rsv[k].valid
      BY Typed DEF IInv, TypeOK, Waiting
    <3>2. QED
      BY <3>1 DEF NoEntry
  <2>2. QED
    BY <2>1
<1>4. stage0.valid => stage0 \in Record
  BY DEF IInv, TypeOK, NoEntry
<1>5. stage1_on => stage1 \in Result
  BY DEF IInv, TypeOK, NoEntry, Placed
<1>6. ASSUME NEW k \in Busy PROVE buf[k] \in BufRow
  <2>1. buf[k] \in BufRow \cup {FreeRow} /\ buf[k].busy
    BY Typed DEF IInv, TypeOK, Busy
  <2>2. QED
    BY <2>1 DEF FreeRow
<1>7. \A r \in BufRow : /\ r.busy /\ r.complete \in BOOLEAN
                        /\ r.is_spec \in BOOLEAN /\ r.spec_tag \in SUBSET Tags
                        /\ r.mem_addr \in Addrs /\ r.data \in Word
  BY DEF BufRow
<1>8. QED
  BY <1>1, <1>2, <1>3, <1>4, <1>5, <1>6, <1>7

-----------------------------------------------------------------------------
(* A cycle without a squash, as Cycle and SucPred take it.                 *)

FlowOf(g, D, suc, issued, retired) ==
    /\ g \in Landing
    /\ issued \in {FALSE, MayIssue} /\ retired \in {FALSE, RetireReady}
    /\ suc = UNION {table[d].tag : d \in D}
    /\ D = {} \/ (g = NoGroup /\ \E i \in Resolving : D = {i})
    /\ Flow(D, Retiring, g, suc, issued, retired)

(* The pool has a tag for each branch that lands.                          *)
LEMMA TagsSuffice ==
    ASSUME IInv, NEW g \in Landing
    PROVE  /\ Cardinality(Branches(g)) \in 0 .. free_tag
           /\ \A l \in Branches(g) :
                 /\ Before(Branches(g), l) \in 0 .. Cardinality(Branches(g)) - 1
                 /\ TagAfter(Before(Branches(g), l)) \in Tags
<1> DEFINE B == Branches(g)
           n == Cardinality(B)
<1>1. B \in SUBSET Lanes
  BY LaneKinds
<1>2. n \in Nat /\ \A l \in B : Before(B, l) \in 0 .. n - 1
  BY <1>1, LaneNumbers
<1>3. free_tag \in Nat /\ \A b \in 0 .. free_tag : RotateLeft(next_tag, b) \in Tags
  BY Typed, OpenTags DEF IInv, RowsSound
<1>4. n <= free_tag
  <2>1. CASE g = NoGroup
    <3>1. B = {}
      BY <2>1, LaneKinds
    <3>2. n = 0
      BY <3>1, FS_EmptySet
    <3>3. QED
      BY <1>3, <3>2
  <2>2. CASE g # NoGroup
    <3>1. ~OverUse(n, 0)
      BY <2>2 DEF Landing, ReadyToGo
    <3> HIDE DEF n
    <3>2. QED
      BY <1>2, <1>3, <3>1 DEF OverUse
  <2>3. QED
    BY <2>1, <2>2
<1> HIDE DEF n
<1>5. ASSUME NEW l \in B PROVE TagAfter(Before(B, l)) \in Tags
  <2>1. Before(B, l) \in 0 .. free_tag
    BY <1>2, <1>3, <1>4
  <2>2. QED
    BY <1>3, <2>1 DEF TagAfter
<1>6. QED
  BY <1>2, <1>3, <1>4, <1>5 DEF n

(* The rows that stay and the rows that land.                              *)
LEMMA FlowRows ==
    ASSUME IInv, NEW g, NEW D, NEW suc, NEW issued, NEW retired,
           FlowOf(g, D, suc, issued, retired)
    PROVE  /\ Cardinality(Valid(g)) \in 0 .. RobDepth - used_entry_cnt
           /\ Moves(Cardinality(Valid(g)))
           /\ \A l \in Valid(g) :
                 /\ Before(Valid(g), l) \in 0 .. Cardinality(Valid(g)) - 1
                 /\ SlotOf(g, l) \in InFlight' \ InFlight
                 /\ AgeNext(SlotOf(g, l)) = used_entry_cnt + Before(Valid(g), l) - Gone
                 /\ table'[SlotOf(g, l)] = RobRow(g, l)
           /\ \A l, m \in Valid(g) : SlotOf(g, l) = SlotOf(g, m) => l = m
           /\ \A i \in InFlight' : i \in InFlight \/ \E l \in Valid(g) : i = SlotOf(g, l)
           /\ \A i \in InFlight : i \in InFlight' <=> i \notin Retiring
           /\ \A i \in InFlight : i \in InFlight' =>
                 /\ AgeNext(i) = Age(i) - Gone
                 /\ table'[i].uop = table[i].uop
                 /\ table'[i].tag = table[i].tag
                 /\ table'[i].wb_fin <=> table[i].wb_fin \/ i \in D \cup Reported
           /\ \A i \in Slots : table'[i] \in [uop : Uops \cup {NoUop}, tag : SUBSET Tags,
                                               wb_fin : BOOLEAN]
<1> DEFINE S == Valid(g)
           w == Cardinality(S)
           lane(i) == {l \in S : SlotOf(g, l) = i}
<1>1. /\ g \in Landing /\ Flow(D, Retiring, g, suc, issued, retired)
      /\ RobTyped /\ alloc_ptr = SlotAt(used_entry_cnt)
  BY Typed DEF FlowOf
<1>2. S \in SUBSET Lanes /\ \A l \in S : g[l] \in Uops
  BY <1>1, LaneKinds
<1>3. /\ w \in Nat
      /\ \A l \in S : Before(S, l) \in 0 .. w - 1
      /\ \A l, m \in S : Before(S, l) = Before(S, m) => l = m
      /\ \A k \in 0 .. w - 1 : \E l \in S : Before(S, l) = k
  BY <1>2, LaneNumbers
<1>4. used_entry_cnt \in 0 .. RobDepth /\ RobDepth \in Nat \ {0}
  BY <1>1, RobAssumption DEF RobTyped
<1>5. w \in 0 .. RobDepth - used_entry_cnt
  <2>1. CASE g = NoGroup
    <3>1. S = {}
      BY <1>1, <2>1, LaneKinds
    <3>2. w = 0
      BY <3>1, FS_EmptySet
    <3>3. QED
      BY <1>4, <3>2
  <2>2. CASE g # NoGroup
    <3>1. GroupFits(w)
      BY <1>1, <2>2 DEF Landing, ReadyToGo
    <3> HIDE DEF w
    <3>2. QED
      BY <1>3, <1>4, <3>1 DEF GroupFits
  <2>3. QED
    BY <2>1, <2>2
<1>6. Moves(w)
  <2>1. RobUpdate(w, TRUE, Gone)
    BY <1>1 DEF Flow, Gone
  <2> HIDE DEF w
  <2>2. QED
    BY <2>1 DEF RobUpdate, Moves
<1>7. \A i \in Slots : table'[i] =
          IF lane(i) # {} THEN RobRow(g, CHOOSE l \in lane(i) : TRUE)
          ELSE IF i \in Retiring \/ i \notin InFlight THEN Blank
          ELSE [table[i] EXCEPT !.wb_fin = @ \/ i \in D \cup Reported]
  BY <1>1 DEF Flow, SlotOf
<1> HIDE DEF w
<1>8. /\ InFlight' = {i \in Slots : Age(i) \in Gone .. used_entry_cnt + w - 1}
      /\ \A i \in InFlight' : AgeNext(i) = Age(i) - Gone
      /\ \A k \in 0 .. w - 1 : /\ FreeSlot(k) \in Slots /\ FreeSlot(k) \in InFlight' \ InFlight
                              /\ Age(FreeSlot(k)) = used_entry_cnt + k
      /\ \A i \in InFlight' : i \in InFlight \/ \E k \in 0 .. w - 1 : i = FreeSlot(k)
  BY <1>1, <1>5, <1>6, RowsMove
<1>9. ASSUME NEW l \in S
      PROVE  /\ SlotOf(g, l) = FreeSlot(Before(S, l)) /\ SlotOf(g, l) \in Slots
             /\ SlotOf(g, l) \in InFlight' \ InFlight
             /\ Age(SlotOf(g, l)) = used_entry_cnt + Before(S, l)
             /\ AgeNext(SlotOf(g, l)) = used_entry_cnt + Before(S, l) - Gone
  <2>1. SlotOf(g, l) = FreeSlot(Before(S, l)) /\ Before(S, l) \in 0 .. w - 1
    BY <1>3 DEF SlotOf
  <2>2. ASSUME NEW k \in 0 .. w - 1
        PROVE  /\ FreeSlot(k) \in Slots /\ FreeSlot(k) \in InFlight' \ InFlight
               /\ Age(FreeSlot(k)) = used_entry_cnt + k
               /\ AgeNext(FreeSlot(k)) = used_entry_cnt + k - Gone
    <3>1. FreeSlot(k) \in Slots /\ FreeSlot(k) \in InFlight' \ InFlight
          /\ Age(FreeSlot(k)) = used_entry_cnt + k
      BY <1>8
    <3>2. AgeNext(FreeSlot(k)) = Age(FreeSlot(k)) - Gone
      BY <1>8, <3>1
    <3>3. Gone \in Int /\ used_entry_cnt \in Int /\ k \in Int
      BY <1>1, <1>3, <1>4, RetiringIsPrefix
    <3>4. QED
      BY <3>1, <3>2, <3>3
  <2>3. QED
    BY <2>1, <2>2
<1>10. ASSUME NEW l \in S, NEW m \in S, SlotOf(g, l) = SlotOf(g, m) PROVE l = m
  <2>1. used_entry_cnt + Before(S, l) = used_entry_cnt + Before(S, m)
    BY <1>9, <1>10
  <2>2. Before(S, l) \in Int /\ Before(S, m) \in Int
    BY <1>3
  <2>3. QED
    BY <1>3, <1>4, <2>1, <2>2
<1>11. ASSUME NEW l \in S PROVE table'[SlotOf(g, l)] = RobRow(g, l)
  <2>1. lane(SlotOf(g, l)) = {l}
    BY <1>10
  <2>2. SlotOf(g, l) \in Slots
    BY <1>9
  <2> HIDE DEF lane
  <2>3. QED
    BY <1>7, <2>1, <2>2
<1>12. ASSUME NEW i \in InFlight', i \notin InFlight PROVE \E l \in S : i = SlotOf(g, l)
  <2>1. PICK k \in 0 .. w - 1 : i = FreeSlot(k)
    BY <1>8, <1>12
  <2>2. PICK l \in S : Before(S, l) = k
    BY <1>3
  <2>3. QED
    BY <1>9, <2>1, <2>2
<1>13. ASSUME NEW i \in InFlight PROVE i \in InFlight' <=> i \notin Retiring
  <2>1. i \in Slots /\ Age(i) < used_entry_cnt /\ Age(i) \in Nat
    BY <1>1, SlotsAndAges, AgeIsFrom DEF RobTyped, InFlight, Slots
  <2>2. Gone \in Nat /\ (i \in Retiring <=> Age(i) < Gone)
    BY <1>1, <1>4, <2>1, RetiringIsPrefix
  <2>3. QED
    BY <1>3, <1>4, <1>8, <2>1, <2>2
<1>14. ASSUME NEW i \in InFlight, i \in InFlight'
       PROVE  /\ i \in Slots
              /\ table'[i] = [table[i] EXCEPT !.wb_fin = @ \/ i \in D \cup Reported]
  <2>1. i \in Slots /\ i \notin Retiring /\ lane(i) = {}
    BY <1>9, <1>13, <1>14, Typed
  <2> HIDE DEF lane
  <2>2. QED
    BY <1>7, <2>1
<1>15. ASSUME NEW i \in InFlight, i \in InFlight'
       PROVE  /\ table'[i].uop = table[i].uop
              /\ table'[i].tag = table[i].tag
              /\ table'[i].wb_fin <=> table[i].wb_fin \/ i \in D \cup Reported
  <2>1. DOMAIN table[i] = {"uop", "tag", "wb_fin"}
    BY <1>14, <1>15, Typed
  <2>2. table'[i] = [table[i] EXCEPT !.wb_fin = table[i].wb_fin \/ i \in D \cup Reported]
    BY <1>14, <1>15
  <2>3. QED
    BY <2>1, <2>2, Zenon
<1>16. ASSUME NEW i \in Slots
       PROVE  table'[i] \in [uop : Uops \cup {NoUop}, tag : SUBSET Tags, wb_fin : BOOLEAN]
  <2>1. CASE lane(i) # {}
    <3>1. PICK l \in S : i = SlotOf(g, l)
      BY <2>1
    <3>2. table'[i] = RobRow(g, l)
      BY <1>11, <3>1
    <3>3. l \in Branches(g) => TagAfter(Before(Branches(g), l)) \in Tags
      BY <1>1, TagsSuffice
    <3>4. QED
      BY <1>2, <3>2, <3>3 DEF RobRow
  <2>2. CASE lane(i) = {} /\ (i \in Retiring \/ i \notin InFlight)
    <3>1. table'[i] = Blank
      BY <1>7, <2>2
    <3>2. QED
      BY <3>1 DEF Blank
  <2>3. CASE i \notin Retiring /\ i \in InFlight
    <3>1. table'[i] = [table[i] EXCEPT !.wb_fin = @ \/ i \in D \cup Reported]
      BY <1>13, <1>14, <2>3
    <3>2. table[i] \in [uop : Uops \cup {NoUop}, tag : SUBSET Tags, wb_fin : BOOLEAN]
      BY DEF IInv, TypeOK
    <3>3. (table[i].wb_fin \/ i \in D \cup Reported) \in BOOLEAN
      OBVIOUS
    <3>4. QED
      BY <3>1, <3>2, <3>3
  <2>4. QED
    BY <2>1, <2>2, <2>3
<1>17. QED
  BY <1>3, <1>5, <1>6, <1>9, <1>10, <1>11, <1>12, <1>13, <1>14, <1>15, <1>16, <1>8 DEF w

(* The open branches and the waiting rows after such a cycle: those that   *)
(* resolve or write back leave, the group's join.                          *)
LEMMA FlowSets ==
    ASSUME IInv, NEW g, NEW D, NEW suc, NEW issued, NEW retired,
           FlowOf(g, D, suc, issued, retired)
    PROVE  /\ Unfinished \subseteq InFlight'
           /\ Reported \subseteq Waits
           /\ D \subseteq Opened /\ \A d \in D, i \in Opened \ D : Age(d) < Age(i)
           /\ Opened \ D \subseteq InFlight'
           /\ Opened' = (Opened \ D) \cup {SlotOf(g, l) : l \in Branches(g)}
           /\ Waits \ Reported \subseteq InFlight'
           /\ Waits' = (Waits \ Reported) \cup {SlotOf(g, l) : l \in Accesses(g)}
           /\ Unfinished' = (Unfinished \ (D \cup Reported))
                              \cup {SlotOf(g, l) : l \in Valid(g)}
           /\ RowsAreWhole'
<1>1. /\ g \in Landing /\ RobTyped
      /\ D = {} \/ \E i \in Resolving : D = {i}
      /\ Opened = OpenBranches /\ Unfinished \subseteq InFlight
      /\ Opened \subseteq Unfinished /\ Waits \subseteq Unfinished
  BY Typed DEF FlowOf
<1>2. Reported \subseteq Waits
  BY DEF IInv, Placed, Holds, Reported
<1>3. /\ D \subseteq Opened
      /\ \A d \in D, i \in Opened \ D : Age(d) < Age(i)
  <2>1. \A i \in Resolving : i \in Opened /\ \A j \in Opened : Age(i) <= Age(j)
    BY <1>1 DEF Resolving
  <2>2. D \subseteq Opened
    BY <1>1, <2>1
  <2>3. \A i, j \in Opened : i # j => Age(i) # Age(j) /\ Age(i) \in Int /\ Age(j) \in Int
    BY <1>1, SlotsAndAges, AgeIsFrom DEF RobTyped, Opened, InFlight, Slots
  <2>4. ASSUME NEW d \in D, NEW i \in Opened \ D PROVE Age(d) < Age(i)
    <3>1. d \in Opened /\ d # i /\ Age(d) <= Age(i)
      BY <1>1, <2>1, <2>2
    <3>2. QED
      BY <2>3, <3>1
  <2>5. QED
    BY <2>2, <2>4
<1>4. Waits \cap Opened = {}
  <2>1. ASSUME NEW i \in Waits, i \in Opened PROVE FALSE
    <3>1. table[i].uop \in Uops /\ table[i].uop.is_branch /\ IsAccess(table[i].uop)
      BY <2>1, Typed DEF Waits, Opened
    <3>2. QED
      BY <3>1, LoadStoreAssumption DEF IsAccess
  <2>2. QED
    BY <2>1
<1>5. ASSUME NEW i \in Unfinished PROVE i \in InFlight /\ i \in InFlight' /\ ~table[i].wb_fin
  <2>1. i \in InFlight /\ ~table[i].wb_fin
    BY DEF Unfinished
  <2>2. i \notin Retiring
    BY <1>1, <2>1, RetiringIsPrefix
  <2>3. QED
    BY <2>1, <2>2, FlowRows
<1>6. ASSUME NEW i \in InFlight, i \in InFlight'
      PROVE  /\ i \in Unfinished' <=> i \in Unfinished \ (D \cup Reported)
             /\ table'[i].uop = table[i].uop
  <2>1. /\ table'[i].uop = table[i].uop
        /\ table'[i].wb_fin <=> table[i].wb_fin \/ i \in D \cup Reported
    BY <1>6, FlowRows
  <2>2. i \in Unfinished' <=> ~table'[i].wb_fin
    BY <1>6 DEF Unfinished
  <2>3. i \in Unfinished <=> ~table[i].wb_fin
    BY <1>6 DEF Unfinished
  <2>4. QED
    BY <2>1, <2>2, <2>3
<1>7. ASSUME NEW l \in Valid(g)
      PROVE  /\ SlotOf(g, l) \in Unfinished' /\ SlotOf(g, l) \in InFlight' \ InFlight
             /\ table'[SlotOf(g, l)].uop = g[l]
             /\ g[l] \in Uops
             /\ table'[SlotOf(g, l)].uop.is_branch <=> l \in Branches(g)
             /\ IsAccess(table'[SlotOf(g, l)].uop) <=> l \in Accesses(g)
  <2>1. SlotOf(g, l) \in InFlight' \ InFlight /\ table'[SlotOf(g, l)] = RobRow(g, l)
    BY FlowRows
  <2>2. RobRow(g, l).uop = g[l] /\ RobRow(g, l).wb_fin = FALSE
    BY DEF RobRow
  <2>3. /\ g[l] \in Uops /\ (g[l].is_branch <=> l \in Branches(g))
        /\ IsAccess(g[l]) <=> l \in Accesses(g)
    BY <1>1, LaneKinds
  <2>4. QED
    BY <2>1, <2>2, <2>3 DEF Unfinished
<1>8. \A i \in InFlight' : i \in InFlight \/ \E l \in Valid(g) : i = SlotOf(g, l)
  BY FlowRows
<1>9. Unfinished' = (Unfinished \ (D \cup Reported)) \cup {SlotOf(g, l) : l \in Valid(g)}
  <2>1. Unfinished' \subseteq InFlight'
    BY DEF Unfinished
  <2>2. ASSUME NEW i \in Unfinished'
        PROVE  i \in (Unfinished \ (D \cup Reported)) \cup {SlotOf(g, l) : l \in Valid(g)}
    <3>1. CASE i \in InFlight
      BY <1>6, <2>1, <3>1
    <3>2. CASE i \notin InFlight
      BY <1>8, <2>1, <3>2
    <3>3. QED
      BY <3>1, <3>2
  <2>3. Unfinished \ (D \cup Reported) \subseteq Unfinished'
    BY <1>5, <1>6
  <2>4. {SlotOf(g, l) : l \in Valid(g)} \subseteq Unfinished'
    BY <1>7
  <2>5. QED
    BY <2>2, <2>3, <2>4
<1>10. Branches(g) \subseteq Valid(g) /\ Accesses(g) \subseteq Valid(g)
  BY <1>1, LaneKinds
<1>11. Opened' = {i \in Unfinished' : table'[i].uop.is_branch}
  BY DEF Opened, Unfinished
<1>12. Opened = {i \in Unfinished : table[i].uop.is_branch}
  BY DEF Opened, Unfinished
<1>13. \A i \in Unfinished : i \in InFlight' /\ table'[i].uop = table[i].uop
  BY <1>5, <1>6
<1>14. Opened' = (Opened \ D) \cup {SlotOf(g, l) : l \in Branches(g)}
  <2>1. ASSUME NEW i \in Unfinished \ (D \cup Reported) PROVE i \in Opened' <=> i \in Opened
    BY <1>9, <1>11, <1>12, <1>13
  <2>2. ASSUME NEW l \in Valid(g) PROVE SlotOf(g, l) \in Opened' <=> l \in Branches(g)
    BY <1>7, <1>11
  <2>3. Opened' \subseteq (Opened \ D) \cup {SlotOf(g, l) : l \in Branches(g)}
    BY <1>9, <1>11, <2>1, <2>2
  <2>4. Opened \ D \subseteq Opened'
    BY <1>1, <1>2, <1>4, <2>1
  <2>5. {SlotOf(g, l) : l \in Branches(g)} \subseteq Opened'
    BY <1>10, <2>2
  <2>6. QED
    BY <2>3, <2>4, <2>5
<1>15. Waits' = (Waits \ Reported) \cup {SlotOf(g, l) : l \in Accesses(g)}
  <2>1. Waits' = {i \in Unfinished' : IsAccess(table'[i].uop)}
    BY DEF Waits, IsAccess
  <2>2. Waits = {i \in Unfinished : IsAccess(table[i].uop)} /\ D \cap Waits = {}
    BY <1>3, <1>4 DEF Waits
  <2>3. ASSUME NEW i \in Unfinished \ (D \cup Reported) PROVE i \in Waits' <=> i \in Waits
    BY <1>9, <1>13, <2>1, <2>2
  <2>4. ASSUME NEW l \in Valid(g) PROVE SlotOf(g, l) \in Waits' <=> l \in Accesses(g)
    BY <1>7, <2>1
  <2>5. Waits' \subseteq (Waits \ Reported) \cup {SlotOf(g, l) : l \in Accesses(g)}
    BY <1>9, <2>1, <2>3, <2>4
  <2>6. Waits \ Reported \subseteq Waits'
    BY <2>2, <2>3
  <2>7. {SlotOf(g, l) : l \in Accesses(g)} \subseteq Waits'
    BY <1>10, <2>4
  <2>8. QED
    BY <2>5, <2>6, <2>7
<1>16. RowsAreWhole'
  <2>1. ASSUME NEW i \in InFlight' PROVE table'[i].uop \in Uops
    <3>1. CASE i \in InFlight
      BY <1>6, <3>1 DEF IInv, RowsSound, RowsAreWhole
    <3>2. CASE i \notin InFlight
      BY <1>7, <1>8, <3>2
    <3>3. QED
      BY <3>1, <3>2
  <2>2. QED
    BY <2>1 DEF RowsAreWhole
<1>17. QED
  BY <1>1, <1>2, <1>3, <1>4, <1>5, <1>9, <1>14, <1>15, <1>16

(* The tags stay a ring, and every row stands under the tag its dispatch   *)
(* was given or, if it was here before, what is left of its own.           *)
LEMMA FlowTags ==
    ASSUME IInv, NEW g, NEW D, NEW suc, NEW issued, NEW retired,
           FlowOf(g, D, suc, issued, retired)
    PROVE  /\ RowsSound' /\ RobTyped' /\ TagsTyped' /\ alloc_ptr' \in Slots
           /\ \A i \in InFlight : i \in InFlight' => PairTag(i)' = PairTag(i) \ suc
           /\ \A i \in InFlight', l \in Accesses(g) : i = SlotOf(g, l) =>
                 PairTag(i)' = TagInForce(Before(Branches(g), l))
<1> DEFINE V == Valid(g)
           w == Cardinality(V)
           f == [l \in Branches(g) |-> Before(V, l)]
           B == {f[l] : l \in Branches(g)}
<1>1. /\ g \in Landing /\ RobSound /\ suc = UNION {table[d].tag : d \in D}
      /\ UpdateMeta(Cardinality(Branches(g)), TRUE, Cardinality(suc))
      /\ D = {} \/ (g = NoGroup /\ \E i \in Resolving : D = {i})
  BY Typed DEF FlowOf, Flow, RobSound, IInv, RowsSound
<1>2. V \in SUBSET Lanes /\ Branches(g) \in SUBSET V /\ Accesses(g) \in SUBSET V
      /\ Branches(g) \in SUBSET Lanes
  BY <1>1, LaneKinds
<1>3. /\ w \in Nat
      /\ \A l \in V : l \in Int /\ Before(V, l) \in 0 .. w - 1
      /\ \A l, m \in V : l < m <=> Before(V, l) < Before(V, m)
      /\ \A l, m \in V : Before(V, l) = Before(V, m) => l = m
  BY <1>2, LaneNumbers
<1>4. ASSUME NEW l \in V PROVE Cardinality({c \in B : c < Before(V, l)}) = Before(Branches(g), l)
  <2> DEFINE P == {m \in Branches(g) : m < l}
             h == [m \in P |-> Before(V, m)]
             C == {c \in B : c < Before(V, l)}
  <2>1. C = {h[m] : m \in P}
    BY <1>2, <1>3
  <2>2. \A x, y \in P : h[x] = h[y] => x = y
    BY <1>2, <1>3
  <2>3. DOMAIN h = P /\ h = [m \in P |-> h[m]]
    OBVIOUS
  <2>4. IsFiniteSet(P)
    BY <1>2, LaneNumbers, FS_Subset
  <2> HIDE DEF P, h, C
  <2>5. Cardinality(C) = Cardinality(P)
    BY <2>1, <2>2, <2>3, <2>4, ImageCount
  <2>6. QED
    BY <2>5 DEF P, C, Before
<1>5. Cardinality(B) = Cardinality(Branches(g))
  <2>1. \A x, y \in Branches(g) : f[x] = f[y] => x = y
    BY <1>2, <1>3
  <2>2. DOMAIN f = Branches(g) /\ f = [m \in Branches(g) |-> f[m]]
    OBVIOUS
  <2>3. IsFiniteSet(Branches(g))
    BY <1>2, LaneNumbers
  <2>4. B = {f[l] : l \in Branches(g)}
    OBVIOUS
  <2> HIDE DEF B, f
  <2>5. QED
    BY <2>1, <2>2, <2>3, <2>4, ImageCount
<1>6. Cardinality(suc) = Cardinality(D)
  <2>1. CASE D = {}
    <3>1. suc = {}
      BY <1>1, <2>1
    <3>2. QED
      BY <2>1, <3>1
  <2>2. CASE D # {}
    <3>1. PICK i \in Resolving : D = {i}
      BY <1>1, <2>2
    <3>2. i \in Opened
      BY <3>1, FlowSets
    <3>3. suc = table[i].tag
      BY <1>1, <3>1
    <3>4. PICK t \in Tags : table[i].tag = {t}
      BY <1>1, <3>2, OpenTags DEF RobSound
    <3>5. QED
      BY <3>1, <3>3, <3>4, FS_Singleton
  <2>3. QED
    BY <2>1, <2>2
<1>7. TagStep(w, D, B)
  <2>1. w \in 0 .. RobDepth - used_entry_cnt /\ Moves(w)
    BY FlowRows
  <2>2. /\ D \subseteq Opened /\ \A d \in D, i \in Opened \ D : Age(d) < Age(i)
        /\ Opened \ D \subseteq InFlight'
    BY FlowSets
  <2>3. B \subseteq 0 .. w - 1
    BY <1>2, <1>3
  <2>4. Opened' = (Opened \ D) \cup {FreeSlot(b) : b \in B}
    <3>1. {FreeSlot(b) : b \in B} = {SlotOf(g, l) : l \in Branches(g)}
      BY DEF SlotOf
    <3>2. QED
      BY <3>1, FlowSets
  <2>5. /\ Cardinality(B) <= free_tag
        /\ free_tag' = free_tag + Cardinality(D) - Cardinality(B)
        /\ next_tag' = RotateLeft(next_tag, Cardinality(B))
    <3>1. Cardinality(Branches(g)) <= free_tag
      <4>1. Cardinality(Branches(g)) \in 0 .. free_tag /\ free_tag \in Nat
        BY <1>1, TagsSuffice, OpenTags DEF RobSound
      <4>2. QED
        BY <4>1
    <3>2. /\ free_tag' = free_tag + Cardinality(suc) - Cardinality(Branches(g))
          /\ next_tag' = RotateLeft(next_tag, Cardinality(Branches(g)))
      BY <1>1 DEF UpdateMeta, TagAfter
    <3>3. QED
      BY <1>5, <1>6, <3>1, <3>2
  <2>6. \A i \in Opened \ D : table'[i].tag = table[i].tag
    <3>1. \A i \in Opened \ D : i \in InFlight /\ i \in InFlight'
      BY <2>2 DEF Opened
    <3>2. QED
      BY <3>1, FlowRows
  <2>7. ASSUME NEW b \in B
        PROVE  table'[FreeSlot(b)].tag = {RotateLeft(next_tag, Cardinality({c \in B : c < b}))}
    <3>1. PICK l \in Branches(g) : b = Before(V, l)
      OBVIOUS
    <3>2. table'[SlotOf(g, l)] = RobRow(g, l) /\ SlotOf(g, l) = FreeSlot(b)
      BY <1>2, <3>1, FlowRows DEF SlotOf
    <3>3. RobRow(g, l).tag = {RotateLeft(next_tag, Before(Branches(g), l))}
      BY DEF RobRow, TagAfter
    <3>4. Cardinality({c \in B : c < b}) = Before(Branches(g), l)
      BY <1>2, <1>4, <3>1
    <3>5. QED
      BY <3>2, <3>3, <3>4
  <2> HIDE DEF w, B
  <2>8. QED
    BY <2>1, <2>2, <2>3, <2>4, <2>5, <2>6, <2>7 DEF TagStep
<1> HIDE DEF w, B
<1>8. TagsAreRing' /\ TagsTyped'
  BY <1>1, <1>7, TagsMove
<1>9. (alloc_ptr = SlotAt(used_entry_cnt))' /\ RobTyped' /\ alloc_ptr' \in Slots
  BY <1>1, <1>7, RowsMove DEF RobSound, TagStep, RobTyped
<1>10. \A i \in InFlight : i \in InFlight' => PairTag(i)' = PairTag(i) \ suc
  BY <1>1, <1>7, PairsMove
<1>11. ASSUME NEW l \in Accesses(g), NEW i \in InFlight', i = SlotOf(g, l)
       PROVE  PairTag(i)' = TagInForce(Before(Branches(g), l))
  <2>1. D = {}
    <3>1. g # NoGroup
      BY <1>1, <1>2, LaneKinds
    <3>2. QED
      BY <1>1, <3>1
  <2>2. /\ Before(V, l) \in 0 .. w - 1 /\ SlotOf(g, l) = FreeSlot(Before(V, l))
        /\ SlotOf(g, l) \in InFlight'
    BY <1>2, <1>3, FlowRows DEF SlotOf
  <2>3. \A k \in 0 .. w - 1, r \in InFlight' : r = FreeSlot(k) =>
            PairTag(r)' = TagInForce(Cardinality({c \in B : c < k}))
    BY <1>1, <1>7, <2>1, PairsMove
  <2>4. ASSUME NEW k, k = Before(V, l)
        PROVE  PairTag(i)' = TagInForce(Before(Branches(g), l))
    <3>1. k \in 0 .. w - 1 /\ i = FreeSlot(k)
      BY <1>11, <2>2, <2>4
    <3>2. PairTag(i)' = TagInForce(Cardinality({c \in B : c < k}))
      BY <2>3, <3>1
    <3>3. Cardinality({c \in B : c < k}) = Before(Branches(g), l)
      BY <1>2, <1>4, <2>4
    <3>4. QED
      BY <3>2, <3>3
  <2>5. QED
    BY <2>4
<1>12. RowsSound'
  BY <1>8, <1>9, FlowSets DEF RowsSound
<1>13. QED
  BY <1>8, <1>9, <1>10, <1>11, <1>12

-----------------------------------------------------------------------------
(* Records under the tags.                                                 *)

(* What a resolve does to a record under way: it keeps its instruction and *)
(* row and drops the tag.                                                  *)
Drops(r, e, suc) ==
    /\ r.uop = e.uop /\ r.rob_des_idx = e.rob_des_idx
    /\ r.spec_tag = e.spec_tag \ suc /\ (r.is_spec <=> r.spec_tag # {})

(* Clearing the returned tags of a record leaves its instruction and row   *)
(* alone and its is_spec true exactly when tags remain.                    *)
LEMMA RecordResolves ==
    ASSUME NEW e \in Record, NEW suc, e.is_spec <=> e.spec_tag # {},
           NEW r, r = Resolved(e, suc)
    PROVE  r \in Record /\ Drops(r, e, suc)
<1> DEFINE left == e.spec_tag \ suc
<1>1. left \in SUBSET Tags /\ (left # {}) \in BOOLEAN
  BY DEF Record
<1>2. CASE e.is_spec
  <2>1. r = [e EXCEPT !.spec_tag = left, !.is_spec = left # {}]
    BY <1>2 DEF Resolved
  <2>2. e \in Record
    OBVIOUS
  <2> HIDE DEF left
  <2>3. ASSUME NEW c \in BOOLEAN, NEW q, q = [e EXCEPT !.spec_tag = left, !.is_spec = c]
        PROVE  /\ q \in Record /\ q.uop = e.uop /\ q.rob_des_idx = e.rob_des_idx
               /\ q.spec_tag = left /\ q.is_spec = c
    BY <1>1, <2>2, <2>3 DEF Record
  <2>4. /\ r \in Record /\ r.uop = e.uop /\ r.rob_des_idx = e.rob_des_idx
        /\ r.spec_tag = left /\ r.is_spec = (left # {})
    BY <1>1, <2>1, <2>3
  <2>5. QED
    BY <2>4, Zenon DEF left, Drops
<1>3. CASE ~e.is_spec
  <2>1. r = e /\ e.spec_tag = {}
    BY <1>3 DEF Resolved
  <2>2. QED
    BY <1>3, <2>1 DEF Drops
<1>4. QED
  BY <1>2, <1>3

(* The same of the record stage 0 hands to stage 1, which keeps its word.  *)
LEMMA ResultResolves ==
    ASSUME NEW e \in Result, NEW suc, e.is_spec <=> e.spec_tag # {},
           NEW r, r = Resolved(e, suc)
    PROVE  r \in Result /\ Drops(r, e, suc) /\ r.word = e.word
<1> DEFINE left == e.spec_tag \ suc
<1>1. left \in SUBSET Tags /\ (left # {}) \in BOOLEAN
  BY DEF Result
<1>2. CASE e.is_spec
  <2>1. r = [e EXCEPT !.spec_tag = left, !.is_spec = left # {}]
    BY <1>2 DEF Resolved
  <2>2. e \in Result
    OBVIOUS
  <2> HIDE DEF left
  <2>3. ASSUME NEW c \in BOOLEAN, NEW q, q = [e EXCEPT !.spec_tag = left, !.is_spec = c]
        PROVE  /\ q \in Result /\ q.uop = e.uop /\ q.rob_des_idx = e.rob_des_idx
               /\ q.spec_tag = left /\ q.is_spec = c /\ q.word = e.word
    BY <1>1, <2>2, <2>3 DEF Result
  <2>4. /\ r \in Result /\ r.uop = e.uop /\ r.rob_des_idx = e.rob_des_idx
        /\ r.spec_tag = left /\ r.is_spec = (left # {}) /\ r.word = e.word
    BY <1>1, <2>1, <2>3
  <2>5. QED
    BY <2>4, Zenon DEF left, Drops
<1>3. CASE ~e.is_spec
  <2>1. r = e /\ e.spec_tag = {}
    BY <1>3 DEF Resolved
  <2>2. QED
    BY <1>3, <2>1 DEF Drops
<1>4. QED
  BY <1>2, <1>3

(* The record stage 0 builds for stage 1, and the store it pushes.          *)
ResultOf(u, i, spec, t, x) ==
    [valid |-> TRUE, uop |-> u, rob_des_idx |-> i, is_spec |-> spec, spec_tag |-> t, word |-> x]

StoreRec == [is_spec : BOOLEAN, spec_tag : SUBSET Tags, mem_addr : Addrs, data : Word]
StoreOf(spec, t, a, x) == [is_spec |-> spec, spec_tag |-> t, mem_addr |-> a, data |-> x]

(* They have the fields they are built from.                               *)
IsResult(r, u, i, spec, t, x) ==
    /\ r \in Result /\ r.uop = u /\ r.rob_des_idx = i /\ r.word = x
    /\ r.spec_tag = t /\ r.is_spec = spec

IsStore(r, spec, t, a, x) ==
    /\ r \in StoreRec /\ r.mem_addr = a /\ r.data = x
    /\ r.spec_tag = t /\ r.is_spec = spec

(* Records built from typed fields have those types and fields.            *)
LEMMA RecordsMade ==
    ASSUME NEW spec \in BOOLEAN, NEW t \in SUBSET Tags, NEW x \in Word
    PROVE  /\ \A u \in Uops, i \in Slots :
                 IsResult(ResultOf(u, i, spec, t, x), u, i, spec, t, x)
           /\ \A a \in Addrs : IsStore(StoreOf(spec, t, a, x), spec, t, a, x)
<1>1. ASSUME NEW u \in Uops, NEW i \in Slots, NEW r, r = ResultOf(u, i, spec, t, x)
      PROVE  IsResult(r, u, i, spec, t, x)
  BY <1>1 DEF ResultOf, Result, IsResult
<1>2. ASSUME NEW a \in Addrs, NEW r, r = StoreOf(spec, t, a, x)
      PROVE  IsStore(r, spec, t, a, x)
  BY <1>2 DEF StoreOf, StoreRec, IsStore
<1>3. QED
  BY <1>1, <1>2

(* The row of a store as it enters the buffer.                             *)
LEMMA StoreResolves ==
    ASSUME NEW e \in StoreRec, NEW suc, e.is_spec <=> e.spec_tag # {},
           NEW r, r = StoreRow(Resolved(e, suc))
    PROVE  /\ r \in BufRow
           /\ r.busy /\ ~r.complete /\ r.mem_addr = e.mem_addr /\ r.data = e.data
           /\ r.spec_tag = e.spec_tag \ suc /\ (r.is_spec <=> r.spec_tag # {})
<1> DEFINE left == e.spec_tag \ suc
           s == Resolved(e, suc)
<1>1. left \in SUBSET Tags /\ (left # {}) \in BOOLEAN
  BY DEF StoreRec
<1>2. /\ s \in StoreRec /\ s.mem_addr = e.mem_addr /\ s.data = e.data
      /\ s.spec_tag = left /\ (s.is_spec <=> s.spec_tag # {})
  <2>1. CASE e.is_spec
    <3>1. s = [e EXCEPT !.spec_tag = left, !.is_spec = left # {}]
      BY <2>1 DEF Resolved
    <3> HIDE DEF left, s
    <3>2. ASSUME NEW c \in BOOLEAN, NEW q, q = [e EXCEPT !.spec_tag = left, !.is_spec = c]
          PROVE  /\ q \in StoreRec /\ q.mem_addr = e.mem_addr /\ q.data = e.data
                 /\ q.spec_tag = left /\ q.is_spec = c
      <4>1. e \in StoreRec
        OBVIOUS
      <4>2. QED
        BY <1>1, <3>2, <4>1 DEF StoreRec
    <3>3. /\ s \in StoreRec /\ s.mem_addr = e.mem_addr /\ s.data = e.data
          /\ s.spec_tag = left /\ s.is_spec = (left # {})
      BY <1>1, <3>1, <3>2
    <3>4. QED
      BY <3>3, Zenon
  <2>2. CASE ~e.is_spec
    <3>1. s = e /\ e.spec_tag = {} /\ left = {}
      BY <2>2 DEF Resolved
    <3> HIDE DEF left, s
    <3>2. QED
      BY <2>2, <3>1
  <2>3. QED
    BY <2>1, <2>2
<1>3. r = StoreRow(s)
  OBVIOUS
<1> HIDE DEF s, left
<1>4. /\ r \in BufRow /\ r.busy = TRUE /\ r.complete = FALSE /\ r.mem_addr = s.mem_addr
      /\ r.data = s.data /\ r.spec_tag = s.spec_tag /\ r.is_spec = s.is_spec
  <2>1. ASSUME NEW z \in StoreRec, NEW q, q = StoreRow(z)
        PROVE  /\ q \in BufRow /\ q.busy = TRUE /\ q.complete = FALSE /\ q.mem_addr = z.mem_addr
               /\ q.data = z.data /\ q.spec_tag = z.spec_tag /\ q.is_spec = z.is_spec
    BY <2>1 DEF StoreRec, StoreRow, BufRow
  <2>2. QED
    BY <1>2, <1>3, <2>1
<1>5. QED
  BY <1>2, <1>4, Zenon DEF left

(* A row of the buffer keeps its address and word and drops the tag.       *)
Stays(r, e, suc) ==
    /\ r \in BufRow /\ r.busy /\ r.mem_addr = e.mem_addr /\ r.data = e.data
    /\ r.spec_tag = e.spec_tag \ suc /\ (r.is_spec <=> r.spec_tag # {})

(* The row as BufUpdate writes it.                                         *)
Completes(e, suc, now) == [Resolved(e, suc) EXCEPT !.complete = @ \/ now]

(* A buffered store that stays keeps its address and word and what is left *)
(* of its pair, and is complete once the ROB retires it.                   *)
LEMMA StoreStays ==
    ASSUME NEW e \in BufRow, NEW suc, e.is_spec <=> e.spec_tag # {}, NEW now \in BOOLEAN,
           NEW r, r = Completes(e, suc, now)
    PROVE  Stays(r, e, suc) /\ (r.complete <=> e.complete \/ now)
<1> DEFINE left == e.spec_tag \ suc
           s == Resolved(e, suc)
<1>1. left \in SUBSET Tags /\ (left # {}) \in BOOLEAN
  BY DEF BufRow
<1>2. /\ s \in BufRow
      /\ s.mem_addr = e.mem_addr /\ s.data = e.data /\ s.complete = e.complete
      /\ s.spec_tag = left /\ (s.is_spec <=> s.spec_tag # {})
  <2>1. CASE e.is_spec
    <3>1. s = [e EXCEPT !.spec_tag = left, !.is_spec = left # {}]
      BY <2>1 DEF Resolved
    <3> HIDE DEF left, s
    <3>2. ASSUME NEW c \in BOOLEAN, NEW q, q = [e EXCEPT !.spec_tag = left, !.is_spec = c]
          PROVE  /\ q \in BufRow /\ q.mem_addr = e.mem_addr /\ q.data = e.data
                 /\ q.complete = e.complete /\ q.spec_tag = left /\ q.is_spec = c
      <4>1. e \in BufRow
        OBVIOUS
      <4>2. QED
        BY <1>1, <3>2, <4>1 DEF BufRow
    <3>3. /\ s \in BufRow /\ s.mem_addr = e.mem_addr /\ s.data = e.data
          /\ s.complete = e.complete /\ s.spec_tag = left /\ s.is_spec = (left # {})
      BY <1>1, <3>1, <3>2
    <3>4. QED
      BY <3>3, Zenon
  <2>2. CASE ~e.is_spec
    <3>1. s = e /\ e.spec_tag = {} /\ left = {}
      BY <2>2 DEF Resolved
    <3> HIDE DEF left, s
    <3>2. QED
      BY <2>2, <3>1
  <2>3. QED
    BY <2>1, <2>2
<1>3. r = [s EXCEPT !.complete = s.complete \/ now]
  BY DEF Completes
<1> HIDE DEF s, left
<1>4. s.complete \in BOOLEAN /\ (s.complete \/ now) \in BOOLEAN
  BY <1>2 DEF BufRow
<1>5. ASSUME NEW c \in BOOLEAN, NEW q, q = [s EXCEPT !.complete = c]
      PROVE  /\ q \in BufRow /\ q.busy /\ q.mem_addr = s.mem_addr /\ q.data = s.data
             /\ q.complete = c /\ q.spec_tag = s.spec_tag /\ q.is_spec = s.is_spec
  <2>1. s \in BufRow
    BY <1>2
  <2>2. QED
    BY <1>5, <2>1 DEF BufRow
<1>6. /\ r \in BufRow /\ r.busy /\ r.mem_addr = s.mem_addr /\ r.data = s.data
      /\ r.complete = (s.complete \/ now) /\ r.spec_tag = s.spec_tag /\ r.is_spec = s.is_spec
  BY <1>3, <1>4, <1>5
<1>7. QED
  BY <1>2, <1>6, Zenon DEF left, Stays

(* The pair the pool answers a lane is a pair.                             *)
LEMMA PairsAnswered ==
    ASSUME IInv, NEW g \in Landing, NEW l \in Valid(g),
           NEW n, n = Before(Branches(g), l)
    PROVE  /\ TagInForce(n) \in SUBSET Tags /\ IsSpec(n) \in BOOLEAN
           /\ IsSpec(n) <=> TagInForce(n) # {}
<1>1. /\ SpTagLen \in Nat \ {0} /\ next_tag \in Tags /\ free_tag \in 0 .. SpTagLen - 1
  BY Typed, SpTagLenAssumption DEF TagsTyped
<1>2. n \in Nat /\ n <= free_tag
  <2>1. Branches(g) \in SUBSET Lanes /\ l \in Lanes /\ Valid(g) \in SUBSET Lanes
    BY LaneKinds
  <2>2. IsFiniteSet(Branches(g)) /\ (\A x \in Branches(g) : x \in Int) /\ l \in Int
    <3>1. \A x \in Lanes : x \in Int
      BY DEF Lanes
    <3>2. QED
      BY <2>1, <3>1, LaneNumbers
  <2>3. n \in 0 .. Cardinality(Branches(g)) /\ Cardinality(Branches(g)) \in Nat
    BY <2>2, Numbering DEF Before
  <2>4. Cardinality(Branches(g)) \in 0 .. free_tag
    BY TagsSuffice
  <2>5. QED
    BY <1>1, <2>3, <2>4
<1>3. CASE n = 0
  <2>1. TagInForce(n) = LastTag /\ (IsSpec(n) <=> Outstanding)
    BY <1>3 DEF TagInForce, IsSpec
  <2>2. CASE Outstanding
    <3>1. LastTag = {RotateRight(next_tag, 1)}
      BY <2>2 DEF LastTag
    <3>2. RotateRight(next_tag, 1) \in Tags
      BY <1>1, <2>2 DEF Outstanding, RotateRight, Tags
    <3>3. QED
      BY <2>1, <2>2, <3>1, <3>2
  <2>3. CASE ~Outstanding
    <3>1. LastTag = {}
      BY <2>3 DEF LastTag
    <3>2. TagInForce(n) = {} /\ ~IsSpec(n)
      BY <2>1, <2>3, <3>1
    <3>3. QED
      BY <3>2, Zenon DEF IsSpec
  <2>4. QED
    BY <2>2, <2>3
<1>4. CASE n # 0
  <2>1. TagInForce(n) = {RotateLeft(next_tag, n - 1)} /\ IsSpec(n)
    BY <1>2, <1>4 DEF TagInForce, IsSpec, TagAfter
  <2>2. RotateLeft(next_tag, n - 1) \in Tags
    BY <1>1, <1>2, <1>4 DEF RotateLeft, Tags
  <2>3. QED
    BY <2>1, <2>2
<1>5. QED
  BY <1>3, <1>4

(* A lane's entry lands with its instruction, row and pair.                *)
LEMMA EntryLands ==
    ASSUME IInv, NEW g \in Landing, NEW l \in Accesses(g), SlotOf(g, l) \in Slots,
           NEW e, e = Entry(g, l)
    PROVE  /\ e \in Record /\ e.valid
           /\ e.uop = g[l] /\ e.rob_des_idx = SlotOf(g, l)
           /\ e.spec_tag = TagInForce(Before(Branches(g), l))
           /\ e.is_spec <=> e.spec_tag # {}
<1> DEFINE n == Before(Branches(g), l)
<1>1. l \in Valid(g) /\ g[l] \in Uops
  BY LaneKinds
<1>2. /\ TagInForce(n) \in SUBSET Tags /\ IsSpec(n) \in BOOLEAN
      /\ IsSpec(n) <=> TagInForce(n) # {}
  BY <1>1, PairsAnswered
<1>3. e = [valid |-> TRUE, uop |-> g[l], rob_des_idx |-> SlotOf(g, l),
           is_spec |-> IsSpec(n), spec_tag |-> TagInForce(n)]
  BY DEF Entry, SlotOf
<1> HIDE DEF n
<1>4. e \in Record
  BY <1>1, <1>2, <1>3 DEF Record
<1>5. /\ e.valid /\ e.uop = g[l] /\ e.rob_des_idx = SlotOf(g, l)
      /\ e.spec_tag = TagInForce(n) /\ e.is_spec = IsSpec(n)
  BY <1>3
<1>6. QED
  BY <1>2, <1>4, <1>5, Zenon DEF n

-----------------------------------------------------------------------------
(* The station in such a cycle.                                            *)

(* The entries that do not issue, and a slot's distance from the new head. *)
Left(issued) == {k \in Waiting : ~(issued /\ k = rsv_head)}
RsvPosNext(k) == RingDist(RsvSize, rsv_head', k)

One(event) == IF event THEN 1 ELSE 0

(* What the head issues is the first of the run.                           *)
LEMMA FlowRun ==
    ASSUME IInv, NEW g, NEW D, NEW suc, NEW issued, NEW retired,
           FlowOf(g, D, suc, issued, retired), NEW n, StationRun(n),
           NEW w, w = Cardinality(Accesses(g)), NEW e, e = One(issued)
    PROVE  /\ e \in 0 .. 1 /\ (e = 1 <=> issued) /\ issued \in BOOLEAN
           /\ n \in 0 .. RsvSize /\ e <= n /\ w \in 0 .. RsvSize - n
           /\ rsv_head' = RingSlot(RsvSize, rsv_head, e)
           /\ rsv_alloc' = RingSlot(RsvSize, rsv_alloc, w)
           /\ rsv_alloc = RingSlot(RsvSize, rsv_head, n)
           /\ Waiting = Run(RsvSize, rsv_head, n)
           /\ issued => MayIssue
<1>1. /\ g \in Landing /\ issued \in {FALSE, MayIssue} /\ RsvUpdate(Entries(g), issued, suc)
      /\ rsv_head \in RsvSlots /\ RsvSize \in Nat \ {0} /\ rsv_head \in 0 .. RsvSize - 1
  BY Typed DEF FlowOf, Flow
<1>2. /\ n \in 0 .. RsvSize /\ Waiting = Run(RsvSize, rsv_head, n)
      /\ rsv_alloc = RingSlot(RsvSize, rsv_head, n)
  BY DEF StationRun
<1>3. w \in 0 .. RsvSize - n /\ Len(Entries(g)) = w
  BY <1>1, EntriesOfLanes
<1>4. e \in 0 .. 1 /\ (e = 1 <=> issued) /\ (issued => MayIssue)
  <2>1. issued => MayIssue
    BY <1>1
  <2>2. issued => e = 1
    BY DEF One
  <2>3. ~issued => e = 0
    BY DEF One
  <2>4. e = 0 => e # 1
    OBVIOUS
  <2>5. e \in 0 .. 1
    BY <2>2, <2>3
  <2>6. e = 1 <=> issued
    BY <2>2, <2>3, <2>4, Zenon
  <2>7. QED
    BY <2>1, <2>5, <2>6, Zenon
<1>5. issued \in BOOLEAN
  BY <1>1 DEF MayIssue
<1>6. e <= n
  <2>1. CASE issued
    <3>1. rsv_head \in Run(RsvSize, rsv_head, n)
      BY <1>2, <1>4, <2>1 DEF MayIssue
    <3>2. RingDist(RsvSize, rsv_head, rsv_head) = 0
      BY <1>1, RingOneToOne
    <3>3. QED
      BY <1>2, <1>4, <3>1, <3>2 DEF Run
  <2>2. CASE ~issued
    BY <1>2, <1>4, <2>2
  <2>3. QED
    BY <2>1, <2>2
<1>7. rsv_head' = RingSlot(RsvSize, rsv_head, e)
  <2>1. CASE issued
    BY <1>1, <1>4, <2>1 DEF RsvUpdate, RingSlot
  <2>2. CASE ~issued
    <3>1. rsv_head' = rsv_head /\ e = 0
      BY <1>1, <1>4, <2>2 DEF RsvUpdate
    <3>2. QED
      BY <1>1, <3>1, RingOneToOne
  <2>3. QED
    BY <2>1, <2>2
<1>8. rsv_alloc' = RingSlot(RsvSize, rsv_alloc, w)
  BY <1>1, <1>3 DEF RsvUpdate, RingSlot
<1>9. QED
  BY <1>2, <1>3, <1>4, <1>5, <1>6, <1>7, <1>8

(* The station stays a run: what does not issue keeps its slot and loses   *)
(* the tags that resolve, and the group's accesses stand behind it.        *)
LEMMA FlowStation ==
    ASSUME IInv, NEW g, NEW D, NEW suc, NEW issued, NEW retired,
           FlowOf(g, D, suc, issued, retired), NEW n, StationRun(n),
           NEW w, w = Cardinality(Accesses(g)), NEW e, e = One(issued)
    PROVE  /\ n - e + w \in 0 .. RsvSize /\ StationRun(n - e + w)'
           /\ rsv_alloc' \in RsvSlots /\ rsv_head' \in RsvSlots
           /\ rsv' \in [RsvSlots -> Record \cup {NoEntry}]
           /\ Waiting' = Left(issued) \cup {Port(g, l) : l \in Accesses(g)}
           /\ \A k \in Left(issued) : /\ rsv'[k] = Resolved(rsv[k], suc)
                                      /\ RsvPosNext(k) = RsvPos(k) - e
                                      /\ RsvPos(k) \in 0 .. n - 1
           /\ \A l \in Accesses(g) :
                 /\ Port(g, l) \notin Waiting /\ rsv'[Port(g, l)] = Entry(g, l)
                 /\ RsvPosNext(Port(g, l)) = n + Before(Accesses(g), l) - e
                 /\ Before(Accesses(g), l) \in 0 .. w - 1
           /\ issued => /\ rsv_head \in Waiting /\ RsvPos(rsv_head) = 0
                        /\ \A k \in Left(issued) : RsvPos(rsv_head) < RsvPos(k)
<1> DEFINE A == Accesses(g)
           num(l) == Before(A, l)
           m == n - e + w
<1>1. /\ e \in 0 .. 1 /\ (e = 1 <=> issued) /\ issued \in BOOLEAN
      /\ n \in 0 .. RsvSize /\ e <= n /\ w \in 0 .. RsvSize - n
      /\ rsv_head' = RingSlot(RsvSize, rsv_head, e)
      /\ rsv_alloc' = RingSlot(RsvSize, rsv_alloc, w)
      /\ rsv_alloc = RingSlot(RsvSize, rsv_head, n)
      /\ Waiting = Run(RsvSize, rsv_head, n)
      /\ issued => MayIssue
  BY FlowRun
<1>2. /\ g \in Landing /\ RsvUpdate(Entries(g), issued, suc)
      /\ RsvSize \in Nat \ {0} /\ rsv_head \in 0 .. RsvSize - 1 /\ rsv_head \in RsvSlots
      /\ RsvSlots = 0 .. RsvSize - 1 /\ Waiting \subseteq RsvSlots
  BY Typed DEF FlowOf, Flow
<1>3. /\ DOMAIN Entries(g) = 1 .. w
      /\ \A l \in A : num(l) \in 0 .. w - 1 /\ Entries(g)[1 + num(l)] = Entry(g, l)
      /\ \A k \in 0 .. w - 1 : \E l \in A : num(l) = k
  BY <1>2, EntriesOfLanes
<1>4. /\ rsv_head' \in RsvSlots /\ rsv_alloc \in RsvSlots /\ m \in 0 .. RsvSize
      /\ \A k \in RsvSlots : k \in Run(RsvSize, rsv_head', m) <=>
            \/ k \in Waiting /\ ~(e = 1 /\ k = rsv_head)
            \/ RingDist(RsvSize, rsv_alloc, k) < w
      /\ \A k \in Waiting :
            /\ ~(RingDist(RsvSize, rsv_alloc, k) < w)
            /\ ~(e = 1 /\ k = rsv_head) => RsvPosNext(k) = RsvPos(k) - e
      /\ \A d \in 0 .. w - 1 :
            /\ RingSlot(RsvSize, rsv_alloc, d) \in RsvSlots
            /\ RingSlot(RsvSize, rsv_alloc, d) \notin Waiting
            /\ RsvPosNext(RingSlot(RsvSize, rsv_alloc, d)) = n + d - e
            /\ RingDist(RsvSize, rsv_alloc, RingSlot(RsvSize, rsv_alloc, d)) = d
      /\ RingSlot(RsvSize, rsv_alloc, w) = RingSlot(RsvSize, rsv_head', m)
  <2>1. ASSUME NEW h, h = rsv_head', NEW a, a = rsv_alloc
        PROVE  /\ h \in 0 .. RsvSize - 1 /\ a \in 0 .. RsvSize - 1 /\ m \in 0 .. RsvSize
               /\ \A k \in 0 .. RsvSize - 1 : k \in Run(RsvSize, h, m) <=>
                     \/ k \in Waiting /\ ~(e = 1 /\ k = rsv_head)
                     \/ RingDist(RsvSize, a, k) < w
               /\ \A k \in Waiting :
                     /\ ~(RingDist(RsvSize, a, k) < w)
                     /\ ~(e = 1 /\ k = rsv_head) =>
                           RingDist(RsvSize, h, k) = RingDist(RsvSize, rsv_head, k) - e
               /\ \A d \in 0 .. w - 1 :
                     /\ RingSlot(RsvSize, a, d) \in 0 .. RsvSize - 1
                     /\ RingSlot(RsvSize, a, d) \notin Waiting
                     /\ RingDist(RsvSize, h, RingSlot(RsvSize, a, d)) = n + d - e
                     /\ RingDist(RsvSize, a, RingSlot(RsvSize, a, d)) = d
               /\ RingSlot(RsvSize, a, w) = RingSlot(RsvSize, h, m)
    <3>1. h = RingSlot(RsvSize, rsv_head, e) /\ a = RingSlot(RsvSize, rsv_head, n)
      BY <1>1, <2>1
    <3>2. RunMoved(RsvSize, rsv_head, n, w, e, h, a)
      <4>1. RsvSize \in Nat \ {0} /\ rsv_head \in 0 .. RsvSize - 1
        BY <1>2
      <4>2. n \in 0 .. RsvSize /\ w \in 0 .. RsvSize - n /\ e \in 0 .. 1 /\ e <= n
        BY <1>1
      <4>3. QED
        BY <3>1, <4>1, <4>2, RunMoves
    <3>3. QED
      BY <1>1, <3>2 DEF RunMoved
  <2>2. QED
    BY <1>2, <2>1 DEF RsvPosNext, RsvPos
<1>5. ASSUME NEW k \in RsvSlots
      PROVE  rsv'[k] = IF RingDist(RsvSize, rsv_alloc, k) < w
                         THEN Entries(g)[1 + RingDist(RsvSize, rsv_alloc, k)]
                       ELSE IF k \in Left(issued) THEN Resolved(rsv[k], suc)
                       ELSE NoEntry
  <2>1. RingDist(RsvSize, rsv_alloc, k) \in Nat
    <3>1. RsvSize \in Nat \ {0} /\ rsv_alloc \in 0 .. RsvSize - 1 /\ k \in 0 .. RsvSize - 1
      BY <1>2, <1>4
    <3>2. QED
      BY <3>1, RingThere
  <2>2. 1 + RingDist(RsvSize, rsv_alloc, k) \in DOMAIN Entries(g)
           <=> RingDist(RsvSize, rsv_alloc, k) < w
    BY <1>1, <1>3, <2>1
  <2>3. rsv'[k] = IF 1 + RingDist(RsvSize, rsv_alloc, k) \in DOMAIN Entries(g)
                    THEN Entries(g)[1 + RingDist(RsvSize, rsv_alloc, k)]
                  ELSE IF k \in Left(issued) THEN Resolved(rsv[k], suc)
                  ELSE NoEntry
    BY <1>2 DEF RsvUpdate, RingDist, Left
  <2>4. QED
    BY <2>2, <2>3
<1>6. ASSUME NEW k \in Left(issued)
      PROVE  /\ k \in Waiting /\ ~(e = 1 /\ k = rsv_head) /\ rsv'[k] = Resolved(rsv[k], suc)
             /\ RsvPosNext(k) = RsvPos(k) - e /\ RsvPos(k) \in 0 .. n - 1
             /\ rsv'[k] \in Record
  <2>1. k \in Waiting /\ ~(e = 1 /\ k = rsv_head) /\ k \in RsvSlots
    BY <1>1, <1>2 DEF Left
  <2>2. ~(RingDist(RsvSize, rsv_alloc, k) < w) /\ RsvPosNext(k) = RsvPos(k) - e
    BY <1>4, <2>1
  <2>3. rsv'[k] = Resolved(rsv[k], suc)
    BY <1>5, <2>1, <2>2
  <2>4. RsvPos(k) \in 0 .. n - 1
    <3>1. RingDist(RsvSize, rsv_head, k) < n
      BY <1>1, <2>1 DEF Run
    <3>2. RingDist(RsvSize, rsv_head, k) \in Nat
      BY <1>2, <2>1, RingOneToOne
    <3>3. QED
      BY <1>1, <3>1, <3>2 DEF RsvPos
  <2>5. rsv'[k] \in Record
    <3>1. rsv[k] \in Record /\ (rsv[k].is_spec <=> rsv[k].spec_tag # {})
      BY <2>1, RecordsTyped DEF IInv, PairsSound, Follows
    <3>2. QED
      BY <2>3, <3>1, RecordResolves
  <2>6. QED
    BY <2>1, <2>2, <2>3, <2>4, <2>5
<1>7. ASSUME NEW l \in A
      PROVE  /\ Port(g, l) \in RsvSlots /\ Port(g, l) \notin Waiting
             /\ rsv'[Port(g, l)] = Entry(g, l)
             /\ RsvPosNext(Port(g, l)) = n + num(l) - e
             /\ num(l) \in 0 .. w - 1
             /\ RingDist(RsvSize, rsv_alloc, Port(g, l)) = num(l)
             /\ Entry(g, l) \in Record
  <2>1. num(l) \in 0 .. w - 1 /\ Port(g, l) = RingSlot(RsvSize, rsv_alloc, num(l))
    BY <1>3 DEF Port
  <2>2. /\ Port(g, l) \in RsvSlots /\ Port(g, l) \notin Waiting
        /\ RsvPosNext(Port(g, l)) = n + num(l) - e
        /\ RingDist(RsvSize, rsv_alloc, Port(g, l)) = num(l)
    BY <1>4, <2>1
  <2>3. num(l) < w
    BY <1>1, <2>1
  <2>4. rsv'[Port(g, l)] = Entry(g, l)
    BY <1>3, <1>5, <2>2, <2>3
  <2>5. Entry(g, l) \in Record
    <3>1. l \in Valid(g) /\ SlotOf(g, l) \in InFlight'
      BY <1>2, LaneKinds, FlowRows
    <3>2. SlotOf(g, l) \in Slots
      BY <3>1 DEF InFlight
    <3>3. QED
      BY <1>2, <3>2, EntryLands
  <2>6. QED
    BY <2>1, <2>2, <2>4, <2>5
<1>8. ASSUME NEW k \in RsvSlots, RingDist(RsvSize, rsv_alloc, k) < w
      PROVE  \E l \in A : k = Port(g, l)
  <2>1. RingDist(RsvSize, rsv_alloc, k) \in 0 .. w - 1
        /\ RingSlot(RsvSize, rsv_alloc, RingDist(RsvSize, rsv_alloc, k)) = k
    <3>1. RsvSize \in Nat \ {0} /\ rsv_alloc \in 0 .. RsvSize - 1 /\ k \in 0 .. RsvSize - 1
      BY <1>2, <1>4
    <3>2. RingDist(RsvSize, rsv_alloc, k) \in Nat
          /\ RingSlot(RsvSize, rsv_alloc, RingDist(RsvSize, rsv_alloc, k)) = k
      BY <3>1, RingThere
    <3>3. QED
      BY <1>1, <1>8, <3>2
  <2>2. PICK l \in A : num(l) = RingDist(RsvSize, rsv_alloc, k)
    BY <1>3, <2>1
  <2>3. QED
    BY <2>1, <2>2 DEF Port
<1>9. ASSUME NEW k \in RsvSlots
      PROVE  /\ rsv'[k] \in Record \cup {NoEntry}
             /\ rsv'[k].valid <=> k \in Run(RsvSize, rsv_head', m)
             /\ k \in Run(RsvSize, rsv_head', m)
                   <=> k \in Left(issued) \cup {Port(g, l) : l \in A}
  <2>1. k \in Left(issued) <=> k \in Waiting /\ ~(e = 1 /\ k = rsv_head)
    BY <1>1 DEF Left
  <2>2. k \in {Port(g, l) : l \in A} <=> RingDist(RsvSize, rsv_alloc, k) < w
    <3>1. ASSUME NEW l \in A, k = Port(g, l) PROVE RingDist(RsvSize, rsv_alloc, k) < w
      BY <1>1, <1>7, <3>1
    <3>2. QED
      BY <1>8, <3>1
  <2>3. k \in Run(RsvSize, rsv_head', m) <=> k \in Left(issued) \cup {Port(g, l) : l \in A}
    BY <1>4, <2>1, <2>2
  <2>4. \A r \in Record : r.valid
    BY DEF Record
  <2>5. CASE k \in Left(issued) \cup {Port(g, l) : l \in A}
    <3>1. rsv'[k] \in Record
      BY <1>6, <1>7, <2>5
    <3>2. QED
      BY <2>3, <2>4, <2>5, <3>1
  <2>6. CASE k \notin Left(issued) \cup {Port(g, l) : l \in A}
    <3>1. rsv'[k] = NoEntry
      BY <1>5, <2>2, <2>6
    <3>2. rsv'[k].valid = FALSE
      BY <3>1 DEF NoEntry
    <3>3. QED
      BY <2>3, <2>6, <3>1, <3>2
  <2>7. QED
    BY <2>5, <2>6
<1>10. rsv' \in [RsvSlots -> Record \cup {NoEntry}]
  <2>1. DOMAIN rsv' = RsvSlots /\ rsv' = [k \in RsvSlots |-> rsv'[k]]
    BY <1>2 DEF RsvUpdate
  <2>2. QED
    BY <1>9, <2>1
<1>11. /\ Waiting' = Run(RsvSize, rsv_head', m)
       /\ Waiting' = Left(issued) \cup {Port(g, l) : l \in A}
  <2>1. Waiting' = {k \in RsvSlots : rsv'[k].valid}
    BY DEF Waiting
  <2>2. Run(RsvSize, rsv_head', m) \subseteq RsvSlots
    BY <1>2 DEF Run
  <2>3. Left(issued) \cup {Port(g, l) : l \in A} \subseteq RsvSlots
    BY <1>2, <1>7 DEF Left
  <2>4. QED
    BY <1>9, <2>1, <2>2, <2>3
<1>12. rsv_alloc' = RingSlot(RsvSize, rsv_head', m) /\ rsv_alloc' \in RsvSlots
  <2>1. rsv_alloc' = RingSlot(RsvSize, rsv_head', m)
    BY <1>1, <1>4
  <2>2. ASSUME NEW h \in 0 .. RsvSize - 1 PROVE RingSlot(RsvSize, h, m) \in 0 .. RsvSize - 1
    BY <1>2, <1>4, RingMoves
  <2>3. QED
    BY <1>2, <1>4, <2>1, <2>2
<1>13. StationRun(m)'
  BY <1>4, <1>11, <1>12 DEF StationRun
<1>14. issued => /\ rsv_head \in Waiting /\ RsvPos(rsv_head) = 0
                 /\ \A k \in Left(issued) : RsvPos(rsv_head) < RsvPos(k)
  <2>1. SUFFICES ASSUME issued
                 PROVE  /\ rsv_head \in Waiting /\ RsvPos(rsv_head) = 0
                        /\ \A k \in Left(issued) : RsvPos(rsv_head) < RsvPos(k)
    OBVIOUS
  <2>2. rsv_head \in Waiting /\ RsvPos(rsv_head) = 0
    BY <1>1, <1>2, <2>1, RingOneToOne DEF MayIssue, RsvPos
  <2>3. ASSUME NEW k \in Left(issued) PROVE RsvPos(rsv_head) < RsvPos(k)
    <3>1. k # rsv_head
      BY <2>1 DEF Left
    <3>2. k \in 0 .. RsvSize - 1 /\ RsvPos(k) \in 0 .. n - 1
      BY <1>2, <1>6
    <3>4. RsvPos(k) # 0
      BY <1>2, <3>1, <3>2, RingThere DEF RsvPos
    <3>5. QED
      BY <1>1, <2>2, <3>2, <3>4
  <2>4. QED
    BY <2>2, <2>3
<1> HIDE DEF m
<1>15. QED
  BY <1>4, <1>6, <1>7, <1>10, <1>11, <1>12, <1>13, <1>14 DEF m

-----------------------------------------------------------------------------
(* The word stage 0 sees, and the two stages in such a cycle.              *)

(* In a run that may wrap, slots below its end come after the others, and  *)
(* on each side of the wrap slots come in the order of their numbers.      *)
LEMMA RingWraps ==
    ASSUME NEW N \in Nat \ {0}, NEW b \in 0 .. N - 1, NEW n \in 0 .. N,
           NEW a, a = RingSlot(N, b, n),
           NEW i \in Run(N, b, n), NEW j \in Run(N, b, n)
    PROVE  /\ i < a /\ ~(j < a) => RingDist(N, b, j) <= RingDist(N, b, i)
           /\ i < a /\ j < a /\ j <= i => RingDist(N, b, j) <= RingDist(N, b, i)
           /\ ~(i < a) /\ ~(j < a) /\ j <= i => RingDist(N, b, j) <= RingDist(N, b, i)
<1>1. ASSUME NEW k \in 0 .. N - 1
      PROVE  RingDist(N, b, k) = IF k >= b THEN k - b ELSE k - b + N
  BY DEF RingDist
<1>2. a = IF b + n < N THEN b + n ELSE b + n - N
  BY DEF RingSlot
<1>3. i \in 0 .. N - 1 /\ j \in 0 .. N - 1 /\ RingDist(N, b, i) < n /\ RingDist(N, b, j) < n
  BY DEF Run
<1>4. /\ RingDist(N, b, i) = IF i >= b THEN i - b ELSE i - b + N
      /\ RingDist(N, b, j) = IF j >= b THEN j - b ELSE j - b + N
  BY <1>1, <1>3
<1>5. QED
  BY <1>2, <1>3, <1>4

(* A search that hits answers the youngest store to the address: the one   *)
(* furthest from the head, wherever the ring wraps.                        *)
LEMMA NewestIsLast ==
    ASSUME IInv, NEW addr, SearchHit(addr)
    PROVE  \E k \in Matches(addr) : /\ Newest(addr) = buf[k].data
                                    /\ \A j \in Matches(addr) : BufPos(j) <= BufPos(k)
<1> DEFINE M == Matches(addr)
           post_wrap == {i \in M : i < buf_alloc}
           S == IF post_wrap # {} THEN post_wrap ELSE M
<1>1. PICK cnt \in 0 .. BufDepth : Busy = Run(BufDepth, buf_ret, cnt)
                                   /\ buf_alloc = RingSlot(BufDepth, buf_ret, cnt)
  BY DEF IInv, Buffered, BufferRun
<1>2. /\ BufDepth \in Nat \ {0} /\ buf_ret \in 0 .. BufDepth - 1 /\ M \subseteq Busy
      /\ Busy \subseteq 0 .. BufDepth - 1
  BY Typed DEF Matches
<1>3. IsFiniteSet(M) /\ \A i \in M : i \in Int
  <2>1. IsFiniteSet(0 .. BufDepth - 1)
    BY <1>2, FS_Interval
  <2>2. M \subseteq 0 .. BufDepth - 1
    BY <1>2
  <2>3. \A i \in 0 .. BufDepth - 1 : i \in Int
    OBVIOUS
  <2> HIDE DEF M
  <2>4. IsFiniteSet(M)
    BY <2>1, <2>2, FS_Subset
  <2>5. QED
    BY <2>2, <2>3, <2>4
<1>4. M # {}
  BY DEF SearchHit
<1>5. S # {} /\ S \subseteq M
  BY <1>4
<1>6. \E x \in S : \A y \in S : y <= x
  <2>1. IsFiniteSet(S) /\ \A i \in S : i \in Int
    BY <1>3, <1>5, FS_Subset
  <2> HIDE DEF S
  <2>2. QED
    BY <1>5, <2>1, HighestExists
<1> DEFINE k == Max(S)
<1>7. k \in S /\ \A y \in S : k >= y
  <2>1. \E x \in S : \A y \in S : x >= y
    <3>1. \A i \in S : i \in Int
      BY <1>3, <1>5
    <3> HIDE DEF S
    <3>2. QED
      BY <1>6, <3>1
  <2> HIDE DEF S
  <2>2. QED
    BY <2>1 DEF Max
<1>8. Newest(addr) = buf[k].data
  BY DEF Newest
<1> HIDE DEF k
<1>9. ASSUME NEW j \in M PROVE BufPos(j) <= BufPos(k)
  <2>1. k \in M /\ k \in Int /\ j \in Int
    BY <1>3, <1>5, <1>7
  <2>2. /\ k \in Run(BufDepth, buf_ret, cnt) /\ j \in Run(BufDepth, buf_ret, cnt)
    BY <1>1, <1>2, <2>1
  <2>3. /\ k < buf_alloc /\ ~(j < buf_alloc) => BufPos(j) <= BufPos(k)
        /\ k < buf_alloc /\ j < buf_alloc /\ j <= k => BufPos(j) <= BufPos(k)
        /\ ~(k < buf_alloc) /\ ~(j < buf_alloc) /\ j <= k => BufPos(j) <= BufPos(k)
    BY <1>1, <1>2, <2>2, RingWraps DEF BufPos
  <2>4. j \in S => j <= k
    BY <1>7, <2>1
  <2>5. CASE post_wrap # {}
    <3>1. k < buf_alloc /\ (j < buf_alloc => j \in S)
      BY <1>7, <2>5
    <3>2. QED
      BY <2>3, <2>4, <3>1
  <2>6. CASE post_wrap = {}
    <3>1. ~(k < buf_alloc) /\ ~(j < buf_alloc) /\ j \in S
      BY <2>1, <2>6
    <3>2. QED
      BY <2>3, <2>4, <3>1
  <2>7. QED
    BY <2>5, <2>6
<1>10. QED
  BY <1>5, <1>7, <1>8, <1>9

(* What a word becomes under a store is a word.                            *)
LEMMA MergedTyped ==
    ASSUME NEW x \in Word, NEW u \in Uops
    PROVE  Merged(x, u.bytes) \in Word /\ u.addr \in Addrs
<1>1. /\ u.addr \in Addrs
      /\ \E ps \in SUBSET Parts : u.bytes \in [ps -> Bytes]
  BY LoadStoreAssumption DEF Uop
<1>2. PICK ps \in SUBSET Parts : u.bytes \in [ps -> Bytes]
  BY <1>1
<1>3. \A p \in Parts : x[p] \in Bytes
  BY DEF Word
<1>4. QED
  BY <1>1, <1>2, <1>3 DEF Merged, Word

(* What stage 0 sees is a word.                                            *)
LEMMA LoadedTyped == ASSUME IInv, NEW addr \in Addrs PROVE LoadedWord(addr) \in Word
<1>1. CASE SearchHit(addr)
  <2>1. \A k \in Matches(addr) : buf[k].data \in Word
    BY RecordsTyped DEF Matches
  <2>2. Newest(addr) \in Word
    BY <1>1, <2>1, NewestIsLast
  <2>3. QED
    BY <1>1, <2>2 DEF LoadedWord
<1>2. CASE ~SearchHit(addr)
  <2>1. mem \in [Addrs -> Word]
    BY Typed
  <2>2. QED
    BY <1>2, <2>1 DEF LoadedWord
<1>3. QED
  BY <1>1, <1>2

(* What the stages hold after such a cycle.                                *)
LEMMA FlowStages ==
    ASSUME IInv, NEW g, NEW D, NEW suc, NEW issued, NEW retired,
           FlowOf(g, D, suc, issued, retired)
    PROVE  /\ stage0' \in Record \cup {NoEntry} /\ stage1' \in Result \cup {NoEntry}
           /\ stage1_on' = StageMoves /\ StageMoves \in BOOLEAN
           /\ StageMoves => stage0.valid
           /\ stage1'.valid <=> stage1_on'
           /\ StageMoves => /\ Drops(stage1', stage0, suc) /\ stage1' \in Result
                            /\ stage1'.word = LoadedWord(stage0.uop.addr)
           /\ issued => /\ Drops(stage0', rsv[rsv_head], suc) /\ stage0'.valid
                        /\ rsv_head \in Waiting /\ (stage0.valid => StageMoves)
           /\ ~issued /\ stage0.valid /\ ~StageMoves => Drops(stage0', stage0, suc) /\ stage0'.valid
           /\ ~issued /\ (StageMoves \/ ~stage0.valid) => ~stage0'.valid
<1>1. /\ stage0' = IF issued THEN Resolved(rsv[rsv_head], suc)
                   ELSE IF stage0.valid /\ ~StageMoves THEN Resolved(stage0, suc)
                   ELSE NoEntry
      /\ stage1' = Handed(suc) /\ stage1_on' = StageMoves
      /\ issued \in {FALSE, MayIssue} /\ ~OwnAck
  BY DEF FlowOf, Flow, IInv
<1>2. StageMoves \in BOOLEAN /\ (StageMoves => stage0.valid)
  BY DEF StageMoves
<1>3. /\ \A r \in Record : r.valid
      /\ \A r \in Result : r.valid
      /\ ~NoEntry.valid
  BY DEF Record, Result, NoEntry
<1>4. stage0.valid => /\ stage0 \in Record /\ FieldsTyped(stage0)
                      /\ stage0.is_spec <=> stage0.spec_tag # {}
  BY RecordsTyped DEF IInv, PairsSound, Follows
<1>5. StageMoves => /\ Drops(stage1', stage0, suc) /\ stage1' \in Result
                    /\ stage1'.word = LoadedWord(stage0.uop.addr)
  <2>1. SUFFICES ASSUME StageMoves
                 PROVE  /\ Drops(stage1', stage0, suc) /\ stage1' \in Result
                        /\ stage1'.word = LoadedWord(stage0.uop.addr)
    OBVIOUS
  <2> DEFINE x == LoadedWord(stage0.uop.addr)
             z == ResultOf(stage0.uop, stage0.rob_des_idx, stage0.is_spec, stage0.spec_tag, x)
  <2>2. /\ stage0.uop \in Uops /\ stage0.rob_des_idx \in Slots /\ stage0.is_spec \in BOOLEAN
        /\ stage0.spec_tag \in SUBSET Tags /\ (stage0.is_spec <=> stage0.spec_tag # {})
    BY <1>2, <1>4, <2>1 DEF FieldsTyped
  <2>3. x \in Word
    <3>1. stage0.uop.addr \in Addrs
      BY <2>2, LoadStoreAssumption DEF Uop
    <3>2. QED
      BY <3>1, LoadedTyped
  <2>4. stage1' = Resolved(z, suc)
    BY <1>1, <2>1, Zenon DEF Handed, ResultOf
  <2> HIDE DEF x
  <2>5. /\ z \in Result /\ z.uop = stage0.uop /\ z.rob_des_idx = stage0.rob_des_idx
        /\ z.word = x /\ z.spec_tag = stage0.spec_tag /\ z.is_spec = stage0.is_spec
    <3>1. /\ stage0.uop \in Uops /\ stage0.rob_des_idx \in Slots
          /\ stage0.is_spec \in BOOLEAN /\ stage0.spec_tag \in SUBSET Tags
      BY <2>2
    <3>2. IsResult(z, stage0.uop, stage0.rob_des_idx, stage0.is_spec, stage0.spec_tag, x)
      BY <2>3, <3>1, RecordsMade, Zenon
    <3> HIDE DEF z
    <3>3. QED
      BY <3>2 DEF IsResult
  <2> HIDE DEF z
  <2>6. z.is_spec <=> z.spec_tag # {}
    BY <2>2, <2>5
  <2>7. stage1' \in Result /\ Drops(stage1', z, suc) /\ stage1'.word = z.word
    BY <2>4, <2>5, <2>6, ResultResolves
  <2>8. QED
    BY <2>5, <2>7, Zenon DEF Drops, x
<1>6. stage1' \in Result \cup {NoEntry} /\ (stage1'.valid <=> stage1_on')
  <2>1. CASE StageMoves
    BY <1>1, <1>3, <1>5, <2>1
  <2>2. CASE ~StageMoves
    <3>1. stage1' = NoEntry
      BY <1>1, <2>2 DEF Handed
    <3>2. QED
      BY <1>1, <1>3, <2>2, <3>1
  <2>3. QED
    BY <2>1, <2>2
<1>7. ASSUME issued
      PROVE  /\ Drops(stage0', rsv[rsv_head], suc) /\ stage0'.valid /\ stage0' \in Record
             /\ rsv_head \in Waiting /\ (stage0.valid => StageMoves)
  <2>1. rsv_head \in Waiting /\ (stage0.valid => StageMoves)
    BY <1>1, <1>7 DEF MayIssue
  <2>2. rsv[rsv_head] \in Record /\ (rsv[rsv_head].is_spec <=> rsv[rsv_head].spec_tag # {})
    BY <2>1, RecordsTyped DEF IInv, PairsSound, Follows
  <2>3. stage0' = Resolved(rsv[rsv_head], suc)
    BY <1>1, <1>7
  <2>4. stage0' \in Record /\ Drops(stage0', rsv[rsv_head], suc)
    BY <2>2, <2>3, RecordResolves
  <2>5. QED
    BY <1>3, <2>1, <2>4
<1>8. ASSUME ~issued, stage0.valid, ~StageMoves
      PROVE  Drops(stage0', stage0, suc) /\ stage0'.valid /\ stage0' \in Record
  <2>1. stage0' = Resolved(stage0, suc)
    BY <1>1, <1>8
  <2>2. stage0' \in Record /\ Drops(stage0', stage0, suc)
    BY <1>4, <1>8, <2>1, RecordResolves
  <2>3. QED
    BY <1>3, <2>2
<1>9. ASSUME ~issued, StageMoves \/ ~stage0.valid
      PROVE  ~stage0'.valid /\ stage0' = NoEntry
  BY <1>1, <1>3, <1>9
<1>10. stage0' \in Record \cup {NoEntry}
  BY <1>7, <1>8, <1>9
<1>11. QED
  BY <1>1, <1>2, <1>5, <1>6, <1>7, <1>8, <1>9, <1>10

-----------------------------------------------------------------------------
(* Who is where after such a cycle.                                        *)

(* A row whose access reports in the cycle is stage 1's; all that wait     *)
(* elsewhere stay, and land behind them whatever the group brings.         *)
LEMMA FlowWaits ==
    ASSUME IInv, NEW g, NEW D, NEW suc, NEW issued, NEW retired,
           FlowOf(g, D, suc, issued, retired)
    PROVE  /\ \A i \in Waits : Reported = {i} \/ i \notin Reported
           /\ stage0.valid => stage0.rob_des_idx \in Waits \ Reported
           /\ \A k \in Waiting : EntryOf(k) \in Waits \ Reported
           /\ \A i \in Waits \ Reported :
                 /\ i \in Waits' /\ i \in InFlight /\ i \in InFlight'
                 /\ table'[i].uop = table[i].uop
           /\ \A l \in Accesses(g) : /\ SlotOf(g, l) \in Waits'
                                     /\ table'[SlotOf(g, l)].uop = g[l]
           /\ \A i, j \in Waits \ Reported : Age(i) < Age(j) => AgeNext(i) < AgeNext(j)
           /\ \A i \in InFlight, l \in Accesses(g) :
                 i \in InFlight' => AgeNext(i) < AgeNext(SlotOf(g, l))
           /\ \A l, m \in Accesses(g) : l < m => AgeNext(SlotOf(g, l)) < AgeNext(SlotOf(g, m))
           /\ \A i \in Waits' : i \in Waits \ Reported \/ \E l \in Accesses(g) : i = SlotOf(g, l)
           /\ \A i \in InFlight', j \in Waits' :
                 IsAccess(table'[i].uop) /\ table'[i].wb_fin => AgeNext(i) < AgeNext(j)
<1>1. /\ g \in Landing /\ RobTyped /\ Waits \subseteq InFlight /\ stage1_on \in BOOLEAN
      /\ \A i \in InFlight : Age(i) \in Nat /\ Age(i) < used_entry_cnt /\ i \in Slots
      /\ used_entry_cnt \in Nat /\ Gone \in Nat
  <2>1. /\ RobTyped /\ InFlight \subseteq Slots /\ Waits \subseteq InFlight /\ stage1_on \in BOOLEAN
        /\ \A i \in InFlight : Age(i) \in Nat
    BY Typed
  <2>2. used_entry_cnt \in 0 .. RobDepth /\ Gone \in 0 .. used_entry_cnt
    BY <2>1, RetiringIsPrefix DEF RobTyped
  <2>3. QED
    BY <2>1, <2>2, RobAssumption DEF FlowOf, InFlight
<1>2. /\ Waits \ Reported \subseteq InFlight'
      /\ Waits' = (Waits \ Reported) \cup {SlotOf(g, l) : l \in Accesses(g)}
      /\ D \subseteq Opened
  BY FlowSets
<1>3. /\ \A i \in InFlight : i \in InFlight' =>
            /\ AgeNext(i) = Age(i) - Gone /\ table'[i].uop = table[i].uop
            /\ table'[i].wb_fin <=> table[i].wb_fin \/ i \in D \cup Reported
      /\ \A l \in Valid(g) : /\ SlotOf(g, l) \in InFlight' \ InFlight
                             /\ AgeNext(SlotOf(g, l)) = used_entry_cnt + Before(Valid(g), l) - Gone
                             /\ table'[SlotOf(g, l)] = RobRow(g, l)
      /\ \A i \in InFlight' : i \in InFlight \/ \E l \in Valid(g) : i = SlotOf(g, l)
  BY FlowRows
<1>4. Accesses(g) \subseteq Valid(g) /\ Valid(g) \in SUBSET Lanes
  BY <1>1, LaneKinds
<1>5. /\ \A l \in Valid(g) : Before(Valid(g), l) \in Nat
      /\ \A l, m \in Valid(g) : l < m <=> Before(Valid(g), l) < Before(Valid(g), m)
  <2>1. /\ Cardinality(Valid(g)) \in Nat
        /\ \A l \in Valid(g) : Before(Valid(g), l) \in 0 .. Cardinality(Valid(g)) - 1
        /\ \A l, m \in Valid(g) : l < m <=> Before(Valid(g), l) < Before(Valid(g), m)
    BY <1>4, LaneNumbers
  <2>2. QED
    BY <2>1
<1>6. /\ stage0.valid => stage0.rob_des_idx \in Waits
      /\ \A k \in Waiting : EntryOf(k) \in Waits
      /\ stage1_on => stage1.rob_des_idx \in Waits
      /\ stage1_on /\ stage0.valid => Age(stage1.rob_des_idx) < Age(stage0.rob_des_idx)
      /\ \A k \in Waiting : stage1_on => Age(stage1.rob_des_idx) < Age(EntryOf(k))
      /\ \A i \in Waits : \/ stage1_on /\ i = stage1.rob_des_idx
                          \/ stage0.valid /\ i = stage0.rob_des_idx
                          \/ \E k \in Waiting : i = EntryOf(k)
      /\ \A i \in InFlight, j \in Waits :
            IsAccess(table[i].uop) /\ table[i].wb_fin => Age(i) < Age(j)
  BY DEF IInv, Placed, Holds, EntryOf
<1>7. Reported = IF stage1_on THEN {stage1.rob_des_idx} ELSE {}
  BY DEF Reported
<1>8. /\ stage0.valid => stage0.rob_des_idx \in Waits \ Reported
      /\ \A k \in Waiting : EntryOf(k) \in Waits \ Reported
  <2>1. ASSUME stage0.valid PROVE stage0.rob_des_idx \in Waits \ Reported
    <3>1. Age(stage0.rob_des_idx) \in Nat
      BY <1>1, <1>6, <2>1
    <3>2. stage1_on => stage1.rob_des_idx # stage0.rob_des_idx
      BY <1>6, <2>1, <3>1
    <3>3. QED
      BY <1>6, <1>7, <2>1, <3>2
  <2>2. ASSUME NEW k \in Waiting PROVE EntryOf(k) \in Waits \ Reported
    <3>1. Age(EntryOf(k)) \in Nat
      BY <1>1, <1>6
    <3>2. stage1_on => stage1.rob_des_idx # EntryOf(k)
      BY <1>6, <3>1
    <3>3. QED
      BY <1>6, <1>7, <3>2
  <2>3. QED
    BY <2>1, <2>2
<1>9. \A i \in Waits \ Reported : /\ i \in Waits' /\ i \in InFlight /\ i \in InFlight'
                                  /\ table'[i].uop = table[i].uop
  BY <1>1, <1>2, <1>3
<1>10. ASSUME NEW l \in Accesses(g)
       PROVE  SlotOf(g, l) \in Waits' /\ table'[SlotOf(g, l)].uop = g[l]
  <2>1. table'[SlotOf(g, l)] = RobRow(g, l)
    BY <1>3, <1>4
  <2>2. RobRow(g, l).uop = g[l]
    BY DEF RobRow
  <2>3. QED
    BY <1>2, <2>1, <2>2
<1>11. ASSUME NEW i \in Waits \ Reported, NEW j \in Waits \ Reported, Age(i) < Age(j)
       PROVE  AgeNext(i) < AgeNext(j)
  <2>1. AgeNext(i) = Age(i) - Gone /\ AgeNext(j) = Age(j) - Gone
    BY <1>3, <1>9
  <2>2. Age(i) \in Nat /\ Age(j) \in Nat
    BY <1>1, <1>9
  <2>3. QED
    BY <1>1, <1>11, <2>1, <2>2
<1>12. ASSUME NEW i \in InFlight, i \in InFlight', NEW l \in Accesses(g)
       PROVE  AgeNext(i) < AgeNext(SlotOf(g, l))
  <2>1. /\ AgeNext(i) = Age(i) - Gone
        /\ AgeNext(SlotOf(g, l)) = used_entry_cnt + Before(Valid(g), l) - Gone
    BY <1>3, <1>4, <1>12
  <2>2. Age(i) \in Nat /\ Age(i) < used_entry_cnt /\ Before(Valid(g), l) \in Nat
    BY <1>1, <1>4, <1>5
  <2>3. QED
    BY <1>1, <2>1, <2>2
<1>13. ASSUME NEW l \in Accesses(g), NEW m \in Accesses(g), l < m
       PROVE  AgeNext(SlotOf(g, l)) < AgeNext(SlotOf(g, m))
  <2>1. /\ AgeNext(SlotOf(g, l)) = used_entry_cnt + Before(Valid(g), l) - Gone
        /\ AgeNext(SlotOf(g, m)) = used_entry_cnt + Before(Valid(g), m) - Gone
    BY <1>3, <1>4
  <2>2. /\ Before(Valid(g), l) \in Nat /\ Before(Valid(g), m) \in Nat
        /\ Before(Valid(g), l) < Before(Valid(g), m)
    BY <1>4, <1>5, <1>13
  <2>3. QED
    BY <1>1, <2>1, <2>2
<1>14. \A i \in Waits' : i \in Waits \ Reported \/ \E l \in Accesses(g) : i = SlotOf(g, l)
  BY <1>2
<1>15. ASSUME NEW i \in InFlight', NEW j \in Waits', IsAccess(table'[i].uop), table'[i].wb_fin
       PROVE  AgeNext(i) < AgeNext(j)
  <2>1. i \in InFlight
    <3>1. ASSUME NEW l \in Valid(g), i = SlotOf(g, l) PROVE FALSE
      <4>1. table'[i] = RobRow(g, l)
        BY <1>3, <3>1
      <4>2. ~table'[i].wb_fin
        BY <4>1 DEF RobRow
      <4>3. QED
        BY <1>15, <4>2
    <3>2. QED
      BY <1>3, <3>1
  <2>2. /\ IsAccess(table[i].uop) /\ (table[i].wb_fin \/ i \in D \cup Reported)
        /\ table[i].uop \in Uops
    <3>1. table[i].uop \in Uops
      BY <2>1 DEF IInv, RowsSound, RowsAreWhole
    <3>2. QED
      BY <1>3, <1>15, <2>1, <3>1
  <2>3. i \notin D
    <3>1. i \in Opened => table[i].uop.is_branch
      BY DEF Opened
    <3>2. QED
      BY <1>2, <2>2, <3>1, LoadStoreAssumption DEF IsAccess
  <2>4. CASE j \in Waits \ Reported
    <3>1. Age(i) < Age(j)
      <4>1. CASE table[i].wb_fin
        BY <1>6, <2>1, <2>2, <2>4, <4>1
      <4>2. CASE i \in Reported
        <5>1. stage1_on /\ i = stage1.rob_des_idx
          BY <1>7, <4>2
        <5>2. \/ stage0.valid /\ j = stage0.rob_des_idx
              \/ \E k \in Waiting : j = EntryOf(k)
          BY <1>6, <1>7, <2>4, <5>1
        <5>3. QED
          BY <1>6, <5>1, <5>2
      <4>3. QED
        BY <2>2, <2>3, <4>1, <4>2
    <3>2. AgeNext(i) = Age(i) - Gone /\ AgeNext(j) = Age(j) - Gone
      BY <1>3, <1>9, <2>1, <2>4
    <3>3. Age(i) \in Nat /\ Age(j) \in Nat
      BY <1>1, <1>9, <2>1, <2>4
    <3>4. QED
      BY <1>1, <3>1, <3>2, <3>3
  <2>5. CASE j \notin Waits \ Reported
    BY <1>12, <1>14, <2>1, <2>5
  <2>6. QED
    BY <2>4, <2>5
<1>16. \A i \in Waits : Reported = {i} \/ i \notin Reported
  BY <1>7
<1>17. QED
  BY <1>8, <1>9, <1>10, <1>11, <1>12, <1>13, <1>14, <1>15, <1>16

(* The stages and the station still hold the waiting rows in their order,  *)
(* whatever issues, moves on and lands.                                    *)
LEMMA FlowPlaces ==
    ASSUME IInv, NEW g, NEW D, NEW suc, NEW issued, NEW retired,
           FlowOf(g, D, suc, issued, retired)
    PROVE  Placed'
<1> DEFINE A == Accesses(g)
           stay == Waits \ Reported
           s0 == stage0.rob_des_idx
           h == EntryOf(rsv_head)
<1>1. PICK n \in 0 .. RsvSize : StationRun(n)
  BY DEF IInv, Placed
<1>2. PICK w : w = Cardinality(A)
  OBVIOUS
<1>3. PICK e : e = One(issued)
  OBVIOUS
<1>4. /\ n - e + w \in 0 .. RsvSize /\ StationRun(n - e + w)'
      /\ Waiting' = Left(issued) \cup {Port(g, l) : l \in A}
      /\ \A k \in Left(issued) : /\ rsv'[k] = Resolved(rsv[k], suc)
                                 /\ RsvPosNext(k) = RsvPos(k) - e
                                 /\ RsvPos(k) \in 0 .. n - 1
      /\ \A l \in A : /\ Port(g, l) \notin Waiting /\ rsv'[Port(g, l)] = Entry(g, l)
                      /\ RsvPosNext(Port(g, l)) = n + Before(A, l) - e
                      /\ Before(A, l) \in 0 .. w - 1
      /\ issued => /\ rsv_head \in Waiting /\ RsvPos(rsv_head) = 0
                   /\ \A k \in Left(issued) : RsvPos(rsv_head) < RsvPos(k)
  BY <1>1, <1>2, <1>3, FlowStation
<1>5. /\ stage1_on' = StageMoves /\ StageMoves \in BOOLEAN
      /\ StageMoves => stage0.valid
      /\ stage1'.valid <=> stage1_on'
      /\ StageMoves => Drops(stage1', stage0, suc)
      /\ issued => /\ Drops(stage0', rsv[rsv_head], suc) /\ stage0'.valid
                   /\ rsv_head \in Waiting /\ (stage0.valid => StageMoves)
      /\ ~issued /\ stage0.valid /\ ~StageMoves => Drops(stage0', stage0, suc) /\ stage0'.valid
      /\ ~issued /\ (StageMoves \/ ~stage0.valid) => ~stage0'.valid
  BY FlowStages
<1>6. /\ stage0.valid => s0 \in stay
      /\ \A k \in Waiting : EntryOf(k) \in stay
      /\ \A i \in stay : i \in Waits' /\ i \in InFlight /\ i \in InFlight' /\ table'[i].uop = table[i].uop
      /\ \A l \in A : SlotOf(g, l) \in Waits' /\ table'[SlotOf(g, l)].uop = g[l]
      /\ \A i, j \in stay : Age(i) < Age(j) => AgeNext(i) < AgeNext(j)
      /\ \A i \in stay, l \in A : AgeNext(i) < AgeNext(SlotOf(g, l))
      /\ \A l, m \in A : l < m => AgeNext(SlotOf(g, l)) < AgeNext(SlotOf(g, m))
      /\ \A i \in Waits' : i \in stay \/ \E l \in A : i = SlotOf(g, l)
      /\ \A i \in InFlight', j \in Waits' :
            IsAccess(table'[i].uop) /\ table'[i].wb_fin => AgeNext(i) < AgeNext(j)
  BY FlowWaits
<1>7. /\ stage0.valid => stage0.uop = table[s0].uop
      /\ \A k \in Waiting : rsv[k].uop = table[EntryOf(k)].uop
      /\ \A k \in Waiting : stage0.valid => Age(s0) < Age(EntryOf(k))
      /\ \A j, k \in Waiting : RsvPos(j) < RsvPos(k) => Age(EntryOf(j)) < Age(EntryOf(k))
      /\ \A i \in Waits : \/ stage1_on /\ i = stage1.rob_des_idx
                          \/ stage0.valid /\ i = s0
                          \/ \E k \in Waiting : i = EntryOf(k)
      /\ stage1_on => stage1.rob_des_idx \in Reported
  BY DEF IInv, Placed, Holds, EntryOf, Reported
<1>8. Left(issued) \subseteq Waiting /\ (~issued => Left(issued) = Waiting)
      /\ (issued => Left(issued) = Waiting \ {rsv_head})
  BY DEF Left
<1> HIDE DEF stay, s0, h
(* What stands in each place afterwards. *)
<1>9. StageMoves => /\ stage1'.rob_des_idx = s0 /\ stage1'.uop = table[s0].uop
                    /\ stage0.valid /\ s0 \in stay
  BY <1>5, <1>6, <1>7 DEF Drops, s0
<1>10. issued => /\ stage0'.rob_des_idx = h /\ stage0'.uop = table[h].uop
                 /\ h \in stay /\ rsv_head \in Waiting
  BY <1>4, <1>5, <1>6, <1>7 DEF Drops, EntryOf, h
<1>11. stage0'.valid /\ ~issued => /\ stage0'.rob_des_idx = s0 /\ stage0'.uop = table[s0].uop
                                   /\ s0 \in stay /\ stage0.valid /\ ~StageMoves
  BY <1>5, <1>6, <1>7 DEF Drops, s0
<1>12. \A k \in Left(issued) : /\ rsv'[k].rob_des_idx = EntryOf(k) /\ EntryOf(k) \in stay
                               /\ rsv'[k].uop = table[EntryOf(k)].uop
  <2>1. ASSUME NEW k \in Left(issued)
        PROVE  /\ rsv'[k].rob_des_idx = EntryOf(k) /\ EntryOf(k) \in stay
               /\ rsv'[k].uop = table[EntryOf(k)].uop
    <3>1. k \in Waiting /\ rsv'[k] = Resolved(rsv[k], suc)
      BY <1>4, <1>8
    <3>2. rsv[k] \in Record /\ (rsv[k].is_spec <=> rsv[k].spec_tag # {})
      BY <3>1, RecordsTyped DEF IInv, PairsSound, Follows
    <3>3. Drops(rsv'[k], rsv[k], suc)
      BY <3>1, <3>2, RecordResolves
    <3>4. QED
      BY <1>6, <1>7, <3>1, <3>3 DEF Drops, EntryOf
  <2>2. QED
    BY <2>1
<1>13. \A l \in A : /\ rsv'[Port(g, l)].rob_des_idx = SlotOf(g, l)
                    /\ rsv'[Port(g, l)].uop = g[l]
  <2>1. \A l : Entry(g, l).rob_des_idx = SlotOf(g, l) /\ Entry(g, l).uop = g[l]
    BY DEF Entry, SlotOf
  <2>2. QED
    BY <1>4, <2>1
(* The conjuncts. *)
<1>14. \A i : AgeNext(i) = (i - com_ptr') % RobDepth
  BY DEF AgeNext, AgeFrom
<1>15. stage1_on' => Holds(stage1)'
  BY <1>5, <1>6, <1>9 DEF Holds
<1>16. stage0'.valid => Holds(stage0)'
  BY <1>5, <1>6, <1>10, <1>11 DEF Holds
<1>17. \A k \in Waiting' : Holds(rsv[k])'
  <2>1. \A k \in Left(issued) : rsv'[k].rob_des_idx \in Waits' /\ rsv'[k].uop = table'[rsv'[k].rob_des_idx].uop
    BY <1>6, <1>12
  <2>2. \A l \in A : /\ rsv'[Port(g, l)].rob_des_idx \in Waits'
                     /\ rsv'[Port(g, l)].uop = table'[rsv'[Port(g, l)].rob_des_idx].uop
    BY <1>6, <1>13
  <2>3. QED
    BY <1>4, <2>1, <2>2 DEF Holds
<1>18. \A i \in stay : stage0.valid /\ i # s0 => \E k \in Waiting : i = EntryOf(k)
  BY <1>7 DEF stay
<1>19. stage1_on' /\ stage0'.valid =>
          AgeNext(stage1'.rob_des_idx) < AgeNext(stage0'.rob_des_idx)
  <2>1. SUFFICES ASSUME stage1_on', stage0'.valid
                 PROVE  AgeNext(stage1'.rob_des_idx) < AgeNext(stage0'.rob_des_idx)
    OBVIOUS
  <2>2. StageMoves /\ issued
    BY <1>5, <1>11, <2>1
  <2>3. Age(s0) < Age(h)
    BY <1>7, <1>9, <1>10, <2>2 DEF h
  <2>4. AgeNext(s0) < AgeNext(h)
    BY <1>6, <1>9, <1>10, <2>2, <2>3
  <2>5. QED
    BY <1>9, <1>10, <2>2, <2>4
<1>20. ASSUME NEW k \in Waiting', NEW i \in stay, \A x \in Left(issued) : Age(i) < Age(EntryOf(x))
       PROVE  AgeNext(i) < AgeNext(rsv'[k].rob_des_idx)
  <2>1. CASE k \in Left(issued)
    BY <1>6, <1>12, <1>20, <2>1
  <2>2. CASE k \notin Left(issued)
    <3>1. PICK l \in A : k = Port(g, l)
      BY <1>4, <2>2
    <3>2. QED
      BY <1>6, <1>13, <3>1
  <2>3. QED
    BY <2>1, <2>2
<1>21. \A k \in Waiting' : stage1_on' => AgeNext(stage1'.rob_des_idx) < AgeNext(rsv'[k].rob_des_idx)
  <2>1. StageMoves => \A x \in Left(issued) : Age(s0) < Age(EntryOf(x))
    BY <1>5, <1>7, <1>8
  <2>2. QED
    BY <1>5, <1>9, <1>20, <2>1
<1>22. \A k \in Waiting' : stage0'.valid => AgeNext(stage0'.rob_des_idx) < AgeNext(rsv'[k].rob_des_idx)
  <2>1. CASE issued
    <3>1. \A x \in Left(issued) : Age(h) < Age(EntryOf(x))
      BY <1>4, <1>7, <1>8, <2>1 DEF h
    <3>2. QED
      BY <1>10, <1>20, <2>1, <3>1
  <2>2. CASE ~issued
    <3>1. stage0.valid => \A x \in Left(issued) : Age(s0) < Age(EntryOf(x))
      BY <1>7, <1>8
    <3>2. QED
      BY <1>11, <1>20, <2>2, <3>1
  <2>3. QED
    BY <2>1, <2>2
<1>23. ASSUME NEW j \in Waiting', NEW k \in Waiting', RsvPosNext(j) < RsvPosNext(k)
       PROVE  AgeNext(rsv'[j].rob_des_idx) < AgeNext(rsv'[k].rob_des_idx)
  <2>1. n \in Int /\ e \in Int
    BY <1>3 DEF One
  <2>2. CASE j \in Left(issued) /\ k \in Left(issued)
    <3>1. /\ RsvPosNext(j) = RsvPos(j) - e /\ RsvPosNext(k) = RsvPos(k) - e
          /\ RsvPos(j) \in Int /\ RsvPos(k) \in Int
      BY <1>4, <2>2
    <3>2. RsvPos(j) < RsvPos(k)
      BY <1>23, <2>1, <3>1
    <3>3. Age(EntryOf(j)) < Age(EntryOf(k))
      BY <1>7, <1>8, <2>2, <3>2
    <3>4. QED
      BY <1>6, <1>12, <2>2, <3>3
  <2>3. CASE j \in Left(issued) /\ k \notin Left(issued)
    <3>1. PICK l \in A : k = Port(g, l)
      BY <1>4, <2>3
    <3>2. QED
      BY <1>6, <1>12, <1>13, <2>3, <3>1
  <2>4. CASE j \notin Left(issued) /\ k \in Left(issued)
    <3>1. PICK l \in A : j = Port(g, l)
      BY <1>4, <2>4
    <3>2. /\ RsvPosNext(j) = n + Before(A, l) - e /\ Before(A, l) \in Nat
          /\ RsvPosNext(k) = RsvPos(k) - e /\ RsvPos(k) \in Int /\ RsvPos(k) < n
      BY <1>4, <2>4, <3>1
    <3>3. QED
      BY <1>23, <2>1, <3>2
  <2>5. CASE j \notin Left(issued) /\ k \notin Left(issued)
    <3>1. PICK l \in A : j = Port(g, l)
      BY <1>4, <2>5
    <3>2. PICK m \in A : k = Port(g, m)
      BY <1>4, <2>5
    <3>3. /\ RsvPosNext(j) = n + Before(A, l) - e /\ Before(A, l) \in Nat
          /\ RsvPosNext(k) = n + Before(A, m) - e /\ Before(A, m) \in Nat
      BY <1>4, <3>1, <3>2
    <3>4. Before(A, l) < Before(A, m)
      BY <1>23, <2>1, <3>3
    <3>5. l < m
      <4>1. g \in Landing /\ rsv_head \in RsvSlots
        BY Typed DEF FlowOf
      <4>2. \A x, y \in Accesses(g) : x < y <=> Before(Accesses(g), x) < Before(Accesses(g), y)
        BY <1>1, <1>2, <4>1, EntriesOfLanes
      <4>3. QED
        BY <3>4, <4>2
    <3>6. QED
      BY <1>6, <1>13, <3>1, <3>2, <3>5
  <2>6. QED
    BY <2>2, <2>3, <2>4, <2>5
<1>24. ASSUME NEW i \in Waits'
       PROVE  \/ stage1_on' /\ i = stage1'.rob_des_idx
              \/ stage0'.valid /\ i = stage0'.rob_des_idx
              \/ \E k \in Waiting' : i = rsv'[k].rob_des_idx
  <2>1. CASE i \in stay
    <3>1. \/ stage0.valid /\ i = s0
          \/ \E k \in Waiting : i = EntryOf(k)
      BY <1>7, <2>1 DEF stay
    <3>2. CASE stage0.valid /\ i = s0
      <4>1. CASE StageMoves
        BY <1>5, <1>9, <3>2, <4>1
      <4>2. CASE ~StageMoves
        BY <1>5, <1>11, <3>2, <4>2
      <4>3. QED
        BY <4>1, <4>2
    <3>3. ASSUME NEW k \in Waiting, i = EntryOf(k)
          PROVE  \/ stage0'.valid /\ i = stage0'.rob_des_idx
                 \/ \E x \in Waiting' : i = rsv'[x].rob_des_idx
      <4>1. CASE k \in Left(issued)
        BY <1>4, <1>12, <3>3, <4>1
      <4>2. CASE k \notin Left(issued)
        <5>1. issued /\ k = rsv_head
          BY <1>8, <4>2
        <5>2. QED
          BY <1>5, <1>10, <3>3, <5>1 DEF h
      <4>3. QED
        BY <4>1, <4>2
    <3>4. QED
      BY <3>1, <3>2, <3>3
  <2>2. CASE i \notin stay
    <3>1. PICK l \in A : i = SlotOf(g, l)
      BY <1>6, <2>2
    <3>2. QED
      BY <1>4, <1>13, <3>1
  <2>3. QED
    BY <2>1, <2>2
<1>25. QED
  <2>1. \E m \in 0 .. RsvSize : StationRun(m)'
    BY <1>4
  <2>2. /\ stage1_on' /\ stage0'.valid => Age(stage1.rob_des_idx)' < Age(stage0.rob_des_idx)'
        /\ \A k \in Waiting' : stage1_on' => Age(stage1.rob_des_idx)' < Age(EntryOf(k))'
        /\ \A k \in Waiting' : stage0'.valid => Age(stage0.rob_des_idx)' < Age(EntryOf(k))'
    BY <1>14, <1>19, <1>21, <1>22 DEF Age, EntryOf
  <2>3. \A j, k \in Waiting' : RsvPos(j)' < RsvPos(k)' => Age(EntryOf(j))' < Age(EntryOf(k))'
    <3>1. \A k : RsvPos(k)' = RsvPosNext(k)
      BY DEF RsvPos, RsvPosNext
    <3>2. QED
      BY <1>14, <1>23, <3>1 DEF Age, EntryOf
  <2>4. \A i \in InFlight', j \in Waits' :
            IsAccess(table'[i].uop) /\ table'[i].wb_fin => Age(i)' < Age(j)'
    BY <1>6, <1>14 DEF Age
  <2>5. \A i \in Waits' : \/ stage1_on' /\ i = stage1'.rob_des_idx
                          \/ stage0'.valid /\ i = stage0'.rob_des_idx
                          \/ \E k \in Waiting' : i = EntryOf(k)'
    BY <1>24 DEF EntryOf
  <2>6. stage1'.valid <=> stage1_on'
    BY <1>5
  <2>7. QED
    BY <1>15, <1>16, <1>17, <2>1, <2>2, <2>3, <2>4, <2>5, <2>6 DEF Placed

-----------------------------------------------------------------------------
(* The store buffer in such a cycle.                                       *)

(* The row of the store that enters the buffer.                            *)
Entering == IF Pushed # {} THEN {stage0.rob_des_idx} ELSE {}

(* The stores the buffer holds for the ROB: the one that commits is the    *)
(* oldest, the one that enters stands behind all.                          *)
LEMMA FlowEntered ==
    ASSUME IInv, NEW g, NEW D, NEW suc, NEW issued, NEW retired,
           FlowOf(g, D, suc, issued, retired),
           NEW out, out = Stores(Retiring)
    PROVE  /\ Entered \in SUBSET InFlight /\ Entering \in SUBSET InFlight
           /\ Pushed # {} <=> StageMoves /\ stage0.uop.is_store
           /\ out \in SUBSET Entered /\ \A x, y \in out : x = y
           /\ \A d \in out, i \in Entered \ out : Age(d) < Age(i)
           /\ \A i \in Entered, x \in Entering : Age(i) < Age(x)
           /\ Entered' = (Entered \ out) \cup Entering
           /\ \A i \in (Entered \ out) \cup Entering :
                 i \in InFlight' /\ AgeNext(i) = Age(i) - Gone /\ table'[i].uop = table[i].uop
<1> DEFINE s0 == stage0.rob_des_idx
<1>1. /\ RobTyped /\ StageMoves \in BOOLEAN /\ (StageMoves => stage0.valid)
      /\ stage1_on' = StageMoves /\ (StageMoves => stage1'.rob_des_idx = s0)
  BY Typed, FlowStages DEF Drops
<1>2. /\ stage0.valid => s0 \in Waits \ Reported
      /\ \A i \in Waits \ Reported : i \in InFlight /\ i \in InFlight'
  BY FlowWaits
<1>3. /\ \A i \in InFlight : i \in InFlight' <=> i \notin Retiring
      /\ \A i \in InFlight : i \in InFlight' =>
            /\ AgeNext(i) = Age(i) - Gone /\ table'[i].uop = table[i].uop
            /\ table'[i].wb_fin <=> table[i].wb_fin \/ i \in D \cup Reported
      /\ \A l \in Valid(g) : SlotOf(g, l) \notin InFlight /\ table'[SlotOf(g, l)] = RobRow(g, l)
      /\ \A i \in InFlight' : i \in InFlight \/ \E l \in Valid(g) : i = SlotOf(g, l)
  BY FlowRows
<1>4. /\ Gone \in Nat /\ Retiring = {i \in Slots : Age(i) < Gone}
      /\ \A i \in Retiring : table[i].wb_fin
      /\ \A i \in Retiring : Age(i) < Gone - 1 => ~table[i].uop.is_store
      /\ InFlight \subseteq Slots
      /\ \A i \in InFlight : Age(i) \in Nat
      /\ \A i, j \in InFlight : Age(i) = Age(j) => i = j
      /\ Retiring \subseteq InFlight
  <2>1. /\ Gone \in 0 .. used_entry_cnt /\ used_entry_cnt \in Nat
        /\ Retiring = {i \in Slots : Age(i) < Gone}
        /\ \A i \in Retiring : table[i].wb_fin
        /\ \A i \in Retiring : Age(i) < Gone - 1 => ~table[i].uop.is_store
    BY <1>1, RetiringIsPrefix, RobAssumption DEF RobTyped
  <2>2. InFlight \subseteq Slots /\ com_ptr \in Slots /\ Slots \subseteq Int
    BY <1>1, Typed DEF RobTyped, Slots
  <2>3. \A i \in Slots : Age(i) \in Nat
    <3>1. \A i \in Slots : Age(i) \in Slots
      BY <2>2, SlotsAndAges, AgeIsFrom
    <3>2. QED
      BY <3>1 DEF Slots
  <2>4. \A i, j \in Slots : Age(i) = Age(j) => i = j
    BY <2>2, SlotsAndAges, AgeIsFrom
  <2>5. Retiring \subseteq InFlight
    BY <2>1, <2>3 DEF InFlight
  <2>6. QED
    BY <2>1, <2>2, <2>3, <2>4, <2>5
<1>5. Pushed # {} <=> StageMoves /\ stage0.uop.is_store
  BY DEF Pushed
<1>6. Entered \subseteq InFlight
  BY DEF Entered
<1>7. StageMoves => s0 \in InFlight /\ s0 \in InFlight' /\ s0 \in Waits /\ s0 \notin Reported
                    /\ stage0.uop = table[s0].uop /\ stage0.valid
  BY <1>1, <1>2 DEF IInv, Placed, Holds
<1>8. out \subseteq Entered /\ \A x, y \in out : x = y
  <2>1. out \subseteq Entered
    BY <1>4 DEF Entered, Stores
  <2>2. ASSUME NEW x \in out PROVE Age(x) = Gone - 1
    <3>1. x \in Retiring /\ table[x].uop.is_store /\ x \in InFlight /\ Age(x) < Gone
      BY <1>4 DEF Stores
    <3>2. Age(x) \in Nat /\ ~(Age(x) < Gone - 1)
      BY <1>4, <3>1
    <3>3. QED
      BY <1>4, <3>1, <3>2
  <2>3. QED
    BY <1>4, <1>6, <2>1, <2>2
<1>9. \A i \in Entered \ out : i \notin Retiring
  BY DEF Entered, Stores
<1>10. ASSUME NEW d \in out, NEW i \in Entered \ out PROVE Age(d) < Age(i)
  <2>1. d \in Retiring /\ i \in InFlight /\ i \in Slots /\ i \notin Retiring
    BY <1>4, <1>6, <1>9 DEF Stores
  <2>2. Age(d) < Gone /\ ~(Age(i) < Gone) /\ Age(i) \in Nat /\ Age(d) \in Nat
    BY <1>4, <2>1
  <2>3. QED
    BY <1>4, <2>2
<1>11. ASSUME NEW i \in Entered, NEW x \in Entering PROVE Age(i) < Age(x)
  <2>1. StageMoves /\ x = s0
    BY <1>5 DEF Entering
  <2>2. i \in InFlight /\ table[i].uop.is_store /\ (table[i].wb_fin \/ i \in Reported)
    BY DEF Entered
  <2>3. CASE table[i].wb_fin
    BY <1>7, <2>1, <2>2, <2>3 DEF IInv, Placed, IsAccess
  <2>4. CASE i \in Reported
    BY <1>7, <2>1, <2>4 DEF IInv, Placed, Reported
  <2>5. QED
    BY <2>2, <2>3, <2>4
<1>12. Entering \subseteq InFlight /\ \A x \in Entering : x \in InFlight'
  BY <1>5, <1>7 DEF Entering
<1>13. \A i \in Entered \ out : i \in InFlight'
  BY <1>3, <1>6, <1>9
<1>14. Reported' = IF StageMoves THEN {s0} ELSE {}
  BY <1>1 DEF Reported
<1>15. ASSUME NEW i \in InFlight, i \in InFlight'
       PROVE  i \in Entered' <=> i \in (Entered \ out) \cup Entering
  <2>1. i \in Entered' <=> table[i].uop.is_store /\ (table[i].wb_fin \/ i \in D \cup Reported
                                                     \/ (StageMoves /\ i = s0))
    BY <1>3, <1>14, <1>15 DEF Entered
  <2>2. table[i].uop.is_store => i \notin D
    <3>1. table[i].uop \in Uops
      BY DEF IInv, RowsSound, RowsAreWhole
    <3>2. i \in D => table[i].uop.is_branch
      BY FlowSets DEF Opened
    <3>3. QED
      BY <3>1, <3>2, LoadStoreAssumption
  <2>3. i \in Entering <=> StageMoves /\ i = s0 /\ table[i].uop.is_store
    BY <1>5, <1>7 DEF Entering
  <2>4. i \in Entered <=> table[i].uop.is_store /\ (table[i].wb_fin \/ i \in Reported)
    BY DEF Entered
  <2>5. i \notin out
    BY <1>3, <1>15 DEF Stores
  <2>6. QED
    BY <2>1, <2>2, <2>3, <2>4, <2>5
<1>16. ASSUME NEW i \in Entered' PROVE i \in InFlight /\ i \in InFlight'
  <2>1. i \in InFlight' /\ (table'[i].wb_fin \/ (StageMoves /\ i = s0))
    BY <1>14 DEF Entered
  <2>2. ASSUME NEW l \in Valid(g), i = SlotOf(g, l), i \notin InFlight PROVE FALSE
    <3>1. table'[i] = RobRow(g, l)
      BY <1>3, <2>2
    <3>2. ~table'[i].wb_fin
      BY <3>1 DEF RobRow
    <3>3. QED
      BY <1>7, <2>1, <2>2, <3>2
  <2>3. QED
    BY <1>3, <2>1, <2>2
<1>17. Entered' = (Entered \ out) \cup Entering
  BY <1>6, <1>12, <1>13, <1>15, <1>16
<1>18. QED
  BY <1>3, <1>5, <1>6, <1>8, <1>10, <1>11, <1>12, <1>13, <1>17

(* The rows of the buffer and the stores in flight that have entered: the  *)
(* k-th such store has the k-th row from buf_com on.                       *)
LEMMA BufferRows ==
    ASSUME IInv, NEW cnt, NEW done, BufferRun(cnt, done)
    PROVE  /\ cnt \in 0 .. BufDepth /\ done \in 0 .. cnt
           /\ Cardinality(Entered) = cnt - done
           /\ \A k \in Busy : BufPos(k) \in 0 .. cnt - 1 /\ (buf[k].complete <=> BufPos(k) < done)
           /\ \A j, k \in Busy : BufPos(j) = BufPos(k) => j = k
           /\ \A i \in Entered : /\ RowOf(i) \in Busy /\ ~buf[RowOf(i)].complete
                                 /\ BufPos(RowOf(i)) = done + Rank(Entered, i)
                                 /\ Rank(Entered, i) \in 0 .. cnt - done - 1
                                 /\ RowOf(i) = RingSlot(BufDepth, buf_com, Rank(Entered, i))
           /\ \A k \in Busy : ~buf[k].complete => \E i \in Entered : k = RowOf(i)
           /\ \A i, j \in Entered : RowOf(i) = RowOf(j) => i = j
<1> DEFINE N == BufDepth
<1>1. /\ cnt \in 0 .. N /\ done \in 0 .. cnt /\ cnt = done + Cardinality(Entered)
      /\ Busy = Run(N, buf_ret, cnt) /\ buf_com = RingSlot(N, buf_ret, done)
      /\ \A k \in Busy : buf[k].complete <=> BufPos(k) < done
      /\ N \in Nat \ {0} /\ buf_ret \in 0 .. N - 1 /\ RobTyped
  BY Typed DEF BufferRun
<1>2. Entered \in SUBSET InFlight
  BY DEF Entered
<1>3. /\ Cardinality(Entered) \in Nat
      /\ \A i \in Entered : Rank(Entered, i) \in 0 .. Cardinality(Entered) - 1
      /\ \A i, j \in Entered : Rank(Entered, i) = Rank(Entered, j) => i = j
      /\ \A n \in 0 .. Cardinality(Entered) - 1 : \E i \in Entered : Rank(Entered, i) = n
  BY <1>1, <1>2, Ranks
<1>4. Cardinality(Entered) = cnt - done
  BY <1>1, <1>3
<1>5. ASSUME NEW k \in Busy
      PROVE  /\ BufPos(k) \in 0 .. cnt - 1 /\ k \in 0 .. N - 1
             /\ RingSlot(N, buf_ret, BufPos(k)) = k
  <2>1. k \in 0 .. N - 1 /\ RingDist(N, buf_ret, k) < cnt
    BY <1>1 DEF Run
  <2>2. RingDist(N, buf_ret, k) \in 0 .. N - 1 /\ RingSlot(N, buf_ret, RingDist(N, buf_ret, k)) = k
    BY <1>1, <2>1, RingThere
  <2>3. QED
    BY <1>1, <2>1, <2>2 DEF BufPos
<1>6. ASSUME NEW i \in Entered
      PROVE  /\ RowOf(i) = RingSlot(N, buf_com, Rank(Entered, i))
             /\ RowOf(i) = RingSlot(N, buf_ret, done + Rank(Entered, i))
             /\ RowOf(i) \in Busy /\ BufPos(RowOf(i)) = done + Rank(Entered, i)
             /\ Rank(Entered, i) \in 0 .. cnt - done - 1
  <2>1. RowOf(i) = RingSlot(N, buf_com, Rank(Entered, i))
    BY DEF RowOf, RingSlot, Rank
  <2>2. Rank(Entered, i) \in 0 .. cnt - done - 1
    BY <1>3, <1>4
  <2>3. ASSUME NEW x \in 0 .. cnt - done - 1
        PROVE  /\ RingSlot(N, RingSlot(N, buf_ret, done), x) = RingSlot(N, buf_ret, done + x)
               /\ done + x \in 0 .. N - 1 /\ done + x < cnt
    <3>1. done \in 0 .. N /\ x \in 0 .. N - done /\ done + x \in 0 .. N - 1 /\ done + x < cnt
      BY <1>1, <2>3
    <3>2. QED
      BY <1>1, <3>1, RingMoves
  <2>4. /\ RowOf(i) = RingSlot(N, buf_ret, done + Rank(Entered, i))
        /\ done + Rank(Entered, i) \in 0 .. N - 1 /\ done + Rank(Entered, i) < cnt
    BY <1>1, <2>1, <2>2, <2>3
  <2>5. /\ RowOf(i) \in 0 .. N - 1
        /\ RingDist(N, buf_ret, RowOf(i)) = done + Rank(Entered, i)
    BY <1>1, <2>4, RingBack
  <2>6. RowOf(i) \in Busy
    BY <1>1, <2>4, <2>5 DEF Run
  <2>7. QED
    BY <2>1, <2>2, <2>4, <2>5, <2>6 DEF BufPos
<1>7. ASSUME NEW k \in Busy, ~buf[k].complete PROVE \E i \in Entered : k = RowOf(i)
  <2>1. BufPos(k) - done \in 0 .. Cardinality(Entered) - 1 /\ BufPos(k) \in Int /\ done \in Int
    <3>1. BufPos(k) \in 0 .. cnt - 1 /\ ~(BufPos(k) < done)
      BY <1>1, <1>5, <1>7
    <3>2. QED
      BY <1>1, <1>4, <3>1
  <2>2. PICK i \in Entered : Rank(Entered, i) = BufPos(k) - done
    BY <1>3, <2>1
  <2>3. done + Rank(Entered, i) = BufPos(k)
    BY <2>1, <2>2
  <2>4. QED
    BY <1>5, <1>6, <2>3
<1>8. ASSUME NEW i \in Entered, NEW j \in Entered, RowOf(i) = RowOf(j) PROVE i = j
  <2>1. done + Rank(Entered, i) = done + Rank(Entered, j)
    BY <1>6, <1>8
  <2>2. Rank(Entered, i) \in Int /\ Rank(Entered, j) \in Int /\ done \in Int
    BY <1>1, <1>6
  <2>3. Rank(Entered, i) = Rank(Entered, j)
    BY <2>1, <2>2
  <2>4. QED
    BY <1>3, <2>3
<1>9. ASSUME NEW i \in Entered PROVE ~buf[RowOf(i)].complete
  <2>1. RowOf(i) \in Busy /\ ~(BufPos(RowOf(i)) < done)
    BY <1>1, <1>6
  <2>2. QED
    BY <1>1, <2>1
<1>10. \A j, k \in Busy : BufPos(j) = BufPos(k) => j = k
  BY <1>5
<1>11. QED
  BY <1>1, <1>4, <1>5, <1>6, <1>7, <1>8, <1>9, <1>10

(* A slot's distance from the new head, and the row of a store afterwards. *)
BufPosNext(k) == RingDist(BufDepth, buf_ret', k)
RowNext(i) == RingSlot(BufDepth, buf_com', RankNext(Entered', i))

(* The rows of the buffer that stay when its head goes to memory or not.   *)
Kept(retired) == {k \in Busy : ~(retired /\ k = buf_ret)}

(* Where the three pointers go, and why there is room: a store that enters *)
(* finds the buffer not full, the head that goes to memory is one the ROB  *)
(* retired, and the one it retires now is the first it has not.            *)
LEMMA FlowPointers ==
    ASSUME IInv, NEW g, NEW D, NEW suc, NEW issued, NEW retired,
           FlowOf(g, D, suc, issued, retired),
           NEW cnt, NEW done, BufferRun(cnt, done),
           NEW p, p = One(Pushed # {}), NEW c, c = One(Stores(Retiring) # {}),
           NEW r, r = One(retired)
    PROVE  /\ p \in 0 .. 1 /\ c \in 0 .. 1 /\ r \in 0 .. 1
           /\ (p = 1 <=> Pushed # {}) /\ (c = 1 <=> Stores(Retiring) # {}) /\ (r = 1 <=> retired)
           /\ p <= BufDepth - cnt /\ c <= cnt - done /\ r <= done
           /\ Cardinality(Stores(Retiring)) = c /\ Cardinality(Entering) = p
           /\ Cardinality(Entered') = cnt - done - c + p
           /\ \A i \in Entered \ Stores(Retiring) : RankNext(Entered', i) = Rank(Entered, i) - c
           /\ \A i \in Entering : RankNext(Entered', i) = cnt - done - c
           /\ \A d \in Stores(Retiring) : Rank(Entered, d) = 0
           /\ buf_alloc' = RingSlot(BufDepth, buf_alloc, p)
           /\ buf_com' = RingSlot(BufDepth, buf_com, c)
           /\ buf_ret' = RingSlot(BufDepth, buf_ret, r)
           /\ BufUpdate(Pushed, Stores(Retiring) # {}, retired, suc)
<1> DEFINE N == BufDepth
           out == Stores(Retiring)
<1>1. /\ cnt \in 0 .. N /\ done \in 0 .. cnt /\ Cardinality(Entered) = cnt - done
      /\ Busy = Run(N, buf_ret, cnt) /\ buf_com = RingSlot(N, buf_ret, done)
      /\ buf_alloc = RingSlot(N, buf_ret, cnt)
      /\ \A k \in Busy : buf[k].complete <=> BufPos(k) < done
      /\ N \in Nat \ {0} /\ buf_ret \in 0 .. N - 1 /\ RobTyped
  BY Typed, BufferRows DEF BufferRun
<1>2. BufUpdate(Pushed, out # {}, retired, suc) /\ retired \in {FALSE, RetireReady}
  BY DEF FlowOf, Flow
<1>3. /\ Entered \in SUBSET InFlight /\ Entering \in SUBSET InFlight
      /\ Pushed # {} <=> StageMoves /\ stage0.uop.is_store
      /\ out \in SUBSET Entered /\ \A x, y \in out : x = y
      /\ \A d \in out, i \in Entered \ out : Age(d) < Age(i)
      /\ \A i \in Entered, x \in Entering : Age(i) < Age(x)
      /\ Entered' = (Entered \ out) \cup Entering
      /\ \A i \in (Entered \ out) \cup Entering : AgeNext(i) = Age(i) - Gone
  BY FlowEntered
<1>4. /\ p \in 0 .. 1 /\ (p = 1 <=> Pushed # {})
      /\ c \in 0 .. 1 /\ (c = 1 <=> out # {})
  BY DEF One
<1>5. r \in 0 .. 1 /\ (r = 1 <=> retired) /\ (retired => RetireReady)
  <2>1. retired => RetireReady
    BY <1>2
  <2>2. retired => r = 1
    BY DEF One
  <2>3. ~retired => r = 0
    BY DEF One
  <2>4. r = 0 => r # 1
    OBVIOUS
  <2>5. r \in 0 .. 1
    BY <2>2, <2>3
  <2>6. r = 1 <=> retired
    BY <2>2, <2>3, <2>4, Zenon
  <2>7. QED
    BY <2>1, <2>5, <2>6, Zenon
<1>6. Cardinality(out) = c
  <2>1. CASE out = {}
    BY <1>4, <2>1, FS_EmptySet DEF One
  <2>2. CASE out # {}
    <3>1. PICK x \in out : out = {x}
      BY <1>3, <2>2
    <3>2. c = 1
      BY <2>2 DEF One
    <3>3. QED
      BY <3>1, <3>2, FS_Singleton
  <2>3. QED
    BY <2>1, <2>2
<1>7. Cardinality(Entering) = p
  <2>1. CASE Pushed = {}
    BY <2>1, FS_EmptySet DEF Entering, One
  <2>2. CASE Pushed # {}
    BY <2>2, FS_Singleton DEF Entering, One
  <2>3. QED
    BY <2>1, <2>2
<1>8. /\ Cardinality(out) \in 0 .. Cardinality(Entered)
      /\ Cardinality(Entered') = Cardinality(Entered) - Cardinality(out) + Cardinality(Entering)
      /\ \A i \in Entered \ out : RankNext(Entered', i) = Rank(Entered, i) - Cardinality(out)
      /\ \A x \in Entering : RankNext(Entered', x) = Cardinality(Entered) - Cardinality(out)
  <2>1. Gone \in Int
    BY <1>1, RetiringIsPrefix
  <2>2. \A x, y \in Entering : x = y
    BY DEF Entering
  <2>3. ASSUME NEW S, S = Entered, NEW O, O = out, NEW E, E = Entering,
               NEW T, T = (S \ O) \cup E
        PROVE  /\ Cardinality(O) \in 0 .. Cardinality(S)
               /\ Cardinality(T) = Cardinality(S) - Cardinality(O) + Cardinality(E)
               /\ \A i \in S \ O : RankNext(T, i) = Rank(S, i) - Cardinality(O)
               /\ \A x \in E : RankNext(T, x) = Cardinality(S) - Cardinality(O)
    <3>1. S \in SUBSET InFlight /\ O \in SUBSET S /\ E \in SUBSET InFlight
      BY <1>3, <2>3
    <3>2. /\ \A d \in O, i \in S \ O : Age(d) < Age(i)
          /\ \A i \in S, x \in E : Age(i) < Age(x)
          /\ \A x, y \in E : x = y
      BY <1>3, <2>2, <2>3
    <3>3. \A i \in (S \ O) \cup E : AgeNext(i) = Age(i) - Gone
      BY <1>3, <2>3
    <3>4. RanksMoved(S, O, E, T)
      BY <1>1, <2>1, <2>3, <3>1, <3>2, <3>3, RanksMove
    <3>5. QED
      BY <3>4 DEF RanksMoved
  <2>4. QED
    BY <1>3, <2>3
<1>9. \A d \in out : Rank(Entered, d) = 0
  <2>1. ASSUME NEW d \in out PROVE Rank(Entered, d) = 0
    <3>1. ASSUME NEW j \in Entered, Age(j) < Age(d) PROVE FALSE
      <4>1. Age(j) \in Nat /\ Age(d) \in Nat
        BY <1>3, Typed
      <4>2. CASE j \in out
        <5>1. j = d
          BY <1>3, <4>2
        <5>2. QED
          BY <3>1, <4>1, <5>1
      <4>3. CASE j \notin out
        <5>1. Age(d) < Age(j)
          BY <1>3, <4>3
        <5>2. QED
          BY <3>1, <4>1, <5>1
      <4>4. QED
        BY <4>2, <4>3
    <3>2. {j \in Entered : Age(j) < Age(d)} = {}
      BY <3>1
    <3>3. QED
      BY <3>2, FS_EmptySet DEF Rank
  <2>2. QED
    BY <2>1
<1>10. p <= N - cnt
  <2>1. CASE Pushed = {}
    <3>1. p = 0
      BY <2>1 DEF One
    <3>2. QED
      BY <1>1, <3>1
  <2>2. CASE Pushed # {}
    <3>1. ~BufFull
      <4>1. StageMoves /\ stage0.uop.is_store /\ stage0.valid
        BY <1>3, <2>2 DEF StageMoves
      <4>2. stage0.uop \in Uops
        BY <4>1, RecordsTyped DEF FieldsTyped
      <4>3. QED
        BY <4>1, <4>2, LoadStoreAssumption DEF StageMoves
    <3>2. ASSUME cnt = N PROVE FALSE
      <4>1. buf_alloc = buf_ret
        BY <1>1, <3>2, RingOneToOne
      <4>2. RingDist(N, buf_ret, buf_ret) = 0
        BY <1>1, RingOneToOne
      <4>3. buf_ret \in Busy
        BY <1>1, <3>2, <4>2 DEF Run
      <4>4. QED
        BY <3>1, <4>1, <4>3 DEF BufFull
    <3>3. QED
      BY <1>1, <1>4, <3>2
  <2>3. QED
    BY <2>1, <2>2
<1>11. r <= done
  <2>1. CASE retired
    <3>1. buf_ret \in Busy /\ buf[buf_ret].complete
      BY <1>5, <2>1 DEF RetireReady
    <3>2. BufPos(buf_ret) < done /\ BufPos(buf_ret) = 0
      BY <1>1, <3>1, RingOneToOne DEF BufPos
    <3>3. QED
      BY <1>1, <1>5, <3>2
  <2>2. CASE ~retired
    <3>1. r = 0
      BY <2>2 DEF One
    <3>2. QED
      BY <1>1, <3>1
  <2>3. QED
    BY <2>1, <2>2
<1>12. ASSUME NEW ptr \in 0 .. N - 1, NEW event, NEW x, x = One(event)
       PROVE  Stepped(ptr, event) = RingSlot(N, ptr, x)
  <2>1. CASE event
    <3>1. x = 1
      BY <1>12, <2>1 DEF One
    <3>2. QED
      BY <2>1, <3>1 DEF Stepped, RingSlot
  <2>2. CASE ~event
    <3>1. x = 0
      BY <1>12, <2>2 DEF One
    <3>2. RingSlot(N, ptr, 0) = ptr
      BY <1>1, RingOneToOne
    <3>3. QED
      BY <2>2, <3>1, <3>2 DEF Stepped
  <2>3. QED
    BY <2>1, <2>2
<1>13. /\ buf_alloc' = RingSlot(N, buf_alloc, p)
       /\ buf_com' = RingSlot(N, buf_com, c)
       /\ buf_ret' = RingSlot(N, buf_ret, r)
  <2>1. buf_alloc \in 0 .. N - 1 /\ buf_com \in 0 .. N - 1
    BY DEF IInv, TypeOK, BufSlots
  <2>2. /\ buf_alloc' = Stepped(buf_alloc, Pushed # {})
        /\ buf_com' = Stepped(buf_com, out # {})
        /\ buf_ret' = Stepped(buf_ret, retired)
    BY <1>2 DEF BufUpdate
  <2> HIDE DEF out
  <2>3. Stepped(buf_alloc, Pushed # {}) = RingSlot(N, buf_alloc, p)
    BY <1>12, <2>1
  <2>4. Stepped(buf_com, out # {}) = RingSlot(N, buf_com, c)
    BY <1>12, <2>1 DEF out
  <2>5. Stepped(buf_ret, retired) = RingSlot(N, buf_ret, r)
    BY <1>1, <1>12
  <2>6. QED
    BY <2>2, <2>3, <2>4, <2>5
<1> HIDE DEF out
<1>14. c <= cnt - done /\ Cardinality(Entered') = cnt - done - c + p
  BY <1>1, <1>6, <1>7, <1>8
<1>15. /\ \A i \in Entered \ out : RankNext(Entered', i) = Rank(Entered, i) - c
       /\ \A i \in Entering : RankNext(Entered', i) = cnt - done - c
  BY <1>1, <1>6, <1>8
<1>16. QED
  BY <1>2, <1>4, <1>5, <1>6, <1>7, <1>9, <1>10, <1>11, <1>13, <1>14, <1>15 DEF out

(* The row of the store that enters from stage 0.                          *)
Enters(r, suc) ==
    /\ r \in BufRow /\ r.busy /\ ~r.complete /\ r.mem_addr = stage0.uop.addr
    /\ r.data = Merged(LoadedWord(stage0.uop.addr), stage0.uop.bytes)
    /\ r.spec_tag = stage0.spec_tag \ suc /\ (r.is_spec <=> r.spec_tag # {})

(* What each row of the buffer holds after such a cycle.                   *)
LEMMA FlowBufRows ==
    ASSUME IInv, NEW g, NEW D, NEW suc, NEW issued, NEW retired,
           FlowOf(g, D, suc, issued, retired)
    PROVE  /\ \A k \in BufSlots :
                 Pushed # {} /\ k = buf_alloc => Enters(buf'[k], suc)
           /\ \A k \in Kept(retired) : ~(Pushed # {} /\ k = buf_alloc) =>
                 /\ Stays(buf'[k], buf[k], suc)
                 /\ buf'[k].complete <=> buf[k].complete \/ (Stores(Retiring) # {} /\ k = buf_com)
           /\ \A k \in BufSlots : ~(Pushed # {} /\ k = buf_alloc) /\ k \notin Kept(retired) =>
                 buf'[k] = FreeRow
           /\ DOMAIN buf' = BufSlots /\ buf' = [k \in BufSlots |-> buf'[k]]
<1> DEFINE committed_now == Stores(Retiring) # {}
           entering == {StoreRow(Resolved(s, suc)) : s \in Pushed}
           seen == {i \in BufSlots : committed_now /\ i = buf_com}
           x == LoadedWord(stage0.uop.addr)
           y == Merged(x, stage0.uop.bytes)
           z == StoreOf(stage0.is_spec, stage0.spec_tag, stage0.uop.addr, y)
<1>1. BufUpdate(Pushed, committed_now, retired, suc)
  BY DEF FlowOf, Flow
<1>2. /\ \A k \in BufSlots : buf'[k] =
            IF Pushed # {} /\ k = buf_alloc THEN CHOOSE row \in entering : TRUE
            ELSE IF k \in Kept(retired)
              THEN [Resolved(buf[k], suc) EXCEPT !.complete = @ \/ k \in seen]
            ELSE FreeRow
      /\ DOMAIN buf' = BufSlots /\ buf' = [k \in BufSlots |-> buf'[k]]
  BY <1>1 DEF BufUpdate, Kept
<1>3. Busy \subseteq BufSlots /\ Kept(retired) \subseteq Busy
  BY Typed DEF Kept
<1>4. ASSUME Pushed # {} PROVE Enters(CHOOSE row \in entering : TRUE, suc)
  <2>1. StageMoves /\ stage0.uop.is_store /\ stage0.valid
    BY <1>4 DEF Pushed, StageMoves
  <2>2. /\ stage0.uop \in Uops /\ stage0.is_spec \in BOOLEAN
        /\ stage0.spec_tag \in SUBSET Tags
    BY <2>1, RecordsTyped DEF FieldsTyped
  <2>3. stage0.is_spec <=> stage0.spec_tag # {}
    BY <2>1 DEF IInv, PairsSound, Follows
  <2>4. stage0.uop.addr \in Addrs
    BY <2>2, LoadStoreAssumption DEF Uop
  <2>5. x \in Word
    BY <2>4, LoadedTyped
  <2>6. y \in Word
    <3> HIDE DEF x
    <3>1. QED
      BY <2>2, <2>5, MergedTyped
  <2>7. Pushed = {z}
    BY <2>1, Zenon DEF Pushed, StoreOf
  <2> HIDE DEF y
  <2>8. IsStore(z, stage0.is_spec, stage0.spec_tag, stage0.uop.addr, y)
    BY <2>2, <2>4, <2>6, RecordsMade, Zenon
  <2> HIDE DEF z
  <2>9. /\ z \in StoreRec /\ z.mem_addr = stage0.uop.addr /\ z.data = y
        /\ z.spec_tag = stage0.spec_tag /\ (z.is_spec <=> z.spec_tag # {})
    BY <2>3, <2>8, Zenon DEF IsStore
  <2>10. entering = {StoreRow(Resolved(z, suc))}
    BY <2>7
  <2>11. ASSUME NEW r, r = StoreRow(Resolved(z, suc)) PROVE Enters(r, suc)
    <3>1. /\ r \in BufRow
          /\ r.busy /\ ~r.complete /\ r.mem_addr = z.mem_addr /\ r.data = z.data
          /\ r.spec_tag = z.spec_tag \ suc /\ (r.is_spec <=> r.spec_tag # {})
      BY <2>9, <2>11, StoreResolves
    <3>2. QED
      BY <2>9, <3>1, Zenon DEF Enters, y
  <2>12. (CHOOSE row \in entering : TRUE) = StoreRow(Resolved(z, suc))
    <3> HIDE DEF entering
    <3>1. QED
      BY <2>10
  <2>13. QED
    BY <2>11, <2>12
<1>5. ASSUME NEW k \in Kept(retired), ~(Pushed # {} /\ k = buf_alloc)
      PROVE  /\ Stays(buf'[k], buf[k], suc)
             /\ buf'[k].complete <=> buf[k].complete \/ (committed_now /\ k = buf_com)
  <2>1. k \in Busy /\ k \in BufSlots /\ buf[k] \in BufRow
    BY <1>3, RecordsTyped
  <2>2. buf[k].is_spec <=> buf[k].spec_tag # {}
    <3>1. CASE buf[k].complete
      BY <2>1, <3>1 DEF IInv, PairsSound
    <3>2. CASE ~buf[k].complete
      <4>1. \E cnt, done : BufferRun(cnt, done)
        BY DEF IInv, Buffered
      <4>2. \E i \in Entered : k = RowOf(i)
        BY <2>1, <3>2, <4>1, BufferRows
      <4>3. QED
        BY <4>2 DEF IInv, PairsSound, Follows
    <3>3. QED
      BY <3>1, <3>2
  <2>3. buf'[k] = [Resolved(buf[k], suc) EXCEPT !.complete = @ \/ k \in seen]
    BY <1>2, <1>5, <2>1
  <2>4. k \in seen <=> committed_now /\ k = buf_com
    BY <2>1
  <2> HIDE DEF seen
  <2>5. ASSUME NEW e, e = buf[k], NEW now \in BOOLEAN, now <=> k \in seen, NEW r, r = buf'[k]
        PROVE  Stays(r, e, suc) /\ (r.complete <=> e.complete \/ now)
    <3>1. e \in BufRow /\ (e.is_spec <=> e.spec_tag # {})
      BY <2>1, <2>2, <2>5
    <3>2. r = Completes(e, suc, now)
      <4>1. CASE now
        BY <2>3, <2>5, <4>1 DEF Completes
      <4>2. CASE ~now
        BY <2>3, <2>5, <4>2 DEF Completes
      <4>3. QED
        BY <4>1, <4>2
    <3>3. QED
      BY <3>1, <3>2, StoreStays
  <2>6. CASE k \in seen
    <3>1. Stays(buf'[k], buf[k], suc) /\ (buf'[k].complete <=> buf[k].complete \/ TRUE)
      BY <2>5, <2>6
    <3>2. QED
      BY <2>4, <2>6, <3>1, Zenon
  <2>7. CASE k \notin seen
    <3>1. Stays(buf'[k], buf[k], suc) /\ (buf'[k].complete <=> buf[k].complete \/ FALSE)
      BY <2>5, <2>7
    <3>2. QED
      BY <2>4, <2>7, <3>1, Zenon
  <2>8. QED
    BY <2>6, <2>7
<1>6. QED
  BY <1>2, <1>3, <1>4, <1>5

(* The buffer stays a run, split where the ROB stands; a store that stays  *)
(* keeps its row, and the one that enters takes buf_alloc.                 *)
LEMMA FlowBuffer ==
    ASSUME IInv, NEW g, NEW D, NEW suc, NEW issued, NEW retired,
           FlowOf(g, D, suc, issued, retired),
           NEW cnt, NEW done, BufferRun(cnt, done),
           NEW p, p = One(Pushed # {}), NEW c, c = One(Stores(Retiring) # {}),
           NEW r, r = One(retired)
    PROVE  /\ BufferRun(cnt - r + p, done - r + c)'
           /\ buf_ret' \in BufSlots /\ buf_com' \in BufSlots /\ buf_alloc' \in BufSlots
           /\ buf' \in [BufSlots -> BufRow \cup {FreeRow}]
           /\ Busy' = Kept(retired) \cup (IF Pushed # {} THEN {buf_alloc} ELSE {})
           /\ \A k \in Kept(retired) :
                 /\ Stays(buf'[k], buf[k], suc)
                 /\ buf'[k].complete <=> buf[k].complete \/ (Stores(Retiring) # {} /\ k = buf_com)
                 /\ BufPosNext(k) = BufPos(k) - r
           /\ Pushed # {} => buf_alloc \notin Busy /\ Enters(buf'[buf_alloc], suc)
           /\ \A i \in Entered \ Stores(Retiring) : RowNext(i) = RowOf(i) /\ RowOf(i) \in Kept(retired)
           /\ \A i \in Entering : RowNext(i) = buf_alloc
           /\ \A d \in Stores(Retiring) : RowOf(d) = buf_com /\ buf_com \in Kept(retired)
           /\ retired => buf_ret \in Busy /\ buf[buf_ret].complete /\ BufPos(buf_ret) = 0
<1> DEFINE N == BufDepth
           out == Stores(Retiring)
           m == cnt - r + p
           fin == done - r + c
<1>1. /\ cnt \in 0 .. N /\ done \in 0 .. cnt /\ Cardinality(Entered) = cnt - done
      /\ Busy = Run(N, buf_ret, cnt) /\ buf_com = RingSlot(N, buf_ret, done)
      /\ buf_alloc = RingSlot(N, buf_ret, cnt)
      /\ \A k \in Busy : buf[k].complete <=> BufPos(k) < done
      /\ N \in Nat \ {0} /\ buf_ret \in 0 .. N - 1
      /\ BufSlots = 0 .. N - 1 /\ Busy \subseteq BufSlots
  BY Typed, BufferRows DEF BufferRun
<1>2. /\ p \in 0 .. 1 /\ c \in 0 .. 1 /\ r \in 0 .. 1
      /\ (p = 1 <=> Pushed # {}) /\ (c = 1 <=> out # {}) /\ (r = 1 <=> retired)
      /\ p <= N - cnt /\ c <= cnt - done /\ r <= done
      /\ Cardinality(Entered') = cnt - done - c + p
      /\ \A i \in Entered \ out : RankNext(Entered', i) = Rank(Entered, i) - c
      /\ \A i \in Entering : RankNext(Entered', i) = cnt - done - c
      /\ \A d \in out : Rank(Entered, d) = 0
      /\ buf_alloc' = RingSlot(N, buf_alloc, p)
      /\ buf_com' = RingSlot(N, buf_com, c)
      /\ buf_ret' = RingSlot(N, buf_ret, r)
  BY FlowPointers
<1>3. /\ \A i \in Entered : /\ RowOf(i) \in Busy /\ ~buf[RowOf(i)].complete
                            /\ BufPos(RowOf(i)) = done + Rank(Entered, i)
                            /\ Rank(Entered, i) \in 0 .. cnt - done - 1
                            /\ RowOf(i) = RingSlot(N, buf_com, Rank(Entered, i))
      /\ \A k \in Busy : BufPos(k) \in 0 .. cnt - 1
  BY BufferRows
<1>4. /\ \A k \in BufSlots : Pushed # {} /\ k = buf_alloc => Enters(buf'[k], suc)
      /\ \A k \in Kept(retired) : ~(Pushed # {} /\ k = buf_alloc) =>
            /\ Stays(buf'[k], buf[k], suc)
            /\ buf'[k].complete <=> buf[k].complete \/ (out # {} /\ k = buf_com)
      /\ \A k \in BufSlots : ~(Pushed # {} /\ k = buf_alloc) /\ k \notin Kept(retired) =>
            buf'[k] = FreeRow
      /\ DOMAIN buf' = BufSlots /\ buf' = [k \in BufSlots |-> buf'[k]]
  BY FlowBufRows
<1>5. out \subseteq Entered /\ Entered' = (Entered \ out) \cup Entering
  BY FlowEntered
<1> HIDE DEF out
<1>6. /\ cnt \in Int /\ done \in Int /\ p \in Int /\ c \in Int /\ r \in Int
      /\ m \in 0 .. N /\ fin \in 0 .. m
  <2>1. N \in Int /\ cnt \in 0 .. N /\ done \in 0 .. cnt
    BY <1>1
  <2>2. p \in 0 .. 1 /\ c \in 0 .. 1 /\ r \in 0 .. 1 /\ p <= N - cnt /\ c <= cnt - done /\ r <= done
    BY <1>2
  <2>3. QED
    BY <2>1, <2>2
<1>30. /\ N \in Nat \ {0} /\ N \in Int /\ cnt \in 0 .. N /\ done \in 0 .. cnt /\ done \in 0 .. N
       /\ p \in 0 .. 1 /\ c \in 0 .. 1 /\ r \in 0 .. 1 /\ p \in 0 .. N /\ c \in 0 .. N
       /\ p <= N - cnt /\ c <= cnt - done /\ r <= done
  <2>1. N \in Nat \ {0} /\ cnt \in 0 .. N /\ done \in 0 .. cnt
    BY <1>1
  <2>2. p \in 0 .. 1 /\ c \in 0 .. 1 /\ r \in 0 .. 1 /\ p <= N - cnt /\ c <= cnt - done /\ r <= done
    BY <1>2
  <2>3. QED
    BY <2>1, <2>2
<1>7. RunMoved(N, buf_ret, cnt, p, r, buf_ret', buf_alloc)
  <2>1. p \in 0 .. N - cnt /\ r <= cnt
    BY <1>1, <1>2
  <2>2. ASSUME NEW x, x = buf_ret', NEW a, a = buf_alloc
        PROVE  RunMoved(N, buf_ret, cnt, p, r, x, a)
    <3>1. x = RingSlot(N, buf_ret, r) /\ a = RingSlot(N, buf_ret, cnt)
      BY <1>1, <1>2, <2>2
    <3>2. N \in Nat \ {0} /\ buf_ret \in 0 .. N - 1 /\ cnt \in 0 .. N /\ r \in 0 .. 1
      BY <1>1, <1>2
    <3>3. QED
      BY <2>1, <3>1, <3>2, RunMoves
  <2>3. QED
    BY <2>2
<1>8. RunMoved(N, buf_ret, done, c, r, buf_ret', buf_com)
  <2>1. c \in 0 .. N - done /\ r <= done /\ done \in 0 .. N
    BY <1>1, <1>2
  <2>2. ASSUME NEW x, x = buf_ret', NEW a, a = buf_com
        PROVE  RunMoved(N, buf_ret, done, c, r, x, a)
    <3>1. x = RingSlot(N, buf_ret, r) /\ a = RingSlot(N, buf_ret, done)
      BY <1>1, <1>2, <2>2
    <3>2. N \in Nat \ {0} /\ buf_ret \in 0 .. N - 1 /\ r \in 0 .. 1
      BY <1>1, <1>2
    <3>3. QED
      BY <2>1, <3>1, <3>2, RunMoves
  <2>3. QED
    BY <2>2
<1>9. /\ buf_ret' \in 0 .. N - 1 /\ buf_alloc \in 0 .. N - 1 /\ buf_com \in 0 .. N - 1
      /\ \A k \in 0 .. N - 1 : k \in Run(N, buf_ret', m) <=>
            \/ k \in Busy /\ ~(r = 1 /\ k = buf_ret)
            \/ RingDist(N, buf_alloc, k) < p
      /\ \A k \in Busy :
            /\ ~(RingDist(N, buf_alloc, k) < p)
            /\ ~(r = 1 /\ k = buf_ret) => BufPosNext(k) = BufPos(k) - r
      /\ buf_alloc' = RingSlot(N, buf_ret', m)
      /\ r = 1 => buf_ret \in Busy /\ BufPos(buf_ret) = 0
      /\ p = 1 => buf_alloc \notin Busy /\ BufPosNext(buf_alloc) = cnt - r
  <2>1. /\ buf_ret' \in 0 .. N - 1 /\ buf_alloc \in 0 .. N - 1
        /\ \A k \in 0 .. N - 1 : k \in Run(N, buf_ret', m) <=>
              \/ k \in Busy /\ ~(r = 1 /\ k = buf_ret)
              \/ RingDist(N, buf_alloc, k) < p
        /\ \A k \in Busy :
              /\ ~(RingDist(N, buf_alloc, k) < p)
              /\ ~(r = 1 /\ k = buf_ret) => BufPosNext(k) = BufPos(k) - r
        /\ buf_alloc' = RingSlot(N, buf_ret', m)
        /\ r = 1 => buf_ret \in Busy /\ BufPos(buf_ret) = 0
    BY <1>1, <1>2, <1>7 DEF RunMoved, BufPos, BufPosNext
  <2>2. buf_com \in 0 .. N - 1
    BY <1>8 DEF RunMoved
  <2>3. ASSUME p = 1 PROVE buf_alloc \notin Busy /\ BufPosNext(buf_alloc) = cnt - r
    <3>1. 0 \in 0 .. p - 1
      BY <2>3
    <3>2. /\ RingSlot(N, buf_alloc, 0) \notin Run(N, buf_ret, cnt)
          /\ RingDist(N, buf_ret', RingSlot(N, buf_alloc, 0)) = cnt + 0 - r
      BY <1>7, <3>1 DEF RunMoved
    <3>3. RingSlot(N, buf_alloc, 0) = buf_alloc
      BY <1>1, <2>1, RingOneToOne
    <3>4. QED
      BY <1>1, <1>6, <3>2, <3>3 DEF BufPosNext
  <2>4. QED
    BY <2>1, <2>2, <2>3
<1>10. buf_com' = RingSlot(N, buf_ret', fin)
  BY <1>2, <1>8 DEF RunMoved
<1>11. \A k \in 0 .. N - 1 : RingDist(N, buf_alloc, k) < p <=> Pushed # {} /\ k = buf_alloc
  <2>1. ASSUME NEW k \in 0 .. N - 1
        PROVE  /\ RingDist(N, buf_alloc, k) \in 0 .. N - 1
               /\ RingDist(N, buf_alloc, k) = 0 => k = buf_alloc
    BY <1>1, <1>9, RingThere
  <2>2. RingDist(N, buf_alloc, buf_alloc) = 0
    BY <1>1, <1>9, RingOneToOne
  <2>3. QED
    BY <1>2, <2>1, <2>2
<1>12. \A k : k \in Kept(retired) <=> k \in Busy /\ ~(r = 1 /\ k = buf_ret)
  BY <1>2 DEF Kept
<1>13. \A k \in Kept(retired) : ~(Pushed # {} /\ k = buf_alloc) /\ k \in BufSlots
  BY <1>1, <1>2, <1>9, <1>12
<1>14. ASSUME NEW k \in Kept(retired)
       PROVE  /\ Stays(buf'[k], buf[k], suc)
              /\ buf'[k].complete <=> buf[k].complete \/ (out # {} /\ k = buf_com)
              /\ BufPosNext(k) = BufPos(k) - r
  BY <1>4, <1>9, <1>12, <1>13
<1>15. ASSUME NEW k \in BufSlots
       PROVE  /\ buf'[k] \in BufRow \cup {FreeRow}
              /\ buf'[k].busy <=> k \in Kept(retired) \/ (Pushed # {} /\ k = buf_alloc)
  <2>1. CASE Pushed # {} /\ k = buf_alloc
    BY <1>4, <2>1 DEF Enters
  <2>2. CASE k \in Kept(retired)
    BY <1>14, <2>2 DEF Stays
  <2>3. CASE ~(Pushed # {} /\ k = buf_alloc) /\ k \notin Kept(retired)
    <3>1. buf'[k] = FreeRow
      BY <1>4, <2>3
    <3>2. buf'[k].busy = FALSE
      BY <3>1 DEF FreeRow
    <3>3. QED
      BY <2>3, <3>1, <3>2
  <2>4. QED
    BY <2>1, <2>2, <2>3
<1>16. buf' \in [BufSlots -> BufRow \cup {FreeRow}]
  BY <1>4, <1>15
<1>17. Busy' = Kept(retired) \cup (IF Pushed # {} THEN {buf_alloc} ELSE {})
  <2>1. Busy' = {k \in BufSlots : buf'[k].busy}
    BY DEF Busy
  <2>2. Pushed # {} => buf_alloc \in BufSlots
    BY <1>1, <1>9
  <2>3. Kept(retired) \subseteq BufSlots
    BY <1>13
  <2>4. QED
    BY <1>15, <2>1, <2>2, <2>3
<1>18. Busy' = Run(N, buf_ret', m)
  <2>1. Run(N, buf_ret', m) \subseteq 0 .. N - 1
    BY DEF Run
  <2>2. \A k \in 0 .. N - 1 : k \in Run(N, buf_ret', m) <=> k \in Kept(retired) \/ (Pushed # {} /\ k = buf_alloc)
    BY <1>9, <1>11, <1>12
  <2>3. Busy' \subseteq 0 .. N - 1
    BY <1>1, <1>9, <1>13, <1>17
  <2>4. QED
    BY <1>17, <2>1, <2>2, <2>3
<1>19. Pushed # {} => buf_alloc \notin Busy /\ Enters(buf'[buf_alloc], suc)
  BY <1>1, <1>2, <1>4, <1>9
<1>20. ASSUME NEW k \in Busy, c = 1 PROVE k = buf_com <=> BufPos(k) = done
  <2>1. CASE k = buf_com
    <3>1. done \in 0 .. N - 1
      BY <1>20, <1>30
    <3>2. QED
      BY <1>1, <2>1, <3>1, RingBack DEF BufPos
  <2>2. CASE BufPos(k) = done
    <3>1. k \in 0 .. N - 1
      BY <1>1
    <3>2. RingSlot(N, buf_ret, RingDist(N, buf_ret, k)) = k
      BY <1>1, <3>1, RingThere
    <3>3. QED
      BY <1>1, <2>2, <3>2 DEF BufPos
  <2>3. QED
    BY <2>1, <2>2
<1>21. ASSUME NEW k \in Kept(retired) PROVE buf'[k].complete <=> BufPosNext(k) < fin
  <2>1. k \in Busy /\ BufPos(k) \in Int /\ (buf[k].complete <=> BufPos(k) < done)
    BY <1>1, <1>3, <1>12
  <2>2. BufPosNext(k) = BufPos(k) - r
    BY <1>14
  <2>3. BufPosNext(k) < fin <=> BufPos(k) < done + c
    BY <1>6, <2>1, <2>2
  <2>4. CASE c = 1
    <3>1. buf'[k].complete <=> BufPos(k) < done \/ BufPos(k) = done
      BY <1>2, <1>14, <1>20, <2>1, <2>4
    <3>2. BufPos(k) < done + c <=> BufPos(k) < done \/ BufPos(k) = done
      BY <1>6, <2>1, <2>4
    <3>3. QED
      BY <2>3, <3>1, <3>2
  <2>5. CASE c = 0
    <3>1. buf'[k].complete <=> BufPos(k) < done
      BY <1>2, <1>14, <2>1, <2>5
    <3>2. done + c = done
      BY <1>6, <2>5
    <3>3. QED
      BY <2>3, <3>1, <3>2
  <2>6. QED
    BY <1>2, <2>4, <2>5
<1>22. Pushed # {} => ~buf'[buf_alloc].complete /\ ~(BufPosNext(buf_alloc) < fin)
  <2>1. ASSUME Pushed # {} PROVE ~(BufPosNext(buf_alloc) < fin)
    <3>1. BufPosNext(buf_alloc) = cnt - r /\ c <= cnt - done
      BY <1>2, <1>9, <2>1
    <3>2. QED
      BY <1>6, <3>1
  <2>2. QED
    BY <1>19, <2>1 DEF Enters
<1>23. BufferRun(m, fin)'
  <2>1. \A k : BufPos(k)' = BufPosNext(k)
    BY DEF BufPos, BufPosNext
  <2>2. \A k \in Busy' : buf'[k].complete <=> BufPosNext(k) < fin
    BY <1>17, <1>21, <1>22
  <2>3. m = fin + Cardinality(Entered')
    <3>1. Cardinality(Entered') = cnt - done - c + p
      BY <1>2
    <3>2. QED
      BY <1>6, <3>1
  <2> HIDE DEF m, fin
  <2>4. QED
    BY <1>6, <1>9, <1>10, <1>18, <2>1, <2>2, <2>3 DEF BufferRun
<1>24. ASSUME NEW i \in Entered \ out PROVE RowNext(i) = RowOf(i) /\ RowOf(i) \in Kept(retired)
  <2>1. /\ RankNext(Entered', i) = Rank(Entered, i) - c /\ Rank(Entered, i) \in 0 .. cnt - done - 1
        /\ RowOf(i) = RingSlot(N, buf_com, Rank(Entered, i))
        /\ RowOf(i) \in Busy /\ ~buf[RowOf(i)].complete
    BY <1>2, <1>3
  <2>2. PICK k \in Nat : k = RankNext(Entered', i) /\ k \in 0 .. N - c /\ c + k = Rank(Entered, i)
    <3>1. Rank(Entered, i) \in Int /\ Rank(Entered, i) >= 0 /\ Rank(Entered, i) < N
      BY <1>1, <2>1
    <3>2. Rank(Entered, i) >= c
      <4>1. CASE c = 0
        BY <3>1, <4>1
      <4>2. CASE c = 1
        <5>1. PICK d \in out : TRUE
          BY <1>2, <4>2
        <5>2. Rank(Entered, d) = 0 /\ d \in Entered /\ d # i
          BY <1>2, <1>5, <5>1
        <5>3. Rank(Entered, i) # 0
          <6>1. \A x, y \in Entered : Rank(Entered, x) = Rank(Entered, y) => x = y
            <7>1. RobTyped /\ Entered \in SUBSET InFlight
              BY Typed DEF Entered
            <7>2. QED
              BY <7>1, Ranks
          <6>2. QED
            BY <5>2, <6>1
        <5>4. QED
          BY <3>1, <4>2, <5>3
      <4>3. QED
        BY <1>2, <4>1, <4>2
    <3>3. QED
      <4>1. PICK k \in Int : k = Rank(Entered, i) - c
        BY <1>30, <3>1
      <4>2. k \in Nat /\ k \in 0 .. N - c /\ c + k = Rank(Entered, i)
        BY <1>30, <3>1, <3>2, <4>1
      <4>3. k = RankNext(Entered', i)
        BY <2>1, <4>1
      <4>4. QED
        BY <4>2, <4>3
  <2>3. RingSlot(N, RingSlot(N, buf_com, c), k) = RingSlot(N, buf_com, c + k)
    <3>1. buf_com \in 0 .. N - 1 /\ k \in 0 .. N - c
      BY <1>9, <2>2
    <3>2. N \in Nat \ {0} /\ c \in 0 .. N
      BY <1>30
    <3>3. QED
      BY <3>1, <3>2, RingOn
  <2>4. RowNext(i) = RowOf(i)
    BY <1>2, <2>1, <2>2, <2>3 DEF RowNext
  <2>5. ~(r = 1 /\ RowOf(i) = buf_ret)
    <3>1. r = 1 => BufPos(buf_ret) = 0 /\ buf_ret \in Busy /\ 0 < done
      BY <1>2, <1>6, <1>9
    <3>2. r = 1 => buf[buf_ret].complete
      BY <1>1, <3>1
    <3>3. QED
      BY <2>1, <3>2
  <2>6. QED
    BY <1>12, <2>1, <2>4, <2>5
<1>25. ASSUME NEW i \in Entering PROVE RowNext(i) = buf_alloc
  <2>1. RankNext(Entered', i) = cnt - done - c
    BY <1>2
  <2>2. PICK k \in Nat : k = cnt - done - c /\ k \in 0 .. N - c /\ c + k = cnt - done
    <3>1. cnt - done - c \in Nat /\ cnt - done - c \in 0 .. N - c
      BY <1>30
    <3>2. c + (cnt - done - c) = cnt - done
      BY <1>30
    <3>3. QED
      BY <3>1, <3>2
  <2>3. RingSlot(N, RingSlot(N, buf_com, c), k) = RingSlot(N, buf_com, c + k)
    <3>1. buf_com \in 0 .. N - 1 /\ k \in 0 .. N - c
      BY <1>9, <2>2
    <3>2. QED
      BY <1>30, <3>1, RingOn
  <2>4. RingSlot(N, buf_com, cnt - done) = buf_alloc
    <3>1. PICK q \in Nat : q = cnt - done /\ q \in 0 .. N - done /\ done + q = cnt /\ done \in 0 .. N
      BY <1>30
    <3>2. RingSlot(N, RingSlot(N, buf_ret, done), q) = RingSlot(N, buf_ret, done + q)
      BY <1>1, <3>1, RingOn
    <3>3. QED
      BY <1>1, <3>1, <3>2
  <2>5. QED
    BY <1>2, <2>1, <2>2, <2>3, <2>4 DEF RowNext
<1>26. ASSUME NEW d \in out PROVE RowOf(d) = buf_com /\ buf_com \in Kept(retired)
  <2>1. /\ Rank(Entered, d) = 0 /\ d \in Entered /\ RowOf(d) = RingSlot(N, buf_com, 0)
        /\ RowOf(d) \in Busy /\ ~buf[RowOf(d)].complete
    BY <1>2, <1>3, <1>5
  <2>2. RowOf(d) = buf_com
    BY <1>1, <1>9, <2>1, RingOneToOne
  <2>3. ~(r = 1 /\ buf_com = buf_ret)
    <3>1. r = 1 => BufPos(buf_ret) = 0 /\ buf_ret \in Busy /\ 0 < done
      BY <1>2, <1>6, <1>9
    <3>2. r = 1 => buf[buf_ret].complete
      BY <1>1, <3>1
    <3>3. QED
      BY <2>1, <2>2, <3>2
  <2>4. QED
    BY <1>12, <2>1, <2>2, <2>3
<1>27. retired => buf_ret \in Busy /\ buf[buf_ret].complete /\ BufPos(buf_ret) = 0
  <2>1. r = 1 => BufPos(buf_ret) = 0 /\ buf_ret \in Busy /\ 0 < done
    BY <1>2, <1>6, <1>9
  <2>2. QED
    BY <1>1, <1>2, <2>1
<1>28. buf_ret' \in BufSlots /\ buf_com' \in BufSlots /\ buf_alloc' \in BufSlots
  <2>1. buf_com' \in 0 .. N - 1 /\ buf_alloc' \in 0 .. N - 1
    <3>1. RingSlot(N, buf_com, c) \in 0 .. N - 1 /\ RingSlot(N, buf_alloc, p) \in 0 .. N - 1
      BY <1>9, <1>30, RingMoves
    <3>2. QED
      BY <1>2, <3>1
  <2>2. QED
    BY <1>1, <1>9, <2>1
<1>29. QED
  BY <1>14, <1>16, <1>17, <1>19, <1>23, <1>24, <1>25, <1>26, <1>27, <1>28 DEF out

(* A row that retires has no open branch ahead of it.                      *)
LEMMA RetiringUnpaired ==
    ASSUME IInv, NEW i \in Retiring
    PROVE  i \in InFlight /\ PairTag(i) = {} /\ \A j \in InFlight : Age(j) < Age(i) => j \in Retiring
<1>1. /\ Retiring = {j \in Slots : Age(j) < Gone} /\ \A j \in Retiring : table[j].wb_fin
      /\ Gone \in 0 .. used_entry_cnt /\ used_entry_cnt \in Nat
      /\ InFlight \subseteq Slots /\ com_ptr \in Slots /\ Opened \subseteq Unfinished
      /\ \A j \in Slots : Age(j) \in Int
  <2>1. RobTyped
    BY Typed
  <2>2. com_ptr \in Slots /\ used_entry_cnt \in Nat
    BY <2>1, RobAssumption DEF RobTyped
  <2>3. \A j \in Slots : Age(j) \in Slots
    BY <2>2, SlotsAndAges, AgeIsFrom
  <2>4. \A j \in Slots : Age(j) \in Int
    BY <2>3 DEF Slots
  <2>5. QED
    BY <2>1, <2>2, <2>4, Typed, RetiringIsPrefix
<1>2. i \in InFlight
  BY <1>1 DEF InFlight
<1>3. ASSUME NEW j \in InFlight, Age(j) < Age(i) PROVE j \in Retiring
  BY <1>1, <1>3
<1>4. OpenAhead(i) = {}
  <2>1. ASSUME NEW j \in Opened, Age(j) < Age(i) PROVE FALSE
    BY <1>1, <1>3, <2>1 DEF Unfinished
  <2>2. QED
    BY <2>1 DEF OpenAhead
<1>5. QED
  BY <1>2, <1>3, <1>4 DEF PairTag

(* A pair after a step is right when it is the tag of its row's number.    *)
LEMMA FollowsNext ==
    /\ \A i : i = stage1'.rob_des_idx /\ stage1'.spec_tag = PairTag(i)'
                /\ (stage1'.is_spec <=> stage1'.spec_tag # {})
              => Follows(stage1, stage1.rob_des_idx)'
    /\ \A i : i = stage0'.rob_des_idx /\ stage0'.spec_tag = PairTag(i)'
                /\ (stage0'.is_spec <=> stage0'.spec_tag # {})
              => Follows(stage0, stage0.rob_des_idx)'
    /\ \A k, i : i = rsv'[k].rob_des_idx /\ rsv'[k].spec_tag = PairTag(i)'
                   /\ (rsv'[k].is_spec <=> rsv'[k].spec_tag # {})
                 => Follows(rsv[k], EntryOf(k))'
    /\ \A k, i : k = RowNext(i) /\ buf'[k].spec_tag = PairTag(i)'
                   /\ (buf'[k].is_spec <=> buf'[k].spec_tag # {})
                 => Follows(buf[RowOf(i)], i)'
<1>1. ASSUME NEW i, i = stage1'.rob_des_idx, stage1'.spec_tag = PairTag(i)',
             stage1'.is_spec <=> stage1'.spec_tag # {}
      PROVE  Follows(stage1, stage1.rob_des_idx)'
  <2>1. PairTag(stage1.rob_des_idx)' = PairTag(i)'
    BY <1>1 DEF PairTag, OpenAhead, LastOf, Age
  <2>2. QED
    BY <1>1, <2>1 DEF Follows
<1>2. ASSUME NEW i, i = stage0'.rob_des_idx, stage0'.spec_tag = PairTag(i)',
             stage0'.is_spec <=> stage0'.spec_tag # {}
      PROVE  Follows(stage0, stage0.rob_des_idx)'
  <2>1. PairTag(stage0.rob_des_idx)' = PairTag(i)'
    BY <1>2 DEF PairTag, OpenAhead, LastOf, Age
  <2>2. QED
    BY <1>2, <2>1 DEF Follows
<1>3. ASSUME NEW k, NEW i, i = rsv'[k].rob_des_idx, rsv'[k].spec_tag = PairTag(i)',
             rsv'[k].is_spec <=> rsv'[k].spec_tag # {}
      PROVE  Follows(rsv[k], EntryOf(k))'
  <2>1. PairTag(EntryOf(k))' = PairTag(i)'
    BY <1>3 DEF PairTag, OpenAhead, LastOf, Age, EntryOf
  <2>2. QED
    BY <1>3, <2>1 DEF Follows
<1>4. ASSUME NEW k, NEW i, k = RowNext(i), buf'[k].spec_tag = PairTag(i)',
             buf'[k].is_spec <=> buf'[k].spec_tag # {}
      PROVE  Follows(buf[RowOf(i)], i)'
  <2>1. RowOf(i)' = k
    BY <1>4 DEF RowOf, RowNext, RankNext, RingSlot, Age, AgeNext, AgeFrom
  <2>2. QED
    BY <1>4, <2>1 DEF Follows
<1>5. QED
  BY <1>1, <1>2, <1>3, <1>4

(* Pairs stay right in such a cycle, those of the records that issue,      *)
(* change stage or enter the buffer in it too.                             *)
LEMMA FlowPairs ==
    ASSUME IInv, NEW g, NEW D, NEW suc, NEW issued, NEW retired,
           FlowOf(g, D, suc, issued, retired)
    PROVE  PairsSound'
<1> DEFINE s0 == stage0.rob_des_idx
           out == Stores(Retiring)
<1>1. /\ stage0.valid => Follows(stage0, s0)
      /\ \A k \in Waiting : Follows(rsv[k], EntryOf(k))
      /\ \A i \in Entered : Follows(buf[RowOf(i)], i)
      /\ \A k \in Busy : buf[k].complete => ~buf[k].is_spec /\ buf[k].spec_tag = {}
  BY DEF IInv, PairsSound
<1>2. /\ stage0.valid => s0 \in InFlight /\ s0 \in InFlight'
      /\ \A k \in Waiting : EntryOf(k) \in InFlight /\ EntryOf(k) \in InFlight'
  BY FlowWaits
<1>3. /\ \A i \in InFlight : i \in InFlight' => PairTag(i)' = PairTag(i) \ suc
      /\ \A i \in InFlight', l \in Accesses(g) : i = SlotOf(g, l) =>
            PairTag(i)' = TagInForce(Before(Branches(g), l))
  BY FlowTags
<1>4. /\ stage1_on' = StageMoves /\ StageMoves \in BOOLEAN
      /\ StageMoves => stage0.valid /\ Drops(stage1', stage0, suc)
      /\ issued => Drops(stage0', rsv[rsv_head], suc) /\ rsv_head \in Waiting
      /\ ~issued /\ stage0.valid /\ ~StageMoves => Drops(stage0', stage0, suc)
      /\ ~issued /\ (StageMoves \/ ~stage0.valid) => ~stage0'.valid
  BY FlowStages
<1>5. stage1_on' => Follows(stage1, stage1.rob_des_idx)'
  <2>1. ASSUME stage1_on', NEW i, i = s0 PROVE Follows(stage1, stage1.rob_des_idx)'
    <3>1. stage0.valid /\ Drops(stage1', stage0, suc)
      BY <1>4, <2>1
    <3>2. PairTag(i)' = stage0.spec_tag \ suc
      BY <1>1, <1>2, <1>3, <2>1, <3>1 DEF Follows
    <3>3. QED
      BY <2>1, <3>1, <3>2, FollowsNext DEF Drops
  <2>2. QED
    BY <2>1
<1>6. stage0'.valid => Follows(stage0, stage0.rob_des_idx)'
  <2>1. ASSUME issued, NEW i, i = EntryOf(rsv_head) PROVE Follows(stage0, stage0.rob_des_idx)'
    <3>1. rsv_head \in Waiting /\ Drops(stage0', rsv[rsv_head], suc)
      BY <1>4, <2>1
    <3>2. PairTag(i)' = rsv[rsv_head].spec_tag \ suc
      BY <1>1, <1>2, <1>3, <2>1, <3>1 DEF Follows
    <3>3. QED
      BY <2>1, <3>1, <3>2, FollowsNext DEF Drops, EntryOf
  <2>2. ASSUME ~issued, stage0.valid, ~StageMoves, NEW i, i = s0
        PROVE  Follows(stage0, stage0.rob_des_idx)'
    <3>1. Drops(stage0', stage0, suc)
      BY <1>4, <2>2
    <3>2. PairTag(i)' = stage0.spec_tag \ suc
      BY <1>1, <1>2, <1>3, <2>2 DEF Follows
    <3>3. QED
      BY <2>2, <3>1, <3>2, FollowsNext DEF Drops
  <2>3. QED
    BY <1>4, <2>1, <2>2
<1>7. ASSUME NEW k \in Waiting' PROVE Follows(rsv[k], EntryOf(k))'
  <2>1. PICK n \in 0 .. RsvSize : StationRun(n)
    BY DEF IInv, Placed
  <2>2. PICK w, e : w = Cardinality(Accesses(g)) /\ e = One(issued)
    OBVIOUS
  <2>3. /\ Waiting' = Left(issued) \cup {Port(g, l) : l \in Accesses(g)}
        /\ \A x \in Left(issued) : rsv'[x] = Resolved(rsv[x], suc)
        /\ \A l \in Accesses(g) : rsv'[Port(g, l)] = Entry(g, l)
    BY <2>1, <2>2, FlowStation
  <2>4. CASE k \in Left(issued)
    <3>1. k \in Waiting /\ rsv[k] \in Record /\ (rsv[k].is_spec <=> rsv[k].spec_tag # {})
      BY <1>1, <2>4, RecordsTyped DEF Left, Follows
    <3>2. Drops(rsv'[k], rsv[k], suc)
      BY <2>3, <2>4, <3>1, RecordResolves
    <3>3. ASSUME NEW i, i = EntryOf(k) PROVE Follows(rsv[k], EntryOf(k))'
      <4>1. PairTag(i)' = rsv[k].spec_tag \ suc
        BY <1>1, <1>2, <1>3, <3>1, <3>3 DEF Follows
      <4>2. QED
        BY <3>2, <3>3, <4>1, FollowsNext DEF Drops, EntryOf
    <3>4. QED
      BY <3>3
  <2>5. ASSUME NEW l \in Accesses(g), k = Port(g, l) PROVE Follows(rsv[k], EntryOf(k))'
    <3>1. g \in Landing /\ SlotOf(g, l) \in InFlight' /\ SlotOf(g, l) \in Slots
      <4>1. l \in Valid(g) /\ g \in Landing
        BY LaneKinds DEF FlowOf
      <4>2. SlotOf(g, l) \in InFlight'
        BY <4>1, FlowRows
      <4>3. QED
        BY <4>1, <4>2 DEF InFlight
    <3>2. ASSUME NEW i, i = SlotOf(g, l), NEW x, x = Entry(g, l) PROVE Follows(rsv[k], EntryOf(k))'
      <4>1. /\ rsv'[k] = x /\ x.rob_des_idx = i
            /\ x.spec_tag = TagInForce(Before(Branches(g), l)) /\ (x.is_spec <=> x.spec_tag # {})
        BY <2>3, <2>5, <3>1, <3>2, EntryLands
      <4>2. PairTag(i)' = TagInForce(Before(Branches(g), l))
        BY <1>3, <3>1, <3>2
      <4>3. QED
        BY <4>1, <4>2, FollowsNext
    <3>3. QED
      BY <3>2
  <2>6. QED
    BY <2>3, <2>4, <2>5
<1>8. PICK cnt, done : BufferRun(cnt, done)
  BY DEF IInv, Buffered
<1>9. PICK p, c, r : p = One(Pushed # {}) /\ c = One(out # {}) /\ r = One(retired)
  OBVIOUS
<1>10. /\ Busy' = Kept(retired) \cup (IF Pushed # {} THEN {buf_alloc} ELSE {})
       /\ \A k \in Kept(retired) :
             /\ Stays(buf'[k], buf[k], suc)
             /\ buf'[k].complete <=> buf[k].complete \/ (out # {} /\ k = buf_com)
       /\ Pushed # {} => Enters(buf'[buf_alloc], suc)
       /\ \A i \in Entered \ out : RowNext(i) = RowOf(i) /\ RowOf(i) \in Kept(retired)
       /\ \A i \in Entering : RowNext(i) = buf_alloc
       /\ \A d \in out : RowOf(d) = buf_com
  BY <1>8, <1>9, FlowBuffer
<1>11. /\ Entered \subseteq InFlight /\ out \subseteq Entered /\ Entered' = (Entered \ out) \cup Entering
       /\ \A i \in (Entered \ out) \cup Entering : i \in InFlight'
       /\ Pushed # {} => StageMoves
  BY FlowEntered
<1>12. ASSUME NEW i \in Entered' PROVE Follows(buf[RowOf(i)], i)'
  <2>1. CASE i \in Entered \ out
    <3>1. ASSUME NEW k, k = RowOf(i) PROVE Follows(buf[RowOf(i)], i)'
      <4>1. Stays(buf'[k], buf[k], suc) /\ k = RowNext(i)
        BY <1>10, <2>1, <3>1
      <4>2. PairTag(i)' = buf[k].spec_tag \ suc
        BY <1>1, <1>3, <1>11, <2>1, <3>1 DEF Follows
      <4>3. QED
        BY <4>1, <4>2, FollowsNext DEF Stays
    <3>2. QED
      BY <3>1
  <2>2. CASE i \in Entering
    <3>1. ASSUME NEW k, k = buf_alloc PROVE Follows(buf[RowOf(i)], i)'
      <4>1. Pushed # {} /\ i = s0 /\ stage0.valid
        BY <1>4, <1>11, <2>2 DEF Entering
      <4>2. Enters(buf'[k], suc) /\ k = RowNext(i)
        BY <1>10, <2>2, <3>1, <4>1
      <4>3. PairTag(i)' = stage0.spec_tag \ suc
        BY <1>1, <1>2, <1>3, <4>1 DEF Follows
      <4>4. QED
        BY <4>2, <4>3, FollowsNext DEF Enters
    <3>2. QED
      BY <3>1
  <2>3. QED
    BY <1>11, <2>1, <2>2
<1>13. ASSUME NEW k \in Busy', buf'[k].complete PROVE ~buf'[k].is_spec /\ buf'[k].spec_tag = {}
  <2>1. k \in Kept(retired)
    BY <1>10, <1>13 DEF Enters
  <2>2. k \in Busy /\ Stays(buf'[k], buf[k], suc)
    BY <1>10, <2>1 DEF Kept
  <2>3. buf[k].spec_tag = {}
    <3>1. CASE buf[k].complete
      BY <1>1, <2>2, <3>1
    <3>2. ASSUME NEW d \in out, k = buf_com PROVE buf[k].spec_tag = {}
      <4>1. d \in Retiring /\ d \in Entered /\ RowOf(d) = k
        BY <1>10, <1>11, <3>2 DEF Stores
      <4>2. PairTag(d) = {}
        BY <4>1, RetiringUnpaired
      <4>3. QED
        BY <1>1, <4>1, <4>2 DEF Follows
    <3>3. QED
      BY <1>10, <1>13, <2>1, <3>1, <3>2
  <2>4. QED
    BY <2>2, <2>3 DEF Stays
<1>14. QED
  BY <1>5, <1>6, <1>7, <1>12, <1>13 DEF PairsSound

-----------------------------------------------------------------------------
(* Words.                                                                  *)

(* The stores in flight to addr that are older than row i, those of them   *)
(* that write piece p, and what they leave of it.                          *)
Writers(i, addr) ==
    {j \in InFlight : Age(j) < Age(i) /\ table[j].uop.is_store /\ table[j].uop.addr = addr}
WritersOf(i, addr, p) ==
    {j \in InFlight : /\ Age(j) < Age(i)
                      /\ table[j].uop.is_store
                      /\ table[j].uop.addr = addr
                      /\ p \in DOMAIN table[j].uop.bytes}
PieceBefore(i, addr, p) ==
    IF WritersOf(i, addr, p) = {} THEN committed[addr][p]
    ELSE table[LastOf(WritersOf(i, addr, p))].uop.bytes[p]

(* A word is its pieces.                                                   *)
LEMMA WordIsPieces ==
    /\ \A i, addr : WordBefore(i, addr) = [p \in Parts |-> PieceBefore(i, addr, p)]
    /\ \A i, addr, p : WritersOf(i, addr, p) =
          {j \in Writers(i, addr) : p \in DOMAIN table[j].uop.bytes}
<1>1. \A i, addr : WordBefore(i, addr) = [p \in Parts |-> PieceBefore(i, addr, p)]
  BY Zenon DEF WordBefore, PieceBefore, LastOf, WritersOf
<1>2. \A i, addr, p : WritersOf(i, addr, p) =
          {j \in Writers(i, addr) : p \in DOMAIN table[j].uop.bytes}
  BY DEF WritersOf, Writers
<1>3. QED
  BY <1>1, <1>2

(* The word before row i is the committed one when no store of it is ahead *)
(* in flight, and else what the last of them makes of the word before it.  *)
LEMMA WordStep ==
    ASSUME IInv, NEW i \in InFlight, NEW addr \in Addrs
    PROVE  /\ Writers(i, addr) = {} => WordBefore(i, addr) = committed[addr]
           /\ \A y \in Writers(i, addr) : (\A j \in Writers(i, addr) : Age(j) <= Age(y)) =>
                 WordBefore(i, addr) = Merged(WordBefore(y, addr), table[y].uop.bytes)
<1>1. /\ RobTyped /\ \A j \in InFlight : Age(j) \in Int
      /\ \A j, k \in InFlight : Age(j) = Age(k) => j = k
      /\ committed[addr] \in Word
  <2>1. RobTyped /\ InFlight \subseteq Slots /\ com_ptr \in Slots /\ \A j \in InFlight : Age(j) \in Nat
    BY Typed DEF RobTyped
  <2>2. \A j, k \in InFlight : Age(j) = Age(k) => j = k
    BY <2>1, SlotsAndAges, AgeIsFrom
  <2>3. committed[addr] \in Word
    BY Typed
  <2>4. QED
    BY <2>1, <2>2, <2>3
<1>2. WordBefore(i, addr) = [p \in Parts |-> PieceBefore(i, addr, p)]
  BY WordIsPieces
<1>3. ASSUME Writers(i, addr) = {} PROVE WordBefore(i, addr) = committed[addr]
  <2>1. \A p : PieceBefore(i, addr, p) = committed[addr][p]
    <3>1. \A p : WritersOf(i, addr, p) = {}
      BY <1>3, WordIsPieces
    <3>2. QED
      BY <3>1 DEF PieceBefore
  <2>2. committed[addr] = [p \in Parts |-> committed[addr][p]]
    BY <1>1 DEF Word
  <2>3. QED
    BY <1>2, <2>1, <2>2
<1>4. ASSUME NEW y \in Writers(i, addr), \A j \in Writers(i, addr) : Age(j) <= Age(y)
      PROVE  WordBefore(i, addr) = Merged(WordBefore(y, addr), table[y].uop.bytes)
  <2>1. WordBefore(y, addr) = [p \in Parts |-> PieceBefore(y, addr, p)]
    BY WordIsPieces
  <2>2. ASSUME NEW p \in Parts, p \in DOMAIN table[y].uop.bytes
        PROVE  PieceBefore(i, addr, p) = table[y].uop.bytes[p]
    <3> DEFINE W == WritersOf(i, addr, p)
    <3>1. y \in W /\ W \in SUBSET InFlight /\ \A j \in W : Age(j) <= Age(y)
      BY <1>4, <2>2 DEF WritersOf, Writers
    <3>2. LastOf(W) = y
      BY <1>1, <3>1, LastIsYoungest
    <3>3. QED
      BY <3>1, <3>2 DEF PieceBefore
  <2>3. ASSUME NEW p \in Parts, p \notin DOMAIN table[y].uop.bytes
        PROVE  PieceBefore(i, addr, p) = PieceBefore(y, addr, p)
    <3>1. WritersOf(i, addr, p) = WritersOf(y, addr, p)
      <4>1. ASSUME NEW j \in WritersOf(i, addr, p) PROVE j \in WritersOf(y, addr, p)
        <5>1. j \in Writers(i, addr) /\ p \in DOMAIN table[j].uop.bytes /\ j # y /\ j \in InFlight
          BY <2>3, <4>1 DEF WritersOf, Writers
        <5>2. Age(j) <= Age(y) /\ Age(j) # Age(y) /\ Age(j) \in Int /\ Age(y) \in Int
          BY <1>1, <1>4, <5>1 DEF Writers
        <5>3. Age(j) < Age(y)
          BY <5>2
        <5>4. QED
          BY <5>1, <5>3 DEF WritersOf, Writers
      <4>2. ASSUME NEW j \in WritersOf(y, addr, p) PROVE j \in WritersOf(i, addr, p)
        <5>1. /\ j \in InFlight /\ Age(j) < Age(y) /\ Age(y) < Age(i)
              /\ Age(j) \in Int /\ Age(y) \in Int /\ Age(i) \in Int
          BY <1>1, <1>4, <4>2 DEF WritersOf, Writers
        <5>2. Age(j) < Age(i)
          BY <5>1
        <5>3. QED
          BY <4>2, <5>2 DEF WritersOf, Writers
      <4>3. QED
        BY <4>1, <4>2
    <3>2. QED
      BY <3>1 DEF PieceBefore
  <2>4. \A p \in Parts : PieceBefore(i, addr, p) =
            IF p \in DOMAIN table[y].uop.bytes THEN table[y].uop.bytes[p]
                                               ELSE WordBefore(y, addr)[p]
    BY <2>1, <2>2, <2>3
  <2>5. QED
    BY <1>2, <2>4 DEF Merged
<1>5. QED
  BY <1>3, <1>4

(* The stores ahead of stage 0 have entered the buffer, and only they.     *)
LEMMA AheadOfStageZero ==
    ASSUME IInv, stage0.valid, NEW i, i = stage0.rob_des_idx
    PROVE  /\ i \in InFlight /\ stage0.uop = table[i].uop
           /\ \A addr : \A j \in Writers(i, addr) : j \in Entered
           /\ \A j \in Entered : Age(j) < Age(i)
           /\ \A j \in Entered : \A addr : table[j].uop.addr = addr => j \in Writers(i, addr)
<1>1. i \in Waits /\ i \in InFlight /\ stage0.uop = table[i].uop
  BY Typed DEF IInv, Placed, Holds
<1>2. /\ \A k \in InFlight : Age(k) \in Int
      /\ \A k \in Waiting : Age(i) < Age(EntryOf(k))
      /\ stage1_on => Age(stage1.rob_des_idx) < Age(i)
      /\ \A k \in InFlight, j \in Waits :
            IsAccess(table[k].uop) /\ table[k].wb_fin => Age(k) < Age(j)
      /\ \A k \in Waits : \/ stage1_on /\ k = stage1.rob_des_idx
                          \/ stage0.valid /\ k = stage0.rob_des_idx
                          \/ \E x \in Waiting : k = EntryOf(x)
  BY Typed DEF IInv, Placed
<1>3. ASSUME NEW addr, NEW j \in Writers(i, addr) PROVE j \in Entered
  <2>1. j \in InFlight /\ table[j].uop.is_store /\ Age(j) < Age(i)
    BY DEF Writers
  <2>2. CASE table[j].wb_fin
    BY <2>1, <2>2 DEF Entered
  <2>3. CASE ~table[j].wb_fin
    <3>1. j \in Waits
      BY <2>1, <2>3 DEF Waits, Unfinished, IsAccess
    <3>2. Age(j) \in Int /\ Age(i) \in Int
      BY <1>1, <1>2, <2>1
    <3>3. stage1_on /\ j = stage1.rob_des_idx
      BY <1>1, <1>2, <2>1, <3>1, <3>2
    <3>4. QED
      BY <2>1, <3>3 DEF Entered, Reported
  <2>4. QED
    BY <2>2, <2>3
<1>4. ASSUME NEW j \in Entered PROVE Age(j) < Age(i)
  <2>1. j \in InFlight /\ table[j].uop.is_store /\ (table[j].wb_fin \/ j \in Reported)
    BY DEF Entered
  <2>2. QED
    BY <1>1, <1>2, <2>1 DEF Reported, IsAccess
<1>5. \A j \in Entered : \A addr : table[j].uop.addr = addr => j \in Writers(i, addr)
  BY <1>4 DEF Entered, Writers
<1>6. QED
  BY <1>1, <1>3, <1>4, <1>5

(* Stage 0 sees the word program order gives it.                           *)
LEMMA StageZeroReads ==
    ASSUME IInv, stage0.valid, NEW i, i = stage0.rob_des_idx, NEW addr \in Addrs
    PROVE  LoadedWord(addr) = WordBefore(i, addr)
<1>1. PICK cnt, done : BufferRun(cnt, done)
  BY DEF IInv, Buffered
<1>2. /\ done \in Int
      /\ \A k \in Busy : BufPos(k) \in Int /\ (buf[k].complete <=> BufPos(k) < done)
      /\ \A j, k \in Busy : BufPos(j) = BufPos(k) => j = k
      /\ \A j \in Entered : /\ RowOf(j) \in Busy /\ ~buf[RowOf(j)].complete
                            /\ BufPos(RowOf(j)) = done + Rank(Entered, j)
                            /\ Rank(Entered, j) \in Int
      /\ \A k \in Busy : ~buf[k].complete => \E j \in Entered : k = RowOf(j)
  BY <1>1, BufferRows
<1>3. /\ i \in InFlight
      /\ \A j \in Writers(i, addr) : j \in Entered
      /\ \A j \in Entered : table[j].uop.addr = addr => j \in Writers(i, addr)
  BY AheadOfStageZero
<1>4. /\ Writers(i, addr) = {} => WordBefore(i, addr) = committed[addr]
      /\ \A y \in Writers(i, addr) : (\A j \in Writers(i, addr) : Age(j) <= Age(y)) =>
            WordBefore(i, addr) = Merged(WordBefore(y, addr), table[y].uop.bytes)
  BY <1>3, WordStep
<1>5. \A j \in Entered : /\ buf[RowOf(j)].mem_addr = table[j].uop.addr
                         /\ buf[RowOf(j)].data =
                              Merged(WordBefore(j, table[j].uop.addr), table[j].uop.bytes)
  BY DEF IInv, WordsSound, StoreMerged
<1>6. Committed(addr)
  BY DEF IInv, WordsSound
<1>7. \A j \in Writers(i, addr) : /\ RowOf(j) \in Matches(addr) /\ ~buf[RowOf(j)].complete
                                  /\ table[j].uop.addr = addr
  BY <1>2, <1>3, <1>5 DEF Matches, Writers
<1>8. CASE ~SearchHit(addr)
  <2>1. Matches(addr) = {}
    BY <1>8 DEF SearchHit
  <2>2. Writers(i, addr) = {} /\ Drained(addr) = {}
    BY <1>7, <2>1 DEF Matches, Drained
  <2>3. committed[addr] = mem[addr]
    BY <1>6, <2>2 DEF Committed
  <2>4. QED
    BY <1>4, <1>8, <2>2, <2>3 DEF LoadedWord
<1>9. CASE SearchHit(addr)
  <2>1. PICK k \in Matches(addr) : /\ Newest(addr) = buf[k].data
                                   /\ \A j \in Matches(addr) : BufPos(j) <= BufPos(k)
    BY <1>9, NewestIsLast
  <2>2. LoadedWord(addr) = buf[k].data /\ k \in Busy /\ buf[k].mem_addr = addr
    BY <1>9, <2>1 DEF LoadedWord, Matches
  <2>3. CASE ~buf[k].complete
    <3>1. PICK y \in Entered : k = RowOf(y)
      BY <1>2, <2>2, <2>3
    <3>2. table[y].uop.addr = addr /\ y \in Writers(i, addr)
      BY <1>3, <1>5, <2>2, <3>1
    <3>3. ASSUME NEW j \in Writers(i, addr) PROVE Age(j) <= Age(y)
      <4>1. j \in Entered /\ BufPos(RowOf(j)) <= BufPos(k)
        BY <1>3, <1>7, <2>1
      <4>2. Rank(Entered, j) <= Rank(Entered, y)
        BY <1>2, <3>1, <4>1
      <4>3. RobTyped /\ Entered \in SUBSET InFlight /\ j \in InFlight /\ y \in InFlight
        BY <4>1, Typed DEF Entered
      <4>4. Age(y) < Age(j) <=> Rank(Entered, y) < Rank(Entered, j)
        BY <4>1, <4>3, Ranks
      <4>5. Age(y) \in Int /\ Age(j) \in Int
        BY <4>3, Typed
      <4>6. QED
        BY <1>2, <4>1, <4>2, <4>4, <4>5
    <3>4. QED
      BY <1>4, <1>5, <2>2, <3>1, <3>2, <3>3
  <2>4. CASE buf[k].complete
    <3>1. \A j \in Matches(addr) : j \in Busy /\ buf[j].complete
      <4>1. \A j \in Matches(addr) : j \in Busy /\ BufPos(j) <= BufPos(k)
        BY <2>1 DEF Matches
      <4>2. QED
        BY <1>2, <2>2, <2>4, <4>1
    <3>2. Writers(i, addr) = {} /\ Drained(addr) = Matches(addr)
      BY <1>7, <3>1 DEF Drained, Matches
    <3>3. PICK x \in Drained(addr) : /\ \A j \in Drained(addr) : BufPos(j) <= BufPos(x)
                                     /\ committed[addr] = buf[x].data
      BY <1>6, <2>1, <3>2 DEF Committed
    <3>4. x = k
      <4>1. BufPos(x) <= BufPos(k) /\ BufPos(k) <= BufPos(x) /\ x \in Busy
        BY <2>1, <3>1, <3>2, <3>3
      <4>2. QED
        BY <1>2, <2>2, <4>1
    <3>5. QED
      BY <1>4, <2>2, <3>2, <3>3, <3>4
  <2>5. QED
    BY <2>3, <2>4
<1>10. QED
  BY <1>8, <1>9

(* Memory in program order after a step, for rows named before it.         *)
LEMMA WordIsPiecesNext ==
    (/\ \A i, addr : WordBefore(i, addr) = [p \in Parts |-> PieceBefore(i, addr, p)]
     /\ \A i, addr, p : WritersOf(i, addr, p) =
           {j \in Writers(i, addr) : p \in DOMAIN table[j].uop.bytes})'
BY WordIsPieces, PTL

(* What the ROB retires joins the committed words, and nothing else does.  *)
LEMMA FlowCommitted ==
    ASSUME IInv, NEW g, NEW D, NEW suc, NEW issued, NEW retired,
           FlowOf(g, D, suc, issued, retired)
    PROVE  /\ committed' \in [Addrs -> Word]
           /\ \A d \in Stores(Retiring) :
                 committed'[table[d].uop.addr]
                   = Merged(committed[table[d].uop.addr], table[d].uop.bytes)
           /\ \A addr \in Addrs :
                 (\A d \in Stores(Retiring) : table[d].uop.addr # addr)
                   => committed'[addr] = committed[addr]
<1> DEFINE out == Stores(Retiring)
           stored(a) == {i \in out : table[i].uop.addr = a}
<1>1. committed' = [a \in Addrs |->
               IF stored(a) = {} THEN committed[a]
               ELSE Merged(committed[a], table[CHOOSE i \in stored(a) : TRUE].uop.bytes)]
  BY DEF FlowOf, Flow
<1>2. /\ out \subseteq InFlight /\ \A x, y \in out : x = y
      /\ \A i \in InFlight : table[i].uop \in Uops
      /\ committed \in [Addrs -> Word]
  BY Typed, FlowEntered
<1>3. \A d \in out : table[d].uop.addr \in Addrs
  <2>1. \A u \in Uops : u.addr \in Addrs
    BY LoadStoreAssumption DEF Uop
  <2>2. QED
    BY <1>2, <2>1
<1> HIDE DEF out
<1>4. ASSUME NEW a \in Addrs, NEW d \in stored(a)
      PROVE  committed'[a] = Merged(committed[a], table[d].uop.bytes)
  <2>1. (CHOOSE i \in stored(a) : TRUE) = d
    <3>1. (CHOOSE i \in stored(a) : TRUE) \in stored(a)
      BY <1>4
    <3>2. QED
      BY <1>2, <3>1
  <2> HIDE DEF stored
  <2>2. QED
    BY <1>1, <2>1
<1>5. ASSUME NEW a \in Addrs, stored(a) = {} PROVE committed'[a] = committed[a]
  <2> HIDE DEF stored
  <2>1. QED
    BY <1>1, <1>5
<1>6. ASSUME NEW a \in Addrs PROVE committed'[a] \in Word
  <2>1. CASE stored(a) = {}
    BY <1>2, <1>5, <2>1
  <2>2. ASSUME NEW d \in stored(a) PROVE committed'[a] \in Word
    <3>1. table[d].uop \in Uops /\ committed[a] \in Word
      BY <1>2
    <3>2. Merged(committed[a], table[d].uop.bytes) \in Word
      BY <3>1, MergedTyped
    <3>3. QED
      BY <1>4, <2>2, <3>2
  <2>3. QED
    BY <2>1, <2>2
<1>7. committed' \in [Addrs -> Word]
  <2>1. committed' = [a \in Addrs |-> committed'[a]]
    BY <1>1
  <2>2. QED
    BY <1>6, <2>1
<1>8. QED
  BY <1>3, <1>4, <1>5, <1>7 DEF out

(* The word before a row that stays does not change.                       *)
LEMMA FlowWord ==
    ASSUME IInv, NEW g, NEW D, NEW suc, NEW issued, NEW retired,
           FlowOf(g, D, suc, issued, retired),
           NEW i \in InFlight, i \in InFlight', NEW addr \in Addrs
    PROVE  WordBefore(i, addr)' = WordBefore(i, addr)
<1> DEFINE out == Stores(Retiring)
<1>1. /\ RobTyped /\ RobTyped' /\ Gone \in Int
      /\ \A j \in InFlight : Age(j) \in Int
  <2>1. RobTyped /\ RobTyped' /\ \A j \in InFlight : Age(j) \in Int
    BY Typed, FlowTags
  <2>2. Gone \in Int
    BY <2>1, RetiringIsPrefix, RobAssumption DEF RobTyped
  <2>3. QED
    BY <2>1, <2>2
<1>2. /\ \A j \in InFlight : j \in InFlight' <=> j \notin Retiring
      /\ \A j \in InFlight : j \in InFlight' =>
            AgeNext(j) = Age(j) - Gone /\ table'[j].uop = table[j].uop
      /\ \A j \in InFlight' : j \in InFlight \/ \E l \in Valid(g) : j = SlotOf(g, l)
      /\ \A l \in Valid(g) : AgeNext(i) < AgeNext(SlotOf(g, l))
  <2>1. \A l \in Valid(g) : AgeNext(i) < AgeNext(SlotOf(g, l))
    <3>1. ASSUME NEW l \in Valid(g) PROVE AgeNext(i) < AgeNext(SlotOf(g, l))
      <4>1. /\ AgeNext(SlotOf(g, l)) = used_entry_cnt + Before(Valid(g), l) - Gone
            /\ Before(Valid(g), l) \in Nat /\ AgeNext(i) = Age(i) - Gone
        BY FlowRows
      <4>2. Age(i) < used_entry_cnt /\ used_entry_cnt \in Int
        BY <1>1, RobAssumption DEF InFlight, RobTyped
      <4>3. QED
        BY <1>1, <4>1, <4>2
    <3>2. QED
      BY <3>1
  <2>2. QED
    BY <2>1, FlowRows
<1>3. /\ out \subseteq InFlight /\ \A x, y \in out : x = y
      /\ \A d \in out : d \in Retiring /\ table[d].uop.is_store
      /\ \A j \in InFlight : j \in Retiring /\ table[j].uop.is_store => j \in out
  BY FlowEntered DEF Stores, Entered
<1>4. \A j : Age(j)' = AgeNext(j)
  BY AgeIsFrom DEF Age, AgeNext, AgeFrom
<1>5. Writers(i, addr)' = Writers(i, addr) \ out
  <2>1. ASSUME NEW j \in InFlight', AgeNext(j) < AgeNext(i)
        PROVE  j \in InFlight /\ Age(j) < Age(i) /\ j \notin Retiring /\ table'[j].uop = table[j].uop
    <3>1. j \in InFlight
      <4>1. ASSUME NEW l \in Valid(g), j = SlotOf(g, l) PROVE FALSE
        <5>1. AgeNext(i) < AgeNext(j)
          BY <1>2, <4>1
        <5>2. AgeNext(i) \in Int /\ AgeNext(j) \in Int
          <6>1. com_ptr' \in Slots /\ i \in Slots /\ j \in Slots
            BY <1>1 DEF RobTyped, InFlight
          <6>2. AgeNext(i) \in Slots /\ AgeNext(j) \in Slots
            BY <6>1, SlotsAndAges DEF AgeNext
          <6>3. QED
            BY <6>2 DEF Slots
        <5>3. QED
          BY <2>1, <5>1, <5>2
      <4>2. QED
        BY <1>2, <4>1
    <3>2. AgeNext(j) = Age(j) - Gone /\ AgeNext(i) = Age(i) - Gone
      BY <1>2, <3>1
    <3>3. QED
      BY <1>1, <1>2, <2>1, <3>1, <3>2
  <2>2. ASSUME NEW j \in Writers(i, addr)' PROVE j \in Writers(i, addr) /\ j \notin out
    <3>1. /\ j \in InFlight' /\ AgeNext(j) < AgeNext(i)
          /\ table'[j].uop.is_store /\ table'[j].uop.addr = addr
      BY <1>4, <2>2 DEF Writers
    <3>2. QED
      BY <1>3, <2>1, <3>1 DEF Writers
  <2>3. ASSUME NEW j \in Writers(i, addr), j \notin out PROVE j \in Writers(i, addr)'
    <3>1. j \in InFlight /\ Age(j) < Age(i) /\ table[j].uop.is_store /\ table[j].uop.addr = addr
      BY DEF Writers
    <3>2. j \in InFlight'
      BY <1>2, <1>3, <2>3, <3>1
    <3>3. AgeNext(j) < AgeNext(i) /\ table'[j].uop = table[j].uop
      <4>1. AgeNext(j) = Age(j) - Gone /\ AgeNext(i) = Age(i) - Gone /\ table'[j].uop = table[j].uop
        BY <1>2, <3>1, <3>2
      <4>2. QED
        BY <1>1, <3>1, <4>1
    <3>4. QED
      BY <1>4, <3>1, <3>2, <3>3 DEF Writers
  <2>4. QED
    BY <2>2, <2>3
<1>6. ASSUME NEW p \in Parts PROVE PieceBefore(i, addr, p)' = PieceBefore(i, addr, p)
  <2> DEFINE W == WritersOf(i, addr, p)
             V == WritersOf(i, addr, p)'
  <2>1. /\ W \in SUBSET InFlight
        /\ W = {j \in Writers(i, addr) : p \in DOMAIN table[j].uop.bytes}
        /\ V = {j \in Writers(i, addr)' : p \in DOMAIN table'[j].uop.bytes}
    BY WordIsPieces, WordIsPiecesNext DEF Writers
  <2>2. \A j \in Writers(i, addr) \ out : /\ j \in InFlight /\ j \in InFlight' /\ j \notin Retiring
                                          /\ table'[j].uop = table[j].uop /\ AgeNext(j) = Age(j) - Gone
    BY <1>2, <1>3 DEF Writers
  <2>3. V = W \ out
    BY <1>5, <2>1, <2>2
  <2>4. \A d \in out, j \in W \ out : Age(d) < Age(j)
    <3>1. \A d \in out, j \in InFlight \ Retiring : Age(d) < Age(j)
      <4>1. ASSUME NEW d \in out, NEW j \in InFlight \ Retiring, ~(Age(d) < Age(j)) PROVE FALSE
        <5>1. d \in Retiring /\ d \in InFlight /\ d # j
          BY <1>3, <4>1
        <5>2. Age(d) # Age(j)
          BY <1>1, <5>1, SlotsAndAges, AgeIsFrom DEF RobTyped, InFlight
        <5>3. Age(j) < Age(d)
          BY <1>1, <4>1, <5>1, <5>2
        <5>4. QED
          BY <4>1, <5>1, <5>3, RetiringUnpaired
      <4>2. QED
        BY <4>1
    <3>2. QED
      BY <2>1, <2>2, <3>1
  <2>5. CASE V # {}
    <3> DEFINE y == LastOf(W)
    <3>1. W # {} /\ y \in W /\ \A j \in W : Age(j) <= Age(y)
      BY <1>1, <2>1, <2>3, <2>5, LastIsYoungest
    <3>2. y \notin out
      <4>1. PICK v \in W : v \notin out
        BY <2>3, <2>5
      <4>2. v \in InFlight /\ Age(v) <= Age(y) /\ Age(v) \in Int /\ Age(y) \in Int
        BY <1>1, <2>1, <3>1, <4>1
      <4>3. y \in out => Age(y) < Age(v)
        BY <2>4, <4>1
      <4>4. QED
        BY <4>2, <4>3
    <3> HIDE DEF W, V, y
    <3>3. /\ y \in V /\ table'[y].uop = table[y].uop /\ V \in SUBSET InFlight'
          /\ \A j \in V : AgeNext(j) <= AgeNext(y)
      <4>1. y \in V
        BY <2>3, <3>1, <3>2
      <4>2. \A j \in V : j \in Writers(i, addr) \ out
        BY <2>1, <2>3
      <4>3. \A j \in V : Age(j) <= Age(y) /\ AgeNext(j) = Age(j) - Gone /\ Age(j) \in Int
        BY <1>1, <2>2, <2>3, <3>1, <4>2
      <4>4. \A j \in V : AgeNext(j) <= AgeNext(y)
        BY <1>1, <4>1, <4>3
      <4>5. QED
        BY <2>2, <4>1, <4>2, <4>4
    <3>4. LastNext(V) = y
      BY <1>1, <3>3, LastNextIsYoungest
    <3>5. PieceBefore(i, addr, p) = table[y].uop.bytes[p]
      BY <3>1 DEF PieceBefore, W, y
    <3>6. PieceBefore(i, addr, p)' = table'[LastNext(V)].uop.bytes[p]
      <4>1. LastOf(WritersOf(i, addr, p))' = LastNext(V)
        BY <1>4, Zenon DEF LastOf, LastNext, V
      <4>2. QED
        BY <2>5, <4>1 DEF PieceBefore, V
    <3>7. QED
      BY <3>3, <3>4, <3>5, <3>6
  <2>6. CASE V = {}
    <3>1. PieceBefore(i, addr, p)' = committed'[addr][p]
      BY <2>6 DEF PieceBefore
    <3>2. /\ \A d \in out : table[d].uop.addr = addr =>
                committed'[addr] = Merged(committed[addr], table[d].uop.bytes)
          /\ (\A d \in out : table[d].uop.addr # addr) => committed'[addr] = committed[addr]
      BY FlowCommitted
    <3>3. CASE W = {}
      <4>1. PieceBefore(i, addr, p) = committed[addr][p]
        BY <3>3 DEF PieceBefore
      <4>2. CASE \A d \in out : table[d].uop.addr # addr
        BY <3>1, <3>2, <4>1, <4>2
      <4>3. ASSUME NEW d \in out, table[d].uop.addr = addr
            PROVE  committed'[addr][p] = committed[addr][p]
        <5>1. p \notin DOMAIN table[d].uop.bytes
          <6>1. Age(d) < Age(i)
            <7>1. ~(Age(i) < Age(d)) /\ d # i
              <8>1. d \in Retiring /\ i \notin Retiring
                BY <1>2, <1>3
              <8>2. QED
                BY <8>1, RetiringUnpaired
            <7>2. Age(d) # Age(i) /\ Age(d) \in Int /\ Age(i) \in Int
              BY <1>1, <1>3, <7>1, SlotsAndAges, AgeIsFrom DEF RobTyped, InFlight
            <7>3. QED
              BY <7>1, <7>2
          <6>2. d \in Writers(i, addr)
            BY <1>3, <4>3, <6>1 DEF Writers
          <6>3. QED
            BY <2>1, <3>3, <6>2
        <5>2. committed'[addr] = Merged(committed[addr], table[d].uop.bytes)
          BY <3>2, <4>3
        <5>3. QED
          BY <5>1, <5>2 DEF Merged
      <4>4. QED
        BY <3>1, <4>1, <4>2, <4>3
    <3>4. CASE W # {}
      <4>1. PICK d \in W : d \in out
        BY <2>3, <2>6, <3>4
      <4>2. /\ \A j \in W : j = d
            /\ table[d].uop.addr = addr /\ p \in DOMAIN table[d].uop.bytes
        BY <1>3, <2>1, <2>3, <2>6, <4>1 DEF Writers
      <4>3. LastOf(W) = d
        <5>1. LastOf(W) \in W
          BY <1>1, <2>1, <3>4, LastIsYoungest
        <5>2. QED
          BY <4>2, <5>1
      <4>4. PieceBefore(i, addr, p) = table[d].uop.bytes[p]
        BY <3>4, <4>3 DEF PieceBefore
      <4>5. committed'[addr] = Merged(committed[addr], table[d].uop.bytes)
        BY <3>2, <4>1, <4>2
      <4>6. QED
        BY <3>1, <4>2, <4>4, <4>5 DEF Merged
    <3>5. QED
      BY <3>3, <3>4
  <2>7. QED
    BY <2>5, <2>6
<1>7. QED
  BY <1>6, WordIsPieces, WordIsPiecesNext

(* Memory m is this one, once its port took the head of the buffer or not. *)
Takes(m, retired) ==
    /\ m \in [Addrs -> Word]
    /\ \A addr \in Addrs :
          m[addr] = IF retired /\ buf[buf_ret].mem_addr = addr THEN buf[buf_ret].data
                    ELSE mem[addr]

(* That is what a cycle leaves of it.                                      *)
LEMMA MemTaken ==
    ASSUME IInv, NEW retired, retired \in {FALSE, RetireReady}, NEW m, m = MemAfter(retired)
    PROVE  Takes(m, retired)
<1>1. mem \in [Addrs -> Word]
  BY Typed
<1>2. CASE retired
  <2>1. buf_ret \in Busy
    BY <1>2 DEF RetireReady
  <2>2. buf[buf_ret].mem_addr \in Addrs /\ buf[buf_ret].data \in Word
    BY <2>1, RecordsTyped
  <2>3. m = [mem EXCEPT ![buf[buf_ret].mem_addr] = buf[buf_ret].data]
    BY <1>2 DEF MemAfter
  <2>4. QED
    BY <1>1, <1>2, <2>2, <2>3 DEF Takes
<1>3. CASE ~retired
  BY <1>1, <1>3 DEF MemAfter, Takes
<1>4. QED
  BY <1>2, <1>3

(* A word after a step, where its row and address are named before it.     *)
LEMMA WordsNext ==
    /\ \A i, a : i = stage1'.rob_des_idx /\ a = stage1'.uop.addr
                  => WordBefore(stage1.rob_des_idx, stage1.uop.addr)' = WordBefore(i, a)'
    /\ \A k, i, a : /\ k = RowNext(i) /\ a = table'[i].uop.addr /\ buf'[k].mem_addr = a
                     /\ buf'[k].data = Merged(WordBefore(i, a)', table'[i].uop.bytes)
                   => StoreMerged(i)'
    /\ \A k : BufPos(k)' = BufPosNext(k)
<1>1. ASSUME NEW i, NEW a, i = stage1'.rob_des_idx, a = stage1'.uop.addr
      PROVE  WordBefore(stage1.rob_des_idx, stage1.uop.addr)' = WordBefore(i, a)'
  BY <1>1 DEF WordBefore, Age
<1>2. ASSUME NEW k, NEW i, NEW a, k = RowNext(i), a = table'[i].uop.addr, buf'[k].mem_addr = a,
             buf'[k].data = Merged(WordBefore(i, a)', table'[i].uop.bytes)
      PROVE  StoreMerged(i)'
  <2>1. RowOf(i)' = k
    BY <1>2 DEF RowOf, RowNext, RankNext, RingSlot, Age, AgeNext, AgeFrom
  <2>2. WordBefore(i, table[i].uop.addr)' = WordBefore(i, a)'
    <3>1. a = table'[i].uop.addr
      BY <1>2
    <3>2. QED
      BY <3>1 DEF WordBefore
  <2>3. QED
    BY <1>2, <2>1, <2>2 DEF StoreMerged, Merged
<1>3. \A k : BufPos(k)' = BufPosNext(k)
  BY DEF BufPos, BufPosNext
<1>4. QED
  BY <1>1, <1>2, <1>3

(* The buffered words and the committed ones are the program's after it,   *)
(* and so is what a load returns.                                          *)
LEMMA FlowWords ==
    ASSUME IInv, NEW g, NEW D, NEW suc, NEW issued, NEW retired,
           FlowOf(g, D, suc, issued, retired)
    PROVE  WordsSound' /\ mem' \in [Addrs -> Word]
<1> DEFINE s0 == stage0.rob_des_idx
           out == Stores(Retiring)
<1>1. PICK cnt, done : BufferRun(cnt, done)
  BY DEF IInv, Buffered
<1>2. PICK p, c, r : p = One(Pushed # {}) /\ c = One(out # {}) /\ r = One(retired)
  OBVIOUS
<1>3. /\ Busy' = Kept(retired) \cup (IF Pushed # {} THEN {buf_alloc} ELSE {})
      /\ \A k \in Kept(retired) :
            /\ Stays(buf'[k], buf[k], suc)
            /\ buf'[k].complete <=> buf[k].complete \/ (out # {} /\ k = buf_com)
            /\ BufPosNext(k) = BufPos(k) - r
      /\ Pushed # {} => Enters(buf'[buf_alloc], suc)
      /\ \A i \in Entered \ out : RowNext(i) = RowOf(i) /\ RowOf(i) \in Kept(retired)
      /\ \A i \in Entering : RowNext(i) = buf_alloc
      /\ \A d \in out : RowOf(d) = buf_com /\ buf_com \in Kept(retired)
      /\ retired => buf_ret \in Busy /\ buf[buf_ret].complete /\ BufPos(buf_ret) = 0
  BY <1>1, <1>2, FlowBuffer
<1>4. /\ Entered \subseteq InFlight /\ out \subseteq Entered /\ Entered' = (Entered \ out) \cup Entering
      /\ \A x, y \in out : x = y
      /\ \A i \in (Entered \ out) \cup Entering : i \in InFlight' /\ table'[i].uop = table[i].uop
      /\ Pushed # {} => StageMoves
  BY FlowEntered
<1>5. /\ stage1_on' = StageMoves /\ (StageMoves => stage0.valid)
      /\ StageMoves => /\ Drops(stage1', stage0, suc)
                       /\ stage1'.word = LoadedWord(stage0.uop.addr)
  BY FlowStages
<1>6. \A i \in InFlight, addr \in Addrs : i \in InFlight' => WordBefore(i, addr)' = WordBefore(i, addr)
  BY FlowWord
<1>7. /\ done \in Int /\ r \in Int
      /\ \A k \in Busy : BufPos(k) \in Int /\ BufPos(k) >= 0 /\ (buf[k].complete <=> BufPos(k) < done)
      /\ \A j, k \in Busy : BufPos(j) = BufPos(k) => j = k
      /\ \A i \in Entered : /\ RowOf(i) \in Busy /\ ~buf[RowOf(i)].complete
                            /\ BufPos(RowOf(i)) = done + Rank(Entered, i)
      /\ \A k \in Busy : buf[k].mem_addr \in Addrs
      /\ Kept(retired) \subseteq Busy
      /\ \A k \in Busy : k \notin Kept(retired) => retired /\ k = buf_ret
  BY <1>1, <1>2, BufferRows, RecordsTyped DEF One, Kept
<1>8. \A u \in Uops : u.addr \in Addrs
  BY LoadStoreAssumption DEF Uop
<1>9. \A i \in Entered : StoreMerged(i)
  BY DEF IInv, WordsSound
<1>10. stage0.valid => /\ s0 \in InFlight /\ s0 \in InFlight' /\ stage0.uop = table[s0].uop
                       /\ stage0.uop.addr \in Addrs
                       /\ LoadedWord(stage0.uop.addr) = WordBefore(s0, stage0.uop.addr)
  <2>1. ASSUME stage0.valid, NEW i, i = s0, NEW a, a = stage0.uop.addr
        PROVE  /\ i \in InFlight /\ i \in InFlight' /\ stage0.uop = table[i].uop
               /\ a \in Addrs /\ LoadedWord(a) = WordBefore(i, a)
    <3>1. i \in InFlight /\ i \in InFlight' /\ stage0.uop = table[i].uop
      BY <2>1, FlowWaits, AheadOfStageZero
    <3>2. a \in Addrs
      BY <1>8, <2>1, <3>1, Typed
    <3>3. QED
      BY <2>1, <3>1, <3>2, StageZeroReads
  <2>2. QED
    BY <2>1
<1>11. LoadsSeeProgramOrder'
  <2>1. ASSUME stage1_on', NEW i, i = s0, NEW a, a = stage0.uop.addr
        PROVE  stage1'.word = WordBefore(stage1.rob_des_idx, stage1.uop.addr)'
    <3>1. stage0.valid /\ i = stage1'.rob_des_idx /\ a = stage1'.uop.addr
      BY <1>5, <2>1 DEF Drops
    <3>2. stage1'.word = WordBefore(i, a)
      BY <1>5, <1>10, <2>1, <3>1
    <3>3. WordBefore(i, a)' = WordBefore(i, a)
      BY <1>6, <1>10, <2>1, <3>1
    <3>4. QED
      BY <3>1, <3>2, <3>3, WordsNext
  <2>2. QED
    BY <2>1 DEF LoadsSeeProgramOrder
<1>12. ASSUME NEW i \in Entered' PROVE StoreMerged(i)'
  <2>1. ASSUME i \in Entered \ out, NEW k, k = RowOf(i), NEW a, a = table[i].uop.addr
        PROVE  StoreMerged(i)'
    <3>1. /\ i \in InFlight /\ i \in InFlight' /\ table'[i].uop = table[i].uop
          /\ k = RowNext(i) /\ Stays(buf'[k], buf[k], suc)
          /\ buf[k].mem_addr = a /\ buf[k].data = Merged(WordBefore(i, a), table[i].uop.bytes)
      BY <1>3, <1>4, <1>9, <2>1 DEF StoreMerged
    <3>2. a \in Addrs
      BY <1>8, <2>1, <3>1, Typed
    <3>3. WordBefore(i, a)' = WordBefore(i, a)
      BY <1>6, <3>1, <3>2
    <3>4. QED
      BY <2>1, <3>1, <3>3, WordsNext DEF Stays
  <2>2. ASSUME i \in Entering, NEW k, k = buf_alloc, NEW a, a = stage0.uop.addr
        PROVE  StoreMerged(i)'
    <3>1. Pushed # {} /\ i = s0 /\ stage0.valid
      BY <1>4, <1>5, <2>2 DEF Entering
    <3>2. /\ i \in InFlight /\ i \in InFlight' /\ table'[i].uop = table[i].uop
          /\ k = RowNext(i) /\ Enters(buf'[k], suc)
          /\ stage0.uop = table[i].uop /\ a \in Addrs
          /\ LoadedWord(a) = WordBefore(i, a)
      BY <1>3, <1>4, <1>10, <2>2, <3>1
    <3>3. WordBefore(i, a)' = WordBefore(i, a)
      BY <1>6, <3>2
    <3>4. buf'[k].mem_addr = a /\ buf'[k].data = Merged(LoadedWord(a), stage0.uop.bytes)
      BY <2>2, <3>2 DEF Enters
    <3>5. QED
      BY <2>2, <3>2, <3>3, <3>4, WordsNext
  <2>3. QED
    BY <1>4, <2>1, <2>2
<1>13. /\ mem' \in [Addrs -> Word]
       /\ \A addr \in Addrs :
             mem'[addr] = IF retired /\ buf[buf_ret].mem_addr = addr THEN buf[buf_ret].data
                          ELSE mem[addr]
  <2>1. retired \in {FALSE, RetireReady} /\ mem' = MemAfter(retired)
    BY DEF FlowOf, Flow
  <2>2. ASSUME NEW m, m = mem' PROVE Takes(m, retired)
    <3>1. m = MemAfter(retired)
      BY <2>1, <2>2
    <3>2. QED
      BY <2>1, <3>1, MemTaken, Zenon
  <2>3. QED
    BY <2>2 DEF Takes
<1>14. \A k, addr : k \in Drained(addr)' <=>
             /\ k \in Kept(retired) /\ buf[k].mem_addr = addr
             /\ buf[k].complete \/ (out # {} /\ k = buf_com)
  <2>1. ASSUME NEW k, NEW addr, k \in Drained(addr)'
        PROVE  /\ k \in Kept(retired) /\ buf[k].mem_addr = addr
               /\ buf[k].complete \/ (out # {} /\ k = buf_com)
    <3>1. k \in Busy' /\ buf'[k].complete /\ buf'[k].mem_addr = addr
      BY <2>1 DEF Drained
    <3>2. k \in Kept(retired)
      BY <1>3, <3>1 DEF Enters
    <3>3. QED
      BY <1>3, <3>1, <3>2 DEF Stays
  <2>2. ASSUME NEW k, NEW addr, k \in Kept(retired), buf[k].mem_addr = addr,
               buf[k].complete \/ (out # {} /\ k = buf_com)
        PROVE  k \in Drained(addr)'
    BY <1>3, <2>2 DEF Drained, Stays
  <2>3. QED
    BY <2>1, <2>2
<1>15. /\ \A d \in out :
             committed'[table[d].uop.addr] = Merged(committed[table[d].uop.addr], table[d].uop.bytes)
       /\ \A addr \in Addrs :
             (\A d \in out : table[d].uop.addr # addr) => committed'[addr] = committed[addr]
  BY FlowCommitted
<1>16. ASSUME NEW addr \in Addrs PROVE Committed(addr)'
  <2>1. Committed(addr)
    BY DEF IInv, WordsSound
  <2>2. ASSUME NEW d \in out, table[d].uop.addr = addr PROVE Committed(addr)'
    <3>1. /\ buf_com \in Kept(retired) /\ RowOf(d) = buf_com /\ d \in Entered /\ d \in InFlight
          /\ buf_com \in Busy /\ BufPos(buf_com) = done + Rank(Entered, d)
          /\ buf[buf_com].mem_addr = addr
          /\ buf[buf_com].data = Merged(WordBefore(d, addr), table[d].uop.bytes)
      BY <1>3, <1>4, <1>7, <1>9, <2>2 DEF StoreMerged
    <3>2. Rank(Entered, d) = 0
      BY <1>1, <1>2, FlowPointers
    <3>3. Writers(d, addr) = {}
      <4>1. ASSUME NEW j \in Writers(d, addr) PROVE FALSE
        <5>1. j \in InFlight /\ Age(j) < Age(d) /\ table[j].uop.is_store /\ d \in Retiring
          BY DEF Writers, Stores
        <5>2. j \in out
          BY <5>1, RetiringUnpaired DEF Stores
        <5>3. j = d /\ Age(d) \in Nat
          BY <1>4, <3>1, <5>2, Typed
        <5>4. QED
          BY <5>1, <5>3
      <4>2. QED
        BY <4>1
    <3>4. buf[buf_com].data = committed'[addr]
      BY <1>15, <2>2, <3>1, <3>3, WordStep
    <3>5. buf_com \in Drained(addr)'
      BY <1>14, <2>2, <3>1
    <3>6. ASSUME NEW j \in Drained(addr)' PROVE BufPosNext(j) <= BufPosNext(buf_com)
      <4>1. j \in Kept(retired) /\ j \in Busy /\ (buf[j].complete \/ j = buf_com)
        BY <1>7, <1>14
      <4>2. /\ BufPosNext(j) = BufPos(j) - r /\ BufPosNext(buf_com) = BufPos(buf_com) - r
            /\ BufPos(j) \in Int /\ BufPos(buf_com) = done
        BY <1>3, <1>7, <3>1, <3>2, <4>1
      <4>3. BufPos(j) <= done
        BY <1>7, <4>1, <4>2
      <4>4. QED
        BY <1>7, <4>2, <4>3
    <3>7. buf'[buf_com].data = buf[buf_com].data
      BY <1>3, <3>1 DEF Stays
    <3>8. \E k \in Drained(addr)' : /\ \A j \in Drained(addr)' : BufPosNext(j) <= BufPosNext(k)
                                     /\ committed'[addr] = buf'[k].data
      BY <3>4, <3>5, <3>6, <3>7
    <3>9. QED
      BY <3>8, WordsNext DEF Committed
  <2>3. ASSUME \A d \in out : table[d].uop.addr # addr PROVE Committed(addr)'
    <3>1. committed'[addr] = committed[addr]
      BY <1>15, <2>3
    <3>2. \A k : k \in Drained(addr)' <=> k \in Drained(addr) /\ k \in Kept(retired)
      <4>1. \A d \in out : buf[buf_com].mem_addr # addr
        BY <1>3, <1>4, <1>9, <2>3 DEF StoreMerged
      <4>2. QED
        BY <1>7, <1>14, <4>1 DEF Drained
    <3>3. CASE Drained(addr) = {}
      <4>1. Drained(addr)' = {} /\ committed[addr] = mem[addr]
        BY <2>1, <3>2, <3>3 DEF Committed
      <4>2. retired => buf[buf_ret].mem_addr # addr
        BY <1>3, <3>3 DEF Drained
      <4>3. mem'[addr] = mem[addr]
        BY <1>13, <4>2
      <4>4. QED
        BY <3>1, <4>1, <4>3 DEF Committed
    <3>4. CASE Drained(addr) # {}
      <4>1. PICK k \in Drained(addr) : /\ \A j \in Drained(addr) : BufPos(j) <= BufPos(k)
                                       /\ committed[addr] = buf[k].data
        BY <2>1, <3>4 DEF Committed
      <4>2. CASE k \in Kept(retired)
        <5>1. k \in Drained(addr)' /\ committed'[addr] = buf'[k].data
          BY <1>3, <3>1, <3>2, <4>1, <4>2 DEF Stays
        <5>2. ASSUME NEW j \in Drained(addr)' PROVE BufPosNext(j) <= BufPosNext(k)
          <6>1. /\ BufPosNext(j) = BufPos(j) - r /\ BufPosNext(k) = BufPos(k) - r
                /\ BufPos(j) \in Int /\ BufPos(k) \in Int /\ BufPos(j) <= BufPos(k)
            BY <1>3, <1>7, <3>2, <4>1, <4>2
          <6>2. QED
            BY <1>7, <6>1
        <5>3. \E x \in Drained(addr)' : /\ \A j \in Drained(addr)' : BufPosNext(j) <= BufPosNext(x)
                                         /\ committed'[addr] = buf'[x].data
          BY <5>1, <5>2
        <5>4. QED
          BY <5>3, WordsNext DEF Committed
      <4>3. CASE k \notin Kept(retired)
        <5>1. retired /\ k = buf_ret /\ k \in Busy /\ buf[k].mem_addr = addr
          BY <1>7, <4>1, <4>3 DEF Drained
        <5>2. \A j \in Drained(addr) : j = k
          <6>1. ASSUME NEW j \in Drained(addr) PROVE j = k
            <7>1. j \in Busy /\ BufPos(j) <= BufPos(k) /\ BufPos(k) = 0
              BY <1>3, <4>1, <5>1 DEF Drained
            <7>2. BufPos(j) = BufPos(k)
              BY <1>7, <7>1
            <7>3. QED
              BY <1>7, <5>1, <7>1, <7>2
          <6>2. QED
            BY <6>1
        <5>3. Drained(addr)' = {}
          BY <3>2, <4>3, <5>2
        <5>4. mem'[addr] = committed'[addr]
          BY <1>13, <3>1, <4>1, <5>1
        <5>5. QED
          BY <5>3, <5>4 DEF Committed
      <4>4. QED
        BY <4>2, <4>3
    <3>5. QED
      BY <3>3, <3>4
  <2>4. QED
    BY <2>2, <2>3
<1>17. QED
  BY <1>11, <1>12, <1>13, <1>16 DEF WordsSound

(* A cycle without a squash keeps the invariant.                           *)
LEMMA FlowKeeps ==
    ASSUME IInv, NEW g, NEW D, NEW suc, NEW issued, NEW retired,
           FlowOf(g, D, suc, issued, retired)
    PROVE  IInv'
<1>1. PICK n \in 0 .. RsvSize : StationRun(n)
  BY DEF IInv, Placed
<1>2. PICK w, e : w = Cardinality(Accesses(g)) /\ e = One(issued)
  OBVIOUS
<1>3. PICK cnt, done : BufferRun(cnt, done)
  BY DEF IInv, Buffered
<1>4. PICK p, c, r : p = One(Pushed # {}) /\ c = One(Stores(Retiring) # {}) /\ r = One(retired)
  OBVIOUS
<1>5. BufferRun(cnt - r + p, done - r + c)' /\ buf' \in [BufSlots -> BufRow \cup {FreeRow}]
      /\ buf_ret' \in BufSlots /\ buf_com' \in BufSlots /\ buf_alloc' \in BufSlots
  BY <1>3, <1>4, FlowBuffer
<1>6. /\ rsv_alloc' \in RsvSlots /\ rsv_head' \in RsvSlots
      /\ rsv' \in [RsvSlots -> Record \cup {NoEntry}]
  BY <1>1, <1>2, FlowStation
<1>7. table' \in [Slots -> [uop : Uops \cup {NoUop}, tag : SUBSET Tags, wb_fin : BOOLEAN]]
  <2>1. table' = [i \in Slots |-> table'[i]]
    BY DEF FlowOf, Flow
  <2>2. QED
    BY <2>1, FlowRows
<1>8. RowsSound' /\ RobTyped' /\ TagsTyped' /\ alloc_ptr' \in Slots
  BY FlowTags
<1>9. stage0' \in Record \cup {NoEntry} /\ stage1' \in Result \cup {NoEntry} /\ stage1_on' \in BOOLEAN
  BY FlowStages
<1>10. WordsSound' /\ mem' \in [Addrs -> Word] /\ committed' \in [Addrs -> Word]
  BY FlowWords, FlowCommitted
<1>11. TypeOK'
  BY <1>5, <1>6, <1>7, <1>8, <1>9, <1>10 DEF TypeOK, RobTyped, TagsTyped
<1>12. Buffered'
  <2>1. cnt - r + p \in 0 .. BufDepth /\ done - r + c \in 0 .. cnt - r + p
    BY <1>5 DEF BufferRun
  <2>2. QED
    BY <1>5, <2>1 DEF Buffered
<1>13. Placed' /\ PairsSound'
  BY FlowPlaces, FlowPairs
<1>14. QED
  BY <1>8, <1>10, <1>11, <1>12, <1>13 DEF IInv

(* Cycle and SucPred are such cycles.                                      *)
LEMMA CyclesFlow ==
    ASSUME IInv, Cycle \/ SucPred
    PROVE  IInv'
<1>1. CASE Cycle
  <2>1. PICK g \in Landing, issued \in {FALSE, MayIssue}, retired \in {FALSE, RetireReady} :
            Flow({}, Retiring, g, {}, issued, retired)
    BY <1>1 DEF Cycle
  <2>2. {} = UNION {table[d].tag : d \in {}}
    OBVIOUS
  <2>3. FlowOf(g, {}, {}, issued, retired)
    BY <2>1, <2>2 DEF FlowOf
  <2>4. QED
    BY <2>3, FlowKeeps
<1>2. CASE SucPred
  <2>1. PICK i \in Resolving, issued \in {FALSE, MayIssue}, retired \in {FALSE, RetireReady} :
            Flow({i}, Retiring, NoGroup, table[i].tag, issued, retired)
    BY <1>2 DEF SucPred
  <2>2. table[i].tag = UNION {table[d].tag : d \in {i}} /\ NoGroup \in Landing
    BY DEF Landing
  <2>3. FlowOf(NoGroup, {i}, table[i].tag, issued, retired)
    BY <2>1, <2>2 DEF FlowOf
  <2>4. QED
    BY <2>3, FlowKeeps
<1>3. QED
  BY <1>1, <1>2

-----------------------------------------------------------------------------
(* A squash to branch i while memory takes the head of the buffer or not;  *)
(* without OwnAck stage 1 is idle after it.                                *)

(* The rows that finish in it: what stage 1 reports unless it is killed.   *)
Reports(i) == {r \in Reported : ~Squashed(stage1, FixTag(i))}

CutTo(i, retired) ==
    /\ i \in Resolving
    /\ retired \in {FALSE, RetireReady}
    /\ \E t \in table[i].tag : TagGenMisPred(t)
    /\ RobMisPred(i)
    /\ table' = [j \in Slots |->
           IF j \notin InFlight \/ Age(j) > Age(i) THEN Blank
           ELSE [table[j] EXCEPT !.wb_fin = @ \/ j \in Reports(i) \cup {i}]]
    /\ RsvMisPred(FixTag(i))
    /\ stage0' = IF stage0.valid /\ ~Squashed(stage0, FixTag(i)) THEN stage0 ELSE NoEntry
    /\ stage1' = NoEntry
    /\ stage1_on' = FALSE
    /\ BufMisPred(FixTag(i), retired)
    /\ mem' = MemAfter(retired)
    /\ committed' = committed

(* MisPred is a squash of that form.                                       *)
LEMMA MisPredCuts == ~OwnAck /\ MisPred => \E i, retired : CutTo(i, retired)
<1> SUFFICES ASSUME ~OwnAck, MisPred PROVE \E i, retired : CutTo(i, retired)
  OBVIOUS
<1>1. PICK i \in Resolving, retired \in {FALSE, RetireReady} :
        LET kill    == FixTag(i)
            stays   == stage0.valid /\ ~Squashed(stage0, kill)
            reports == {r \in Reported : ~Squashed(stage1, kill)}
        IN  /\ \E t \in table[i].tag : TagGenMisPred(t)
            /\ RobMisPred(i)
            /\ table' = [j \in Slots |->
                   IF j \notin InFlight \/ Age(j) > Age(i) THEN Blank
                   ELSE [table[j] EXCEPT !.wb_fin = @ \/ j \in reports \cup {i}]]
            /\ RsvMisPred(kill)
            /\ stage0' = IF stays THEN stage0 ELSE NoEntry
            /\ stage1' = IF OwnAck THEN stage1 ELSE NoEntry
            /\ stage1_on' = (OwnAck /\ stays /\ StageMoves /\ stage1.valid
                              /\ ~Squashed(stage1, kill))
            /\ BufMisPred(kill, retired)
            /\ mem' = MemAfter(retired)
            /\ UNCHANGED committed
  BY DEF MisPred
<1>2. stage1' = NoEntry /\ stage1_on' = FALSE /\ committed' = committed
  BY <1>1
<1>3. /\ \E t \in table[i].tag : TagGenMisPred(t)
      /\ RobMisPred(i)
      /\ table' = [j \in Slots |->
             IF j \notin InFlight \/ Age(j) > Age(i) THEN Blank
             ELSE [table[j] EXCEPT !.wb_fin = @ \/ j \in Reports(i) \cup {i}]]
      /\ RsvMisPred(FixTag(i))
      /\ stage0' = IF stage0.valid /\ ~Squashed(stage0, FixTag(i)) THEN stage0 ELSE NoEntry
      /\ BufMisPred(FixTag(i), retired)
      /\ mem' = MemAfter(retired)
  BY <1>1, Zenon DEF Reports
<1>4. CutTo(i, retired)
  BY <1>1, <1>2, <1>3 DEF CutTo
<1>5. QED
  BY <1>4

(* What is left is the rows up to the branch, none of them an open branch, *)
(* so every tag is back and no row stands under one.                       *)
LEMMA CutRows ==
    ASSUME IInv, NEW i, NEW retired, CutTo(i, retired)
    PROVE  /\ i \in InFlight /\ ~IsAccess(table[i].uop)
           /\ InFlight' = {j \in InFlight : Age(j) <= Age(i)}
           /\ \A j : Age(j)' = Age(j)
           /\ \A j \in InFlight' :
                 /\ table'[j].uop = table[j].uop
                 /\ table'[j].wb_fin <=> table[j].wb_fin \/ j \in Reports(i) \cup {i}
           /\ table' \in [Slots -> [uop : Uops \cup {NoUop}, tag : SUBSET Tags,
                                    wb_fin : BOOLEAN]]
           /\ Waits' = {j \in Waits \ Reports(i) : Age(j) <= Age(i)}
           /\ RowsSound' /\ RobTyped' /\ TagsTyped' /\ alloc_ptr' \in Slots
           /\ \A j \in InFlight : PairTag(j) \cap FixTag(i) # {} <=> Age(j) > Age(i)
           /\ \A j \in InFlight : PairTag(j) = {} <=> Age(j) <= Age(i)
           /\ \A j : PairTag(j)' = {}
<1> DEFINE R == Reports(i)
           rows == [uop : Uops \cup {NoUop}, tag : SUBSET Tags, wb_fin : BOOLEAN]
<1>1. /\ RobSound /\ Opened = OpenBranches /\ Opened \subseteq Unfinished
      /\ Unfinished \subseteq InFlight /\ InFlight \subseteq Slots
      /\ i \in Resolving /\ RobMisPred(i)
  BY Typed DEF CutTo, RobSound, IInv, RowsSound
<1>2. i \in Opened /\ i \in InFlight /\ \A j \in Opened : Age(i) <= Age(j)
  BY <1>1 DEF Resolving
<1>3. /\ used_entry_cnt' \in 0 .. RobDepth /\ com_ptr' = com_ptr
      /\ (alloc_ptr = SlotAt(used_entry_cnt))' /\ alloc_ptr' \in Slots
      /\ \A j : Age(j)' = Age(j)
      /\ InFlight' = {j \in InFlight : Age(j) <= Age(i)}
  BY <1>1, <1>2, RowsCut DEF RobSound
<1>4. RobTyped'
  BY <1>1, <1>3 DEF RobSound, RobTyped
<1>5. /\ \A j \in InFlight : Age(j) \in Int
      /\ \A j, k \in InFlight : Age(j) = Age(k) => j = k
  <2>1. com_ptr \in Slots /\ Slots \subseteq Int
    BY <1>1 DEF RobSound, RobTyped, Slots
  <2>2. \A j \in Slots : Age(j) \in Int
    BY <2>1, SlotsAndAges, AgeIsFrom
  <2>3. \A j, k \in Slots : Age(j) = Age(k) => j = k
    BY <2>1, SlotsAndAges, AgeIsFrom
  <2>4. QED
    BY <1>1, <2>2, <2>3
<1>6. \A j \in Slots : table'[j] =
          IF j \notin InFlight \/ Age(j) > Age(i) THEN Blank
          ELSE [table[j] EXCEPT !.wb_fin = @ \/ j \in R \cup {i}]
  BY DEF CutTo
<1>7. ASSUME NEW j \in InFlight'
      PROVE  /\ j \in InFlight /\ j \in Slots /\ Age(j) <= Age(i)
             /\ table'[j] = [table[j] EXCEPT !.wb_fin = table[j].wb_fin \/ j \in R \cup {i}]
  <2>1. j \in InFlight /\ j \in Slots /\ Age(j) <= Age(i)
    BY <1>1, <1>3
  <2>2. ~(Age(j) > Age(i))
    BY <1>2, <1>5, <2>1
  <2>3. QED
    BY <1>6, <2>1, <2>2
<1>8. ASSUME NEW j \in InFlight'
      PROVE  /\ table'[j].uop = table[j].uop
             /\ table'[j].wb_fin <=> table[j].wb_fin \/ j \in R \cup {i}
  <2>1. DOMAIN table[j] = {"uop", "tag", "wb_fin"}
    BY <1>7, Typed
  <2>2. table'[j] = [table[j] EXCEPT !.wb_fin = table[j].wb_fin \/ j \in R \cup {i}]
    BY <1>7
  <2>3. QED
    BY <2>1, <2>2, Zenon
<1>9. table' \in [Slots -> rows]
  <2>1. ASSUME NEW j \in Slots PROVE table'[j] \in rows
    <3>1. CASE j \notin InFlight \/ Age(j) > Age(i)
      <4>1. table'[j] = Blank
        BY <1>6, <3>1
      <4>2. QED
        BY <4>1 DEF Blank
    <3>2. CASE ~(j \notin InFlight \/ Age(j) > Age(i))
      <4>1. table'[j] = [table[j] EXCEPT !.wb_fin = @ \/ j \in R \cup {i}]
        BY <1>6, <3>2
      <4>2. table[j] \in rows
        BY DEF IInv, TypeOK
      <4>3. (table[j].wb_fin \/ j \in R \cup {i}) \in BOOLEAN
        OBVIOUS
      <4>4. QED
        BY <4>1, <4>2, <4>3
    <3>3. QED
      BY <3>1, <3>2
  <2>2. DOMAIN table' = Slots /\ table' = [j \in Slots |-> table'[j]]
    BY DEF CutTo
  <2> HIDE DEF rows
  <2>3. QED
    BY <2>1, <2>2
<1>10. Unfinished' = {j \in Unfinished \ (R \cup {i}) : Age(j) <= Age(i)}
  <2>1. Unfinished' = {j \in InFlight' : ~table'[j].wb_fin}
    BY DEF Unfinished
  <2>2. Unfinished = {j \in InFlight : ~table[j].wb_fin}
    BY DEF Unfinished
  <2> HIDE DEF R
  <2>3. QED
    BY <1>3, <1>8, <2>1, <2>2
<1>11. Opened' = {}
  <2>1. ASSUME NEW j \in Opened' PROVE FALSE
    <3>1. j \in InFlight' /\ j \in Unfinished' /\ table'[j].uop.is_branch
      BY DEF Opened, Unfinished
    <3>2. j \in Unfinished /\ j # i /\ Age(j) <= Age(i) /\ table[j].uop.is_branch
      BY <1>8, <1>10, <3>1
    <3>3. j \in Opened
      BY <3>2 DEF Opened, Unfinished
    <3>4. Age(j) = Age(i) /\ j \in InFlight
      BY <1>2, <1>5, <3>2, <3>3 DEF Opened
    <3>5. QED
      BY <1>2, <1>5, <3>2, <3>4
  <2>2. QED
    BY <2>1
<1>12. ~IsAccess(table[i].uop)
  <2>1. table[i].uop \in Uops /\ table[i].uop.is_branch
    BY <1>2, Typed DEF Opened
  <2>2. QED
    BY <2>1, LoadStoreAssumption DEF IsAccess
<1>13. Waits' = {j \in Waits \ R : Age(j) <= Age(i)}
  <2>1. Waits' = {j \in Unfinished' : IsAccess(table'[j].uop)}
    BY DEF Waits
  <2>2. \A j \in Unfinished' : table'[j].uop = table[j].uop
    BY <1>8 DEF Unfinished
  <2>3. i \notin Waits
    BY <1>12 DEF Waits
  <2> HIDE DEF R
  <2>4. QED
    BY <1>10, <2>1, <2>2, <2>3 DEF Waits
<1>14. TagsAreRing' /\ TagsTyped'
  <2>1. PICK t \in table[i].tag : TagGenMisPred(t)
    BY DEF CutTo
  <2>2. t \in Tags
    BY <1>1, <1>2, <2>1, OpenTags DEF RobSound
  <2>3. QED
    BY <1>1, <1>11, <2>1, <2>2, TagsCut DEF RobSound
<1>15. RowsAreWhole'
  <2>1. \A j \in InFlight' : table'[j].uop \in Uops
    BY <1>7, <1>8, Typed
  <2>2. QED
    BY <2>1 DEF RowsAreWhole
<1>16. /\ \A j \in InFlight : PairTag(j) \cap FixTag(i) # {} <=> Age(j) > Age(i)
       /\ \A j \in InFlight : PairTag(j) = {} <=> Age(j) <= Age(i)
       /\ \A j : PairTag(j)' = {}
  <2>1. FixTag(i) = UNION {table[j].tag : j \in {j \in Opened : Age(j) >= Age(i)}}
    BY <1>1 DEF FixTag
  <2>2. QED
    BY <1>1, <1>2, <1>11, <2>1, PairsCut
<1>17. RowsSound'
  BY <1>3, <1>14, <1>15 DEF RowsSound
<1>18. QED
  BY <1>2, <1>3, <1>4, <1>8, <1>9, <1>12, <1>13, <1>14, <1>16, <1>17

(* The kill mask stops exactly what stands behind the branch.              *)
LEMMA CutKills ==
    ASSUME IInv, NEW i, NEW retired, CutTo(i, retired)
    PROVE  /\ stage0.valid =>
                 (~Squashed(stage0, FixTag(i)) <=> Age(stage0.rob_des_idx) <= Age(i))
           /\ \A k \in Waiting : ~Squashed(rsv[k], FixTag(i)) <=> Age(EntryOf(k)) <= Age(i)
           /\ \A j \in Entered : ~Squashed(buf[RowOf(j)], FixTag(i)) <=> Age(j) <= Age(i)
           /\ \A k \in Busy : buf[k].complete => ~Squashed(buf[k], FixTag(i))
           /\ Reports(i) = {r \in Reported : Age(r) <= Age(i)}
           /\ \A j \in InFlight : IsAccess(table[j].uop) =>
                 (Age(j) <= Age(i) <=> Age(j) < Age(i)) /\ j # i
<1> DEFINE kill == FixTag(i)
<1>1. /\ i \in InFlight /\ ~IsAccess(table[i].uop) /\ Waits \subseteq InFlight
      /\ \A j \in InFlight : Age(j) \in Int
      /\ \A j, k \in InFlight : Age(j) = Age(k) => j = k
      /\ \A j \in InFlight : PairTag(j) \cap kill # {} <=> Age(j) > Age(i)
  <2>1. /\ RobTyped /\ InFlight \subseteq Slots /\ Waits \subseteq InFlight
        /\ \A j \in InFlight : Age(j) \in Int
    BY Typed
  <2>2. \A j, k \in InFlight : Age(j) = Age(k) => j = k
    BY <2>1, SlotsAndAges, AgeIsFrom DEF RobTyped
  <2>3. QED
    BY <2>1, <2>2, CutRows
<1> HIDE DEF kill
<1>2. ASSUME NEW rec, NEW j \in InFlight, Follows(rec, j)
      PROVE  ~Squashed(rec, kill) <=> Age(j) <= Age(i)
  <2>1. Age(j) \in Int /\ Age(i) \in Int
    BY <1>1
  <2>2. Squashed(rec, kill) <=> PairTag(j) \cap kill # {}
    BY <1>2 DEF Squashed, Follows
  <2>3. Squashed(rec, kill) <=> Age(j) > Age(i)
    BY <1>1, <2>2
  <2>4. Age(j) > Age(i) <=> ~(Age(j) <= Age(i))
    BY <2>1
  <2>5. QED
    BY <2>3, <2>4
<1>3. stage0.valid => (~Squashed(stage0, kill) <=> Age(stage0.rob_des_idx) <= Age(i))
  <2>1. stage0.valid => Follows(stage0, stage0.rob_des_idx) /\ stage0.rob_des_idx \in Waits
    BY DEF IInv, PairsSound, Placed, Holds
  <2>2. QED
    BY <1>1, <1>2, <2>1
<1>4. \A k \in Waiting : ~Squashed(rsv[k], kill) <=> Age(EntryOf(k)) <= Age(i)
  <2>1. \A k \in Waiting : Follows(rsv[k], EntryOf(k)) /\ EntryOf(k) \in Waits
    BY DEF IInv, PairsSound, Placed, Holds, EntryOf
  <2>2. QED
    BY <1>1, <1>2, <2>1
<1>5. \A j \in Entered : ~Squashed(buf[RowOf(j)], kill) <=> Age(j) <= Age(i)
  <2>1. \A j \in Entered : Follows(buf[RowOf(j)], j) /\ j \in InFlight
    BY DEF IInv, PairsSound, Entered
  <2>2. QED
    BY <1>2, <2>1
<1>6. \A k \in Busy : buf[k].complete => ~Squashed(buf[k], kill)
  BY DEF IInv, PairsSound, Squashed
<1>7. Reports(i) = {r \in Reported : Age(r) <= Age(i)}
  <2>1. ASSUME NEW r \in Reported PROVE ~Squashed(stage1, kill) <=> Age(r) <= Age(i)
    <3>1. stage1_on /\ r = stage1.rob_des_idx
      BY DEF Reported
    <3>2. Follows(stage1, r) /\ r \in Waits
      BY <3>1 DEF IInv, PairsSound, Placed, Holds
    <3>3. QED
      BY <1>1, <1>2, <3>2
  <2>2. QED
    BY <2>1 DEF Reports, kill
<1>8. ASSUME NEW j \in InFlight, IsAccess(table[j].uop)
      PROVE  (Age(j) <= Age(i) <=> Age(j) < Age(i)) /\ j # i
  <2>1. j # i /\ Age(j) \in Int /\ Age(i) \in Int
    BY <1>1, <1>8
  <2>2. Age(j) # Age(i)
    BY <1>1, <2>1
  <2>3. QED
    BY <2>1, <2>2
<1>9. QED
  BY <1>3, <1>4, <1>5, <1>6, <1>7, <1>8 DEF kill

(* What is left of the station and of stage 0 after it, and where.         *)
LEMMA CutMoves ==
    ASSUME IInv, NEW i, NEW retired, CutTo(i, retired)
    PROVE  /\ Waiting' = {k \in Waiting : Age(EntryOf(k)) <= Age(i)}
           /\ \A k \in Waiting' : rsv'[k] = rsv[k] /\ EntryOf(k) \in Waits'
           /\ rsv' \in [RsvSlots -> Record \cup {NoEntry}]
           /\ rsv_head' = rsv_head /\ rsv_alloc' \in RsvSlots
           /\ \E n \in 0 .. RsvSize : StationRun(n)'
           /\ stage0' \in Record \cup {NoEntry}
           /\ stage0'.valid <=> stage0.valid /\ Age(stage0.rob_des_idx) <= Age(i)
           /\ stage0'.valid => stage0' = stage0 /\ stage0.rob_des_idx \in Waits'
           /\ stage1' = NoEntry /\ stage1_on' = FALSE /\ stage1'.valid = FALSE
<1> DEFINE kill == FixTag(i)
           left == {k \in Waiting : ~Squashed(rsv[k], kill)}
<1>1. /\ rsv' = [k \in RsvSlots |-> IF k \in left THEN rsv[k] ELSE NoEntry]
      /\ rsv_alloc' = RingSlot(RsvSize, rsv_head, Cardinality(left))
      /\ rsv_head' = rsv_head
  BY DEF CutTo, RsvMisPred, RingSlot
<1>2. /\ stage0.valid => (~Squashed(stage0, kill) <=> Age(stage0.rob_des_idx) <= Age(i))
      /\ left = {k \in Waiting : Age(EntryOf(k)) <= Age(i)}
      /\ Reports(i) = {r \in Reported : Age(r) <= Age(i)}
  BY CutKills
<1>3. /\ RsvSize \in Nat \ {0} /\ rsv_head \in 0 .. RsvSize - 1 /\ RsvSlots = 0 .. RsvSize - 1
      /\ Waiting \subseteq RsvSlots /\ Waits \subseteq InFlight
      /\ i \in InFlight /\ \A j \in InFlight : Age(j) \in Int
  BY Typed, CutRows
<1>4. /\ \A k \in Waiting : EntryOf(k) \in Waits
      /\ stage0.valid => stage0.rob_des_idx \in Waits
      /\ \A k \in Waiting : stage1_on => Age(stage1.rob_des_idx) < Age(EntryOf(k))
      /\ stage1_on /\ stage0.valid => Age(stage1.rob_des_idx) < Age(stage0.rob_des_idx)
      /\ stage1_on => stage1.rob_des_idx \in InFlight
  BY <1>3 DEF IInv, Placed, Holds, EntryOf
<1>5. Waits' = {j \in Waits \ Reports(i) : Age(j) <= Age(i)}
  BY CutRows
<1> HIDE DEF left, kill
<1>6. \A k \in Waiting : rsv[k] \in Record /\ rsv[k].valid
  BY RecordsTyped DEF Waiting
<1>7. ASSUME NEW k \in RsvSlots
      PROVE  /\ rsv'[k] = IF k \in left THEN rsv[k] ELSE NoEntry
             /\ rsv'[k] \in Record \cup {NoEntry}
             /\ rsv'[k].valid <=> k \in left
  <2>1. rsv'[k] = IF k \in left THEN rsv[k] ELSE NoEntry
    BY <1>1
  <2>2. left \subseteq Waiting
    BY DEF left
  <2>3. CASE k \in left
    BY <1>6, <2>1, <2>2, <2>3
  <2>4. CASE k \notin left
    <3>1. rsv'[k] = NoEntry /\ NoEntry.valid = FALSE
      BY <2>1, <2>4 DEF NoEntry
    <3>2. QED
      BY <2>1, <2>4, <3>1
  <2>5. QED
    BY <2>3, <2>4
<1>8. Waiting' = left /\ left \subseteq Waiting
  <2>1. Waiting' = {k \in RsvSlots : rsv'[k].valid}
    BY DEF Waiting
  <2>2. left \subseteq Waiting
    BY DEF left
  <2>3. QED
    BY <1>3, <1>7, <2>1, <2>2
<1>9. rsv' \in [RsvSlots -> Record \cup {NoEntry}]
  BY <1>1, <1>7
<1>10. ASSUME NEW k \in Waiting' PROVE rsv'[k] = rsv[k] /\ EntryOf(k) \in Waits'
  <2>1. k \in left /\ k \in Waiting /\ k \in RsvSlots
    BY <1>3, <1>8
  <2>2. EntryOf(k) \in Waits /\ Age(EntryOf(k)) <= Age(i)
    BY <1>2, <1>4, <2>1
  <2>3. EntryOf(k) \notin Reported
    BY <1>3, <1>4, <2>1 DEF Reported
  <2>4. QED
    BY <1>2, <1>5, <1>7, <2>1, <2>2, <2>3
<1>11. \E m \in 0 .. RsvSize : left = Run(RsvSize, rsv_head, m)
  <2>1. PICK n \in 0 .. RsvSize : StationRun(n)
    BY DEF IInv, Placed
  <2>2. left \in SUBSET Run(RsvSize, rsv_head, n)
    BY <1>8, <2>1 DEF StationRun
  <2>3. ASSUME NEW j \in Run(RsvSize, rsv_head, n), NEW k \in left,
               RingDist(RsvSize, rsv_head, j) < RingDist(RsvSize, rsv_head, k)
        PROVE  j \in left
    <3>1. j \in Waiting /\ k \in Waiting /\ RsvPos(j) < RsvPos(k)
      BY <1>8, <2>1, <2>3 DEF StationRun, RsvPos
    <3>2. Age(EntryOf(j)) < Age(EntryOf(k)) /\ EntryOf(j) \in InFlight /\ EntryOf(k) \in InFlight
      BY <1>3, <1>4, <3>1 DEF IInv, Placed
    <3>3. Age(EntryOf(k)) <= Age(i)
      BY <1>2, <2>3
    <3>4. Age(EntryOf(j)) <= Age(i)
      BY <1>3, <3>2, <3>3
    <3>5. QED
      BY <1>2, <3>1, <3>4
  <2>4. \E m \in 0 .. n : left = Run(RsvSize, rsv_head, m)
    BY <1>3, <2>2, <2>3, RunPrefix
  <2>5. QED
    BY <1>3, <2>1, <2>4
<1>12. PICK m \in 0 .. RsvSize : left = Run(RsvSize, rsv_head, m)
  BY <1>11
<1>13. Cardinality(left) = m
  BY <1>3, <1>12, RunSize
<1>14. StationRun(m)'
  BY <1>1, <1>8, <1>12, <1>13 DEF StationRun
<1>15. rsv_alloc' \in RsvSlots
  <2>1. RingSlot(RsvSize, rsv_head, m) \in 0 .. RsvSize - 1
    BY <1>3, RingMoves
  <2>2. QED
    BY <1>1, <1>3, <1>13, <2>1
<1>16. stage1' = NoEntry /\ stage1_on' = FALSE /\ stage1'.valid = FALSE
  <2>1. NoEntry.valid = FALSE
    BY DEF NoEntry
  <2>2. QED
    BY <2>1 DEF CutTo
<1>17. stage0' = IF stage0.valid /\ Age(stage0.rob_des_idx) <= Age(i) THEN stage0 ELSE NoEntry
  <2>1. stage0' = IF stage0.valid /\ ~Squashed(stage0, kill) THEN stage0 ELSE NoEntry
    BY DEF CutTo, kill
  <2>2. QED
    BY <1>2, <2>1
<1>18. /\ stage0' \in Record \cup {NoEntry}
       /\ stage0'.valid <=> stage0.valid /\ Age(stage0.rob_des_idx) <= Age(i)
       /\ stage0'.valid => stage0' = stage0 /\ stage0.rob_des_idx \in Waits'
  <2>1. NoEntry.valid = FALSE
    BY DEF NoEntry
  <2>2. CASE stage0.valid /\ Age(stage0.rob_des_idx) <= Age(i)
    <3>1. stage0' = stage0 /\ stage0 \in Record
      BY <1>17, <2>2, RecordsTyped
    <3>2. stage0.rob_des_idx \notin Reported
      BY <1>3, <1>4, <2>2 DEF Reported
    <3>3. QED
      BY <1>2, <1>4, <1>5, <2>2, <3>1, <3>2
  <2>3. CASE ~(stage0.valid /\ Age(stage0.rob_des_idx) <= Age(i))
    BY <1>17, <2>1, <2>3
  <2>4. QED
    BY <2>2, <2>3
<1>19. QED
  BY <1>1, <1>2, <1>8, <1>9, <1>10, <1>14, <1>15, <1>16, <1>18

(* The loads and stores that are left stand where they stood.              *)
LEMMA CutPlaces ==
    ASSUME IInv, NEW i, NEW retired, CutTo(i, retired)
    PROVE  Placed'
<1>1. /\ Waiting' = {k \in Waiting : Age(EntryOf(k)) <= Age(i)}
      /\ \A k \in Waiting' : rsv'[k] = rsv[k] /\ EntryOf(k) \in Waits'
      /\ rsv_head' = rsv_head
      /\ \E n \in 0 .. RsvSize : StationRun(n)'
      /\ stage0'.valid <=> stage0.valid /\ Age(stage0.rob_des_idx) <= Age(i)
      /\ stage0'.valid => stage0' = stage0 /\ stage0.rob_des_idx \in Waits'
      /\ stage1_on' = FALSE /\ stage1'.valid = FALSE
  BY CutMoves
<1>2. /\ InFlight' = {j \in InFlight : Age(j) <= Age(i)}
      /\ \A j : Age(j)' = Age(j)
      /\ \A j \in InFlight' :
            /\ table'[j].uop = table[j].uop
            /\ table'[j].wb_fin <=> table[j].wb_fin \/ j \in Reports(i) \cup {i}
      /\ Waits' = {j \in Waits \ Reports(i) : Age(j) <= Age(i)}
      /\ Reports(i) = {r \in Reported : Age(r) <= Age(i)}
      /\ ~IsAccess(table[i].uop) /\ Waits \subseteq InFlight /\ i \in InFlight
      /\ \A j \in InFlight : Age(j) \in Int
  BY Typed, CutRows, CutKills
<1>3. /\ stage0.valid => stage0.uop = table[stage0.rob_des_idx].uop
      /\ \A k \in Waiting : rsv[k].uop = table[EntryOf(k)].uop
      /\ \A k \in Waiting : stage0.valid => Age(stage0.rob_des_idx) < Age(EntryOf(k))
      /\ \A j, k \in Waiting : RsvPos(j) < RsvPos(k) => Age(EntryOf(j)) < Age(EntryOf(k))
      /\ \A j \in Waits : \/ stage1_on /\ j = stage1.rob_des_idx
                          \/ stage0.valid /\ j = stage0.rob_des_idx
                          \/ \E k \in Waiting : j = EntryOf(k)
      /\ stage1_on => Holds(stage1)
      /\ stage1_on => \A j \in Waits : j = stage1.rob_des_idx \/ Age(stage1.rob_des_idx) < Age(j)
      /\ \A x \in InFlight, j \in Waits :
            IsAccess(table[x].uop) /\ table[x].wb_fin => Age(x) < Age(j)
  <2>1. stage1_on => \A j \in Waits : j = stage1.rob_des_idx \/ Age(stage1.rob_des_idx) < Age(j)
    BY DEF IInv, Placed
  <2>2. QED
    BY <2>1 DEF IInv, Placed, Holds, EntryOf
<1>4. stage0'.valid => Holds(stage0)'
  <2>1. ASSUME stage0'.valid, NEW x, x = stage0.rob_des_idx PROVE Holds(stage0)'
    <3>1. x \in Waits' /\ x \in InFlight' /\ stage0' = stage0 /\ stage0.valid
      BY <1>1, <1>2, <2>1
    <3>2. table'[x].uop = stage0'.uop /\ x = stage0'.rob_des_idx
      BY <1>2, <1>3, <2>1, <3>1
    <3>3. QED
      BY <3>1, <3>2 DEF Holds
  <2>2. QED
    BY <2>1
<1>5. ASSUME NEW k \in Waiting' PROVE Holds(rsv[k])'
  <2>1. ASSUME NEW x, x = EntryOf(k) PROVE Holds(rsv[k])'
    <3>1. x \in Waits' /\ x \in InFlight' /\ rsv'[k] = rsv[k] /\ k \in Waiting
      BY <1>1, <1>2, <2>1
    <3>2. table'[x].uop = rsv'[k].uop /\ x = rsv'[k].rob_des_idx
      BY <1>2, <1>3, <2>1, <3>1 DEF EntryOf
    <3>3. QED
      BY <3>1, <3>2 DEF Holds
  <2>2. QED
    BY <2>1
<1>6. \A k \in Waiting' : k \in Waiting /\ EntryOf(k)' = EntryOf(k) /\ RsvPos(k)' = RsvPos(k)
  BY <1>1 DEF EntryOf, RsvPos
<1>7. \A k \in Waiting' : stage0'.valid => Age(stage0.rob_des_idx)' < Age(EntryOf(k))'
  <2>1. ASSUME NEW k \in Waiting', stage0'.valid, NEW x, x = stage0.rob_des_idx, NEW y, y = EntryOf(k)
        PROVE  Age(stage0.rob_des_idx)' < Age(EntryOf(k))'
    <3>1. Age(x) < Age(y) /\ x = stage0'.rob_des_idx /\ y = rsv'[k].rob_des_idx
      BY <1>1, <1>3, <1>6, <2>1 DEF EntryOf
    <3>2. Age(x)' < Age(y)'
      BY <1>2, <3>1
    <3>3. QED
      BY <3>1, <3>2 DEF Age, EntryOf
  <2>2. QED
    BY <2>1
<1>8. \A j, k \in Waiting' : RsvPos(j)' < RsvPos(k)' => Age(EntryOf(j))' < Age(EntryOf(k))'
  <2>1. ASSUME NEW j \in Waiting', NEW k \in Waiting', RsvPos(j)' < RsvPos(k)',
               NEW x, x = EntryOf(j), NEW y, y = EntryOf(k)
        PROVE  Age(EntryOf(j))' < Age(EntryOf(k))'
    <3>1. RsvPos(j) < RsvPos(k) /\ j \in Waiting /\ k \in Waiting
      BY <1>6, <2>1
    <3>2. Age(x) < Age(y) /\ x = rsv'[j].rob_des_idx /\ y = rsv'[k].rob_des_idx
      BY <1>1, <1>3, <2>1, <3>1 DEF EntryOf
    <3>3. Age(x)' < Age(y)'
      BY <1>2, <3>2
    <3>4. QED
      BY <3>2, <3>3 DEF Age, EntryOf
  <2>2. QED
    BY <2>1
<1>9. \A j \in Waits' : \/ stage0'.valid /\ j = stage0'.rob_des_idx
                        \/ \E k \in Waiting' : j = EntryOf(k)'
  <2>1. ASSUME NEW j \in Waits' PROVE \/ stage0'.valid /\ j = stage0'.rob_des_idx
                                      \/ \E k \in Waiting' : j = EntryOf(k)'
    <3>1. j \in Waits /\ Age(j) <= Age(i) /\ j \notin Reported
      BY <1>2
    <3>2. ~(stage1_on /\ j = stage1.rob_des_idx)
      BY <3>1 DEF Reported
    <3>3. QED
      BY <1>1, <1>3, <1>6, <3>1, <3>2
  <2>2. QED
    BY <2>1
<1>10. \A x \in InFlight', j \in Waits' :
          IsAccess(table'[x].uop) /\ table'[x].wb_fin => Age(x)' < Age(j)'
  <2>1. ASSUME NEW x \in InFlight', NEW j \in Waits', IsAccess(table'[x].uop), table'[x].wb_fin
        PROVE  Age(x) < Age(j)
    <3>1. /\ x \in InFlight /\ IsAccess(table[x].uop) /\ x # i
          /\ table[x].wb_fin \/ x \in Reports(i)

      BY <1>2, <2>1
    <3>2. j \in Waits /\ j \notin Reported
      BY <1>2, <2>1
    <3>3. CASE table[x].wb_fin
      BY <1>3, <3>1, <3>2, <3>3
    <3>4. CASE x \in Reports(i)
      <4>1. stage1_on /\ x = stage1.rob_des_idx /\ j # x
        BY <3>2, <3>4 DEF Reports, Reported
      <4>2. QED
        BY <1>3, <3>2, <4>1
    <3>5. QED
      BY <3>1, <3>3, <3>4
  <2>2. QED
    BY <1>2, <2>1
<1>11. stage1'.valid <=> stage1_on'
  BY <1>1
<1>12. QED
  BY <1>1, <1>4, <1>5, <1>7, <1>8, <1>9, <1>10, <1>11 DEF Placed

(* The stores that stay entered are those ahead of the branch, at the      *)
(* places they had; one that stage 1 reports in this cycle counts already. *)
LEMMA CutEntered ==
    ASSUME IInv, NEW i, NEW retired, CutTo(i, retired)
    PROVE  /\ Entered' = {j \in Entered : Age(j) < Age(i)}
           /\ Cardinality(Entered') = Rank(Entered, i)
           /\ \A j \in Entered' : RankNext(Entered', j) = Rank(Entered, j)
           /\ \A j \in Entered : Age(j) < Age(i) <=> Rank(Entered, j) < Rank(Entered, i)
           /\ Rank(Entered, i) \in 0 .. Cardinality(Entered)
<1>1. /\ InFlight' = {j \in InFlight : Age(j) <= Age(i)}
      /\ \A j : Age(j)' = Age(j)
      /\ \A j \in InFlight' :
            /\ table'[j].uop = table[j].uop
            /\ table'[j].wb_fin <=> table[j].wb_fin \/ j \in Reports(i) \cup {i}
      /\ Reports(i) = {r \in Reported : Age(r) <= Age(i)}
      /\ i \in InFlight
      /\ \A j \in InFlight : IsAccess(table[j].uop) =>
                 (Age(j) <= Age(i) <=> Age(j) < Age(i)) /\ j # i
  BY CutRows, CutKills
<1>2. Reported' = {}
  BY CutMoves DEF Reported
<1>3. Entered' = {j \in Entered : Age(j) < Age(i)}
  <2>1. Entered' = {j \in InFlight' : table'[j].uop.is_store /\ table'[j].wb_fin}
    BY <1>2 DEF Entered
  <2>2. \A j \in InFlight : table[j].uop.is_store => IsAccess(table[j].uop)
    BY DEF IsAccess
  <2>3. ASSUME NEW j \in Entered' PROVE j \in Entered /\ Age(j) < Age(i)
    BY <1>1, <2>1, <2>2 DEF Entered
  <2>4. ASSUME NEW j \in Entered, Age(j) < Age(i) PROVE j \in Entered'
    BY <1>1, <2>1, <2>2, <2>4 DEF Entered
  <2>5. QED
    BY <2>3, <2>4
<1>4. Cardinality(Entered') = Rank(Entered, i)
  BY <1>3 DEF Rank
<1>5. Entered \in SUBSET InFlight /\ RobTyped /\ \A j \in InFlight : Age(j) \in Nat
  BY Typed DEF Entered
<1>6. ASSUME NEW j \in Entered' PROVE RankNext(Entered', j) = Rank(Entered, j)
  <2>1. \A x : AgeNext(x) = Age(x)
    BY <1>1 DEF AgeNext, Age, AgeFrom
  <2>2. {x \in Entered' : AgeNext(x) < AgeNext(j)} = {x \in Entered : Age(x) < Age(j)}
    <3>1. j \in Entered /\ Age(j) < Age(i)
      BY <1>3
    <3>2. \A x \in Entered : Age(x) < Age(j) => Age(x) < Age(i)
      BY <1>1, <1>5, <3>1
    <3>3. QED
      BY <1>3, <2>1, <3>2
  <2>3. QED
    BY <2>2 DEF Rank, RankNext
<1>7. /\ \A j \in Entered : Age(j) < Age(i) <=> Rank(Entered, j) < Rank(Entered, i)
      /\ Rank(Entered, i) \in 0 .. Cardinality(Entered)
  BY <1>1, <1>5, Ranks
<1>8. QED
  BY <1>3, <1>4, <1>6, <1>7

(* The rows of the buffer that survive are the retired stores and those of *)
(* the stores ahead of the branch: a run from the head on.                 *)
LEMMA CutSurvivors ==
    ASSUME IInv, NEW i, NEW retired, CutTo(i, retired),
           NEW cnt, NEW done, BufferRun(cnt, done), NEW q, q = Rank(Entered, i)
    PROVE  /\ q \in 0 .. cnt - done
           /\ Survivors(FixTag(i)) = Run(BufDepth, buf_ret, done + q)
           /\ Cardinality(Survivors(FixTag(i))) = done + q
           /\ \A j \in Entered' : RowOf(j) \in Survivors(FixTag(i)) /\ Rank(Entered, j) \in 0 .. q - 1
<1>1. /\ cnt \in 0 .. BufDepth /\ done \in 0 .. cnt /\ Cardinality(Entered) = cnt - done
      /\ Busy = Run(BufDepth, buf_ret, cnt)
      /\ BufDepth \in Nat \ {0} /\ buf_ret \in 0 .. BufDepth - 1
  BY Typed, BufferRows DEF BufferRun
<1>2. /\ \A k \in Busy : BufPos(k) \in 0 .. cnt - 1 /\ (buf[k].complete <=> BufPos(k) < done)
      /\ \A j \in Entered : /\ BufPos(RowOf(j)) = done + Rank(Entered, j) /\ RowOf(j) \in Busy
                            /\ Rank(Entered, j) \in 0 .. cnt - done - 1
      /\ \A k \in Busy : ~buf[k].complete => \E j \in Entered : k = RowOf(j)
  BY BufferRows
<1>3. /\ \A j \in Entered : Age(j) < Age(i) <=> Rank(Entered, j) < q
      /\ q \in 0 .. cnt - done
      /\ Entered' = {j \in Entered : Age(j) < Age(i)}
  BY <1>1, CutEntered
<1>4. /\ \A j \in Entered : ~Squashed(buf[RowOf(j)], FixTag(i)) <=> Age(j) < Age(i)
      /\ \A k \in Busy : buf[k].complete => ~Squashed(buf[k], FixTag(i))
  <2>1. \A j \in Entered : j \in InFlight /\ IsAccess(table[j].uop)
    BY DEF Entered, IsAccess
  <2>2. QED
    BY <2>1, CutKills
<1>5. /\ cnt \in Int /\ done \in Int /\ q \in Int /\ q >= 0 /\ done + q \in 0 .. cnt
      /\ done + q \in 0 .. BufDepth
  BY <1>1, <1>3
<1>6. ASSUME NEW k \in Busy PROVE ~Squashed(buf[k], FixTag(i)) <=> BufPos(k) < done + q
  <2>1. BufPos(k) \in Int /\ (buf[k].complete <=> BufPos(k) < done)
    BY <1>2
  <2>2. CASE buf[k].complete
    <3>1. BufPos(k) < done + q
      BY <1>5, <2>1, <2>2
    <3>2. QED
      BY <1>4, <2>2, <3>1
  <2>3. CASE ~buf[k].complete
    <3>1. PICK j \in Entered : k = RowOf(j)
      BY <1>2, <2>3
    <3>2. BufPos(k) = done + Rank(Entered, j) /\ Rank(Entered, j) \in Int
      BY <1>2, <3>1
    <3>3. BufPos(k) < done + q <=> Rank(Entered, j) < q
      BY <1>5, <3>2
    <3>4. QED
      BY <1>3, <1>4, <3>1, <3>3
  <2>4. QED
    BY <2>2, <2>3
<1>7. Survivors(FixTag(i)) = Run(BufDepth, buf_ret, done + q)
  <2>1. ASSUME NEW k \in Survivors(FixTag(i)) PROVE k \in Run(BufDepth, buf_ret, done + q)
    <3>1. k \in Busy /\ BufPos(k) < done + q
      BY <1>6 DEF Survivors
    <3>2. QED
      BY <1>1, <3>1 DEF Run, BufPos
  <2>2. ASSUME NEW k \in Run(BufDepth, buf_ret, done + q) PROVE k \in Survivors(FixTag(i))
    <3>1. k \in 0 .. BufDepth - 1 /\ BufPos(k) < done + q
      BY DEF Run, BufPos
    <3>2. BufPos(k) \in Int
      BY <1>1, <3>1, RingThere DEF BufPos
    <3>3. BufPos(k) < cnt
      BY <1>5, <3>1, <3>2
    <3>4. k \in Busy
      BY <1>1, <3>1, <3>3 DEF Run, BufPos
    <3>5. QED
      BY <1>6, <3>1, <3>4 DEF Survivors
  <2>3. QED
    BY <2>1, <2>2
<1>8. Cardinality(Survivors(FixTag(i))) = done + q
  BY <1>1, <1>5, <1>7, RunSize
<1>9. ASSUME NEW j \in Entered'
      PROVE  RowOf(j) \in Survivors(FixTag(i)) /\ Rank(Entered, j) \in 0 .. q - 1
  <2>1. j \in Entered /\ Rank(Entered, j) < q /\ RowOf(j) \in Busy
    BY <1>2, <1>3
  <2>2. ~Squashed(buf[RowOf(j)], FixTag(i))
    BY <1>3, <1>4
  <2>3. Rank(Entered, j) \in Int /\ Rank(Entered, j) >= 0
    BY <1>2, <2>1
  <2>4. Rank(Entered, j) \in 0 .. q - 1
    BY <1>5, <2>1, <2>3
  <2>5. QED
    BY <2>1, <2>2, <2>4 DEF Survivors
<1>10. QED
  BY <1>3, <1>7, <1>8, <1>9

(* The buffer is a run after it too, less the head if memory took that;    *)
(* every store left keeps its row.                                         *)
LEMMA CutBuffer ==
    ASSUME IInv, NEW i, NEW retired, CutTo(i, retired),
           NEW cnt, NEW done, BufferRun(cnt, done),
           NEW q, q = Rank(Entered, i), NEW r, r = One(retired)
    PROVE  /\ BufferRun(done + q - r, done - r)'
           /\ buf_ret' \in BufSlots /\ buf_com' \in BufSlots /\ buf_alloc' \in BufSlots
           /\ buf' \in [BufSlots -> BufRow \cup {FreeRow}]
           /\ \A k \in Busy' : /\ k \in Kept(retired) /\ buf'[k] = buf[k]
                               /\ BufPosNext(k) = BufPos(k) - r
           /\ \A k \in Kept(retired) : buf[k].complete => k \in Busy'
           /\ \A j \in Entered' : RowNext(j) = RowOf(j) /\ RowOf(j) \in Busy'
           /\ retired => buf_ret \in Busy /\ buf[buf_ret].complete /\ BufPos(buf_ret) = 0
<1> DEFINE N == BufDepth
           left == Survivors(FixTag(i))
<1>1. /\ cnt \in 0 .. N /\ done \in 0 .. cnt
      /\ Busy = Run(N, buf_ret, cnt) /\ buf_com = RingSlot(N, buf_ret, done)
      /\ N \in Nat \ {0} /\ buf_ret \in 0 .. N - 1
      /\ BufSlots = 0 .. N - 1 /\ Busy \subseteq BufSlots
  BY Typed DEF BufferRun
<1>2. /\ \A k \in Busy : BufPos(k) \in 0 .. cnt - 1 /\ (buf[k].complete <=> BufPos(k) < done)
      /\ \A j \in Entered : /\ RowOf(j) = RingSlot(N, buf_com, Rank(Entered, j))
                            /\ ~buf[RowOf(j)].complete
  BY BufferRows
<1>3. /\ q \in 0 .. cnt - done
      /\ left = Run(N, buf_ret, done + q) /\ Cardinality(left) = done + q
      /\ \A j \in Entered' : RowOf(j) \in left /\ Rank(Entered, j) \in 0 .. q - 1
      /\ \A j \in Entered' : j \in Entered
      /\ Cardinality(Entered') = q
      /\ \A j \in Entered' : RankNext(Entered', j) = Rank(Entered, j)
  BY CutSurvivors, CutEntered
<1>4. /\ buf' = [k \in BufSlots |-> IF k \in left /\ ~(retired /\ k = buf_ret) THEN buf[k] ELSE FreeRow]
      /\ buf_alloc' = RingSlot(N, buf_ret, done + q)
      /\ buf_ret' = Stepped(buf_ret, retired)
      /\ buf_com' = buf_com
      /\ retired \in {FALSE, RetireReady}
  BY <1>3 DEF CutTo, BufMisPred, RingSlot
<1>5. left \subseteq Busy
  BY DEF Survivors
<1> HIDE DEF left
<1>6. r \in 0 .. 1 /\ (r = 1 <=> retired) /\ (retired => RetireReady)
  <2>1. retired => RetireReady
    BY <1>4
  <2>2. retired => r = 1
    BY DEF One
  <2>3. ~retired => r = 0
    BY DEF One
  <2>4. r = 0 => r # 1
    OBVIOUS
  <2>5. r \in 0 .. 1
    BY <2>2, <2>3
  <2>6. r = 1 <=> retired
    BY <2>2, <2>3, <2>4, Zenon
  <2>7. QED
    BY <2>1, <2>5, <2>6, Zenon
<1>7. retired => buf_ret \in Busy /\ buf[buf_ret].complete /\ BufPos(buf_ret) = 0 /\ done > 0
  <2>1. RingDist(N, buf_ret, buf_ret) = 0
    BY <1>1, RingOneToOne
  <2>2. ASSUME retired PROVE done > 0
    <3>1. buf_ret \in Busy /\ buf[buf_ret].complete
      BY <1>6, <2>2 DEF RetireReady
    <3>2. BufPos(buf_ret) < done /\ BufPos(buf_ret) = 0
      BY <1>2, <2>1, <3>1 DEF BufPos
    <3>3. QED
      BY <1>1, <3>2
  <2>3. QED
    BY <1>6, <2>1, <2>2 DEF RetireReady, BufPos
<1>8. buf_ret' = RingSlot(N, buf_ret, r)
  <2>1. CASE retired
    BY <1>4, <2>1 DEF Stepped, RingSlot, One
  <2>2. CASE ~retired
    <3>1. r = 0 /\ RingSlot(N, buf_ret, 0) = buf_ret
      BY <1>1, <2>2, RingOneToOne DEF One
    <3>2. QED
      BY <1>4, <2>2, <3>1 DEF Stepped
  <2>3. QED
    BY <2>1, <2>2
<1>9. /\ N \in Nat \ {0} /\ N \in Int /\ done \in 0 .. N /\ q \in Int /\ q >= 0 /\ r \in 0 .. 1
      /\ r <= done /\ done + q \in 0 .. N /\ 0 \in 0 .. N - done /\ 0 \in 0 .. N - (done + q)
      /\ r <= done + q /\ done + q - r \in 0 .. N /\ done - r \in 0 .. done + q - r
      /\ done + q - r + 0 = done + q - r /\ done - r + 0 = done - r
      /\ done + q - r = done - r + q
  <2>1. retired => done > 0
    BY <1>7
  <2>2. r <= done
    <3>1. CASE retired
      <4>1. r = 1 /\ done > 0
        BY <2>1, <3>1 DEF One
      <4>2. QED
        BY <1>1, <4>1
    <3>2. CASE ~retired
      <4>1. r = 0
        BY <3>2 DEF One
      <4>2. QED
        BY <1>1, <4>1
    <3>3. QED
      BY <3>1, <3>2
  <2>3. N \in Nat \ {0} /\ cnt \in 0 .. N /\ done \in 0 .. cnt /\ q \in 0 .. cnt - done /\ r \in 0 .. 1
    BY <1>1, <1>3, <1>6
  <2>4. QED
    BY <2>2, <2>3
<1>10. ASSUME NEW n \in 0 .. N, 0 \in 0 .. N - n, r <= n, NEW h, h = buf_ret',
              NEW a, a = RingSlot(N, buf_ret, n)
       PROVE  RunMoved(N, buf_ret, n, 0, r, h, a)
  <2>1. h = RingSlot(N, buf_ret, r)
    BY <1>8, <1>10
  <2>2. N \in Nat \ {0} /\ buf_ret \in 0 .. N - 1 /\ r \in 0 .. 1
    BY <1>1, <1>9
  <2>3. QED
    BY <1>10, <2>1, <2>2, RunMoves
<1>11. RunMoved(N, buf_ret, done + q, 0, r, buf_ret', buf_alloc')
  <2>1. ASSUME NEW h, h = buf_ret', NEW a, a = buf_alloc'
        PROVE  RunMoved(N, buf_ret, done + q, 0, r, h, a)
    BY <1>4, <1>9, <1>10, <2>1
  <2>2. QED
    BY <2>1
<1>12. RunMoved(N, buf_ret, done, 0, r, buf_ret', buf_com)
  <2>1. ASSUME NEW h, h = buf_ret', NEW a, a = buf_com
        PROVE  RunMoved(N, buf_ret, done, 0, r, h, a)
    BY <1>1, <1>9, <1>10, <2>1
  <2>2. QED
    BY <2>1
<1>13. /\ buf_ret' \in 0 .. N - 1 /\ buf_alloc' \in 0 .. N - 1 /\ buf_com \in 0 .. N - 1
       /\ \A k \in 0 .. N - 1 : k \in Run(N, buf_ret', done + q - r) <=>
             (k \in left /\ ~(r = 1 /\ k = buf_ret)) \/ RingDist(N, buf_alloc', k) < 0
       /\ \A k \in left : ~(r = 1 /\ k = buf_ret) => BufPosNext(k) = BufPos(k) - r
       /\ RingSlot(N, buf_alloc', 0) = RingSlot(N, buf_ret', done + q - r)
       /\ RingSlot(N, buf_com, 0) = RingSlot(N, buf_ret', done - r)
  BY <1>3, <1>9, <1>11, <1>12 DEF RunMoved, BufPos, BufPosNext
<1>14. /\ buf_alloc' = RingSlot(N, buf_ret', done + q - r)
       /\ buf_com' = RingSlot(N, buf_ret', done - r)
       /\ \A k \in 0 .. N - 1 : k \in Run(N, buf_ret', done + q - r) <=>
             k \in left /\ ~(r = 1 /\ k = buf_ret)
  <2>1. ASSUME NEW b \in 0 .. N - 1, NEW k \in 0 .. N - 1
        PROVE  RingSlot(N, b, 0) = b /\ ~(RingDist(N, b, k) < 0)
    <3>1. RingSlot(N, b, 0) = b
      BY <1>1, RingOneToOne
    <3>2. RingDist(N, b, k) \in 0 .. N - 1
      BY <1>1, RingThere
    <3>3. QED
      BY <1>1, <3>1, <3>2
  <2>2. 0 \in 0 .. N - 1
    BY <1>1
  <2>3. QED
    BY <1>4, <1>13, <2>1, <2>2
<1>15. ASSUME NEW k \in BufSlots
       PROVE  /\ buf'[k] = IF k \in left /\ ~(retired /\ k = buf_ret) THEN buf[k] ELSE FreeRow
              /\ buf'[k] \in BufRow \cup {FreeRow}
              /\ buf'[k].busy <=> k \in left /\ ~(retired /\ k = buf_ret)
  <2>1. buf'[k] = IF k \in left /\ ~(retired /\ k = buf_ret) THEN buf[k] ELSE FreeRow
    BY <1>4
  <2>2. CASE k \in left /\ ~(retired /\ k = buf_ret)
    <3>1. buf[k] \in BufRow /\ buf[k].busy
      BY <1>5, <2>2, RecordsTyped
    <3>2. QED
      BY <2>1, <2>2, <3>1
  <2>3. CASE ~(k \in left /\ ~(retired /\ k = buf_ret))
    <3>1. buf'[k] = FreeRow /\ FreeRow.busy = FALSE
      BY <2>1, <2>3 DEF FreeRow
    <3>2. QED
      BY <2>1, <2>3, <3>1
  <2>4. QED
    BY <2>2, <2>3
<1>16. buf' \in [BufSlots -> BufRow \cup {FreeRow}]
  BY <1>4, <1>15
<1>17. Busy' = {k \in left : ~(retired /\ k = buf_ret)}
  <2>1. Busy' = {k \in BufSlots : buf'[k].busy}
    BY DEF Busy
  <2>2. QED
    BY <1>1, <1>5, <1>15, <2>1
<1>18. Busy' = Run(N, buf_ret', done + q - r)
  <2>1. Run(N, buf_ret', done + q - r) \subseteq 0 .. N - 1
    BY DEF Run
  <2>2. left \subseteq 0 .. N - 1
    BY <1>1, <1>5
  <2>3. QED
    BY <1>6, <1>14, <1>17, <2>1, <2>2
<1>19. ASSUME NEW k \in Busy'
       PROVE  /\ k \in Kept(retired) /\ k \in Busy /\ buf'[k] = buf[k]
              /\ BufPosNext(k) = BufPos(k) - r
  BY <1>1, <1>5, <1>6, <1>13, <1>15, <1>17 DEF Kept
<1>20. \A k \in Kept(retired) : buf[k].complete => k \in Busy'
  <2>1. \A k \in Busy : buf[k].complete => k \in left
    BY CutKills DEF left, Survivors
  <2>2. QED
    BY <1>17, <2>1 DEF Kept
<1>21. ASSUME NEW j \in Entered' PROVE RowNext(j) = RowOf(j) /\ RowOf(j) \in Busy'
  <2>1. /\ RowOf(j) = RingSlot(N, buf_com, Rank(Entered, j)) /\ RowOf(j) \in left
        /\ ~buf[RowOf(j)].complete /\ RankNext(Entered', j) = Rank(Entered, j)
    BY <1>2, <1>3
  <2>2. RowNext(j) = RowOf(j)
    BY <1>4, <2>1 DEF RowNext
  <2>3. ~(retired /\ RowOf(j) = buf_ret)
    BY <1>7, <2>1
  <2>4. QED
    BY <1>17, <2>1, <2>2, <2>3
<1>22. BufferRun(done + q - r, done - r)'
  <2>1. \A k : BufPos(k)' = BufPosNext(k)
    BY DEF BufPos, BufPosNext
  <2>2. ASSUME NEW k \in Busy' PROVE buf'[k].complete <=> BufPosNext(k) < done - r
    <3>1. /\ BufPosNext(k) = BufPos(k) - r /\ buf'[k] = buf[k] /\ BufPos(k) \in 0 .. cnt - 1
          /\ (buf[k].complete <=> BufPos(k) < done)
      BY <1>2, <1>19
    <3>2. BufPos(k) - r < done - r <=> BufPos(k) < done
      BY <1>9, <3>1
    <3>3. QED
      BY <3>1, <3>2
  <2>3. ASSUME NEW m, m = done + q - r, NEW fin, fin = done - r PROVE BufferRun(m, fin)'
    <3>1. m \in 0 .. N /\ fin \in 0 .. m /\ m = fin + Cardinality(Entered')
      BY <1>3, <1>9, <2>3
    <3>2. /\ Busy' = Run(N, buf_ret', m) /\ \A k \in Busy' : buf'[k].complete <=> BufPosNext(k) < fin
      BY <1>18, <2>2, <2>3
    <3>3. buf_com' = RingSlot(N, buf_ret', fin) /\ buf_alloc' = RingSlot(N, buf_ret', m)
      BY <1>14, <2>3
    <3>4. QED
      BY <2>1, <3>1, <3>2, <3>3 DEF BufferRun
  <2>4. QED
    BY <2>3
<1>23. buf_ret' \in BufSlots /\ buf_com' \in BufSlots /\ buf_alloc' \in BufSlots
  BY <1>1, <1>4, <1>13
<1>24. QED
  BY <1>7, <1>16, <1>19, <1>20, <1>21, <1>22, <1>23

(* The records that are left stand ahead of every branch that was open, so *)
(* they carry no tag, and no branch is open after it.                      *)
LEMMA CutPairs ==
    ASSUME IInv, NEW i, NEW retired, CutTo(i, retired)
    PROVE  PairsSound'
<1>1. /\ stage0.valid => Follows(stage0, stage0.rob_des_idx)
      /\ \A k \in Waiting : Follows(rsv[k], EntryOf(k))
      /\ \A j \in Entered : Follows(buf[RowOf(j)], j)
      /\ \A k \in Busy : buf[k].complete => ~buf[k].is_spec /\ buf[k].spec_tag = {}
  BY DEF IInv, PairsSound
<1>2. /\ \A j : PairTag(j)' = {}
      /\ \A j \in InFlight : PairTag(j) = {} <=> Age(j) <= Age(i)
      /\ InFlight' = {j \in InFlight : Age(j) <= Age(i)}
  BY CutRows
<1>3. /\ \A k \in Waiting' : k \in Waiting /\ Age(EntryOf(k)) <= Age(i) /\ rsv'[k] = rsv[k]
      /\ stage0'.valid <=> stage0.valid /\ Age(stage0.rob_des_idx) <= Age(i)
      /\ stage0'.valid => stage0' = stage0
      /\ stage1_on' = FALSE
  BY CutMoves
<1>4. /\ \A k \in Waiting : EntryOf(k) \in InFlight
      /\ stage0.valid => stage0.rob_des_idx \in InFlight
  BY Typed DEF IInv, Placed, Holds, EntryOf
<1>5. stage0'.valid => Follows(stage0, stage0.rob_des_idx)'
  <2>1. ASSUME stage0'.valid, NEW x, x = stage0.rob_des_idx
        PROVE  Follows(stage0, stage0.rob_des_idx)'
    <3>1. /\ stage0.valid /\ stage0' = stage0 /\ Age(x) <= Age(i) /\ x \in InFlight
          /\ x = stage0'.rob_des_idx
      BY <1>3, <1>4, <2>1
    <3>2. stage0.spec_tag = {} /\ (stage0.is_spec <=> stage0.spec_tag # {})
      BY <1>1, <1>2, <2>1, <3>1 DEF Follows
    <3>3. QED
      BY <1>2, <3>1, <3>2, FollowsNext
  <2>2. QED
    BY <2>1
<1>6. ASSUME NEW k \in Waiting' PROVE Follows(rsv[k], EntryOf(k))'
  <2>1. ASSUME NEW x, x = EntryOf(k) PROVE Follows(rsv[k], EntryOf(k))'
    <3>1. /\ k \in Waiting /\ rsv'[k] = rsv[k] /\ Age(x) <= Age(i) /\ x \in InFlight
          /\ x = rsv'[k].rob_des_idx
      BY <1>3, <1>4, <2>1 DEF EntryOf
    <3>2. rsv[k].spec_tag = {} /\ (rsv[k].is_spec <=> rsv[k].spec_tag # {})
      BY <1>1, <1>2, <2>1, <3>1 DEF Follows
    <3>3. QED
      BY <1>2, <3>1, <3>2, FollowsNext
  <2>2. QED
    BY <2>1
<1>7. PICK cnt, done : BufferRun(cnt, done)
  BY DEF IInv, Buffered
<1>8. PICK q, r : q = Rank(Entered, i) /\ r = One(retired)
  OBVIOUS
<1>9. /\ \A k \in Busy' : k \in Kept(retired) /\ buf'[k] = buf[k]
      /\ \A j \in Entered' : RowNext(j) = RowOf(j) /\ RowOf(j) \in Busy'
  BY <1>7, <1>8, CutBuffer
<1>10. \A j \in Entered' : j \in Entered /\ j \in InFlight /\ Age(j) <= Age(i)
  <2>1. \A j \in Entered' : j \in Entered /\ j \in InFlight'
    BY CutEntered DEF Entered
  <2>2. QED
    BY <1>2, <2>1
<1>11. ASSUME NEW j \in Entered' PROVE Follows(buf[RowOf(j)], j)'
  <2>1. ASSUME NEW k, k = RowOf(j) PROVE Follows(buf[RowOf(j)], j)'
    <3>1. k = RowNext(j) /\ buf'[k] = buf[k] /\ PairTag(j) = {} /\ Follows(buf[k], j)
      BY <1>1, <1>2, <1>9, <1>10, <2>1
    <3>2. buf[k].spec_tag = {} /\ (buf[k].is_spec <=> buf[k].spec_tag # {})
      BY <3>1 DEF Follows
    <3>3. QED
      BY <1>2, <3>1, <3>2, FollowsNext
  <2>2. QED
    BY <2>1
<1>12. \A k \in Busy' : buf'[k].complete => ~buf'[k].is_spec /\ buf'[k].spec_tag = {}
  BY <1>1, <1>9 DEF Kept
<1>13. QED
  BY <1>3, <1>5, <1>6, <1>11, <1>12 DEF PairsSound

(* The words before the rows that are left do not change.                  *)
LEMMA CutWord ==
    ASSUME IInv, NEW i, NEW retired, CutTo(i, retired),
           NEW j \in InFlight', NEW addr \in Addrs
    PROVE  WordBefore(j, addr)' = WordBefore(j, addr)
<1>1. /\ RobTyped /\ RobTyped' /\ InFlight' = {x \in InFlight : Age(x) <= Age(i)}
      /\ \A x : Age(x)' = Age(x)
      /\ \A x \in InFlight' : table'[x].uop = table[x].uop
      /\ \A x \in InFlight : Age(x) \in Int
      /\ i \in InFlight /\ committed' = committed
  <2>1. committed' = committed
    BY DEF CutTo
  <2>2. RobTyped /\ \A x \in InFlight : Age(x) \in Int
    BY Typed
  <2>3. QED
    BY <2>1, <2>2, CutRows
<1>2. \A x : AgeNext(x) = Age(x)
  BY <1>1 DEF AgeNext, Age, AgeFrom
<1>3. Writers(j, addr)' = Writers(j, addr)
  <2>1. Writers(j, addr)' = {x \in InFlight' : /\ Age(x) < Age(j) /\ table'[x].uop.is_store
                                               /\ table'[x].uop.addr = addr}
    BY <1>1 DEF Writers
  <2>2. \A x \in InFlight : Age(x) < Age(j) => x \in InFlight'
    BY <1>1
  <2>3. QED
    BY <1>1, <2>1, <2>2 DEF Writers
<1>4. ASSUME NEW p \in Parts PROVE PieceBefore(j, addr, p)' = PieceBefore(j, addr, p)
  <2> DEFINE W == WritersOf(j, addr, p)
             V == WritersOf(j, addr, p)'
  <2>1. /\ W \in SUBSET InFlight
        /\ W = {x \in Writers(j, addr) : p \in DOMAIN table[x].uop.bytes}
        /\ V = {x \in Writers(j, addr)' : p \in DOMAIN table'[x].uop.bytes}
    BY WordIsPieces, WordIsPiecesNext DEF Writers
  <2>2. \A x \in Writers(j, addr) : x \in InFlight /\ x \in InFlight' /\ table'[x].uop = table[x].uop
    BY <1>1 DEF Writers
  <2>3. V = W /\ V \in SUBSET InFlight'
    BY <1>3, <2>1, <2>2
  <2>4. CASE V # {}
    <3> DEFINE y == LastOf(W)
    <3>1. W # {} /\ y \in W /\ \A x \in W : Age(x) <= Age(y)
      BY <1>1, <2>1, <2>3, <2>4, LastIsYoungest
    <3> HIDE DEF W, V, y
    <3>2. y \in V /\ table'[y].uop = table[y].uop /\ \A x \in V : AgeNext(x) <= AgeNext(y)
      BY <1>2, <2>1, <2>2, <2>3, <3>1
    <3>3. LastNext(V) = y
      BY <1>1, <2>3, <3>2, LastNextIsYoungest
    <3>4. PieceBefore(j, addr, p) = table[y].uop.bytes[p]
      BY <3>1 DEF PieceBefore, W, y
    <3>5. PieceBefore(j, addr, p)' = table'[LastNext(V)].uop.bytes[p]
      <4>1. \A x : Age(x)' = AgeNext(x)
        BY <1>1, <1>2
      <4>2. LastOf(WritersOf(j, addr, p))' = LastNext(V)
        BY <4>1, Zenon DEF LastOf, LastNext, V
      <4>3. QED
        BY <2>4, <4>2 DEF PieceBefore, V
    <3>6. QED
      BY <3>2, <3>3, <3>4, <3>5
  <2>5. CASE V = {}
    BY <1>1, <2>3, <2>5 DEF PieceBefore
  <2>6. QED
    BY <2>4, <2>5
<1>5. QED
  BY <1>4, WordIsPieces, WordIsPiecesNext

(* The buffered words and the committed ones are the program's after it;   *)
(* a load that was under way in stage 1 has reported or is gone.           *)
LEMMA CutWords ==
    ASSUME IInv, NEW i, NEW retired, CutTo(i, retired)
    PROVE  WordsSound' /\ mem' \in [Addrs -> Word]
<1>1. PICK cnt, done : BufferRun(cnt, done)
  BY DEF IInv, Buffered
<1>2. PICK q, r : q = Rank(Entered, i) /\ r = One(retired)
  OBVIOUS
<1>3. /\ \A k \in Busy' : k \in Kept(retired) /\ buf'[k] = buf[k] /\ BufPosNext(k) = BufPos(k) - r
      /\ \A k \in Kept(retired) : buf[k].complete => k \in Busy'
      /\ \A j \in Entered' : RowNext(j) = RowOf(j) /\ RowOf(j) \in Busy'
      /\ retired => buf_ret \in Busy /\ buf[buf_ret].complete /\ BufPos(buf_ret) = 0
  BY <1>1, <1>2, CutBuffer
<1>4. \A j \in InFlight', addr \in Addrs : WordBefore(j, addr)' = WordBefore(j, addr)
  BY CutWord
<1>5. /\ r \in Int /\ Kept(retired) \subseteq Busy
      /\ \A k \in Busy : BufPos(k) \in Int /\ BufPos(k) >= 0
      /\ \A j, k \in Busy : BufPos(j) = BufPos(k) => j = k
      /\ \A k \in Busy : k \notin Kept(retired) => retired /\ k = buf_ret
  BY <1>1, <1>2, BufferRows DEF One, Kept
<1>6. \A j \in Entered' : /\ j \in Entered /\ j \in InFlight /\ j \in InFlight'
                          /\ table'[j].uop = table[j].uop /\ table[j].uop.addr \in Addrs
  <2>1. \A j \in Entered' : j \in Entered /\ j \in InFlight'
    BY CutEntered DEF Entered
  <2>2. \A u \in Uops : u.addr \in Addrs
    BY LoadStoreAssumption DEF Uop
  <2>3. \A j \in InFlight' : j \in InFlight /\ table'[j].uop = table[j].uop /\ table[j].uop \in Uops
    BY Typed, CutRows
  <2>4. QED
    BY <2>1, <2>2, <2>3
<1>7. ASSUME NEW j \in Entered' PROVE StoreMerged(j)'
  <2>1. ASSUME NEW k, k = RowOf(j), NEW a, a = table[j].uop.addr PROVE StoreMerged(j)'
    <3>1. /\ k = RowNext(j) /\ buf'[k] = buf[k] /\ a = table'[j].uop.addr /\ a \in Addrs
          /\ table'[j].uop = table[j].uop /\ j \in Entered
      BY <1>3, <1>6, <2>1
    <3>2. buf[k].mem_addr = a /\ buf[k].data = Merged(WordBefore(j, a), table[j].uop.bytes)
      BY <2>1, <3>1 DEF IInv, WordsSound, StoreMerged
    <3>3. WordBefore(j, a)' = WordBefore(j, a)
      BY <1>4, <1>6, <3>1
    <3>4. QED
      BY <3>1, <3>2, <3>3, WordsNext
  <2>2. QED
    BY <2>1
<1>8. /\ mem' \in [Addrs -> Word]
      /\ \A addr \in Addrs :
            mem'[addr] = IF retired /\ buf[buf_ret].mem_addr = addr THEN buf[buf_ret].data
                         ELSE mem[addr]
  <2>1. retired \in {FALSE, RetireReady} /\ mem' = MemAfter(retired)
    BY DEF CutTo
  <2>2. ASSUME NEW m, m = mem' PROVE Takes(m, retired)
    <3>1. m = MemAfter(retired)
      BY <2>1, <2>2
    <3>2. QED
      BY <2>1, <3>1, MemTaken, Zenon
  <2>3. QED
    BY <2>2 DEF Takes
<1>9. \A k, addr : k \in Drained(addr)' <=> k \in Drained(addr) /\ k \in Kept(retired)
  <2>1. \A k, addr : k \in Drained(addr)' <=> k \in Busy' /\ buf'[k].complete /\ buf'[k].mem_addr = addr
    BY DEF Drained
  <2>2. QED
    BY <1>3, <1>5, <2>1 DEF Drained
<1>10. ASSUME NEW addr \in Addrs PROVE Committed(addr)'
  <2>1. Committed(addr)
    BY DEF IInv, WordsSound
  <2>2. committed' = committed
    BY DEF CutTo
  <2>3. CASE Drained(addr) = {}
    <3>1. Drained(addr)' = {} /\ committed[addr] = mem[addr]
      BY <1>9, <2>1, <2>3 DEF Committed
    <3>2. retired => buf[buf_ret].mem_addr # addr
      BY <1>3, <2>3 DEF Drained
    <3>3. mem'[addr] = mem[addr]
      BY <1>8, <3>2
    <3>4. QED
      BY <2>2, <3>1, <3>3 DEF Committed
  <2>4. CASE Drained(addr) # {}
    <3>1. PICK k \in Drained(addr) : /\ \A j \in Drained(addr) : BufPos(j) <= BufPos(k)
                                     /\ committed[addr] = buf[k].data
      BY <2>1, <2>4 DEF Committed
    <3>2. CASE k \in Kept(retired)
      <4>1. k \in Drained(addr)'
        BY <1>9, <3>1, <3>2
      <4>2. k \in Busy' /\ committed'[addr] = buf'[k].data
        BY <1>3, <2>2, <3>1, <4>1 DEF Drained
      <4>3. ASSUME NEW j \in Drained(addr)' PROVE BufPosNext(j) <= BufPosNext(k)
        <5>1. j \in Busy' /\ j \in Drained(addr)
          BY <1>9, <4>3 DEF Drained
        <5>2. /\ BufPosNext(j) = BufPos(j) - r /\ BufPosNext(k) = BufPos(k) - r
              /\ BufPos(j) \in Int /\ BufPos(k) \in Int /\ BufPos(j) <= BufPos(k)
          BY <1>3, <1>5, <3>1, <4>2, <5>1 DEF Drained
        <5>3. QED
          BY <1>5, <5>2
      <4>4. \E x \in Drained(addr)' : /\ \A j \in Drained(addr)' : BufPosNext(j) <= BufPosNext(x)
                                       /\ committed'[addr] = buf'[x].data
        BY <4>1, <4>2, <4>3
      <4>5. QED
        BY <4>4, WordsNext DEF Committed
    <3>3. CASE k \notin Kept(retired)
      <4>1. retired /\ k = buf_ret /\ k \in Busy /\ buf[k].mem_addr = addr
        BY <1>5, <3>1, <3>3 DEF Drained
      <4>2. \A j \in Drained(addr) : j = k
        <5>1. ASSUME NEW j \in Drained(addr) PROVE j = k
          <6>1. j \in Busy /\ BufPos(j) <= BufPos(k) /\ BufPos(k) = 0
            BY <1>3, <3>1, <4>1 DEF Drained
          <6>2. BufPos(j) = BufPos(k)
            BY <1>5, <6>1
          <6>3. QED
            BY <1>5, <4>1, <6>1, <6>2
        <5>2. QED
          BY <5>1
      <4>3. Drained(addr)' = {}
        BY <1>9, <3>3, <4>2
      <4>4. mem'[addr] = committed'[addr]
        BY <1>8, <2>2, <3>1, <4>1
      <4>5. QED
        BY <4>3, <4>4 DEF Committed
    <3>4. QED
      BY <3>2, <3>3
  <2>5. QED
    BY <2>3, <2>4
<1>11. LoadsSeeProgramOrder'
  BY CutMoves DEF LoadsSeeProgramOrder
<1>12. QED
  BY <1>7, <1>8, <1>10, <1>11 DEF WordsSound

(* A squash keeps the invariant.                                           *)
LEMMA CutKeeps ==
    ASSUME IInv, NEW i, NEW retired, CutTo(i, retired)
    PROVE  IInv'
<1>1. PICK cnt, done : BufferRun(cnt, done)
  BY DEF IInv, Buffered
<1>2. PICK q, r : q = Rank(Entered, i) /\ r = One(retired)
  OBVIOUS
<1>3. /\ BufferRun(done + q - r, done - r)' /\ buf' \in [BufSlots -> BufRow \cup {FreeRow}]
      /\ buf_ret' \in BufSlots /\ buf_com' \in BufSlots /\ buf_alloc' \in BufSlots
  BY <1>1, <1>2, CutBuffer
<1>4. /\ rsv_alloc' \in RsvSlots /\ rsv_head' \in RsvSlots
      /\ rsv' \in [RsvSlots -> Record \cup {NoEntry}]
      /\ stage0' \in Record \cup {NoEntry} /\ stage1' = NoEntry /\ stage1_on' = FALSE
  BY Typed, CutMoves
<1>5. /\ table' \in [Slots -> [uop : Uops \cup {NoUop}, tag : SUBSET Tags, wb_fin : BOOLEAN]]
      /\ RowsSound' /\ RobTyped' /\ TagsTyped' /\ alloc_ptr' \in Slots
  BY CutRows
<1>6. committed' \in [Addrs -> Word]
  BY Typed DEF CutTo
<1>7. WordsSound' /\ mem' \in [Addrs -> Word]
  BY CutWords
<1>8. TypeOK'
  BY <1>3, <1>4, <1>5, <1>6, <1>7 DEF TypeOK, RobTyped, TagsTyped
<1>9. Buffered'
  <2>1. ASSUME NEW m, NEW fin, BufferRun(m, fin)' PROVE Buffered'
    <3>1. m \in 0 .. BufDepth /\ fin \in 0 .. m
      BY <2>1 DEF BufferRun
    <3>2. QED
      BY <2>1, <3>1 DEF Buffered
  <2>2. QED
    BY <1>3, <2>1
<1>10. Placed' /\ PairsSound'
  BY CutPlaces, CutPairs
<1>11. QED
  BY <1>5, <1>7, <1>8, <1>9, <1>10 DEF IInv

-----------------------------------------------------------------------------
(* The theorems.                                                           *)

(* The machine starts with nothing in flight and nothing buffered.         *)
LEMMA StartsSound == ~OwnAck /\ Init => IInv
<1> SUFFICES ASSUME ~OwnAck, Init PROVE IInv
  OBVIOUS
<1>1. /\ free_tag = SpTagLen - 1 /\ next_tag = 0
      /\ table = [i \in Slots |-> Blank]
      /\ alloc_ptr = 0 /\ com_ptr = 0 /\ used_entry_cnt = 0
      /\ rsv = [k \in RsvSlots |-> NoEntry] /\ rsv_alloc = 0 /\ rsv_head = 0
      /\ buf = [k \in BufSlots |-> FreeRow]
      /\ buf_alloc = 0 /\ buf_com = 0 /\ buf_ret = 0
      /\ stage0 = NoEntry /\ stage1 = NoEntry /\ stage1_on = FALSE
      /\ mem = Image /\ committed = Image
  BY DEF Init, TagGenInit, RobInit, BufInit, RsvInit
<1>2. /\ RobDepth \in Nat \ {0} /\ SpTagLen \in Nat \ {0} /\ 0 \in Slots /\ Slots \subseteq Int
      /\ RsvSize \in Nat \ {0} /\ BufDepth \in Nat \ {0}
      /\ 0 \in RsvSlots /\ RsvSlots = 0 .. RsvSize - 1
      /\ 0 \in BufSlots /\ BufSlots = 0 .. BufDepth - 1
  BY RobAssumption, SpTagLenAssumption, RsvAssumption, StoreBufAssumption
     DEF Slots, RsvSlots, BufSlots
<1>3. InFlight = {}
  <2>1. \A i \in Slots : Age(i) \in Nat
    BY <1>1, <1>2 DEF Age
  <2>2. QED
    BY <1>1, <2>1 DEF InFlight
<1>4. NoEntry.valid = FALSE /\ FreeRow.busy = FALSE
  BY DEF NoEntry, FreeRow
<1>5. Waiting = {} /\ Busy = {} /\ ~stage0.valid /\ ~stage1.valid /\ ~stage1_on
  BY <1>1, <1>4 DEF Waiting, Busy
<1>6. TypeOK
  <2>1. free_tag \in 0 .. SpTagLen - 1 /\ next_tag \in Tags
    BY <1>1, <1>2 DEF Tags
  <2>2. table \in [Slots -> [uop : Uops \cup {NoUop}, tag : SUBSET Tags, wb_fin : BOOLEAN]]
    <3>1. Blank \in [uop : Uops \cup {NoUop}, tag : SUBSET Tags, wb_fin : BOOLEAN]
      BY DEF Blank
    <3>2. QED
      BY <1>1, <3>1
  <2>3. alloc_ptr \in Slots /\ com_ptr \in Slots /\ used_entry_cnt \in 0 .. RobDepth
    BY <1>1, <1>2
  <2>4. /\ rsv \in [RsvSlots -> Record \cup {NoEntry}]
        /\ rsv_alloc \in RsvSlots /\ rsv_head \in RsvSlots
        /\ stage0 \in Record \cup {NoEntry}
        /\ stage1 \in Result \cup {NoEntry} /\ stage1_on \in BOOLEAN
    BY <1>1, <1>2
  <2>5. /\ buf \in [BufSlots -> BufRow \cup {FreeRow}]
        /\ buf_alloc \in BufSlots /\ buf_com \in BufSlots /\ buf_ret \in BufSlots
        /\ mem \in [Addrs -> Word] /\ committed \in [Addrs -> Word]
    BY <1>1, <1>2, LoadStoreAssumption
  <2>6. QED
    BY <2>1, <2>2, <2>3, <2>4, <2>5 DEF TypeOK
<1>7. /\ Unfinished = {} /\ Opened = {} /\ Waits = {} /\ Entered = {}
      /\ Cardinality(Entered) = 0
  BY <1>3, FS_EmptySet DEF Unfinished, Opened, Waits, Entered
<1>8. RowsSound
  <2>1. alloc_ptr = SlotAt(used_entry_cnt)
    BY <1>1, <1>2 DEF SlotAt
  <2>2. TagsAreRing
    <3>1. Cardinality(Opened) = 0
      BY <1>7, FS_EmptySet
    <3>2. QED
      BY <1>1, <1>2, <1>7, <3>1 DEF TagsAreRing
  <2>3. QED
    BY <1>3, <2>1, <2>2 DEF RowsSound, RowsAreWhole
<1>9. ASSUME NEW N \in Nat \ {0} PROVE Run(N, 0, 0) = {} /\ RingSlot(N, 0, 0) = 0
  <2>1. 0 \in 0 .. N - 1
    OBVIOUS
  <2>2. \A k \in 0 .. N - 1 : ~(RingDist(N, 0, k) < 0)
    <3>1. \A k \in 0 .. N - 1 : RingDist(N, 0, k) \in 0 .. N - 1
      BY <2>1, RingThere
    <3>2. QED
      BY <3>1
  <2>3. QED
    BY <2>1, <2>2, RingOneToOne DEF Run
<1>10. Placed
  <2>1. 0 \in 0 .. RsvSize /\ StationRun(0)
    BY <1>1, <1>2, <1>5, <1>9 DEF StationRun
  <2>2. QED
    BY <1>3, <1>5, <1>7, <2>1 DEF Placed
<1>11. Buffered
  <2>1. 0 \in 0 .. BufDepth /\ 0 \in 0 .. 0 /\ 0 = 0 + 0
    BY <1>2
  <2>2. BufferRun(0, 0)
    BY <1>1, <1>2, <1>5, <1>7, <1>9, <2>1 DEF BufferRun
  <2>3. QED
    BY <2>1, <2>2 DEF Buffered
<1>12. PairsSound
  BY <1>5, <1>7 DEF PairsSound
<1>13. WordsSound
  <2>1. \A addr : Drained(addr) = {} /\ committed[addr] = mem[addr]
    BY <1>1, <1>5 DEF Drained
  <2>2. QED
    BY <1>5, <1>7, <2>1 DEF WordsSound, Committed, LoadsSeeProgramOrder
<1>14. QED
  BY <1>6, <1>8, <1>10, <1>11, <1>12, <1>13 DEF IInv

(* A step that changes nothing keeps the inductive invariant.              *)
LEMMA Stutters == IInv /\ UNCHANGED vars => IInv'
<1> SUFFICES ASSUME IInv, UNCHANGED vars PROVE IInv'
  OBVIOUS
<1>1. UNCHANGED <<free_tag, next_tag, table, alloc_ptr, com_ptr, used_entry_cnt,
                  rsv, rsv_alloc, rsv_head, buf, buf_alloc, buf_com, buf_ret,
                  stage0, stage1, stage1_on, mem, committed>>
  BY DEF vars, robVars, rsvVars, bufVars, lsVars
<1>2. \A i : Age(i)' = Age(i)
  BY <1>1 DEF Age
<1>3. /\ InFlight' = InFlight /\ Unfinished' = Unfinished /\ Opened' = Opened
      /\ Waits' = Waits /\ Waiting' = Waiting /\ Busy' = Busy /\ Entered' = Entered
  BY <1>1, <1>2 DEF InFlight, Unfinished, Opened, Waits, Waiting, Busy, Entered, Reported
<1>4. TypeOK' /\ RowsSound'
  <2>1. TypeOK'
    BY <1>1 DEF IInv, TypeOK
  <2>2. TagsAreRing' <=> TagsAreRing
    BY <1>1, <1>2, <1>3 DEF TagsAreRing, From
  <2>3. QED
    BY <1>1, <1>3, <2>1, <2>2 DEF IInv, RowsSound, RowsAreWhole, SlotAt
<1>5. Placed'
  BY <1>1, <1>3 DEF IInv, Placed, Holds, EntryOf, RsvPos, StationRun, Age
<1>6. Buffered'
  BY <1>1, <1>3 DEF IInv, Buffered, BufferRun, BufPos
<1>7. \A i : RowOf(i)' = RowOf(i)
  BY <1>1, <1>2, <1>3 DEF RowOf
<1>8. \A i : PairTag(i)' = PairTag(i)
  <2>1. SUFFICES ASSUME NEW i PROVE PairTag(i)' = PairTag(i)
    OBVIOUS
  <2>2. OpenAhead(i)' = OpenAhead(i)
    BY <1>2, <1>3 DEF OpenAhead
  <2>3. LastOf(OpenAhead(i))' = LastOf(OpenAhead(i))
    BY <1>1 DEF LastOf, OpenAhead, Opened, InFlight, Age
  <2>4. QED
    BY <1>1, <2>2, <2>3 DEF PairTag
<1>9. \A i, addr : WordBefore(i, addr)' = WordBefore(i, addr)
  BY <1>1 DEF WordBefore, InFlight, Age
<1>10. \A i : RowNext(i) = RowOf(i)
  <2>1. \A i : RowOf(i)' = RowNext(i)
    BY DEF RowOf, RowNext, RankNext, RingSlot, Age, AgeNext, AgeFrom
  <2>2. QED
    BY <1>7, <2>1
<1>11. PairsSound'
  <2>1. ASSUME stage1_on', NEW i, i = stage1.rob_des_idx PROVE Follows(stage1, stage1.rob_des_idx)'
    <3>1. Follows(stage1, i)
      BY <1>1, <2>1 DEF IInv, PairsSound
    <3>2. QED
      BY <1>1, <1>8, <2>1, <3>1, FollowsNext DEF Follows
  <2>2. ASSUME stage0'.valid, NEW i, i = stage0.rob_des_idx PROVE Follows(stage0, stage0.rob_des_idx)'
    <3>1. Follows(stage0, i)
      BY <1>1, <2>2 DEF IInv, PairsSound
    <3>2. QED
      BY <1>1, <1>8, <2>2, <3>1, FollowsNext DEF Follows
  <2>3. ASSUME NEW k \in Waiting', NEW i, i = EntryOf(k) PROVE Follows(rsv[k], EntryOf(k))'
    <3>1. Follows(rsv[k], i) /\ i = rsv'[k].rob_des_idx
      BY <1>1, <1>3, <2>3 DEF IInv, PairsSound, EntryOf
    <3>2. QED
      BY <1>1, <1>8, <3>1, FollowsNext DEF Follows
  <2>4. ASSUME NEW i \in Entered', NEW k, k = RowOf(i) PROVE Follows(buf[RowOf(i)], i)'
    <3>1. Follows(buf[k], i) /\ k = RowNext(i)
      BY <1>3, <1>10, <2>4 DEF IInv, PairsSound
    <3>2. QED
      BY <1>1, <1>8, <3>1, FollowsNext DEF Follows
  <2>5. \A k \in Busy' : buf'[k].complete => ~buf'[k].is_spec /\ buf'[k].spec_tag = {}
    BY <1>1, <1>3 DEF IInv, PairsSound
  <2>6. QED
    BY <2>1, <2>2, <2>3, <2>4, <2>5 DEF PairsSound
<1>12. WordsSound'
  <2>1. ASSUME NEW i \in Entered', NEW k, k = RowOf(i), NEW a, a = table[i].uop.addr
        PROVE  StoreMerged(i)'
    <3>1. /\ k = RowNext(i) /\ a = table'[i].uop.addr /\ buf'[k].mem_addr = a
          /\ buf'[k].data = Merged(WordBefore(i, a), table'[i].uop.bytes)
      BY <1>1, <1>3, <1>10, <2>1 DEF IInv, WordsSound, StoreMerged
    <3>2. WordBefore(i, a)' = WordBefore(i, a)
      BY <1>9
    <3>3. QED
      BY <3>1, <3>2, WordsNext
  <2>2. ASSUME NEW addr \in Addrs PROVE Committed(addr)'
    <3>1. Drained(addr)' = Drained(addr) /\ \A k : BufPos(k)' = BufPos(k)
      BY <1>1, <1>3 DEF Drained, BufPos
    <3>2. QED
      BY <1>1, <3>1 DEF IInv, WordsSound, Committed
  <2>3. LoadsSeeProgramOrder'
    <3>1. ASSUME stage1_on', NEW i, i = stage1.rob_des_idx, NEW a, a = stage1.uop.addr
          PROVE  stage1'.uop.is_load =>
                    stage1'.word = WordBefore(stage1.rob_des_idx, stage1.uop.addr)'
      <4>1. stage1.uop.is_load => stage1.word = WordBefore(i, a)
        BY <1>1, <3>1 DEF IInv, WordsSound, LoadsSeeProgramOrder
      <4>2. WordBefore(stage1.rob_des_idx, stage1.uop.addr)' = WordBefore(i, a)'
        BY <1>1, <3>1, WordsNext
      <4>3. QED
        BY <1>1, <1>9, <4>1, <4>2
    <3>2. QED
      BY <3>1 DEF LoadsSeeProgramOrder
  <2>4. QED
    BY <2>1, <2>2, <2>3 DEF WordsSound
<1>13. QED
  BY <1>4, <1>5, <1>6, <1>11, <1>12 DEF IInv

(* The invariant holds in every state.                                     *)
LEMMA Inductive == ~OwnAck => (Spec => []IInv)
<1>1. IInv /\ [Next]_vars => IInv'
  <2> SUFFICES ASSUME IInv, [Next]_vars PROVE IInv'
    OBVIOUS
  <2>1. CASE Cycle \/ SucPred
    BY <2>1, CyclesFlow
  <2>2. CASE MisPred
    <3>1. ~OwnAck
      BY DEF IInv
    <3>2. PICK i, retired : CutTo(i, retired)
      BY <2>2, <3>1, MisPredCuts
    <3>3. QED
      BY <3>2, CutKeeps
  <2>3. CASE UNCHANGED vars
    BY <2>3, Stutters
  <2>4. QED
    BY <2>1, <2>2, <2>3 DEF Next
<1>2. QED
  BY <1>1, StartsSound, PTL DEF Spec

(* Every pointer, count, record and word keeps to its width.               *)
THEOREM TypesHold == ~OwnAck => (Spec => []TypeOK)
<1>1. IInv => TypeOK
  BY DEF IInv
<1>2. QED
  BY <1>1, Inductive, PTL

(* A load returns the word program order gives it, whatever waits in the   *)
(* buffer, is between two places or was squashed.                          *)
THEOREM LoadsHold == ~OwnAck => (Spec => []LoadsSeeProgramOrder)
<1>1. IInv => LoadsSeeProgramOrder
  BY DEF IInv, WordsSound
<1>2. QED
  BY <1>1, Inductive, PTL

(* What the ROB has retired is in the buffer or in memory, the newest      *)
(* store of each word on top, whatever a squash took out of the buffer and *)
(* whenever memory takes its head.                                         *)
THEOREM CommitsHold == ~OwnAck => (Spec => []MemoryKeepsCommits)
<1>1. IInv => MemoryKeepsCommits
  <2> SUFFICES ASSUME IInv PROVE MemoryKeepsCommits
    OBVIOUS
  <2>1. ASSUME NEW a \in Addrs
        PROVE  committed[a] =
                 IF Drained(a) = {} THEN mem[a]
                 ELSE buf[CHOOSE k \in Drained(a) : \A j \in Drained(a) : BufPos(j) <= BufPos(k)].data
    <3>1. Committed(a)
      BY DEF IInv, WordsSound
    <3>2. CASE Drained(a) = {}
      BY <3>1, <3>2 DEF Committed
    <3>3. CASE Drained(a) # {}
      <4>1. PICK k \in Drained(a) : /\ \A j \in Drained(a) : BufPos(j) <= BufPos(k)
                                    /\ committed[a] = buf[k].data
        BY <3>1, <3>3 DEF Committed
      <4> DEFINE y == CHOOSE x \in Drained(a) : \A j \in Drained(a) : BufPos(j) <= BufPos(x)
      <4>2. y \in Drained(a) /\ \A j \in Drained(a) : BufPos(j) <= BufPos(y)
        BY <4>1
      <4>3. \E cnt, done : BufferRun(cnt, done)
        BY DEF IInv, Buffered
      <4>4. /\ \A x \in Drained(a) : x \in Busy /\ BufPos(x) \in Int
            /\ \A x, z \in Busy : BufPos(x) = BufPos(z) => x = z
        BY <4>3, BufferRows DEF Drained
      <4> HIDE DEF y
      <4>5. y = k
        <5>1. BufPos(y) = BufPos(k)
          BY <4>1, <4>2, <4>4
        <5>2. QED
          BY <4>1, <4>2, <4>4, <5>1
      <4>6. QED
        BY <3>3, <4>1, <4>5 DEF y
    <3>4. QED
      BY <3>2, <3>3
  <2>2. QED
    BY <2>1, Zenon DEF MemoryKeepsCommits, Drained, BufPos, RingDist
<1>2. QED
  BY <1>1, Inductive, PTL

(* The buffer is program order: the stores the ROB retired, then those in  *)
(* flight that have executed, each with the word it makes of the one       *)
(* before it.                                                              *)
THEOREM BufferHolds == ~OwnAck => (Spec => []BufferIsProgramOrder)
<1>1. IInv => BufferIsProgramOrder
  <2> SUFFICES ASSUME IInv PROVE BufferIsProgramOrder
    OBVIOUS
  <2>1. PICK cnt, done : BufferRun(cnt, done)
    BY DEF IInv, Buffered
  <2>2. /\ cnt \in 0 .. BufDepth /\ done \in 0 .. cnt /\ Cardinality(Entered) = cnt - done
        /\ Busy = Run(BufDepth, buf_ret, cnt) /\ buf_com = RingSlot(BufDepth, buf_ret, done)
        /\ buf_alloc = RingSlot(BufDepth, buf_ret, cnt)
        /\ BufDepth \in Nat \ {0} /\ buf_ret \in 0 .. BufDepth - 1
    BY <2>1, Typed, BufferRows DEF BufferRun
  <2>3. /\ \A k \in Busy : buf[k].complete <=> BufPos(k) < done
        /\ \A i \in Entered : RowOf(i) \in Busy /\ ~buf[RowOf(i)].complete
    BY <2>1, BufferRows
  <2>4. Cardinality(Busy) = cnt
    BY <2>2, RunSize
  <2>5. done = Cardinality(Busy) - Cardinality(Entered) /\ done >= 0 /\ done + Cardinality(Entered) = cnt
    BY <2>2, <2>4
  <2>6. ASSUME NEW k \in 0 .. done - 1
        PROVE  buf[RingSlot(BufDepth, buf_ret, k)].busy /\ buf[RingSlot(BufDepth, buf_ret, k)].complete
    <3>1. k \in 0 .. BufDepth - 1 /\ k < cnt /\ k < done
      BY <2>2
    <3>2. /\ RingSlot(BufDepth, buf_ret, k) \in 0 .. BufDepth - 1
          /\ RingDist(BufDepth, buf_ret, RingSlot(BufDepth, buf_ret, k)) = k
      BY <2>2, <3>1, RingBack
    <3>3. RingSlot(BufDepth, buf_ret, k) \in Busy
      BY <2>2, <3>1, <3>2 DEF Run
    <3>4. QED
      BY <2>3, <3>1, <3>2, <3>3, RecordsTyped DEF BufPos
  <2>7. buf_alloc = RingSlot(BufDepth, buf_com, Cardinality(Entered))
    <3>1. ASSUME NEW x, x = Cardinality(Entered)
          PROVE  RingSlot(BufDepth, RingSlot(BufDepth, buf_ret, done), x)
                   = RingSlot(BufDepth, buf_ret, cnt)
      <4>1. done \in 0 .. BufDepth /\ x \in 0 .. BufDepth - done /\ done + x = cnt
        BY <2>2, <3>1
      <4>2. RingSlot(BufDepth, RingSlot(BufDepth, buf_ret, done), x)
              = RingSlot(BufDepth, buf_ret, done + x)
        BY <2>2, <4>1, RingOn
      <4>3. QED
        BY <4>1, <4>2
    <3>2. QED
      BY <2>2, <3>1
  <2>8. ASSUME NEW i \in Entered
        PROVE  LET row == buf[RowOf(i)]
                   uop == table[i].uop
               IN  /\ row.busy
                   /\ ~row.complete
                   /\ row.mem_addr = uop.addr
                   /\ row.data = Merged(WordBefore(i, uop.addr), uop.bytes)
    BY <2>3, RecordsTyped DEF IInv, WordsSound, StoreMerged
  <2>9. QED
    BY <2>2, <2>5, <2>6, <2>7, <2>8 DEF BufferIsProgramOrder, RingSlot
<1>2. QED
  BY <1>1, Inductive, PTL

(* Two sequences in a row.                                                 *)
LEMMA Joined ==
    ASSUME NEW X, NEW s \in Seq(X), NEW t \in Seq(X)
    PROVE  /\ s \o t \in Seq(X) /\ Len(s \o t) = Len(s) + Len(t)
           /\ Len(s) \in Nat /\ Len(t) \in Nat /\ DOMAIN (s \o t) = 1 .. Len(s) + Len(t)
           /\ \A k \in 1 .. Len(s) : (s \o t)[k] = s[k]
           /\ \A k \in 1 .. Len(t) : (s \o t)[Len(s) + k] = t[k]
OBVIOUS

(* A sequence of one element.                                              *)
LEMMA OneLong ==
    ASSUME NEW X, NEW x \in X
    PROVE  <<x>> \in Seq(X) /\ Len(<<x>>) = 1 /\ <<x>>[1] = x
OBVIOUS

(* The empty sequence.                                                     *)
LEMMA NoneLong == \A X : << >> \in Seq(X) /\ Len(<< >>) = 0
OBVIOUS

(* A function over 1 .. n is a sequence.                                   *)
LEMMA AnyLong ==
    ASSUME NEW X, NEW n \in Nat, NEW f \in [1 .. n -> X]
    PROVE  f \in Seq(X) /\ Len(f) = n
OBVIOUS

(* Three sequences in a row; the second starts at one + 1, the third at    *)
(* two + 1.                                                                *)
InARow(s, a, b, c, one, two) ==
    /\ DOMAIN s = 1 .. two + Len(c)
    /\ \A k \in 1 .. Len(a) : s[k] = a[k]
    /\ \A k \in 1 .. Len(b) : s[one + k] = b[k]
    /\ \A k \in 1 .. Len(c) : s[two + k] = c[k]

(* Three sequences one after another are in a row.                         *)
LEMMA ThreeJoined ==
    ASSUME NEW X, NEW a \in Seq(X), NEW b \in Seq(X), NEW c \in Seq(X),
           NEW one, one = Len(a), NEW two, two = one + Len(b)
    PROVE  InARow((a \o b) \o c, a, b, c, one, two)
<1>1. /\ a \o b \in Seq(X) /\ Len(a \o b) = Len(a) + Len(b)
      /\ Len(a) \in Nat /\ Len(b) \in Nat
      /\ \A k \in 1 .. Len(a) : (a \o b)[k] = a[k]
      /\ \A k \in 1 .. Len(b) : (a \o b)[Len(a) + k] = b[k]
  BY Joined
<1>2. ASSUME NEW ab \in Seq(X), ab = a \o b
      PROVE  InARow(ab \o c, a, b, c, one, two)
  <2>1. /\ DOMAIN (ab \o c) = 1 .. Len(ab) + Len(c)
        /\ \A k \in 1 .. Len(ab) : (ab \o c)[k] = ab[k]
        /\ \A k \in 1 .. Len(c) : (ab \o c)[Len(ab) + k] = c[k]
    BY <1>2, Joined
  <2>2. Len(ab) = two /\ one \in Nat /\ Len(b) \in Nat /\ one = Len(a) /\ two = one + Len(b)
    BY <1>1, <1>2
  <2>3. /\ \A k \in 1 .. Len(a) : k \in 1 .. Len(ab) /\ ab[k] = a[k]
        /\ \A k \in 1 .. Len(b) : one + k \in 1 .. Len(ab) /\ ab[one + k] = b[k]
    <3>1. /\ \A k \in 1 .. one : k \in 1 .. two
          /\ \A k \in 1 .. Len(b) : one + k \in 1 .. two
      BY <2>2
    <3>2. QED
      BY <1>1, <1>2, <2>2, <3>1
  <2>4. QED
    BY <2>1, <2>2, <2>3 DEF InARow
<1>3. QED
  BY <1>1, <1>2

(* What is on its way: stage 1, then stage 0, then the station's entries   *)
(* from its head on.                                                       *)
LEMMA OnTheirWayIs ==
    ASSUME IInv, NEW n, StationRun(n),
           NEW one, one = One(stage1_on), NEW two, two = one + One(stage0.valid)
    PROVE  /\ one \in 0 .. 1 /\ two \in one .. one + 1 /\ n \in Nat
           /\ DOMAIN OnTheirWay = 1 .. two + n
           /\ (one = 1 <=> stage1_on) /\ (two = one + 1 <=> stage0.valid)
           /\ stage1_on => OnTheirWay[1] = stage1
           /\ stage0.valid => OnTheirWay[one + 1] = stage0
           /\ \A d \in 0 .. n - 1 :
                 /\ RingSlot(RsvSize, rsv_head, d) \in Waiting
                 /\ RsvPos(RingSlot(RsvSize, rsv_head, d)) = d
                 /\ RsvAt(d) = rsv[RingSlot(RsvSize, rsv_head, d)]
                 /\ OnTheirWay[two + 1 + d] = RsvAt(d)
           /\ \A k \in Waiting : /\ RsvPos(k) \in 0 .. n - 1
                                 /\ RingSlot(RsvSize, rsv_head, RsvPos(k)) = k
<1>1. /\ n \in 0 .. RsvSize /\ Waiting = Run(RsvSize, rsv_head, n)
      /\ RsvSize \in Nat \ {0} /\ rsv_head \in 0 .. RsvSize - 1
      /\ stage0.valid \in BOOLEAN /\ stage1_on \in BOOLEAN
  BY Typed DEF StationRun
<1>2. n \in Nat /\ Cardinality(Waiting) = n
  BY <1>1, RunSize
<1> DEFINE X == {stage0, stage1} \cup {RsvAt(k) : k \in Int}
           a == IF stage1_on THEN <<stage1>> ELSE << >>
           b == IF stage0.valid THEN <<stage0>> ELSE << >>
           c == [k \in 1 .. n |-> RsvAt(k - 1)]
<1>3. OnTheirWay = (a \o b) \o c
  BY <1>2 DEF OnTheirWay
<1>4. a \in Seq(X) /\ Len(a) = one /\ (stage1_on => a[1] = stage1)
  <2>1. CASE stage1_on
    <3>1. one = 1 /\ a = <<stage1>> /\ stage1 \in X
      BY <2>1 DEF One
    <3> HIDE DEF a, X
    <3>2. <<stage1>> \in Seq(X) /\ Len(<<stage1>>) = 1 /\ <<stage1>>[1] = stage1
      BY <3>1, OneLong
    <3>3. QED
      BY <3>1, <3>2, Zenon
  <2>2. CASE ~stage1_on
    <3>1. one = 0 /\ a = << >>
      BY <2>2 DEF One
    <3> HIDE DEF a, X
    <3>2. << >> \in Seq(X) /\ Len(<< >>) = 0
      BY NoneLong
    <3>3. QED
      BY <2>2, <3>1, <3>2, Zenon
  <2>3. QED
    BY <2>1, <2>2
<1>5. b \in Seq(X) /\ Len(b) = One(stage0.valid) /\ (stage0.valid => b[1] = stage0)
  <2>1. CASE stage0.valid
    <3>1. One(stage0.valid) = 1 /\ b = <<stage0>> /\ stage0 \in X
      BY <2>1 DEF One
    <3> HIDE DEF b, X
    <3>2. <<stage0>> \in Seq(X) /\ Len(<<stage0>>) = 1 /\ <<stage0>>[1] = stage0
      BY <3>1, OneLong
    <3>3. QED
      BY <3>1, <3>2, Zenon
  <2>2. CASE ~stage0.valid
    <3>1. One(stage0.valid) = 0 /\ b = << >>
      BY <2>2 DEF One
    <3> HIDE DEF b, X
    <3>2. << >> \in Seq(X) /\ Len(<< >>) = 0
      BY NoneLong
    <3>3. QED
      BY <2>2, <3>1, <3>2, Zenon
  <2>3. QED
    BY <2>1, <2>2
<1>6. c \in Seq(X) /\ Len(c) = n /\ \A d \in 0 .. n - 1 : c[1 + d] = RsvAt(d)
  <2>1. \A k \in 1 .. n : RsvAt(k - 1) \in X /\ c[k] = RsvAt(k - 1)
    <3>1. \A k \in 1 .. n : k - 1 \in Int
      BY <1>2
    <3>2. QED
      BY <3>1
  <2>2. \A d \in 0 .. n - 1 : 1 + d \in 1 .. n /\ (1 + d) - 1 = d
    BY <1>2
  <2>3. c \in [1 .. n -> X]
    BY <2>1
  <2>4. \A d \in 0 .. n - 1 : c[1 + d] = RsvAt(d)
    BY <2>1, <2>2
  <2> HIDE DEF c, X
  <2>5. c \in Seq(X) /\ Len(c) = n
    BY <1>2, <2>3, AnyLong
  <2>6. QED
    BY <2>4, <2>5
<1>7. one \in 0 .. 1 /\ two \in one .. one + 1
  BY DEF One
<1>8. (one = 1 <=> stage1_on) /\ (two = one + 1 <=> stage0.valid)
  <2>1. /\ stage1_on => one = 1
        /\ ~stage1_on => one = 0
        /\ stage0.valid => two = one + 1
        /\ ~stage0.valid => two = one + 0
    BY DEF One
  <2>2. one + 0 # one + 1 /\ (one = 0 => one # 1)
    BY <1>7
  <2>3. QED
    BY <2>1, <2>2, Zenon
<1> HIDE DEF a, b, c, X
<1>9. /\ DOMAIN OnTheirWay = 1 .. two + n
      /\ \A k \in 1 .. one : OnTheirWay[k] = a[k]
      /\ \A k \in 1 .. One(stage0.valid) : OnTheirWay[one + k] = b[k]
      /\ \A k \in 1 .. n : OnTheirWay[two + k] = c[k]
  <2>1. /\ a \in Seq(X) /\ b \in Seq(X) /\ c \in Seq(X)
        /\ one = Len(a) /\ two = one + Len(b)
    BY <1>4, <1>5, <1>6
  <2>2. InARow((a \o b) \o c, a, b, c, one, two)
    BY <2>1, ThreeJoined
  <2>3. QED
    BY <1>3, <1>4, <1>5, <1>6, <2>2, Zenon DEF InARow
<1>10. stage1_on => OnTheirWay[1] = stage1
  <2>1. stage1_on => 1 \in 1 .. one
    BY DEF One
  <2>2. QED
    BY <1>4, <1>9, <2>1
<1>11. stage0.valid => OnTheirWay[one + 1] = stage0
  <2>1. stage0.valid => 1 \in 1 .. One(stage0.valid)
    BY DEF One
  <2>2. QED
    BY <1>5, <1>9, <2>1
<1>12. ASSUME NEW d \in 0 .. n - 1
       PROVE  /\ RingSlot(RsvSize, rsv_head, d) \in Waiting
              /\ RsvPos(RingSlot(RsvSize, rsv_head, d)) = d
              /\ RsvAt(d) = rsv[RingSlot(RsvSize, rsv_head, d)]
              /\ OnTheirWay[two + 1 + d] = RsvAt(d)
  <2>1. d \in 0 .. RsvSize - 1 /\ d < n
    BY <1>1
  <2>2. /\ RingSlot(RsvSize, rsv_head, d) \in 0 .. RsvSize - 1
        /\ RingDist(RsvSize, rsv_head, RingSlot(RsvSize, rsv_head, d)) = d
    BY <1>1, <2>1, RingBack
  <2>3. RingSlot(RsvSize, rsv_head, d) \in Waiting
    BY <1>1, <2>1, <2>2 DEF Run
  <2>4. OnTheirWay[two + 1 + d] = RsvAt(d)
    <3>1. 1 + d \in 1 .. n /\ two + (1 + d) = two + 1 + d
      BY <1>2, <1>7
    <3>2. OnTheirWay[two + (1 + d)] = c[1 + d]
      BY <1>9, <3>1
    <3>3. QED
      BY <1>6, <3>1, <3>2
  <2>5. QED
    BY <2>2, <2>3, <2>4 DEF RsvPos, RsvAt, RingSlot
<1>13. ASSUME NEW k \in Waiting
       PROVE  RsvPos(k) \in 0 .. n - 1 /\ RingSlot(RsvSize, rsv_head, RsvPos(k)) = k
  <2>1. k \in 0 .. RsvSize - 1 /\ RingDist(RsvSize, rsv_head, k) < n
    BY <1>1 DEF Run
  <2>2. /\ RingDist(RsvSize, rsv_head, k) \in 0 .. RsvSize - 1
        /\ RingSlot(RsvSize, rsv_head, RingDist(RsvSize, rsv_head, k)) = k
    BY <1>1, <2>1, RingThere
  <2>3. QED
    BY <1>1, <2>1, <2>2 DEF RsvPos
<1>14. QED
  BY <1>2, <1>7, <1>8, <1>9, <1>10, <1>11, <1>12, <1>13

(* Position k on the way is stage 1's, stage 0's, or the station's entry   *)
(* at distance d from the head.                                            *)
AtStageOne(k, one) == stage1_on /\ one = 1 /\ k = 1 /\ OnTheirWay[k] = stage1
AtStageZero(k, one, two) ==
    stage0.valid /\ two = one + 1 /\ k = one + 1 /\ OnTheirWay[k] = stage0
AtStation(k, d, two) ==
    /\ k = two + 1 + d
    /\ RingSlot(RsvSize, rsv_head, d) \in Waiting
    /\ RsvPos(RingSlot(RsvSize, rsv_head, d)) = d
    /\ OnTheirWay[k] = rsv[RingSlot(RsvSize, rsv_head, d)]

(* Every position is one of these.                                         *)
LEMMA PlacesOnTheWay ==
    ASSUME IInv, NEW n, StationRun(n),
           NEW one, one = One(stage1_on), NEW two, two = one + One(stage0.valid),
           NEW k \in DOMAIN OnTheirWay
    PROVE  \/ AtStageOne(k, one)
           \/ AtStageZero(k, one, two)
           \/ \E d \in 0 .. n - 1 : AtStation(k, d, two)
<1>1. /\ one \in 0 .. 1 /\ two \in one .. one + 1 /\ n \in Nat
      /\ DOMAIN OnTheirWay = 1 .. two + n
  BY OnTheirWayIs
<1>2. /\ k \in Int
      /\ \/ k = 1 /\ one = 1
         \/ k = one + 1 /\ two = one + 1
         \/ k - two - 1 \in 0 .. n - 1
  <2>1. k \in Int /\ k >= 1 /\ k <= two + n
    BY <1>1
  <2>2. (one = 0 \/ one = 1) /\ (two = one \/ two = one + 1)
    BY <1>1
  <2>3. CASE k <= one
    BY <1>1, <2>1, <2>2, <2>3
  <2>4. CASE k > one /\ k <= two
    BY <1>1, <2>1, <2>2, <2>4
  <2>5. CASE k > two
    BY <1>1, <2>1, <2>5
  <2>6. QED
    BY <1>1, <2>1, <2>3, <2>4, <2>5
<1>3. CASE k = 1 /\ one = 1
  BY <1>3, OnTheirWayIs DEF AtStageOne
<1>4. CASE k = one + 1 /\ two = one + 1
  BY <1>4, OnTheirWayIs DEF AtStageZero
<1>5. CASE k - two - 1 \in 0 .. n - 1
  <2>1. PICK d \in 0 .. n - 1 : k = two + 1 + d
    BY <1>1, <1>2, <1>5
  <2>2. AtStation(k, d, two)
    BY <2>1, OnTheirWayIs DEF AtStation
  <2>3. QED
    BY <2>2
<1>6. QED
  BY <1>2, <1>3, <1>4, <1>5

(* The accesses on their way are the loads and stores in flight that have  *)
(* not finished, each once and in program order from stage 1 back to the   *)
(* tail of the station, which has no gaps.                                 *)
THEOREM AccessesHold == ~OwnAck => (Spec => []AccessesInOrder)
<1>1. IInv => AccessesInOrder
  <2> SUFFICES ASSUME IInv PROVE AccessesInOrder
    OBVIOUS
  <2>1. PICK n \in 0 .. RsvSize : StationRun(n)
    BY DEF IInv, Placed
  <2>2. PICK one, two : one = One(stage1_on) /\ two = one + One(stage0.valid)
    OBVIOUS
  <2>3. /\ one \in 0 .. 1 /\ two \in one .. one + 1 /\ n \in Nat
        /\ DOMAIN OnTheirWay = 1 .. two + n
    BY <2>1, <2>2, OnTheirWayIs
  <2>4. ASSUME NEW k \in DOMAIN OnTheirWay
        PROVE  \/ AtStageOne(k, one)
               \/ AtStageZero(k, one, two)
               \/ \E d \in 0 .. n - 1 : AtStation(k, d, two)
    BY <2>1, <2>2, PlacesOnTheWay
  <2>5. Cardinality(Waiting) = n
    BY <2>1, Typed, RunSize DEF StationRun
  <2>6. /\ stage1_on => Holds(stage1)
        /\ stage0.valid => Holds(stage0)
        /\ \A k \in Waiting : Holds(rsv[k])
    BY DEF IInv, Placed
  <2>7. \A k \in DOMAIN OnTheirWay : Holds(OnTheirWay[k])
    BY <2>4, <2>6, Zenon DEF AtStageOne, AtStageZero, AtStation
  <2>8. ASSUME NEW k \in 0 .. n - 1 PROVE RsvAt(k).valid
    BY <2>1, <2>2, OnTheirWayIs DEF Waiting
  <2>9. ASSUME NEW i \in Waits PROVE \E k \in DOMAIN OnTheirWay : i = OnTheirWay[k].rob_des_idx
    <3>1. \/ stage1_on /\ i = stage1.rob_des_idx
          \/ stage0.valid /\ i = stage0.rob_des_idx
          \/ \E k \in Waiting : i = EntryOf(k)
      BY DEF IInv, Placed
    <3>2. CASE stage1_on /\ i = stage1.rob_des_idx
      <4>1. one = 1 /\ OnTheirWay[1] = stage1
        BY <2>1, <2>2, <3>2, OnTheirWayIs
      <4>2. 1 \in DOMAIN OnTheirWay
        BY <2>3, <4>1
      <4>3. QED
        BY <3>2, <4>1, <4>2
    <3>3. CASE stage0.valid /\ i = stage0.rob_des_idx
      <4>1. two = one + 1 /\ OnTheirWay[one + 1] = stage0
        BY <2>1, <2>2, <3>3, OnTheirWayIs
      <4>2. one + 1 \in DOMAIN OnTheirWay
        BY <2>3, <4>1
      <4>3. QED
        BY <3>3, <4>1, <4>2
    <3>4. ASSUME NEW j \in Waiting, i = EntryOf(j)
          PROVE  \E k \in DOMAIN OnTheirWay : i = OnTheirWay[k].rob_des_idx
      <4>1. PICK d \in 0 .. n - 1 : d = RsvPos(j) /\ RingSlot(RsvSize, rsv_head, d) = j
        BY <2>1, <2>2, OnTheirWayIs
      <4>2. OnTheirWay[two + 1 + d] = rsv[j]
        BY <2>1, <2>2, <4>1, OnTheirWayIs
      <4>3. two + 1 + d \in DOMAIN OnTheirWay
        BY <2>3
      <4>4. QED
        BY <3>4, <4>2, <4>3 DEF EntryOf
    <3>5. QED
      BY <3>1, <3>2, <3>3, <3>4
  <2>10. Waits = {OnTheirWay[k].rob_des_idx : k \in DOMAIN OnTheirWay}
    BY <2>7, <2>9 DEF Holds
  <2>11. ASSUME NEW k \in DOMAIN OnTheirWay, NEW j \in 1 .. k - 1
         PROVE  Age(OnTheirWay[j].rob_des_idx) < Age(OnTheirWay[k].rob_des_idx)
    <3>1. j \in DOMAIN OnTheirWay /\ j < k /\ j \in Int /\ k \in Int
      BY <2>3
    <3>2. /\ ~AtStageOne(k, one)
          /\ ~(AtStageZero(j, one, two) /\ AtStageZero(k, one, two))
          /\ \A d \in 0 .. n - 1 : ~(AtStation(j, d, two) /\ AtStageZero(k, one, two))
      BY <2>3, <3>1 DEF AtStageOne, AtStageZero, AtStation
    <3>3. /\ stage1_on /\ stage0.valid => Age(stage1.rob_des_idx) < Age(stage0.rob_des_idx)
          /\ \A i \in Waiting : stage1_on => Age(stage1.rob_des_idx) < Age(EntryOf(i))
          /\ \A i \in Waiting : stage0.valid => Age(stage0.rob_des_idx) < Age(EntryOf(i))
          /\ \A h, i \in Waiting : RsvPos(h) < RsvPos(i) => Age(EntryOf(h)) < Age(EntryOf(i))
      BY DEF IInv, Placed
    <3>4. CASE AtStageOne(j, one) /\ AtStageZero(k, one, two)
      BY <3>3, <3>4 DEF AtStageOne, AtStageZero
    <3>5. ASSUME NEW d \in 0 .. n - 1, AtStation(k, d, two), AtStageOne(j, one)
          PROVE  Age(OnTheirWay[j].rob_des_idx) < Age(OnTheirWay[k].rob_des_idx)
      BY <3>3, <3>5 DEF AtStageOne, AtStation, EntryOf
    <3>6. ASSUME NEW d \in 0 .. n - 1, AtStation(k, d, two), AtStageZero(j, one, two)
          PROVE  Age(OnTheirWay[j].rob_des_idx) < Age(OnTheirWay[k].rob_des_idx)
      BY <3>3, <3>6 DEF AtStageZero, AtStation, EntryOf
    <3>7. ASSUME NEW d \in 0 .. n - 1, AtStation(k, d, two),
                 NEW e \in 0 .. n - 1, AtStation(j, e, two)
          PROVE  Age(OnTheirWay[j].rob_des_idx) < Age(OnTheirWay[k].rob_des_idx)
      <4>1. k = two + 1 + d /\ j = two + 1 + e
        BY <3>7 DEF AtStation
      <4>2. e < d
        BY <2>3, <3>1, <4>1
      <4>3. QED
        BY <3>3, <3>7, <4>2 DEF AtStation, EntryOf
    <3>8. QED
      BY <2>4, <3>1, <3>2, <3>4, <3>5, <3>6, <3>7, Zenon
  <2>12. rsv_alloc = RingSlot(RsvSize, rsv_head, Cardinality(Waiting))
    BY <2>1, <2>5 DEF StationRun
  <2>13. QED
    BY <2>5, <2>7, <2>8, <2>10, <2>11, <2>12 DEF AccessesInOrder, Holds, Waits, RingSlot
<1>2. QED
  BY <1>1, Inductive, PTL

(* A record under way or buffered carries exactly the tag in force at its  *)
(* place, through every stall, issue, hand-over and squash.                *)
THEOREM PairsHold == ~OwnAck => (Spec => []PairsFollowBranches)
<1>1. IInv => PairsFollowBranches
  <2> SUFFICES ASSUME IInv PROVE PairsFollowBranches
    OBVIOUS
  <2>1. ASSUME NEW i PROVE PairOf(i) = PairTag(i)
    <3>1. Opened = OpenBranches
      BY DEF Opened, OpenBranches, Unfinished
    <3>2. {j \in OpenBranches : Age(j) < Age(i)} = OpenAhead(i)
      BY <3>1 DEF OpenAhead
    <3>3. QED
      <4>1. PairOf(i) = IF {j \in OpenBranches : Age(j) < Age(i)} = {} THEN {}
                        ELSE table[LastOf({j \in OpenBranches : Age(j) < Age(i)})].tag
        BY Zenon DEF PairOf, LastOf
      <4>2. QED
        BY <3>2, <4>1 DEF PairTag
  <2>2. PICK n \in 0 .. RsvSize : StationRun(n)
    BY DEF IInv, Placed
  <2>3. PICK one, two : one = One(stage1_on) /\ two = one + One(stage0.valid)
    OBVIOUS
  <2>4. ASSUME NEW k \in DOMAIN OnTheirWay
        PROVE  \/ AtStageOne(k, one)
               \/ AtStageZero(k, one, two)
               \/ \E d \in 0 .. n - 1 : AtStation(k, d, two)
    BY <2>2, <2>3, PlacesOnTheWay
  <2>5. /\ stage1_on => Follows(stage1, stage1.rob_des_idx)
        /\ stage0.valid => Follows(stage0, stage0.rob_des_idx)
        /\ \A k \in Waiting : Follows(rsv[k], rsv[k].rob_des_idx)
    BY DEF IInv, PairsSound, EntryOf
  <2>6. \A k \in DOMAIN OnTheirWay : Follows(OnTheirWay[k], OnTheirWay[k].rob_des_idx)
    BY <2>4, <2>5, Zenon DEF AtStageOne, AtStageZero, AtStation
  <2>7. /\ \A i \in Entered : Follows(buf[RowOf(i)], i)
        /\ \A k \in Busy : buf[k].complete => ~buf[k].is_spec
    BY DEF IInv, PairsSound
  <2>8. ASSUME NEW rec, NEW i, Follows(rec, i)
        PROVE  rec.spec_tag = PairOf(i) /\ (rec.is_spec <=> PairOf(i) # {})
    BY <2>1, <2>8, Zenon DEF Follows
  <2>9. QED
    BY <2>6, <2>7, <2>8 DEF PairsFollowBranches
<1>2. QED
  BY <1>1, Inductive, PTL

(* Where both targets must grant, a row that waits in the station or in    *)
(* stage 0 has not finished: what a transfer entered on its own ack breaks.*)
THEOREM FinishedHolds == ~OwnAck => (Spec => []FinishedHasExecuted)
<1>1. IInv => FinishedHasExecuted
  BY DEF IInv, Placed, Holds, Waits, Unfinished, FinishedHasExecuted
<1>2. QED
  BY <1>1, Inductive, PTL
=============================================================================
