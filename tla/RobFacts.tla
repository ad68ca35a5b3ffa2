------------------------------ MODULE RobFacts ------------------------------
(***************************************************************************)
(* Facts the proofs about the core share: the ring of ROB rows, what a     *)
(* cycle and a squash do to the rows in use, and the tags their open       *)
(* branches hold in the order of those rows.                               *)
(***************************************************************************)
EXTENDS TagGen, Rob, FiniteSetTheorems, TLAPS

-----------------------------------------------------------------------------
(* One-hot positions.                                                      *)

(* Going back fewer than SpTagLen places from one bit, two distances reach *)
(* the same bit only if they are equal.                                    *)
LEMMA BackIsInjective ==
    ASSUME NEW n \in Tags, NEW a \in 1 .. SpTagLen - 1, NEW b \in 1 .. SpTagLen - 1
    PROVE  /\ RotateRight(n, a) \in Tags
           /\ RotateRight(n, a) = RotateRight(n, b) => a = b
BY SpTagLenAssumption DEF Tags, RotateRight

(* Stepping the pointer n places leaves the bits behind it where they were *)
(* and puts the n stepped-over bits right behind it.                       *)
LEMMA BackAfterStep ==
    ASSUME NEW p \in Tags, NEW n \in 0 .. SpTagLen - 1
    PROVE  /\ RotateLeft(p, n) \in Tags
           /\ RotateLeft(p, 0) = p
           /\ \A a \in 1 .. SpTagLen - 1 - n :
                 RotateRight(RotateLeft(p, n), a + n) = RotateRight(p, a)
           /\ \A i \in 1 .. n :
                 RotateRight(RotateLeft(p, n), n + 1 - i) = RotateLeft(p, i - 1)
BY SpTagLenAssumption DEF Tags, RotateLeft, RotateRight

-----------------------------------------------------------------------------
(* Sets of positions.                                                      *)

(* A finite set of positions has a highest one: of the sets of elements    *)
(* above each, one is minimal, and only the empty one can be.              *)
LEMMA HighestExists ==
    ASSUME NEW S, \A x \in S : x \in Int, IsFiniteSet(S), S # {}
    PROVE  \E x \in S : \A y \in S : y <= x
<1> DEFINE Above(x) == {y \in S : y > x}
           Aboves == {Above(x) : x \in S}
<1>1. Aboves \subseteq FiniteSubsetsOf(S)
  BY FS_FiniteSubsetsOfFinite, Zenon
<1>2. Aboves # {}
  OBVIOUS
<1>3. PICK least \in Aboves : \A T \in Aboves : <<T, least>> \notin StrictSubsetOrdering(S)
  <2>1. IsWellFoundedOn(StrictSubsetOrdering(S), FiniteSubsetsOf(S))
    BY FS_StrictSubsetOrderingWellFounded
  <2> HIDE DEF Aboves
  <2>2. QED
    BY <1>1, <1>2, <2>1, WFMin
<1>4. PICK x \in S : least = Above(x)
  BY <1>3
<1>5. \A y \in S : ~ (y > x)
  <2>1. SUFFICES ASSUME NEW y \in S, y > x PROVE FALSE
    OBVIOUS
  <2>2. Above(y) \subseteq Above(x)
    BY <2>1
  <2>3. y \in Above(x) /\ y \notin Above(y)
    BY <2>1
  <2>4. <<Above(y), Above(x)>> \in StrictSubsetOrdering(S)
    BY <2>2, <2>3 DEF StrictSubsetOrdering
  <2>5. QED
    BY <1>3, <1>4, <2>4
<1>6. QED
  BY <1>5

(* A one-to-one image of a finite set has as many elements.                *)
LEMMA ImageCount ==
    ASSUME NEW S, IsFiniteSet(S), NEW f, DOMAIN f = S,
           f = [x \in S |-> f[x]],
           \A x, y \in S : f[x] = f[y] => x = y,
           NEW T, T = {f[x] : x \in S}
    PROVE  IsFiniteSet(T) /\ Cardinality(T) = Cardinality(S)
<1>1. f \in [S -> T]
  OBVIOUS
<1>2. f \in Bijection(S, T)
  BY <1>1 DEF Bijection, Injection, Surjection, IsInjective
<1>3. QED
  BY <1>2, FS_Bijection DEF ExistsBijection

(* Numbering the elements of a finite set of positions by how many come    *)
(* before gives each its own number, in order, and no number is left out.  *)
LEMMA Numbering ==
    ASSUME NEW S, \A x \in S : x \in Int, IsFiniteSet(S)
    PROVE  /\ Cardinality(S) \in Nat
           /\ \A x \in Int : Cardinality({y \in S : y < x}) \in 0 .. Cardinality(S)
           /\ \A x \in S : Cardinality({y \in S : y < x}) \in 0 .. Cardinality(S) - 1
           /\ \A x \in S, z \in Int : x < z =>
                 Cardinality({y \in S : y < x}) < Cardinality({y \in S : y < z})
           /\ \A x, z \in Int : x <= z =>
                 Cardinality({y \in S : y < x}) <= Cardinality({y \in S : y < z})
           /\ \A n \in 0 .. Cardinality(S) - 1 :
                 \E x \in S : Cardinality({y \in S : y < x}) = n
           /\ \A x \in Int : Cardinality({y \in S : y >= x})
                                = Cardinality(S) - Cardinality({y \in S : y < x})
<1> DEFINE Below(x) == {y \in S : y < x}
           n == Cardinality(S)
           num == [x \in S |-> Cardinality(Below(x))]
<1>1. n \in Nat
  BY FS_CardinalityType
<1>2. \A x : IsFiniteSet(Below(x)) /\ Cardinality(Below(x)) \in 0 .. n
  <2>1. ASSUME NEW x PROVE IsFiniteSet(Below(x)) /\ Cardinality(Below(x)) \in 0 .. n
    <3>1. Below(x) \in SUBSET S
      OBVIOUS
    <3>2. IsFiniteSet(Below(x)) /\ Cardinality(Below(x)) <= n
      BY <3>1, FS_Subset
    <3>3. QED
      BY <3>2, <1>1, FS_CardinalityType
  <2>2. QED
    BY <2>1
<1>3. ASSUME NEW x \in S, NEW z \in Int, x < z
      PROVE  Cardinality(Below(x)) < Cardinality(Below(z))
  <2>1. Below(x) \in SUBSET Below(z) /\ x \in Below(z) /\ x \notin Below(x)
    BY <1>3
  <2>2. Cardinality(Below(x)) <= Cardinality(Below(z)) /\ Cardinality(Below(x)) # Cardinality(Below(z))
    BY <2>1, <1>2, FS_Subset
  <2>3. QED
    BY <2>2, <1>2, <1>1
<1>4. ASSUME NEW x \in S PROVE Cardinality(Below(x)) \in 0 .. n - 1
  <2>1. Below(x) \in SUBSET S /\ x \notin Below(x)
    OBVIOUS
  <2>2. Cardinality(Below(x)) <= n /\ Cardinality(Below(x)) # n
    BY <2>1, FS_Subset
  <2>3. QED
    BY <2>2, <1>2, <1>1
<1>5. ASSUME NEW x \in Int, NEW z \in Int, x <= z
      PROVE  Cardinality(Below(x)) <= Cardinality(Below(z))
  <2>1. Below(x) \in SUBSET Below(z)
    BY <1>5
  <2>2. QED
    BY <2>1, <1>2, FS_Subset
<1>6. \A x, y \in S : Cardinality(Below(x)) = Cardinality(Below(y)) => x = y
  <2>1. SUFFICES ASSUME NEW x \in S, NEW y \in S, x # y
                 PROVE  Cardinality(Below(x)) # Cardinality(Below(y))
    OBVIOUS
  <2>2. x \in Int /\ y \in Int /\ (x < y \/ y < x)
    BY <2>1
  <2>3. \/ Cardinality(Below(x)) < Cardinality(Below(y))
        \/ Cardinality(Below(y)) < Cardinality(Below(x))
    BY <2>2, <1>3
  <2> HIDE DEF Below, n
  <2>4. QED
    BY <2>3, <1>2, <1>1
<1>7. ASSUME NEW k \in 0 .. n - 1 PROVE \E x \in S : Cardinality(Below(x)) = k
  <2>1. num \in Injection(S, 0 .. n - 1)
    BY <1>4, <1>6 DEF Injection, IsInjective
  <2>2. IsFiniteSet(0 .. n - 1) /\ Cardinality(0 .. n - 1) = n
    BY <1>1, FS_Interval
  <2>3. num \in Surjection(S, 0 .. n - 1)
    BY <2>1, <2>2, FS_Injection
  <2>4. QED
    BY <2>3 DEF Surjection
<1>8. ASSUME NEW x \in Int
      PROVE  Cardinality({y \in S : y >= x}) = n - Cardinality(Below(x))
  <2>1. {y \in S : y >= x} = S \ Below(x) /\ S \cap Below(x) = Below(x)
    OBVIOUS
  <2>2. QED
    BY <2>1, FS_Difference
<1>9. QED
  BY <1>1, <1>2, <1>3, <1>4, <1>5, <1>7, <1>8

-----------------------------------------------------------------------------
(* The ring of rows.                                                       *)

SlotFrom(base, k) == (base + k) % RobDepth
AgeFrom(base, i) == (i - base) % RobDepth

(* Slots and distances from any slot are one to one.                       *)
LEMMA SlotsAndAges ==
    ASSUME NEW base \in Slots
    PROVE  /\ \A k \in Slots : SlotFrom(base, k) \in Slots /\ AgeFrom(base, SlotFrom(base, k)) = k
           /\ \A i \in Slots : AgeFrom(base, i) \in Slots /\ SlotFrom(base, AgeFrom(base, i)) = i
           /\ \A i, j \in Slots : AgeFrom(base, i) = AgeFrom(base, j) => i = j
<1>1. \A k \in Slots : SlotFrom(base, k) \in Slots /\ AgeFrom(base, SlotFrom(base, k)) = k
  BY RobAssumption DEF SlotFrom, AgeFrom, Slots
<1>2. \A i \in Slots : AgeFrom(base, i) \in Slots /\ SlotFrom(base, AgeFrom(base, i)) = i
  BY RobAssumption DEF SlotFrom, AgeFrom, Slots
<1>3. QED
  BY <1>1, <1>2

(* Moving the base on by n takes n off the distance of what stays.         *)
LEMMA BaseMoves ==
    ASSUME NEW base \in Slots, NEW n \in 0 .. RobDepth
    PROVE  /\ SlotFrom(base, n) \in Slots
           /\ \A i \in Slots : AgeFrom(SlotFrom(base, n), i) =
                 IF AgeFrom(base, i) >= n THEN AgeFrom(base, i) - n
                                          ELSE AgeFrom(base, i) - n + RobDepth
           /\ \A k \in -n .. RobDepth - n :
                 SlotFrom(SlotFrom(base, n), k) = SlotFrom(base, n + k)
<1>1. SlotFrom(base, n) \in Slots
  BY RobAssumption DEF SlotFrom, Slots
<1>2. ASSUME NEW i \in Slots
      PROVE  AgeFrom(SlotFrom(base, n), i) =
                 IF AgeFrom(base, i) >= n THEN AgeFrom(base, i) - n
                                          ELSE AgeFrom(base, i) - n + RobDepth
  BY RobAssumption DEF SlotFrom, AgeFrom, Slots
<1>3. ASSUME NEW k \in -n .. RobDepth - n
      PROVE  SlotFrom(SlotFrom(base, n), k) = SlotFrom(base, n + k)
  BY RobAssumption DEF SlotFrom, AgeFrom, Slots
<1>4. QED
  BY <1>1, <1>2, <1>3

(* How many rows the ROB retires this cycle.                               *)
Gone == Cardinality(Retiring)

RobTyped == com_ptr \in Slots /\ used_entry_cnt \in 0 .. RobDepth

(* A slot's distance once the cycle is over.                               *)
AgeNext(i) == AgeFrom(com_ptr', i)

(* Rob's distances are the ring's, from its oldest row; its free slots run *)
(* from alloc_ptr.                                                         *)
LEMMA AgeIsFrom ==
    /\ \A i : Age(i) = AgeFrom(com_ptr, i)
    /\ \A k : SlotAt(k) = SlotFrom(com_ptr, k)
    /\ \A k : FreeSlot(k) = SlotFrom(alloc_ptr, k)
BY DEF Age, AgeFrom, SlotAt, SlotFrom, FreeSlot

(* What retires is the oldest rows, all finished, and only the last of     *)
(* them may be a branch or a store.                                        *)
LEMMA RetiringIsPrefix ==
    ASSUME RobTyped
    PROVE  /\ Gone \in 0 .. used_entry_cnt
           /\ Gone \in 0 .. CommitLanes
           /\ Retiring = {i \in Slots : Age(i) < Gone}
           /\ \A i \in Retiring : table[i].wb_fin
           /\ \A i \in Retiring : Age(i) < Gone - 1 =>
                 ~table[i].uop.is_branch /\ ~table[i].uop.is_store
<1> DEFINE L == {l \in 0 .. CommitLanes - 1 : CommitOk(l)}
<1>1. Retiring = {SlotAt(l) : l \in L}
  BY DEF Retiring
<1>2. com_ptr \in Slots /\ used_entry_cnt \in 0 .. RobDepth /\ CommitLanes \in 1 .. RobDepth
      /\ RobDepth \in Nat \ {0}
  BY RobAssumption DEF RobTyped
<1>3. CASE L = {}
  <2>1. Retiring = {} /\ Gone = 0
    BY <1>1, <1>3, FS_EmptySet DEF Gone
  <2>2. \A i \in Slots : ~ (Age(i) < 0)
    BY <1>2, SlotsAndAges, AgeIsFrom DEF Slots
  <2>3. {i \in Slots : Age(i) < Gone} = {}
    BY <2>1, <2>2
  <2>4. Gone \in 0 .. used_entry_cnt /\ Gone \in 0 .. CommitLanes
    BY <1>2, <2>1
  <2>5. QED
    BY <2>1, <2>3, <2>4
<1>4. CASE L # {}
  <2>1. PICK m \in L : \A l \in L : l <= m
    <3>1. IsFiniteSet(L)
      <4>1. L \in SUBSET (0 .. CommitLanes - 1) /\ IsFiniteSet(0 .. CommitLanes - 1)
        BY <1>2, FS_Interval
      <4> HIDE DEF L
      <4>2. QED
        BY <4>1, FS_Subset
    <3>2. \A l \in L : l \in Int
      BY <1>2
    <3> HIDE DEF L
    <3>3. QED
      BY <1>4, <3>1, <3>2, HighestExists
  <2>2. m \in 0 .. CommitLanes - 1 /\ CommitOk(m)
    OBVIOUS
  <2>3. L = 0 .. m
    <3>1. \A l \in 0 .. m : CommitOk(l)
      BY <1>2, <2>2 DEF CommitOk
    <3>2. QED
      BY <1>2, <2>1, <2>2, <3>1
  <2>4. \A l \in 0 .. m : l < used_entry_cnt /\ table[SlotAt(l)].wb_fin
    BY <2>2 DEF CommitOk
  <2>5. m < used_entry_cnt /\ 0 .. m \subseteq Slots
    BY <1>2, <2>2, <2>4 DEF Slots
  <2>6. Gone = m + 1
    <3> DEFINE f == [l \in 0 .. m |-> SlotAt(l)]
    <3>1. \A k, l \in 0 .. m : f[k] = f[l] => k = l
      BY <1>2, <2>5, SlotsAndAges, AgeIsFrom
    <3>2. Retiring = {f[l] : l \in 0 .. m}
      BY <1>1, <2>3
    <3>3. IsFiniteSet(0 .. m) /\ Cardinality(0 .. m) = m + 1
      BY <1>2, <2>2, FS_Interval
    <3>4. Cardinality(Retiring) = m + 1
      <4> HIDE DEF f
      <4>1. DOMAIN f = 0 .. m /\ f = [l \in 0 .. m |-> f[l]]
        BY DEF f
      <4>2. QED
        BY <3>1, <3>2, <3>3, <4>1, ImageCount
    <3>5. QED
      BY <3>4 DEF Gone
  <2>7. Retiring = {i \in Slots : Age(i) < Gone}
    <3>1. ASSUME NEW l \in 0 .. m PROVE SlotAt(l) \in Slots /\ Age(SlotAt(l)) = l
      BY <1>2, <2>5, SlotsAndAges, AgeIsFrom
    <3>2. ASSUME NEW i \in Slots, Age(i) < m + 1
          PROVE  \E l \in 0 .. m : i = SlotAt(l)
      <4>1. Age(i) \in 0 .. m /\ SlotAt(Age(i)) = i
        BY <1>2, <2>2, <3>2, SlotsAndAges, AgeIsFrom DEF Slots
      <4>2. QED
        BY <4>1
    <3>3. QED
      BY <1>1, <1>2, <2>2, <2>3, <2>6, <3>1, <3>2
  <2>8. ASSUME NEW i \in Retiring
        PROVE  /\ table[i].wb_fin
               /\ Age(i) < Gone - 1 => ~table[i].uop.is_branch /\ ~table[i].uop.is_store
    <3>1. PICK l \in 0 .. m : i = SlotAt(l)
      BY <1>1, <2>3
    <3>2. Age(i) = l
      BY <1>2, <2>5, <3>1, SlotsAndAges, AgeIsFrom
    <3>3. table[i].wb_fin
      BY <2>4, <3>1
    <3>4. l < m => l \in 0 .. m - 1
      BY <1>2, <2>2
    <3>5. l < m => ~table[i].uop.is_branch /\ ~table[i].uop.is_store
      BY <2>2, <3>1, <3>4 DEF CommitOk
    <3>6. QED
      BY <1>2, <2>2, <2>6, <3>2, <3>3, <3>5
  <2>9. Gone \in 0 .. used_entry_cnt /\ Gone \in 0 .. CommitLanes
    BY <1>2, <2>2, <2>5, <2>6
  <2>10. QED
    BY <2>7, <2>8, <2>9
<1>5. QED
  BY <1>3, <1>4

(* What a cycle without a squash does to the pointers when w rows land.    *)
Moves(w) ==
    /\ alloc_ptr' = FreeSlot(w)
    /\ com_ptr' = SlotAt(Gone)
    /\ used_entry_cnt' = used_entry_cnt + w - Gone

(* The rows after such a cycle: those that stay keep their order and their *)
(* place, and w new ones stand behind them.                                *)
LEMMA RowsMove ==
    ASSUME RobTyped, alloc_ptr = SlotAt(used_entry_cnt),
           NEW w \in 0 .. RobDepth - used_entry_cnt, Moves(w)
    PROVE  /\ com_ptr' \in Slots
           /\ used_entry_cnt' \in 0 .. RobDepth
           /\ (alloc_ptr = SlotAt(used_entry_cnt))' /\ alloc_ptr' \in Slots
           /\ InFlight' = {i \in Slots : Age(i) \in Gone .. used_entry_cnt + w - 1}
           /\ \A i \in InFlight' : AgeNext(i) = Age(i) - Gone
           /\ \A k \in 0 .. w - 1 :
                 /\ FreeSlot(k) \in Slots
                 /\ Age(FreeSlot(k)) = used_entry_cnt + k
                 /\ FreeSlot(k) \in InFlight' \ InFlight
           /\ \A i \in InFlight' : i \in InFlight \/ \E k \in 0 .. w - 1 : i = FreeSlot(k)
<1> DEFINE used == used_entry_cnt
<1>1. /\ com_ptr \in Slots /\ used \in 0 .. RobDepth /\ RobDepth \in Nat \ {0}
      /\ Gone \in 0 .. used
  BY RobAssumption, RetiringIsPrefix DEF RobTyped
<1>2. /\ alloc_ptr' = SlotFrom(alloc_ptr, w)
      /\ com_ptr' = SlotFrom(com_ptr, Gone)
      /\ used' = used + w - Gone
  BY AgeIsFrom DEF Moves
<1>3. used' \in 0 .. RobDepth
  BY <1>1, <1>2
<1>4. Gone \in 0 .. RobDepth
  BY <1>1
<1>5. /\ com_ptr' \in Slots
      /\ \A i \in Slots : AgeFrom(com_ptr', i) =
            IF AgeFrom(com_ptr, i) >= Gone THEN AgeFrom(com_ptr, i) - Gone
                                           ELSE AgeFrom(com_ptr, i) - Gone + RobDepth
  BY <1>1, <1>2, <1>4, BaseMoves
<1>6. \A i \in Slots : Age(i) \in 0 .. RobDepth - 1
  BY <1>1, SlotsAndAges, AgeIsFrom DEF Slots
<1>7. \A i \in Slots : AgeNext(i) = IF Age(i) >= Gone THEN Age(i) - Gone
                                                     ELSE Age(i) - Gone + RobDepth
  BY <1>5, AgeIsFrom DEF AgeNext
<1>8. InFlight' = {i \in Slots : Age(i) \in Gone .. used + w - 1}
  <2>1. ASSUME NEW i \in Slots PROVE AgeNext(i) < used' <=> Age(i) \in Gone .. used + w - 1
    <3> HIDE DEF used
    <3>1. Age(i) \in 0 .. RobDepth - 1
      BY <1>6
    <3>2. used' = used + w - Gone /\ AgeNext(i) = IF Age(i) >= Gone THEN Age(i) - Gone
                                                    ELSE Age(i) - Gone + RobDepth
      BY <1>2, <1>7
    <3>3. w \in 0 .. RobDepth - used
      BY DEF used
    <3>4. QED
      BY <1>1, <3>1, <3>2, <3>3
  <2>2. QED
    BY <2>1 DEF InFlight, AgeNext, AgeFrom, Age
<1>9. \A i \in InFlight' : AgeNext(i) = Age(i) - Gone
  BY <1>6, <1>7, <1>8
<1>10. alloc_ptr' = SlotFrom(com_ptr', used')
  <2>1. alloc_ptr = SlotFrom(com_ptr, used)
    BY AgeIsFrom
  <2>2. alloc_ptr' = SlotFrom(com_ptr, used + w)
    BY <1>1, <1>2, <2>1, BaseMoves
  <2>3. used' \in -Gone .. RobDepth - Gone /\ Gone + used' = used + w
    BY <1>1, <1>2
  <2>4. SlotFrom(com_ptr', used') = SlotFrom(com_ptr, Gone + used')
    BY <1>1, <1>2, <1>4, <2>3, BaseMoves
  <2>5. QED
    BY <2>2, <2>3, <2>4
<1>11. alloc_ptr' \in Slots
  BY <1>3, <1>5, <1>10, BaseMoves
<1>12. (alloc_ptr = SlotAt(used_entry_cnt))'
  BY <1>10 DEF SlotAt, SlotFrom
<1>13. ASSUME NEW k \in 0 .. w - 1
       PROVE  /\ FreeSlot(k) \in Slots
              /\ Age(FreeSlot(k)) = used + k
              /\ FreeSlot(k) \in InFlight' \ InFlight
  <2>1. FreeSlot(k) = SlotFrom(com_ptr, used + k)
    <3>1. alloc_ptr = SlotFrom(com_ptr, used)
      BY AgeIsFrom
    <3>2. k \in -used .. RobDepth - used
      BY <1>1
    <3>3. QED
      BY <1>1, <3>1, <3>2, BaseMoves, AgeIsFrom
  <2>2. used + k \in Slots
    BY <1>1 DEF Slots
  <2>3. FreeSlot(k) \in Slots /\ Age(FreeSlot(k)) = used + k
    BY <1>1, <2>1, <2>2, SlotsAndAges, AgeIsFrom
  <2>4. used + k \in Gone .. used + w - 1 /\ ~(used + k < used)
    BY <1>1
  <2>5. QED
    BY <1>8, <2>3, <2>4 DEF InFlight
<1>14. ASSUME NEW i \in InFlight', i \notin InFlight
       PROVE  \E k \in 0 .. w - 1 : i = FreeSlot(k)
  <2>1. i \in Slots /\ Age(i) \in used .. used + w - 1
    BY <1>1, <1>6, <1>8, <1>14 DEF InFlight
  <2>2. Age(i) - used \in 0 .. w - 1
    BY <1>1, <2>1
  <2>3. Age(FreeSlot(Age(i) - used)) = used + (Age(i) - used) /\ FreeSlot(Age(i) - used) \in Slots
    BY <1>13, <2>2
  <2>4. Age(FreeSlot(Age(i) - used)) = Age(i)
    BY <1>1, <2>1, <2>3
  <2>5. FreeSlot(Age(i) - used) = i
    BY <1>1, <2>1, <2>3, <2>4, SlotsAndAges, AgeIsFrom
  <2>6. QED
    BY <2>2, <2>5
<1>15. QED
  BY <1>3, <1>5, <1>8, <1>9, <1>11, <1>12, <1>13, <1>14

(* The rows after a squash to row i: those no younger than it, where they  *)
(* were.                                                                   *)
LEMMA RowsCut ==
    ASSUME RobTyped, NEW i \in InFlight, RobMisPred(i)
    PROVE  /\ Age(i) \in 0 .. used_entry_cnt - 1
           /\ com_ptr' = com_ptr
           /\ used_entry_cnt' = Age(i) + 1 /\ used_entry_cnt' \in 0 .. RobDepth
           /\ (alloc_ptr = SlotAt(used_entry_cnt))' /\ alloc_ptr' \in Slots
           /\ \A j : Age(j)' = Age(j)
           /\ InFlight' = {j \in InFlight : Age(j) <= Age(i)}
<1>1. com_ptr \in Slots /\ used_entry_cnt \in 0 .. RobDepth /\ RobDepth \in Nat \ {0}
  BY RobAssumption DEF RobTyped
<1>2. i \in Slots
  BY DEF InFlight
<1>3. \A j \in Slots : Age(j) \in 0 .. RobDepth - 1
  BY <1>1, SlotsAndAges, AgeIsFrom DEF Slots
<1>4. Age(i) \in 0 .. used_entry_cnt - 1
  BY <1>1, <1>2, <1>3 DEF InFlight
<1>5. /\ com_ptr' = com_ptr
      /\ used_entry_cnt' = Age(i) + 1
      /\ alloc_ptr' = SlotFrom(i, 1)
  BY DEF RobMisPred, SlotFrom
<1>6. used_entry_cnt' \in 0 .. RobDepth
  BY <1>1, <1>4, <1>5
<1>7. alloc_ptr' = SlotFrom(com_ptr', used_entry_cnt') /\ alloc_ptr' \in Slots
  <2>1. i = SlotFrom(com_ptr, Age(i))
    BY <1>1, <1>2, SlotsAndAges, AgeIsFrom
  <2>2. Age(i) \in 0 .. RobDepth /\ 1 \in -Age(i) .. RobDepth - Age(i)
    BY <1>1, <1>4
  <2>3. SlotFrom(SlotFrom(com_ptr, Age(i)), 1) = SlotFrom(com_ptr, Age(i) + 1)
    BY <1>1, <2>2, BaseMoves
  <2>4. SlotFrom(com_ptr, Age(i) + 1) \in Slots
    BY <1>1, <1>5, <1>6, BaseMoves
  <2>5. QED
    BY <1>5, <2>1, <2>3, <2>4
<1>8. (alloc_ptr = SlotAt(used_entry_cnt))'
  BY <1>7 DEF SlotAt, SlotFrom
<1>9. \A j : Age(j)' = Age(j)
  BY <1>5 DEF Age
<1>10. InFlight' = {j \in InFlight : Age(j) <= Age(i)}
  <2>1. InFlight' = {j \in Slots : Age(j) < used_entry_cnt'}
    BY <1>9 DEF InFlight
  <2>2. ASSUME NEW j \in Slots
        PROVE  Age(j) < used_entry_cnt' <=> Age(j) < used_entry_cnt /\ Age(j) <= Age(i)
    BY <1>1, <1>3, <1>4, <1>5
  <2>3. QED
    BY <2>1, <2>2 DEF InFlight
<1>11. QED
  BY <1>4, <1>5, <1>6, <1>7, <1>8, <1>9, <1>10

-----------------------------------------------------------------------------
(* Rows counted in program order.                                          *)

(* The rows of S no older than row i.                                      *)
From(S, i) == {j \in S : Age(j) >= Age(i)}
FromNext(S, i) == {j \in S : AgeNext(j) >= AgeNext(i)}

(* Rows in use are few, and each has its own count of those behind it.     *)
LEMMA FromCounts ==
    ASSUME RobTyped, NEW S, S \subseteq InFlight
    PROVE  /\ IsFiniteSet(S) /\ Cardinality(S) \in 0 .. used_entry_cnt
           /\ \A i \in S : Cardinality(From(S, i)) \in 1 .. Cardinality(S)
           /\ \A i, j \in S : Age(i) < Age(j) =>
                 Cardinality(From(S, j)) < Cardinality(From(S, i))
           /\ \A i, j \in S : Cardinality(From(S, i)) = Cardinality(From(S, j)) => i = j
<1>1. com_ptr \in Slots /\ used_entry_cnt \in 0 .. RobDepth /\ RobDepth \in Nat \ {0}
  BY RobAssumption DEF RobTyped
<1>2. \A i \in S : i \in Slots /\ Age(i) \in 0 .. used_entry_cnt - 1 /\ Age(i) \in Int
  BY <1>1, SlotsAndAges, AgeIsFrom DEF InFlight, Slots
<1>3. IsFiniteSet(S) /\ Cardinality(S) \in 0 .. used_entry_cnt
  <2> DEFINE f == [i \in S |-> Age(i)]
             T == {f[i] : i \in S}
  <2>1. f \in Injection(S, 0 .. used_entry_cnt - 1)
    BY <1>1, <1>2, SlotsAndAges, AgeIsFrom DEF Injection, IsInjective
  <2>2. /\ IsFiniteSet(0 .. used_entry_cnt - 1)
        /\ Cardinality(0 .. used_entry_cnt - 1) = used_entry_cnt
    BY <1>1, FS_Interval
  <2>3. IsFiniteSet(S) /\ Cardinality(S) <= used_entry_cnt
    BY <2>1, <2>2, FS_Injection
  <2>4. QED
    BY <1>1, <2>3, FS_CardinalityType
<1>4. ASSUME NEW i \in S
      PROVE  IsFiniteSet(From(S, i)) /\ Cardinality(From(S, i)) \in 1 .. Cardinality(S)
  <2>1. From(S, i) \in SUBSET S /\ i \in From(S, i)
    BY <1>2 DEF From
  <2>2. IsFiniteSet(From(S, i)) /\ Cardinality(From(S, i)) <= Cardinality(S)
    BY <1>3, <2>1, FS_Subset
  <2>3. Cardinality(From(S, i)) \in Nat /\ Cardinality(From(S, i)) # 0
    BY <2>1, <2>2, FS_CardinalityType, FS_EmptySet
  <2>4. QED
    BY <1>3, <2>2, <2>3
<1>5. ASSUME NEW i \in S, NEW j \in S, Age(i) < Age(j)
      PROVE  Cardinality(From(S, j)) < Cardinality(From(S, i))
  <2>1. From(S, j) \in SUBSET From(S, i) /\ i \in From(S, i) /\ i \notin From(S, j)
    BY <1>2, <1>5 DEF From
  <2>2. /\ Cardinality(From(S, j)) <= Cardinality(From(S, i))
        /\ Cardinality(From(S, j)) # Cardinality(From(S, i))
    BY <1>4, <2>1, FS_Subset
  <2>3. QED
    BY <1>3, <1>4, <2>2
<1>6. ASSUME NEW i \in S, NEW j \in S, i # j
      PROVE  Cardinality(From(S, i)) # Cardinality(From(S, j))
  <2>1. Age(i) # Age(j)
    BY <1>1, <1>2, <1>6, SlotsAndAges, AgeIsFrom
  <2>2. Age(i) < Age(j) \/ Age(j) < Age(i)
    BY <1>2, <2>1
  <2>3. \/ Cardinality(From(S, j)) < Cardinality(From(S, i))
        \/ Cardinality(From(S, i)) < Cardinality(From(S, j))
    BY <1>5, <2>2
  <2>4. Cardinality(From(S, i)) \in Nat /\ Cardinality(From(S, j)) \in Nat
    BY <1>4, FS_CardinalityType
  <2>5. QED
    BY <2>3, <2>4
<1>7. QED
  BY <1>3, <1>4, <1>5, <1>6

(* T is what S becomes when its oldest rows D leave and new rows join, the *)
(* b-th free slot for each b in B.                                         *)
CountedOn(S, D, B, T) ==
    /\ T \subseteq InFlight'
    /\ Cardinality(T) = Cardinality(S) - Cardinality(D) + Cardinality(B)
    /\ \A i \in S \ D : Cardinality(FromNext(T, i)) = Cardinality(From(S, i)) + Cardinality(B)
    /\ \A b \in B : Cardinality(FromNext(T, FreeSlot(b))) = Cardinality({c \in B : c >= b})

(* Every row that stays has as many more behind it as rows joined, and the *)
(* new ones are counted from the youngest.                                 *)
LEMMA CountsMove ==
    ASSUME RobTyped, alloc_ptr = SlotAt(used_entry_cnt),
           NEW w \in 0 .. RobDepth - used_entry_cnt, Moves(w),
           NEW S, S \subseteq InFlight, NEW D, D \subseteq S,
           \A d \in D, i \in S \ D : Age(d) < Age(i),
           S \ D \subseteq InFlight',
           NEW B, B \subseteq 0 .. w - 1,
           NEW T, T = (S \ D) \cup {FreeSlot(b) : b \in B}
    PROVE  CountedOn(S, D, B, T)
<1> DEFINE used == used_entry_cnt
           f == [b \in B |-> FreeSlot(b)]
           N == {f[b] : b \in B}
<1>1. /\ com_ptr \in Slots /\ used \in 0 .. RobDepth /\ RobDepth \in Nat \ {0}
      /\ Gone \in 0 .. used /\ w \in Nat
  BY RobAssumption, RetiringIsPrefix DEF RobTyped
<1>2. ASSUME NEW b \in B
      PROVE  /\ b \in Nat
             /\ FreeSlot(b) \in InFlight' \ InFlight
             /\ AgeNext(FreeSlot(b)) = used + b - Gone
  <2>1. b \in 0 .. w - 1
    OBVIOUS
  <2>2. /\ FreeSlot(b) \in InFlight' \ InFlight
        /\ Age(FreeSlot(b)) = used + b
        /\ \A i \in InFlight' : AgeNext(i) = Age(i) - Gone
    BY <2>1, RowsMove
  <2>3. QED
    BY <1>1, <2>1, <2>2
<1>3. /\ \A b, c \in B : f[b] = f[c] => b = c
      /\ \A b, c \in B : AgeNext(f[b]) >= AgeNext(f[c]) <=> b >= c
  <2>1. SUFFICES ASSUME NEW b \in B, NEW c \in B
                 PROVE  /\ f[b] = f[c] => b = c
                        /\ AgeNext(f[b]) >= AgeNext(f[c]) <=> b >= c
    OBVIOUS
  <2>2. /\ b \in Nat /\ c \in Nat
        /\ AgeNext(f[b]) = used + b - Gone /\ AgeNext(f[c]) = used + c - Gone
    BY <1>2
  <2> HIDE DEF used, f
  <2>3. AgeNext(f[b]) >= AgeNext(f[c]) <=> b >= c
    BY <1>1, <2>2
  <2>4. f[b] = f[c] => AgeNext(f[b]) = AgeNext(f[c])
    OBVIOUS
  <2>5. QED
    BY <1>1, <2>2, <2>3, <2>4
<1>4. /\ IsFiniteSet(B) /\ Cardinality(B) \in Nat
      /\ IsFiniteSet(N) /\ Cardinality(N) = Cardinality(B)
  <2>1. IsFiniteSet(B) /\ Cardinality(B) \in Nat
    <3>1. IsFiniteSet(0 .. w - 1) /\ B \in SUBSET (0 .. w - 1)
      BY <1>1, FS_Interval
    <3>2. QED
      BY <3>1, FS_Subset, FS_CardinalityType
  <2>2. DOMAIN f = B /\ f = [b \in B |-> f[b]]
    OBVIOUS
  <2>3. N = {f[b] : b \in B}
    OBVIOUS
  <2> HIDE DEF f, N
  <2>4. QED
    BY <1>3, <2>1, <2>2, <2>3, ImageCount
<1>5. T = (S \ D) \cup N /\ N \cap S = {}
  BY <1>2
<1>6. IsFiniteSet(S) /\ IsFiniteSet(D) /\ Cardinality(S) \in Nat /\ Cardinality(D) \in Nat
  BY FromCounts, FS_Subset, FS_CardinalityType
<1>7. T \subseteq InFlight'
  BY <1>2
<1>8. Cardinality(T) = Cardinality(S) - Cardinality(D) + Cardinality(B)
  <2> HIDE DEF N
  <2>1. S \cap D = D
    OBVIOUS
  <2>2. IsFiniteSet(S \ D) /\ Cardinality(S \ D) = Cardinality(S) - Cardinality(D)
    BY <1>6, <2>1, FS_Difference
  <2>3. (S \ D) \cap N = {} /\ Cardinality({}) = 0
    BY <1>5, FS_EmptySet
  <2>4. Cardinality((S \ D) \cup N) = Cardinality(S \ D) + Cardinality(N) - Cardinality((S \ D) \cap N)
    BY <1>4, <2>2, FS_Union
  <2>5. Cardinality(T) = Cardinality(S \ D) + Cardinality(N) - 0
    BY <1>5, <2>3, <2>4
  <2>6. QED
    BY <1>4, <1>6, <2>2, <2>5
<1>9. ASSUME NEW i \in S
      PROVE  i \in Slots /\ Age(i) \in 0 .. used - 1 /\ Age(i) < used
  BY <1>1, SlotsAndAges, AgeIsFrom DEF InFlight, Slots
<1>10. \A j \in S \ D : AgeNext(j) = Age(j) - Gone
  <2>1. \A j \in InFlight' : AgeNext(j) = Age(j) - Gone
    BY RowsMove
  <2>2. QED
    BY <2>1
<1>11. ASSUME NEW i \in S \ D
       PROVE  Cardinality(FromNext(T, i)) = Cardinality(From(S, i)) + Cardinality(B)
  <2>2. ASSUME NEW j \in S \ D PROVE AgeNext(j) >= AgeNext(i) <=> Age(j) >= Age(i)
    BY <1>1, <1>9, <1>10
  <2>3. ASSUME NEW j \in N PROVE AgeNext(j) >= AgeNext(i)
    <3>1. PICK b \in B : j = FreeSlot(b)
      OBVIOUS
    <3>2. AgeNext(j) = used + b - Gone /\ b \in Nat
      BY <1>2, <3>1
    <3>3. AgeNext(i) = Age(i) - Gone /\ Age(i) \in 0 .. used - 1
      BY <1>9, <1>10
    <3> HIDE DEF used, N
    <3>4. QED
      BY <1>1, <3>2, <3>3
  <2>4. \A j \in D : ~ (Age(j) >= Age(i))
    BY <1>9
  <2> HIDE DEF N, used
  <2>5. FromNext(T, i) = From(S, i) \cup N
    <3>1. FromNext(T, i) = {j \in T : AgeNext(j) >= AgeNext(i)}
      BY DEF FromNext
    <3>2. QED
      BY <1>5, <2>2, <2>3, <2>4, <3>1 DEF From
  <2>6. From(S, i) \subseteq S /\ From(S, i) \cap N = {}
    BY <1>5 DEF From
  <2>7. IsFiniteSet(From(S, i)) /\ Cardinality(From(S, i)) \in Nat
    BY <1>6, <2>6, FS_Subset, FS_CardinalityType
  <2>8. Cardinality(From(S, i) \cup N)
          = Cardinality(From(S, i)) + Cardinality(N) - Cardinality(From(S, i) \cap N)
    BY <1>4, <2>7, FS_Union
  <2>9. Cardinality(FromNext(T, i)) = Cardinality(From(S, i)) + Cardinality(N) - 0
    BY <2>5, <2>6, <2>8, FS_EmptySet
  <2>10. QED
    BY <1>4, <2>7, <2>9
<1>12. ASSUME NEW b \in B
       PROVE  Cardinality(FromNext(T, FreeSlot(b))) = Cardinality({c \in B : c >= b})
  <2> DEFINE K == {c \in B : c >= b}
             h == [c \in K |-> FreeSlot(c)]
  <2>1. ASSUME NEW j \in S \ D PROVE ~ (AgeNext(j) >= AgeNext(FreeSlot(b)))
    <3>1. AgeNext(j) = Age(j) - Gone
      BY <1>10, <2>1
    <3>2. AgeNext(FreeSlot(b)) = used + b - Gone /\ b \in Nat
      BY <1>2
    <3>3. Age(j) \in 0 .. used - 1
      BY <1>9, <2>1
    <3> HIDE DEF used
    <3>4. QED
      BY <1>1, <3>1, <3>2, <3>3
  <2>2. FromNext(T, FreeSlot(b)) = {h[c] : c \in K}
    <3>1. FromNext(T, FreeSlot(b)) = {j \in T : AgeNext(j) >= AgeNext(FreeSlot(b))}
      BY DEF FromNext
    <3>2. \A c \in B : AgeNext(FreeSlot(c)) >= AgeNext(FreeSlot(b)) <=> c >= b
      BY <1>3
    <3>3. QED
      BY <2>1, <3>1, <3>2
  <2>3. \A x, y \in K : h[x] = h[y] => x = y
    BY <1>3
  <2>4. DOMAIN h = K /\ h = [c \in K |-> h[c]]
    OBVIOUS
  <2>5. IsFiniteSet(K)
    BY <1>4, FS_Subset
  <2> HIDE DEF K, h
  <2>6. Cardinality(FromNext(T, FreeSlot(b))) = Cardinality(K)
    BY <2>2, <2>3, <2>4, <2>5, ImageCount
  <2>7. QED
    BY <2>6 DEF K
<1>13. QED
  BY <1>7, <1>8, <1>11, <1>12 DEF CountedOn

-----------------------------------------------------------------------------
(* The tags of the open branches.                                          *)

(* The rows in use that hold a branch nothing has resolved yet.            *)
Opened == {i \in InFlight : ~table[i].wb_fin /\ table[i].uop.is_branch}

(* The tags out of the pool are those of the open branches, in their order. *)
TagsAreRing ==
    /\ free_tag = SpTagLen - 1 - Cardinality(Opened)
    /\ \A i \in Opened : table[i].tag = {RotateRight(next_tag, Cardinality(From(Opened, i)))}

(* TagGen's registers keep their widths.                                   *)
TagsTyped == free_tag \in 0 .. SpTagLen - 1 /\ next_tag \in Tags

(* What the ring says of the tags: each open branch has one of its own,    *)
(* the pool's next ones are nobody's, and the pool answers the tag of the  *)
(* youngest open branch when asked for the tag in force.                   *)
LEMMA OpenTags ==
    ASSUME RobTyped, TagsTyped, TagsAreRing
    PROVE  /\ IsFiniteSet(Opened) /\ Cardinality(Opened) \in 0 .. SpTagLen - 1
           /\ SpTagLen \in Nat \ {0} /\ free_tag \in Nat
           /\ \A i \in Opened : \E t \in Tags : table[i].tag = {t}
           /\ \A i, j \in Opened : table[i].tag \cap table[j].tag # {} => i = j
           /\ \A b \in 0 .. free_tag : RotateLeft(next_tag, b) \in Tags
           /\ \A b \in 0 .. free_tag - 1, i \in Opened : RotateLeft(next_tag, b) \notin table[i].tag
           /\ \A b, c \in 0 .. free_tag - 1 :
                 RotateLeft(next_tag, b) = RotateLeft(next_tag, c) => b = c
           /\ Outstanding <=> Opened # {}
           /\ \A i \in Opened : (\A j \in Opened : Age(j) <= Age(i)) => LastTag = table[i].tag
<1> DEFINE o == Cardinality(Opened)
           pos(i) == Cardinality(From(Opened, i))
<1>1. /\ IsFiniteSet(Opened) /\ o \in Nat
      /\ \A i \in Opened : pos(i) \in 1 .. o
      /\ \A i, j \in Opened : pos(i) = pos(j) => i = j
  <2>1. Opened \subseteq InFlight
    BY DEF Opened
  <2>2. QED
    BY <2>1, FromCounts, FS_CardinalityType
<1>2. /\ SpTagLen \in Nat \ {0} /\ next_tag \in Tags /\ free_tag \in 0 .. SpTagLen - 1
      /\ free_tag = SpTagLen - 1 - o
      /\ \A i \in Opened : table[i].tag = {RotateRight(next_tag, pos(i))}
  BY SpTagLenAssumption DEF TagsTyped, TagsAreRing
<1>3. o \in 0 .. SpTagLen - 1 /\ free_tag \in Nat
  <2> HIDE DEF o
  <2>1. QED
    BY <1>1, <1>2
<1>4. \A i \in Opened : pos(i) \in 1 .. SpTagLen - 1
  BY <1>1, <1>2, <1>3
<1>5. \A i \in Opened : \E t \in Tags : table[i].tag = {t}
  <2> HIDE DEF pos
  <2>1. QED
    BY <1>2, <1>4, BackIsInjective
<1>6. ASSUME NEW i \in Opened, NEW j \in Opened, table[i].tag \cap table[j].tag # {}
      PROVE  i = j
  <2> HIDE DEF pos
  <2>1. RotateRight(next_tag, pos(i)) = RotateRight(next_tag, pos(j))
    BY <1>2, <1>6
  <2>2. pos(i) = pos(j)
    BY <1>2, <1>4, <2>1, BackIsInjective
  <2>3. QED
    BY <1>1, <2>2
<1>7. \A b \in 0 .. free_tag : RotateLeft(next_tag, b) \in Tags
  BY <1>2, BackAfterStep
<1>8. ASSUME NEW b \in 0 .. free_tag - 1, NEW i \in Opened
      PROVE  RotateLeft(next_tag, b) \notin table[i].tag
  <2> DEFINE a == pos(i)
  <2>1. a \in 1 .. o /\ table[i].tag = {RotateRight(next_tag, a)}
    BY <1>1, <1>2
  <2> HIDE DEF a, o, pos
  <2>2. RotateLeft(next_tag, b) # RotateRight(next_tag, a)
    BY <1>2, <1>3, <2>1 DEF RotateLeft, RotateRight, Tags
  <2>3. QED
    BY <2>1, <2>2
<1>9. \A b, c \in 0 .. free_tag - 1 : RotateLeft(next_tag, b) = RotateLeft(next_tag, c) => b = c
  BY <1>2, <1>3 DEF RotateLeft, Tags
<1>10. Outstanding <=> Opened # {}
  <2>1. o = 0 <=> Opened = {}
    BY <1>1, FS_EmptySet
  <2> HIDE DEF o
  <2>2. Outstanding <=> o # 0
    BY <1>2, <1>3 DEF Outstanding
  <2>3. QED
    BY <2>1, <2>2
<1>11. ASSUME NEW i \in Opened, \A j \in Opened : Age(j) <= Age(i)
       PROVE  LastTag = table[i].tag
  <2>1. From(Opened, i) = {i}
    <3>1. com_ptr \in Slots /\ \A j \in Opened : j \in Slots /\ Age(j) \in Int
      BY SlotsAndAges, AgeIsFrom DEF RobTyped, Opened, InFlight, Slots
    <3>2. \A j \in Opened : Age(j) = Age(i) => j = i
      BY <3>1, SlotsAndAges, AgeIsFrom
    <3>3. \A j \in Opened : Age(j) >= Age(i) => Age(j) = Age(i)
      BY <1>11, <3>1
    <3>4. QED
      BY <3>1, <3>2, <3>3 DEF From
  <2>2. pos(i) = 1
    BY <2>1, FS_Singleton
  <2>3. table[i].tag = {RotateRight(next_tag, 1)}
    BY <1>2, <2>2
  <2>4. Outstanding
    BY <1>10
  <2>5. QED
    BY <2>3, <2>4 DEF LastTag
<1>12. QED
  BY <1>1, <1>2, <1>3, <1>5, <1>6, <1>7, <1>8, <1>9, <1>10, <1>11

(* What these modules know of a state: typed pointers, and the tags a ring.*)
RobSound == RobTyped /\ alloc_ptr = SlotAt(used_entry_cnt) /\ TagsTyped /\ TagsAreRing

(* A cycle without a squash: w rows land, the branches D, which are the    *)
(* oldest, return their tags, and those that land in the free slots of B   *)
(* take new ones at next_tag, in order.                                    *)
TagStep(w, D, B) ==
    /\ w \in 0 .. RobDepth - used_entry_cnt /\ Moves(w)
    /\ D \subseteq Opened /\ \A d \in D, i \in Opened \ D : Age(d) < Age(i)
    /\ B \subseteq 0 .. w - 1
    /\ Opened \ D \subseteq InFlight'
    /\ Opened' = (Opened \ D) \cup {FreeSlot(b) : b \in B}
    /\ Cardinality(B) <= free_tag
    /\ free_tag' = free_tag + Cardinality(D) - Cardinality(B)
    /\ next_tag' = RotateLeft(next_tag, Cardinality(B))
    /\ \A i \in Opened \ D : table'[i].tag = table[i].tag
    /\ \A b \in B : table'[FreeSlot(b)].tag
                        = {RotateLeft(next_tag, Cardinality({c \in B : c < b}))}

(* Such a cycle keeps the tags a ring.                                     *)
LEMMA TagsMove ==
    ASSUME RobSound, NEW w, NEW D, NEW B, TagStep(w, D, B)
    PROVE  TagsAreRing' /\ TagsTyped'
<1> USE DEF RobSound, TagStep
<1> DEFINE n == Cardinality(B)
           o == Cardinality(Opened)
<1>1. /\ SpTagLen \in Nat \ {0} /\ next_tag \in Tags /\ free_tag \in 0 .. SpTagLen - 1
      /\ free_tag = SpTagLen - 1 - o
      /\ \A i \in Opened : table[i].tag = {RotateRight(next_tag, Cardinality(From(Opened, i)))}
  BY SpTagLenAssumption DEF TagsTyped, TagsAreRing
<1>2. IsFiniteSet(Opened) /\ o \in 0 .. SpTagLen - 1 /\ Opened \subseteq InFlight
  BY OpenTags DEF Opened
<1>3. IsFiniteSet(B) /\ n \in Nat /\ \A b \in B : b \in Int
  <2>1. w \in Int /\ B \in SUBSET (0 .. w - 1)
    BY RobAssumption DEF RobTyped
  <2>2. IsFiniteSet(0 .. w - 1)
    BY <2>1, FS_Interval
  <2>3. IsFiniteSet(B) /\ n \in Nat
    BY <2>1, <2>2, FS_Subset, FS_CardinalityType
  <2>4. QED
    BY <2>1, <2>3
<1>4. CountedOn(Opened, D, B, Opened')
  <2>1. ASSUME NEW S, S = Opened, NEW T, T = Opened' PROVE CountedOn(S, D, B, T)
    <3>1. S \subseteq InFlight /\ D \subseteq S /\ S \ D \subseteq InFlight'
      BY <1>2, <2>1
    <3>2. \A d \in D, i \in S \ D : Age(d) < Age(i)
      BY <2>1
    <3>3. T = (S \ D) \cup {FreeSlot(b) : b \in B}
      BY <2>1
    <3>4. QED
      BY <3>1, <3>2, <3>3, CountsMove
  <2>2. QED
    BY <2>1
<1>5. \A i : From(Opened, i)' = FromNext(Opened', i)
  BY DEF From, FromNext, AgeNext, Age, AgeFrom
<1>6. /\ Cardinality(Opened') = o - Cardinality(D) + n
      /\ \A i \in Opened \ D :
            Cardinality(FromNext(Opened', i)) = Cardinality(From(Opened, i)) + n
      /\ \A b \in B : Cardinality(FromNext(Opened', FreeSlot(b))) = Cardinality({c \in B : c >= b})
  BY <1>4 DEF CountedOn
<1>7. Cardinality(D) \in Nat /\ Cardinality(D) <= o
  BY <1>2, FS_Subset, FS_CardinalityType
<1>8. n <= free_tag /\ next_tag' = RotateLeft(next_tag, n) /\ free_tag' = free_tag + Cardinality(D) - n
  OBVIOUS
<1> HIDE DEF n, o
<1>9. free_tag' = SpTagLen - 1 - Cardinality(Opened') /\ free_tag' \in 0 .. SpTagLen - 1
  BY <1>1, <1>2, <1>3, <1>6, <1>7, <1>8
<1>10. n \in 0 .. SpTagLen - 1 /\ next_tag' \in Tags
  BY <1>1, <1>3, <1>8, BackAfterStep
<1>11. ASSUME NEW i \in Opened \ D
       PROVE  table'[i].tag = {RotateRight(next_tag', Cardinality(FromNext(Opened', i)))}
  <2> DEFINE a == Cardinality(From(Opened, i))
  <2>1. Cardinality(FromNext(Opened', i)) = a + n /\ table[i].tag = {RotateRight(next_tag, a)}
    BY <1>1, <1>6
  <2>2. a \in 1 .. o
    BY <1>2, FromCounts DEF o
  <2>3. table'[i].tag = table[i].tag
    OBVIOUS
  <2> HIDE DEF a
  <2>4. a \in 1 .. SpTagLen - 1 - n
    BY <1>1, <1>2, <1>8, <1>10, <2>2
  <2>5. RotateRight(RotateLeft(next_tag, n), a + n) = RotateRight(next_tag, a)
    BY <1>1, <1>10, <2>4, BackAfterStep
  <2>6. QED
    BY <1>8, <2>1, <2>3, <2>5
<1>12. ASSUME NEW b \in B
       PROVE  table'[FreeSlot(b)].tag
                 = {RotateRight(next_tag', Cardinality(FromNext(Opened', FreeSlot(b))))}
  <2> DEFINE k == Cardinality({c \in B : c < b})
  <2>1. k \in 0 .. n - 1 /\ Cardinality({c \in B : c >= b}) = n - k
    BY <1>3, Numbering DEF n
  <2>2. table'[FreeSlot(b)].tag = {RotateLeft(next_tag, k)}
    OBVIOUS
  <2>3. Cardinality(FromNext(Opened', FreeSlot(b))) = n - k
    BY <1>6, <2>1
  <2> HIDE DEF k
  <2>4. k + 1 \in 1 .. n /\ n + 1 - (k + 1) = n - k /\ (k + 1) - 1 = k
    BY <1>10, <2>1
  <2>5. RotateRight(RotateLeft(next_tag, n), n + 1 - (k + 1)) = RotateLeft(next_tag, (k + 1) - 1)
    BY <1>1, <1>10, <2>4, BackAfterStep
  <2>6. QED
    BY <1>8, <2>2, <2>3, <2>4, <2>5
<1>13. \A i \in Opened' :
          table'[i].tag = {RotateRight(next_tag', Cardinality(FromNext(Opened', i)))}
  BY <1>11, <1>12
<1>14. TagsAreRing'
  BY <1>5, <1>9, <1>13 DEF TagsAreRing
<1>15. QED
  BY <1>9, <1>10, <1>14 DEF TagsTyped

(* A squash that leaves no branch open empties the ring.                   *)
LEMMA TagsCut ==
    ASSUME TagsTyped, NEW t \in Tags, TagGenMisPred(t), Opened' = {}
    PROVE  TagsAreRing' /\ TagsTyped'
<1>1. free_tag' = SpTagLen - 1 /\ next_tag' = RotateLeft(t, 1)
  BY DEF TagGenMisPred
<1>2. free_tag' \in 0 .. SpTagLen - 1 /\ next_tag' \in Tags
  BY <1>1, SpTagLenAssumption DEF Tags, RotateLeft
<1>3. free_tag' = SpTagLen - 1 - Cardinality(Opened')
  BY <1>1, FS_EmptySet, SpTagLenAssumption
<1>4. QED
  BY <1>2, <1>3 DEF TagsAreRing, TagsTyped

-----------------------------------------------------------------------------
(* The tag in force at a row.                                              *)

LastOf(S) == CHOOSE i \in S : \A j \in S : Age(j) <= Age(i)
LastNext(S) == CHOOSE i \in S : \A j \in S : AgeNext(j) <= AgeNext(i)

(* Rows in use have one that is the youngest.                              *)
LEMMA LastIsYoungest ==
    RobTyped =>
        \A S \in SUBSET InFlight : S # {} =>
            /\ LastOf(S) \in S
            /\ \A j \in S : Age(j) <= Age(LastOf(S))
            /\ \A i \in S : (\A j \in S : Age(j) <= Age(i)) => i = LastOf(S)
<1> SUFFICES ASSUME RobTyped, NEW S \in SUBSET InFlight, S # {}
             PROVE  /\ LastOf(S) \in S
                    /\ \A j \in S : Age(j) <= Age(LastOf(S))
                    /\ \A i \in S : (\A j \in S : Age(j) <= Age(i)) => i = LastOf(S)
  OBVIOUS
<1>1. com_ptr \in Slots /\ \A j \in S : j \in Slots /\ Age(j) \in Int
  BY SlotsAndAges, AgeIsFrom DEF RobTyped, InFlight, Slots
<1>2. \A i, j \in S : Age(i) = Age(j) => i = j
  BY <1>1, SlotsAndAges, AgeIsFrom
<1>3. \E i \in S : \A j \in S : Age(j) <= Age(i)
  <2> DEFINE ages == {Age(j) : j \in S}
             f == [j \in S |-> Age(j)]
  <2>1. IsFiniteSet(ages)
    <3>1. IsFiniteSet(S)
      BY FromCounts
    <3>2. f \in Surjection(S, ages)
      BY DEF Surjection
    <3>3. QED
      BY <3>1, <3>2, FS_Surjection
  <2>2. \A x \in ages : x \in Int
    BY <1>1
  <2>3. ages # {}
    OBVIOUS
  <2>4. \E x \in ages : \A y \in ages : y <= x
    <3> HIDE DEF ages
    <3>1. QED
      BY <2>1, <2>2, <2>3, HighestExists
  <2>5. QED
    BY <2>4
<1>4. LastOf(S) \in S /\ \A j \in S : Age(j) <= Age(LastOf(S))
  BY <1>3 DEF LastOf
<1>5. ASSUME NEW i \in S, \A j \in S : Age(j) <= Age(i) PROVE i = LastOf(S)
  <2>1. Age(i) = Age(LastOf(S))
    BY <1>1, <1>4, <1>5
  <2>2. QED
    BY <1>2, <1>4, <2>1
<1>6. QED
  BY <1>4, <1>5

(* The same of the rows after a step.                                     *)
LEMMA LastIsYoungestNext ==
    (RobTyped =>
        \A S \in SUBSET InFlight : S # {} =>
            /\ LastOf(S) \in S
            /\ \A j \in S : Age(j) <= Age(LastOf(S))
            /\ \A i \in S : (\A j \in S : Age(j) <= Age(i)) => i = LastOf(S))'
BY LastIsYoungest, PTL

(* A row none is younger than after a step is the one LastNext picks.      *)
LEMMA LastNextIsYoungest ==
    ASSUME RobTyped', NEW S \in SUBSET InFlight', NEW y \in S,
           \A j \in S : AgeNext(j) <= AgeNext(y)
    PROVE  LastNext(S) = y
<1>1. (\A T \in SUBSET InFlight : T # {} =>
           \A i \in T : (\A j \in T : Age(j) <= Age(i)) => i = LastOf(T))'
  BY LastIsYoungestNext
<1>2. \A j : Age(j)' = AgeNext(j)
  BY DEF Age, AgeNext, AgeFrom
<1>3. LastOf(S)' = LastNext(S)
  BY <1>2 DEF LastOf, LastNext
<1>4. QED
  BY <1>1, <1>2, <1>3

(* The open branches ahead of row i, and the tag of the youngest.          *)
OpenAhead(i) == {j \in Opened : Age(j) < Age(i)}
PairTag(i) == IF OpenAhead(i) = {} THEN {} ELSE table[LastOf(OpenAhead(i))].tag

(* A cycle without a squash masks the returned tags out of the pairs of    *)
(* the rows that stay, and the k-th row that lands stands under the tag    *)
(* the pool answered it.                                                   *)
LEMMA PairsMove ==
    ASSUME RobSound, NEW w, NEW D, NEW B, TagStep(w, D, B)
    PROVE  /\ \A i \in InFlight : i \in InFlight' =>
                 PairTag(i)' = PairTag(i) \ UNION {table[d].tag : d \in D}
           /\ D = {} => \A k \in 0 .. w - 1, i \in InFlight' : i = FreeSlot(k) =>
                 PairTag(i)' = TagInForce(Cardinality({c \in B : c < k}))
<1> DEFINE suc == UNION {table[d].tag : d \in D}
           used == used_entry_cnt
<1>1. /\ RobTyped /\ Opened \subseteq InFlight /\ D \subseteq Opened
      /\ com_ptr \in Slots /\ used \in Nat /\ Gone \in Nat
      /\ \A j \in InFlight : j \in Slots /\ Age(j) \in Int /\ Age(j) < used
  <2>1. RobTyped /\ Opened \subseteq InFlight /\ D \subseteq Opened /\ Gone \in Nat
    BY RetiringIsPrefix, RobAssumption DEF RobSound, TagStep, Opened, RobTyped
  <2>2. QED
    BY <2>1, RobAssumption, SlotsAndAges, AgeIsFrom DEF RobTyped, InFlight, Slots
<1>2. w \in Nat /\ B \subseteq 0 .. w - 1
  BY <1>1, RobAssumption DEF TagStep, RobTyped
<1>3. /\ RobTyped'
      /\ \A j \in InFlight' : AgeNext(j) = Age(j) - Gone
      /\ \A k \in 0 .. w - 1 : FreeSlot(k) \in InFlight' \ InFlight /\ Age(FreeSlot(k)) = used + k
  BY RowsMove DEF RobSound, TagStep, RobTyped
<1>4. /\ Opened' = (Opened \ D) \cup {FreeSlot(b) : b \in B} /\ Opened' \subseteq InFlight'
      /\ \A d \in D, i \in Opened \ D : Age(d) < Age(i)
      /\ \A i \in Opened \ D : i \in InFlight' /\ table'[i].tag = table[i].tag
  <2>1. Opened' \subseteq InFlight'
    BY DEF Opened
  <2>2. QED
    BY <2>1 DEF TagStep
<1>5. \A i, j \in Opened : table[i].tag \cap table[j].tag # {} => i = j
  BY OpenTags DEF RobSound
<1>6. ASSUME NEW S \in SUBSET InFlight', NEW y \in S, \A j \in S : AgeNext(j) <= AgeNext(y)
      PROVE  LastNext(S) = y
  BY <1>3, <1>6, LastNextIsYoungest
<1>7. ASSUME NEW i \in InFlight, i \in InFlight' PROVE PairTag(i)' = PairTag(i) \ suc
  <2> DEFINE A == OpenAhead(i)
             A2 == OpenAhead(i)'
  <2>1. A2 = A \ D
    <3>1. A2 = {j \in Opened' : AgeNext(j) < AgeNext(i)}
      BY DEF OpenAhead, Age, AgeNext, AgeFrom
    <3>2. ASSUME NEW j \in Opened' PROVE AgeNext(j) < AgeNext(i) <=> Age(j) < Age(i)
      <4>1. AgeNext(j) = Age(j) - Gone /\ AgeNext(i) = Age(i) - Gone
        BY <1>3, <1>4, <1>7
      <4>2. Age(j) \in Int /\ Age(i) \in Int
        <5>1. CASE j \in Opened
          BY <1>1, <5>1
        <5>2. ASSUME NEW b \in B, j = FreeSlot(b) PROVE Age(j) \in Int
          BY <1>1, <1>2, <1>3, <5>2
        <5>3. QED
          BY <1>1, <1>4, <5>1, <5>2
      <4>3. QED
        BY <1>1, <4>1, <4>2
    <3>3. ASSUME NEW b \in B PROVE ~(Age(FreeSlot(b)) < Age(i))
      BY <1>1, <1>2, <1>3
    <3>4. QED
      BY <1>4, <3>1, <3>2, <3>3 DEF OpenAhead
  <2>2. PairTag(i)' = IF A2 = {} THEN {} ELSE table'[LastNext(A2)].tag
    <3>1. \A j : Age(j)' = AgeNext(j)
      BY DEF Age, AgeNext, AgeFrom
    <3>2. LastOf(OpenAhead(i))' = LastNext(OpenAhead(i)')
      BY <3>1 DEF LastOf, LastNext
    <3>3. QED
      BY <3>2 DEF PairTag
  <2>3. CASE A = {}
    BY <2>1, <2>2, <2>3 DEF PairTag
  <2>4. CASE A # {}
    <3> DEFINE y == LastOf(A)
    <3>1. A \in SUBSET InFlight
      BY <1>1 DEF OpenAhead
    <3>2. y \in A /\ y \in Opened /\ PairTag(i) = table[y].tag /\ \A j \in A : Age(j) <= Age(y)
      <4>1. y \in A /\ \A j \in A : Age(j) <= Age(y)
        BY <1>1, <2>4, <3>1, LastIsYoungest
      <4>2. QED
        BY <2>4, <4>1 DEF PairTag, OpenAhead
    <3> HIDE DEF y, A, A2
    <3>3. CASE y \in D
      <4>1. A \subseteq D
        <5>1. SUFFICES ASSUME NEW j \in A, j \notin D PROVE FALSE
          OBVIOUS
        <5>2. Age(y) < Age(j)
          BY <1>4, <3>3, <5>1 DEF A, OpenAhead
        <5>3. QED
          BY <1>1, <3>1, <3>2, <5>1, <5>2
      <4>2. A2 = {}
        BY <2>1, <4>1
      <4>3. table[y].tag \subseteq suc
        BY <3>3
      <4>4. QED
        BY <2>2, <3>2, <4>2, <4>3
    <3>4. CASE y \notin D
      <4>1. y \in A2 /\ y \in Opened \ D /\ A2 \in SUBSET InFlight'
        BY <1>4, <2>1, <3>2, <3>4 DEF A, OpenAhead
      <4>2. \A j \in A2 : AgeNext(j) <= AgeNext(y)
        BY <1>1, <1>3, <2>1, <3>1, <3>2, <4>1
      <4>3. LastNext(A2) = y
        BY <1>6, <4>1, <4>2
      <4>4. table[y].tag \cap suc = {}
        BY <1>1, <1>5, <3>2, <3>4
      <4>5. table'[y].tag = table[y].tag
        <5>1. ASSUME NEW z \in Opened \ D PROVE table'[z].tag = table[z].tag
          BY <1>4
        <5>2. QED
          BY <4>1, <5>1
      <4>6. QED
        BY <2>2, <3>2, <4>1, <4>3, <4>4, <4>5
    <3>5. QED
      BY <3>3, <3>4
  <2>5. QED
    BY <2>3, <2>4
<1>8. ASSUME D = {}, NEW k \in 0 .. w - 1, NEW i \in InFlight', i = FreeSlot(k)
      PROVE  PairTag(i)' = TagInForce(Cardinality({c \in B : c < k}))
  <2> DEFINE A2 == OpenAhead(i)'
             C == {c \in B : c < k}
             n == Cardinality(C)
  <2>1. PairTag(i)' = IF A2 = {} THEN {} ELSE table'[LastNext(A2)].tag
    <3>1. \A j : Age(j)' = AgeNext(j)
      BY DEF Age, AgeNext, AgeFrom
    <3>2. LastOf(OpenAhead(i))' = LastNext(OpenAhead(i)')
      BY <3>1 DEF LastOf, LastNext
    <3>3. QED
      BY <3>2 DEF PairTag
  <2>2. \A b \in 0 .. w - 1 : AgeNext(FreeSlot(b)) = used + b - Gone
    BY <1>1, <1>3
  <2>3. A2 = Opened \cup {FreeSlot(b) : b \in C}
    <3>1. A2 = {j \in Opened' : AgeNext(j) < AgeNext(i)}
      BY DEF OpenAhead, Age, AgeNext, AgeFrom
    <3>2. Opened' = Opened \cup {FreeSlot(b) : b \in B}
      BY <1>4, <1>8
    <3>3. AgeNext(i) = used + k - Gone
      BY <1>8, <2>2
    <3>4. ASSUME NEW j \in Opened PROVE AgeNext(j) < AgeNext(i)
      <4>1. AgeNext(j) = Age(j) - Gone /\ Age(j) \in Int /\ Age(j) < used
        BY <1>1, <1>3, <1>4, <1>8
      <4> HIDE DEF used
      <4>2. QED
        BY <1>1, <1>2, <3>3, <4>1
    <3>5. ASSUME NEW b \in B PROVE AgeNext(FreeSlot(b)) < AgeNext(i) <=> b < k
      <4>1. AgeNext(FreeSlot(b)) = used + b - Gone /\ b \in Nat /\ k \in Nat
        BY <1>2, <2>2
      <4> HIDE DEF used
      <4>2. QED
        BY <1>1, <3>3, <4>1
    <3>6. QED
      BY <3>1, <3>2, <3>4, <3>5
  <2>4. IsFiniteSet(B) /\ \A b \in B : b \in Int
    <3>1. IsFiniteSet(0 .. w - 1) /\ B \in SUBSET (0 .. w - 1)
      BY <1>2, FS_Interval
    <3>2. IsFiniteSet(B)
      BY <3>1, FS_Subset
    <3>3. QED
      BY <1>2, <3>2
  <2>5. IsFiniteSet(C) /\ n \in Nat
    BY <2>4, FS_Subset, FS_CardinalityType
  <2>6. CASE C = {}
    <3>1. n = 0 /\ A2 = Opened
      BY <2>3, <2>6, FS_EmptySet
    <3>2. TagInForce(n) = LastTag
      BY <3>1 DEF TagInForce
    <3>3. CASE Opened = {}
      <4>1. ~Outstanding
        BY <3>3, OpenTags DEF RobSound
      <4>2. QED
        BY <2>1, <3>1, <3>2, <3>3, <4>1 DEF LastTag
    <3>4. CASE Opened # {}
      <4> DEFINE y == LastOf(Opened)
      <4>1. y \in Opened /\ \A j \in Opened : Age(j) <= Age(y)
        BY <1>1, <3>4, LastIsYoungest
      <4> HIDE DEF y
      <4>2. LastTag = table[y].tag
        BY <4>1, OpenTags DEF RobSound
      <4>3. \A j \in Opened : AgeNext(j) <= AgeNext(y)
        BY <1>1, <1>3, <1>4, <1>8, <4>1
      <4>4. LastNext(Opened) = y
        BY <1>4, <1>6, <1>8, <4>1, <4>3
      <4>5. table'[y].tag = table[y].tag
        BY <1>4, <1>8, <4>1
      <4>6. QED
        BY <2>1, <3>1, <3>2, <3>4, <4>2, <4>4, <4>5
    <3>5. QED
      BY <3>3, <3>4
  <2>7. CASE C # {}
    <3>1. PICK b \in C : \A c \in C : c <= b
      <4>1. \A c \in C : c \in Int
        BY <2>4
      <4> HIDE DEF C
      <4>2. QED
        BY <2>5, <2>7, <4>1, HighestExists
    <3>2. b \in B /\ b < k /\ b \in 0 .. w - 1 /\ b \in Int
      BY <1>2
    <3>3. C \ {b} = {c \in B : c < b}
      <4>1. ASSUME NEW c \in B PROVE (c < k /\ c # b) <=> c < b
        <5>1. c \in Int /\ k \in Int /\ (c < k => c <= b)
          BY <1>2, <3>1
        <5>2. QED
          BY <3>2, <5>1
      <4>2. QED
        BY <4>1
    <3>4. Cardinality({c \in B : c < b}) = n - 1 /\ n # 0
      <4>1. Cardinality(C \ {b}) = Cardinality(C) - 1
        BY <2>5, <3>1, FS_RemoveElement
      <4>2. n # 0
        BY <2>5, <2>7, FS_EmptySet
      <4>3. QED
        BY <3>3, <4>1, <4>2
    <3>5. table'[FreeSlot(b)].tag = {RotateLeft(next_tag, n - 1)}
      <4>1. table'[FreeSlot(b)].tag = {RotateLeft(next_tag, Cardinality({c \in B : c < b}))}
        BY <3>2 DEF TagStep
      <4>2. QED
        BY <3>4, <4>1
    <3>6. TagInForce(n) = {RotateLeft(next_tag, n - 1)}
      BY <3>4 DEF TagInForce, TagAfter
    <3>7. FreeSlot(b) \in A2 /\ A2 \in SUBSET InFlight'
      BY <1>4, <2>3, <3>1 DEF OpenAhead
    <3>8. \A j \in A2 : AgeNext(j) <= AgeNext(FreeSlot(b))
      <4>1. AgeNext(FreeSlot(b)) = used + b - Gone /\ b \in Nat
        BY <2>2, <3>2
      <4>2. ASSUME NEW j \in Opened PROVE AgeNext(j) <= AgeNext(FreeSlot(b))
        <5>1. AgeNext(j) = Age(j) - Gone /\ Age(j) \in Int /\ Age(j) < used
          BY <1>1, <1>3, <1>4, <1>8, <4>2
        <5> HIDE DEF used
        <5>2. QED
          BY <1>1, <4>1, <5>1
      <4>3. ASSUME NEW c \in C PROVE AgeNext(FreeSlot(c)) <= AgeNext(FreeSlot(b))
        <5>1. AgeNext(FreeSlot(c)) = used + c - Gone /\ c \in Nat /\ c <= b
          BY <1>2, <2>2, <3>1
        <5> HIDE DEF used
        <5>2. QED
          BY <1>1, <4>1, <5>1
      <4>4. QED
        BY <2>3, <4>2, <4>3
    <3>9. LastNext(A2) = FreeSlot(b)
      <4>1. ASSUME NEW S, S = A2, NEW y, y = FreeSlot(b) PROVE LastNext(S) = y
        BY <1>6, <3>7, <3>8, <4>1
      <4>2. QED
        BY <4>1
    <3>10. QED
      BY <2>1, <3>5, <3>6, <3>7, <3>9
  <2>8. QED
    BY <2>6, <2>7
<1>9. QED
  BY <1>7, <1>8

(* A squash to the oldest open branch kills by its mask, the tags of every *)
(* open branch, exactly what stands behind it; no pair is left after.      *)
LEMMA PairsCut ==
    ASSUME RobSound, NEW i \in Opened, \A j \in Opened : Age(i) <= Age(j), Opened' = {},
           NEW kill,
           kill = UNION {table[j].tag : j \in {j \in Opened : Age(j) >= Age(i)}}
    PROVE  /\ \A j \in InFlight : PairTag(j) \cap kill # {} <=> Age(j) > Age(i)
           /\ \A j \in InFlight : PairTag(j) = {} <=> Age(j) <= Age(i)
           /\ \A j : PairTag(j)' = {}
<1>1. /\ RobTyped /\ Opened \subseteq InFlight
      /\ \A j \in InFlight : Age(j) \in Int
  <2>1. RobTyped /\ Opened \subseteq InFlight
    BY DEF RobSound, Opened
  <2>2. com_ptr \in Slots /\ \A j \in InFlight : j \in Slots
    BY <2>1 DEF RobTyped, InFlight
  <2>3. \A j \in Slots : Age(j) \in Int
    BY <2>2, SlotsAndAges, AgeIsFrom DEF Slots
  <2>4. QED
    BY <2>1, <2>2, <2>3
<1>2. \A j \in Opened : table[j].tag # {} /\ table[j].tag \subseteq kill
  <2>1. \A j \in Opened : \E t \in Tags : table[j].tag = {t}
    BY OpenTags DEF RobSound
  <2>2. {j \in Opened : Age(j) >= Age(i)} = Opened
    BY <1>1
  <2>3. QED
    BY <2>1, <2>2
<1>3. ASSUME NEW j \in InFlight
      PROVE  /\ PairTag(j) \cap kill # {} <=> Age(j) > Age(i)
             /\ PairTag(j) = {} <=> Age(j) <= Age(i)
  <2>1. CASE Age(j) > Age(i)
    <3>1. i \in OpenAhead(j) /\ OpenAhead(j) \in SUBSET InFlight
      BY <1>1, <2>1 DEF OpenAhead
    <3>2. LastOf(OpenAhead(j)) \in OpenAhead(j)
      BY <1>1, <3>1, LastIsYoungest
    <3>3. LastOf(OpenAhead(j)) \in Opened /\ PairTag(j) = table[LastOf(OpenAhead(j))].tag
      BY <3>1, <3>2 DEF PairTag, OpenAhead
    <3>4. PairTag(j) # {} /\ PairTag(j) \subseteq kill
      BY <1>2, <3>3
    <3>5. QED
      BY <1>1, <2>1, <3>4
  <2>2. CASE ~(Age(j) > Age(i))
    <3>1. OpenAhead(j) = {}
      BY <1>1, <2>2 DEF OpenAhead
    <3>2. PairTag(j) = {}
      BY <3>1 DEF PairTag
    <3>3. QED
      BY <1>1, <2>2, <3>2
  <2>3. QED
    BY <2>1, <2>2
<1>4. ASSUME NEW j PROVE PairTag(j)' = {}
  <2>1. OpenAhead(j)' = {}
    BY DEF OpenAhead
  <2>2. QED
    BY <2>1 DEF PairTag
<1>5. QED
  BY <1>3, <1>4
=============================================================================
