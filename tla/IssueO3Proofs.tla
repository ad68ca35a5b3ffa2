--------------------------- MODULE IssueO3Proofs ---------------------------
(***************************************************************************)
(* Proofs about IssueO3, for every size of the ring, the station and the   *)
(* stamps, every number of units and every set of micro-operations.        *)
(***************************************************************************)
EXTENDS IssueO3, RobFacts, WellFoundedInduction

-----------------------------------------------------------------------------
(* Stamps.                                                                 *)

LastTrack == 2^TrackWidth - 1

(* A stamp is a number below a power of two, which counts the subsets of a *)
(* set of as many bits.                                                    *)
LEMMA StampsAreCounted == LastTrack \in Nat /\ Tracks = 0 .. LastTrack
<1> DEFINE bits == 1 .. TrackWidth
<1>1. IsFiniteSet(bits) /\ Cardinality(bits) = TrackWidth /\ TrackWidth \in Nat
  BY RsvO3Assumption, FS_Interval
<1> HIDE DEF bits
<1>2. IsFiniteSet(SUBSET bits) /\ Cardinality(SUBSET bits) = 2^TrackWidth
  BY <1>1, FS_SUBSET
<1>3. Cardinality(SUBSET bits) \in Nat /\ Cardinality(SUBSET bits) # 0
  <2>1. {} \in SUBSET bits
    OBVIOUS
  <2>2. QED
    BY <1>2, <2>1, FS_CardinalityType, FS_EmptySet
<1>4. 2^TrackWidth \in Nat \ {0}
  BY <1>2, <1>3
<1>5. QED
  BY <1>4 DEF LastTrack, Tracks

-----------------------------------------------------------------------------
(* What the units pick.                                                    *)

(* The rows the first units pick: a fold over the units, each seeing what  *)
(* the ones before it have claimed.                                        *)
Claimed == CHOOSE c : c = [k \in 0 .. UnitCnt |->
    IF k = 0 THEN {}
    ELSE c[k - 1] \cup (IF Issuable(k) \ c[k - 1] = {} THEN {}
                        ELSE {PickOldest(Issuable(k) \ c[k - 1])})]

(* What unit u picks is what the claims of the units up to u add.          *)
LEMMA PickIsClaim == \A u : Pick(u) = Claimed[u] \ Claimed[u - 1]
BY DEF Pick, Claimed

(* The fold exists: if some prefix of the units had none, so would the     *)
(* shortest such prefix, and one more step can always be taken.            *)
LEMMA ClaimSteps ==
    /\ Claimed[0] = {}
    /\ \A k \in Units :
          Claimed[k] = Claimed[k - 1] \cup
                         (IF Issuable(k) \ Claimed[k - 1] = {} THEN {}
                          ELSE {PickOldest(Issuable(k) \ Claimed[k - 1])})
<1> DEFINE Step(k, s) == s \cup (IF Issuable(k) \ s = {} THEN {}
                                 ELSE {PickOldest(Issuable(k) \ s)})
           Fold(c, n) == c = [k \in 0 .. n |-> IF k = 0 THEN {} ELSE Step(k, c[k - 1])]
           Bad == {n \in 0 .. UnitCnt : ~ \E c : Fold(c, n)}
<1>1. UnitCnt \in Nat
  BY RsvO3Assumption
<1>2. Bad = {}
  <2>1. SUFFICES ASSUME Bad # {} PROVE FALSE
    OBVIOUS
  <2>2. PICK n \in Bad : \A m \in Bad : <<m, n>> \notin OpToRel(<, Nat)
    <3>1. IsWellFoundedOn(OpToRel(<, Nat), Nat)
      BY NatLessThanWellFounded
    <3>2. Bad \subseteq Nat
      BY <1>1
    <3> HIDE DEF Bad
    <3>3. QED
      BY <2>1, <3>1, <3>2, WFMin
  <2>3. n \in Nat /\ n <= UnitCnt /\ ~ \E c : Fold(c, n)
    <3> HIDE DEF Fold
    <3>1. QED
      BY <1>1
  <2>4. CASE n = 0
    <3>1. Fold([k \in 0 .. 0 |-> {}], 0)
      OBVIOUS
    <3>2. QED
      BY <2>3, <2>4, <3>1
  <2>5. CASE n # 0
    <3>1. n - 1 \in Nat /\ n - 1 < n /\ n - 1 \in 0 .. UnitCnt
      BY <1>1, <2>3, <2>5
    <3>2. n - 1 \notin Bad
      BY <2>2, <2>3, <3>1 DEF OpToRel
    <3>3. PICK c : Fold(c, n - 1)
      BY <3>1, <3>2
    <3> DEFINE d == [k \in 0 .. n |-> IF k = n THEN Step(n, c[n - 1]) ELSE c[k]]
    <3>4. ASSUME NEW k \in 0 .. n
          PROVE  d[k] = IF k = 0 THEN {} ELSE Step(k, d[k - 1])
      <4>1. CASE k = n
        <5>1. d[n - 1] = c[n - 1] /\ d[k] = Step(n, c[n - 1]) /\ k # 0
          BY <2>3, <2>5, <3>1, <4>1
        <5> HIDE DEF Step, d
        <5>2. QED
          BY <4>1, <5>1
      <4>2. CASE k # n
        <5>1. k \in 0 .. n - 1 /\ d[k] = c[k] /\ (k # 0 => k - 1 \in 0 .. n /\ k - 1 # n)
          BY <2>3, <3>1, <4>2
        <5>2. c[k] = IF k = 0 THEN {} ELSE Step(k, c[k - 1])
          BY <3>3, <5>1
        <5>3. k # 0 => d[k - 1] = c[k - 1]
          BY <5>1
        <5> HIDE DEF Step, d
        <5>4. QED
          BY <5>1, <5>2, <5>3
      <4>3. QED
        BY <4>1, <4>2
    <3>5. Fold(d, n)
      <4> HIDE DEF Step
      <4>1. d = [k \in 0 .. n |-> d[k]]
        OBVIOUS
      <4> HIDE DEF d
      <4>2. QED
        BY <3>4, <4>1
    <3>6. QED
      BY <2>3, <3>5
  <2>6. QED
    BY <2>4, <2>5
<1>3. \E c : Fold(c, UnitCnt)
  <2> HIDE DEF Fold
  <2>1. QED
    BY <1>1, <1>2
<1>4. Fold(Claimed, UnitCnt)
  BY <1>3 DEF Claimed
<1>5. QED
  <2>1. ASSUME NEW c, Fold(c, UnitCnt), NEW k \in 0 .. UnitCnt
        PROVE  c[k] = IF k = 0 THEN {} ELSE Step(k, c[k - 1])
    <3> HIDE DEF Step
    <3>1. QED
      BY <2>1
  <2> HIDE DEF Step, Fold
  <2>2. \A k \in 0 .. UnitCnt : Claimed[k] = IF k = 0 THEN {} ELSE Step(k, Claimed[k - 1])
    BY <1>4, <2>1
  <2>3. Claimed[0] = {} /\ \A k \in Units : Claimed[k] = Step(k, Claimed[k - 1])
    BY <1>1, <2>2 DEF Units
  <2>4. QED
    BY <2>3 DEF Step

(* A typed station: its occupied rows are whole records.                   *)
StationTyped == o3 \in [O3Slots -> O3Row \cup {NoRow}] /\ track_ptr \in Tracks

(* Occupied entries are whole records, and every other entry is blank.     *)
LEMMA HeldIsTyped ==
    ASSUME StationTyped
    PROVE  /\ Held \subseteq O3Slots /\ Free \subseteq O3Slots
           /\ \A k \in Held :
                 /\ o3[k] \in O3Row /\ o3[k].valid
                 /\ o3[k].kind \in Kinds /\ o3[k].rob_des_idx \in Slots
                 /\ o3[k].pr \in Slots \cup {Nobody} /\ o3[k].ready \in BOOLEAN
                 /\ o3[k].is_spec \in BOOLEAN /\ o3[k].spec_tag \in SUBSET Tags
                 /\ o3[k].is_lower \in BOOLEAN /\ o3[k].track \in Tracks
           /\ \A k \in O3Slots \ Held : o3[k] = NoRow
<1>1. Held \subseteq O3Slots /\ Free \subseteq O3Slots
  BY DEF Held, Free
<1>2. ASSUME NEW k \in O3Slots
      PROVE  /\ k \in Held => o3[k] \in O3Row
             /\ k \notin Held => o3[k] = NoRow
  <2>1. o3[k] \in O3Row \/ o3[k] = NoRow
    BY DEF StationTyped
  <2>2. o3[k] \in O3Row => o3[k].valid
    BY DEF O3Row
  <2>3. o3[k] = NoRow => ~o3[k].valid
    BY DEF NoRow
  <2>4. QED
    BY <2>1, <2>2, <2>3 DEF Held
<1>3. \A e \in O3Row : /\ e.valid
                       /\ e.kind \in Kinds /\ e.rob_des_idx \in Slots
                       /\ e.pr \in Slots \cup {Nobody} /\ e.ready \in BOOLEAN
                       /\ e.is_spec \in BOOLEAN /\ e.spec_tag \in SUBSET Tags
                       /\ e.is_lower \in BOOLEAN /\ e.track \in Tracks
  BY DEF O3Row
<1>4. QED
  BY <1>1, <1>2, <1>3

(* Among rows that are occupied the fold has a winner: of the smallest     *)
(* stamps, a wrap behind counting as smaller, the highest row.             *)
LEMMA OldestIsPicked ==
    ASSUME StationTyped, NEW S \in SUBSET Held, S # {}
    PROVE  /\ PickOldest(S) \in S
           /\ \A j \in S : \/ Older(PickOldest(S), j)
                           \/ ~Older(j, PickOldest(S)) /\ j <= PickOldest(S)
<1> DEFINE stamp(i) == (IF o3[i].is_lower THEN 0 ELSE LastTrack + 1) + o3[i].track
           stamps == {-stamp(i) : i \in S}
<1>1. /\ S \subseteq O3Slots /\ IsFiniteSet(S) /\ \A i \in S : i \in Int
      /\ \A i \in S : o3[i].is_lower \in BOOLEAN /\ o3[i].track \in 0 .. LastTrack
  <2>1. S \subseteq O3Slots /\ \A i \in S : o3[i].is_lower \in BOOLEAN /\ o3[i].track \in 0 .. LastTrack
    BY HeldIsTyped, StampsAreCounted
  <2>2. IsFiniteSet(O3Slots) /\ O3Slots \subseteq Int
    BY RsvO3Assumption, FS_Interval DEF O3Slots
  <2>3. QED
    BY <2>1, <2>2, FS_Subset
<1>2. \A i \in S : stamp(i) \in Nat
  BY <1>1, StampsAreCounted
<1>3. \A i, j \in S : Older(i, j) <=> stamp(i) < stamp(j)
  <2>1. SUFFICES ASSUME NEW i \in S, NEW j \in S PROVE Older(i, j) <=> stamp(i) < stamp(j)
    OBVIOUS
  <2>2. /\ o3[i].is_lower \in BOOLEAN /\ o3[j].is_lower \in BOOLEAN
        /\ o3[i].track \in 0 .. LastTrack /\ o3[j].track \in 0 .. LastTrack
        /\ LastTrack \in Nat
    BY <1>1, StampsAreCounted
  <2>3. stamp(i) = (IF o3[i].is_lower THEN 0 ELSE LastTrack + 1) + o3[i].track
        /\ stamp(j) = (IF o3[j].is_lower THEN 0 ELSE LastTrack + 1) + o3[j].track
    OBVIOUS
  <2> HIDE DEF stamp
  <2>4. CASE o3[i].is_lower = o3[j].is_lower
    <3>1. Older(i, j) <=> o3[i].track < o3[j].track
      BY <2>4, Zenon DEF Older
    <3>2. stamp(i) < stamp(j) <=> o3[i].track < o3[j].track
      BY <2>2, <2>3, <2>4
    <3>3. QED
      BY <3>1, <3>2
  <2>5. CASE o3[i].is_lower # o3[j].is_lower
    <3>1. Older(i, j) <=> o3[i].is_lower
      BY <2>2, <2>5, Zenon DEF Older
    <3>2. o3[i].is_lower <=> ~o3[j].is_lower
      BY <2>2, <2>5, Zenon
    <3>3. CASE o3[i].is_lower
      BY <2>2, <2>3, <3>1, <3>2, <3>3
    <3>4. CASE ~o3[i].is_lower
      BY <2>2, <2>3, <3>1, <3>2, <3>4
    <3>5. QED
      BY <3>3, <3>4
  <2>6. QED
    BY <2>4, <2>5
<1>4. PICK i \in S : \A j \in S : stamp(i) <= stamp(j)
  <2>1. IsFiniteSet(stamps)
    <3> DEFINE f == [i \in S |-> -stamp(i)]
    <3>1. f \in Surjection(S, stamps)
      BY DEF Surjection
    <3>2. QED
      BY <1>1, <3>1, FS_Surjection
  <2>2. stamps # {} /\ \A x \in stamps : x \in Int
    BY <1>2
  <2>3. \E x \in stamps : \A y \in stamps : y <= x
    <3> HIDE DEF stamps
    <3>1. QED
      BY <2>1, <2>2, HighestExists
  <2>4. \E i \in S : \A j \in S : -stamp(j) <= -stamp(i)
    BY <2>3
  <2> HIDE DEF stamp
  <2>5. QED
    BY <1>2, <2>4
<1> DEFINE Firsts == {j \in S : stamp(j) = stamp(i)}
<1>5. PICK h \in Firsts : \A j \in Firsts : j <= h
  <2>1. Firsts \subseteq S /\ i \in Firsts /\ IsFiniteSet(Firsts)
    BY <1>1, FS_Subset
  <2>2. \A x \in Firsts : x \in Int
    BY <1>1, <2>1
  <2> HIDE DEF Firsts
  <2>3. QED
    BY <2>1, <2>2, HighestExists
<1>6. \A j \in S : Older(h, j) \/ (~Older(j, h) /\ j <= h)
  <2>1. SUFFICES ASSUME NEW j \in S PROVE Older(h, j) \/ (~Older(j, h) /\ j <= h)
    OBVIOUS
  <2>2. stamp(h) = stamp(i) /\ stamp(i) <= stamp(j) /\ (stamp(j) = stamp(i) => j <= h)
    BY <1>4, <1>5
  <2>3. h \in S /\ stamp(h) \in Nat /\ stamp(j) \in Nat
    BY <1>2
  <2> HIDE DEF stamp
  <2>4. QED
    BY <1>3, <2>2, <2>3
<1>7. QED
  BY <1>6 DEF PickOldest

(* Each unit picks at most one ready row that it can run, no two the same  *)
(* one, and it picks the oldest that the units before it leave.            *)
LEMMA Picks ==
    ASSUME StationTyped
    PROVE  /\ \A u \in Units : Pick(u) \subseteq Issuable(u)
           /\ \A u \in Units : \A i, j \in Pick(u) : i = j
           /\ \A u, v \in Units : u # v => Pick(u) \cap Pick(v) = {}
           /\ \A u \in Units : \A e \in Pick(u) :
                 /\ Claimed[u - 1] = UNION {Pick(v) : v \in 1 .. u - 1}
                 /\ e = PickOldest(Issuable(u) \ Claimed[u - 1])
                 /\ e \in Issuable(u) \ Claimed[u - 1]
<1> DEFINE Open(u) == Issuable(u) \ Claimed[u - 1]
           Upto(n) == UNION {Pick(v) : v \in 1 .. n}
<1>1. UnitCnt \in Nat /\ Units = 1 .. UnitCnt
  BY RsvO3Assumption DEF Units
<1>2. ASSUME NEW u \in Units, Open(u) # {}
      PROVE  PickOldest(Open(u)) \in Open(u)
  <2>1. Open(u) \in SUBSET Held
    BY DEF Issuable, SlotReady, Held
  <2> HIDE DEF Open
  <2>2. QED
    BY <1>2, <2>1, OldestIsPicked
<1>3. ASSUME NEW u \in Units
      PROVE  /\ Pick(u) = IF Open(u) = {} THEN {} ELSE {PickOldest(Open(u))}
             /\ Claimed[u] = Claimed[u - 1] \cup Pick(u)
             /\ Pick(u) \cap Claimed[u - 1] = {} /\ Pick(u) \subseteq Issuable(u)
  <2>1. Claimed[u] = Claimed[u - 1] \cup (IF Open(u) = {} THEN {} ELSE {PickOldest(Open(u))})
    BY ClaimSteps
  <2>2. Pick(u) = Claimed[u] \ Claimed[u - 1]
    BY PickIsClaim
  <2>3. CASE Open(u) = {}
    <3> HIDE DEF Open
    <3>1. QED
      BY <2>1, <2>2, <2>3
  <2>4. CASE Open(u) # {}
    <3>1. PickOldest(Open(u)) \in Issuable(u) /\ PickOldest(Open(u)) \notin Claimed[u - 1]
      BY <1>2, <2>4
    <3> HIDE DEF Open
    <3>2. QED
      BY <2>1, <2>2, <2>4, <3>1
  <2>5. QED
    BY <2>3, <2>4
<1>4. \A n \in 0 .. UnitCnt : Claimed[n] = Upto(n)
  <2> DEFINE Bad == {n \in 0 .. UnitCnt : Claimed[n] # Upto(n)}
  <2>1. SUFFICES ASSUME Bad # {} PROVE FALSE
    OBVIOUS
  <2>2. PICK n \in Bad : \A m \in Bad : <<m, n>> \notin OpToRel(<, Nat)
    <3>1. IsWellFoundedOn(OpToRel(<, Nat), Nat)
      BY NatLessThanWellFounded
    <3>2. Bad \subseteq Nat
      BY <1>1
    <3> HIDE DEF Bad
    <3>3. QED
      BY <2>1, <3>1, <3>2, WFMin
  <2>3. n \in 0 .. UnitCnt /\ Claimed[n] # Upto(n)
    OBVIOUS
  <2>4. CASE n = 0
    <3>1. Upto(0) = {}
      OBVIOUS
    <3>2. QED
      BY <2>3, <2>4, <3>1, ClaimSteps
  <2>5. CASE n # 0
    <3>1. n - 1 \in Nat /\ n - 1 < n /\ n - 1 \in 0 .. UnitCnt /\ n \in Units /\ n \in Nat
      BY <1>1, <2>3, <2>5
    <3>2. Claimed[n - 1] = Upto(n - 1)
      BY <2>2, <3>1 DEF OpToRel
    <3>3. Claimed[n] = Claimed[n - 1] \cup Pick(n)
      BY <1>3, <3>1
    <3>4. Upto(n) = Upto(n - 1) \cup Pick(n)
      <4>1. 1 .. n = (1 .. n - 1) \cup {n}
        BY <3>1
      <4>2. QED
        BY <4>1
    <3>5. QED
      BY <2>3, <3>2, <3>3, <3>4
  <2>6. QED
    BY <2>4, <2>5
<1>5. ASSUME NEW u \in Units, NEW v \in Units, u # v PROVE Pick(u) \cap Pick(v) = {}
  <2>1. ASSUME NEW x \in Units, NEW y \in Units, x < y PROVE Pick(x) \cap Pick(y) = {}
    <3>1. y - 1 \in 0 .. UnitCnt /\ x \in 1 .. y - 1
      BY <1>1, <2>1
    <3>2. Pick(x) \subseteq Claimed[y - 1]
      BY <1>4, <3>1
    <3>3. QED
      BY <1>3, <3>2
  <2>2. u < v \/ v < u
    BY <1>1, <1>5
  <2>3. QED
    BY <2>1, <2>2
<1>6. ASSUME NEW u \in Units, NEW e \in Pick(u)
      PROVE  /\ Claimed[u - 1] = Upto(u - 1)
             /\ e = PickOldest(Open(u)) /\ e \in Open(u)
  <2>1. u - 1 \in 0 .. UnitCnt
    BY <1>1
  <2>2. e = PickOldest(Open(u)) /\ Open(u) # {}
    <3> HIDE DEF Open
    <3>1. QED
      BY <1>3
  <2>3. Claimed[u - 1] = Upto(u - 1)
    BY <1>4, <2>1
  <2>4. QED
    BY <1>2, <2>2, <2>3
<1>7. \A u \in Units : \A i, j \in Pick(u) : i = j
  <2> HIDE DEF Open
  <2>1. QED
    BY <1>3
<1>8. QED
  BY <1>3, <1>5, <1>6, <1>7

(* The rows the lanes take are free ones, each its own.                    *)
LEMMA Ports ==
    ASSUME StationTyped, NEW n \in Nat, O3Fits(n)
    PROVE  /\ \A k \in 1 .. n : PortRow(k) \in Free
           /\ \A j, k \in 1 .. n : PortRow(j) = PortRow(k) => j = k
<1> DEFINE num(i) == Cardinality({j \in Free : j < i})
<1>1. IsFiniteSet(Free) /\ Cardinality(Free) \in Nat /\ \A i \in Free : i \in Int
  <2>1. Free \in SUBSET O3Slots /\ IsFiniteSet(O3Slots) /\ O3Slots \subseteq Int
    BY HeldIsTyped, RsvO3Assumption, FS_Interval DEF O3Slots
  <2>2. QED
    BY <2>1, FS_Subset, FS_CardinalityType
<1>2. \A m \in 0 .. Cardinality(Free) - 1 : \E i \in Free : num(i) = m
  BY <1>1, Numbering
<1>3. ASSUME NEW k \in 1 .. n PROVE PortRow(k) \in Free /\ num(PortRow(k)) = k - 1
  <2>1. k - 1 \in 0 .. Cardinality(Free) - 1
    BY <1>1 DEF O3Fits
  <2>2. \E i \in Free : num(i) = k - 1
    BY <1>2, <2>1
  <2>3. QED
    BY <2>2 DEF PortRow
<1>4. ASSUME NEW j \in 1 .. n, NEW k \in 1 .. n, PortRow(j) = PortRow(k) PROVE j = k
  <2>1. num(PortRow(j)) = j - 1 /\ num(PortRow(k)) = k - 1
    BY <1>3
  <2> HIDE DEF num
  <2>2. j - 1 = k - 1
    BY <1>4, <2>1
  <2>3. QED
    BY <2>2
<1>5. QED
  BY <1>3, <1>4

-----------------------------------------------------------------------------
(* The lanes of a group.                                                   *)

(* What a lane holds is told by its instruction: a branch or something for *)
(* the station, and never a store.                                         *)
LEMMA LaneKinds ==
    ASSUME NEW g \in Landing
    PROVE  /\ g \in Groups
           /\ Valid(g) \in SUBSET Lanes /\ Branches(g) \in SUBSET Valid(g)
           /\ Aimed(g) \in SUBSET Valid(g) /\ Aimed(g) = Valid(g) \ Branches(g)
           /\ \A l \in Valid(g) : g[l] \in Uops /\ g[l] # NoUop
           /\ \A l \in Valid(g) : l \in Branches(g) <=> g[l].is_branch
           /\ \A l \in Aimed(g) : g[l].kind \in Kinds /\ g[l].waits \in BOOLEAN
           /\ g = NoGroup => Valid(g) = {}
<1>1. NoGroup \in Groups
  BY DEF NoGroup, Groups
<1>2. g \in Groups
  BY <1>1 DEF Landing
<1>3. \A l \in Lanes : g[l] \in Uops \cup {NoUop}
  BY <1>2 DEF Groups
<1>4. ~NoUop.is_branch
  BY DEF NoUop
<1>5. \A l \in Branches(g) : g[l] # NoUop
  BY <1>4 DEF Branches
<1>6. ASSUME NEW l \in Aimed(g) PROVE g[l].kind \in Kinds /\ g[l].waits \in BOOLEAN
  <2>1. g[l] \in Uop /\ ~g[l].is_branch
    BY <1>3, <1>6, IssueO3Assumption DEF Aimed, Valid, Branches
  <2>2. QED
    BY <2>1 DEF Uop
<1>7. g = NoGroup => Valid(g) = {}
  BY DEF NoGroup, Valid
<1>8. QED
  BY <1>2, <1>3, <1>5, <1>6, <1>7 DEF Valid, Branches, Aimed

(* Lanes of any kind are numbered in order, without gaps.                  *)
LEMMA LaneNumbers ==
    ASSUME NEW S \in SUBSET Lanes
    PROVE  /\ IsFiniteSet(S) /\ Cardinality(S) \in Nat
           /\ \A x \in S : x \in Nat /\ Before(S, x) \in 0 .. Cardinality(S) - 1
           /\ \A x, z \in S : x < z <=> Before(S, x) < Before(S, z)
           /\ \A x, z \in S : Before(S, x) = Before(S, z) => x = z
           /\ \A n \in 0 .. Cardinality(S) - 1 : \E x \in S : Before(S, x) = n
<1>1. FeLanes \in Nat
  BY IssueO3Assumption, RobAssumption
<1>2. IsFiniteSet(Lanes) /\ \A x \in S : x \in Nat /\ x \in Int
  BY <1>1, FS_Interval DEF Lanes
<1>3. IsFiniteSet(S)
  BY <1>2, FS_Subset
<1>4. /\ Cardinality(S) \in Nat
      /\ \A x \in S : Before(S, x) \in 0 .. Cardinality(S) - 1
      /\ \A x \in S, z \in Int : x < z => Before(S, x) < Before(S, z)
      /\ \A n \in 0 .. Cardinality(S) - 1 : \E x \in S : Before(S, x) = n
  BY <1>2, <1>3, Numbering DEF Before
<1>5. ASSUME NEW x \in S, NEW z \in S
      PROVE  /\ x < z <=> Before(S, x) < Before(S, z)
             /\ Before(S, x) = Before(S, z) => x = z
  <2>1. /\ x \in Int /\ z \in Int /\ Before(S, x) \in Int /\ Before(S, z) \in Int
        /\ x < z => Before(S, x) < Before(S, z)
        /\ z < x => Before(S, z) < Before(S, x)
    BY <1>2, <1>4
  <2>2. x = z => Before(S, x) = Before(S, z)
    OBVIOUS
  <2>3. QED
    BY <2>1, <2>2
<1>6. QED
  BY <1>2, <1>3, <1>4, <1>5

(* The entry the port of a lane writes. *)
Port(g, l) == PortRow(Before(Aimed(g), l) + 1)

(* The entries of a group are those of its lanes that are aimed here, and  *)
(* each lane has its port.                                                 *)
LEMMA EntriesOfLanes ==
    ASSUME StationTyped, NEW g \in Landing, NEW written
    PROVE  /\ Entries(g, written) = << >> <=> Aimed(g) = {}
           /\ \A k \in DOMAIN Entries(g, written) :
                 \E l \in Aimed(g) : k = Before(Aimed(g), l) + 1
           /\ \A l \in Aimed(g) :
                 /\ Before(Aimed(g), l) + 1 \in DOMAIN Entries(g, written)
                 /\ Entries(g, written)[Before(Aimed(g), l) + 1] = Entry(g, l, written)
           /\ \A l \in Aimed(g) : Port(g, l) \in Free
           /\ \A l, m \in Aimed(g) : Port(g, l) = Port(g, m) => l = m
           /\ \A k, j \in DOMAIN Entries(g, written) : PortRow(k) = PortRow(j) => k = j
<1> DEFINE n == Cardinality(Aimed(g))
           num(l) == Before(Aimed(g), l)
<1>1. Aimed(g) \in SUBSET Lanes
  BY LaneKinds
<1>2. /\ IsFiniteSet(Aimed(g)) /\ n \in Nat
      /\ \A l \in Aimed(g) : num(l) \in 0 .. n - 1
      /\ \A l, m \in Aimed(g) : num(l) = num(m) => l = m
      /\ \A j \in 0 .. n - 1 : \E l \in Aimed(g) : num(l) = j
  BY <1>1, LaneNumbers
<1>3. n = 0 <=> Aimed(g) = {}
  BY <1>2, FS_EmptySet
<1>4. O3Fits(n)
  <2>1. CASE g = NoGroup
    <3>1. n = 0
      BY <2>1, <1>3, LaneKinds
    <3>2. IsFiniteSet(Free) /\ Cardinality(Free) \in Nat
      <4>1. Free \in SUBSET O3Slots /\ IsFiniteSet(O3Slots)
        BY HeldIsTyped, RsvO3Assumption, FS_Interval DEF O3Slots
      <4>2. QED
        BY <4>1, FS_Subset, FS_CardinalityType
    <3>3. QED
      BY <3>1, <3>2 DEF O3Fits
  <2>2. CASE g # NoGroup
    BY <2>2 DEF Landing, ReadyToGo
  <2>3. QED
    BY <2>1, <2>2
<1>5. /\ DOMAIN Entries(g, written) = 1 .. n
      /\ \A k \in 1 .. n : Entries(g, written)[k]
                              = Entry(g, CHOOSE l \in Aimed(g) : num(l) = k - 1, written)
  BY DEF Entries
<1> HIDE DEF num, n
<1>6. ASSUME NEW l \in Aimed(g)
      PROVE  num(l) + 1 \in 1 .. n /\ (CHOOSE m \in Aimed(g) : num(m) = (num(l) + 1) - 1) = l
  <2>1. num(l) \in 0 .. n - 1 /\ (num(l) + 1) - 1 = num(l)
    BY <1>2
  <2>2. (CHOOSE m \in Aimed(g) : num(m) = num(l)) = l
    BY <1>2
  <2>3. QED
    BY <1>2, <2>1, <2>2
<1>7. \A l \in Aimed(g) : Entries(g, written)[num(l) + 1] = Entry(g, l, written)
  BY <1>5, <1>6
<1>8. /\ \A k \in 1 .. n : PortRow(k) \in Free
      /\ \A j, k \in 1 .. n : PortRow(j) = PortRow(k) => j = k
  BY <1>2, <1>4, Ports
<1>9. \A k \in 1 .. n : \E l \in Aimed(g) : k = num(l) + 1
  <2>1. SUFFICES ASSUME NEW k \in 1 .. n PROVE \E l \in Aimed(g) : k = num(l) + 1
    OBVIOUS
  <2>2. k - 1 \in 0 .. n - 1
    BY <1>2
  <2>3. PICK l \in Aimed(g) : num(l) = k - 1
    BY <1>2, <2>2
  <2>4. QED
    BY <2>3
<1>10. \A l, m \in Aimed(g) : Port(g, l) = Port(g, m) => l = m
  <2>1. SUFFICES ASSUME NEW l \in Aimed(g), NEW m \in Aimed(g), Port(g, l) = Port(g, m)
                 PROVE  l = m
    OBVIOUS
  <2>2. num(l) + 1 = num(m) + 1
    BY <1>6, <1>8, <2>1 DEF Port, num
  <2>3. num(l) \in Nat /\ num(m) \in Nat
    BY <1>2
  <2>4. QED
    BY <1>2, <2>2, <2>3
<1>11. Entries(g, written) = << >> <=> Aimed(g) = {}
  <2>1. Entries(g, written) = [k \in 1 .. n |->
            Entry(g, CHOOSE l \in Aimed(g) : num(l) = k - 1, written)]
    BY DEF Entries, n, num
  <2>2. n = 0 <=> 1 .. n = {}
    BY <1>2
  <2>3. Entries(g, written) = << >> <=> DOMAIN Entries(g, written) = {}
    <3>1. ASSUME NEW f, f = [k \in DOMAIN f |-> f[k]] PROVE f = << >> <=> DOMAIN f = {}
      BY <3>1
    <3>2. Entries(g, written) = [k \in DOMAIN Entries(g, written) |-> Entries(g, written)[k]]
      <4>1. ASSUME NEW f, NEW S, NEW h, h = [k \in S |-> f[k]]
            PROVE  h = [k \in DOMAIN h |-> h[k]]
        BY <4>1
      <4>2. QED
        BY <1>5, <2>1
    <3>3. QED
      BY <3>1, <3>2
  <2>4. QED
    BY <1>3, <1>5, <2>2, <2>3
<1>12. QED
  BY <1>5, <1>6, <1>7, <1>8, <1>9, <1>10, <1>11 DEF Port, num

-----------------------------------------------------------------------------
(* The invariant.                                                          *)

(* The rows the station or a unit still answers for.                       *)
Waits == Unfinished \ Opened

EntryOf(k) == o3[k].rob_des_idx
RunBy(u) == exec[u].rob_des_idx

RowsAreWhole == \A i \in InFlight : table[i].uop \in Uops

(* Entries and running records are the waiting rows, one to one, and each  *)
(* is of its row's kind.                                                   *)
Placed ==
    /\ \A k \in Held : EntryOf(k) \in Waits /\ o3[k].kind = table[EntryOf(k)].uop.kind
    /\ \A u \in Busy : /\ RunBy(u) \in Waits
                       /\ exec[u].kind = table[RunBy(u)].uop.kind
                       /\ exec[u].kind \in Runs[u]
    /\ \A i \in Waits : (\E k \in Held : EntryOf(k) = i) \/ (\E u \in Busy : RunBy(u) = i)
    /\ \A j, k \in Held : EntryOf(j) = EntryOf(k) => j = k
    /\ \A u, v \in Busy : RunBy(u) = RunBy(v) => u = v
    /\ \A k \in Held, u \in Busy : EntryOf(k) # RunBy(u)

(* The result row i reads exists, if it reads one.                         *)
Sourced(i) == ~table[i].uop.waits \/ Ahead(i) = {} \/ table[LastOf(Ahead(i))].wb_fin

SourcesSound ==
    /\ \A k \in Held : /\ o3[k].ready <=> Sourced(EntryOf(k))
                       /\ ~o3[k].ready => o3[k].pr = LastOf(Ahead(EntryOf(k)))
    /\ \A u \in Busy : Sourced(RunBy(u))

Follows(rec) ==
    rec.spec_tag = PairTag(rec.rob_des_idx) /\ (rec.is_spec <=> rec.spec_tag # {})

PairsSound == (\A k \in Held : Follows(o3[k])) /\ (\A u \in Busy : Follows(exec[u]))

(* In the epoch of the counter every stamp is below it, but for the last   *)
(* stamp of the epoch before; and along the program no entry is a wrap     *)
(* ahead of an older one, or has a smaller stamp in the same epoch.        *)
StampsSound ==
    /\ \A k \in Held : \/ o3[k].is_lower
                       \/ o3[k].track < track_ptr
                       \/ o3[k].track = LastTrack
    /\ \A x, e \in Held : Age(EntryOf(x)) < Age(EntryOf(e)) =>
          /\ o3[e].is_lower => o3[x].is_lower
          /\ o3[x].is_lower \/ o3[x].track <= o3[e].track \/ o3[x].track = LastTrack

RowsSound == alloc_ptr = SlotAt(used_entry_cnt) /\ TagsAreRing /\ RowsAreWhole

IInv == TypeOK /\ RowsSound /\ Placed /\ SourcesSound /\ PairsSound /\ StampsSound

(* What the proofs below use of the types.                                 *)
LEMMA Typed ==
    ASSUME TypeOK
    PROVE  /\ RobTyped /\ TagsTyped /\ StationTyped
           /\ InFlight \subseteq Slots /\ Opened = OpenBranches /\ Opened \subseteq Unfinished
           /\ Unfinished \subseteq InFlight
           /\ \A i \in Slots : /\ table[i].uop \in Uops \cup {NoUop}
                               /\ table[i].tag \in SUBSET Tags /\ table[i].wb_fin \in BOOLEAN
                               /\ DOMAIN table[i] = {"uop", "tag", "wb_fin"}
           /\ Busy \subseteq Units
           /\ \A u \in Busy : /\ exec[u] \in Record
                              /\ exec[u].kind \in Kinds /\ exec[u].rob_des_idx \in Slots
                              /\ exec[u].is_spec \in BOOLEAN /\ exec[u].spec_tag \in SUBSET Tags
<1>1. RobTyped /\ TagsTyped /\ StationTyped
  BY DEF TypeOK, RobTyped, TagsTyped, StationTyped
<1>2. /\ InFlight \subseteq Slots /\ Opened = OpenBranches /\ Opened \subseteq Unfinished
      /\ Unfinished \subseteq InFlight
  BY DEF InFlight, Opened, OpenBranches, Unfinished
<1>3. ASSUME NEW i \in Slots
      PROVE  /\ table[i].uop \in Uops \cup {NoUop}
             /\ table[i].tag \in SUBSET Tags /\ table[i].wb_fin \in BOOLEAN
             /\ DOMAIN table[i] = {"uop", "tag", "wb_fin"}
  <2>1. table[i] \in [uop : Uops \cup {NoUop}, tag : SUBSET Tags, wb_fin : BOOLEAN]
    BY DEF TypeOK
  <2>2. QED
    BY <2>1
<1>4. Busy \subseteq Units
  BY DEF Busy
<1>5. ASSUME NEW u \in Busy
      PROVE  /\ exec[u] \in Record
             /\ exec[u].kind \in Kinds /\ exec[u].rob_des_idx \in Slots
             /\ exec[u].is_spec \in BOOLEAN /\ exec[u].spec_tag \in SUBSET Tags
  <2>1. exec[u] \in Record \cup {NoRow} /\ exec[u].valid
    BY <1>4 DEF TypeOK, Busy
  <2>2. exec[u] # NoRow
    BY <2>1 DEF NoRow
  <2>3. QED
    BY <2>1, <2>2 DEF Record
<1>6. QED
  BY <1>1, <1>2, <1>3, <1>4, <1>5

-----------------------------------------------------------------------------
(* A cycle without a squash, as Cycle and SucPred take it.                 *)

FlowOf(done, g, D, suc) ==
    /\ g \in Landing
    /\ done \subseteq Busy
    /\ suc = UNION {table[d].tag : d \in D}
    /\ D = {} \/ (g = NoGroup /\ \E i \in Resolving : D = {i})
    /\ Flow(done, Retiring, g, D, suc)

(* The pool has a tag for each branch that lands.                          *)
LEMMA TagsSuffice ==
    ASSUME TypeOK, RowsSound, NEW g \in Landing
    PROVE  /\ Cardinality(Branches(g)) \in 0 .. free_tag
           /\ \A l \in Branches(g) :
                 /\ Before(Branches(g), l) \in 0 .. Cardinality(Branches(g)) - 1
                 /\ TagAfter(Before(Branches(g), l)) \in Tags
<1> DEFINE B == Branches(g)
           n == Cardinality(B)
<1>1. B \in SUBSET Lanes
  BY LaneKinds
<1>2. n \in Nat /\ \A l \in B : Before(B, l) \in 0 .. n - 1
  BY <1>1, LaneNumbers
<1>3. free_tag \in Nat /\ \A b \in 0 .. free_tag : RotateLeft(next_tag, b) \in Tags
  BY Typed, OpenTags DEF RowsSound
<1>4. n <= free_tag
  <2>1. CASE g = NoGroup
    <3>1. B = {}
      BY <2>1, LaneKinds
    <3>2. n = 0
      BY <3>1, FS_EmptySet
    <3>3. QED
      BY <1>3, <3>2
  <2>2. CASE g # NoGroup
    <3>1. ~OverUse(n, 0)
      BY <2>2 DEF Landing, ReadyToGo
    <3> HIDE DEF n
    <3>2. QED
      BY <1>2, <1>3, <3>1 DEF OverUse
  <2>3. QED
    BY <2>1, <2>2
<1> HIDE DEF n
<1>5. ASSUME NEW l \in B PROVE TagAfter(Before(B, l)) \in Tags
  <2>1. Before(B, l) \in 0 .. free_tag
    BY <1>2, <1>3, <1>4
  <2>2. QED
    BY <1>3, <2>1 DEF TagAfter
<1>6. QED
  BY <1>2, <1>3, <1>4, <1>5 DEF n

(* The rows that stay and the rows that land.                              *)
LEMMA FlowRows ==
    ASSUME TypeOK, RowsSound, NEW done, NEW g, NEW D, NEW suc, FlowOf(done, g, D, suc)
    PROVE  /\ Cardinality(Valid(g)) \in 0 .. RobDepth - used_entry_cnt
           /\ Moves(Cardinality(Valid(g)))
           /\ \A l \in Valid(g) :
                 /\ Before(Valid(g), l) \in 0 .. Cardinality(Valid(g)) - 1
                 /\ SlotOf(g, l) \in InFlight' \ InFlight
                 /\ AgeNext(SlotOf(g, l)) = used_entry_cnt + Before(Valid(g), l) - Gone
                 /\ table'[SlotOf(g, l)] = RobRow(g, l)
           /\ \A l, m \in Valid(g) : SlotOf(g, l) = SlotOf(g, m) => l = m
           /\ \A i \in InFlight' : i \in InFlight \/ \E l \in Valid(g) : i = SlotOf(g, l)
           /\ \A i \in InFlight : i \in InFlight' <=> i \notin Retiring
           /\ \A i \in InFlight : i \in InFlight' =>
                 /\ AgeNext(i) = Age(i) - Gone
                 /\ table'[i].uop = table[i].uop
                 /\ table'[i].tag = table[i].tag
                 /\ table'[i].wb_fin <=> table[i].wb_fin \/ i \in RowsOf(done) \cup D
           /\ \A i \in Slots : table'[i] \in [uop : Uops \cup {NoUop}, tag : SUBSET Tags,
                                               wb_fin : BOOLEAN]
<1> DEFINE S == Valid(g)
           w == Cardinality(S)
           lane(i) == {l \in S : SlotOf(g, l) = i}
<1>1. /\ g \in Landing /\ Flow(done, Retiring, g, D, suc)
      /\ RobTyped /\ alloc_ptr = SlotAt(used_entry_cnt)
  BY Typed DEF FlowOf, RowsSound
<1>2. S \in SUBSET Lanes /\ \A l \in S : g[l] \in Uops
  BY <1>1, LaneKinds
<1>3. /\ w \in Nat
      /\ \A l \in S : Before(S, l) \in 0 .. w - 1
      /\ \A l, m \in S : Before(S, l) = Before(S, m) => l = m
      /\ \A k \in 0 .. w - 1 : \E l \in S : Before(S, l) = k
  BY <1>2, LaneNumbers
<1>4. used_entry_cnt \in 0 .. RobDepth /\ RobDepth \in Nat \ {0}
  BY <1>1, RobAssumption DEF RobTyped
<1>5. w \in 0 .. RobDepth - used_entry_cnt
  <2>1. CASE g = NoGroup
    <3>1. S = {}
      BY <1>1, <2>1, LaneKinds
    <3>2. w = 0
      BY <3>1, FS_EmptySet
    <3>3. QED
      BY <1>4, <3>2
  <2>2. CASE g # NoGroup
    <3>1. GroupFits(w)
      BY <1>1, <2>2 DEF Landing, ReadyToGo
    <3> HIDE DEF w
    <3>2. QED
      BY <1>3, <1>4, <3>1 DEF GroupFits
  <2>3. QED
    BY <2>1, <2>2
<1>6. Moves(w)
  <2>1. RobUpdate(w, TRUE, Gone)
    BY <1>1 DEF Flow, Gone
  <2> HIDE DEF w
  <2>2. QED
    BY <2>1 DEF RobUpdate, Moves
<1>7. \A i \in Slots : table'[i] =
          IF lane(i) # {} THEN RobRow(g, CHOOSE l \in lane(i) : TRUE)
          ELSE IF i \in Retiring \/ i \notin InFlight THEN Blank
          ELSE [table[i] EXCEPT !.wb_fin = @ \/ i \in RowsOf(done) \cup D]
  BY <1>1 DEF Flow
<1> HIDE DEF w
<1>8. /\ InFlight' = {i \in Slots : Age(i) \in Gone .. used_entry_cnt + w - 1}
      /\ \A i \in InFlight' : AgeNext(i) = Age(i) - Gone
      /\ \A k \in 0 .. w - 1 : /\ FreeSlot(k) \in Slots /\ FreeSlot(k) \in InFlight' \ InFlight
                              /\ Age(FreeSlot(k)) = used_entry_cnt + k
      /\ \A i \in InFlight' : i \in InFlight \/ \E k \in 0 .. w - 1 : i = FreeSlot(k)
  BY <1>1, <1>5, <1>6, RowsMove
<1>9. ASSUME NEW l \in S
      PROVE  /\ SlotOf(g, l) = FreeSlot(Before(S, l)) /\ SlotOf(g, l) \in Slots
             /\ SlotOf(g, l) \in InFlight' \ InFlight
             /\ Age(SlotOf(g, l)) = used_entry_cnt + Before(S, l)
             /\ AgeNext(SlotOf(g, l)) = used_entry_cnt + Before(S, l) - Gone
  <2>1. SlotOf(g, l) = FreeSlot(Before(S, l)) /\ Before(S, l) \in 0 .. w - 1
    BY <1>3 DEF SlotOf
  <2>2. ASSUME NEW k \in 0 .. w - 1
        PROVE  /\ FreeSlot(k) \in Slots /\ FreeSlot(k) \in InFlight' \ InFlight
               /\ Age(FreeSlot(k)) = used_entry_cnt + k
               /\ AgeNext(FreeSlot(k)) = used_entry_cnt + k - Gone
    <3>1. FreeSlot(k) \in Slots /\ FreeSlot(k) \in InFlight' \ InFlight
          /\ Age(FreeSlot(k)) = used_entry_cnt + k
      BY <1>8
    <3>2. AgeNext(FreeSlot(k)) = Age(FreeSlot(k)) - Gone
      BY <1>8, <3>1
    <3>3. Gone \in Int /\ used_entry_cnt \in Int /\ k \in Int
      BY <1>1, <1>3, <1>4, RetiringIsPrefix
    <3>4. QED
      BY <3>1, <3>2, <3>3
  <2>3. QED
    BY <2>1, <2>2
<1>10. ASSUME NEW l \in S, NEW m \in S, SlotOf(g, l) = SlotOf(g, m) PROVE l = m
  <2>1. used_entry_cnt + Before(S, l) = used_entry_cnt + Before(S, m)
    BY <1>9, <1>10
  <2>2. Before(S, l) \in Int /\ Before(S, m) \in Int
    BY <1>3
  <2>3. QED
    BY <1>3, <1>4, <2>1, <2>2
<1>11. ASSUME NEW l \in S PROVE table'[SlotOf(g, l)] = RobRow(g, l)
  <2>1. lane(SlotOf(g, l)) = {l}
    BY <1>10
  <2>2. SlotOf(g, l) \in Slots
    BY <1>9
  <2> HIDE DEF lane
  <2>3. QED
    BY <1>7, <2>1, <2>2
<1>12. ASSUME NEW i \in InFlight', i \notin InFlight PROVE \E l \in S : i = SlotOf(g, l)
  <2>1. PICK k \in 0 .. w - 1 : i = FreeSlot(k)
    BY <1>8, <1>12
  <2>2. PICK l \in S : Before(S, l) = k
    BY <1>3
  <2>3. QED
    BY <1>9, <2>1, <2>2
<1>13. ASSUME NEW i \in InFlight PROVE i \in InFlight' <=> i \notin Retiring
  <2>1. i \in Slots /\ Age(i) < used_entry_cnt /\ Age(i) \in Nat
    BY <1>1, SlotsAndAges, AgeIsFrom DEF RobTyped, InFlight, Slots
  <2>2. Gone \in Nat /\ (i \in Retiring <=> Age(i) < Gone)
    BY <1>1, <1>4, <2>1, RetiringIsPrefix
  <2>3. QED
    BY <1>3, <1>4, <1>8, <2>1, <2>2
<1>14. ASSUME NEW i \in InFlight, i \in InFlight'
       PROVE  /\ i \in Slots
              /\ table'[i] = [table[i] EXCEPT !.wb_fin = @ \/ i \in RowsOf(done) \cup D]
  <2>1. i \in Slots /\ i \notin Retiring /\ lane(i) = {}
    BY <1>9, <1>13, <1>14, Typed
  <2> HIDE DEF lane
  <2>2. QED
    BY <1>7, <2>1
<1>15. ASSUME NEW i \in InFlight, i \in InFlight'
       PROVE  /\ table'[i].uop = table[i].uop
              /\ table'[i].tag = table[i].tag
              /\ table'[i].wb_fin <=> table[i].wb_fin \/ i \in RowsOf(done) \cup D
  <2>1. DOMAIN table[i] = {"uop", "tag", "wb_fin"}
    BY <1>14, <1>15, Typed
  <2>2. table'[i] = [table[i] EXCEPT !.wb_fin = table[i].wb_fin \/ i \in RowsOf(done) \cup D]
    BY <1>14, <1>15
  <2>3. QED
    BY <2>1, <2>2, Zenon
<1>16. ASSUME NEW i \in Slots
       PROVE  table'[i] \in [uop : Uops \cup {NoUop}, tag : SUBSET Tags, wb_fin : BOOLEAN]
  <2>1. CASE lane(i) # {}
    <3>1. PICK l \in S : i = SlotOf(g, l)
      BY <2>1
    <3>2. table'[i] = RobRow(g, l)
      BY <1>11, <3>1
    <3>3. l \in Branches(g) => TagAfter(Before(Branches(g), l)) \in Tags
      BY <1>1, TagsSuffice
    <3>4. QED
      BY <1>2, <3>2, <3>3 DEF RobRow
  <2>2. CASE lane(i) = {} /\ (i \in Retiring \/ i \notin InFlight)
    <3>1. table'[i] = Blank
      BY <1>7, <2>2
    <3>2. QED
      BY <3>1 DEF Blank
  <2>3. CASE i \notin Retiring /\ i \in InFlight
    <3>1. table'[i] = [table[i] EXCEPT !.wb_fin = @ \/ i \in RowsOf(done) \cup D]
      BY <1>13, <1>14, <2>3
    <3>2. table[i] \in [uop : Uops \cup {NoUop}, tag : SUBSET Tags, wb_fin : BOOLEAN]
      BY DEF TypeOK
    <3>3. (table[i].wb_fin \/ i \in RowsOf(done) \cup D) \in BOOLEAN
      OBVIOUS
    <3>4. QED
      BY <3>1, <3>2, <3>3
  <2>4. QED
    BY <2>1, <2>2, <2>3
<1>17. QED
  BY <1>3, <1>5, <1>6, <1>9, <1>10, <1>11, <1>12, <1>13, <1>14, <1>15, <1>16, <1>8 DEF w

(* The open branches and the waiting rows after such a cycle: those that   *)
(* resolve or write back leave, the group's join.                          *)
LEMMA FlowSets ==
    ASSUME TypeOK, RowsSound, Placed, NEW done, NEW g, NEW D, NEW suc, FlowOf(done, g, D, suc)
    PROVE  /\ Unfinished \subseteq InFlight'  \cup (RowsOf(done) \cup D)
           /\ RowsOf(done) \subseteq Waits
           /\ D \subseteq Opened /\ \A d \in D, i \in Opened \ D : Age(d) < Age(i)
           /\ Opened \ D \subseteq InFlight'
           /\ Opened' = (Opened \ D) \cup {SlotOf(g, l) : l \in Branches(g)}
           /\ Waits \ RowsOf(done) \subseteq InFlight'
           /\ Waits' = (Waits \ RowsOf(done)) \cup {SlotOf(g, l) : l \in Aimed(g)}
           /\ Unfinished' = (Unfinished \ (RowsOf(done) \cup D))
                              \cup {SlotOf(g, l) : l \in Valid(g)}
           /\ RowsAreWhole'
<1> DEFINE R == RowsOf(done)
<1>1. /\ g \in Landing /\ done \subseteq Busy /\ RobTyped
      /\ D = {} \/ \E i \in Resolving : D = {i}
      /\ Opened = OpenBranches /\ Unfinished \subseteq InFlight
  BY Typed DEF FlowOf
<1>2. R \subseteq Waits
  BY <1>1 DEF RowsOf, Placed, RunBy
<1>3. /\ D \subseteq Opened
      /\ \A d \in D, i \in Opened \ D : Age(d) < Age(i)
  <2>1. \A i \in Resolving : i \in Opened /\ \A j \in Opened : Age(i) <= Age(j)
    BY <1>1 DEF Resolving
  <2>2. D \subseteq Opened
    BY <1>1, <2>1
  <2>3. \A i, j \in Opened : i # j => Age(i) # Age(j) /\ Age(i) \in Int /\ Age(j) \in Int
    BY <1>1, SlotsAndAges, AgeIsFrom DEF RobTyped, Opened, InFlight, Slots
  <2>4. ASSUME NEW d \in D, NEW i \in Opened \ D PROVE Age(d) < Age(i)
    <3>1. d \in Opened /\ d # i /\ Age(d) <= Age(i)
      BY <1>1, <2>1, <2>2
    <3>2. QED
      BY <2>3, <3>1
  <2>5. QED
    BY <2>2, <2>4
<1>4. Waits \cap Opened = {} /\ Unfinished = Waits \cup Opened
  BY <1>1, Typed DEF Waits
<1>5. ASSUME NEW i \in Unfinished PROVE i \in InFlight /\ i \in InFlight' /\ ~table[i].wb_fin
  <2>1. i \in InFlight /\ ~table[i].wb_fin
    BY DEF Unfinished
  <2>2. i \notin Retiring
    BY <1>1, <2>1, RetiringIsPrefix
  <2>3. QED
    BY <2>1, <2>2, FlowRows
<1>6. ASSUME NEW i \in InFlight, i \in InFlight'
      PROVE  /\ i \in Unfinished' <=> i \in Unfinished \ (R \cup D)
             /\ table'[i].uop = table[i].uop
  <2>1. /\ table'[i].uop = table[i].uop
        /\ table'[i].wb_fin <=> table[i].wb_fin \/ i \in R \cup D
    BY <1>6, FlowRows
  <2>2. i \in Unfinished' <=> ~table'[i].wb_fin
    BY <1>6 DEF Unfinished
  <2>3. i \in Unfinished <=> ~table[i].wb_fin
    BY <1>6 DEF Unfinished
  <2>4. QED
    BY <2>1, <2>2, <2>3
<1>7. ASSUME NEW l \in Valid(g)
      PROVE  /\ SlotOf(g, l) \in Unfinished' /\ SlotOf(g, l) \in InFlight' \ InFlight
             /\ table'[SlotOf(g, l)].uop = g[l]
             /\ g[l] \in Uops
             /\ table'[SlotOf(g, l)].uop.is_branch <=> l \in Branches(g)
  <2>1. SlotOf(g, l) \in InFlight' \ InFlight /\ table'[SlotOf(g, l)] = RobRow(g, l)
    BY FlowRows
  <2>2. RobRow(g, l).uop = g[l] /\ RobRow(g, l).wb_fin = FALSE
    BY DEF RobRow
  <2>3. g[l] \in Uops /\ (g[l].is_branch <=> l \in Branches(g))
    BY <1>1, LaneKinds
  <2>4. QED
    BY <2>1, <2>2, <2>3 DEF Unfinished
<1>8. \A i \in InFlight' : i \in InFlight \/ \E l \in Valid(g) : i = SlotOf(g, l)
  BY FlowRows
<1>9. Unfinished' = (Unfinished \ (R \cup D)) \cup {SlotOf(g, l) : l \in Valid(g)}
  <2>1. Unfinished' \subseteq InFlight'
    BY DEF Unfinished
  <2>2. ASSUME NEW i \in Unfinished'
        PROVE  i \in (Unfinished \ (R \cup D)) \cup {SlotOf(g, l) : l \in Valid(g)}
    <3>1. CASE i \in InFlight
      BY <1>6, <2>1, <3>1
    <3>2. CASE i \notin InFlight
      BY <1>8, <2>1, <3>2
    <3>3. QED
      BY <3>1, <3>2
  <2>3. Unfinished \ (R \cup D) \subseteq Unfinished'
    BY <1>5, <1>6
  <2>4. {SlotOf(g, l) : l \in Valid(g)} \subseteq Unfinished'
    BY <1>7
  <2>5. QED
    BY <2>2, <2>3, <2>4
<1>10. Valid(g) = Branches(g) \cup Aimed(g) /\ Branches(g) \cap Aimed(g) = {}
  BY <1>1, LaneKinds
<1>11. Opened' = {i \in Unfinished' : table'[i].uop.is_branch}
  BY DEF Opened, Unfinished
<1>12. Opened = {i \in Unfinished : table[i].uop.is_branch}
  BY DEF Opened, Unfinished
<1>13. \A i \in Unfinished : i \in InFlight' /\ table'[i].uop = table[i].uop
  BY <1>5, <1>6
<1>14. Opened' = (Opened \ D) \cup {SlotOf(g, l) : l \in Branches(g)}
  <2>1. ASSUME NEW i \in Unfinished \ (R \cup D) PROVE i \in Opened' <=> i \in Opened
    BY <1>9, <1>11, <1>12, <1>13
  <2>2. ASSUME NEW l \in Valid(g) PROVE SlotOf(g, l) \in Opened' <=> l \in Branches(g)
    BY <1>7, <1>11
  <2>3. Opened' \subseteq (Opened \ D) \cup {SlotOf(g, l) : l \in Branches(g)}
    BY <1>9, <1>11, <2>1, <2>2
  <2>4. Opened \ D \subseteq Opened'
    BY <1>2, <1>4, <2>1
  <2>5. {SlotOf(g, l) : l \in Branches(g)} \subseteq Opened'
    BY <1>10, <2>2
  <2>6. QED
    BY <2>3, <2>4, <2>5
<1>15. Waits' = (Waits \ R) \cup {SlotOf(g, l) : l \in Aimed(g)}
  <2>1. Waits' = Unfinished' \ Opened'
    BY DEF Waits
  <2>2. \A l \in Valid(g) : SlotOf(g, l) \notin Unfinished
    BY <1>1, <1>7
  <2>3. \A l \in Aimed(g) : SlotOf(g, l) \notin {SlotOf(g, m) : m \in Branches(g)}
    BY <1>10, FlowRows
  <2>4. QED
    BY <1>2, <1>3, <1>4, <1>9, <1>10, <1>14, <2>1, <2>2, <2>3
<1>16. RowsAreWhole'
  <2>1. ASSUME NEW i \in InFlight' PROVE table'[i].uop \in Uops
    <3>1. CASE i \in InFlight
      BY <1>6, <3>1 DEF RowsSound, RowsAreWhole
    <3>2. CASE i \notin InFlight
      BY <1>7, <1>8, <3>2
    <3>3. QED
      BY <3>1, <3>2
  <2>2. QED
    BY <2>1 DEF RowsAreWhole
<1>17. QED
  BY <1>2, <1>3, <1>4, <1>5, <1>9, <1>14, <1>15, <1>16

(* The tags stay a ring, and every row stands under the tag its dispatch   *)
(* was given or, if it was here before, what is left of its own.           *)
LEMMA FlowTags ==
    ASSUME TypeOK, RowsSound, Placed, NEW done, NEW g, NEW D, NEW suc, FlowOf(done, g, D, suc)
    PROVE  /\ RowsSound' /\ RobTyped' /\ TagsTyped' /\ alloc_ptr' \in Slots
           /\ \A i \in InFlight : i \in InFlight' => PairTag(i)' = PairTag(i) \ suc
           /\ \A i \in InFlight', l \in Aimed(g) : i = SlotOf(g, l) =>
                 PairTag(i)' = TagInForce(Before(Branches(g), l))
<1> DEFINE V == Valid(g)
           w == Cardinality(V)
           f == [l \in Branches(g) |-> Before(V, l)]
           B == {f[l] : l \in Branches(g)}
<1>1. /\ g \in Landing /\ RobSound /\ suc = UNION {table[d].tag : d \in D}
      /\ UpdateMeta(Cardinality(Branches(g)), TRUE, Cardinality(suc))
      /\ D = {} \/ (g = NoGroup /\ \E i \in Resolving : D = {i})
  BY Typed DEF FlowOf, Flow, RobSound, RowsSound
<1>2. V \in SUBSET Lanes /\ Branches(g) \in SUBSET V /\ Aimed(g) \in SUBSET V
      /\ Branches(g) \in SUBSET Lanes
  BY <1>1, LaneKinds
<1>3. /\ w \in Nat
      /\ \A l \in V : l \in Int /\ Before(V, l) \in 0 .. w - 1
      /\ \A l, m \in V : l < m <=> Before(V, l) < Before(V, m)
      /\ \A l, m \in V : Before(V, l) = Before(V, m) => l = m
  BY <1>2, LaneNumbers
<1>4. ASSUME NEW l \in V PROVE Cardinality({c \in B : c < Before(V, l)}) = Before(Branches(g), l)
  <2> DEFINE P == {m \in Branches(g) : m < l}
             h == [m \in P |-> Before(V, m)]
             C == {c \in B : c < Before(V, l)}
  <2>1. C = {h[m] : m \in P}
    BY <1>2, <1>3
  <2>2. \A x, y \in P : h[x] = h[y] => x = y
    BY <1>2, <1>3
  <2>3. DOMAIN h = P /\ h = [m \in P |-> h[m]]
    OBVIOUS
  <2>4. IsFiniteSet(P)
    BY <1>2, LaneNumbers, FS_Subset
  <2> HIDE DEF P, h, C
  <2>5. Cardinality(C) = Cardinality(P)
    BY <2>1, <2>2, <2>3, <2>4, ImageCount
  <2>6. QED
    BY <2>5 DEF P, C, Before
<1>5. Cardinality(B) = Cardinality(Branches(g))
  <2>1. \A x, y \in Branches(g) : f[x] = f[y] => x = y
    BY <1>2, <1>3
  <2>2. DOMAIN f = Branches(g) /\ f = [m \in Branches(g) |-> f[m]]
    OBVIOUS
  <2>3. IsFiniteSet(Branches(g))
    BY <1>2, LaneNumbers
  <2>4. B = {f[l] : l \in Branches(g)}
    OBVIOUS
  <2> HIDE DEF B, f
  <2>5. QED
    BY <2>1, <2>2, <2>3, <2>4, ImageCount
<1>6. Cardinality(suc) = Cardinality(D)
  <2>1. CASE D = {}
    <3>1. suc = {}
      BY <1>1, <2>1
    <3>2. QED
      BY <2>1, <3>1
  <2>2. CASE D # {}
    <3>1. PICK i \in Resolving : D = {i}
      BY <1>1, <2>2
    <3>2. i \in Opened
      BY <3>1, FlowSets
    <3>3. suc = table[i].tag
      BY <1>1, <3>1
    <3>4. PICK t \in Tags : table[i].tag = {t}
      BY <1>1, <3>2, OpenTags DEF RobSound
    <3>5. QED
      BY <3>1, <3>3, <3>4, FS_Singleton
  <2>3. QED
    BY <2>1, <2>2
<1>7. TagStep(w, D, B)
  <2>1. w \in 0 .. RobDepth - used_entry_cnt /\ Moves(w)
    BY FlowRows
  <2>2. /\ D \subseteq Opened /\ \A d \in D, i \in Opened \ D : Age(d) < Age(i)
        /\ Opened \ D \subseteq InFlight'
    BY FlowSets
  <2>3. B \subseteq 0 .. w - 1
    BY <1>2, <1>3
  <2>4. Opened' = (Opened \ D) \cup {FreeSlot(b) : b \in B}
    <3>1. {FreeSlot(b) : b \in B} = {SlotOf(g, l) : l \in Branches(g)}
      BY DEF SlotOf
    <3>2. QED
      BY <3>1, FlowSets
  <2>5. /\ Cardinality(B) <= free_tag
        /\ free_tag' = free_tag + Cardinality(D) - Cardinality(B)
        /\ next_tag' = RotateLeft(next_tag, Cardinality(B))
    <3>1. Cardinality(Branches(g)) <= free_tag
      <4>1. Cardinality(Branches(g)) \in 0 .. free_tag /\ free_tag \in Nat
        BY <1>1, TagsSuffice, OpenTags DEF RobSound
      <4>2. QED
        BY <4>1
    <3>2. /\ free_tag' = free_tag + Cardinality(suc) - Cardinality(Branches(g))
          /\ next_tag' = RotateLeft(next_tag, Cardinality(Branches(g)))
      BY <1>1 DEF UpdateMeta, TagAfter
    <3>3. QED
      BY <1>5, <1>6, <3>1, <3>2
  <2>6. \A i \in Opened \ D : table'[i].tag = table[i].tag
    <3>1. \A i \in Opened \ D : i \in InFlight /\ i \in InFlight'
      BY <2>2 DEF Opened
    <3>2. QED
      BY <3>1, FlowRows
  <2>7. ASSUME NEW b \in B
        PROVE  table'[FreeSlot(b)].tag = {RotateLeft(next_tag, Cardinality({c \in B : c < b}))}
    <3>1. PICK l \in Branches(g) : b = Before(V, l)
      OBVIOUS
    <3>2. table'[SlotOf(g, l)] = RobRow(g, l) /\ SlotOf(g, l) = FreeSlot(b)
      BY <1>2, <3>1, FlowRows DEF SlotOf
    <3>3. RobRow(g, l).tag = {RotateLeft(next_tag, Before(Branches(g), l))}
      BY DEF RobRow, TagAfter
    <3>4. Cardinality({c \in B : c < b}) = Before(Branches(g), l)
      BY <1>2, <1>4, <3>1
    <3>5. QED
      BY <3>2, <3>3, <3>4
  <2> HIDE DEF w, B
  <2>8. QED
    BY <2>1, <2>2, <2>3, <2>4, <2>5, <2>6, <2>7 DEF TagStep
<1> HIDE DEF w, B
<1>8. TagsAreRing' /\ TagsTyped'
  BY <1>1, <1>7, TagsMove
<1>9. (alloc_ptr = SlotAt(used_entry_cnt))' /\ RobTyped' /\ alloc_ptr' \in Slots
  BY <1>1, <1>7, RowsMove DEF RobSound, TagStep, RobTyped
<1>10. \A i \in InFlight : i \in InFlight' => PairTag(i)' = PairTag(i) \ suc
  BY <1>1, <1>7, PairsMove
<1>11. ASSUME NEW l \in Aimed(g), NEW i \in InFlight', i = SlotOf(g, l)
       PROVE  PairTag(i)' = TagInForce(Before(Branches(g), l))
  <2>1. D = {}
    <3>1. g # NoGroup
      BY <1>1, <1>2, LaneKinds
    <3>2. QED
      BY <1>1, <3>1
  <2>2. /\ Before(V, l) \in 0 .. w - 1 /\ SlotOf(g, l) = FreeSlot(Before(V, l))
        /\ SlotOf(g, l) \in InFlight'
    BY <1>2, <1>3, FlowRows DEF SlotOf
  <2>3. \A k \in 0 .. w - 1, r \in InFlight' : r = FreeSlot(k) =>
            PairTag(r)' = TagInForce(Cardinality({c \in B : c < k}))
    BY <1>1, <1>7, <2>1, PairsMove
  <2>4. ASSUME NEW k, k = Before(V, l)
        PROVE  PairTag(i)' = TagInForce(Before(Branches(g), l))
    <3>1. k \in 0 .. w - 1 /\ i = FreeSlot(k)
      BY <1>11, <2>2, <2>4
    <3>2. PairTag(i)' = TagInForce(Cardinality({c \in B : c < k}))
      BY <2>3, <3>1
    <3>3. Cardinality({c \in B : c < k}) = Before(Branches(g), l)
      BY <1>2, <1>4, <2>4
    <3>4. QED
      BY <3>2, <3>3
  <2>5. QED
    BY <2>4
<1>12. RowsSound'
  BY <1>8, <1>9, FlowSets DEF RowsSound
<1>13. QED
  BY <1>8, <1>9, <1>10, <1>11, <1>12

-----------------------------------------------------------------------------
(* Records under the tags.                                                 *)

(* A pair that is whole stays so when a tag resolves.                      *)
LEMMA RowResolves ==
    ASSUME NEW e \in O3Row, NEW suc, e.is_spec <=> e.spec_tag # {},
           NEW r, r = Resolved(e, suc)
    PROVE  /\ r \in O3Row
           /\ r.kind = e.kind /\ r.rob_des_idx = e.rob_des_idx /\ r.pr = e.pr
           /\ r.ready = e.ready /\ r.is_lower = e.is_lower /\ r.track = e.track
           /\ r.spec_tag = e.spec_tag \ suc /\ (r.is_spec <=> r.spec_tag # {})
<1> DEFINE left == e.spec_tag \ suc
<1>1. left \in SUBSET Tags /\ (left # {}) \in BOOLEAN
  BY DEF O3Row
<1>2. CASE e.is_spec
  <2>1. r = [e EXCEPT !.spec_tag = left, !.is_spec = left # {}]
    BY <1>2 DEF Resolved
  <2>2. e \in O3Row
    OBVIOUS
  <2> HIDE DEF left
  <2>3. QED
    BY <1>1, <2>1, <2>2 DEF O3Row, left
<1>3. CASE ~e.is_spec
  <2>1. r = e /\ e.spec_tag = {}
    BY <1>3 DEF Resolved
  <2>2. QED
    BY <1>3, <2>1
<1>4. QED
  BY <1>2, <1>3

(* Clearing the returned tags of a record leaves its kind and row alone    *)
(* and its is_spec true exactly when tags remain.                          *)
LEMMA RecordResolves ==
    ASSUME NEW e \in Record, NEW suc, e.is_spec <=> e.spec_tag # {},
           NEW r, r = Resolved(e, suc)
    PROVE  /\ r \in Record
           /\ r.kind = e.kind /\ r.rob_des_idx = e.rob_des_idx
           /\ r.spec_tag = e.spec_tag \ suc /\ (r.is_spec <=> r.spec_tag # {})
<1> DEFINE left == e.spec_tag \ suc
<1>1. left \in SUBSET Tags /\ (left # {}) \in BOOLEAN
  BY DEF Record
<1>2. CASE e.is_spec
  <2>1. r = [e EXCEPT !.spec_tag = left, !.is_spec = left # {}]
    BY <1>2 DEF Resolved
  <2>2. e \in Record
    OBVIOUS
  <2> HIDE DEF left
  <2>3. QED
    BY <1>1, <2>1, <2>2 DEF Record, left
<1>3. CASE ~e.is_spec
  <2>1. r = e /\ e.spec_tag = {}
    BY <1>3 DEF Resolved
  <2>2. QED
    BY <1>3, <2>1
<1>4. QED
  BY <1>2, <1>3

(* A row that stays wakes to the results it waits for and, in the cycle of *)
(* a wrap, falls an epoch behind.                                          *)
LEMMA RowWakes ==
    ASSUME NEW e \in O3Row, NEW R, NEW w, w = Woken(e, R)
    PROVE  /\ w \in O3Row
           /\ w.kind = e.kind /\ w.rob_des_idx = e.rob_des_idx /\ w.pr = e.pr
           /\ w.is_lower = e.is_lower /\ w.track = e.track
           /\ w.spec_tag = e.spec_tag /\ w.is_spec = e.is_spec
           /\ w.ready <=> e.ready \/ e.pr \in R
<1>1. CASE e.pr \in R
  <2>1. w = [e EXCEPT !.ready = TRUE]
    BY <1>1 DEF Woken
  <2>2. QED
    BY <1>1, <2>1 DEF O3Row
<1>2. CASE e.pr \notin R
  BY <1>2 DEF Woken
<1>3. QED
  BY <1>1, <1>2

Aged(e, rolls) == [e EXCEPT !.is_lower = @ \/ rolls]

(* Aging an entry changes its is_lower alone.                              *)
LEMMA RowAges ==
    ASSUME NEW e \in O3Row, NEW rolls \in BOOLEAN, NEW r, r = Aged(e, rolls)
    PROVE  /\ r \in O3Row
           /\ r.kind = e.kind /\ r.rob_des_idx = e.rob_des_idx /\ r.pr = e.pr
           /\ r.ready = e.ready /\ r.track = e.track
           /\ r.spec_tag = e.spec_tag /\ r.is_spec = e.is_spec
           /\ r.is_lower <=> e.is_lower \/ rolls
<1>1. (e.is_lower \/ rolls) \in BOOLEAN
  OBVIOUS
<1>2. r = [e EXCEPT !.is_lower = e.is_lower \/ rolls]
  BY DEF Aged
<1>3. QED
  BY <1>1, <1>2 DEF O3Row

-----------------------------------------------------------------------------
(* What a cycle does to the station and to the units: issued rows leave    *)
(* for the units that take them, the group lands in its ports, and what    *)
(* stays, in a row or in a unit, keeps its instruction and place.          *)
IssuedBy(done) == UNION {Pick(u) : u \in Taking(done)}

(* Entry r is what e becomes in such a cycle.                              *)
BecomesRow(r, e, written, rolls, suc) ==
    /\ r \in O3Row
    /\ r.kind = e.kind /\ r.rob_des_idx = e.rob_des_idx /\ r.pr = e.pr /\ r.track = e.track
    /\ r.ready <=> e.ready \/ e.pr \in written
    /\ r.is_lower <=> e.is_lower \/ rolls
    /\ r.spec_tag = e.spec_tag \ suc /\ (r.is_spec <=> r.spec_tag # {})

(* Running record r is of the instruction of e, an entry or a record.      *)
BecomesRecord(r, e, suc) ==
    /\ r \in Record
    /\ r.kind = e.kind /\ r.rob_des_idx = e.rob_des_idx
    /\ r.spec_tag = e.spec_tag \ suc /\ (r.is_spec <=> r.spec_tag # {})

(* What lane l of the group puts into the station.                         *)
LandsAs(r, g, l, written) ==
    /\ r \in O3Row
    /\ r.kind = g[l].kind /\ r.rob_des_idx = SlotOf(g, l) /\ r.pr = Producer(g, l)
    /\ r.track = track_ptr /\ ~r.is_lower
    /\ r.ready <=> Producer(g, l) \in (InFlight \ Unfinished) \cup written \cup {Nobody}
    /\ r.spec_tag = TagInForce(Before(Branches(g), l))
    /\ r.is_spec <=> IsSpec(Before(Branches(g), l))

(* A lane's producer is a row, or nobody.                                  *)
LEMMA ProducerIsRow ==
    ASSUME TypeOK, RowsSound, NEW done, NEW g, NEW D, NEW suc, FlowOf(done, g, D, suc),
           NEW l \in Aimed(g)
    PROVE  Producer(g, l) \in Slots \cup {Nobody}
<1> DEFINE ahead == {m \in Aimed(g) : m < l}
           writers == {i \in InFlight : ~table[i].uop.is_branch}
           m == CHOOSE m \in ahead : \A k \in ahead : k <= m
<1>1. g \in Landing /\ Aimed(g) \in SUBSET Valid(g) /\ RobTyped /\ InFlight \subseteq Slots
  BY LaneKinds, Typed DEF FlowOf
<1>2. CASE ahead # {}
  <2>1. m \in ahead
    <3>1. ahead \in SUBSET Lanes
      BY <1>1, LaneKinds
    <3>2. IsFiniteSet(ahead) /\ \A k \in ahead : k \in Int
      BY <3>1, LaneNumbers
    <3> HIDE DEF ahead
    <3>3. \E x \in ahead : \A k \in ahead : k <= x
      BY <1>2, <3>2, HighestExists
    <3>4. QED
      BY <3>3
  <2>2. SlotOf(g, m) \in Slots
    <3>1. m \in Valid(g)
      BY <1>1, <2>1
    <3>2. SlotOf(g, m) \in InFlight'
      BY <3>1, FlowRows
    <3>3. InFlight' \subseteq Slots
      BY DEF InFlight
    <3>4. QED
      BY <3>2, <3>3
  <2>3. Producer(g, l) = Nobody \/ Producer(g, l) = SlotOf(g, m)
    BY <1>2 DEF Producer
  <2>4. QED
    BY <2>2, <2>3
<1>3. CASE ahead = {} /\ writers # {}
  <2>1. Latest(writers) \in writers
    BY <1>1, <1>3, LastIsYoungest DEF LastOf, Latest
  <2>2. Producer(g, l) = Nobody \/ Producer(g, l) = Latest(writers)
    BY <1>3 DEF Producer
  <2>3. QED
    BY <1>1, <2>1, <2>2
<1>4. CASE ahead = {} /\ writers = {}
  BY <1>4 DEF Producer
<1>5. QED
  BY <1>2, <1>3, <1>4

(* The pair the pool answers a lane is a pair.                             *)
LEMMA PairsAnswered ==
    ASSUME TypeOK, RowsSound, NEW g \in Landing, NEW l \in Aimed(g),
           NEW n, n = Before(Branches(g), l)
    PROVE  /\ TagInForce(n) \in SUBSET Tags /\ IsSpec(n) \in BOOLEAN
           /\ IsSpec(n) <=> TagInForce(n) # {}
<1>1. /\ SpTagLen \in Nat \ {0} /\ next_tag \in Tags /\ free_tag \in 0 .. SpTagLen - 1
  BY Typed, SpTagLenAssumption DEF TagsTyped
<1>2. n \in Nat /\ n <= free_tag
  <2>1. Branches(g) \in SUBSET Lanes /\ l \in Lanes /\ Aimed(g) \in SUBSET Lanes
    BY LaneKinds
  <2>2. IsFiniteSet(Branches(g)) /\ (\A x \in Branches(g) : x \in Int) /\ l \in Int
    BY <2>1, LaneNumbers
  <2>3. n \in 0 .. Cardinality(Branches(g)) /\ Cardinality(Branches(g)) \in Nat
    BY <1>2, <2>2, Numbering DEF Before
  <2>4. Cardinality(Branches(g)) \in 0 .. free_tag
    BY TagsSuffice
  <2>5. QED
    BY <1>1, <2>3, <2>4
<1>3. CASE n = 0
  <2>1. TagInForce(n) = LastTag /\ (IsSpec(n) <=> Outstanding)
    BY <1>3 DEF TagInForce, IsSpec
  <2>2. CASE Outstanding
    <3>1. LastTag = {RotateRight(next_tag, 1)}
      BY <2>2 DEF LastTag
    <3>2. RotateRight(next_tag, 1) \in Tags
      BY <1>1, <2>2 DEF Outstanding, RotateRight, Tags
    <3>3. QED
      BY <2>1, <2>2, <3>1, <3>2
  <2>3. CASE ~Outstanding
    <3>1. LastTag = {}
      BY <2>3 DEF LastTag
    <3>2. TagInForce(n) = {} /\ ~IsSpec(n)
      BY <2>1, <2>3, <3>1
    <3>3. QED
      BY <3>2, Zenon DEF IsSpec
  <2>4. QED
    BY <2>2, <2>3
<1>4. CASE n # 0
  <2>1. TagInForce(n) = {RotateLeft(next_tag, n - 1)} /\ IsSpec(n)
    BY <1>2, <1>4 DEF TagInForce, IsSpec, TagAfter
  <2>2. RotateLeft(next_tag, n - 1) \in Tags
    BY <1>1, <1>2, <1>4 DEF RotateLeft, Tags
  <2>3. QED
    BY <2>1, <2>2
<1>5. QED
  BY <1>3, <1>4

(* A record built from typed fields is an entry with those fields.         *)
LEMMA RowIsTyped ==
    ASSUME NEW a \in Kinds, NEW i \in Slots, NEW p \in Slots \cup {Nobody},
           NEW ready \in BOOLEAN, NEW spec \in BOOLEAN, NEW t \in SUBSET Tags,
           NEW k \in Tracks,
           NEW r, r = [valid |-> TRUE, kind |-> a, rob_des_idx |-> i, pr |-> p,
                       ready |-> ready, is_spec |-> spec, spec_tag |-> t,
                       is_lower |-> FALSE, track |-> k]
    PROVE  /\ r \in O3Row
           /\ r.kind = a /\ r.rob_des_idx = i /\ r.pr = p
           /\ r.ready = ready /\ r.is_spec = spec /\ r.spec_tag = t
           /\ ~r.is_lower /\ r.track = k
<1>1. r \in O3Row
  BY DEF O3Row
<1>2. /\ r.kind = a /\ r.rob_des_idx = i /\ r.pr = p
      /\ r.ready = ready /\ r.is_spec = spec /\ r.spec_tag = t
      /\ ~r.is_lower /\ r.track = k
  OBVIOUS
<1>3. QED
  BY <1>1, <1>2

(* A lane's entry lands with its instruction, place, producer and pair.    *)
Landed(g, l, written) ==
    [Entry(g, l, written) EXCEPT !.track = track_ptr, !.is_lower = FALSE]

(* The entry written for a lane holds what LandsAs says, its pair sound.   *)
LEMMA EntryLands ==
    ASSUME TypeOK, RowsSound, NEW done, NEW g, NEW D, NEW suc, FlowOf(done, g, D, suc),
           NEW l \in Aimed(g), NEW written,
           NEW r, r = Landed(g, l, written)
    PROVE  LandsAs(r, g, l, written) /\ (r.is_spec <=> r.spec_tag # {})
<1> DEFINE p == Producer(g, l)
           n == Before(Branches(g), l)
           ok == p \in (InFlight \ Unfinished) \cup written \cup {Nobody}
<1>1. g \in Landing /\ Aimed(g) \in SUBSET Valid(g) /\ InFlight' \subseteq Slots
  BY LaneKinds DEF FlowOf, InFlight
<1>2. /\ g[l].kind \in Kinds /\ SlotOf(g, l) \in Slots
      /\ p \in Slots \cup {Nobody} /\ track_ptr \in Tracks
      /\ TagInForce(n) \in SUBSET Tags /\ IsSpec(n) \in BOOLEAN
      /\ IsSpec(n) <=> TagInForce(n) # {}
  <2>1. g[l].kind \in Kinds
    BY <1>1, LaneKinds
  <2>2. SlotOf(g, l) \in Slots
    BY <1>1, FlowRows
  <2>3. p \in Slots \cup {Nobody}
    BY ProducerIsRow
  <2>4. track_ptr \in Tracks
    BY DEF TypeOK
  <2>5. /\ TagInForce(n) \in SUBSET Tags /\ IsSpec(n) \in BOOLEAN
        /\ IsSpec(n) <=> TagInForce(n) # {}
    BY <1>1, PairsAnswered
  <2>6. QED
    BY <2>1, <2>2, <2>3, <2>4, <2>5
<1>3. r = [valid |-> TRUE, kind |-> g[l].kind, rob_des_idx |-> SlotOf(g, l), pr |-> p,
           ready |-> ok, is_spec |-> IsSpec(n), spec_tag |-> TagInForce(n),
           is_lower |-> FALSE, track |-> track_ptr]
  BY DEF Entry, Landed
<1>4. ok \in BOOLEAN /\ (ok <=> p \in (InFlight \ Unfinished) \cup written \cup {Nobody})
  OBVIOUS
<1> HIDE DEF ok, p, n
<1>5. ASSUME NEW a \in Kinds, a = g[l].kind, NEW i \in Slots, i = SlotOf(g, l),
             NEW spec \in BOOLEAN, spec = IsSpec(n), NEW t \in SUBSET Tags, t = TagInForce(n),
             NEW ready \in BOOLEAN, ready = ok, NEW k \in Tracks, k = track_ptr,
             NEW q \in Slots \cup {Nobody}, q = p
      PROVE  /\ r \in O3Row
             /\ r.kind = a /\ r.rob_des_idx = i /\ r.pr = q
             /\ r.ready = ready /\ r.is_spec = spec /\ r.spec_tag = t
             /\ ~r.is_lower /\ r.track = k
  <2>1. r = [valid |-> TRUE, kind |-> a, rob_des_idx |-> i, pr |-> q, ready |-> ready,
             is_spec |-> spec, spec_tag |-> t, is_lower |-> FALSE, track |-> k]
    BY <1>3, <1>5
  <2>2. QED
    BY <2>1, RowIsTyped
<1>6. /\ r \in O3Row
      /\ r.kind = g[l].kind /\ r.rob_des_idx = SlotOf(g, l) /\ r.pr = p
      /\ r.ready = ok /\ r.is_spec = IsSpec(n) /\ r.spec_tag = TagInForce(n)
      /\ ~r.is_lower /\ r.track = track_ptr
  BY <1>2, <1>4, <1>5
<1>7. (r.is_spec <=> IsSpec(n)) /\ (r.ready <=> ok) /\ (r.is_spec <=> r.spec_tag # {})
  BY <1>2, <1>4, <1>6
<1>8. LandsAs(r, g, l, written)
  BY <1>4, <1>6, <1>7 DEF LandsAs, p, n
<1>9. QED
  BY <1>7, <1>8

(* The station after the cycle.                                            *)
LEMMA FlowStation ==
    ASSUME TypeOK, RowsSound, PairsSound,
           NEW done, NEW g, NEW D, NEW suc, FlowOf(done, g, D, suc),
           NEW rolls, rolls = Rolls(Entries(g, RowsOf(done)))
    PROVE  /\ IssuedBy(done) \subseteq Held
           /\ Held' = (Held \ IssuedBy(done)) \cup {Port(g, l) : l \in Aimed(g)}
           /\ \A k \in Held \ IssuedBy(done) :
                 BecomesRow(o3'[k], o3[k], RowsOf(done), rolls, suc)
           /\ \A l \in Aimed(g) :
                 /\ Port(g, l) \in O3Slots \ Held
                 /\ LandsAs(o3'[Port(g, l)], g, l, RowsOf(done))
                 /\ o3'[Port(g, l)].is_spec <=> o3'[Port(g, l)].spec_tag # {}
           /\ \A l, m \in Aimed(g) : Port(g, l) = Port(g, m) => l = m
           /\ o3' \in [O3Slots -> O3Row \cup {NoRow}]
           /\ track_ptr' = IF Aimed(g) = {} THEN track_ptr ELSE NextTrack
           /\ rolls <=> Aimed(g) # {} /\ track_ptr = LastTrack
<1> DEFINE R == RowsOf(done)
           taken == Entries(g, R)
           issued == IssuedBy(done)
           lane(i) == {k \in DOMAIN taken : PortRow(k) = i}
<1>1. /\ StationTyped /\ g \in Landing
      /\ O3Update(taken, issued, R, suc)
  BY Typed DEF FlowOf, Flow, IssuedBy
<1>2. /\ taken = << >> <=> Aimed(g) = {}
      /\ \A k \in DOMAIN taken : \E l \in Aimed(g) : k = Before(Aimed(g), l) + 1
      /\ \A l \in Aimed(g) :
            /\ Before(Aimed(g), l) + 1 \in DOMAIN taken
            /\ taken[Before(Aimed(g), l) + 1] = Entry(g, l, R)
      /\ \A l \in Aimed(g) : Port(g, l) \in Free
      /\ \A l, m \in Aimed(g) : Port(g, l) = Port(g, m) => l = m
      /\ \A k, j \in DOMAIN taken : PortRow(k) = PortRow(j) => k = j
  BY <1>1, EntriesOfLanes
<1>3. issued \subseteq Held
  <2>1. \A u \in Units : Pick(u) \subseteq Held
    BY <1>1, Picks DEF Issuable, SlotReady, Held
  <2>2. QED
    BY <2>1 DEF IssuedBy, Taking
<1> HIDE DEF taken
<1>4. /\ \A i \in O3Slots : o3'[i] =
            IF lane(i) # {}
            THEN [taken[CHOOSE k \in lane(i) : TRUE] EXCEPT !.track = track_ptr, !.is_lower = FALSE]
            ELSE IF i \in Held \ issued
            THEN Resolved([Woken(o3[i], R) EXCEPT !.is_lower = @ \/ Rolls(taken)], suc)
            ELSE NoRow
      /\ DOMAIN o3' = O3Slots /\ o3' = [i \in O3Slots |-> o3'[i]]
      /\ track_ptr' = IF taken = << >> THEN track_ptr ELSE NextTrack
  BY <1>1 DEF O3Update
<1>5. ASSUME NEW l \in Aimed(g)
      PROVE  /\ Port(g, l) \in O3Slots \ Held
             /\ LandsAs(o3'[Port(g, l)], g, l, R)
             /\ o3'[Port(g, l)].is_spec <=> o3'[Port(g, l)].spec_tag # {}
  <2> DEFINE k == Before(Aimed(g), l) + 1
             i == Port(g, l)
  <2>1. k \in DOMAIN taken /\ PortRow(k) = i /\ taken[k] = Entry(g, l, R)
    BY <1>2 DEF Port
  <2>2. i \in O3Slots /\ i \notin Held
    BY <1>2 DEF Free
  <2> HIDE DEF k, i
  <2>3. lane(i) = {k}
    BY <1>2, <2>1
  <2>4. (CHOOSE j \in lane(i) : TRUE) = k
    BY <2>3
  <2> HIDE DEF lane
  <2>5. o3'[i] = [taken[k] EXCEPT !.track = track_ptr, !.is_lower = FALSE]
    BY <1>4, <2>2, <2>3, <2>4
  <2>6. o3'[i] = Landed(g, l, R)
    BY <2>1, <2>5 DEF Landed
  <2>7. LandsAs(o3'[i], g, l, R) /\ (o3'[i].is_spec <=> o3'[i].spec_tag # {})
    BY <2>6, EntryLands
  <2>8. QED
    BY <2>2, <2>7 DEF i
<1>6. \A i \in O3Slots : lane(i) # {} <=> \E l \in Aimed(g) : i = Port(g, l)
  BY <1>2 DEF Port
<1> HIDE DEF lane
<1>7. rolls \in BOOLEAN /\ rolls = Rolls(taken)
  BY DEF taken, Rolls
<1>8. ASSUME NEW i \in Held \ issued
      PROVE  BecomesRow(o3'[i], o3[i], R, rolls, suc)
  <2>1. i \in O3Slots /\ lane(i) = {}
    BY <1>1, <1>5, <1>6, HeldIsTyped
  <2>2. /\ o3[i] \in O3Row /\ (o3[i].is_spec <=> o3[i].spec_tag # {})
    BY <1>1, HeldIsTyped DEF PairsSound, Follows
  <2>3. ASSUME NEW e \in O3Row, e = o3[i], NEW w, w = Woken(e, R),
               NEW a, a = Aged(w, rolls), NEW r, r = Resolved(a, suc)
        PROVE  BecomesRow(r, e, R, rolls, suc)
    <3>1. /\ w \in O3Row
          /\ w.kind = e.kind /\ w.rob_des_idx = e.rob_des_idx /\ w.pr = e.pr
          /\ w.is_lower = e.is_lower /\ w.track = e.track
          /\ w.spec_tag = e.spec_tag /\ w.is_spec = e.is_spec
          /\ w.ready <=> e.ready \/ e.pr \in R
      BY <2>3, RowWakes
    <3>2. /\ a \in O3Row
          /\ a.kind = w.kind /\ a.rob_des_idx = w.rob_des_idx /\ a.pr = w.pr
          /\ a.ready = w.ready /\ a.track = w.track
          /\ a.spec_tag = w.spec_tag /\ a.is_spec = w.is_spec
          /\ a.is_lower <=> w.is_lower \/ rolls
      BY <1>7, <2>3, <3>1, RowAges
    <3>3. a.is_spec <=> a.spec_tag # {}
      BY <2>2, <2>3, <3>1, <3>2
    <3>4. /\ r \in O3Row
          /\ r.kind = a.kind /\ r.rob_des_idx = a.rob_des_idx /\ r.pr = a.pr
          /\ r.ready = a.ready /\ r.is_lower = a.is_lower /\ r.track = a.track
          /\ r.spec_tag = a.spec_tag \ suc /\ (r.is_spec <=> r.spec_tag # {})
      BY <2>3, <3>2, <3>3, RowResolves
    <3>5. (r.ready <=> e.ready \/ e.pr \in R) /\ (r.is_lower <=> e.is_lower \/ rolls)
      BY <3>1, <3>2, <3>4
    <3>6. /\ r.kind = e.kind /\ r.rob_des_idx = e.rob_des_idx /\ r.pr = e.pr
          /\ r.track = e.track /\ r.spec_tag = e.spec_tag \ suc
      BY <3>1, <3>2, <3>4
    <3>7. QED
      BY <3>4, <3>5, <3>6 DEF BecomesRow
  <2>4. o3'[i] = Resolved(Aged(Woken(o3[i], R), rolls), suc)
    BY <1>4, <1>7, <2>1 DEF Aged
  <2>5. QED
    BY <2>2, <2>3, <2>4
<1>9. ASSUME NEW i \in O3Slots, lane(i) = {}, i \notin Held \ issued PROVE o3'[i] = NoRow
  BY <1>4, <1>9
<1>10. ASSUME NEW i \in O3Slots
       PROVE  /\ i \in (Held \ issued) \cup {Port(g, l) : l \in Aimed(g)} =>
                    o3'[i] \in O3Row
              /\ i \notin (Held \ issued) \cup {Port(g, l) : l \in Aimed(g)} =>
                    o3'[i] = NoRow
  <2>1. i \in Held \ issued => o3'[i] \in O3Row
    BY <1>8 DEF BecomesRow
  <2>2. \A l \in Aimed(g) : i = Port(g, l) => o3'[i] \in O3Row
    BY <1>5 DEF LandsAs
  <2>3. QED
    BY <1>6, <1>9, <2>1, <2>2
<1>11. Held' = (Held \ issued) \cup {Port(g, l) : l \in Aimed(g)}
  <2>1. \A r \in O3Row : r.valid
    BY DEF O3Row
  <2>2. ~NoRow.valid
    BY DEF NoRow
  <2>3. (Held \ issued) \cup {Port(g, l) : l \in Aimed(g)} \subseteq O3Slots
    BY <1>1, <1>5, HeldIsTyped
  <2>4. Held' = {i \in O3Slots : o3'[i].valid}
    BY DEF Held
  <2>5. QED
    BY <1>10, <2>1, <2>2, <2>3, <2>4
<1>12. o3' \in [O3Slots -> O3Row \cup {NoRow}]
  <2>1. \A i \in O3Slots : o3'[i] \in O3Row \cup {NoRow}
    BY <1>10
  <2>2. QED
    BY <1>4, <2>1
<1>13. track_ptr' = IF Aimed(g) = {} THEN track_ptr ELSE NextTrack
  BY <1>2, <1>4
<1>14. rolls <=> Aimed(g) # {} /\ track_ptr = LastTrack
  BY <1>2, <1>7 DEF Rolls, LastTrack
<1>15. QED
  BY <1>2, <1>3, <1>5, <1>8, <1>11, <1>12, <1>13, <1>14

(* The units after the cycle.                                              *)
LEMMA FlowUnits ==
    ASSUME TypeOK, RowsSound, PairsSound,
           NEW done, NEW g, NEW D, NEW suc, FlowOf(done, g, D, suc)
    PROVE  /\ exec' \in [Units -> Record \cup {NoRow}]
           /\ Busy' = Taking(done) \cup (Busy \ done)
           /\ Taking(done) \cap (Busy \ done) = {}
           /\ \A u \in Taking(done) :
                 u \in Units /\ \E e \in Pick(u) : BecomesRecord(exec'[u], o3[e], suc)
           /\ \A u \in Busy \ done : BecomesRecord(exec'[u], exec[u], suc)
<1>1. /\ StationTyped
      /\ exec' = [u \in Units |->
            IF u \in Taking(done) THEN IssuedMasked(CHOOSE i \in Pick(u) : TRUE, suc)
            ELSE IF u \in Busy \ done THEN Resolved(exec[u], suc)
            ELSE NoRow]
  BY Typed DEF FlowOf, Flow
<1>2. Taking(done) \subseteq Units /\ Taking(done) \cap (Busy \ done) = {} /\ Busy \subseteq Units
  BY DEF Taking, Busy
<1>3. DOMAIN exec' = Units /\ exec' = [u \in Units |-> exec'[u]]
  BY <1>1
<1>4. \A u \in Taking(done) : exec'[u] = IssuedMasked(CHOOSE i \in Pick(u) : TRUE, suc)
  BY <1>1, <1>2
<1>5. \A u \in Busy \ done : exec'[u] = Resolved(exec[u], suc)
  BY <1>1, <1>2
<1>6. \A u \in Units : u \notin Taking(done) \cup (Busy \ done) => exec'[u] = NoRow
  BY <1>1
<1> HIDE <1>1
<1>7. ASSUME NEW u \in Taking(done)
      PROVE  \E e \in Pick(u) : BecomesRecord(exec'[u], o3[e], suc)
  <2> DEFINE e == CHOOSE i \in Pick(u) : TRUE
  <2>1. e \in Pick(u)
    BY DEF Taking
  <2>2. e \in Held
    BY <1>1, <1>2, <2>1, Picks DEF Issuable, SlotReady, Held
  <2>3. exec'[u] = Resolved(Issued(e), suc)
    BY <1>4 DEF IssuedMasked
  <2> HIDE DEF e
  <2>4. /\ o3[e].kind \in Kinds /\ o3[e].rob_des_idx \in Slots
        /\ o3[e].is_spec \in BOOLEAN /\ o3[e].spec_tag \in SUBSET Tags
        /\ o3[e].is_spec <=> o3[e].spec_tag # {}
    BY <1>1, <2>2, HeldIsTyped DEF PairsSound, Follows
  <2>5. /\ Issued(e) \in Record
        /\ Issued(e).kind = o3[e].kind /\ Issued(e).rob_des_idx = o3[e].rob_des_idx
        /\ Issued(e).is_spec = o3[e].is_spec /\ Issued(e).spec_tag = o3[e].spec_tag
    BY <2>4 DEF Issued, Record
  <2>6. BecomesRecord(exec'[u], o3[e], suc)
    <3>1. Issued(e).is_spec <=> Issued(e).spec_tag # {}
      BY <2>4, <2>5
    <3>2. /\ exec'[u] \in Record
          /\ exec'[u].kind = Issued(e).kind /\ exec'[u].rob_des_idx = Issued(e).rob_des_idx
          /\ exec'[u].spec_tag = Issued(e).spec_tag \ suc
          /\ (exec'[u].is_spec <=> exec'[u].spec_tag # {})
      BY <2>3, <2>5, <3>1, RecordResolves
    <3>3. QED
      BY <2>5, <3>2 DEF BecomesRecord
  <2>7. QED
    BY <2>1, <2>6
<1>8. ASSUME NEW u \in Busy \ done
      PROVE  BecomesRecord(exec'[u], exec[u], suc)
  <2>1. exec[u] \in Record /\ (exec[u].is_spec <=> exec[u].spec_tag # {})
    BY Typed DEF PairsSound, Follows
  <2>2. exec'[u] = Resolved(exec[u], suc)
    BY <1>5
  <2>3. /\ exec'[u] \in Record
        /\ exec'[u].kind = exec[u].kind /\ exec'[u].rob_des_idx = exec[u].rob_des_idx
        /\ exec'[u].spec_tag = exec[u].spec_tag \ suc
        /\ (exec'[u].is_spec <=> exec'[u].spec_tag # {})
    BY <2>1, <2>2, RecordResolves
  <2>4. QED
    BY <2>3 DEF BecomesRecord
<1>9. ASSUME NEW u \in Units
      PROVE  /\ u \in Taking(done) \cup (Busy \ done) => exec'[u] \in Record
             /\ u \notin Taking(done) \cup (Busy \ done) => exec'[u] = NoRow
  BY <1>6, <1>7, <1>8 DEF BecomesRecord
<1>10. exec' \in [Units -> Record \cup {NoRow}]
  <2>1. \A u \in Units : exec'[u] \in Record \cup {NoRow}
    BY <1>9
  <2>2. QED
    BY <1>3, <2>1
<1>11. Busy' = Taking(done) \cup (Busy \ done)
  <2>1. \A r \in Record : r.valid
    BY DEF Record
  <2>2. ~NoRow.valid
    BY DEF NoRow
  <2>3. Busy' = {u \in Units : exec'[u].valid}
    BY DEF Busy
  <2>4. QED
    BY <1>2, <1>9, <2>1, <2>2, <2>3
<1>12. QED
  BY <1>2, <1>7, <1>8, <1>10, <1>11

(* Where everything goes in a cycle, by the rows of the ROB it is for.     *)
Sound == TypeOK /\ RowsSound /\ Placed /\ PairsSound

(* Every entry and latch of the next cycle is one that stayed, one that    *)
(* a unit picked, or one that landed, and no row is left behind: where     *)
(* each row that waits is found before and after the cycle.                *)
LEMMA FlowMoves ==
    ASSUME Sound, NEW done, NEW g, NEW D, NEW suc, FlowOf(done, g, D, suc)
    PROVE  /\ \A k \in Held' :
                 \/ /\ k \in Held \ IssuedBy(done)
                    /\ o3'[k].rob_des_idx = EntryOf(k) /\ o3'[k].kind = o3[k].kind
                    /\ EntryOf(k) \in Waits \ RowsOf(done)
                 \/ \E l \in Aimed(g) :
                       /\ k = Port(g, l)
                       /\ o3'[k].rob_des_idx = SlotOf(g, l) /\ o3'[k].kind = g[l].kind
                       /\ SlotOf(g, l) \in Waits' \ InFlight
           /\ \A u \in Busy' :
                 \/ \E e \in Pick(u) :
                       /\ u \in Taking(done) /\ e \in Held /\ e \in IssuedBy(done)
                       /\ exec'[u].rob_des_idx = EntryOf(e) /\ exec'[u].kind = o3[e].kind
                       /\ o3[e].kind \in Runs[u] /\ o3[e].ready
                       /\ EntryOf(e) \in Waits \ RowsOf(done)
                 \/ /\ u \in Busy \ done
                    /\ exec'[u].rob_des_idx = RunBy(u) /\ exec'[u].kind = exec[u].kind
                    /\ RunBy(u) \in Waits \ RowsOf(done)
           /\ \A i \in Waits \ RowsOf(done) : i \in InFlight /\ i \in InFlight' /\ i \in Waits'
<1> USE DEF Sound
<1> DEFINE R == RowsOf(done)
           issued == IssuedBy(done)
<1>1. /\ g \in Landing /\ done \subseteq Busy /\ StationTyped
      /\ Aimed(g) \in SUBSET Valid(g) /\ Waits \subseteq InFlight
  BY Typed, LaneKinds DEF FlowOf, Waits
<1>2. /\ issued \subseteq Held
      /\ Held' = (Held \ issued) \cup {Port(g, l) : l \in Aimed(g)}
      /\ \A k \in Held \ issued : \E rolls : BecomesRow(o3'[k], o3[k], R, rolls, suc)
      /\ \A l \in Aimed(g) : LandsAs(o3'[Port(g, l)], g, l, R)
  BY FlowStation
<1>3. /\ Busy' = Taking(done) \cup (Busy \ done)
      /\ \A u \in Taking(done) :
            u \in Units /\ \E e \in Pick(u) : BecomesRecord(exec'[u], o3[e], suc)
      /\ \A u \in Busy \ done : BecomesRecord(exec'[u], exec[u], suc)
  BY FlowUnits
<1>4. Waits \ R \subseteq InFlight' /\ Waits' = (Waits \ R) \cup {SlotOf(g, l) : l \in Aimed(g)}
  BY FlowSets
<1>5. \A i \in R : \E u \in done : i = RunBy(u)
  BY DEF RowsOf, RunBy
<1>6. \A k \in Held : EntryOf(k) \in Waits \ R
  BY <1>1, <1>5 DEF Placed
<1>7. \A u \in Busy \ done : RunBy(u) \in Waits \ R
  BY <1>1, <1>5 DEF Placed
<1>8. ASSUME NEW k \in Held \ issued
      PROVE  o3'[k].rob_des_idx = EntryOf(k) /\ o3'[k].kind = o3[k].kind
  BY <1>2 DEF BecomesRow, EntryOf
<1>9. ASSUME NEW l \in Aimed(g)
      PROVE  /\ o3'[Port(g, l)].rob_des_idx = SlotOf(g, l) /\ o3'[Port(g, l)].kind = g[l].kind
             /\ SlotOf(g, l) \in Waits' \ InFlight
  <2>1. SlotOf(g, l) \notin InFlight /\ SlotOf(g, l) \in Waits'
    BY <1>1, <1>4, FlowRows
  <2>2. QED
    BY <1>2, <2>1 DEF LandsAs
<1>10. ASSUME NEW u \in Taking(done)
       PROVE  \E e \in Pick(u) :
                 /\ u \in Taking(done) /\ e \in Held /\ e \in issued
                 /\ exec'[u].rob_des_idx = EntryOf(e) /\ exec'[u].kind = o3[e].kind
                 /\ o3[e].kind \in Runs[u] /\ o3[e].ready
                 /\ EntryOf(e) \in Waits \ R
  <2>1. PICK e \in Pick(u) : u \in Units /\ BecomesRecord(exec'[u], o3[e], suc)
    BY <1>3
  <2>2. e \in issued
    BY <2>1 DEF IssuedBy
  <2>3. e \in Held /\ EntryOf(e) \in Waits \ R
    BY <1>2, <1>6, <2>2
  <2>4. o3[e].kind \in Runs[u] /\ o3[e].ready
    BY <1>1, <2>1, Picks DEF Issuable, SlotReady
  <2>5. exec'[u].rob_des_idx = EntryOf(e) /\ exec'[u].kind = o3[e].kind
    BY <2>1 DEF BecomesRecord, EntryOf
  <2>6. QED
    BY <2>2, <2>3, <2>4, <2>5
<1>11. ASSUME NEW u \in Busy \ done
       PROVE  exec'[u].rob_des_idx = RunBy(u) /\ exec'[u].kind = exec[u].kind
  BY <1>3 DEF BecomesRecord, RunBy
<1>12. \A i \in Waits \ R : i \in InFlight /\ i \in InFlight' /\ i \in Waits'
  BY <1>1, <1>4
<1>13. ASSUME NEW k \in Held'
       PROVE  \/ /\ k \in Held \ issued
                 /\ o3'[k].rob_des_idx = EntryOf(k) /\ o3'[k].kind = o3[k].kind
                 /\ EntryOf(k) \in Waits \ R
              \/ \E l \in Aimed(g) :
                    /\ k = Port(g, l)
                    /\ o3'[k].rob_des_idx = SlotOf(g, l) /\ o3'[k].kind = g[l].kind
                    /\ SlotOf(g, l) \in Waits' \ InFlight
  <2>1. CASE k \in Held \ issued
    BY <1>6, <1>8, <2>1
  <2>2. CASE \E l \in Aimed(g) : k = Port(g, l)
    BY <1>9, <2>2
  <2>3. QED
    BY <1>2, <2>1, <2>2
<1>14. ASSUME NEW u \in Busy'
       PROVE  \/ \E e \in Pick(u) :
                    /\ u \in Taking(done) /\ e \in Held /\ e \in issued
                    /\ exec'[u].rob_des_idx = EntryOf(e) /\ exec'[u].kind = o3[e].kind
                    /\ o3[e].kind \in Runs[u] /\ o3[e].ready
                    /\ EntryOf(e) \in Waits \ R
              \/ /\ u \in Busy \ done
                 /\ exec'[u].rob_des_idx = RunBy(u) /\ exec'[u].kind = exec[u].kind
                 /\ RunBy(u) \in Waits \ R
  BY <1>3, <1>7, <1>10, <1>11
<1>15. QED
  BY <1>12, <1>13, <1>14

(* Places stay one to one in such a cycle.                                 *)
LEMMA FlowPlaces ==
    ASSUME Sound, NEW done, NEW g, NEW D, NEW suc, FlowOf(done, g, D, suc)
    PROVE  Placed'
<1> USE DEF Sound
<1> DEFINE R == RowsOf(done)
           issued == IssuedBy(done)
<1>1. /\ g \in Landing /\ done \subseteq Busy /\ StationTyped
      /\ Aimed(g) \in SUBSET Valid(g) /\ Waits \subseteq InFlight
  BY Typed, LaneKinds DEF FlowOf, Waits
<1>2. \A k : EntryOf(k)' = o3'[k].rob_des_idx
  BY DEF EntryOf
<1>3. \A u : RunBy(u)' = exec'[u].rob_des_idx
  BY DEF RunBy
<1>4. \A i \in Waits \ R : i \in InFlight /\ i \in InFlight' /\ i \in Waits'
  BY FlowMoves
<1>5. \A i \in Waits \ R : table'[i].uop = table[i].uop
  BY <1>4, FlowRows
<1>6. \A l \in Aimed(g) : table'[SlotOf(g, l)].uop = g[l]
  <2>1. \A l \in Aimed(g) : table'[SlotOf(g, l)] = RobRow(g, l)
    BY <1>1, FlowRows
  <2>2. \A l : RobRow(g, l).uop = g[l]
    BY DEF RobRow
  <2>3. QED
    BY <2>1, <2>2
<1>7. \A l, m \in Aimed(g) : SlotOf(g, l) = SlotOf(g, m) => l = m
  BY <1>1, FlowRows
<1>8. /\ \A k \in Held : EntryOf(k) \in Waits /\ o3[k].kind = table[EntryOf(k)].uop.kind
      /\ \A u \in Busy : /\ RunBy(u) \in Waits
                         /\ exec[u].kind = table[RunBy(u)].uop.kind
                         /\ exec[u].kind \in Runs[u]
      /\ \A i \in Waits : (\E k \in Held : EntryOf(k) = i) \/ (\E u \in Busy : RunBy(u) = i)
      /\ \A j, k \in Held : EntryOf(j) = EntryOf(k) => j = k
      /\ \A u, v \in Busy : RunBy(u) = RunBy(v) => u = v
      /\ \A k \in Held, u \in Busy : EntryOf(k) # RunBy(u)
  BY DEF Placed
<1> DEFINE stays(k) == /\ k \in Held \ issued
                       /\ o3'[k].rob_des_idx = EntryOf(k) /\ o3'[k].kind = o3[k].kind
                       /\ EntryOf(k) \in Waits \ R
           lands(k, l) == /\ k = Port(g, l)
                          /\ o3'[k].rob_des_idx = SlotOf(g, l) /\ o3'[k].kind = g[l].kind
                          /\ SlotOf(g, l) \in Waits' \ InFlight
           starts(u, e) == /\ u \in Taking(done) /\ e \in Held /\ e \in issued
                           /\ exec'[u].rob_des_idx = EntryOf(e) /\ exec'[u].kind = o3[e].kind
                           /\ o3[e].kind \in Runs[u]
                           /\ EntryOf(e) \in Waits \ R
           runs(u) == /\ u \in Busy \ done
                      /\ exec'[u].rob_des_idx = RunBy(u) /\ exec'[u].kind = exec[u].kind
                      /\ RunBy(u) \in Waits \ R
<1>9. \A k \in Held' : stays(k) \/ \E l \in Aimed(g) : lands(k, l)
  BY FlowMoves
<1>10. \A u \in Busy' : (\E e \in Pick(u) : starts(u, e)) \/ runs(u)
  BY FlowMoves
<1>11. /\ \A u \in Units : \A i, j \in Pick(u) : i = j
       /\ \A u, v \in Units : u # v => Pick(u) \cap Pick(v) = {}
       /\ Taking(done) \subseteq Units
  BY <1>1, Picks DEF Taking
<1>12. ASSUME NEW k \in Held'
       PROVE  /\ o3'[k].rob_des_idx \in Waits'
              /\ o3'[k].kind = table'[o3'[k].rob_des_idx].uop.kind
  <2>1. CASE stays(k)
    BY <1>4, <1>5, <1>8, <2>1
  <2>2. ASSUME NEW l \in Aimed(g), lands(k, l)
        PROVE  /\ o3'[k].rob_des_idx \in Waits'
               /\ o3'[k].kind = table'[o3'[k].rob_des_idx].uop.kind
    BY <1>6, <2>2
  <2>3. QED
    BY <1>9, <2>1, <2>2
<1>13. ASSUME NEW u \in Busy'
       PROVE  /\ exec'[u].rob_des_idx \in Waits'
              /\ exec'[u].kind = table'[exec'[u].rob_des_idx].uop.kind
              /\ exec'[u].kind \in Runs[u]
  <2>1. ASSUME NEW e, starts(u, e)
        PROVE  /\ exec'[u].rob_des_idx \in Waits'
               /\ exec'[u].kind = table'[exec'[u].rob_des_idx].uop.kind
               /\ exec'[u].kind \in Runs[u]
    BY <1>4, <1>5, <1>8, <2>1
  <2>2. CASE runs(u)
    BY <1>4, <1>5, <1>8, <2>2
  <2>3. QED
    BY <1>10, <2>1, <2>2
<1>14. ASSUME NEW i \in Waits'
       PROVE  (\E k \in Held' : o3'[k].rob_des_idx = i) \/ (\E u \in Busy' : exec'[u].rob_des_idx = i)
  <2>1. /\ Waits' = (Waits \ R) \cup {SlotOf(g, l) : l \in Aimed(g)}
        /\ Held' = (Held \ issued) \cup {Port(g, l) : l \in Aimed(g)}
        /\ Busy' = Taking(done) \cup (Busy \ done)
        /\ \A l \in Aimed(g) : LandsAs(o3'[Port(g, l)], g, l, R)
    BY FlowSets, FlowStation, FlowUnits
  <2>2. ASSUME NEW l \in Aimed(g), i = SlotOf(g, l) PROVE \E k \in Held' : o3'[k].rob_des_idx = i
    <3>1. Port(g, l) \in Held' /\ o3'[Port(g, l)].rob_des_idx = i
      BY <2>1, <2>2 DEF LandsAs
    <3>2. QED
      BY <3>1
  <2>3. ASSUME NEW k \in Held, EntryOf(k) = i, i \in Waits \ R
        PROVE  \/ \E j \in Held' : o3'[j].rob_des_idx = i
               \/ \E u \in Busy' : exec'[u].rob_des_idx = i
    <3>1. CASE k \notin issued
      <4>1. k \in Held' /\ \E rolls : BecomesRow(o3'[k], o3[k], R, rolls, suc)
        BY <2>1, <3>1, FlowStation
      <4>2. o3'[k].rob_des_idx = i
        BY <2>3, <4>1 DEF BecomesRow, EntryOf
      <4>3. QED
        BY <4>1, <4>2
    <3>2. CASE k \in issued
      <4>1. PICK u \in Taking(done) : k \in Pick(u)
        BY <3>2 DEF IssuedBy
      <4>2. u \in Busy' /\ u \in Units
        BY <1>11, <2>1, <4>1
      <4>3. PICK e \in Pick(u) : BecomesRecord(exec'[u], o3[e], suc)
        BY <4>1, FlowUnits
      <4>4. e = k
        BY <1>11, <4>1, <4>2, <4>3
      <4>5. exec'[u].rob_des_idx = i
        BY <2>3, <4>3, <4>4 DEF BecomesRecord, EntryOf
      <4>6. QED
        BY <4>2, <4>5
    <3>3. QED
      BY <3>1, <3>2
  <2>4. ASSUME NEW u \in Busy, RunBy(u) = i, i \in Waits \ R
        PROVE  \E v \in Busy' : exec'[v].rob_des_idx = i
    <3>1. u \notin done
      BY <2>4 DEF RowsOf, RunBy
    <3>2. u \in Busy' /\ BecomesRecord(exec'[u], exec[u], suc)
      BY <2>1, <3>1, FlowUnits
    <3>3. exec'[u].rob_des_idx = i
      BY <2>4, <3>2 DEF BecomesRecord, RunBy
    <3>4. QED
      BY <3>2, <3>3
  <2>5. QED
    BY <1>8, <2>1, <2>2, <2>3, <2>4
<1> HIDE DEF issued, R
<1>15. ASSUME NEW j \in Held', NEW k \in Held', o3'[j].rob_des_idx = o3'[k].rob_des_idx
       PROVE  j = k
  <2>1. CASE stays(j) /\ stays(k)
    BY <1>8, <1>15, <2>1
  <2>2. ASSUME NEW l \in Aimed(g), lands(j, l), stays(k) PROVE FALSE
    BY <1>4, <1>15, <2>2
  <2>3. ASSUME NEW l \in Aimed(g), lands(k, l), stays(j) PROVE FALSE
    BY <1>4, <1>15, <2>3
  <2>4. ASSUME NEW l \in Aimed(g), lands(j, l), NEW m \in Aimed(g), lands(k, m) PROVE j = k
    BY <1>7, <1>15, <2>4
  <2> HIDE DEF stays, lands
  <2>5. QED
    BY <1>9, <2>1, <2>2, <2>3, <2>4
<1>16. ASSUME NEW u \in Busy', NEW v \in Busy', exec'[u].rob_des_idx = exec'[v].rob_des_idx
       PROVE  u = v
  <2>1. ASSUME NEW e \in Pick(u), starts(u, e), NEW f \in Pick(v), starts(v, f) PROVE u = v
    <3>1. e = f
      BY <1>8, <1>16, <2>1
    <3>2. QED
      BY <1>11, <2>1, <3>1
  <2>2. ASSUME NEW e, starts(u, e), runs(v) PROVE FALSE
    BY <1>8, <1>16, <2>2
  <2>3. ASSUME NEW e, starts(v, e), runs(u) PROVE FALSE
    BY <1>8, <1>16, <2>3
  <2>4. CASE runs(u) /\ runs(v)
    BY <1>8, <1>16, <2>4
  <2> HIDE DEF starts, runs
  <2>5. QED
    BY <1>10, <2>1, <2>2, <2>3, <2>4
<1>17. ASSUME NEW k \in Held', NEW u \in Busy' PROVE o3'[k].rob_des_idx # exec'[u].rob_des_idx
  <2>1. ASSUME stays(k), NEW e, starts(u, e) PROVE o3'[k].rob_des_idx # exec'[u].rob_des_idx
    BY <1>8, <2>1
  <2>2. ASSUME stays(k), runs(u) PROVE o3'[k].rob_des_idx # exec'[u].rob_des_idx
    BY <1>8, <2>2
  <2>3. ASSUME NEW l, lands(k, l), NEW e, starts(u, e)
        PROVE  o3'[k].rob_des_idx # exec'[u].rob_des_idx
    BY <1>4, <2>3
  <2>4. ASSUME NEW l, lands(k, l), runs(u) PROVE o3'[k].rob_des_idx # exec'[u].rob_des_idx
    BY <1>4, <2>4
  <2> HIDE DEF stays, lands, starts, runs
  <2>5. QED
    BY <1>9, <1>10, <2>1, <2>2, <2>3, <2>4
<1>18. QED
  BY <1>2, <1>3, <1>12, <1>13, <1>14, <1>15, <1>16, <1>17 DEF Placed

(* A pair after a step is right when it is the tag of its row's number.    *)
LEMMA FollowsNext ==
    /\ \A k, i :
          i = o3'[k].rob_des_idx /\ o3'[k].spec_tag = PairTag(i)'
            /\ (o3'[k].is_spec <=> o3'[k].spec_tag # {}) => Follows(o3[k])'
    /\ \A u, i :
          i = exec'[u].rob_des_idx /\ exec'[u].spec_tag = PairTag(i)'
            /\ (exec'[u].is_spec <=> exec'[u].spec_tag # {}) => Follows(exec[u])'
<1>1. ASSUME NEW k, NEW i, i = o3'[k].rob_des_idx, o3'[k].spec_tag = PairTag(i)',
             o3'[k].is_spec <=> o3'[k].spec_tag # {}
      PROVE  Follows(o3[k])'
  <2>1. PairTag(o3[k].rob_des_idx)' = PairTag(i)'
    BY <1>1 DEF PairTag, OpenAhead, LastOf, Age
  <2>2. QED
    BY <1>1, <2>1 DEF Follows
<1>2. ASSUME NEW u, NEW i, i = exec'[u].rob_des_idx, exec'[u].spec_tag = PairTag(i)',
             exec'[u].is_spec <=> exec'[u].spec_tag # {}
      PROVE  Follows(exec[u])'
  <2>1. PairTag(exec[u].rob_des_idx)' = PairTag(i)'
    BY <1>2 DEF PairTag, OpenAhead, LastOf, Age
  <2>2. QED
    BY <1>2, <2>1 DEF Follows
<1>3. QED
  BY <1>1, <1>2

(* Pairs stay right in such a cycle, those of the records issued in it too. *)
LEMMA FlowPairs ==
    ASSUME Sound, NEW done, NEW g, NEW D, NEW suc, FlowOf(done, g, D, suc)
    PROVE  PairsSound'
<1> USE DEF Sound
<1> DEFINE R == RowsOf(done)
           issued == IssuedBy(done)
<1>1. /\ g \in Landing /\ Aimed(g) \in SUBSET Valid(g)
      /\ \A k \in Held : Follows(o3[k])
      /\ \A u \in Busy : Follows(exec[u])
  BY LaneKinds DEF FlowOf, PairsSound
<1>2. \A i \in Waits \ R : PairTag(i)' = PairTag(i) \ suc
  <2>1. \A i \in Waits \ R : i \in InFlight /\ i \in InFlight'
    BY FlowMoves
  <2>2. QED
    BY <2>1, FlowTags
<1>3. ASSUME NEW k \in Held' PROVE Follows(o3[k])'
  <2>1. CASE k \in Held \ issued /\ EntryOf(k) \in Waits \ R
    <3>1. PICK rolls : BecomesRow(o3'[k], o3[k], R, rolls, suc)
      BY <2>1, FlowStation
    <3>2. o3[k].spec_tag = PairTag(EntryOf(k))
      BY <1>1, <2>1 DEF Follows, EntryOf
    <3>3. ASSUME NEW i, i = EntryOf(k) PROVE Follows(o3[k])'
      <4>1. /\ i = o3'[k].rob_des_idx /\ o3'[k].spec_tag = o3[k].spec_tag \ suc
            /\ o3'[k].is_spec <=> o3'[k].spec_tag # {}
        BY <3>1, <3>3 DEF BecomesRow, EntryOf
      <4>2. PairTag(i)' = o3[k].spec_tag \ suc
        BY <1>2, <2>1, <3>2, <3>3
      <4>3. QED
        BY <4>1, <4>2, FollowsNext
    <3>4. QED
      BY <3>3
  <2>2. ASSUME NEW l \in Aimed(g), k = Port(g, l) PROVE Follows(o3[k])'
    <3>1. /\ LandsAs(o3'[k], g, l, R) /\ (o3'[k].is_spec <=> o3'[k].spec_tag # {})
      BY <2>2, FlowStation
    <3>2. ASSUME NEW i, i = SlotOf(g, l) PROVE Follows(o3[k])'
      <4>1. i = o3'[k].rob_des_idx /\ o3'[k].spec_tag = TagInForce(Before(Branches(g), l))
        BY <3>1, <3>2 DEF LandsAs
      <4>2. i \in InFlight'
        BY <1>1, <3>2, FlowRows
      <4>3. PairTag(i)' = TagInForce(Before(Branches(g), l))
        BY <3>2, <4>2, FlowTags
      <4>4. QED
        BY <3>1, <4>1, <4>3, FollowsNext
    <3>3. QED
      BY <3>2
  <2>3. QED
    BY <2>1, <2>2, FlowMoves
<1>4. ASSUME NEW u \in Busy' PROVE Follows(exec[u])'
  <2>1. ASSUME NEW e \in Pick(u), u \in Taking(done), e \in Held, EntryOf(e) \in Waits \ R,
               BecomesRecord(exec'[u], o3[e], suc)
        PROVE  Follows(exec[u])'
    <3>1. o3[e].spec_tag = PairTag(EntryOf(e))
      BY <1>1, <2>1 DEF Follows, EntryOf
    <3>2. ASSUME NEW i, i = EntryOf(e) PROVE Follows(exec[u])'
      <4>1. /\ i = exec'[u].rob_des_idx /\ exec'[u].spec_tag = o3[e].spec_tag \ suc
            /\ exec'[u].is_spec <=> exec'[u].spec_tag # {}
        BY <2>1, <3>2 DEF BecomesRecord, EntryOf
      <4>2. PairTag(i)' = o3[e].spec_tag \ suc
        BY <1>2, <2>1, <3>1, <3>2
      <4>3. QED
        BY <4>1, <4>2, FollowsNext
    <3>3. QED
      BY <3>2
  <2>2. CASE u \in Busy \ done /\ RunBy(u) \in Waits \ R
    <3>1. BecomesRecord(exec'[u], exec[u], suc)
      BY <2>2, FlowUnits
    <3>2. exec[u].spec_tag = PairTag(RunBy(u))
      BY <1>1, <2>2 DEF Follows, RunBy
    <3>3. ASSUME NEW i, i = RunBy(u) PROVE Follows(exec[u])'
      <4>1. /\ i = exec'[u].rob_des_idx /\ exec'[u].spec_tag = exec[u].spec_tag \ suc
            /\ exec'[u].is_spec <=> exec'[u].spec_tag # {}
        BY <3>1, <3>3 DEF BecomesRecord, RunBy
      <4>2. PairTag(i)' = exec[u].spec_tag \ suc
        BY <1>2, <2>2, <3>2, <3>3
      <4>3. QED
        BY <4>1, <4>2, FollowsNext
    <3>4. QED
      BY <3>3
  <2>3. CASE u \in Taking(done)
    <3>1. PICK e \in Pick(u) : BecomesRecord(exec'[u], o3[e], suc)
      BY <2>3, FlowUnits
    <3>2. e \in Held /\ EntryOf(e) \in Waits \ R
      <4>1. PICK f \in Pick(u) : f \in Held /\ EntryOf(f) \in Waits \ R
        <5>1. u \notin Busy \ done
          BY <2>3, FlowUnits
        <5>2. QED
          BY <5>1, FlowMoves
      <4>2. u \in Units /\ StationTyped
        BY <2>3, Typed DEF Taking
      <4>3. e = f
        BY <4>2, Picks
      <4>4. QED
        BY <4>1, <4>3
    <3>3. QED
      BY <2>1, <2>3, <3>1, <3>2
  <2>4. QED
    BY <2>2, <2>3, FlowMoves
<1>5. QED
  BY <1>3, <1>4 DEF PairsSound

(* A row that stays is sourced after the cycle if it was before or if what *)
(* it reads is written in it; until then it reads what it read.            *)
LEMMA FlowSourced ==
    ASSUME Sound, NEW done, NEW g, NEW D, NEW suc, FlowOf(done, g, D, suc),
           NEW i \in InFlight, i \in InFlight'
    PROVE  /\ Sourced(i)' <=> Sourced(i) \/ LastOf(Ahead(i)) \in RowsOf(done)
           /\ ~Sourced(i)' => LastOf(Ahead(i))' = LastOf(Ahead(i))
<1> USE DEF Sound
<1> DEFINE R == RowsOf(done)
           A == Ahead(i)
           A2 == Ahead(i)'
<1>1. /\ g \in Landing /\ RobTyped /\ RobTyped'
      /\ Gone \in Nat /\ used_entry_cnt \in Nat
      /\ \A j \in Retiring : table[j].wb_fin
      /\ Retiring = {j \in Slots : Age(j) < Gone}
      /\ R \subseteq Waits /\ Waits \subseteq Unfinished /\ Unfinished \subseteq InFlight
      /\ D \subseteq Opened
  <2>1. RobTyped /\ RobTyped' /\ R \subseteq Waits /\ D \subseteq Opened /\ Unfinished \subseteq InFlight
    BY Typed, FlowTags, FlowSets
  <2>2. Gone \in Nat /\ used_entry_cnt \in Nat
    BY <2>1, RetiringIsPrefix, RobAssumption DEF RobTyped
  <2>3. QED
    BY <2>1, <2>2, RetiringIsPrefix DEF Waits, FlowOf
<1>2. /\ \A j \in InFlight : j \in Slots /\ Age(j) \in Int /\ Age(j) < used_entry_cnt
      /\ \A j \in InFlight : j \in InFlight' <=> j \notin Retiring
      /\ \A j \in InFlight : j \in InFlight' =>
            /\ AgeNext(j) = Age(j) - Gone
            /\ table'[j].uop = table[j].uop
            /\ table'[j].wb_fin <=> table[j].wb_fin \/ j \in R \cup D
      /\ \A j \in InFlight' : j \in InFlight \/ AgeNext(j) >= used_entry_cnt - Gone
  <2>1. \A j \in InFlight : j \in Slots /\ Age(j) \in Int /\ Age(j) < used_entry_cnt
    BY <1>1, SlotsAndAges, AgeIsFrom DEF RobTyped, InFlight, Slots
  <2>2. ASSUME NEW l \in Valid(g) PROVE AgeNext(SlotOf(g, l)) >= used_entry_cnt - Gone
    <3>1. /\ AgeNext(SlotOf(g, l)) = used_entry_cnt + Before(Valid(g), l) - Gone
          /\ Before(Valid(g), l) \in Nat
      <4>1. /\ Before(Valid(g), l) \in 0 .. Cardinality(Valid(g)) - 1
            /\ AgeNext(SlotOf(g, l)) = used_entry_cnt + Before(Valid(g), l) - Gone
        BY FlowRows
      <4>2. QED
        BY <4>1
    <3>2. QED
      BY <1>1, <3>1
  <2>3. \A j \in InFlight' : j \in InFlight \/ \E l \in Valid(g) : j = SlotOf(g, l)
    BY FlowRows
  <2>4. \A j \in InFlight' : j \in InFlight \/ AgeNext(j) >= used_entry_cnt - Gone
    BY <2>2, <2>3
  <2>5. QED
    BY <2>1, <2>4, FlowRows
<1>3. A2 = A \ Retiring
  <2>1. A2 = {j \in InFlight' : AgeNext(j) < AgeNext(i) /\ ~table'[j].uop.is_branch}
    BY DEF Ahead, Age, AgeNext, AgeFrom
  <2>2. A = {j \in InFlight : Age(j) < Age(i) /\ ~table[j].uop.is_branch}
    BY DEF Ahead
  <2>3. ASSUME NEW j \in InFlight'
        PROVE  /\ AgeNext(j) < AgeNext(i) => j \in InFlight
               /\ j \in InFlight => (AgeNext(j) < AgeNext(i) <=> Age(j) < Age(i))
    <3>1. AgeNext(i) = Age(i) - Gone /\ Age(i) \in Int /\ Age(i) < used_entry_cnt
      BY <1>2
    <3>2. CASE j \in InFlight
      <4>1. AgeNext(j) = Age(j) - Gone /\ Age(j) \in Int
        BY <1>2, <3>2
      <4>2. QED
        BY <1>1, <3>1, <3>2, <4>1
    <3>3. CASE j \notin InFlight
      <4>1. AgeNext(j) >= used_entry_cnt - Gone
        BY <1>2, <3>3
      <4>2. AgeNext(j) \in Int
        <5>1. \A k \in Slots : AgeFrom(com_ptr', k) \in Int
          BY <1>1, SlotsAndAges DEF RobTyped, Slots
        <5>2. j \in Slots
          BY DEF InFlight
        <5>3. QED
          BY <5>1, <5>2 DEF AgeNext
      <4>3. QED
        BY <1>1, <3>1, <3>3, <4>1, <4>2
    <3>4. QED
      BY <3>2, <3>3
  <2>4. QED
    BY <1>2, <2>1, <2>2, <2>3
<1>4. /\ Sourced(i) <=> ~table[i].uop.waits \/ A = {} \/ table[LastOf(A)].wb_fin
      /\ LastOf(Ahead(i))' = LastNext(A2)
      /\ Sourced(i)' <=> ~table[i].uop.waits \/ A2 = {} \/ table'[LastNext(A2)].wb_fin
  <2>1. \A j : Age(j)' = AgeNext(j)
    BY DEF Age, AgeNext, AgeFrom
  <2>2. LastOf(Ahead(i))' = LastNext(A2)
    BY <2>1 DEF LastOf, LastNext
  <2>3. table'[i].uop = table[i].uop
    BY <1>2
  <2>4. Sourced(i)' <=> ~table'[i].uop.waits \/ A2 = {} \/ table'[LastNext(A2)].wb_fin
    BY <2>2 DEF Sourced
  <2>5. QED
    BY <2>2, <2>3, <2>4 DEF Sourced
<1>5. A \in SUBSET InFlight /\ \A j \in A : j \notin Opened
  BY DEF Ahead, Opened
<1> HIDE DEF A, A2
<1>6. CASE A = {}
  <2>1. A2 = {}
    BY <1>3, <1>6
  <2>2. QED
    BY <1>4, <1>6, <2>1
<1>7. CASE A # {}
  <2> DEFINE p == LastOf(A)
  <2>1. p \in A /\ p \in InFlight /\ \A j \in A : Age(j) <= Age(p)
    BY <1>1, <1>5, <1>7, LastIsYoungest
  <2> HIDE DEF p
  <2>2. CASE p \in Retiring
    <3>1. A \subseteq Retiring
      <4>1. SUFFICES ASSUME NEW j \in A PROVE j \in Retiring
        OBVIOUS
      <4>2. j \in Slots /\ Age(j) \in Int /\ Age(p) \in Int /\ Age(j) <= Age(p) /\ Age(p) < Gone
        BY <1>1, <1>2, <1>5, <2>1, <2>2
      <4>3. QED
        BY <1>1, <4>2
    <3>2. A2 = {} /\ table[p].wb_fin
      BY <1>1, <1>3, <2>2, <3>1
    <3>3. QED
      BY <1>4, <3>2 DEF p
  <2>3. CASE p \notin Retiring
    <3>1. p \in A2 /\ p \in InFlight' /\ A2 \in SUBSET InFlight' /\ A2 \subseteq A
      BY <1>2, <1>3, <1>5, <2>1, <2>3
    <3>2. \A j \in A2 : AgeNext(j) <= AgeNext(p)
      <4>1. ASSUME NEW j \in A2 PROVE AgeNext(j) <= AgeNext(p)
        <5>1. /\ AgeNext(j) = Age(j) - Gone /\ AgeNext(p) = Age(p) - Gone
              /\ Age(j) \in Int /\ Age(p) \in Int /\ Age(j) <= Age(p)
          BY <1>2, <1>5, <2>1, <3>1
        <5>2. QED
          BY <1>1, <5>1
      <4>2. QED
        BY <4>1
    <3>3. LastNext(A2) = p
      BY <1>1, <3>1, <3>2, LastNextIsYoungest
    <3>4. table'[p].wb_fin <=> table[p].wb_fin \/ p \in R
      BY <1>1, <1>2, <1>5, <2>1, <3>1
    <3>5. Sourced(i)' <=> ~table[i].uop.waits \/ table[p].wb_fin \/ p \in R
      BY <1>4, <3>1, <3>3, <3>4
    <3>6. Sourced(i) <=> ~table[i].uop.waits \/ table[p].wb_fin
      BY <1>4, <1>7 DEF p
    <3>7. LastOf(Ahead(i))' = p /\ LastOf(Ahead(i)) = p
      BY <1>4, <3>3 DEF p, A
    <3>8. QED
      BY <3>5, <3>6, <3>7
  <2>4. QED
    BY <2>2, <2>3
<1>8. QED
  BY <1>6, <1>7

(* A lane lands ready exactly when what it reads exists by the end of the  *)
(* cycle, and its producer is the youngest writer ahead of it.             *)
LEMMA LaneSourced ==
    ASSUME Sound, NEW done, NEW g, NEW D, NEW suc, FlowOf(done, g, D, suc),
           NEW l \in Aimed(g), NEW i, i = SlotOf(g, l)
    PROVE  /\ Sourced(i)' <=>
                 Producer(g, l) \in (InFlight \ Unfinished) \cup RowsOf(done) \cup {Nobody}
           /\ ~Sourced(i)' => LastOf(Ahead(i))' = Producer(g, l)
<1> USE DEF Sound
<1> DEFINE R == RowsOf(done)
           used == used_entry_cnt
           num(m) == Before(Valid(g), m)
           ahead == {m \in Aimed(g) : m < l}
           writers == {j \in InFlight : ~table[j].uop.is_branch}
           A2 == Ahead(i)'
           p == Producer(g, l)
<1>1. /\ g \in Landing /\ RobTyped /\ RobTyped' /\ InFlight \subseteq Slots
      /\ Aimed(g) \in SUBSET Valid(g) /\ Valid(g) \in SUBSET Lanes /\ Aimed(g) \in SUBSET Lanes
      /\ Gone \in Nat /\ used \in Nat
      /\ \A j \in Retiring : table[j].wb_fin
      /\ Retiring = {j \in Slots : Age(j) < Gone}
      /\ R \subseteq Waits /\ Waits \subseteq Unfinished /\ Unfinished \subseteq InFlight
      /\ D \subseteq Opened
      /\ Aimed(g) = Valid(g) \ Branches(g)
      /\ \A m \in Valid(g) : m \in Branches(g) <=> g[m].is_branch
  <2>1. /\ RobTyped /\ RobTyped' /\ R \subseteq Waits /\ D \subseteq Opened
        /\ Unfinished \subseteq InFlight /\ InFlight \subseteq Slots
    BY Typed, FlowTags, FlowSets
  <2>2. Gone \in Nat /\ used \in Nat
    BY <2>1, RetiringIsPrefix, RobAssumption DEF RobTyped
  <2>3. g \in Landing
    BY DEF FlowOf
  <2>4. /\ Aimed(g) \in SUBSET Valid(g) /\ Valid(g) \in SUBSET Lanes
        /\ Aimed(g) = Valid(g) \ Branches(g)
        /\ \A m \in Valid(g) : m \in Branches(g) <=> g[m].is_branch
    BY <2>3, LaneKinds
  <2>5. QED
    BY <2>1, <2>2, <2>3, <2>4, RetiringIsPrefix DEF Waits
<1>2. /\ \A m \in Valid(g) : m \in Int /\ num(m) \in Nat
      /\ \A m, k \in Valid(g) : m < k <=> num(m) < num(k)
  <2>1. ASSUME NEW S, S = Valid(g)
        PROVE  /\ \A m \in S : m \in Nat /\ Before(S, m) \in 0 .. Cardinality(S) - 1
               /\ \A m, k \in S : m < k <=> Before(S, m) < Before(S, k)
    BY <1>1, <2>1, LaneNumbers
  <2>2. \A m \in Valid(g) : num(m) \in 0 .. Cardinality(Valid(g)) - 1 /\ m \in Nat
    BY <2>1
  <2>3. QED
    BY <2>1, <2>2
<1>3. ASSUME NEW m \in Valid(g)
      PROVE  /\ SlotOf(g, m) \in InFlight' \ InFlight
             /\ AgeNext(SlotOf(g, m)) = used + num(m) - Gone
             /\ table'[SlotOf(g, m)].uop = g[m] /\ ~table'[SlotOf(g, m)].wb_fin
  <2>1. /\ SlotOf(g, m) \in InFlight' \ InFlight
        /\ AgeNext(SlotOf(g, m)) = used + num(m) - Gone
        /\ table'[SlotOf(g, m)] = RobRow(g, m)
    BY FlowRows
  <2>2. RobRow(g, m).uop = g[m] /\ RobRow(g, m).wb_fin = FALSE
    BY DEF RobRow
  <2>3. QED
    BY <2>1, <2>2
<1>4. /\ \A j \in InFlight : j \in Slots /\ Age(j) \in Int /\ Age(j) < used
      /\ \A j \in InFlight : j \in InFlight' <=> j \notin Retiring
      /\ \A j \in InFlight : j \in InFlight' =>
            /\ AgeNext(j) = Age(j) - Gone
            /\ table'[j].uop = table[j].uop
            /\ table'[j].wb_fin <=> table[j].wb_fin \/ j \in R \cup D
      /\ \A j \in InFlight' : j \in InFlight \/ \E m \in Valid(g) : j = SlotOf(g, m)
  <2>1. \A j \in InFlight : j \in Slots /\ Age(j) \in Int /\ Age(j) < used
    BY <1>1, SlotsAndAges, AgeIsFrom DEF RobTyped, InFlight, Slots
  <2>2. QED
    BY <2>1, FlowRows
<1> HIDE DEF num, used
<1>5. i \in InFlight' /\ AgeNext(i) = used + num(l) - Gone /\ l \in Valid(g)
      /\ table'[i].uop = g[l]
  BY <1>1, <1>3
<1>6. \A j \in InFlight : j \in InFlight' => AgeNext(j) < AgeNext(i)
  <2>1. ASSUME NEW j \in InFlight, j \in InFlight' PROVE AgeNext(j) < AgeNext(i)
    <3>1. AgeNext(j) = Age(j) - Gone /\ Age(j) \in Int /\ Age(j) < used /\ num(l) \in Nat
      BY <1>2, <1>4, <1>5, <2>1
    <3>2. QED
      BY <1>1, <1>5, <3>1 DEF used
  <2>2. QED
    BY <2>1
<1>7. \A m, k \in Valid(g) : AgeNext(SlotOf(g, m)) < AgeNext(SlotOf(g, k)) <=> m < k
  <2>1. SUFFICES ASSUME NEW m \in Valid(g), NEW k \in Valid(g)
                 PROVE  AgeNext(SlotOf(g, m)) < AgeNext(SlotOf(g, k)) <=> m < k
    OBVIOUS
  <2>2. /\ AgeNext(SlotOf(g, m)) = used + num(m) - Gone
        /\ AgeNext(SlotOf(g, k)) = used + num(k) - Gone
        /\ num(m) \in Nat /\ num(k) \in Nat /\ (m < k <=> num(m) < num(k))
    BY <1>2, <1>3
  <2>3. QED
    BY <1>1, <2>2 DEF used
<1>8. A2 = (writers \ Retiring) \cup {SlotOf(g, m) : m \in ahead}
  <2>1. A2 = {j \in InFlight' : AgeNext(j) < AgeNext(i) /\ ~table'[j].uop.is_branch}
    BY DEF Ahead, Age, AgeNext, AgeFrom
  <2>2. ASSUME NEW j \in InFlight PROVE j \in A2 <=> j \in writers \ Retiring
    BY <1>4, <1>6, <2>1
  <2>3. ASSUME NEW m \in Valid(g) PROVE SlotOf(g, m) \in A2 <=> m \in ahead
    BY <1>1, <1>3, <1>5, <1>7, <2>1
  <2>4. A2 \subseteq InFlight'
    BY <2>1
  <2> HIDE DEF A2
  <2>5. A2 \subseteq (writers \ Retiring) \cup {SlotOf(g, m) : m \in ahead}
    <3>1. SUFFICES ASSUME NEW j \in A2
                   PROVE  j \in (writers \ Retiring) \cup {SlotOf(g, m) : m \in ahead}
      OBVIOUS
    <3>2. CASE j \in InFlight
      BY <2>2, <3>2
    <3>3. ASSUME NEW m \in Valid(g), j = SlotOf(g, m)
          PROVE  j \in {SlotOf(g, k) : k \in ahead}
      BY <2>3, <3>3
    <3>4. QED
      BY <1>4, <2>4, <3>2, <3>3
  <2>6. (writers \ Retiring) \subseteq A2
    BY <2>2
  <2>7. {SlotOf(g, m) : m \in ahead} \subseteq A2
    BY <1>1, <2>3
  <2>8. QED
    BY <2>5, <2>6, <2>7
<1>9. /\ LastOf(Ahead(i))' = LastNext(A2)
      /\ Sourced(i)' <=> ~g[l].waits \/ A2 = {} \/ table'[LastNext(A2)].wb_fin
  <2>1. \A j : Age(j)' = AgeNext(j)
    BY DEF Age, AgeNext, AgeFrom
  <2>2. LastOf(Ahead(i))' = LastNext(A2)
    BY <2>1 DEF LastOf, LastNext
  <2>3. Sourced(i)' <=> ~table'[i].uop.waits \/ A2 = {} \/ table'[LastNext(A2)].wb_fin
    BY <2>2 DEF Sourced
  <2>4. QED
    BY <1>5, <2>2, <2>3
<1>10. /\ p = IF ~g[l].waits THEN Nobody
             ELSE IF ahead # {} THEN SlotOf(g, CHOOSE m \in ahead : \A k \in ahead : k <= m)
             ELSE IF writers # {} THEN Latest(writers)
             ELSE Nobody
       /\ Nobody \notin Slots
  <2>1. Nobody \notin Slots
    BY RobAssumption DEF Nobody, Slots
  <2>2. QED
    BY <2>1 DEF Producer
<1>11. A2 \in SUBSET InFlight'
  <2>1. ahead \subseteq Valid(g)
    BY <1>1
  <2>2. {SlotOf(g, m) : m \in ahead} \subseteq InFlight'
    BY <1>3, <2>1
  <2>3. QED
    BY <1>4, <1>8, <2>2
<1> HIDE DEF p, A2
<1>12. CASE ~g[l].waits
  <2>1. p = Nobody
    BY <1>10, <1>12
  <2>2. Sourced(i)'
    BY <1>9, <1>12
  <2>3. QED
    BY <2>1, <2>2 DEF p
<1>13. CASE g[l].waits /\ ahead # {}
  <2> DEFINE m == CHOOSE m \in ahead : \A k \in ahead : k <= m
  <2>1. m \in ahead /\ \A k \in ahead : k <= m
    <3>1. ahead \in SUBSET Lanes
      BY <1>1
    <3>2. IsFiniteSet(ahead) /\ \A k \in ahead : k \in Int
      BY <3>1, LaneNumbers
    <3> HIDE DEF ahead
    <3>3. \E x \in ahead : \A k \in ahead : k <= x
      BY <1>13, <3>2, HighestExists
    <3>4. QED
      BY <3>3
  <2>2. p = SlotOf(g, m)
    BY <1>10, <1>13
  <2> HIDE DEF m
  <2>3. m \in Valid(g) /\ ahead \subseteq Valid(g)
    BY <1>1, <2>1
  <2>4. p \in A2 /\ p \in Slots /\ p \notin InFlight /\ ~table'[p].wb_fin
    <3>1. p \in InFlight' \ InFlight /\ ~table'[p].wb_fin
      BY <1>3, <2>2, <2>3
    <3>2. InFlight' \subseteq Slots
      BY DEF InFlight
    <3>3. QED
      BY <1>8, <2>1, <2>2, <3>1, <3>2
  <2>5. \A j \in A2 : AgeNext(j) <= AgeNext(p)
    <3>1. SUFFICES ASSUME NEW j \in A2 PROVE AgeNext(j) <= AgeNext(p)
      OBVIOUS
    <3>2. AgeNext(p) = used + num(m) - Gone /\ num(m) \in Nat
      BY <1>2, <1>3, <2>2, <2>3
    <3>3. CASE j \in InFlight
      <4>1. AgeNext(j) = Age(j) - Gone /\ Age(j) \in Int /\ Age(j) < used
        BY <1>4, <1>11, <3>3
      <4>2. QED
        BY <1>1, <3>2, <4>1 DEF used
    <3>4. ASSUME NEW k \in ahead, j = SlotOf(g, k) PROVE AgeNext(j) <= AgeNext(p)
      <4>1. AgeNext(j) = used + num(k) - Gone /\ num(k) \in Nat /\ k \in Int /\ m \in Int
            /\ (m < k <=> num(m) < num(k)) /\ k <= m
        BY <1>2, <1>3, <2>1, <2>3, <3>4
      <4>2. QED
        BY <1>1, <3>2, <4>1 DEF used
    <3>5. QED
      BY <1>8, <3>3, <3>4
  <2>6. LastNext(A2) = p
    BY <1>1, <1>11, <2>4, <2>5, LastNextIsYoungest
  <2>7. ~Sourced(i)'
    BY <1>9, <1>13, <2>4, <2>6
  <2>8. p \notin (InFlight \ Unfinished) \cup R \cup {Nobody}
    BY <1>1, <1>10, <2>4
  <2>9. QED
    BY <1>9, <2>6, <2>7, <2>8 DEF p
<1>14. CASE g[l].waits /\ ahead = {} /\ writers # {}
  <2>1. /\ p = Latest(writers) /\ p \in writers /\ \A j \in writers : Age(j) <= Age(p)
    <3>1. p = Latest(writers)
      BY <1>10, <1>14
    <3>2. writers \in SUBSET InFlight
      OBVIOUS
    <3>3. Latest(writers) = LastOf(writers)
      BY DEF Latest, LastOf
    <3> HIDE DEF writers
    <3>4. LastOf(writers) \in writers /\ \A j \in writers : Age(j) <= Age(LastOf(writers))
      BY <1>1, <1>14, <3>2, LastIsYoungest
    <3>5. QED
      BY <3>1, <3>3, <3>4
  <2>2. p \in InFlight /\ p \notin Opened /\ p \in Slots /\ p # Nobody
    BY <1>1, <1>10, <2>1 DEF Opened
  <2>3. A2 = writers \ Retiring
    BY <1>8, <1>14
  <2>4. p \in Unfinished <=> ~table[p].wb_fin
    BY <2>2 DEF Unfinished
  <2>5. CASE p \in Retiring
    <3>1. A2 = {}
      <4>1. SUFFICES ASSUME NEW j \in writers PROVE j \in Retiring
        BY <2>3
      <4>2. j \in Slots /\ Age(j) \in Int /\ Age(p) \in Int /\ Age(j) <= Age(p) /\ Age(p) < Gone
        BY <1>1, <1>4, <2>1, <2>2, <2>5
      <4>3. QED
        BY <1>1, <4>2
    <3>2. Sourced(i)' /\ p \notin Unfinished
      BY <1>1, <1>9, <2>4, <2>5, <3>1
    <3>3. QED
      BY <2>2, <3>2 DEF p
  <2>6. CASE p \notin Retiring
    <3>1. p \in A2 /\ p \in InFlight' /\ A2 \subseteq writers
      BY <1>4, <2>1, <2>2, <2>3, <2>6
    <3>2. \A j \in A2 : AgeNext(j) <= AgeNext(p)
      <4>1. SUFFICES ASSUME NEW j \in A2 PROVE AgeNext(j) <= AgeNext(p)
        OBVIOUS
      <4>2. /\ AgeNext(j) = Age(j) - Gone /\ AgeNext(p) = Age(p) - Gone
            /\ Age(j) \in Int /\ Age(p) \in Int /\ Age(j) <= Age(p)
        BY <1>4, <1>11, <2>1, <2>2, <3>1
      <4>3. QED
        BY <1>1, <4>2
    <3>3. LastNext(A2) = p
      BY <1>1, <1>11, <3>1, <3>2, LastNextIsYoungest
    <3>4. table'[p].wb_fin <=> table[p].wb_fin \/ p \in R
      BY <1>1, <1>4, <2>2, <3>1
    <3>5. Sourced(i)' <=> table[p].wb_fin \/ p \in R
      BY <1>9, <1>14, <3>1, <3>3, <3>4
    <3>6. QED
      BY <1>9, <2>2, <2>4, <3>3, <3>5 DEF p
  <2>7. QED
    BY <2>5, <2>6
<1>15. CASE g[l].waits /\ ahead = {} /\ writers = {}
  <2>1. p = Nobody /\ A2 = {}
    BY <1>8, <1>10, <1>15
  <2>2. Sourced(i)'
    BY <1>9, <2>1
  <2>3. QED
    BY <2>1, <2>2 DEF p
<1>16. QED
  BY <1>12, <1>13, <1>14, <1>15

(* A row's sources after a step, told of the row's number.                 *)
LEMMA SourcedNext ==
    /\ \A k, i : i = o3'[k].rob_des_idx =>
          /\ Sourced(EntryOf(k))' <=> Sourced(i)'
          /\ LastOf(Ahead(EntryOf(k)))' = LastOf(Ahead(i))'
    /\ \A u, i : i = exec'[u].rob_des_idx =>
          (Sourced(RunBy(u))' <=> Sourced(i)')
<1>1. ASSUME NEW k, NEW i, i = o3'[k].rob_des_idx
      PROVE  /\ Sourced(EntryOf(k))' <=> Sourced(i)'
             /\ LastOf(Ahead(EntryOf(k)))' = LastOf(Ahead(i))'
  <2>1. Ahead(EntryOf(k))' = Ahead(i)' /\ EntryOf(k)' = i
    BY <1>1 DEF Ahead, EntryOf, Age
  <2>2. LastOf(Ahead(EntryOf(k)))' = LastOf(Ahead(i))'
    BY <2>1 DEF LastOf
  <2>3. QED
    BY <2>1, <2>2 DEF Sourced
<1>2. ASSUME NEW u, NEW i, i = exec'[u].rob_des_idx
      PROVE  Sourced(RunBy(u))' <=> Sourced(i)'
  <2>1. Ahead(RunBy(u))' = Ahead(i)' /\ RunBy(u)' = i
    BY <1>2 DEF Ahead, RunBy, Age
  <2>2. LastOf(Ahead(RunBy(u)))' = LastOf(Ahead(i))'
    BY <2>1 DEF LastOf
  <2>3. QED
    BY <2>1, <2>2 DEF Sourced
<1>3. QED
  BY <1>1, <1>2

(* No broadcast is missed in such a cycle, by an entry that stays, one that *)
(* issues or one that lands.                                               *)
LEMMA FlowSources ==
    ASSUME Sound, SourcesSound, NEW done, NEW g, NEW D, NEW suc, FlowOf(done, g, D, suc)
    PROVE  SourcesSound'
<1> USE DEF Sound
<1> DEFINE R == RowsOf(done)
           issued == IssuedBy(done)
<1>1. /\ \A k \in Held : /\ o3[k].ready <=> Sourced(EntryOf(k))
                         /\ ~o3[k].ready => o3[k].pr = LastOf(Ahead(EntryOf(k)))
      /\ \A u \in Busy : Sourced(RunBy(u))
  BY DEF SourcesSound
<1>2. \A i \in Waits \ R : i \in InFlight /\ i \in InFlight'
  BY FlowMoves
<1>3. ASSUME NEW k \in Held'
      PROVE  /\ o3'[k].ready <=> Sourced(EntryOf(k))'
             /\ ~o3'[k].ready => o3'[k].pr = LastOf(Ahead(EntryOf(k)))'
  <2>1. CASE k \in Held \ issued /\ EntryOf(k) \in Waits \ R
    <3>1. PICK rolls : BecomesRow(o3'[k], o3[k], R, rolls, suc)
      BY <2>1, FlowStation
    <3>2. ASSUME NEW i, i = EntryOf(k)
          PROVE  /\ o3'[k].ready <=> Sourced(EntryOf(k))'
                 /\ ~o3'[k].ready => o3'[k].pr = LastOf(Ahead(EntryOf(k)))'
      <4>1. /\ i = o3'[k].rob_des_idx /\ o3'[k].pr = o3[k].pr
            /\ o3'[k].ready <=> o3[k].ready \/ o3[k].pr \in R
        BY <3>1, <3>2 DEF BecomesRow, EntryOf
      <4>2. i \in InFlight /\ i \in InFlight'
        BY <1>2, <2>1, <3>2
      <4>3. /\ Sourced(i)' <=> Sourced(i) \/ LastOf(Ahead(i)) \in R
            /\ ~Sourced(i)' => LastOf(Ahead(i))' = LastOf(Ahead(i))
        BY <4>2, FlowSourced
      <4>4. /\ o3[k].ready <=> Sourced(i)
            /\ ~o3[k].ready => o3[k].pr = LastOf(Ahead(i))
        BY <1>1, <2>1, <3>2
      <4>5. /\ Sourced(EntryOf(k))' <=> Sourced(i)'
            /\ LastOf(Ahead(EntryOf(k)))' = LastOf(Ahead(i))'
        BY <4>1, SourcedNext
      <4>6. QED
        BY <4>1, <4>3, <4>4, <4>5
    <3>3. QED
      BY <3>2
  <2>2. ASSUME NEW l \in Aimed(g), k = Port(g, l)
        PROVE  /\ o3'[k].ready <=> Sourced(EntryOf(k))'
               /\ ~o3'[k].ready => o3'[k].pr = LastOf(Ahead(EntryOf(k)))'
    <3>1. LandsAs(o3'[k], g, l, R)
      BY <2>2, FlowStation
    <3>2. ASSUME NEW i, i = SlotOf(g, l)
          PROVE  /\ o3'[k].ready <=> Sourced(EntryOf(k))'
                 /\ ~o3'[k].ready => o3'[k].pr = LastOf(Ahead(EntryOf(k)))'
      <4>1. /\ i = o3'[k].rob_des_idx /\ o3'[k].pr = Producer(g, l)
            /\ o3'[k].ready <=>
                  Producer(g, l) \in (InFlight \ Unfinished) \cup R \cup {Nobody}
        BY <3>1, <3>2 DEF LandsAs
      <4>2. /\ Sourced(i)' <=> Producer(g, l) \in (InFlight \ Unfinished) \cup R \cup {Nobody}
            /\ ~Sourced(i)' => LastOf(Ahead(i))' = Producer(g, l)
        BY <3>2, LaneSourced
      <4>3. /\ Sourced(EntryOf(k))' <=> Sourced(i)'
            /\ LastOf(Ahead(EntryOf(k)))' = LastOf(Ahead(i))'
        BY <4>1, SourcedNext
      <4>4. QED
        BY <4>1, <4>2, <4>3
    <3>3. QED
      BY <3>2
  <2>3. QED
    BY <2>1, <2>2, FlowMoves
<1>4. ASSUME NEW u \in Busy' PROVE Sourced(RunBy(u))'
  <2>1. ASSUME NEW i \in Waits \ R, i = exec'[u].rob_des_idx, Sourced(i)
        PROVE  Sourced(RunBy(u))'
    <3>1. Sourced(i)'
      BY <1>2, <2>1, FlowSourced
    <3>2. QED
      BY <2>1, <3>1, SourcedNext
  <2>2. ASSUME NEW e \in Held, exec'[u].rob_des_idx = EntryOf(e), o3[e].ready,
               EntryOf(e) \in Waits \ R
        PROVE  Sourced(RunBy(u))'
    BY <1>1, <2>1, <2>2
  <2>3. CASE u \in Busy /\ exec'[u].rob_des_idx = RunBy(u) /\ RunBy(u) \in Waits \ R
    BY <1>1, <2>1, <2>3
  <2>4. QED
    BY <2>2, <2>3, FlowMoves
<1>5. QED
  BY <1>3, <1>4 DEF SourcesSound

(* Where the counter goes.                                                 *)
LEMMA StampSteps ==
    ASSUME track_ptr \in Tracks
    PROVE  NextTrack = IF track_ptr = LastTrack THEN 0 ELSE track_ptr + 1
<1>1. LastTrack \in Nat /\ track_ptr \in 0 .. LastTrack
  BY StampsAreCounted
<1>2. NextTrack = (track_ptr + 1) % (LastTrack + 1)
  <2>1. 2^TrackWidth = LastTrack + 1
    <3>1. 2^TrackWidth \in Int
      BY RsvO3Assumption
    <3> DEFINE full == 2^TrackWidth
    <3>2. full \in Int /\ LastTrack = full - 1
      BY <3>1 DEF LastTrack
    <3> HIDE DEF full
    <3>3. full = LastTrack + 1
      BY <3>2
    <3>4. QED
      BY <3>3 DEF full
  <2>2. QED
    BY <2>1 DEF NextTrack
<1> HIDE DEF LastTrack
<1>3. CASE track_ptr = LastTrack
  <2>1. (LastTrack + 1) % (LastTrack + 1) = 0
    BY <1>1
  <2>2. QED
    BY <1>2, <1>3, <2>1
<1>4. CASE track_ptr # LastTrack
  <2>1. (track_ptr + 1) % (LastTrack + 1) = track_ptr + 1
    BY <1>1, <1>4
  <2>2. QED
    BY <1>2, <1>4, <2>1
<1>5. QED
  BY <1>3, <1>4

(* Stamps stay in order in such a cycle, also when the counter wraps.      *)
LEMMA FlowStamps ==
    ASSUME Sound, StampsSound, NEW done, NEW g, NEW D, NEW suc, FlowOf(done, g, D, suc)
    PROVE  StampsSound' /\ track_ptr' \in Tracks
<1> USE DEF Sound
<1> DEFINE R == RowsOf(done)
           issued == IssuedBy(done)
           rolls == Rolls(Entries(g, R))
           used == used_entry_cnt
<1>1. /\ g \in Landing /\ RobTyped /\ StationTyped /\ track_ptr \in Tracks
      /\ Aimed(g) \in SUBSET Valid(g)
      /\ Gone \in Nat /\ used \in Nat
  <2>1. RobTyped /\ StationTyped /\ g \in Landing
    BY Typed DEF FlowOf
  <2>2. track_ptr \in Tracks
    BY DEF TypeOK
  <2>3. QED
    BY <2>1, <2>2, LaneKinds, RetiringIsPrefix, RobAssumption DEF RobTyped
<1>2. LastTrack \in Nat /\ Tracks = 0 .. LastTrack /\ track_ptr \in 0 .. LastTrack
  BY <1>1, StampsAreCounted
<1>3. /\ rolls \in BOOLEAN
      /\ rolls <=> Aimed(g) # {} /\ track_ptr = LastTrack
  <2>1. rolls <=> Aimed(g) # {} /\ track_ptr = LastTrack
    BY FlowStation
  <2>2. QED
    BY <2>1 DEF Rolls
<1> HIDE DEF rolls, LastTrack
<1>4. /\ Aimed(g) = {} => track_ptr' = track_ptr
      /\ rolls => track_ptr' = 0
      /\ Aimed(g) # {} /\ ~rolls => track_ptr' = track_ptr + 1 /\ track_ptr < LastTrack
      /\ track_ptr' \in Tracks
  <2>1. track_ptr' = IF Aimed(g) = {} THEN track_ptr ELSE NextTrack
    BY FlowStation
  <2>2. NextTrack = IF track_ptr = LastTrack THEN 0 ELSE track_ptr + 1
    BY <1>1, StampSteps
  <2>3. QED
    BY <1>2, <1>3, <2>1, <2>2
<1> DEFINE row(k) == o3'[k].rob_des_idx
<1>5. /\ \A k \in Held : o3[k].is_lower \/ o3[k].track < track_ptr \/ o3[k].track = LastTrack
      /\ \A x, e \in Held : Age(EntryOf(x)) < Age(EntryOf(e)) =>
          /\ o3[e].is_lower => o3[x].is_lower
          /\ o3[x].is_lower \/ o3[x].track <= o3[e].track \/ o3[x].track = LastTrack
  BY DEF StampsSound
<1>6. ASSUME NEW k \in Held \ issued
      PROVE  /\ o3'[k].track = o3[k].track /\ row(k) = EntryOf(k)
             /\ o3'[k].is_lower <=> o3[k].is_lower \/ rolls
             /\ o3[k].track \in 0 .. LastTrack
  <2>1. BecomesRow(o3'[k], o3[k], R, rolls, suc)
    BY FlowStation DEF rolls
  <2>2. o3[k].track \in 0 .. LastTrack
    BY <1>1, <1>2, HeldIsTyped
  <2>3. QED
    BY <2>1, <2>2 DEF BecomesRow, EntryOf
<1>7. ASSUME NEW l \in Aimed(g), NEW k, k = Port(g, l)
      PROVE  /\ o3'[k].track = track_ptr /\ ~o3'[k].is_lower /\ row(k) = SlotOf(g, l)
  BY <1>7, FlowStation DEF LandsAs
<1>8. \A k \in Held' : k \in Held \ issued \/ \E l \in Aimed(g) : k = Port(g, l)
  BY FlowStation
<1>9. ASSUME NEW k \in Held \ issued
      PROVE  AgeNext(EntryOf(k)) = Age(EntryOf(k)) - Gone /\ Age(EntryOf(k)) \in Int
             /\ Age(EntryOf(k)) < used
  <2>1. k \in Held'
    BY FlowStation
  <2>2. EntryOf(k) \in Waits \ R
    <3>1. \A l \in Aimed(g) : Port(g, l) \notin Held
      BY FlowStation
    <3>2. QED
      BY <2>1, <3>1, FlowMoves
  <2>3. EntryOf(k) \in InFlight /\ EntryOf(k) \in InFlight'
    BY <2>2, FlowMoves
  <2>4. AgeNext(EntryOf(k)) = Age(EntryOf(k)) - Gone
    BY <2>3, FlowRows
  <2>5. \A i \in InFlight : Age(i) \in Int /\ Age(i) < used
    BY <1>1, SlotsAndAges, AgeIsFrom DEF RobTyped, InFlight, Slots
  <2>6. QED
    BY <2>3, <2>4, <2>5
<1>10. ASSUME NEW l \in Aimed(g)
       PROVE  AgeNext(SlotOf(g, l)) \in Int /\ AgeNext(SlotOf(g, l)) >= used - Gone
  <2>1. /\ Before(Valid(g), l) \in 0 .. Cardinality(Valid(g)) - 1
        /\ AgeNext(SlotOf(g, l)) = used + Before(Valid(g), l) - Gone
    BY <1>1, FlowRows
  <2>2. Before(Valid(g), l) \in Nat
    BY <2>1
  <2>3. QED
    BY <1>1, <2>1, <2>2
<1>11. ASSUME NEW k \in Held'
       PROVE  o3'[k].is_lower \/ o3'[k].track < track_ptr' \/ o3'[k].track = LastTrack
  <2>1. CASE k \in Held \ issued
    <3>1. /\ o3'[k].track = o3[k].track /\ o3[k].track \in 0 .. LastTrack
          /\ o3'[k].is_lower <=> o3[k].is_lower \/ rolls
      BY <1>6, <2>1
    <3>2. o3[k].is_lower \/ o3[k].track < track_ptr \/ o3[k].track = LastTrack
      BY <1>5, <2>1
    <3>3. CASE rolls \/ o3[k].is_lower \/ o3[k].track = LastTrack
      BY <3>1, <3>3
    <3>4. CASE ~rolls /\ o3[k].track < track_ptr
      <4>1. track_ptr' = track_ptr \/ track_ptr' = track_ptr + 1
        BY <1>4, <3>4
      <4>2. o3[k].track < track_ptr'
        BY <1>2, <3>1, <3>4, <4>1
      <4>3. QED
        BY <3>1, <4>2
    <3>5. QED
      BY <3>2, <3>3, <3>4
  <2>2. ASSUME NEW l \in Aimed(g), k = Port(g, l)
        PROVE  o3'[k].track < track_ptr' \/ o3'[k].track = LastTrack
    <3>1. o3'[k].track = track_ptr
      BY <1>7, <2>2
    <3>2. CASE rolls
      BY <1>3, <3>1, <3>2
    <3>3. CASE ~rolls
      BY <1>2, <1>4, <3>1, <3>3
    <3>4. QED
      BY <3>2, <3>3
  <2>3. QED
    BY <1>8, <2>1, <2>2
<1>12. ASSUME NEW x \in Held', NEW e \in Held', AgeNext(row(x)) < AgeNext(row(e))
       PROVE  /\ o3'[e].is_lower => o3'[x].is_lower
              /\ o3'[x].is_lower \/ o3'[x].track <= o3'[e].track \/ o3'[x].track = LastTrack
  <2>1. CASE x \in Held \ issued /\ e \in Held \ issued
    <3>1. Age(EntryOf(x)) < Age(EntryOf(e))
      <4>1. /\ AgeNext(EntryOf(x)) = Age(EntryOf(x)) - Gone /\ Age(EntryOf(x)) \in Int
            /\ AgeNext(EntryOf(e)) = Age(EntryOf(e)) - Gone /\ Age(EntryOf(e)) \in Int
            /\ AgeNext(EntryOf(x)) < AgeNext(EntryOf(e))
        BY <1>6, <1>9, <1>12, <2>1
      <4>2. QED
        BY <1>1, <4>1
    <3>2. /\ o3[e].is_lower => o3[x].is_lower
          /\ o3[x].is_lower \/ o3[x].track <= o3[e].track \/ o3[x].track = LastTrack
      BY <1>5, <2>1, <3>1
    <3>3. /\ o3'[x].track = o3[x].track /\ (o3'[x].is_lower <=> o3[x].is_lower \/ rolls)
          /\ o3'[e].track = o3[e].track /\ (o3'[e].is_lower <=> o3[e].is_lower \/ rolls)
      BY <1>6, <2>1
    <3>4. QED
      BY <3>2, <3>3
  <2>2. ASSUME x \in Held \ issued, NEW m \in Aimed(g), e = Port(g, m)
        PROVE  /\ ~o3'[e].is_lower
               /\ o3'[x].is_lower \/ o3'[x].track <= o3'[e].track \/ o3'[x].track = LastTrack
    <3>1. o3'[e].track = track_ptr /\ ~o3'[e].is_lower
      BY <1>7, <2>2
    <3>2. o3[x].is_lower \/ o3[x].track < track_ptr \/ o3[x].track = LastTrack
      BY <1>5, <2>2
    <3>3. /\ o3'[x].track = o3[x].track /\ o3[x].track \in 0 .. LastTrack
          /\ o3[x].is_lower => o3'[x].is_lower
      BY <1>6, <2>2
    <3>4. o3[x].track < track_ptr => o3'[x].track <= o3'[e].track
      BY <1>2, <3>1, <3>3
    <3>5. QED
      BY <3>1, <3>2, <3>3, <3>4
  <2>3. ASSUME NEW l \in Aimed(g), x = Port(g, l), e \in Held \ issued PROVE FALSE
    <3>1. /\ AgeNext(row(x)) \in Int /\ AgeNext(row(x)) >= used - Gone
      BY <1>7, <1>10, <2>3
    <3>2. AgeNext(row(e)) = Age(EntryOf(e)) - Gone /\ Age(EntryOf(e)) \in Int
          /\ Age(EntryOf(e)) < used
      BY <1>6, <1>9, <2>3
    <3> HIDE DEF row
    <3>3. QED
      BY <1>1, <1>12, <3>1, <3>2
  <2>4. ASSUME NEW l \in Aimed(g), x = Port(g, l), NEW m \in Aimed(g), e = Port(g, m)
        PROVE  ~o3'[e].is_lower /\ o3'[x].track <= o3'[e].track
    <3>1. o3'[x].track = track_ptr /\ o3'[e].track = track_ptr /\ ~o3'[e].is_lower
      BY <1>7, <2>4
    <3>2. QED
      BY <1>2, <3>1
  <2>5. QED
    BY <1>8, <2>1, <2>2, <2>3, <2>4
<1>13. \A k : Age(EntryOf(k))' = AgeNext(row(k))
  BY DEF Age, EntryOf, AgeNext, AgeFrom
<1>14. StampsSound'
  <2>1. LastTrack' = LastTrack
    BY DEF LastTrack
  <2> HIDE DEF row
  <2>2. QED
    BY <1>11, <1>12, <1>13, <2>1 DEF StampsSound
<1>15. QED
  BY <1>4, <1>14

(* Such a cycle keeps to the widths.                                       *)
LEMMA FlowTypes ==
    ASSUME Sound, StampsSound, NEW done, NEW g, NEW D, NEW suc, FlowOf(done, g, D, suc)
    PROVE  TypeOK'
<1> USE DEF Sound
<1> DEFINE rows == [uop : Uops \cup {NoUop}, tag : SUBSET Tags, wb_fin : BOOLEAN]
<1>1. RobTyped' /\ TagsTyped' /\ alloc_ptr' \in Slots
  BY FlowTags
<1>2. table' \in [Slots -> rows]
  <2>1. \A i \in Slots : table'[i] \in rows
    BY FlowRows
  <2>2. DOMAIN table' = Slots /\ table' = [i \in Slots |-> table'[i]]
    BY DEF FlowOf, Flow
  <2> HIDE DEF rows
  <2>3. QED
    BY <2>1, <2>2
<1>3. o3' \in [O3Slots -> O3Row \cup {NoRow}]
  BY FlowStation
<1>4. exec' \in [Units -> Record \cup {NoRow}]
  BY FlowUnits
<1>5. track_ptr' \in Tracks
  BY FlowStamps
<1>6. QED
  BY <1>1, <1>2, <1>3, <1>4, <1>5 DEF TypeOK, RobTyped, TagsTyped

(* A cycle without a squash keeps the inductive invariant.                 *)
LEMMA FlowKeeps ==
    ASSUME IInv, NEW done, NEW g, NEW D, NEW suc, FlowOf(done, g, D, suc)
    PROVE  IInv'
<1>1. Sound /\ SourcesSound /\ StampsSound
  BY DEF IInv, Sound
<1>2. TypeOK' /\ RowsSound' /\ Placed' /\ SourcesSound' /\ PairsSound' /\ StampsSound'
  <2>1. RowsSound'
    BY <1>1, FlowTags DEF Sound
  <2>2. QED
    BY <1>1, <2>1, FlowTypes, FlowPlaces, FlowSources, FlowPairs, FlowStamps
<1>3. QED
  BY <1>2 DEF IInv

(* Both actions without a squash are such cycles.                          *)
LEMMA CycleFlows ==
    ASSUME Cycle
    PROVE  \E done, g, D, suc : FlowOf(done, g, D, suc)
<1>1. PICK g \in Landing, done \in SUBSET Busy : Flow(done, Retiring, g, {}, {})
  BY DEF Cycle
<1>2. FlowOf(done, g, {}, {})
  BY <1>1 DEF FlowOf
<1>3. QED
  BY <1>2

(* SucPred is the cycle of a correct prediction: no group lands.           *)
LEMMA SucPredFlows ==
    ASSUME SucPred
    PROVE  \E done, g, D, suc : FlowOf(done, g, D, suc)
<1>1. PICK i \in Resolving, done \in SUBSET Busy :
          Flow(done, Retiring, NoGroup, {i}, table[i].tag)
  BY DEF SucPred
<1>2. table[i].tag = UNION {table[d].tag : d \in {i}}
  OBVIOUS
<1>3. NoGroup \in Landing
  BY DEF Landing
<1>4. FlowOf(done, NoGroup, {i}, table[i].tag)
  BY <1>1, <1>2, <1>3 DEF FlowOf
<1>5. QED
  BY <1>4

-----------------------------------------------------------------------------
(* A squash to branch i while the units `done` report.                     *)

CutTo(i, done) ==
    LET lives == {u \in Busy : ~Squashed(exec[u], FixTag(i))}
    IN  /\ i \in Resolving
        /\ done \subseteq lives
        /\ \E t \in table[i].tag : TagGenMisPred(t)
        /\ RobMisPred(i)
        /\ table' = [j \in Slots |->
               IF j \notin InFlight \/ Age(j) > Age(i) THEN Blank
               ELSE [table[j] EXCEPT !.wb_fin = @ \/ j \in RowsOf(done) \cup {i}]]
        /\ O3MisPred(FixTag(i), RowsOf(done))
        /\ exec' = [u \in Units |-> IF u \in lives \ done THEN exec[u] ELSE NoRow]

(* MisPred is a squash of that form.                                       *)
LEMMA MisPredCuts == MisPred => \E i, done : CutTo(i, done)
<1> SUFFICES ASSUME MisPred PROVE \E i, done : CutTo(i, done)
  OBVIOUS
<1> DEFINE lives(i) == {u \in Busy : ~Squashed(exec[u], FixTag(i))}
<1>1. PICK i \in Resolving :
        \E done \in SUBSET lives(i) :
          /\ \E t \in table[i].tag : TagGenMisPred(t)
          /\ RobMisPred(i)
          /\ table' = [j \in Slots |->
                 IF j \notin InFlight \/ Age(j) > Age(i) THEN Blank
                 ELSE [table[j] EXCEPT !.wb_fin = @ \/ j \in RowsOf(done) \cup {i}]]
          /\ O3MisPred(FixTag(i), RowsOf(done))
          /\ exec' = [u \in Units |-> IF u \in lives(i) \ done THEN exec[u] ELSE NoRow]
  BY DEF MisPred
<1>2. PICK done \in SUBSET lives(i) :
          /\ \E t \in table[i].tag : TagGenMisPred(t)
          /\ RobMisPred(i)
          /\ table' = [j \in Slots |->
                 IF j \notin InFlight \/ Age(j) > Age(i) THEN Blank
                 ELSE [table[j] EXCEPT !.wb_fin = @ \/ j \in RowsOf(done) \cup {i}]]
          /\ O3MisPred(FixTag(i), RowsOf(done))
          /\ exec' = [u \in Units |-> IF u \in lives(i) \ done THEN exec[u] ELSE NoRow]
  BY <1>1
<1>3. CutTo(i, done)
  BY <1>2 DEF CutTo
<1>4. QED
  BY <1>3

(* What is left is the rows up to the branch, none of them an open branch, *)
(* so every tag is back and no row stands under one.                       *)
LEMMA CutRows ==
    ASSUME TypeOK, RowsSound, NEW i, NEW done, CutTo(i, done)
    PROVE  /\ i \in InFlight
           /\ InFlight' = {j \in InFlight : Age(j) <= Age(i)}
           /\ \A j : Age(j)' = Age(j)
           /\ \A j \in InFlight' :
                 /\ table'[j].uop = table[j].uop
                 /\ table'[j].wb_fin <=> table[j].wb_fin \/ j \in RowsOf(done) \cup {i}
           /\ table' \in [Slots -> [uop : Uops \cup {NoUop}, tag : SUBSET Tags,
                                    wb_fin : BOOLEAN]]
           /\ Waits' = {j \in Waits \ RowsOf(done) : Age(j) <= Age(i)}
           /\ RowsSound' /\ RobTyped' /\ TagsTyped' /\ alloc_ptr' \in Slots
           /\ \A j \in InFlight : PairTag(j) \cap FixTag(i) # {} <=> Age(j) > Age(i)
           /\ \A j \in InFlight : PairTag(j) = {} <=> Age(j) <= Age(i)
           /\ \A j : PairTag(j)' = {}
<1> DEFINE R == RowsOf(done)
           rows == [uop : Uops \cup {NoUop}, tag : SUBSET Tags, wb_fin : BOOLEAN]
<1>1. /\ RobSound /\ Opened = OpenBranches /\ Opened \subseteq Unfinished
      /\ Unfinished \subseteq InFlight /\ InFlight \subseteq Slots
      /\ i \in Resolving /\ RobMisPred(i)
  BY Typed DEF CutTo, RobSound, RowsSound
<1>2. i \in Opened /\ i \in InFlight /\ \A j \in Opened : Age(i) <= Age(j)
  BY <1>1 DEF Resolving
<1>3. /\ used_entry_cnt' \in 0 .. RobDepth /\ com_ptr' = com_ptr
      /\ (alloc_ptr = SlotAt(used_entry_cnt))' /\ alloc_ptr' \in Slots
      /\ \A j : Age(j)' = Age(j)
      /\ InFlight' = {j \in InFlight : Age(j) <= Age(i)}
  BY <1>1, <1>2, RowsCut DEF RobSound
<1>4. RobTyped'
  BY <1>1, <1>3 DEF RobSound, RobTyped
<1>5. /\ \A j \in InFlight : Age(j) \in Int
      /\ \A j, k \in InFlight : Age(j) = Age(k) => j = k
  <2>1. com_ptr \in Slots /\ Slots \subseteq Int
    BY <1>1 DEF RobSound, RobTyped, Slots
  <2>2. \A j \in Slots : Age(j) \in Int
    BY <2>1, SlotsAndAges, AgeIsFrom
  <2>3. \A j, k \in Slots : Age(j) = Age(k) => j = k
    BY <2>1, SlotsAndAges, AgeIsFrom
  <2>4. QED
    BY <1>1, <2>2, <2>3
<1>6. \A j \in Slots : table'[j] =
          IF j \notin InFlight \/ Age(j) > Age(i) THEN Blank
          ELSE [table[j] EXCEPT !.wb_fin = @ \/ j \in R \cup {i}]
  BY DEF CutTo
<1>7. ASSUME NEW j \in InFlight'
      PROVE  /\ j \in InFlight /\ j \in Slots /\ Age(j) <= Age(i)
             /\ table'[j] = [table[j] EXCEPT !.wb_fin = table[j].wb_fin \/ j \in R \cup {i}]
  <2>1. j \in InFlight /\ j \in Slots /\ Age(j) <= Age(i)
    BY <1>1, <1>3
  <2>2. ~(Age(j) > Age(i))
    BY <1>2, <1>5, <2>1
  <2>3. QED
    BY <1>6, <2>1, <2>2
<1>8. ASSUME NEW j \in InFlight'
      PROVE  /\ table'[j].uop = table[j].uop
             /\ table'[j].wb_fin <=> table[j].wb_fin \/ j \in R \cup {i}
  <2>1. DOMAIN table[j] = {"uop", "tag", "wb_fin"}
    BY <1>7, Typed
  <2>2. table'[j] = [table[j] EXCEPT !.wb_fin = table[j].wb_fin \/ j \in R \cup {i}]
    BY <1>7
  <2>3. QED
    BY <2>1, <2>2, Zenon
<1>9. table' \in [Slots -> rows]
  <2>1. ASSUME NEW j \in Slots PROVE table'[j] \in rows
    <3>1. CASE j \notin InFlight \/ Age(j) > Age(i)
      <4>1. table'[j] = Blank
        BY <1>6, <3>1
      <4>2. QED
        BY <4>1 DEF Blank
    <3>2. CASE ~(j \notin InFlight \/ Age(j) > Age(i))
      <4>1. table'[j] = [table[j] EXCEPT !.wb_fin = @ \/ j \in R \cup {i}]
        BY <1>6, <3>2
      <4>2. table[j] \in rows
        BY DEF TypeOK
      <4>3. (table[j].wb_fin \/ j \in R \cup {i}) \in BOOLEAN
        OBVIOUS
      <4>4. QED
        BY <4>1, <4>2, <4>3
    <3>3. QED
      BY <3>1, <3>2
  <2>2. DOMAIN table' = Slots /\ table' = [j \in Slots |-> table'[j]]
    BY DEF CutTo
  <2> HIDE DEF rows
  <2>3. QED
    BY <2>1, <2>2
<1>10. Unfinished' = {j \in Unfinished \ (R \cup {i}) : Age(j) <= Age(i)}
  <2>1. Unfinished' = {j \in InFlight' : ~table'[j].wb_fin}
    BY DEF Unfinished
  <2>2. Unfinished = {j \in InFlight : ~table[j].wb_fin}
    BY DEF Unfinished
  <2> HIDE DEF R
  <2>3. QED
    BY <1>3, <1>8, <2>1, <2>2
<1>11. Opened' = {}
  <2>1. ASSUME NEW j \in Opened' PROVE FALSE
    <3>1. j \in InFlight' /\ j \in Unfinished' /\ table'[j].uop.is_branch
      BY DEF Opened, Unfinished
    <3>2. j \in Unfinished /\ j # i /\ Age(j) <= Age(i) /\ table[j].uop.is_branch
      BY <1>8, <1>10, <3>1
    <3>3. j \in Opened
      BY <3>2 DEF Opened, Unfinished
    <3>4. Age(j) = Age(i) /\ j \in InFlight
      BY <1>2, <1>5, <3>2, <3>3 DEF Opened
    <3>5. QED
      BY <1>2, <1>5, <3>2, <3>4
  <2>2. QED
    BY <2>1
<1>12. Waits' = {j \in Waits \ R : Age(j) <= Age(i)}
  <2>1. Waits' = Unfinished'
    BY <1>11 DEF Waits
  <2>2. ASSUME NEW j \in Unfinished, j # i, Age(j) <= Age(i) PROVE j \notin Opened
    <3>1. ASSUME j \in Opened PROVE FALSE
      <4>1. Age(i) <= Age(j) /\ j \in InFlight
        BY <1>1, <1>2, <3>1
      <4>2. QED
        BY <1>2, <1>5, <2>2, <4>1
    <3>2. QED
      BY <3>1
  <2>3. i \notin Waits
    BY <1>2 DEF Waits
  <2> HIDE DEF R
  <2>4. QED
    BY <1>10, <2>1, <2>2, <2>3 DEF Waits
<1>13. TagsAreRing' /\ TagsTyped'
  <2>1. PICK t \in table[i].tag : TagGenMisPred(t)
    BY DEF CutTo
  <2>2. t \in Tags
    BY <1>1, <1>2, <2>1, OpenTags DEF RobSound
  <2>3. QED
    BY <1>1, <1>11, <2>1, <2>2, TagsCut DEF RobSound
<1>14. RowsAreWhole'
  <2>1. \A j \in InFlight' : table'[j].uop \in Uops
    BY <1>7, <1>8 DEF RowsSound, RowsAreWhole
  <2>2. QED
    BY <2>1 DEF RowsAreWhole
<1>15. /\ \A j \in InFlight : PairTag(j) \cap FixTag(i) # {} <=> Age(j) > Age(i)
       /\ \A j \in InFlight : PairTag(j) = {} <=> Age(j) <= Age(i)
       /\ \A j : PairTag(j)' = {}
  <2>1. FixTag(i) = UNION {table[j].tag : j \in {j \in Opened : Age(j) >= Age(i)}}
    BY <1>1 DEF FixTag
  <2>2. QED
    BY <1>1, <1>2, <1>11, <2>1, PairsCut
<1>16. RowsSound'
  BY <1>3, <1>13, <1>14 DEF RowsSound
<1>17. QED
  BY <1>2, <1>3, <1>4, <1>8, <1>9, <1>12, <1>13, <1>15, <1>16

(* The kill mask stops exactly what stands behind the branch; what stays   *)
(* wakes to the results reported beside the squash, and is otherwise as it *)
(* was.                                                                    *)
LEMMA CutMoves ==
    ASSUME Sound, NEW i, NEW done, CutTo(i, done)
    PROVE  /\ Held' = {k \in Held : Age(EntryOf(k)) <= Age(i)}
           /\ \A k \in Held' :
                 /\ BecomesRow(o3'[k], o3[k], RowsOf(done), FALSE, {})
                 /\ EntryOf(k) \in Waits'
           /\ Busy' = {u \in Busy \ done : Age(RunBy(u)) <= Age(i)}
           /\ \A u \in Busy' : exec'[u] = exec[u] /\ RunBy(u) \in Waits'
           /\ o3' \in [O3Slots -> O3Row \cup {NoRow}]
           /\ exec' \in [Units -> Record \cup {NoRow}]
           /\ track_ptr' = track_ptr
<1> USE DEF Sound
<1> DEFINE R == RowsOf(done)
           kill == FixTag(i)
           lives == {u \in Busy : ~Squashed(exec[u], kill)}
<1>1. /\ StationTyped /\ Waits \subseteq InFlight
      /\ i \in InFlight /\ done \subseteq lives /\ Busy \subseteq Units
      /\ \A j \in InFlight : Age(j) \in Int
      /\ \A j \in InFlight : PairTag(j) \cap kill # {} <=> Age(j) > Age(i)
      /\ Waits' = {j \in Waits \ R : Age(j) <= Age(i)}
  <2>1. /\ StationTyped /\ Waits \subseteq InFlight /\ Busy \subseteq Units
        /\ RobTyped /\ InFlight \subseteq Slots
    BY Typed DEF Waits
  <2>2. com_ptr \in Slots /\ Slots \subseteq Int
    BY <2>1 DEF RobTyped, Slots
  <2>3. \A j \in InFlight : Age(j) \in Int
    <3>1. \A j \in Slots : Age(j) \in Int
      BY <2>2, SlotsAndAges, AgeIsFrom
    <3>2. QED
      BY <2>1, <3>1
  <2>4. done \subseteq lives
    BY DEF CutTo
  <2>5. QED
    BY <2>1, <2>3, <2>4, CutRows
<1> HIDE DEF kill
<1>2. ASSUME NEW rec, Follows(rec), rec.rob_des_idx \in Waits
      PROVE  ~Squashed(rec, kill) <=> Age(rec.rob_des_idx) <= Age(i)
  <2> DEFINE j == rec.rob_des_idx
  <2>1. j \in InFlight /\ Age(j) \in Int /\ Age(i) \in Int
    BY <1>1, <1>2
  <2>2. Squashed(rec, kill) <=> PairTag(j) \cap kill # {}
    BY <1>2 DEF Squashed, Follows
  <2> HIDE DEF j
  <2>3. Squashed(rec, kill) <=> Age(j) > Age(i)
    BY <1>1, <2>1, <2>2
  <2>4. Age(j) > Age(i) <=> ~(Age(j) <= Age(i))
    BY <2>1
  <2>5. QED
    BY <2>3, <2>4 DEF j
<1>3. /\ \A k \in Held : ~Squashed(o3[k], kill) <=> Age(EntryOf(k)) <= Age(i)
      /\ \A u \in Busy : ~Squashed(exec[u], kill) <=> Age(RunBy(u)) <= Age(i)
  <2>1. \A k \in Held : Follows(o3[k]) /\ o3[k].rob_des_idx \in Waits
    BY DEF Placed, PairsSound, EntryOf
  <2>2. \A u \in Busy : Follows(exec[u]) /\ exec[u].rob_des_idx \in Waits
    BY DEF Placed, PairsSound, RunBy
  <2>3. QED
    BY <1>2, <2>1, <2>2 DEF EntryOf, RunBy
<1>4. \A j \in R : \E u \in done : j = RunBy(u)
  BY DEF RowsOf, RunBy
<1>5. /\ \A k \in Held : EntryOf(k) \in Waits \ R
      /\ \A u \in Busy \ done : RunBy(u) \in Waits \ R
  BY <1>1, <1>4 DEF Placed
<1>6. /\ \A k \in O3Slots : o3'[k] =
            IF k \in Held /\ ~Squashed(o3[k], kill) THEN Woken(o3[k], R) ELSE NoRow
      /\ DOMAIN o3' = O3Slots /\ o3' = [k \in O3Slots |-> o3'[k]]
      /\ track_ptr' = track_ptr
  <2>1. O3MisPred(kill, R)
    BY DEF CutTo, kill
  <2>2. QED
    BY <2>1 DEF O3MisPred
<1>7. /\ \A u \in Units : exec'[u] = IF u \in lives \ done THEN exec[u] ELSE NoRow
      /\ DOMAIN exec' = Units /\ exec' = [u \in Units |-> exec'[u]]
  BY DEF CutTo, kill
<1>8. ASSUME NEW k \in Held, Age(EntryOf(k)) <= Age(i)
      PROVE  BecomesRow(o3'[k], o3[k], R, FALSE, {})
  <2>1. /\ k \in O3Slots /\ o3[k] \in O3Row /\ (o3[k].is_spec <=> o3[k].spec_tag # {})
    BY <1>1, HeldIsTyped DEF PairsSound, Follows
  <2>2. o3'[k] = Woken(o3[k], R)
    BY <1>3, <1>6, <1>8, <2>1
  <2>3. ASSUME NEW e \in O3Row, e = o3[k], NEW w, w = Woken(e, R)
        PROVE  BecomesRow(w, e, R, FALSE, {})
    <3>1. /\ w \in O3Row
          /\ w.kind = e.kind /\ w.rob_des_idx = e.rob_des_idx /\ w.pr = e.pr
          /\ w.is_lower = e.is_lower /\ w.track = e.track
          /\ w.spec_tag = e.spec_tag /\ w.is_spec = e.is_spec
          /\ w.ready <=> e.ready \/ e.pr \in R
      BY <2>3, RowWakes
    <3>2. e.is_spec <=> e.spec_tag # {}
      BY <2>1, <2>3
    <3>3. w.spec_tag = e.spec_tag \ {} /\ (w.is_spec <=> w.spec_tag # {})
      BY <3>1, <3>2
    <3>4. w.is_lower <=> e.is_lower \/ FALSE
      BY <3>1
    <3>5. QED
      BY <3>1, <3>3, <3>4 DEF BecomesRow
  <2>4. QED
    BY <2>1, <2>2, <2>3
<1>9. Held' = {k \in Held : Age(EntryOf(k)) <= Age(i)}
  <2>1. Held' = {k \in O3Slots : o3'[k].valid}
    BY DEF Held
  <2>2. \A r \in O3Row : r.valid
    BY DEF O3Row
  <2>3. ~NoRow.valid
    BY DEF NoRow
  <2>4. \A k \in Held : k \in O3Slots
    BY <1>1, HeldIsTyped
  <2>5. \A k \in O3Slots : k \in Held /\ Age(EntryOf(k)) <= Age(i) => o3'[k] \in O3Row
    BY <1>8 DEF BecomesRow
  <2>6. \A k \in O3Slots : ~(k \in Held /\ Age(EntryOf(k)) <= Age(i)) => o3'[k] = NoRow
    BY <1>3, <1>6
  <2>7. QED
    BY <2>1, <2>2, <2>3, <2>4, <2>5, <2>6
<1>10. o3' \in [O3Slots -> O3Row \cup {NoRow}]
  <2>1. ASSUME NEW k \in O3Slots PROVE o3'[k] \in O3Row \cup {NoRow}
    <3>1. CASE k \in Held /\ Age(EntryOf(k)) <= Age(i)
      BY <1>8, <3>1 DEF BecomesRow
    <3>2. CASE ~(k \in Held /\ Age(EntryOf(k)) <= Age(i))
      BY <1>3, <1>6, <3>2
    <3>3. QED
      BY <3>1, <3>2
  <2>2. QED
    BY <1>6, <2>1
<1>11. lives \subseteq Units /\ \A u \in Busy : u \in lives <=> Age(RunBy(u)) <= Age(i)
  BY <1>1, <1>3
<1>12. \A u \in Busy : exec[u] \in Record
  BY Typed
<1> HIDE DEF lives
<1>13. exec' \in [Units -> Record \cup {NoRow}]
  <2>1. lives \subseteq Busy
    BY DEF lives
  <2>2. \A u \in Units : exec'[u] \in Record \cup {NoRow}
    BY <1>7, <1>12, <2>1
  <2>3. QED
    BY <1>7, <2>2
<1>14. Busy' = {u \in Busy \ done : Age(RunBy(u)) <= Age(i)}
  <2>1. Busy' = {u \in Units : exec'[u].valid}
    BY DEF Busy
  <2>2. \A r \in Record : r.valid
    BY DEF Record
  <2>3. ~NoRow.valid
    BY DEF NoRow
  <2>4. lives \subseteq Busy
    BY DEF lives
  <2>5. QED
    BY <1>1, <1>7, <1>11, <1>12, <2>1, <2>2, <2>3, <2>4
<1>15. \A u \in Busy' : exec'[u] = exec[u] /\ RunBy(u) \in Waits'
  BY <1>1, <1>5, <1>7, <1>11, <1>14
<1>16. \A k \in Held' : EntryOf(k) \in Waits'
  BY <1>1, <1>5, <1>9
<1>17. QED
  BY <1>6, <1>8, <1>9, <1>10, <1>13, <1>14, <1>15, <1>16

(* A squash keeps places one to one.                                       *)
LEMMA CutPlaces ==
    ASSUME Sound, NEW i, NEW done, CutTo(i, done)
    PROVE  Placed'
<1> USE DEF Sound
<1> DEFINE R == RowsOf(done)
<1>1. /\ Held' = {k \in Held : Age(EntryOf(k)) <= Age(i)}
      /\ \A k \in Held' : BecomesRow(o3'[k], o3[k], R, FALSE, {}) /\ EntryOf(k) \in Waits'
      /\ Busy' = {u \in Busy \ done : Age(RunBy(u)) <= Age(i)}
      /\ \A u \in Busy' : exec'[u] = exec[u] /\ RunBy(u) \in Waits'
  BY CutMoves
<1>2. /\ Waits' = {j \in Waits \ R : Age(j) <= Age(i)}
      /\ \A j \in InFlight' : table'[j].uop = table[j].uop
  BY CutRows
<1>3. Waits' \subseteq InFlight'
  BY DEF Waits, Unfinished
<1>4. /\ \A k \in Held : EntryOf(k) \in Waits /\ o3[k].kind = table[EntryOf(k)].uop.kind
      /\ \A u \in Busy : /\ RunBy(u) \in Waits
                         /\ exec[u].kind = table[RunBy(u)].uop.kind
                         /\ exec[u].kind \in Runs[u]
      /\ \A j \in Waits : (\E k \in Held : EntryOf(k) = j) \/ (\E u \in Busy : RunBy(u) = j)
      /\ \A j, k \in Held : EntryOf(j) = EntryOf(k) => j = k
      /\ \A u, v \in Busy : RunBy(u) = RunBy(v) => u = v
      /\ \A k \in Held, u \in Busy : EntryOf(k) # RunBy(u)
  BY DEF Placed
<1>5. /\ \A k \in Held' : EntryOf(k)' = EntryOf(k) /\ o3'[k].kind = o3[k].kind
      /\ \A u \in Busy' : RunBy(u)' = RunBy(u)
  BY <1>1 DEF EntryOf, RunBy, BecomesRow
<1>6. Held' \subseteq Held /\ Busy' \subseteq Busy
  BY <1>1
<1>7. \A u \in done : RunBy(u) \in R
  BY DEF RowsOf, RunBy
<1> HIDE DEF R
<1>8. \A j \in Waits' : (\E k \in Held' : EntryOf(k) = j) \/ (\E u \in Busy' : RunBy(u) = j)
  BY <1>1, <1>2, <1>4, <1>7
<1>9. \A k \in Held' : EntryOf(k)' \in Waits' /\ o3'[k].kind = table'[EntryOf(k)'].uop.kind
  <2>1. SUFFICES ASSUME NEW k \in Held'
                 PROVE  EntryOf(k)' \in Waits' /\ o3'[k].kind = table'[EntryOf(k)'].uop.kind
    OBVIOUS
  <2>2. /\ EntryOf(k) \in Waits' /\ EntryOf(k) \in InFlight' /\ k \in Held
        /\ EntryOf(k)' = EntryOf(k) /\ o3'[k].kind = o3[k].kind
    BY <1>1, <1>3, <1>5, <1>6
  <2>3. o3[k].kind = table[EntryOf(k)].uop.kind
    BY <1>4, <2>2
  <2>4. table'[EntryOf(k)].uop = table[EntryOf(k)].uop
    BY <1>2, <2>2
  <2>5. QED
    BY <2>2, <2>3, <2>4
<1>10. \A u \in Busy' : /\ RunBy(u)' \in Waits'
                        /\ exec'[u].kind = table'[RunBy(u)'].uop.kind
                        /\ exec'[u].kind \in Runs[u]
  BY <1>1, <1>2, <1>3, <1>4, <1>5, <1>6
<1>11. QED
  BY <1>4, <1>5, <1>6, <1>8, <1>9, <1>10 DEF Placed

(* A row that stays through a squash reads what it read.                   *)
LEMMA CutSourced ==
    ASSUME Sound, NEW i, NEW done, CutTo(i, done), NEW j \in InFlight'
    PROVE  /\ Sourced(j)' <=> Sourced(j) \/ LastOf(Ahead(j)) \in RowsOf(done)
           /\ LastOf(Ahead(j))' = LastOf(Ahead(j))
<1> USE DEF Sound
<1> DEFINE R == RowsOf(done)
           A == Ahead(j)
           A2 == Ahead(j)'
           p == LastOf(A)
<1>1. /\ InFlight' = {k \in InFlight : Age(k) <= Age(i)}
      /\ \A k : Age(k)' = Age(k)
      /\ \A k \in InFlight' : /\ table'[k].uop = table[k].uop
                              /\ table'[k].wb_fin <=> table[k].wb_fin \/ k \in R \cup {i}
  BY CutRows
<1>2. /\ RobTyped /\ i \in InFlight /\ table[i].uop.is_branch
      /\ \A k \in InFlight : Age(k) \in Int
  <2>1. RobTyped /\ InFlight \subseteq Slots /\ i \in OpenBranches
    BY Typed DEF CutTo, Resolving
  <2>2. com_ptr \in Slots /\ Slots \subseteq Int
    BY <2>1 DEF RobTyped, Slots
  <2>3. \A k \in Slots : Age(k) \in Int
    BY <2>2, SlotsAndAges, AgeIsFrom
  <2>4. QED
    BY <2>1, <2>3 DEF OpenBranches, Unfinished
<1>3. A2 = A
  <2>1. A = {k \in InFlight : Age(k) < Age(j) /\ ~table[k].uop.is_branch}
    BY DEF Ahead
  <2>2. A2 = {k \in InFlight' : Age(k) < Age(j) /\ ~table'[k].uop.is_branch}
    BY <1>1 DEF Ahead
  <2>3. \A k \in InFlight : Age(k) < Age(j) => Age(k) <= Age(i)
    <3>1. SUFFICES ASSUME NEW k \in InFlight, Age(k) < Age(j) PROVE Age(k) <= Age(i)
      OBVIOUS
    <3>2. Age(k) \in Int /\ Age(j) \in Int /\ Age(i) \in Int /\ Age(j) <= Age(i)
      BY <1>1, <1>2
    <3>3. QED
      BY <3>1, <3>2
  <2> HIDE DEF A, A2
  <2>4. QED
    BY <1>1, <2>1, <2>2, <2>3
<1>4. A \in SUBSET InFlight' /\ A \in SUBSET InFlight
  <2>1. A2 \subseteq InFlight' /\ A \subseteq InFlight
    BY DEF Ahead
  <2>2. QED
    BY <1>3, <2>1
<1>5. LastOf(Ahead(j))' = p
  <2>1. LastOf(Ahead(j))' = CHOOSE k \in A2 : \A l \in A2 : Age(l) <= Age(k)
    BY <1>1 DEF LastOf
  <2> HIDE DEF A, A2
  <2>2. QED
    BY <1>3, <2>1 DEF LastOf
<1>6. Sourced(j) <=> ~table[j].uop.waits \/ A = {} \/ table[p].wb_fin
  BY DEF Sourced
<1>7. Sourced(j)' <=> ~table[j].uop.waits \/ A = {} \/ table'[p].wb_fin
  <2>1. Sourced(j)' <=> ~table'[j].uop.waits \/ A2 = {} \/ table'[LastOf(Ahead(j))'].wb_fin
    BY DEF Sourced
  <2>2. QED
    BY <1>1, <1>3, <1>5, <2>1
<1>8. A # {} => p \in InFlight' /\ p # i
  <2>1. A # {} => p \in A
    BY <1>2, <1>4, LastIsYoungest
  <2>2. \A k \in A : ~table[k].uop.is_branch
    BY DEF Ahead
  <2>3. QED
    BY <1>2, <1>4, <2>1, <2>2
<1> HIDE DEF A, A2, p, R
<1>9. A # {} => (table'[p].wb_fin <=> table[p].wb_fin \/ p \in R)
  BY <1>1, <1>8
<1>10. (Sourced(j)' <=> Sourced(j) \/ p \in R) /\ LastOf(Ahead(j))' = p
  BY <1>5, <1>6, <1>7, <1>9
<1>11. QED
  BY <1>10 DEF p, A, R

(* No broadcast beside a squash is missed.                                 *)
LEMMA CutSources ==
    ASSUME Sound, SourcesSound, NEW i, NEW done, CutTo(i, done)
    PROVE  SourcesSound'
<1> USE DEF Sound
<1> DEFINE R == RowsOf(done)
<1>1. /\ Held' \subseteq Held /\ Busy' \subseteq Busy
      /\ \A k \in Held' : BecomesRow(o3'[k], o3[k], R, FALSE, {}) /\ EntryOf(k) \in Waits'
      /\ \A u \in Busy' : exec'[u] = exec[u] /\ RunBy(u) \in Waits'
  BY CutMoves
<1>2. Waits' \subseteq InFlight'
  BY DEF Waits, Unfinished
<1>3. /\ \A k \in Held : /\ o3[k].ready <=> Sourced(EntryOf(k))
                         /\ ~o3[k].ready => o3[k].pr = LastOf(Ahead(EntryOf(k)))
      /\ \A u \in Busy : Sourced(RunBy(u))
  BY DEF SourcesSound
<1>4. ASSUME NEW k \in Held'
      PROVE  /\ o3'[k].ready <=> Sourced(EntryOf(k))'
             /\ ~o3'[k].ready => o3'[k].pr = LastOf(Ahead(EntryOf(k)))'
  <2>1. ASSUME NEW j, j = EntryOf(k)
        PROVE  /\ o3'[k].ready <=> Sourced(EntryOf(k))'
               /\ ~o3'[k].ready => o3'[k].pr = LastOf(Ahead(EntryOf(k)))'
    <3>1. /\ j = o3'[k].rob_des_idx /\ o3'[k].pr = o3[k].pr
          /\ o3'[k].ready <=> o3[k].ready \/ o3[k].pr \in R
      BY <1>1, <2>1 DEF BecomesRow, EntryOf
    <3>2. j \in InFlight'
      BY <1>1, <1>2, <2>1
    <3>3. /\ Sourced(j)' <=> Sourced(j) \/ LastOf(Ahead(j)) \in R
          /\ LastOf(Ahead(j))' = LastOf(Ahead(j))
      BY <3>2, CutSourced
    <3>4. /\ o3[k].ready <=> Sourced(j)
          /\ ~o3[k].ready => o3[k].pr = LastOf(Ahead(j))
      BY <1>1, <1>3, <2>1
    <3>5. /\ Sourced(EntryOf(k))' <=> Sourced(j)'
          /\ LastOf(Ahead(EntryOf(k)))' = LastOf(Ahead(j))'
      BY <3>1, SourcedNext
    <3>6. QED
      BY <3>1, <3>3, <3>4, <3>5
  <2>2. QED
    BY <2>1
<1>5. ASSUME NEW u \in Busy' PROVE Sourced(RunBy(u))'
  <2>1. ASSUME NEW j, j = RunBy(u) PROVE Sourced(RunBy(u))'
    <3>1. j = exec'[u].rob_des_idx /\ j \in InFlight' /\ Sourced(j)
      BY <1>1, <1>2, <1>3, <2>1 DEF RunBy
    <3>2. Sourced(j)'
      BY <3>1, CutSourced
    <3>3. QED
      BY <3>1, <3>2, SourcedNext
  <2>2. QED
    BY <2>1
<1>6. QED
  BY <1>4, <1>5 DEF SourcesSound

(* No pair is left behind a squash.                                        *)
LEMMA CutPairs ==
    ASSUME Sound, NEW i, NEW done, CutTo(i, done)
    PROVE  PairsSound'
<1> USE DEF Sound
<1> DEFINE R == RowsOf(done)
<1>1. /\ Held' = {k \in Held : Age(EntryOf(k)) <= Age(i)}
      /\ \A k \in Held' : BecomesRow(o3'[k], o3[k], R, FALSE, {})
      /\ Busy' = {u \in Busy \ done : Age(RunBy(u)) <= Age(i)}
      /\ \A u \in Busy' : exec'[u] = exec[u]
  BY CutMoves
<1>2. /\ \A j \in InFlight : PairTag(j) = {} <=> Age(j) <= Age(i)
      /\ \A j : PairTag(j)' = {}
      /\ Waits \subseteq InFlight
  BY CutRows DEF Waits, Unfinished
<1>3. ASSUME NEW k \in Held' PROVE Follows(o3[k])'
  <2>1. o3[k].spec_tag = PairTag(EntryOf(k)) /\ EntryOf(k) \in Waits
    BY <1>1 DEF PairsSound, Follows, Placed, EntryOf
  <2>2. o3[k].spec_tag = {}
    BY <1>1, <1>2, <2>1
  <2>3. o3'[k].spec_tag = {} /\ (o3'[k].is_spec <=> o3'[k].spec_tag # {})
    BY <1>1, <2>2 DEF BecomesRow
  <2>4. ASSUME NEW j, j = o3'[k].rob_des_idx PROVE Follows(o3[k])'
    <3>1. PairTag(j)' = {}
      BY <1>2
    <3>2. QED
      BY <2>3, <2>4, <3>1, FollowsNext
  <2>5. QED
    BY <2>4
<1>4. ASSUME NEW u \in Busy' PROVE Follows(exec[u])'
  <2>1. exec[u].spec_tag = PairTag(RunBy(u)) /\ RunBy(u) \in Waits
        /\ (exec[u].is_spec <=> exec[u].spec_tag # {})
    BY <1>1 DEF PairsSound, Follows, Placed, RunBy
  <2>2. exec'[u].spec_tag = {} /\ (exec'[u].is_spec <=> exec'[u].spec_tag # {})
    BY <1>1, <1>2, <2>1
  <2>3. ASSUME NEW j, j = exec'[u].rob_des_idx PROVE Follows(exec[u])'
    <3>1. PairTag(j)' = {}
      BY <1>2
    <3>2. QED
      BY <2>2, <2>3, <3>1, FollowsNext
  <2>4. QED
    BY <2>3
<1>5. QED
  BY <1>3, <1>4 DEF PairsSound

(* A squash moves no stamp and no row.                                     *)
LEMMA CutStamps ==
    ASSUME Sound, StampsSound, NEW i, NEW done, CutTo(i, done)
    PROVE  StampsSound'
<1> USE DEF Sound
<1>1. /\ Held' \subseteq Held /\ track_ptr' = track_ptr
      /\ \A k \in Held' : BecomesRow(o3'[k], o3[k], RowsOf(done), FALSE, {})
  BY CutMoves
<1>2. \A j : Age(j)' = Age(j)
  BY CutRows
<1>3. \A k \in Held' : /\ o3'[k].track = o3[k].track
                       /\ o3'[k].is_lower <=> o3[k].is_lower
                       /\ o3'[k].rob_des_idx = EntryOf(k)
  BY <1>1 DEF BecomesRow, EntryOf
<1>4. \A k \in Held' : Age(EntryOf(k))' = Age(EntryOf(k))
  <2>1. ASSUME NEW k \in Held', NEW j, j = EntryOf(k) PROVE Age(EntryOf(k))' = Age(j)
    <3>1. EntryOf(k)' = j
      BY <1>3, <2>1 DEF EntryOf
    <3>2. Age(EntryOf(k))' = Age(j)'
      BY <3>1 DEF Age
    <3>3. QED
      BY <1>2, <3>2
  <2>2. QED
    BY <2>1
<1>5. LastTrack' = LastTrack
  BY DEF LastTrack
<1>6. QED
  BY <1>1, <1>3, <1>4, <1>5 DEF StampsSound

(* A squash keeps the inductive invariant.                                 *)
LEMMA CutKeeps ==
    ASSUME IInv, NEW i, NEW done, CutTo(i, done)
    PROVE  IInv'
<1>1. Sound /\ SourcesSound /\ StampsSound
  BY DEF IInv, Sound
<1>2. /\ RowsSound' /\ RobTyped' /\ TagsTyped' /\ alloc_ptr' \in Slots
      /\ table' \in [Slots -> [uop : Uops \cup {NoUop}, tag : SUBSET Tags, wb_fin : BOOLEAN]]
  BY <1>1, CutRows DEF Sound
<1>3. /\ o3' \in [O3Slots -> O3Row \cup {NoRow}] /\ track_ptr' = track_ptr
      /\ exec' \in [Units -> Record \cup {NoRow}]
  BY <1>1, CutMoves
<1>4. TypeOK'
  BY <1>1, <1>2, <1>3 DEF Sound, TypeOK, RobTyped, TagsTyped
<1>5. Placed' /\ SourcesSound' /\ PairsSound' /\ StampsSound'
  BY <1>1, CutPlaces, CutSources, CutPairs, CutStamps
<1>6. QED
  BY <1>2, <1>4, <1>5 DEF IInv

-----------------------------------------------------------------------------
(* The theorems.                                                           *)

(* The machine starts with nothing in flight.                              *)
LEMMA StartsSound == Init => IInv
<1> SUFFICES ASSUME Init PROVE IInv
  OBVIOUS
<1>1. /\ free_tag = SpTagLen - 1 /\ next_tag = 0
      /\ table = [i \in Slots |-> Blank]
      /\ alloc_ptr = 0 /\ com_ptr = 0 /\ used_entry_cnt = 0
      /\ o3 = [i \in O3Slots |-> NoRow] /\ track_ptr = 0
      /\ exec = [u \in Units |-> NoRow]
  BY DEF Init, TagGenInit, RobInit, O3Init
<1>2. RobDepth \in Nat \ {0} /\ SpTagLen \in Nat \ {0} /\ 0 \in Slots /\ Slots \subseteq Int
  BY RobAssumption, SpTagLenAssumption DEF Slots
<1>3. InFlight = {}
  <2>1. \A i \in Slots : Age(i) \in Nat
    BY <1>1, <1>2 DEF Age
  <2>2. QED
    BY <1>1, <2>1 DEF InFlight
<1>4. Held = {} /\ Busy = {}
  BY <1>1 DEF Held, Busy, NoRow
<1>5. TypeOK
  <2>1. free_tag \in 0 .. SpTagLen - 1 /\ next_tag \in Tags
    BY <1>1, <1>2 DEF Tags
  <2>2. table \in [Slots -> [uop : Uops \cup {NoUop}, tag : SUBSET Tags, wb_fin : BOOLEAN]]
    <3>1. Blank \in [uop : Uops \cup {NoUop}, tag : SUBSET Tags, wb_fin : BOOLEAN]
      BY DEF Blank
    <3>2. QED
      BY <1>1, <3>1
  <2>3. alloc_ptr \in Slots /\ com_ptr \in Slots /\ used_entry_cnt \in 0 .. RobDepth
    BY <1>1, <1>2
  <2>4. o3 \in [O3Slots -> O3Row \cup {NoRow}] /\ exec \in [Units -> Record \cup {NoRow}]
    BY <1>1
  <2>5. track_ptr \in Tracks
    <3>1. LastTrack \in Nat /\ Tracks = 0 .. LastTrack
      BY StampsAreCounted
    <3> HIDE DEF LastTrack
    <3>2. QED
      BY <1>1, <3>1
  <2>6. QED
    BY <2>1, <2>2, <2>3, <2>4, <2>5 DEF TypeOK
<1>6. Unfinished = {} /\ Opened = {} /\ Waits = {}
  BY <1>3 DEF Unfinished, Opened, Waits
<1>7. RowsSound
  <2>1. alloc_ptr = SlotAt(used_entry_cnt)
    BY <1>1, <1>2 DEF SlotAt
  <2>2. TagsAreRing
    <3>1. Cardinality(Opened) = 0
      BY <1>6, FS_EmptySet
    <3>2. QED
      BY <1>1, <1>2, <1>6, <3>1 DEF TagsAreRing
  <2>3. QED
    BY <1>3, <2>1, <2>2 DEF RowsSound, RowsAreWhole
<1>8. Placed /\ SourcesSound /\ PairsSound /\ StampsSound
  BY <1>4, <1>6 DEF Placed, SourcesSound, PairsSound, StampsSound
<1>9. QED
  BY <1>5, <1>7, <1>8 DEF IInv

(* A step that changes nothing keeps the inductive invariant.              *)
LEMMA Stutters == IInv /\ UNCHANGED vars => IInv'
<1> SUFFICES ASSUME IInv, UNCHANGED vars PROVE IInv'
  OBVIOUS
<1>1. UNCHANGED <<free_tag, next_tag, table, alloc_ptr, com_ptr, used_entry_cnt,
                  o3, track_ptr, exec>>
  BY DEF vars, robVars, o3Vars
<1>2. \A i : Age(i)' = Age(i)
  BY <1>1 DEF Age
<1>3. /\ InFlight' = InFlight /\ Unfinished' = Unfinished /\ Opened' = Opened
      /\ Waits' = Waits /\ Held' = Held /\ Busy' = Busy
  BY <1>1, <1>2 DEF InFlight, Unfinished, Opened, Waits, Held, Busy
<1>4. TypeOK' /\ RowsSound'
  <2>1. TypeOK'
    BY <1>1 DEF IInv, TypeOK
  <2>2. TagsAreRing' <=> TagsAreRing
    BY <1>1, <1>2, <1>3 DEF TagsAreRing, From
  <2>3. QED
    BY <1>1, <1>3, <2>1, <2>2 DEF IInv, RowsSound, RowsAreWhole, SlotAt
<1>5. Placed'
  BY <1>1, <1>3 DEF IInv, Placed, EntryOf, RunBy
<1>6. \A i : Sourced(i)' = Sourced(i) /\ LastOf(Ahead(i))' = LastOf(Ahead(i))
  BY <1>1 DEF Sourced, Ahead, LastOf, InFlight, Age
<1>7. SourcesSound'
  BY <1>1, <1>3, <1>6 DEF IInv, SourcesSound, EntryOf, RunBy
<1>8. PairsSound'
  <2>1. \A rec : PairTag(rec.rob_des_idx)' = PairTag(rec.rob_des_idx)
    <3>1. SUFFICES ASSUME NEW i PROVE PairTag(i)' = PairTag(i)
      OBVIOUS
    <3>2. OpenAhead(i)' = OpenAhead(i)
      BY <1>2, <1>3 DEF OpenAhead
    <3>3. LastOf(OpenAhead(i))' = LastOf(OpenAhead(i))
      BY <1>1 DEF LastOf, OpenAhead, Opened, InFlight, Age
    <3>4. QED
      BY <1>1, <3>2, <3>3 DEF PairTag
  <2>2. QED
    BY <1>1, <1>3, <2>1 DEF IInv, PairsSound, Follows
<1>9. StampsSound'
  BY <1>1, <1>2, <1>3 DEF IInv, StampsSound, EntryOf
<1>10. QED
  BY <1>4, <1>5, <1>7, <1>8, <1>9 DEF IInv

(* The invariant holds in every state.                                     *)
LEMMA Inductive == Spec => []IInv
<1>1. IInv /\ [Next]_vars => IInv'
  <2> SUFFICES ASSUME IInv, [Next]_vars PROVE IInv'
    OBVIOUS
  <2>1. CASE Cycle
    BY <2>1, CycleFlows, FlowKeeps
  <2>2. CASE SucPred
    BY <2>2, SucPredFlows, FlowKeeps
  <2>3. CASE MisPred
    BY <2>3, MisPredCuts, CutKeeps
  <2>4. CASE UNCHANGED vars
    BY <2>4, Stutters
  <2>5. QED
    BY <2>1, <2>2, <2>3, <2>4 DEF Next
<1>2. QED
  BY <1>1, StartsSound, PTL DEF Spec

(* Every pointer, count, stamp and record keeps to its width.              *)
THEOREM TypesHold == Spec => []TypeOK
<1>1. IInv => TypeOK
  BY DEF IInv
<1>2. QED
  BY <1>1, Inductive, PTL

(* The ROB, the station and the units agree on who is where: whatever      *)
(* issues, lands, reports or is squashed in one cycle, no instruction is   *)
(* lost, doubled or revived.                                               *)
THEOREM EntriesHold == Spec => []EntriesInOnePlace
<1>1. IInv => EntriesInOnePlace
  <2> SUFFICES ASSUME IInv PROVE EntriesInOnePlace
    OBVIOUS
  <2> DEFINE entries == {EntryOf(k) : k \in Held}
             running == {RunBy(u) : u \in Busy}
  <2>1. /\ Opened = OpenBranches /\ StationTyped
        /\ Held \subseteq O3Slots /\ Busy \subseteq Units
    BY Typed, HeldIsTyped DEF IInv
  <2>2. Unfinished \ OpenBranches = entries \cup running
    BY <2>1 DEF IInv, Placed, Waits
  <2>3. entries \cap running = {}
    BY DEF IInv, Placed
  <2>4. IsFiniteSet(Held) /\ IsFiniteSet(Busy)
    <3>1. IsFiniteSet(O3Slots) /\ IsFiniteSet(Units)
      BY RsvO3Assumption, FS_Interval DEF O3Slots, Units
    <3>2. QED
      BY <2>1, <3>1, FS_Subset
  <2>5. IsFiniteSet(entries) /\ Cardinality(entries) = Cardinality(Held)
    <3> DEFINE f == [k \in Held |-> EntryOf(k)]
    <3>1. \A j, k \in Held : f[j] = f[k] => j = k
      BY DEF IInv, Placed
    <3>2. DOMAIN f = Held /\ f = [k \in Held |-> f[k]] /\ entries = {f[k] : k \in Held}
      OBVIOUS
    <3> HIDE DEF f, entries
    <3>3. QED
      BY <2>4, <3>1, <3>2, ImageCount
  <2>6. IsFiniteSet(running) /\ Cardinality(running) = Cardinality(Busy)
    <3> DEFINE f == [u \in Busy |-> RunBy(u)]
    <3>1. \A u, v \in Busy : f[u] = f[v] => u = v
      BY DEF IInv, Placed
    <3>2. DOMAIN f = Busy /\ f = [u \in Busy |-> f[u]] /\ running = {f[u] : u \in Busy}
      OBVIOUS
    <3> HIDE DEF f, running
    <3>3. QED
      BY <2>4, <3>1, <3>2, ImageCount
  <2>7. Cardinality(entries \cup running) = Cardinality(entries) + Cardinality(running)
    <3> HIDE DEF entries, running
    <3>1. Cardinality(entries \cap running) = 0
      BY <2>3, FS_EmptySet
    <3>2. Cardinality(entries) \in Nat /\ Cardinality(running) \in Nat
      BY <2>5, <2>6, FS_CardinalityType
    <3>3. Cardinality(entries \cup running)
            = Cardinality(entries) + Cardinality(running) - Cardinality(entries \cap running)
      BY <2>5, <2>6, FS_Union
    <3>4. QED
      BY <3>1, <3>2, <3>3
  <2>8. Cardinality(Held) + Cardinality(Busy) = Cardinality(Unfinished \ OpenBranches)
    <3> HIDE DEF entries, running
    <3>1. QED
      BY <2>2, <2>5, <2>6, <2>7
  <2>9. \A u \in Busy : /\ exec[u].kind \in Runs[u]
                        /\ exec[u].kind = table[exec[u].rob_des_idx].uop.kind
    BY DEF IInv, Placed, RunBy
  <2>10. Unfinished \ OpenBranches = {o3[k].rob_des_idx : k \in Held} \cup RowsOf(Busy)
    BY <2>2 DEF EntryOf, RunBy, RowsOf
  <2>11. QED
    BY <2>8, <2>9, <2>10 DEF EntriesInOnePlace
<1>2. QED
  BY <1>1, Inductive, PTL

(* No broadcast is missed and none comes early: an entry is ready exactly  *)
(* when the result it reads exists, also when that result is written in    *)
(* the cycle the entry lands.                                              *)
THEOREM SourcesHold == Spec => []ReadyWhenResultExists
<1>1. IInv => ReadyWhenResultExists
  <2> SUFFICES ASSUME IInv PROVE ReadyWhenResultExists
    OBVIOUS
  <2>1. RobTyped /\ \A i : Ahead(i) \in SUBSET InFlight
    BY Typed DEF IInv, Ahead
  <2>2. \A S : Latest(S) = LastOf(S)
    BY DEF Latest, LastOf
  <2>3. \A i : Sourced(i) <=> ~table[i].uop.waits \/ Ahead(i) \cap Unfinished = {}
                                \/ table[Latest(Ahead(i))].wb_fin
    <3>1. SUFFICES ASSUME NEW i
                   PROVE  Sourced(i) <=> ~table[i].uop.waits \/ Ahead(i) \cap Unfinished = {}
                                           \/ table[LastOf(Ahead(i))].wb_fin
      BY <2>2
    <3>2. Ahead(i) # {} => LastOf(Ahead(i)) \in Ahead(i)
      BY <2>1, LastIsYoungest
    <3>3. \A j \in Ahead(i) : j \in Unfinished <=> ~table[j].wb_fin
      BY <2>1 DEF Unfinished
    <3>4. QED
      BY <3>2, <3>3 DEF Sourced
  <2>4. ASSUME NEW k \in Held
        PROVE  LET i == o3[k].rob_des_idx
               IN  /\ o3[k].ready <=> ~table[i].uop.waits \/ Ahead(i) \cap Unfinished = {}
                                        \/ table[Latest(Ahead(i))].wb_fin
                   /\ ~o3[k].ready => o3[k].pr = Latest(Ahead(i))
    <3>1. /\ o3[k].ready <=> Sourced(EntryOf(k))
          /\ ~o3[k].ready => o3[k].pr = LastOf(Ahead(EntryOf(k)))
      BY DEF IInv, SourcesSound
    <3>2. QED
      BY <2>2, <2>3, <3>1 DEF EntryOf
  <2>5. ASSUME NEW u \in Busy
        PROVE  LET i == exec[u].rob_des_idx
               IN  table[i].uop.waits /\ Ahead(i) # {} => table[Latest(Ahead(i))].wb_fin
    <3>1. Sourced(RunBy(u))
      BY DEF IInv, SourcesSound
    <3>2. QED
      BY <2>2, <3>1 DEF Sourced, RunBy
  <2>6. QED
    BY <2>4, <2>5 DEF ReadyWhenResultExists
<1>2. QED
  BY <1>1, Inductive, PTL

(* The tag a squash looks for is on every record it must stop and on no    *)
(* other.                                                                  *)
THEOREM PairsHold == Spec => []O3PairsFollowBranches
<1>1. IInv => O3PairsFollowBranches
  <2> SUFFICES ASSUME IInv PROVE O3PairsFollowBranches
    OBVIOUS
  <2>1. \A i : PairOf(i) = PairTag(i)
    <3>1. Opened = OpenBranches
      BY Typed DEF IInv
    <3>2. SUFFICES ASSUME NEW i PROVE PairOf(i) = PairTag(i)
      OBVIOUS
    <3>3. {j \in OpenBranches : Age(j) < Age(i)} = OpenAhead(i)
      BY <3>1 DEF OpenAhead
    <3>4. \A S : Latest(S) = LastOf(S)
      BY DEF Latest, LastOf
    <3>5. QED
      BY <3>3, <3>4 DEF PairOf, PairTag
  <2>2. ASSUME NEW rec, Follows(rec)
        PROVE  /\ rec.spec_tag = PairOf(rec.rob_des_idx)
               /\ rec.is_spec <=> PairOf(rec.rob_des_idx) # {}
    BY <2>1, <2>2 DEF Follows
  <2>3. QED
    BY <2>2 DEF O3PairsFollowBranches, IInv, PairsSound
<1>2. QED
  BY <1>1, Inductive, PTL

(* What a stamp of TrackWidth bits and one epoch bit can keep of program   *)
(* order, they keep, for every size of station.                            *)
THEOREM OldestHolds == Spec => []OldestGoesFirst
<1>1. IInv => OldestGoesFirst
  <2> SUFFICES ASSUME IInv PROVE OldestGoesFirst
    OBVIOUS
  <2>1. StationTyped
    BY Typed DEF IInv
  <2>2. ASSUME NEW u \in Units, NEW e \in Pick(u),
               NEW x \in Issuable(u) \ UNION {Pick(v) : v \in 1 .. u - 1},
               Age(o3[x].rob_des_idx) < Age(o3[e].rob_des_idx),
               ~(~o3[x].is_lower /\ o3[x].track = o3[e].track)
        PROVE  \/ o3[x].is_lower /\ o3[e].is_lower /\ o3[x].track >= o3[e].track
               \/ ~o3[x].is_lower /\ o3[x].track = LastTrack
    <3> DEFINE S == Issuable(u) \ Claimed[u - 1]
    <3>1. e = PickOldest(S) /\ e \in S /\ x \in S
      BY <2>1, <2>2, Picks
    <3>2. S \in SUBSET Held
      BY DEF Issuable, SlotReady, Held
    <3> HIDE DEF S
    <3>3. Older(e, x) \/ ~Older(x, e)
      BY <2>1, <3>1, <3>2, OldestIsPicked
    <3>4. e \in Held /\ x \in Held
      BY <3>1, <3>2
    <3>5. /\ o3[e].is_lower => o3[x].is_lower
          /\ o3[x].is_lower \/ o3[x].track <= o3[e].track \/ o3[x].track = LastTrack
      BY <2>2, <3>4 DEF IInv, StampsSound, EntryOf
    <3>6. /\ o3[e].is_lower \in BOOLEAN /\ o3[x].is_lower \in BOOLEAN
          /\ o3[e].track \in Int /\ o3[x].track \in Int
      <4>1. \A k \in Held : o3[k].is_lower \in BOOLEAN /\ o3[k].track \in Tracks
        BY <2>1, HeldIsTyped
      <4>2. Tracks \subseteq Int
        BY StampsAreCounted
      <4>3. QED
        BY <3>4, <4>1, <4>2
    <3>7. CASE o3[x].is_lower
      <4>1. ASSUME ~o3[e].is_lower PROVE FALSE
        <5>1. Older(x, e)
          BY <3>7, <4>1, Zenon DEF Older
        <5>2. ~Older(e, x)
          BY <3>6, <3>7, <4>1, Zenon DEF Older
        <5>3. QED
          BY <3>3, <5>1, <5>2
      <4>2. ASSUME o3[e].is_lower, o3[x].track < o3[e].track PROVE FALSE
        <5>1. o3[e].is_lower = o3[x].is_lower
          BY <3>6, <3>7, <4>2
        <5>2. /\ Older(e, x) <=> o3[e].track < o3[x].track
              /\ Older(x, e) <=> o3[x].track < o3[e].track
          BY <5>1, Zenon DEF Older
        <5>3. QED
          BY <3>3, <3>6, <4>2, <5>2
      <4>3. QED
        BY <3>6, <3>7, <4>1, <4>2
    <3>8. CASE ~o3[x].is_lower
      <4>1. ~o3[e].is_lower
        BY <3>5, <3>8
      <4>2. o3[e].is_lower = o3[x].is_lower
        BY <3>6, <3>8, <4>1
      <4>3. /\ Older(e, x) <=> o3[e].track < o3[x].track
            /\ Older(x, e) <=> o3[x].track < o3[e].track
        BY <3>8, <4>1, <4>2, Zenon DEF Older
      <4>4. ASSUME o3[x].track <= o3[e].track PROVE FALSE
        BY <2>2, <3>3, <3>6, <3>8, <4>3, <4>4
      <4>5. QED
        BY <3>5, <3>8, <4>4
    <3>9. QED
      BY <3>7, <3>8
  <2>3. QED
    BY <2>2 DEF OldestGoesFirst, LastTrack
<1>2. QED
  BY <1>1, Inductive, PTL
=============================================================================
