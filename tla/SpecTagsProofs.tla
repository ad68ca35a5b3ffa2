--------------------------- MODULE SpecTagsProofs ---------------------------
(***************************************************************************)
(* Proofs about SpecTags, for every number of tags, every lane count and   *)
(* every power-up content of the Mpft.                                     *)
(***************************************************************************)
EXTENDS SpecTags, FiniteSetTheorems, SequenceTheorems, TLAPS

(* The row of an open branch holds the ring tags up to its own; the rows   *)
(* of tags in the pool may hold anything.                                  *)
RowsNest ==
    \A k \in 1 .. Len(branch_rsv) :
        fix_tag[RingTag(k)] = {RingTag(j) : j \in 1 .. k}

(* Only the oldest branch may be non-speculative. *)
YoungerAreSpec == \A k \in 2 .. Len(branch_rsv) : branch_rsv[k].is_spec

DepthIsOpen == \A h \in holders : h.depth <= Len(branch_rsv)

(* The inductive invariant. *)
IInv ==
    /\ TypeOK
    /\ OpenTagsAreTheRing
    /\ RowsNest
    /\ YoungerAreSpec
    /\ DepthIsOpen
    /\ NoStaleTag

-----------------------------------------------------------------------------
(* One-hot positions.                                                      *)

(* Going back fewer than SpTagLen places from one bit, two distances reach *)
(* the same bit only if they are equal.                                    *)
LEMMA BackIsInjective ==
    ASSUME NEW n \in Tags, NEW a \in 1 .. SpTagLen - 1, NEW b \in 1 .. SpTagLen - 1
    PROVE  /\ RotateRight(n, a) \in Tags
           /\ RotateRight(n, a) = RotateRight(n, b) => a = b
BY SpTagLenAssumption DEF Tags, RotateRight

(* Stepping the pointer n places leaves the bits behind it where they were *)
(* and puts the n stepped-over bits right behind it.                       *)
LEMMA BackAfterStep ==
    ASSUME NEW p \in Tags, NEW n \in 0 .. SpTagLen - 1
    PROVE  /\ RotateLeft(p, n) \in Tags
           /\ RotateLeft(p, 0) = p
           /\ \A a \in 1 .. SpTagLen - 1 - n :
                 RotateRight(RotateLeft(p, n), a + n) = RotateRight(p, a)
           /\ \A i \in 1 .. n :
                 RotateRight(RotateLeft(p, n), n + 1 - i) = RotateLeft(p, i - 1)
BY SpTagLenAssumption DEF Tags, RotateLeft, RotateRight

-----------------------------------------------------------------------------
(* Counting branches.                                                      *)

(* The branches of the group, counted. *)
LEMMA BranchCounts ==
    ASSUME NEW lane \in Lanes
    PROVE  /\ Asked \in Nat
           /\ BranchesBefore(lane) \in 0 .. Asked
<1> DEFINE All == {l \in Lanes : group[l] = "branch"}
           Before == {l \in Lanes : l < lane /\ group[l] = "branch"}
<1>1. IsFiniteSet(Lanes)
  BY FS_Interval, FeLanesAssumption DEF Lanes
<1>2. IsFiniteSet(All) /\ Cardinality(All) \in Nat
  BY <1>1, FS_Subset, FS_CardinalityType
<1>3. Before \subseteq All
  OBVIOUS
<1>4. Cardinality(Before) \in Nat /\ Cardinality(Before) <= Cardinality(All)
  BY <1>2, <1>3, FS_Subset, FS_CardinalityType
<1>5. QED
  BY <1>2, <1>4 DEF Asked, BranchesBefore

-----------------------------------------------------------------------------
(* What the invariant says of one state.                                   *)

(* The ring tags of the open branches are tags, one per branch. *)
LEMMA RingTags ==
    ASSUME IInv
    PROVE  /\ Len(branch_rsv) \in 0 .. SpTagLen - 1
           /\ free_tag = SpTagLen - 1 - Len(branch_rsv)
           /\ \A k \in 1 .. Len(branch_rsv) : RingTag(k) \in Tags
           /\ \A j, k \in 1 .. Len(branch_rsv) : RingTag(j) = RingTag(k) => j = k
<1>1. /\ Len(branch_rsv) \in Nat
      /\ free_tag \in 0 .. SpTagLen - 1
      /\ next_tag \in Tags
      /\ Len(branch_rsv) + free_tag = SpTagLen - 1
  BY DEF IInv, TypeOK, OpenTagsAreTheRing
<1>2. Len(branch_rsv) \in 0 .. SpTagLen - 1 /\ free_tag = SpTagLen - 1 - Len(branch_rsv)
  BY <1>1, SpTagLenAssumption
<1>3. \A k \in 1 .. Len(branch_rsv) : Len(branch_rsv) + 1 - k \in 1 .. SpTagLen - 1
  BY <1>2, SpTagLenAssumption
<1>4. \A k \in 1 .. Len(branch_rsv) : RingTag(k) \in Tags
  BY <1>1, <1>3, BackIsInjective DEF RingTag
<1>5. ASSUME NEW j \in 1 .. Len(branch_rsv), NEW k \in 1 .. Len(branch_rsv),
             RingTag(j) = RingTag(k)
      PROVE  j = k
  <2>1. Len(branch_rsv) + 1 - j = Len(branch_rsv) + 1 - k
    BY <1>1, <1>3, <1>5, BackIsInjective DEF RingTag
  <2>2. QED
    BY <2>1, <1>1
<1>6. QED
  BY <1>2, <1>4, <1>5

(* The column of an open branch holds, of the open tags, those of the      *)
(* branches at or behind it.                                               *)
LEMMA ColumnOfOpenBranch ==
    ASSUME IInv, NEW k \in 1 .. Len(branch_rsv), NEW j \in 1 .. Len(branch_rsv)
    PROVE  RingTag(j) \in GetFixTag({RingTag(k)}) <=> k <= j
<1>1. fix_tag[RingTag(j)] = {RingTag(i) : i \in 1 .. j}
  BY DEF IInv, RowsNest
<1>2. RingTag(j) \in Tags /\ Len(branch_rsv) \in Nat
  BY RingTags
<1>3. RingTag(k) \in fix_tag[RingTag(j)] <=> k \in 1 .. j
  BY <1>1, <1>2, RingTags
<1>4. QED
  BY <1>2, <1>3 DEF GetFixTag

(* The invariant decides every squash.                                     *)
LEMMA InvKillsYounger == IInv => KillsExactlyYounger
<1> SUFFICES ASSUME IInv, NEW k \in 1 .. Len(branch_rsv)
             PROVE  LET kill == GetFixTag(branch_rsv[k].spec_tag)
                    IN  /\ \A j \in 1 .. Len(branch_rsv) :
                              j # k => (Squashed(branch_rsv[j], kill) <=> j > k)
                        /\ \A h \in holders : Squashed(h, kill) <=> h.depth >= k
  BY DEF KillsExactlyYounger
<1> DEFINE kill == GetFixTag({RingTag(k)})
<1>1. /\ Len(branch_rsv) \in Nat
      /\ \A j \in 1 .. Len(branch_rsv) : branch_rsv[j].spec_tag = {RingTag(j)}
  BY RingTags DEF IInv, OpenTagsAreTheRing
<1>2. ASSUME NEW j \in 1 .. Len(branch_rsv), j # k
      PROVE  Squashed(branch_rsv[j], kill) <=> j > k
  <2>1. branch_rsv[j].spec_tag \cap kill # {} <=> k <= j
    BY <1>1, ColumnOfOpenBranch
  <2>2. j > k => branch_rsv[j].is_spec
    BY <1>1 DEF IInv, YoungerAreSpec
  <2>3. Squashed(branch_rsv[j], kill) <=>
            branch_rsv[j].is_spec /\ branch_rsv[j].spec_tag \cap kill # {}
    BY Zenon DEF Squashed
  <2>4. k <= j <=> j > k
    BY <1>1, <1>2
  <2>5. QED
    BY <2>1, <2>2, <2>3, <2>4, Zenon
<1>3. ASSUME NEW h \in holders
      PROVE  Squashed(h, kill) <=> h.depth >= k
  <2>1. /\ h.is_spec <=> h.depth > 0
        /\ h.spec_tag = IF h.depth = 0 THEN {} ELSE {RingTag(h.depth)}
    BY Zenon DEF IInv, NoStaleTag
  <2>2. h.depth \in 0 .. Len(branch_rsv)
    <3>1. h \in Holder /\ h.depth <= Len(branch_rsv)
      BY Zenon DEF IInv, TypeOK, DepthIsOpen
    <3>2. QED
      BY <3>1, <1>1 DEF Holder
  <2>3. Squashed(h, kill) <=> h.is_spec /\ h.spec_tag \cap kill # {}
    BY Zenon DEF Squashed
  <2>4. CASE h.depth = 0
    BY <2>1, <2>4, <2>3, <1>1
  <2>5. CASE h.depth # 0
    <3>1. h.depth \in 1 .. Len(branch_rsv)
      BY <2>2, <2>5, <1>1
    <3>2. h.spec_tag \cap kill # {} <=> k <= h.depth
      BY <2>1, <2>5, <3>1, ColumnOfOpenBranch
    <3>3. h.depth > 0 /\ (k <= h.depth <=> h.depth >= k)
      BY <3>1, <1>1
    <3>4. QED
      BY <2>1, <2>3, <3>2, <3>3, Zenon
  <2>6. QED
    BY <2>4, <2>5
<1>4. QED
  BY <1>1, <1>2, <1>3

-----------------------------------------------------------------------------
(* Every step keeps the invariant.                                         *)

(* An empty core satisfies it, whatever the rows power up with. *)
LEMMA InitEstablishes == Init => IInv
<1> SUFFICES ASSUME Init PROVE IInv
  OBVIOUS
<1>1. Len(branch_rsv) = 0 /\ holders = {} /\ branch_rsv = << >>
  BY DEF Init
<1>2. fix_tag \in [Tags -> SUBSET Tags]
  BY PowerUpAssumption DEF Init, MpftInit
<1>3. TypeOK
  BY <1>1, <1>2, SpTagLenAssumption
     DEF Init, TagGenInit, TypeOK, Tags, EmptyGroup
<1>4. OpenTagsAreTheRing /\ RowsNest /\ YoungerAreSpec /\ DepthIsOpen /\ NoStaleTag
  BY <1>1, SpTagLenAssumption
     DEF Init, TagGenInit, OpenTagsAreTheRing, RowsNest, YoungerAreSpec, DepthIsOpen,
         NoStaleTag
<1>5. QED
  BY <1>3, <1>4 DEF IInv

(* A step that leaves the pool, the rows and the station alone, and only   *)
(* removes holders, keeps it.                                              *)
LEMMA QuietStep ==
    ASSUME IInv,
           UNCHANGED <<free_tag, next_tag, fix_tag, branch_rsv>>,
           holders' \subseteq holders,
           group' \in [Lanes -> {"empty", "plain", "branch"}]
    PROVE  IInv'
<1>1. TypeOK'
  BY DEF IInv, TypeOK
<1>2. \A k : RingTag(k)' = RingTag(k)
  BY DEF RingTag
<1>3. OpenTagsAreTheRing' /\ RowsNest' /\ YoungerAreSpec'
  BY <1>2 DEF IInv, OpenTagsAreTheRing, RowsNest, YoungerAreSpec
<1>4. DepthIsOpen' /\ NoStaleTag'
  BY <1>2 DEF IInv, DepthIsOpen, NoStaleTag
<1>5. QED
  BY <1>1, <1>3, <1>4 DEF IInv

(* A mispredict leaves no branch, no speculative holder and a full pool.   *)
LEMMA MisPredKeeps == IInv /\ MisPred => IInv'
<1> SUFFICES ASSUME IInv, MisPred PROVE IInv'
  OBVIOUS
<1> DEFINE tag  == Head(branch_rsv).spec_tag
           kill == GetFixTag(tag)
           left == {k \in 2 .. Len(branch_rsv) : ~Squashed(branch_rsv[k], kill)}
<1>1. /\ branch_rsv # << >>
      /\ \E t \in tag : TagGenMisPred(t)
      /\ MpftMisPred(tag)
      /\ branch_rsv' = SubSeq(branch_rsv, 2, Cardinality(left) + 1)
      /\ holders' = {h \in holders : ~Squashed(h, kill)}
      /\ group' = EmptyGroup
  BY DEF MisPred
<1>2. branch_rsv \in Seq(SpecPair) /\ Len(branch_rsv) \in Nat /\ 1 \in 1 .. Len(branch_rsv)
  BY <1>1 DEF IInv, TypeOK
<1>3. Head(branch_rsv) = branch_rsv[1] /\ tag = {RingTag(1)} /\ RingTag(1) \in Tags
  BY <1>1, <1>2, RingTags DEF IInv, OpenTagsAreTheRing
<1>4. KillsExactlyYounger
  BY InvKillsYounger
<1>5. /\ \A j \in 2 .. Len(branch_rsv) : Squashed(branch_rsv[j], kill)
      /\ \A h \in holders : Squashed(h, kill) <=> h.depth >= 1
  BY <1>2, <1>3, <1>4 DEF KillsExactlyYounger
<1>6. left = {} /\ Cardinality(left) = 0
  BY <1>5, FS_EmptySet
<1>7. branch_rsv' = << >> /\ Len(branch_rsv') = 0
  <2>1. branch_rsv' = SubSeq(branch_rsv, 2, 1)
    BY <1>1, <1>6
  <2>2. branch_rsv' \in Seq(SpecPair) /\ Len(branch_rsv') = 0
    BY <2>1, <1>2, SubSeqProperties
  <2>3. QED
    BY <2>2, EmptySeq
<1>8. \A h \in holders' : h \in holders /\ h.depth = 0
  BY <1>1, <1>5 DEF IInv, TypeOK, Holder
<1>9. TypeOK'
  <2>1. free_tag' \in 0 .. SpTagLen - 1 /\ next_tag' \in Tags
    BY <1>1, <1>3, SpTagLenAssumption DEF TagGenMisPred, RotateLeft, Tags
  <2>2. fix_tag' \in [Tags -> SUBSET Tags]
    BY <1>1, <1>3 DEF MpftMisPred
  <2>3. group' \in [Lanes -> {"empty", "plain", "branch"}]
    BY <1>1 DEF EmptyGroup
  <2>4. branch_rsv' \in Seq(SpecPair) /\ holders' \subseteq Holder
    BY <1>7, <1>8 DEF IInv, TypeOK
  <2>5. QED
    BY <2>1, <2>2, <2>3, <2>4 DEF TypeOK
<1>10. OpenTagsAreTheRing'
  <2>1. free_tag' = SpTagLen - 1
    BY <1>1, Zenon DEF TagGenMisPred
  <2>2. (Len(branch_rsv) + free_tag = SpTagLen - 1)'
    BY <2>1, <1>7, SpTagLenAssumption
  <2>3. (\A k \in 1 .. Len(branch_rsv) : branch_rsv[k].spec_tag = {RingTag(k)})'
    BY <1>7
  <2>4. QED
    BY <2>2, <2>3 DEF OpenTagsAreTheRing
<1>11. RowsNest' /\ YoungerAreSpec'
  BY <1>7 DEF RowsNest, YoungerAreSpec
<1>12. \A h \in holders' : ~h.is_spec /\ ~(h.depth > 0) /\ h.spec_tag = {}
  <2>1. TAKE h \in holders'
  <2>2. h \in holders /\ h \in Holder /\ h.depth = 0
    BY <1>8 DEF IInv, TypeOK
  <2>3. ~(h.depth > 0)
    BY <2>2
  <2>4. (h.is_spec <=> h.depth > 0) /\ h.spec_tag = IF h.depth = 0 THEN {} ELSE {RingTag(h.depth)}
    BY <2>2, Zenon DEF IInv, NoStaleTag
  <2>5. QED
    BY <2>2, <2>3, <2>4, Zenon
<1>13. DepthIsOpen' /\ NoStaleTag'
  <2>1. DepthIsOpen'
    BY <1>7, <1>8 DEF DepthIsOpen
  <2>2. NoStaleTag'
    BY <1>8, <1>12, Zenon DEF NoStaleTag
  <2>3. QED
    BY <2>1, <2>2
<1>14. QED
  BY <1>9, <1>10, <1>11, <1>13 DEF IInv

(* A record of the three fields is a holder. *)
LEMMA HolderRecord ==
    ASSUME NEW s \in BOOLEAN, NEW t \in SUBSET Tags, NEW d \in Nat
    PROVE  [is_spec |-> s, spec_tag |-> t, depth |-> d] \in Holder
BY DEF Holder

(* A resolve read field by field. *)
LEMMA ResolvedFields ==
    ASSUME NEW h \in Holder, NEW tag \in SUBSET Tags, NEW g,
           g = OneBranchLess(Resolved(h, tag))
    PROVE  /\ g \in Holder
           /\ g.depth = IF h.depth > 0 THEN h.depth - 1 ELSE 0
           /\ g.spec_tag = IF h.is_spec THEN h.spec_tag \ tag ELSE h.spec_tag
           /\ g.is_spec <=> h.is_spec /\ h.spec_tag \ tag # {}
<1> DEFINE left == h.spec_tag \ tag
           less == IF h.depth > 0 THEN h.depth - 1 ELSE 0
<1>1. h = [is_spec |-> h.is_spec, spec_tag |-> h.spec_tag, depth |-> h.depth]
      /\ h.is_spec \in BOOLEAN /\ h.spec_tag \in SUBSET Tags /\ h.depth \in Nat
  BY DEF Holder
<1>2. CASE h.is_spec
  <2>1. Resolved(h, tag) = [h EXCEPT !.spec_tag = left, !.is_spec = (left # {})]
    BY <1>2 DEF Resolved
  <2>2. Resolved(h, tag) = [is_spec |-> (left # {}), spec_tag |-> left, depth |-> h.depth]
    BY <2>1, <1>1
  <2>3. g = [is_spec |-> (left # {}), spec_tag |-> left, depth |-> less]
    BY <2>2 DEF OneBranchLess
  <2>4. less \in Nat /\ left \in SUBSET Tags
    BY <1>1
  <2>5. g \in Holder /\ g.depth = less /\ g.spec_tag = left
    <3>1. (left # {}) \in BOOLEAN
      OBVIOUS
    <3>2. g \in Holder
      BY <2>3, <2>4, <3>1, HolderRecord
    <3>3. QED
      BY <2>3, <3>2
  <2>6. g.is_spec = (left # {})
    BY <2>3
  <2>7. QED
    BY <2>5, <2>6, <1>2, Zenon
<1>3. CASE ~h.is_spec
  <2>1. Resolved(h, tag) = h
    BY <1>3 DEF Resolved
  <2>2. g = [h EXCEPT !.depth = less]
    BY <2>1 DEF OneBranchLess
  <2>3. less \in Nat
    BY <1>1
  <2>4. QED
    BY <2>2, <2>3, <1>3, <1>1 DEF Holder
<1>4. QED
  BY <1>2, <1>3

(* A resolve shifts the station by one and every depth by one, and the     *)
(* resolved tag, the oldest of the ring, leaves every record.              *)
LEMMA SucPredKeeps == IInv /\ SucPred => IInv'
<1> SUFFICES ASSUME IInv, SucPred PROVE IInv'
  OBVIOUS
<1> DEFINE n   == Len(branch_rsv)
           tag == Head(branch_rsv).spec_tag
<1>1. /\ branch_rsv # << >>
      /\ UpdateMeta(Asked, FALSE, 1)
      /\ MpftSucPred(tag)
      /\ branch_rsv' = [k \in 1 .. n - 1 |-> Resolved(branch_rsv[k + 1], tag)]
      /\ holders' = {OneBranchLess(Resolved(h, tag)) : h \in holders}
      /\ group' = group
  BY DEF SucPred
<1>2. branch_rsv \in Seq(SpecPair) /\ n \in Nat /\ 1 \in 1 .. n
  BY <1>1 DEF IInv, TypeOK
<1>3. Head(branch_rsv) = branch_rsv[1] /\ tag = {RingTag(1)} /\ RingTag(1) \in Tags
  BY <1>1, <1>2, RingTags DEF IInv, OpenTagsAreTheRing
<1>4. Len(branch_rsv') = n - 1 /\ n - 1 \in Nat
  BY <1>1, <1>2
<1>5. next_tag \in Tags /\ next_tag' = next_tag /\ free_tag' = free_tag + 1
  BY <1>1, SpTagLenAssumption
     DEF IInv, TypeOK, UpdateMeta, TagAfter, RotateLeft, Tags
<1>6. \A k \in 1 .. n - 1 : RingTag(k)' = RingTag(k + 1)
  BY <1>2, <1>4, <1>5 DEF RingTag
<1>7. \A k \in 2 .. n : RingTag(k) # RingTag(1)
  BY <1>2, RingTags
<1>8. ASSUME NEW k \in 1 .. n - 1
      PROVE  /\ branch_rsv'[k] \in SpecPair
             /\ branch_rsv'[k].is_spec
             /\ branch_rsv'[k].spec_tag = {RingTag(k)'}
  <2>1. k + 1 \in 2 .. n /\ k + 1 \in 1 .. n
    BY <1>2
  <2>2. branch_rsv'[k] = Resolved(branch_rsv[k + 1], tag)
    BY <1>1
  <2>3. /\ branch_rsv[k + 1] \in SpecPair
        /\ branch_rsv[k + 1].is_spec
        /\ branch_rsv[k + 1].spec_tag = {RingTag(k + 1)}
    BY <2>1, <1>2 DEF IInv, YoungerAreSpec, OpenTagsAreTheRing
  <2>4. branch_rsv[k + 1].spec_tag \ tag = {RingTag(k + 1)}
    BY <2>1, <2>3, <1>3, <1>7
  <2>5. branch_rsv'[k] = [branch_rsv[k + 1] EXCEPT !.spec_tag = {RingTag(k + 1)},
                                                   !.is_spec = TRUE]
    BY <2>2, <2>3, <2>4 DEF Resolved
  <2>6. RingTag(k + 1) \in Tags
    BY <2>1, RingTags
  <2>7. QED
    BY <2>3, <2>5, <2>6, <1>6 DEF SpecPair
<1>9. ASSUME NEW g \in holders'
      PROVE  /\ g \in Holder
             /\ g.depth <= n - 1
             /\ g.is_spec <=> g.depth > 0
             /\ g.spec_tag = IF g.depth = 0 THEN {} ELSE {RingTag(g.depth)'}
  <2>1. PICK h \in holders : g = OneBranchLess(Resolved(h, tag))
    BY <1>1
  <2>2. h \in Holder /\ h.depth \in 0 .. n
    BY <1>2 DEF IInv, TypeOK, DepthIsOpen, Holder
  <2>3. /\ h.is_spec <=> h.depth > 0
        /\ h.spec_tag = IF h.depth = 0 THEN {} ELSE {RingTag(h.depth)}
    BY Zenon DEF IInv, NoStaleTag
  <2>4. /\ g \in Holder
        /\ g.depth = IF h.depth > 0 THEN h.depth - 1 ELSE 0
        /\ g.spec_tag = IF h.is_spec THEN h.spec_tag \ tag ELSE h.spec_tag
        /\ g.is_spec <=> h.is_spec /\ h.spec_tag \ tag # {}
    <3>1. tag \in SUBSET Tags
      BY <1>3
    <3>2. h \in Holder
      BY <2>2
    <3> HIDE DEF tag
    <3>3. QED
      BY <3>1, <3>2, <2>1, ResolvedFields
  <2>5. CASE h.depth \in {0, 1}
    <3>1. g.depth = 0 /\ 0 <= n - 1 /\ ~(g.depth > 0)
      BY <2>4, <2>5, <1>4
    <3>2. g.spec_tag = {} /\ ~g.is_spec
      BY <2>3, <2>4, <2>5, <1>3
    <3>3. QED
      BY <2>4, <3>1, <3>2, Zenon
  <2>6. CASE h.depth \in 2 .. n
    <3>1. h.is_spec /\ h.spec_tag = {RingTag(h.depth)}
      BY <2>3, <2>6
    <3>2. h.spec_tag \ tag = {RingTag(h.depth)}
      BY <3>1, <2>6, <1>2, <1>3, <1>7
    <3>3. h.depth - 1 \in 1 .. n - 1 /\ RingTag(h.depth - 1)' = RingTag(h.depth)
      BY <2>6, <1>2, <1>6
    <3>4. g.depth = h.depth - 1 /\ g.depth > 0 /\ g.depth # 0 /\ g.depth <= n - 1
      BY <2>4, <2>6, <3>3, <1>2
    <3>5. g.is_spec /\ g.spec_tag = {RingTag(g.depth)'}
      BY <2>4, <3>1, <3>2, <3>3, <3>4
    <3>6. QED
      BY <2>4, <3>4, <3>5, Zenon
  <2>7. QED
    BY <2>2, <2>5, <2>6, <1>2
<1>10. fix_tag' \in [Tags -> SUBSET Tags]
  BY <1>1 DEF MpftSucPred, IInv, TypeOK
<1>11. ASSUME NEW k \in 1 .. n - 1
       PROVE  fix_tag'[RingTag(k)'] = {RingTag(j)' : j \in 1 .. k}
  <2>1. k + 1 \in 1 .. n /\ RingTag(k)' = RingTag(k + 1) /\ RingTag(k + 1) \in Tags
    BY <1>2, <1>6, RingTags
  <2>2. fix_tag'[RingTag(k + 1)] = fix_tag[RingTag(k + 1)] \ tag
    BY <1>1, <2>1 DEF MpftSucPred
  <2>3. fix_tag[RingTag(k + 1)] = {RingTag(j) : j \in 1 .. k + 1}
    BY <2>1 DEF IInv, RowsNest
  <2>4. {RingTag(j) : j \in 1 .. k + 1} \ tag = {RingTag(j) : j \in 2 .. k + 1}
    BY <1>2, <1>3, <1>7
  <2>5. {RingTag(j) : j \in 2 .. k + 1} = {RingTag(j + 1) : j \in 1 .. k}
    <3>1. \A j \in 2 .. k + 1 : j - 1 \in 1 .. k /\ RingTag((j - 1) + 1) = RingTag(j)
      BY <1>2
    <3>2. \A j \in 1 .. k : j + 1 \in 2 .. k + 1
      BY <1>2
    <3>3. QED
      BY <3>1, <3>2
  <2>6. {RingTag(j + 1) : j \in 1 .. k} = {RingTag(j)' : j \in 1 .. k}
    <3>1. \A j \in 1 .. k : j \in 1 .. n - 1
      BY <1>2
    <3>2. \A j \in 1 .. k : RingTag(j)' = RingTag(j + 1)
      BY <3>1, <1>6
    <3>3. QED
      BY <3>2, Zenon
  <2>7. QED
    BY <2>1, <2>2, <2>3, <2>4, <2>5, <2>6
<1>12. TypeOK'
  <2>1. branch_rsv' \in Seq(SpecPair)
    <3>1. \A k \in 1 .. n - 1 : Resolved(branch_rsv[k + 1], tag) \in SpecPair
      BY <1>1, <1>8
    <3>2. QED
      BY <3>1, <1>1, <1>4
  <2>2. free_tag' \in 0 .. SpTagLen - 1
    BY <1>2, <1>5, RingTags, SpTagLenAssumption
  <2>3. QED
    BY <1>1, <1>5, <1>9, <1>10, <2>1, <2>2 DEF IInv, TypeOK
<1>13. OpenTagsAreTheRing'
  <2>1. (Len(branch_rsv) + free_tag = SpTagLen - 1)'
    BY <1>2, <1>4, <1>5, RingTags, SpTagLenAssumption
  <2>2. (\A k \in 1 .. Len(branch_rsv) : branch_rsv[k].spec_tag = {RingTag(k)})'
    BY <1>4, <1>8
  <2>3. QED
    BY <2>1, <2>2 DEF OpenTagsAreTheRing
<1>14. RowsNest'
  BY <1>4, <1>11 DEF RowsNest
<1>15. YoungerAreSpec'
  BY <1>2, <1>4, <1>8 DEF YoungerAreSpec
<1>16. DepthIsOpen'
  BY <1>4, <1>9 DEF DepthIsOpen
<1>17. NoStaleTag'
  BY <1>9 DEF NoStaleTag
<1>18. QED
  BY <1>12, <1>13, <1>14, <1>15, <1>16, <1>17 DEF IInv

(* A landing group extends the ring, and its rows nest in the rows before. *)
LEMMA DispatchKeeps == IInv /\ Dispatch => IInv'
<1> SUFFICES ASSUME IInv, Dispatch PROVE IInv'
  OBVIOUS
<1> DEFINE n == Len(branch_rsv)
           booked == [k \in 1 .. Asked |-> TagAfter(k - 1)]
           new == [k \in 1 .. Asked |->
                      [is_spec |-> IsSpec(k - 1), spec_tag |-> TagInForce(k)]]
<1>1. /\ ~OverUse(Asked, 0)
      /\ UpdateMeta(Asked, TRUE, 0)
      /\ MpftRename(LastTag, booked)
      /\ branch_rsv' = branch_rsv \o new
      /\ holders' = holders \cup {PlainPair(l) : l \in {l \in Lanes : group[l] = "plain"}}
      /\ group' = EmptyGroup
  BY DEF Dispatch
<1>2. /\ Asked \in Nat
      /\ \A l \in Lanes : BranchesBefore(l) \in 0 .. Asked
  BY BranchCounts, FeLanesAssumption DEF Lanes
<1>3. /\ branch_rsv \in Seq(SpecPair) /\ n \in 0 .. SpTagLen - 1
      /\ next_tag \in Tags
      /\ free_tag = SpTagLen - 1 - n
  BY RingTags DEF IInv, TypeOK
<1>4. Asked <= SpTagLen - 1 - n /\ Asked \in 0 .. SpTagLen - 1
  BY <1>1, <1>2, <1>3, SpTagLenAssumption DEF OverUse
<1>5. free_tag' = free_tag - Asked /\ next_tag' = RotateLeft(next_tag, Asked)
      /\ next_tag' \in Tags
  BY <1>1, <1>2, <1>3, <1>4, BackAfterStep DEF UpdateMeta, TagAfter
<1>6. /\ Len(branch_rsv') = n + Asked
      /\ \A k \in 1 .. n : branch_rsv'[k] = branch_rsv[k]
      /\ \A i \in 1 .. Asked : branch_rsv'[n + i] =
               [is_spec |-> IsSpec(i - 1), spec_tag |-> TagInForce(i)]
  <2>1. new \in Seq({new[i] : i \in 1 .. Asked}) /\ Len(new) = Asked
    BY <1>2
  <2>2. QED
    BY <1>1, <1>2, <1>3, <2>1
<1> DEFINE ring(k) == RotateRight(next_tag', n + Asked + 1 - k)
<1>7. /\ \A k \in 1 .. n : ring(k) = RingTag(k)
      /\ \A i \in 1 .. Asked : ring(n + i) = TagAfter(i - 1)
      /\ \A k : RingTag(k)' = ring(k)
  <2>1. ASSUME NEW k \in 1 .. n PROVE ring(k) = RingTag(k)
    <3>1. n + 1 - k \in 1 .. SpTagLen - 1 - Asked
      BY <1>3, <1>4, SpTagLenAssumption
    <3>2. n + Asked + 1 - k = (n + 1 - k) + Asked
      BY <1>3, <1>4
    <3>3. QED
      BY <3>1, <3>2, <1>3, <1>4, <1>5, BackAfterStep DEF RingTag
  <2>2. ASSUME NEW i \in 1 .. Asked PROVE ring(n + i) = TagAfter(i - 1)
    <3>1. n + Asked + 1 - (n + i) = Asked + 1 - i
      BY <1>3, <1>4
    <3>2. RotateRight(RotateLeft(next_tag, Asked), Asked + 1 - i) = RotateLeft(next_tag, i - 1)
      BY <1>3, <1>4, BackAfterStep
    <3>3. QED
      BY <3>1, <3>2, <1>5 DEF TagAfter
  <2>3. \A k : RingTag(k)' = ring(k)
    BY <1>6 DEF RingTag
  <2>4. QED
    BY <2>1, <2>2, <2>3
<1>8. /\ \A k \in 1 .. n + Asked : ring(k) \in Tags
      /\ \A j, k \in 1 .. n + Asked : ring(j) = ring(k) => j = k
  <2>1. \A k \in 1 .. n + Asked : n + Asked + 1 - k \in 1 .. SpTagLen - 1
    BY <1>3, <1>4, SpTagLenAssumption
  <2>2. ASSUME NEW j \in 1 .. n + Asked, NEW k \in 1 .. n + Asked, ring(j) = ring(k)
        PROVE  j = k
    <3>1. n + Asked + 1 - j = n + Asked + 1 - k
      BY <2>1, <2>2, <1>5, BackIsInjective
    <3>2. QED
      BY <3>1, <1>3, <1>4
  <2>3. \A k \in 1 .. n + Asked : ring(k) \in Tags
    BY <2>1, <1>5, BackIsInjective
  <2>4. QED
    BY <2>2, <2>3
<1> HIDE DEF ring
<1>9. /\ Outstanding <=> n > 0
      /\ n = 0 => LastTag = {}
      /\ n > 0 => LastTag = {RingTag(n)}
  <2>1. Outstanding <=> n > 0
    BY <1>3, SpTagLenAssumption DEF Outstanding
  <2>2. n > 0 => RotateRight(next_tag, 1) = RingTag(n)
    BY <1>3 DEF RingTag
  <2>3. QED
    BY <2>1, <2>2, <1>3 DEF LastTag
<1>10. ASSUME NEW k \in 1 .. n + Asked
       PROVE  /\ branch_rsv'[k] \in SpecPair
              /\ k \in 2 .. n + Asked => branch_rsv'[k].is_spec
              /\ branch_rsv'[k].spec_tag = {ring(k)}
  <2>1. CASE k <= n
    <3>1. k \in 1 .. n
      BY <2>1, <1>3
    <3>2. branch_rsv[k] \in SpecPair /\ branch_rsv[k].spec_tag = {RingTag(k)}
      BY <3>1, <1>3 DEF IInv, OpenTagsAreTheRing
    <3>3. k \in 2 .. n + Asked => branch_rsv[k].is_spec
      BY <3>1, <1>3, <1>4 DEF IInv, YoungerAreSpec
    <3>4. QED
      BY <3>1, <3>2, <3>3, <1>6, <1>7
  <2>2. CASE k > n
    <3>1. PICK i \in 1 .. Asked : k = n + i
      <4>1. k - n \in 1 .. Asked /\ k = n + (k - n)
        BY <2>2, <1>3, <1>4
      <4>2. QED
        BY <4>1
    <3>2. branch_rsv'[k] = [is_spec |-> IsSpec(i - 1), spec_tag |-> TagInForce(i)]
      BY <3>1, <1>6
    <3>3. TagInForce(i) = {ring(k)}
      BY <3>1, <1>7 DEF TagInForce
    <3>4. ring(k) \in Tags
      BY <1>8
    <3>5. IsSpec(i - 1) \in BOOLEAN
      BY DEF IsSpec
    <3>6. k \in 2 .. n + Asked => n > 0 \/ i - 1 > 0
      BY <3>1, <1>3
    <3>7. k \in 2 .. n + Asked => IsSpec(i - 1)
      BY <3>6, <1>9 DEF IsSpec
    <3>8. branch_rsv'[k].is_spec = IsSpec(i - 1) /\ branch_rsv'[k].spec_tag = {ring(k)}
          /\ branch_rsv'[k] \in SpecPair
      BY <3>2, <3>3, <3>4, <3>5 DEF SpecPair
    <3>9. QED
      BY <3>7, <3>8, Zenon
  <2>3. QED
    BY <2>1, <2>2, <1>3, <1>4
<1>11. ASSUME NEW g \in holders'
       PROVE  /\ g \in Holder
              /\ g.depth <= n + Asked
              /\ g.is_spec <=> g.depth > 0
              /\ g.spec_tag = IF g.depth = 0 THEN {} ELSE {ring(g.depth)}
  <2>1. CASE g \in holders
    <3>1. g \in Holder /\ g.depth <= n
      BY <2>1 DEF IInv, TypeOK, DepthIsOpen
    <3>2. g.depth \in Nat
      BY <3>1 DEF Holder
    <3>3. g.depth <= n + Asked
      BY <3>1, <3>2, <1>3, <1>4
    <3>4. g.depth = 0 \/ ring(g.depth) = RingTag(g.depth)
      BY <3>1, <3>2, <1>3, <1>7
    <3>5. /\ g.is_spec <=> g.depth > 0
          /\ g.spec_tag = IF g.depth = 0 THEN {} ELSE {RingTag(g.depth)}
      BY <2>1, Zenon DEF IInv, NoStaleTag
    <3>6. g.spec_tag = IF g.depth = 0 THEN {} ELSE {ring(g.depth)}
      BY <3>4, <3>5
    <3>7. QED
      BY <3>1, <3>3, <3>5, <3>6, Zenon
  <2>2. CASE g \notin holders
    <3>1. PICK l \in Lanes : g = PlainPair(l)
      BY <1>1, <2>2
    <3> DEFINE b == BranchesBefore(l)
    <3>2. b \in 0 .. Asked
      BY <1>2
    <3>3. g = [is_spec |-> IsSpec(b), spec_tag |-> TagInForce(b), depth |-> n + b]
      BY <3>1 DEF PlainPair
    <3>4. /\ n + b \in 0 .. n + Asked /\ n + b \in Nat
          /\ n + b > 0 <=> n > 0 \/ b > 0
      BY <3>2, <1>3, <1>4
    <3>5. IsSpec(b) \in BOOLEAN /\ (IsSpec(b) <=> n + b > 0)
      BY <3>4, <1>9 DEF IsSpec
    <3>6. TagInForce(b) = IF n + b = 0 THEN {} ELSE {ring(n + b)}
      <4>1. CASE b = 0
        <5>1. n > 0 => ring(n) = RingTag(n)
          BY <1>3, <1>7
        <5>2. QED
          BY <4>1, <5>1, <1>3, <1>9 DEF TagInForce
      <4>2. CASE b \in 1 .. Asked
        <5>1. b # 0 /\ n + b # 0
          BY <4>2, <1>3
        <5>2. ring(n + b) = TagAfter(b - 1)
          BY <4>2, <1>7
        <5>3. QED
          BY <5>1, <5>2 DEF TagInForce
      <4>3. QED
        BY <4>1, <4>2, <3>2, <1>4
    <3>7. TagInForce(b) \in SUBSET Tags
      BY <3>4, <3>6, <1>8
    <3> HIDE DEF b
    <3>8. g \in Holder
      BY <3>3, <3>4, <3>5, <3>7, HolderRecord
    <3>9. /\ g.depth = n + b
          /\ g.is_spec = IsSpec(b)
          /\ g.spec_tag = TagInForce(b)
      BY <3>3
    <3>10. g.depth <= n + Asked
      BY <3>4, <3>9, <1>3, <1>4
    <3>11. QED
      BY <3>5, <3>6, <3>8, <3>9, <3>10, Zenon
  <2>3. QED
    BY <2>1, <2>2
<1>12. OpenTags(LastTag) = {RingTag(j) : j \in 1 .. n}
  <2>1. CASE n = 0
    <3>1. OpenTags(LastTag) = {}
      BY <2>1, <1>9 DEF OpenTags
    <3>2. QED
      BY <2>1, <3>1
  <2>2. CASE n > 0
    <3>1. n \in 1 .. n /\ fix_tag[RingTag(n)] = {RingTag(j) : j \in 1 .. n}
      BY <2>2, <1>3 DEF IInv, RowsNest
    <3>2. OpenTags(LastTag) = fix_tag[RingTag(n)]
      BY <2>2, <1>9 DEF OpenTags
    <3>3. QED
      BY <3>1, <3>2
  <2>3. QED
    BY <2>1, <2>2, <1>3
<1>13. /\ DOMAIN booked = 1 .. Asked
       /\ \A i \in 1 .. Asked : booked[i] = ring(n + i) /\ n + i \in 1 .. n + Asked
  BY <1>3, <1>4, <1>7
<1>14. fix_tag' \in [Tags -> SUBSET Tags]
  <2>1. OpenTags(LastTag) \subseteq Tags
    BY <1>12, RingTags
  <2>2. QED
    BY <2>1, <1>1 DEF MpftRename, IInv, TypeOK
<1>15. ASSUME NEW k \in 1 .. n + Asked
       PROVE  fix_tag'[ring(k)] = {ring(j) : j \in 1 .. k}
  <2> DEFINE r == ring(k)
             under == {u \in Tags : \E i, m \in DOMAIN booked :
                                       i <= m /\ booked[i] = u /\ booked[m] = r}
  <2>0. r \in Tags
    BY <1>8
  <2>1. fix_tag'[r] = IF \E m \in DOMAIN booked : booked[m] = r
                        THEN OpenTags(LastTag) \cup under
                        ELSE fix_tag[r]
    BY <2>0, <1>1 DEF MpftRename
  <2>2. CASE k <= n
    <3>1. k \in 1 .. n
      BY <2>2, <1>3
    <3>2. ~ \E m \in DOMAIN booked : booked[m] = r
      <4>1. \A m \in 1 .. Asked : n + m # k
        BY <2>2, <1>3, <1>4
      <4>2. QED
        BY <4>1, <1>8, <1>13
    <3>3. fix_tag'[r] = {RingTag(j) : j \in 1 .. k}
      BY <2>1, <3>1, <3>2, <1>7 DEF IInv, RowsNest
    <3>4. \A j \in 1 .. k : ring(j) = RingTag(j)
      BY <3>1, <1>3, <1>7
    <3>5. {RingTag(j) : j \in 1 .. k} = {ring(j) : j \in 1 .. k}
      BY <3>4, Zenon
    <3>6. QED
      BY <3>3, <3>5
  <2>3. CASE k > n
    <3>1. k - n \in 1 .. Asked /\ n + (k - n) = k /\ booked[k - n] = r
      <4>1. k - n \in 1 .. Asked /\ n + (k - n) = k
        BY <2>3, <1>3, <1>4
      <4>2. booked[k - n] = ring(n + (k - n))
        BY <4>1, <1>13
      <4>3. QED
        BY <4>1, <4>2
    <3>2. under = {u \in Tags : \E i \in 1 .. k - n : booked[i] = u}
      <4>1. \A m \in 1 .. Asked : booked[m] = r => m = k - n
        BY <1>3, <1>4, <1>8, <1>13
      <4>2. \A i \in 1 .. Asked : i <= k - n <=> i \in 1 .. k - n
        BY <3>1, <1>4
      <4>3. 1 .. k - n \subseteq 1 .. Asked
        BY <3>1, <1>4
      <4>4. QED
        BY <3>1, <4>1, <4>2, <4>3, <1>13
    <3>3. fix_tag'[r] = {RingTag(j) : j \in 1 .. n} \cup under
      BY <2>1, <3>1, <1>12, <1>13
    <3>4. ASSUME NEW u
          PROVE  u \in {RingTag(j) : j \in 1 .. n} \cup under
                   <=> \E j \in 1 .. k : u = ring(j)
      <4>1. (\E j \in 1 .. n : u = RingTag(j)) <=> (\E j \in 1 .. n : u = ring(j))
        BY <1>7
      <4>2. u \in under <=> \E i \in 1 .. k - n : u = ring(n + i)
        <5>1. \A i \in 1 .. k - n : i \in 1 .. Asked
          BY <3>1, <1>4
        <5>2. \A i \in 1 .. k - n : booked[i] = ring(n + i) /\ ring(n + i) \in Tags
          BY <5>1, <1>8, <1>13
        <5>3. QED
          BY <3>2, <5>2, Zenon
      <4>3. (\E j \in 1 .. k : u = ring(j))
              <=> (\E j \in 1 .. n : u = ring(j))
                     \/ (\E i \in 1 .. k - n : u = ring(n + i))
        <5>1. \A j \in 1 .. k : j \in 1 .. n \/ (j - n \in 1 .. k - n /\ n + (j - n) = j)
          BY <1>3, <1>4
        <5>2. (\A j \in 1 .. n : j \in 1 .. k) /\ (\A i \in 1 .. k - n : n + i \in 1 .. k)
          BY <2>3, <1>3, <1>4
        <5>3. QED
          BY <5>1, <5>2
      <4>4. QED
        BY <4>1, <4>2, <4>3
    <3>5. QED
      BY <3>3, <3>4
  <2>4. QED
    BY <2>2, <2>3, <1>3, <1>4
<1>16. TypeOK'
  <2>1. free_tag' \in 0 .. SpTagLen - 1
    BY <1>3, <1>4, <1>5, SpTagLenAssumption
  <2>2. branch_rsv' \in Seq(SpecPair)
    <3>1. new \in Seq(SpecPair)
      <4>1. \A i \in 1 .. Asked : new[i] \in SpecPair
        BY <1>3, <1>4, <1>6, <1>10, <1>13
      <4>2. QED
        BY <4>1, <1>2
    <3>2. QED
      BY <3>1, <1>1, <1>3
  <2>3. QED
    BY <1>1, <1>5, <1>11, <1>14, <2>1, <2>2 DEF TypeOK, EmptyGroup
<1>17. OpenTagsAreTheRing'
  <2>1. (Len(branch_rsv) + free_tag = SpTagLen - 1)'
    BY <1>3, <1>4, <1>5, <1>6, SpTagLenAssumption
  <2>2. (\A k \in 1 .. Len(branch_rsv) : branch_rsv[k].spec_tag = {RingTag(k)})'
    BY <1>6, <1>7, <1>10
  <2>3. QED
    BY <2>1, <2>2 DEF OpenTagsAreTheRing
<1>18. RowsNest'
  BY <1>6, <1>7, <1>15 DEF RowsNest
<1>19. YoungerAreSpec'
  BY <1>3, <1>4, <1>6, <1>10 DEF YoungerAreSpec
<1>20. DepthIsOpen'
  BY <1>6, <1>11 DEF DepthIsOpen
<1>21. NoStaleTag'
  BY <1>7, <1>11 DEF NoStaleTag
<1>22. QED
  BY <1>16, <1>17, <1>18, <1>19, <1>20, <1>21 DEF IInv

(* The invariant is inductive. *)
LEMMA StepKeeps == IInv /\ [Next]_vars => IInv'
<1> SUFFICES ASSUME IInv, [Next]_vars PROVE IInv'
  OBVIOUS
<1>1. CASE Deliver
  BY <1>1, QuietStep DEF Deliver
<1>2. CASE Dispatch
  BY <1>2, DispatchKeeps
<1>3. CASE SucPred
  BY <1>3, SucPredKeeps
<1>4. CASE MisPred
  BY <1>4, MisPredKeeps
<1>5. ASSUME NEW h \in holders, Finish(h) PROVE IInv'
  <2>1. group' \in [Lanes -> {"empty", "plain", "branch"}]
    BY <1>5 DEF Finish, IInv, TypeOK
  <2>2. QED
    BY <1>5, <2>1, QuietStep DEF Finish
<1>6. CASE UNCHANGED vars
  <2>1. group' \in [Lanes -> {"empty", "plain", "branch"}]
    BY <1>6 DEF vars, IInv, TypeOK
  <2>2. QED
    BY <1>6, <2>1, QuietStep DEF vars
<1>7. QED
  BY <1>1, <1>2, <1>3, <1>4, <1>5, <1>6 DEF Next

-----------------------------------------------------------------------------
(* The theorems.                                                           *)

(* The inductive invariant holds in every state the core reaches. *)
THEOREM InductiveInvariant == Spec => []IInv
<1>1. Init => IInv
  BY InitEstablishes
<1>2. IInv /\ [Next]_vars => IInv'
  BY StepKeeps
<1>3. QED
  BY <1>1, <1>2, PTL DEF Spec

(* The tag counters and rows keep to their ranges: the free count never    *)
(* wraps and the pointer stays one-hot, however wide the core.             *)
THEOREM TypesHold == Spec => []TypeOK
<1>1. IInv => TypeOK
  BY DEF IInv
<1>2. QED
  BY <1>1, InductiveInvariant, PTL

(* No tag leaks and none is handed out twice: the tags out of the pool are *)
(* those of the branches in flight, in order, just behind the pointer.     *)
THEOREM RingHolds == Spec => []OpenTagsAreTheRing
<1>1. IInv => OpenTagsAreTheRing
  BY DEF IInv
<1>2. QED
  BY <1>1, InductiveInvariant, PTL

(* A squash takes exactly what is younger than its branch.                 *)
THEOREM SquashIsExact == Spec => []KillsExactlyYounger
<1>1. IInv => KillsExactlyYounger
  BY InvKillsYounger
<1>2. QED
  BY <1>1, InductiveInvariant, PTL

(* No record keeps a tag of a branch that has resolved.                    *)
THEOREM TagsStayFresh == Spec => []NoStaleTag
<1>1. IInv => NoStaleTag
  BY DEF IInv
<1>2. QED
  BY <1>1, InductiveInvariant, PTL
=============================================================================
