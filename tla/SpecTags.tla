------------------------------ MODULE SpecTags ------------------------------
(***************************************************************************)
(* Speculation as the whole core sees it: TagGen and Mpft, the branches    *)
(* waiting in the branch station, and every other in-flight record that    *)
(* carries a speculation pair.  One step is one clock cycle's event.       *)
(*                                                                         *)
(* The branch station issues in order (RsvSpec._check_issue_policy), so    *)
(* the branch that resolves is always the head of branch_rsv.              *)
(***************************************************************************)
EXTENDS TagGen, Mpft, Sequences, FiniteSets

CONSTANT FeLanes        \* CPUO3_Config.fe_lanes: the width of a dispatch group

ASSUME FeLanesAssumption == FeLanes \in Nat \ {0}

VARIABLES
  group,        \* what the dispatch stage holds, lane by lane
  branch_rsv,   \* the pairs of the branches in flight, oldest first
  holders       \* the pairs other in-flight records hold.  `depth` is history:
                \* how many branches ahead of the record were unresolved

vars == <<free_tag, next_tag, fix_tag, group, branch_rsv, holders>>

Lanes == 1 .. FeLanes
EmptyGroup == [lane \in Lanes |-> "empty"]

Holder == [is_spec : BOOLEAN, spec_tag : SUBSET Tags, depth : Nat]

(* The branches among the lanes before this one, and in the whole group. *)
BranchesBefore(lane) == Cardinality({l \in Lanes : l < lane /\ group[l] = "branch"})
Asked == Cardinality({l \in Lanes : group[l] = "branch"})

Init ==
    /\ TagGenInit
    /\ MpftInit
    /\ group = EmptyGroup
    /\ branch_rsv = << >>
    /\ holders = {}

(* Decode hands dispatch its next group. *)
Deliver ==
    /\ group = EmptyGroup
    /\ group' \in [Lanes -> {"empty", "plain", "branch"}]
    /\ UNCHANGED <<free_tag, next_tag, fix_tag, branch_rsv, holders>>

(* Bug: a plain lane takes the tag the next branch would allocate. *)
PlainPairNextTag(lane) ==
    [is_spec  |-> IsSpec(BranchesBefore(lane)),
     spec_tag |-> {TagAfter(BranchesBefore(lane))},
     depth    |-> Len(branch_rsv) + BranchesBefore(lane)]

(* The pair a plain lane dispatches with. *)
PlainPair(lane) ==
    [is_spec  |-> IsSpec(BranchesBefore(lane)),
     spec_tag |-> TagInForce(BranchesBefore(lane)),
     depth    |-> Len(branch_rsv) + BranchesBefore(lane)]

(* The group lands whole: tags booked, rows written, records filled. *)
Dispatch ==
    /\ group # EmptyGroup
    /\ ~OverUse(Asked, 0)
    /\ UpdateMeta(Asked, TRUE, 0)
    /\ MpftRename(LastTag, [k \in 1 .. Asked |-> TagAfter(k - 1)])
    /\ branch_rsv' = branch_rsv \o [k \in 1 .. Asked |->
                        [is_spec |-> IsSpec(k - 1), spec_tag |-> TagInForce(k)]]
    /\ holders' = holders \cup {PlainPair(l) : l \in {l \in Lanes : group[l] = "plain"}}
    /\ group' = EmptyGroup

OneBranchLess(h) == [h EXCEPT !.depth = IF @ > 0 THEN @ - 1 ELSE 0]

(* The oldest branch was predicted right.  Dispatch is stalled for the     *)
(* cycle, so the group still asks and nothing lands.                       *)
SucPred ==
    LET tag == Head(branch_rsv).spec_tag
    IN  /\ branch_rsv # << >>
        /\ UpdateMeta(Asked, FALSE, 1)
        /\ MpftSucPred(tag)
        /\ branch_rsv' = [k \in 1 .. Len(branch_rsv) - 1 |->
                             Resolved(branch_rsv[k + 1], tag)]
        /\ holders' = {OneBranchLess(Resolved(h, tag)) : h \in holders}
        /\ UNCHANGED group

(* The oldest branch was predicted wrong: everything under its column of   *)
(* the Mpft goes, and the station keeps as many entries as survive.        *)
MisPred ==
    LET tag  == Head(branch_rsv).spec_tag
        kill == GetFixTag(tag)
        left == {k \in 2 .. Len(branch_rsv) : ~Squashed(branch_rsv[k], kill)}
    IN  /\ branch_rsv # << >>
        /\ \E t \in tag : TagGenMisPred(t)
        /\ MpftMisPred(tag)
        /\ branch_rsv' = SubSeq(branch_rsv, 2, Cardinality(left) + 1)
        /\ holders' = {h \in holders : ~Squashed(h, kill)}
        /\ group' = EmptyGroup

(* A record leaves: its instruction finished. *)
Finish(h) ==
    /\ holders' = holders \ {h}
    /\ UNCHANGED <<free_tag, next_tag, fix_tag, group, branch_rsv>>

Next ==
    \/ Deliver
    \/ Dispatch
    \/ SucPred
    \/ MisPred
    \/ \E h \in holders : Finish(h)

Spec == Init /\ [][Next]_vars

(* The branch unit answers every branch it is given, and dispatch goes     *)
(* when nothing it books is missing.                                       *)
FairSpec == Spec /\ WF_vars(Dispatch) /\ WF_vars(SucPred \/ MisPred)

-----------------------------------------------------------------------------
(***************************************************************************)
(* Properties                                                              *)
(***************************************************************************)

(* Types: the counters keep to their ranges, so none of them ever wraps. *)
TypeOK ==
    /\ free_tag \in 0 .. SpTagLen - 1
    /\ next_tag \in Tags
    /\ fix_tag \in [Tags -> SUBSET Tags]
    /\ group \in [Lanes -> {"empty", "plain", "branch"}]
    /\ branch_rsv \in Seq(SpecPair)
    /\ holders \subseteq Holder

(* The tag of the k-th oldest branch, counted back from the pointer. *)
RingTag(k) == RotateRight(next_tag, Len(branch_rsv) + 1 - k)

(* The pool's count and pointer agree with the branches in flight: every   *)
(* tag not in the pool is held by exactly one of them, in program order,   *)
(* ending just before next_tag.  A tag leaked, or handed out twice while   *)
(* open, breaks it (TagGen._resolve, on_mis_pred).                         *)
OpenTagsAreTheRing ==
    /\ Len(branch_rsv) + free_tag = SpTagLen - 1
    /\ \A k \in 1 .. Len(branch_rsv) : branch_rsv[k].spec_tag = {RingTag(k)}

(* The kill mask of any open branch takes exactly the records younger than *)
(* it: every branch and every holder behind it, nothing ahead of it        *)
(* (Mpft.get_fix_tag read against RsvBase.entry_squashed).                 *)
KillsExactlyYounger ==
    \A k \in 1 .. Len(branch_rsv) :
        LET kill == GetFixTag(branch_rsv[k].spec_tag)
        IN  /\ \A j \in 1 .. Len(branch_rsv) :
                   j # k => (Squashed(branch_rsv[j], kill) <=> j > k)
            /\ \A h \in holders : Squashed(h, kill) <=> h.depth >= k

(* No record carries a tag that has gone back to the pool, where the next  *)
(* branch could take it and squash a record it never covered; and a record *)
(* is speculative exactly while some branch ahead of it is open.           *)
NoStaleTag ==
    \A h \in holders :
        /\ h.is_spec <=> h.depth > 0
        /\ h.spec_tag = IF h.depth = 0 THEN {} ELSE {RingTag(h.depth)}

(* A group waiting in dispatch lands, or is squashed away: the stall of    *)
(* OverUse always ends.                                                    *)
GroupLeavesDispatch == group # EmptyGroup ~> group = EmptyGroup
=============================================================================
