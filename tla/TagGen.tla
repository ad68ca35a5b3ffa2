------------------------------- MODULE TagGen -------------------------------
(***************************************************************************)
(* The speculation-tag allocator.  A dispatch group books its branches in  *)
(* lane order and a lane without a branch books nothing, so the group is   *)
(* known here by the NUMBER of bookings, and a lane by the number of       *)
(* bookings made by the lanes before it (and by itself).                   *)
(***************************************************************************)
EXTENDS TagRing

VARIABLES
  free_tag,     \* how many tags are left
  next_tag      \* the bit of the next tag handed out

TagGenInit ==
    /\ free_tag = SpTagLen - 1
    /\ next_tag = 0

Outstanding == free_tag # SpTagLen - 1

(* The tag handed out most recently, {} when none is outstanding. *)
LastTag == IF Outstanding THEN {RotateRight(next_tag, 1)} ELSE {}

(* The pointer stepped past n bookings. *)
TagAfter(n) == RotateLeft(next_tag, n)

(* What book_rename answers a lane: `before` bookings precede it, and      *)
(* `upto` counts its own too.                                              *)
IsSpec(before) == Outstanding \/ before > 0

TagInForce(upto) == IF upto = 0 THEN LastTag ELSE {TagAfter(upto - 1)}

(* Bug: only a group that finds no tag at all is told so. *)
OverUseFirstOnly(asked, resolve) == asked > 0 /\ free_tag + resolve = 0

(* Some booking finds no tag left, judged on what the lanes ask with the   *)
(* tag returned this cycle (resolve is 0 or 1) credited first.             *)
OverUse(asked, resolve) == asked > free_tag + resolve

(* Bug: the pointer moves by what was asked, landed or not. *)
UpdateMetaOnAsk(asked, landed, resolve) ==
    /\ free_tag' = free_tag + resolve - (IF landed THEN asked ELSE 0)
    /\ next_tag' = TagAfter(asked)

(* Bug: the return of a tag is lost when a booking is asked beside it. *)
UpdateMetaLosesReturn(asked, landed, resolve) ==
    LET took == IF landed THEN asked ELSE 0
    IN  /\ free_tag' = IF asked > 0 THEN free_tag - took ELSE free_tag + resolve
        /\ next_tag' = TagAfter(took)

(* The cycle's one write per counter: judged on the ask, moved by what     *)
(* landed.  A cycle where neither acted has took = resolve = 0.            *)
UpdateMeta(asked, landed, resolve) ==
    LET took == IF landed THEN asked ELSE 0
    IN  /\ free_tag' = free_tag + resolve - took
        /\ next_tag' = TagAfter(took)

(* A mispredict gives every tag back; the pointer goes just past t. *)
TagGenMisPred(t) ==
    /\ free_tag' = SpTagLen - 1
    /\ next_tag' = RotateLeft(t, 1)
=============================================================================
