-------------------------------- MODULE Mpft --------------------------------
(***************************************************************************)
(* The mispredict fix table: row t is the set of tags that branch t sits   *)
(* under, itself included.  A column of it is the kill mask of a squash.   *)
(***************************************************************************)
EXTENDS TagRing

CONSTANT PowerUp        \* the row values the registers may power up with

ASSUME PowerUpAssumption == PowerUp \subseteq SUBSET Tags

VARIABLE fix_tag        \* [Tags -> SUBSET Tags], the rows

(* The rows have no reset value: each starts as whatever it powers up with. *)
MpftInit == fix_tag \in [Tags -> PowerUp]

(* The column the one-hot tag names: bit u comes from row u. *)
GetFixTag(tag) == {u \in Tags : fix_tag[u] \cap tag # {}}

(* Bug: only the newest open tag seeds a row, not every open tag. *)
OpenTagsNewestOnly(last_tag) == last_tag

(* The open set, read off the row of the newest open tag. *)
OpenTags(last_tag) == UNION {fix_tag[t] : t \in last_tag}

(* The tags in `booked` leave TagGen this cycle, in lane order: the k-th   *)
(* sits under everything open and under the bookings before it.            *)
MpftRename(last_tag, booked) ==
    fix_tag' = [t \in Tags |->
        IF \E k \in DOMAIN booked : booked[k] = t
          THEN OpenTags(last_tag) \cup
               {u \in Tags : \E j, k \in DOMAIN booked :
                               j <= k /\ booked[j] = u /\ booked[k] = t}
          ELSE fix_tag[t]]

(* A resolved tag covers nothing any more. *)
MpftSucPred(tag) == fix_tag' = [t \in Tags |-> fix_tag[t] \ tag]

(* A squash leaves the branch's own row and empties every other. *)
MpftMisPred(tag) == fix_tag' = [t \in Tags |-> IF t \in tag THEN tag ELSE {}]
=============================================================================
