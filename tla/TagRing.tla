------------------------------ MODULE TagRing ------------------------------
(***************************************************************************)
(* The values the speculation machinery passes around.  A tag is one-hot   *)
(* over SpTagLen bits and a kill mask is any set of bits, so both are      *)
(* subsets of Tags: {t} is the one-hot tag of bit t, {} is the tag 0, and  *)
(* the hardware's AND, OR and AND-NOT are \cap, \cup and \.                *)
(***************************************************************************)
EXTENDS Integers

CONSTANT SpTagLen       \* CPUO3_Config.sptag_len: the width of a tag, in bits

ASSUME SpTagLenAssumption == SpTagLen \in Nat \ {0}

Tags == 0 .. SpTagLen - 1

(* The bit n places further left, for n <= SpTagLen. *)
RotateLeft(t, n) == IF t + n < SpTagLen THEN t + n ELSE t + n - SpTagLen

(* The bit n places back, for n <= SpTagLen. *)
RotateRight(t, n) == IF n <= t THEN t - n ELSE t - n + SpTagLen

(***************************************************************************)
(* The speculation pair every in-flight record carries, and what a squash  *)
(* and a resolve ask of it.  Stations, execution stages and the store      *)
(* buffer all apply these two.                                             *)
(***************************************************************************)
SpecPair == [is_spec : BOOLEAN, spec_tag : SUBSET Tags]

Squashed(row, fix_tag) == row.is_spec /\ row.spec_tag \cap fix_tag # {}

Resolved(row, suc_tag) ==
    LET left == row.spec_tag \ suc_tag
    IN  IF row.is_spec
          THEN [row EXCEPT !.spec_tag = left, !.is_spec = left # {}]
          ELSE row
=============================================================================
