------------------------------- MODULE RsvIOR -------------------------------
(***************************************************************************)
(* An in-order reservation station: a ring of entries dispatched at        *)
(* rsv_alloc and issued from rsv_head, never past it.  The code's table,   *)
(* alloc_ptr and head_ptr.                                                 *)
(***************************************************************************)
EXTENDS TagRing, Sequences, FiniteSets

CONSTANT RsvSize        \* RsvSpec.size; a power of two

ASSUME RsvAssumption == RsvSize \in Nat \ {0, 1}

VARIABLES rsv, rsv_alloc, rsv_head

rsvVars == <<rsv, rsv_alloc, rsv_head>>

RsvSlots == 0 .. RsvSize - 1

(* An invalid row; what else it holds does not matter. *)
NoEntry == [valid |-> FALSE]

RsvInit ==
    /\ rsv = [i \in RsvSlots |-> NoEntry]
    /\ rsv_alloc = 0
    /\ rsv_head = 0

Waiting == {i \in RsvSlots : rsv[i].valid}

(* Bug: the station looks for room only where the first lane lands. *)
RsvFitsFirst(wanted) == wanted = 0 \/ rsv_alloc \notin Waiting

(* Every lane aimed here finds its row of the run free. *)
RsvFits(wanted) == \A k \in 0 .. wanted - 1 : (rsv_alloc + k) % RsvSize \notin Waiting

(* A cycle without a squash: the entries `taken` land in lane order, the   *)
(* head leaves if it is issued, and every entry drops the tags resolving.  *)
RsvUpdate(taken, issued, suc) ==
    LET lane(i) == 1 + ((i - rsv_alloc) % RsvSize)
        kept    == {i \in Waiting : ~(issued /\ i = rsv_head)}
    IN  /\ rsv' = [i \in RsvSlots |->
               IF lane(i) \in DOMAIN taken THEN taken[lane(i)]
               ELSE IF i \in kept THEN Resolved(rsv[i], suc)
               ELSE NoEntry]
        /\ rsv_alloc' = (rsv_alloc + Len(taken)) % RsvSize
        /\ rsv_head' = IF issued THEN (rsv_head + 1) % RsvSize ELSE rsv_head

(* A squash: nothing lands or issues, the entries under `kill` go, and the *)
(* run ends at the survivors.                                              *)
RsvMisPred(kill) ==
    LET survivors == {i \in Waiting : ~Squashed(rsv[i], kill)}
    IN  /\ rsv' = [i \in RsvSlots |-> IF i \in survivors THEN rsv[i] ELSE NoEntry]
        /\ rsv_alloc' = (rsv_head + Cardinality(survivors)) % RsvSize
        /\ UNCHANGED rsv_head
=============================================================================
