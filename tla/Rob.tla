-------------------------------- MODULE Rob --------------------------------
(***************************************************************************)
(* The reorder buffer: a ring of RobDepth rows in program order between    *)
(* com_ptr and alloc_ptr, with a count beside the two pointers.  A row is  *)
(* a record that has at least wb_fin and uop, which says is_branch and     *)
(* is_store.                                                               *)
(***************************************************************************)
EXTENDS Integers, FiniteSets

CONSTANTS
  RobDepth,     \* CPUO3_Config.rob_depth; a power of two
  CommitLanes   \* CPUO3_Config.commit_lanes

ASSUME RobAssumption ==
    /\ RobDepth \in Nat \ {0}
    /\ CommitLanes \in 1 .. RobDepth

VARIABLES
  table,            \* [Slots -> row]
  alloc_ptr,        \* the next row to allocate
  com_ptr,          \* the oldest row
  used_entry_cnt    \* how many rows are in use

robVars == <<table, alloc_ptr, com_ptr, used_entry_cnt>>

Slots == 0 .. RobDepth - 1

RobInit(blank) ==
    /\ table = [i \in Slots |-> blank]
    /\ alloc_ptr = 0
    /\ com_ptr = 0
    /\ used_entry_cnt = 0

(* The k-th oldest row's slot, and a slot's distance from the oldest. *)
SlotAt(k) == (com_ptr + k) % RobDepth
Age(i) == (i - com_ptr) % RobDepth

InFlight == {i \in Slots : Age(i) < used_entry_cnt}

(* Bug: one free row is taken as room for the whole group. *)
GroupFitsOne(wanted) == used_entry_cnt < RobDepth

(* A whole group fits, or none of it lands.  Rows committing this cycle    *)
(* are not counted as room.                                                *)
GroupFits(wanted) == wanted <= RobDepth - used_entry_cnt

(* The slot of a lane that `earlier` valid lanes of its group precede. *)
FreeSlot(earlier) == (alloc_ptr + earlier) % RobDepth

(* Commit lane `lane` retires: it and every lane before it hold a finished *)
(* row, and none before it holds a branch or a store, which end a group.   *)
CommitOk(lane) ==
    /\ \A k \in 0 .. lane : k < used_entry_cnt /\ table[SlotAt(k)].wb_fin
    /\ \A k \in 0 .. lane - 1 :
          ~table[SlotAt(k)].uop.is_branch /\ ~table[SlotAt(k)].uop.is_store

Retiring == {SlotAt(lane) : lane \in {l \in 0 .. CommitLanes - 1 : CommitOk(l)}}

(* Both pointers and the count, in a cycle without a squash that retires   *)
(* `gone` rows.                                                            *)
RobUpdate(wanted, landed, gone) ==
    LET took == IF landed THEN wanted ELSE 0
    IN  /\ alloc_ptr' = FreeSlot(took)
        /\ com_ptr' = SlotAt(gone)
        /\ used_entry_cnt' = used_entry_cnt + took - gone

(* A squash keeps the branch and everything older; the head stays. *)
RobMisPred(rob_idx) ==
    /\ alloc_ptr' = (rob_idx + 1) % RobDepth
    /\ used_entry_cnt' = Age(rob_idx) + 1
    /\ UNCHANGED com_ptr
=============================================================================
