-------------------------------- MODULE Prf --------------------------------
(***************************************************************************)
(* The physical register file of one register class: which entries hold a  *)
(* written-back value (fin), and the pool, a ring kept as a count of free  *)
(* entries and the index of the next one handed out.  Allocation and       *)
(* release are both in program order, so neither needs a list.             *)
(***************************************************************************)
EXTENDS Integers

CONSTANTS
  PhyAmount,    \* entries in the file; a power of two
  FinPowerUp    \* what the fin bits may power up as: they have no reset value

ASSUME PrfAssumption ==
    /\ PhyAmount \in Nat \ {0}
    /\ FinPowerUp \subseteq BOOLEAN

VARIABLES
  fin,          \* [Phys -> BOOLEAN]: the entry's value has been written back
  free_entry,   \* how many entries are free
  next_index    \* the next entry to allocate

prfVars == <<fin, free_entry, next_index>>

Phys == 0 .. PhyAmount - 1
NoReg == -1             \* "no register", for the places where one is optional

PrfInit ==
    /\ \E b \in FinPowerUp : fin = [p \in Phys |-> b]
    /\ free_entry = PhyAmount
    /\ next_index = 0

(* The entry promised to a lane that `earlier` bookings of its cycle precede. *)
Promised(earlier) == (next_index + earlier) % PhyAmount

(* Some booking finds nothing free, with the entries `returned` by this    *)
(* cycle's commits already back in the pool.                               *)
PrfOverUse(asked, returned) == asked > free_entry + returned

(* The cycle's one write per counter: what commits returned comes in, and  *)
(* what was asked goes out only if the bundle landed.                      *)
PrfUpdateMeta(asked, landed, returned) ==
    LET took == IF landed THEN asked ELSE 0
    IN  /\ free_entry' = free_entry + returned - took
        /\ next_index' = (next_index + took) % PhyAmount

(* The read view of entry p: a writeback landing this cycle shows at once, *)
(* and an entry this cycle marks reads as not written.                     *)
ReadFin(p, written, marked) == (fin[p] \/ p \in written) /\ p \notin marked

(* Bug: a rename leaves the bit its last owner set. *)
FinUpdateNeverClears(written, marked) ==
    fin' = [p \in Phys |-> fin[p] \/ p \in written]

(* The edge: writebacks set fin and renames clear it.  Where both name one *)
(* entry the two writes have one priority and either may win.              *)
FinUpdate(written, marked) ==
    \E first \in SUBSET (written \cap marked) :
        fin' = [p \in Phys |-> \/ p \in written /\ p \notin marked \ first
                               \/ fin[p] /\ p \notin marked]

(* Bug: the branch's own entry is given back too. *)
PrfMisPredOwnEntry(last_phy_idx) ==
    /\ next_index' = last_phy_idx
    /\ free_entry' = free_entry + ((next_index - last_phy_idx) % PhyAmount)

(* A squash takes the pool back to just past the branch's own entry. *)
PrfMisPred(last_phy_idx) ==
    LET pre_next_index == (last_phy_idx + 1) % PhyAmount
    IN  /\ next_index' = pre_next_index
        /\ free_entry' = free_entry + ((next_index - pre_next_index) % PhyAmount)
=============================================================================
