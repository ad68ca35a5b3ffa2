--------------------------------- MODULE Rt ---------------------------------
(***************************************************************************)
(* The rename table of one register class: for each architectural register *)
(* the physical one that holds its newest value, or NoReg where the        *)
(* committed file does.  One master row, and one row per speculation tag:  *)
(* the state the branch of that tag left behind, for a squash to restore.  *)
(*                                                                         *)
(* A lane's rename is a record [req, arch, phys, is_branch, tag].          *)
(***************************************************************************)
EXTENDS TagRing, Prf, FiniteSets, FiniteSetsExt

CONSTANT Arch           \* the architectural registers of the class

VARIABLES master_rt, spec_rt

rtVars == <<master_rt, spec_rt>>

RtRow == [Arch -> Phys \cup {NoReg}]

RtInit ==
    /\ master_rt = [a \in Arch |-> NoReg]
    /\ spec_rt = [t \in Tags |-> [a \in Arch |-> NoReg]]

(* A row without the mappings that commit this cycle: `drops` is the set   *)
(* of (architectural, physical) pairs becoming architectural.              *)
Dropped(row, drops) == [a \in Arch |-> IF <<a, row[a]>> \in drops THEN NoReg ELSE row[a]]

(* The stage chain: what rename port `port` leaves behind.  Port 0 is the  *)
(* commit row, and the newest overlay at or before a port wins.            *)
StageRow(drops, renames, port) ==
    [a \in Arch |->
        LET ports == {k \in 1 .. port : renames[k].req /\ renames[k].arch = a}
        IN  IF ports = {} THEN Dropped(master_rt, drops)[a] ELSE renames[Max(ports)].phys]

(* Bug: a branch snapshots the row before its own lane's rename. *)
SnapshotBeforeOwn(drops, renames, t) ==
    LET ports == {k \in DOMAIN renames : renames[k].is_branch /\ renames[k].tag = t}
    IN  IF ports = {} THEN Dropped(spec_rt[t], drops)
                      ELSE StageRow(drops, renames, Max(ports) - 1)

(* Bug: a commit leaves the mapping standing in the snapshots. *)
SnapshotKeepsRetired(drops, renames, t) ==
    LET ports == {k \in DOMAIN renames : renames[k].is_branch /\ renames[k].tag = t}
    IN  IF ports = {} THEN spec_rt[t] ELSE StageRow(drops, renames, Max(ports))

(* Tag t's row: taken by the branch that books t, otherwise repaired. *)
Snapshot(drops, renames, t) ==
    LET ports == {k \in DOMAIN renames : renames[k].is_branch /\ renames[k].tag = t}
    IN  IF ports = {} THEN Dropped(spec_rt[t], drops)
                      ELSE StageRow(drops, renames, Max(ports))

(* A cycle without a squash; `renames` is empty when nothing lands. *)
RtUpdate(drops, renames) ==
    /\ master_rt' = StageRow(drops, renames, Cardinality(DOMAIN renames))
    /\ spec_rt' = [t \in Tags |-> Snapshot(drops, renames, t)]

(* A squash restores the branch's row; nothing commits beside it. *)
RtMisPred(t) ==
    /\ master_rt' = spec_rt[t]
    /\ UNCHANGED spec_rt
=============================================================================
