----------------------------- MODULE RenameCore -----------------------------
(***************************************************************************)
(* Rename, dispatch, wakeup, commit and squash of the out-of-order core    *)
(* for one register class: Dispatch's bookings on TagGen, Prf, Rt and Rob, *)
(* the sources waiting in the stations, and the rollback of a squash.      *)
(*                                                                         *)
(* One step is one clock cycle.  Every block acts in every cycle, so a     *)
(* step combines the writebacks that land, the group the ROB retires, and  *)
(* what dispatch or the branch unit does beside them.                      *)
(***************************************************************************)
EXTENDS TagGen, Rt, Rob

CONSTANTS
  FeLanes,      \* CPUO3_Config.fe_lanes
  ConstRegs,    \* the hardwired registers of the class (RISC-V x0)
  Uops          \* the micro-operations in use: records of Uop

Uop == [is_branch : BOOLEAN, is_store : BOOLEAN,
        dest : Arch \cup {NoReg}, src : Arch \cup {NoReg}]

NoUop == [is_branch |-> FALSE, is_store |-> FALSE, dest |-> NoReg, src |-> NoReg]

ASSUME CoreAssumption ==
    /\ FeLanes \in 1 .. RobDepth
    /\ ConstRegs \subseteq Arch
    /\ Uops \subseteq Uop \ {NoUop}

(* Decode forces the destination slot of a branch active, so a branch      *)
(* takes a register too: the one a squash rolls the pool back to.          *)
Active(uop) == uop.is_branch \/ uop.dest # NoReg
WbRequired(uop) == uop.dest # NoReg

(* A write to a hardwired register is discarded, so nothing is mapped.     *)
RenameReq(uop) == uop.dest # NoReg /\ uop.dest \notin ConstRegs

Ready == [ready |-> TRUE, pr |-> NoReg]
Blank == [uop |-> NoUop, pr |-> NoReg, tag |-> {}, wb_fin |-> FALSE]

VARIABLE
  rsv           \* [Slots -> [ready, pr]]: the source of each row's station entry

vars == <<free_tag, next_tag, prfVars, rtVars, robVars, rsv>>

Init ==
    /\ TagGenInit
    /\ PrfInit
    /\ RtInit
    /\ RobInit(Blank)
    /\ rsv = [i \in Slots |-> Ready]

-----------------------------------------------------------------------------
(***************************************************************************)
(* The group in the dispatch stage; an empty lane holds NoUop.             *)
(***************************************************************************)
Lanes == 1 .. FeLanes
Groups == [Lanes -> Uops \cup {NoUop}]

Valid(g) == {l \in Lanes : g[l] # NoUop}
Branches(g) == {l \in Valid(g) : g[l].is_branch}
Takers(g) == {l \in Valid(g) : Active(g[l])}

(* How many lanes of S come before this one. *)
Before(S, lane) == Cardinality({l \in S : l < lane})

(* Every lane is promised an index, the ones that take no register too.    *)
PrIdx(g, lane) == Promised(Before(Takers(g), lane))

(* update_prfs marks the index of EVERY lane as not written. *)
Marked(g) == {PrIdx(g, l) : l \in Lanes}

(* Bug: a write to a hardwired register is mapped like any other. *)
RenamesMapConst(g) ==
    [l \in Lanes |->
        [req       |-> WbRequired(g[l]),
         arch      |-> g[l].dest,
         phys      |-> PrIdx(g, l),
         is_branch |-> l \in Branches(g),
         tag       |-> TagAfter(Before(Branches(g), l))]]

(* What warm_rts registers on the Rt's ports. *)
Renames(g) ==
    [l \in Lanes |->
        [req       |-> RenameReq(g[l]),
         arch      |-> g[l].dest,
         phys      |-> PrIdx(g, l),
         is_branch |-> l \in Branches(g),
         tag       |-> TagAfter(Before(Branches(g), l))]]

(* Bug: a source is looked up in the row the whole group leaves behind.    *)
RenameSrcLastRow(g, lane, drops, written) ==
    LET phys == StageRow(drops, Renames(g), FeLanes)[g[lane].src]
    IN  IF g[lane].src = NoReg \/ phys = NoReg THEN Ready
        ELSE [ready |-> ReadFin(phys, written, Marked(g)), pr |-> phys]

(* A lane's source: the committed file, the physical one, or a wait.  The  *)
(* lane sees the renames of the lanes before it, never its own.            *)
RenameSrc(g, lane, drops, written) ==
    LET phys == StageRow(drops, Renames(g), lane - 1)[g[lane].src]
    IN  IF g[lane].src = NoReg \/ phys = NoReg THEN Ready
        ELSE [ready |-> ReadFin(phys, written, Marked(g)), pr |-> phys]

(* The ROB row of a lane. *)
RobRow(g, lane) ==
    [uop |-> g[lane],
     pr  |-> IF lane \in Takers(g) THEN PrIdx(g, lane) ELSE NoReg,
     tag |-> IF lane \in Branches(g) THEN {TagAfter(Before(Branches(g), lane))} ELSE {},
     wb_fin |-> FALSE]

-----------------------------------------------------------------------------
(***************************************************************************)
(* The execution units and the ROB's commit.                               *)
(***************************************************************************)
Unfinished == {i \in InFlight : ~table[i].wb_fin}

(* Bug: the branch station picks any branch that is ready. *)
ResolvingAny == {i \in Unfinished : table[i].uop.is_branch /\ rsv[i].ready}

(* The branch about to resolve, if its source is ready: the branch station *)
(* issues in order.                                                        *)
Resolving ==
    {i \in Unfinished :
        /\ table[i].uop.is_branch
        /\ rsv[i].ready
        /\ \A j \in Unfinished : table[j].uop.is_branch => Age(i) <= Age(j)}

(* Everything else may finish as soon as its source is ready. *)
Executing == {i \in Unfinished : ~table[i].uop.is_branch /\ rsv[i].ready}

(* The registers the rows of S write back. *)
Written(S) == {table[i].pr : i \in {j \in S : WbRequired(table[j].uop)}}

(* The registers the rows of S return, and the mappings they retire. *)
Returned(S) == Cardinality({i \in S : Active(table[i].uop)})
Drops(S) == {<<table[i].uop.dest, table[i].pr>> : i \in {j \in S : WbRequired(table[j].uop)}}

(* Bug: the wakeup reaches the stations one writeback late. *)
WokenNone(i, finished) == rsv[i]

(* A station entry after the cycle's writebacks: gone once its row is      *)
(* finished, ready when the register it waits on is broadcast.             *)
Woken(i, finished) ==
    IF i \in finished \/ rsv[i].pr \notin Written(finished) THEN rsv[i]
    ELSE [rsv[i] EXCEPT !.ready = TRUE]

(* A cycle without a squash: `finished` rows write back, the ROB retires   *)
(* the rows `retire`, and the group in dispatch lands or not.              *)
Flow(finished, retire, g, landed, resolved) ==
    LET written == Written(finished)
        drops   == Drops(retire)
        lane(i) == {l \in Valid(g) : landed /\ FreeSlot(Before(Valid(g), l)) = i}
    IN  /\ UpdateMeta(Cardinality(Branches(g)), landed, resolved)
        /\ PrfUpdateMeta(Cardinality(Takers(g)), landed, Returned(retire))
        /\ FinUpdate(written, IF landed THEN Marked(g) ELSE {})
        /\ RtUpdate(drops, IF landed THEN Renames(g) ELSE << >>)
        /\ RobUpdate(Cardinality(Valid(g)), landed, Cardinality(retire))
        /\ table' = [i \in Slots |->
               IF lane(i) # {} THEN RobRow(g, CHOOSE l \in lane(i) : TRUE)
               ELSE [table[i] EXCEPT !.wb_fin = @ \/ i \in finished]]
        /\ rsv' = [i \in Slots |->
               IF lane(i) # {} THEN RenameSrc(g, CHOOSE l \in lane(i) : TRUE, drops, written)
               ELSE IF i \in finished THEN Ready ELSE Woken(i, finished)]

(* Every resource the group books is there. *)
ReadyToGo(g, retire) ==
    /\ Valid(g) # {}
    /\ ~OverUse(Cardinality(Branches(g)), 0)
    /\ ~PrfOverUse(Cardinality(Takers(g)), Returned(retire))
    /\ GroupFits(Cardinality(Valid(g)))

-----------------------------------------------------------------------------
(***************************************************************************)
(* The cycles.                                                             *)
(***************************************************************************)

(* No branch resolves.  A group that is ready may still stall: a station   *)
(* it needs is full.                                                       *)
Cycle ==
    \E finished \in SUBSET Executing, retire \in {Retiring}, g \in Groups :
        \E landed \in {FALSE, ReadyToGo(g, retire)} : Flow(finished, retire, g, landed, 0)

(* The oldest branch was predicted right: its tag returns and dispatch     *)
(* stalls for the cycle, its bookings asked and not landed.                *)
SucPred ==
    \E i \in Resolving, finished \in SUBSET Executing, retire \in {Retiring}, g \in Groups :
        Flow(finished \cup {i}, retire, g, FALSE, 1)

(* The core rolls back to branch i while older rows `done` write back.     *)
(* Dispatch and commit are flushed; younger work dies where it is.         *)
Squash(i, done) ==
    LET finished == done \cup {i}
    IN  /\ \E t \in table[i].tag : TagGenMisPred(t) /\ RtMisPred(t)
        /\ PrfMisPred(table[i].pr)
        /\ FinUpdate(Written(finished), {})
        /\ RobMisPred(i)
        /\ table' = [j \in Slots |-> [table[j] EXCEPT !.wb_fin = @ \/ j \in finished]]
        /\ rsv' = [j \in Slots |->
               IF j \in finished \/ Age(j) > Age(i) THEN Ready
               ELSE Woken(j, finished)]

(* The oldest branch was predicted wrong. *)
MisPred ==
    \E i \in Resolving :
        \E done \in SUBSET {j \in Executing : Age(j) < Age(i)} : Squash(i, done)

Next == Cycle \/ SucPred \/ MisPred

Spec == Init /\ [][Next]_vars

(* Some block has work to do: what ENABLED <<Next>>_vars comes to here.     *)
CanMove ==
    \/ \E g \in Groups : ReadyToGo(g, Retiring)
    \/ Executing # {} \/ Resolving # {} \/ Retiring # {}

(* The units answer what they are given, each row on its own.              *)
UnitsAnswer == \A i \in Slots : []<>(i \notin Resolving) /\ []<>(i \notin Executing)

(* The clock ticks and the units answer; TickingSpec is the same with      *)
(* CanMove for ENABLED <<Next>>_vars, for instances of many states.        *)
FairSpec == Spec /\ WF_vars(Next) /\ UnitsAnswer
TickingSpec == Spec /\ ([]<><<TRUE>>_vars \/ []<>~CanMove) /\ UnitsAnswer

-----------------------------------------------------------------------------
(***************************************************************************)
(* Properties                                                              *)
(***************************************************************************)
Row == [uop : Uops \cup {NoUop}, pr : Phys \cup {NoReg}, tag : SUBSET Tags,
        wb_fin : BOOLEAN]

(* Types: no counter leaves its range, so no subtraction of widths wraps. *)
TypeOK ==
    /\ free_tag \in 0 .. SpTagLen - 1 /\ next_tag \in Tags
    /\ fin \in [Phys -> BOOLEAN]
    /\ free_entry \in 0 .. PhyAmount /\ next_index \in Phys
    /\ master_rt \in RtRow /\ spec_rt \in [Tags -> RtRow]
    /\ table \in [Slots -> Row]
    /\ alloc_ptr \in Slots /\ com_ptr \in Slots /\ used_entry_cnt \in 0 .. RobDepth
    /\ rsv \in [Slots -> [ready : BOOLEAN, pr : Phys \cup {NoReg}]]

(* The rows of S that write architectural register a, and the youngest. *)
Writes(uop, a) == RenameReq(uop) /\ uop.dest = a
Writers(S, a) == {i \in S : Writes(table[i].uop, a)}
Youngest(S) == CHOOSE i \in S : \A j \in S : Age(j) <= Age(i)

(* The map a reader should see behind the rows of S. *)
MapOf(S) ==
    [a \in Arch |-> IF Writers(S, a) = {} THEN NoReg ELSE table[Youngest(Writers(S, a))].pr]

(* The master row names the youngest writer in flight and nothing that has *)
(* retired or been squashed: neither a group's overlay, nor a commit in    *)
(* the same cycle, nor a squash leaves a mapping behind.                   *)
MasterMapsYoungest == master_rt = MapOf(InFlight)

(* The snapshot of every open branch is the map of its own path.  It has   *)
(* to stay so while rows older than the branch retire under it.            *)
SnapshotsMapTheirPath ==
    \A i \in Unfinished : table[i].uop.is_branch =>
        \A t \in table[i].tag :
            spec_rt[t] = MapOf({j \in InFlight : Age(j) <= Age(i)})

(* The pool is the ring complement of the registers in flight, which sit   *)
(* in program order just behind next_index; and the ROB's count is the     *)
(* distance between its pointers.  A register lost or freed twice by a     *)
(* commit, a stalled group or a squash breaks it.                          *)
RingsAgree ==
    LET held == {i \in InFlight : table[i].pr # NoReg}
    IN  /\ free_entry = PhyAmount - Cardinality(held)
        /\ \A i \in held :
              table[i].pr = (next_index - Cardinality({j \in held : Age(j) >= Age(i)})) % PhyAmount
        /\ alloc_ptr = SlotAt(used_entry_cnt)

(* A register in flight is marked written exactly when its writer has      *)
(* finished: no rename in between clears it, nothing left over sets it.    *)
FinTracksWriteback ==
    \A i \in InFlight : table[i].pr # NoReg =>
        (fin[table[i].pr] <=> table[i].wb_fin /\ WbRequired(table[i].uop))

(* An unfinished row's source belongs to the youngest older writer of it:  *)
(* the row waits on that very register until the writer finishes, is ready *)
(* from then on, and waits for nothing when there is no such writer.       *)
SourcesFollowProgramOrder ==
    \A i \in Unfinished :
        LET older == Writers({j \in InFlight : Age(j) < Age(i)}, table[i].uop.src)
        IN  IF older = {} THEN rsv[i].ready
            ELSE LET w == Youngest(older)
                 IN  rsv[i].pr = table[w].pr /\ (rsv[i].ready <=> table[w].wb_fin)

(* The ROB's rows read as a program: oldest first, done once finished.     *)
Program ==
    [k \in 1 .. used_entry_cnt |->
        LET row == table[SlotAt(k - 1)] IN [uop |-> row.uop, done |-> row.wb_fin]]

PO == INSTANCE ProgramOrder WITH queue <- Program

(* The machine runs its program in order: nothing leaves before everything *)
(* older, nothing is answered before the value it reads exists, branches   *)
(* are answered oldest first, and a squash removes exactly what is younger *)
(* than its branch.                                                        *)
RunsInProgramOrder == PO!Spec

(* The oldest instruction always retires: no wait is for a writeback that  *)
(* is not coming.                                                          *)
HeadRetires ==
    []<>(used_entry_cnt = 0) \/ []<><<com_ptr' # com_ptr>>_vars
=============================================================================
