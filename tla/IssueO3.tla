------------------------------ MODULE IssueO3 ------------------------------
(***************************************************************************)
(* Out-of-order issue: a station of class RsvO3, the execution units it    *)
(* feeds, and the writebacks that wake its entries, under the ROB's commit *)
(* and the branches' squashes.                                             *)
(*                                                                         *)
(* One step is one clock cycle.  A unit holds what it was issued for any   *)
(* number of cycles.  Branches run elsewhere and resolve in program order; *)
(* their kill mask is the one SpecTagsProofs proves the Mpft answers.      *)
(***************************************************************************)
EXTENDS TagGen, Rob, RsvO3

CONSTANTS
  FeLanes,      \* CPUO3_Config.fe_lanes
  Uops          \* the micro-operations in use: records of Uop

Kinds == UNION {Runs[u] : u \in Units}

(* An instruction that `waits` reads the result of the one before it that  *)
(* went to the station.                                                    *)
Uop == [is_branch : {FALSE}, is_store : {FALSE}, kind : Kinds, waits : BOOLEAN]
         \cup [is_branch : {TRUE}, is_store : {FALSE}]

NoUop == [is_branch |-> FALSE, is_store |-> FALSE]

ASSUME IssueO3Assumption ==
    /\ FeLanes \in 1 .. RobDepth
    /\ FeLanes <= O3Size
    /\ Uops \subseteq Uop

VARIABLES
  exec          \* [Units -> record]: stage 0 of each unit; invalid when idle

vars == <<free_tag, next_tag, robVars, o3Vars, exec>>

Blank == [uop |-> NoUop, tag |-> {}, wb_fin |-> FALSE]
Nobody == RobDepth      \* "no row", for a source that is nobody's result

Init ==
    /\ TagGenInit
    /\ RobInit(Blank)
    /\ O3Init
    /\ exec = [u \in Units |-> NoRow]

-----------------------------------------------------------------------------
(***************************************************************************)
(* Dispatch.                                                               *)
(***************************************************************************)
Lanes == 1 .. FeLanes
Groups == [Lanes -> Uops \cup {NoUop}]

Valid(g) == {l \in Lanes : g[l] # NoUop}
Branches(g) == {l \in Lanes : g[l].is_branch}
Aimed(g) == Valid(g) \ Branches(g)
Before(S, lane) == Cardinality({l \in S : l < lane})
SlotOf(g, lane) == FreeSlot(Before(Valid(g), lane))

RobRow(g, lane) ==
    [uop |-> g[lane],
     tag |-> IF lane \in Branches(g) THEN {TagAfter(Before(Branches(g), lane))} ELSE {},
     wb_fin |-> FALSE]

Unfinished == {i \in InFlight : ~table[i].wb_fin}
Latest(S) == CHOOSE i \in S : \A j \in S : Age(j) <= Age(i)

(* Where a lane's source comes from: an earlier lane of its own group, a   *)
(* row in flight, or a register file.                                      *)
Producer(g, lane) ==
    LET ahead   == {l \in Aimed(g) : l < lane}
        writers == {i \in InFlight : ~table[i].uop.is_branch}
    IN  IF ~g[lane].waits THEN Nobody
        ELSE IF ahead # {} THEN SlotOf(g, CHOOSE l \in ahead : \A k \in ahead : k <= l)
        ELSE IF writers # {} THEN Latest(writers)
        ELSE Nobody

(* What lane `lane` puts into the station, `written` being the rows that   *)
(* write back in this very cycle.                                          *)
Entry(g, lane, written) ==
    LET producer == Producer(g, lane)
    IN  [valid       |-> TRUE,
         kind        |-> g[lane].kind,
         rob_des_idx |-> SlotOf(g, lane),
         pr          |-> producer,
         ready       |-> producer \in (InFlight \ Unfinished) \cup written \cup {Nobody},
         is_spec     |-> IsSpec(Before(Branches(g), lane)),
         spec_tag    |-> TagInForce(Before(Branches(g), lane)),
         is_lower    |-> FALSE,
         track       |-> 0]

Entries(g, written) ==
    [k \in 1 .. Cardinality(Aimed(g)) |->
        Entry(g, CHOOSE l \in Aimed(g) : Before(Aimed(g), l) = k - 1, written)]

ReadyToGo(g) ==
    /\ Valid(g) # {}
    /\ ~OverUse(Cardinality(Branches(g)), 0)
    /\ GroupFits(Cardinality(Valid(g)))
    /\ O3Fits(Cardinality(Aimed(g)))

NoGroup == [l \in Lanes |-> NoUop]
Landing == {NoGroup} \cup {g \in Groups : ReadyToGo(g)}

-----------------------------------------------------------------------------
(***************************************************************************)
(* The units.                                                              *)
(***************************************************************************)
Busy == {u \in Units : exec[u].valid}
RowsOf(us) == {exec[u].rob_des_idx : u \in us}

(* The record that lands in a unit's stage 0. *)
Issued(i) ==
    [valid |-> TRUE, kind |-> o3[i].kind, rob_des_idx |-> o3[i].rob_des_idx,
     is_spec |-> o3[i].is_spec, spec_tag |-> o3[i].spec_tag]

(* Bug: the record lands with the pair the row was chosen with. *)
IssuedStale(i, suc) == Issued(i)

(* ... with a tag resolving in the same cycle masked on the way. *)
IssuedMasked(i, suc) == Resolved(Issued(i), suc)

(* The units that take their pick: a busy one only as it finishes. *)
Taking(done) == {u \in Units : Pick(u) # {} /\ (u \notin Busy \/ u \in done)}

-----------------------------------------------------------------------------
(***************************************************************************)
(* The cycles.                                                             *)
(***************************************************************************)
OpenBranches == {i \in Unfinished : table[i].uop.is_branch}
Resolving == {i \in OpenBranches : \A j \in OpenBranches : Age(i) <= Age(j)}
FixTag(i) == UNION {table[j].tag : j \in {j \in OpenBranches : Age(j) >= Age(i)}}

(* A cycle without a squash: the units `done` report, the ROB retires,     *)
(* the group lands, and the branches `resolved` were predicted right.      *)
Flow(done, retire, g, resolved, suc) ==
    LET written == RowsOf(done)
        taken   == Entries(g, written)
        taking  == Taking(done)
        lane(i) == {l \in Valid(g) : SlotOf(g, l) = i}
    IN  /\ UpdateMeta(Cardinality(Branches(g)), TRUE, Cardinality(suc))
        /\ RobUpdate(Cardinality(Valid(g)), TRUE, Cardinality(retire))
        /\ table' = [i \in Slots |->
               IF lane(i) # {} THEN RobRow(g, CHOOSE l \in lane(i) : TRUE)
               ELSE IF i \in retire \/ i \notin InFlight THEN Blank
               ELSE [table[i] EXCEPT !.wb_fin = @ \/ i \in written \cup resolved]]
        /\ O3Update(taken, UNION {Pick(u) : u \in taking}, written, suc)
        /\ exec' = [u \in Units |->
               IF u \in taking THEN IssuedMasked(CHOOSE i \in Pick(u) : TRUE, suc)
               ELSE IF u \in Busy \ done THEN Resolved(exec[u], suc)
               ELSE NoRow]

(* No branch resolves. *)
Cycle ==
    \E g \in Landing, retire \in {Retiring}, done \in SUBSET Busy :
        Flow(done, retire, g, {}, {})

(* The oldest branch was predicted right; dispatch stalls. *)
SucPred ==
    \E i \in Resolving, done \in SUBSET Busy, retire \in {Retiring} :
        Flow(done, retire, NoGroup, {i}, table[i].tag)

(* The oldest branch was predicted wrong.  Nothing dispatches, issues or   *)
(* retires; units and entries under the killed tags stop, the rest go on.  *)
MisPred ==
    \E i \in Resolving :
        LET kill  == FixTag(i)
            lives == {u \in Busy : ~Squashed(exec[u], kill)}
        IN  \E done \in SUBSET lives :
              /\ \E t \in table[i].tag : TagGenMisPred(t)
              /\ RobMisPred(i)
              /\ table' = [j \in Slots |->
                     IF j \notin InFlight \/ Age(j) > Age(i) THEN Blank
                     ELSE [table[j] EXCEPT !.wb_fin = @ \/ j \in RowsOf(done) \cup {i}]]
              /\ O3MisPred(kill, RowsOf(done))
              /\ exec' = [u \in Units |-> IF u \in lives \ done THEN exec[u] ELSE NoRow]

Next == Cycle \/ SucPred \/ MisPred

Spec == Init /\ [][Next]_vars

(* Some block has work to do: what ENABLED <<Next>>_vars comes to here. *)
CanMove ==
    \/ \E g \in Landing : Valid(g) # {}
    \/ Busy # {} \/ OpenBranches # {} \/ Retiring # {}
    \/ \E u \in Units : Pick(u) # {}

(* The clock ticks (the second conjunct is WF_vars(Next), written with     *)
(* CanMove because TLC evaluates that at once), no branch stays open for   *)
(* ever and no unit keeps one record for ever.                             *)
FairSpec ==
    /\ Spec
    /\ []<><<TRUE>>_vars \/ []<>~CanMove
    /\ \A i \in Slots : []<>(i \notin OpenBranches)
    /\ \A i \in Slots : []<>(i \notin RowsOf(Busy))

-----------------------------------------------------------------------------
(***************************************************************************)
(* Properties                                                              *)
(***************************************************************************)
Record == [valid : {TRUE}, kind : Kinds, rob_des_idx : Slots,
           is_spec : BOOLEAN, spec_tag : SUBSET Tags]
O3Row == [valid : {TRUE}, kind : Kinds, rob_des_idx : Slots, pr : Slots \cup {Nobody},
          ready : BOOLEAN, is_spec : BOOLEAN, spec_tag : SUBSET Tags,
          is_lower : BOOLEAN, track : Tracks]

(* Types: every pointer, count and stamp keeps to its width. *)
TypeOK ==
    /\ free_tag \in 0 .. SpTagLen - 1 /\ next_tag \in Tags
    /\ table \in [Slots -> [uop : Uops \cup {NoUop}, tag : SUBSET Tags, wb_fin : BOOLEAN]]
    /\ alloc_ptr \in Slots /\ com_ptr \in Slots /\ used_entry_cnt \in 0 .. RobDepth
    /\ o3 \in [O3Slots -> O3Row \cup {NoRow}] /\ track_ptr \in Tracks
    /\ exec \in [Units -> Record \cup {NoRow}]

(* Every instruction the ROB waits for is in exactly one place, a row of   *)
(* the station or a unit that runs it, and nothing else is in either: two  *)
(* lanes never take one row, two units never one entry, and neither an     *)
(* issue beside a dispatch nor a squash drops, doubles or revives one.     *)
EntriesInOnePlace ==
    LET rows(S) == {o3[i].rob_des_idx : i \in S}
    IN  /\ Unfinished \ OpenBranches = rows(Held) \cup RowsOf(Busy)
        /\ Cardinality(Held) + Cardinality(Busy) = Cardinality(Unfinished \ OpenBranches)
        /\ \A u \in Busy : /\ exec[u].kind \in Runs[u]
                           /\ exec[u].kind = table[exec[u].rob_des_idx].uop.kind

(* The rows that write for row i and are ahead of it, youngest first. *)
Ahead(i) == {j \in InFlight : Age(j) < Age(i) /\ ~table[j].uop.is_branch}

(* An entry is ready exactly when the result it reads exists, and the one  *)
(* it waits for is the youngest writer ahead of it: no broadcast that lands*)
(* beside its dispatch is missed, and nothing in a unit outran its source. *)
ReadyWhenResultExists ==
    /\ \A k \in Held :
          LET i == o3[k].rob_des_idx
          IN  /\ o3[k].ready <=> ~table[i].uop.waits \/ Ahead(i) \cap Unfinished = {}
                                   \/ table[Latest(Ahead(i))].wb_fin
              /\ ~o3[k].ready => o3[k].pr = Latest(Ahead(i))
    /\ \A u \in Busy :
          LET i == exec[u].rob_des_idx
          IN  table[i].uop.waits /\ Ahead(i) # {} => table[Latest(Ahead(i))].wb_fin

(* The pair a record of row i should carry: the tag of the youngest open   *)
(* branch ahead of it. *)
PairOf(i) ==
    LET ahead == {j \in OpenBranches : Age(j) < Age(i)}
    IN  IF ahead = {} THEN {} ELSE table[Latest(ahead)].tag

(* An entry or a running record carries exactly the tag in force at its    *)
(* place, also when it issues in the cycle that tag resolves.              *)
O3PairsFollowBranches ==
    LET follows(rec) == /\ rec.spec_tag = PairOf(rec.rob_des_idx)
                        /\ rec.is_spec <=> PairOf(rec.rob_des_idx) # {}
    IN  /\ \A k \in Held : follows(o3[k])
        /\ \A u \in Busy : follows(exec[u])

(* No entry starves: each one leaves the station, issued or squashed,      *)
(* whatever the age order and the earlier units' picks do to it.           *)
EntriesLeave ==
    \A i \in Slots :
        (\E k \in Held : o3[k].rob_des_idx = i) ~> ~(\E k \in Held : o3[k].rob_des_idx = i)

(* "Issues the oldest ready entry", as far as the stamps can tell          *)
(* (rsv_o3.py:24-30): a unit passes over an entry it could run for one     *)
(* dispatched in a later cycle only when the entry has waited through more *)
(* than one wrap, which shows as two entries a wrap behind whose stamps do *)
(* not grow with age, or when it landed in the very cycle of a wrap: it    *)
(* keeps the old epoch's last stamp, and compares as its epoch's youngest. *)
OldestGoesFirst ==
    \A u \in Units :
        LET claimed == UNION {Pick(v) : v \in 1 .. u - 1}
        IN  \A e \in Pick(u), x \in Issuable(u) \ claimed :
              LET passed   == Age(o3[x].rob_des_idx) < Age(o3[e].rob_des_idx)
                  together == ~o3[x].is_lower /\ o3[x].track = o3[e].track
              IN  passed /\ ~together =>
                    \/ o3[x].is_lower /\ o3[e].is_lower /\ o3[x].track >= o3[e].track
                    \/ ~o3[x].is_lower /\ o3[x].track = 2^TrackWidth - 1
=============================================================================
