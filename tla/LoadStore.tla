----------------------------- MODULE LoadStore -----------------------------
(***************************************************************************)
(* The load/store path of the out-of-order core: an in-order station, the  *)
(* two stages of the load/store unit, the store buffer and the data        *)
(* memory, under the ROB's commit and the branches' squashes.              *)
(*                                                                         *)
(* One step is one clock cycle; every block acts in it.  The kill mask of  *)
(* a squash is the tags of the open branches from the mispredicted one on: *)
(* SpecTagsProofs proves that the Mpft answers exactly that.               *)
(***************************************************************************)
EXTENDS TagGen, Rob, StoreBuf, RsvIOR

CONSTANTS
  FeLanes,      \* CPUO3_Config.fe_lanes
  Addrs,        \* word addresses of the data memory
  Parts,        \* the pieces of a word that a sub-word store can write
  Bytes,        \* what a piece may hold
  Image,        \* [Addrs -> Word]: the data memory at power-up
  Uops,         \* the micro-operations in use: records of Uop
  OwnAck        \* the external zync enters stage 1 on stage 1's own ack, even
                \* when the store buffer's refuses the transfer

Word == [Parts -> Bytes]

(* `bytes` are the pieces a store writes; a word store writes all of them. *)
Uop == [is_branch : BOOLEAN, is_store : BOOLEAN, is_load : BOOLEAN,
        addr : Addrs, bytes : UNION {[ps -> Bytes] : ps \in SUBSET Parts}]

NoUop == [is_branch |-> FALSE, is_store |-> FALSE, is_load |-> FALSE]

(* An ISA lists each micro-operation once: those of control flow, LOADS    *)
(* and STORES share none (riscv/uop.py:77-93, mips/uop.py:117-154).        *)
ASSUME LoadStoreAssumption ==
    /\ FeLanes \in 1 .. RobDepth
    /\ FeLanes <= RsvSize
    /\ Image \in [Addrs -> Word]
    /\ Uops \subseteq Uop
    /\ \A u \in Uops : /\ ~(u.is_load /\ u.is_store)
                       /\ ~(u.is_branch /\ (u.is_load \/ u.is_store))
    /\ OwnAck \in BOOLEAN

VARIABLES
  stage0,       \* the station's issued entry, in stage 0; invalid when idle
  stage1,       \* the record stage 1 runs, or last ran
  stage1_on,    \* stage 1 runs in this cycle
  mem,          \* the data memory
  committed     \* history: memory with every store the ROB has retired

lsVars == <<stage0, stage1, stage1_on, mem, committed>>
vars == <<free_tag, next_tag, robVars, bufVars, rsvVars, lsVars>>

(* A ROB row out of use.  It keeps its old contents in the code; nothing   *)
(* reads them before dispatch writes the row again.                        *)
Blank == [uop |-> NoUop, tag |-> {}, wb_fin |-> FALSE]

Init ==
    /\ TagGenInit
    /\ RobInit(Blank)
    /\ BufInit
    /\ RsvInit
    /\ stage0 = NoEntry
    /\ stage1 = NoEntry
    /\ stage1_on = FALSE
    /\ mem = Image
    /\ committed = Image

-----------------------------------------------------------------------------
(***************************************************************************)
(* Dispatch: the group's ROB rows and the entries of its loads and stores. *)
(***************************************************************************)
Lanes == 1 .. FeLanes
Groups == [Lanes -> Uops \cup {NoUop}]

IsAccess(uop) == uop.is_load \/ uop.is_store

Valid(g) == {l \in Lanes : g[l] # NoUop}
Branches(g) == {l \in Lanes : g[l].is_branch}
Accesses(g) == {l \in Lanes : IsAccess(g[l])}
Before(S, lane) == Cardinality({l \in S : l < lane})

RobRow(g, lane) ==
    [uop |-> g[lane],
     tag |-> IF lane \in Branches(g) THEN {TagAfter(Before(Branches(g), lane))} ELSE {},
     wb_fin |-> FALSE]

(* What lane `lane` puts into the station. *)
Entry(g, lane) ==
    [valid       |-> TRUE,
     uop         |-> g[lane],
     rob_des_idx |-> FreeSlot(Before(Valid(g), lane)),
     is_spec     |-> IsSpec(Before(Branches(g), lane)),
     spec_tag    |-> TagInForce(Before(Branches(g), lane))]

(* The entries of the group in lane order, for the lanes aimed here. *)
Entries(g) ==
    [k \in 1 .. Cardinality(Accesses(g)) |->
        Entry(g, CHOOSE l \in Accesses(g) : Before(Accesses(g), l) = k - 1)]

ReadyToGo(g) ==
    /\ Valid(g) # {}
    /\ ~OverUse(Cardinality(Branches(g)), 0)
    /\ GroupFits(Cardinality(Valid(g)))
    /\ RsvFits(Cardinality(Accesses(g)))

(* What dispatch hands over in a cycle: one group that is ready, or, when  *)
(* it stalls or holds nothing, NoGroup.                                    *)
NoGroup == [l \in Lanes |-> NoUop]
Landing == {NoGroup} \cup {g \in Groups : ReadyToGo(g)}

-----------------------------------------------------------------------------
(***************************************************************************)
(* The load/store unit.                                                    *)
(***************************************************************************)

(* Stage 0 may hand over: a store waits while the buffer is full, a load   *)
(* never does.                                                             *)
StageMoves == stage0.valid /\ (stage0.uop.is_load \/ ~BufFull)

(* The word at addr as stage 0 sees it: a buffered store beats memory.     *)
LoadedWord(addr) == IF SearchHit(addr) THEN Newest(addr) ELSE mem[addr]

(* A sub-word store writes its pieces into the current word. *)
Merged(word, bytes) ==
    [p \in Parts |-> IF p \in DOMAIN bytes THEN bytes[p] ELSE word[p]]

(* The store that enters the buffer, if any. *)
Pushed ==
    IF StageMoves /\ stage0.uop.is_store
    THEN {[is_spec  |-> stage0.is_spec, spec_tag |-> stage0.spec_tag,
           mem_addr |-> stage0.uop.addr,
           data     |-> Merged(LoadedWord(stage0.uop.addr), stage0.uop.bytes)]}
    ELSE {}

(* The record stage 0 hands to stage 1; resolved tags are masked on the    *)
(* way.  Nothing reads the record of an idle stage 1 unless a transfer is  *)
(* entered on its own ack, so only then is it kept.                        *)
Handed(suc) ==
    IF StageMoves
    THEN Resolved([valid |-> TRUE, uop |-> stage0.uop, rob_des_idx |-> stage0.rob_des_idx,
                   is_spec |-> stage0.is_spec, spec_tag |-> stage0.spec_tag,
                   word |-> LoadedWord(stage0.uop.addr)], suc)
    ELSE IF OwnAck /\ stage1.valid THEN Resolved(stage1, suc)
    ELSE NoEntry

(* The head of the station may issue into stage 0. *)
MayIssue == rsv_head \in Waiting /\ (~stage0.valid \/ StageMoves)

(* The row stage 1 reports finished. *)
Reported == IF stage1_on THEN {stage1.rob_des_idx} ELSE {}

(* Memory once it has taken the head of the buffer. *)
MemAfter(retired) ==
    IF retired THEN [mem EXCEPT ![buf[buf_ret].mem_addr] = buf[buf_ret].data] ELSE mem

-----------------------------------------------------------------------------
(***************************************************************************)
(* The rest of the core, as far as the path sees it: branches, and a ROB   *)
(* that retires.  Other instructions are only ROB rows here, and a branch  *)
(* is one of those too.                                                    *)
(***************************************************************************)
Unfinished == {i \in InFlight : ~table[i].wb_fin}
OpenBranches == {i \in Unfinished : table[i].uop.is_branch}

(* Branches resolve in program order. *)
Resolving == {i \in OpenBranches : \A j \in OpenBranches : Age(i) <= Age(j)}

(* The kill mask of branch i. *)
FixTag(i) == UNION {table[j].tag : j \in {j \in OpenBranches : Age(j) >= Age(i)}}

(* The rows of S that are stores: commit retires at most one. *)
Stores(S) == {i \in S : table[i].uop.is_store}

(* A cycle without a squash. *)
Flow(resolved, retire, g, suc, issued, retired) ==
    LET lane(i) == {l \in Valid(g) : FreeSlot(Before(Valid(g), l)) = i}
    IN  /\ UpdateMeta(Cardinality(Branches(g)), TRUE, Cardinality(suc))
        /\ RobUpdate(Cardinality(Valid(g)), TRUE, Cardinality(retire))
        /\ table' = [i \in Slots |->
               IF lane(i) # {} THEN RobRow(g, CHOOSE l \in lane(i) : TRUE)
               ELSE IF i \in retire \/ i \notin InFlight THEN Blank
               ELSE [table[i] EXCEPT !.wb_fin = @ \/ i \in resolved \cup Reported]]
        /\ RsvUpdate(Entries(g), issued, suc)
        /\ stage0' = IF issued THEN Resolved(rsv[rsv_head], suc)
                     ELSE IF stage0.valid /\ ~StageMoves THEN Resolved(stage0, suc)
                     ELSE NoEntry
        /\ stage1' = Handed(suc)
        /\ stage1_on' = StageMoves
        /\ BufUpdate(Pushed, Stores(retire) # {}, retired, suc)
        /\ mem' = MemAfter(retired)
        /\ committed' = [a \in Addrs |->
               LET stored == {i \in Stores(retire) : table[i].uop.addr = a}
               IN  IF stored = {} THEN committed[a]
                   ELSE Merged(committed[a], table[CHOOSE i \in stored : TRUE].uop.bytes)]

-----------------------------------------------------------------------------
(***************************************************************************)
(* The cycles.                                                             *)
(***************************************************************************)

(* No branch resolves.  The head of the station is ready or not, and       *)
(* memory takes the head of the buffer or is busy.                         *)
Cycle ==
    \E retire \in {Retiring}, g \in Landing,
       issued \in {FALSE, MayIssue}, retired \in {FALSE, RetireReady} :
        Flow({}, retire, g, {}, issued, retired)

(* The oldest branch was predicted right; dispatch stalls. *)
SucPred ==
    \E i \in Resolving, retire \in {Retiring},
       issued \in {FALSE, MayIssue}, retired \in {FALSE, RetireReady} :
        Flow({i}, retire, NoGroup, table[i].tag, issued, retired)

(* The oldest branch was predicted wrong.  The buffer refuses every push   *)
(* for the cycle, so stage 0 stays where it is unless it is killed; stage  *)
(* 1 is past the buffer and reports.  With OwnAck the refused transfer     *)
(* still starts stage 1, on the record it already holds.                   *)
MisPred ==
    \E i \in Resolving, retired \in {FALSE, RetireReady} :
        LET kill    == FixTag(i)
            stays   == stage0.valid /\ ~Squashed(stage0, kill)
            reports == {r \in Reported : ~Squashed(stage1, kill)}
        IN  /\ \E t \in table[i].tag : TagGenMisPred(t)
            /\ RobMisPred(i)
            /\ table' = [j \in Slots |->
                   IF j \notin InFlight \/ Age(j) > Age(i) THEN Blank
                   ELSE [table[j] EXCEPT !.wb_fin = @ \/ j \in reports \cup {i}]]
            /\ RsvMisPred(kill)
            /\ stage0' = IF stays THEN stage0 ELSE NoEntry
            /\ stage1' = IF OwnAck THEN stage1 ELSE NoEntry
            /\ stage1_on' = (OwnAck /\ stays /\ StageMoves /\ stage1.valid
                              /\ ~Squashed(stage1, kill))
            /\ BufMisPred(kill, retired)
            /\ mem' = MemAfter(retired)
            /\ UNCHANGED committed

Next == Cycle \/ SucPred \/ MisPred

Spec == Init /\ [][Next]_vars

(* Some block has work to do: what ENABLED <<Next>>_vars comes to here.     *)
CanMove ==
    \/ \E g \in Landing : Valid(g) # {}
    \/ StageMoves \/ stage1_on \/ MayIssue \/ RetireReady
    \/ OpenBranches # {} \/ Retiring # {}

(* The clock ticks (the second conjunct is WF_vars(Next), written with     *)
(* CanMove because TLC evaluates that at once), no branch stays open for   *)
(* ever, and memory takes the head of the buffer at last.                  *)
FairSpec ==
    /\ Spec
    /\ []<><<TRUE>>_vars \/ []<>~CanMove
    /\ \A i \in Slots : []<>(i \notin OpenBranches)
    /\ \A k \in BufSlots : []<>~(RetireReady /\ buf_ret = k)

-----------------------------------------------------------------------------
(***************************************************************************)
(* Properties                                                              *)
(***************************************************************************)
Record == [valid : {TRUE}, uop : Uops, rob_des_idx : Slots,
           is_spec : BOOLEAN, spec_tag : SUBSET Tags]
Result == [valid : {TRUE}, uop : Uops, rob_des_idx : Slots,
           is_spec : BOOLEAN, spec_tag : SUBSET Tags, word : Word]
BufRow == [busy : {TRUE}, complete : BOOLEAN, is_spec : BOOLEAN,
           spec_tag : SUBSET Tags, mem_addr : Addrs, data : Word]

(* Types: every pointer and counter keeps to its width. *)
TypeOK ==
    /\ free_tag \in 0 .. SpTagLen - 1 /\ next_tag \in Tags
    /\ table \in [Slots -> [uop : Uops \cup {NoUop}, tag : SUBSET Tags, wb_fin : BOOLEAN]]
    /\ alloc_ptr \in Slots /\ com_ptr \in Slots /\ used_entry_cnt \in 0 .. RobDepth
    /\ rsv \in [RsvSlots -> Record \cup {NoEntry}]
    /\ rsv_alloc \in RsvSlots /\ rsv_head \in RsvSlots
    /\ stage0 \in Record \cup {NoEntry}
    /\ stage1 \in Result \cup {NoEntry} /\ stage1_on \in BOOLEAN
    /\ buf \in [BufSlots -> BufRow \cup {FreeRow}]
    /\ buf_alloc \in BufSlots /\ buf_com \in BufSlots /\ buf_ret \in BufSlots
    /\ mem \in [Addrs -> Word] /\ committed \in [Addrs -> Word]

(* Memory in program order: the word at addr once every row older than i   *)
(* has run, piece by piece.                                                *)
WordBefore(i, addr) ==
    [p \in Parts |->
        LET writers == {j \in InFlight : /\ Age(j) < Age(i)
                                         /\ table[j].uop.is_store
                                         /\ table[j].uop.addr = addr
                                         /\ p \in DOMAIN table[j].uop.bytes}
        IN  IF writers = {} THEN committed[addr][p]
            ELSE table[CHOOSE j \in writers : \A k \in writers : Age(k) <= Age(j)].uop.bytes[p]]

(* A load returns the word program order gives it: the pieces of older     *)
(* stores, wherever they wait, over memory.  A store missed because it is  *)
(* between two places, or a younger or squashed one seen, breaks it.       *)
LoadsSeeProgramOrder ==
    stage1_on /\ stage1.uop.is_load =>
        stage1.word = WordBefore(stage1.rob_des_idx, stage1.uop.addr)

(* The entries of the station from its head on. *)
RsvAt(k) == rsv[(rsv_head + k) % RsvSize]

(* The accesses on their way, oldest first. *)
OnTheirWay ==
    (IF stage1_on THEN <<stage1>> ELSE << >>)
      \o (IF stage0.valid THEN <<stage0>> ELSE << >>)
      \o [k \in 1 .. Cardinality(Waiting) |-> RsvAt(k - 1)]

(* Every access the ROB waits for is in exactly one place, in program      *)
(* order from stage 1 back to the tail of the station, and nothing else    *)
(* is: no dispatch, issue, stall or squash drops, doubles or revives one.  *)
AccessesInOrder ==
    /\ \A k \in 0 .. Cardinality(Waiting) - 1 : RsvAt(k).valid
    /\ rsv_alloc = (rsv_head + Cardinality(Waiting)) % RsvSize
    /\ {i \in Unfinished : IsAccess(table[i].uop)}
         = {OnTheirWay[k].rob_des_idx : k \in DOMAIN OnTheirWay}
    /\ \A k \in DOMAIN OnTheirWay :
          /\ OnTheirWay[k].uop = table[OnTheirWay[k].rob_des_idx].uop
          /\ \A j \in 1 .. k - 1 :
                Age(OnTheirWay[j].rob_des_idx) < Age(OnTheirWay[k].rob_des_idx)

(* The stores in flight that have entered the buffer. *)
Entered ==
    {i \in InFlight : table[i].uop.is_store /\ (table[i].wb_fin \/ i \in Reported)}

(* The row of the k-th store in flight that has entered, and whose it is.  *)
RowOf(i) == (buf_com + Cardinality({j \in Entered : Age(j) < Age(i)})) % BufDepth

(* The buffer is program order: from buf_ret the stores the ROB retired,   *)
(* then from buf_com to buf_alloc the ones in flight that have executed,   *)
(* each with the word it makes of the one before it.                       *)
BufferIsProgramOrder ==
    LET retired == Cardinality(Busy) - Cardinality(Entered)
    IN  /\ retired >= 0
        /\ buf_com = (buf_ret + retired) % BufDepth
        /\ buf_alloc = (buf_com + Cardinality(Entered)) % BufDepth
        /\ \A k \in 0 .. retired - 1 :
              LET row == buf[(buf_ret + k) % BufDepth] IN row.busy /\ row.complete
        /\ \A i \in Entered :
              LET row == buf[RowOf(i)]
                  uop == table[i].uop
              IN  /\ row.busy
                  /\ ~row.complete
                  /\ row.mem_addr = uop.addr
                  /\ row.data = Merged(WordBefore(i, uop.addr), uop.bytes)

(* What the ROB has retired is in the buffer or in memory, the newest      *)
(* store of each word on top: none is lost to a squash, none is written    *)
(* out of order.                                                           *)
MemoryKeepsCommits ==
    \A a \in Addrs :
        LET rows   == {i \in Busy : buf[i].complete /\ buf[i].mem_addr = a}
            age(i) == (i - buf_ret) % BufDepth
        IN  committed[a] =
              IF rows = {} THEN mem[a]
              ELSE buf[CHOOSE i \in rows : \A j \in rows : age(j) <= age(i)].data

(* The pair a record of row i should carry: the tag of the youngest open   *)
(* branch ahead of it.                                                     *)
PairOf(i) ==
    LET ahead == {j \in OpenBranches : Age(j) < Age(i)}
    IN  IF ahead = {} THEN {}
        ELSE table[CHOOSE j \in ahead : \A k \in ahead : Age(k) <= Age(j)].tag

(* A record under way or buffered carries exactly the tag in force at its  *)
(* place, whatever it did in the cycle a branch resolved: waited, issued,  *)
(* changed stage or entered the buffer.                                    *)
PairsFollowBranches ==
    LET follows(rec, i) == rec.spec_tag = PairOf(i) /\ (rec.is_spec <=> PairOf(i) # {})
    IN  /\ \A k \in DOMAIN OnTheirWay : follows(OnTheirWay[k], OnTheirWay[k].rob_des_idx)
        /\ \A i \in Entered : follows(buf[RowOf(i)], i)
        /\ \A k \in Busy : buf[k].complete => ~buf[k].is_spec

(* "An execution unit finished: that entry may now retire" (rob.py:224): a *)
(* row that waits in the station or in stage 0 has not finished.           *)
FinishedHasExecuted ==
    /\ \A k \in Waiting : ~table[rsv[k].rob_des_idx].wb_fin
    /\ stage0.valid => ~table[stage0.rob_des_idx].wb_fin

(* An access in stage 0 moves on or is squashed: the chain from a full     *)
(* buffer through memory, the ROB and the branches ahead never closes.     *)
StageZeroClears ==
    \/ []<>~stage0.valid
    \/ []<><<stage0.valid /\ (stage0'.valid => stage0'.rob_des_idx # stage0.rob_des_idx)>>_vars
=============================================================================
