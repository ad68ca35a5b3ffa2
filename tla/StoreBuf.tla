------------------------------ MODULE StoreBuf ------------------------------
(***************************************************************************)
(* The store half of the load/store queue: a ring of executed stores that  *)
(* wait for the ROB to retire them and then for the data memory to take    *)
(* them, one per cycle.  Stores enter at buf_alloc, the ROB retires the    *)
(* one at buf_com, memory takes the one at buf_ret.  Loads read around     *)
(* memory through SearchHit and Newest.                                    *)
(*                                                                         *)
(* The code's table, alloc_ptr, com_ptr and ret_ptr are buf, buf_alloc,    *)
(* buf_com and buf_ret here, apart from the ROB's of the same names.       *)
(***************************************************************************)
EXTENDS TagRing, FiniteSets, FiniteSetsExt

CONSTANT BufDepth       \* CPUO3_Config.st_buf_depth; a power of two

ASSUME StoreBufAssumption == BufDepth \in Nat \ {0, 1}

VARIABLES buf, buf_alloc, buf_com, buf_ret

bufVars == <<buf, buf_alloc, buf_com, buf_ret>>

BufSlots == 0 .. BufDepth - 1

(* A free row.  What it holds past its busy bit is read by nothing. *)
FreeRow == [busy |-> FALSE]

(* The row of a store as it enters. *)
StoreRow(store) ==
    [busy |-> TRUE, complete |-> FALSE, is_spec |-> store.is_spec,
     spec_tag |-> store.spec_tag, mem_addr |-> store.mem_addr, data |-> store.data]

BufInit ==
    /\ buf = [i \in BufSlots |-> FreeRow]
    /\ buf_alloc = 0
    /\ buf_com = 0
    /\ buf_ret = 0

Busy == {i \in BufSlots : buf[i].busy}

(* Bug: the pointers alone are compared, so an empty buffer reads full. *)
BufFullPointersOnly == buf_alloc = buf_ret

(* Full: the pointers meet on a row in use. *)
BufFull == buf_alloc = buf_ret /\ buf_alloc \in Busy

(* The busy rows that hold the word at addr. *)
Matches(addr) == {i \in Busy : buf[i].mem_addr = addr}

SearchHit(addr) == Matches(addr) # {}

(* Bug: the higher row is taken for the newer one across the wrap. *)
NewestNoWrap(addr) == buf[Max(Matches(addr))].data

(* The newest match: rows below buf_alloc were written after the wrap, and *)
(* on one side of the wrap the higher row is the newer.                    *)
Newest(addr) ==
    LET post_wrap == {i \in Matches(addr) : i < buf_alloc}
    IN  buf[Max(IF post_wrap # {} THEN post_wrap ELSE Matches(addr))].data

(* Bug: memory takes a store the ROB has not retired. *)
RetireReadyEarly == buf_ret \in Busy

(* The head is retired by the ROB, so memory may take it. *)
RetireReady == buf_ret \in Busy /\ buf[buf_ret].complete

(* A pointer stepped once if its event happens. *)
Stepped(ptr, event) == IF event THEN (ptr + 1) % BufDepth ELSE ptr

(* Bug: a store enters with the pair it was executed with. *)
BufUpdateRawPush(pushed, committed, retired, suc) ==
    LET kept == {i \in Busy : ~(retired /\ i = buf_ret)}
        seen == {i \in BufSlots : committed /\ i = buf_com}
    IN  /\ buf' = [i \in BufSlots |->
               IF pushed # {} /\ i = buf_alloc THEN StoreRow(CHOOSE s \in pushed : TRUE)
               ELSE IF i \in kept THEN [Resolved(buf[i], suc) EXCEPT !.complete = @ \/ i \in seen]
               ELSE FreeRow]
        /\ buf_alloc' = Stepped(buf_alloc, pushed # {})
        /\ buf_com' = Stepped(buf_com, committed)
        /\ buf_ret' = Stepped(buf_ret, retired)

(* A cycle without a squash.  `pushed` holds the store entering, if any;   *)
(* it and every row drop the tags `suc` that resolve in this cycle.        *)
BufUpdate(pushed, committed, retired, suc) ==
    LET entering == {StoreRow(Resolved(s, suc)) : s \in pushed}
        kept     == {i \in Busy : ~(retired /\ i = buf_ret)}
        seen     == {i \in BufSlots : committed /\ i = buf_com}
    IN  /\ buf' = [i \in BufSlots |->
               IF pushed # {} /\ i = buf_alloc THEN CHOOSE row \in entering : TRUE
               ELSE IF i \in kept THEN [Resolved(buf[i], suc) EXCEPT !.complete = @ \/ i \in seen]
               ELSE FreeRow]
        /\ buf_alloc' = Stepped(buf_alloc, pushed # {})
        /\ buf_com' = Stepped(buf_com, committed)
        /\ buf_ret' = Stepped(buf_ret, retired)

Survivors(kill) == {i \in Busy : ~Squashed(buf[i], kill)}

(* Bug: the tail is counted from the first store the ROB has not retired. *)
BufMisPredFromCom(kill, retired) ==
    /\ buf' = [i \in BufSlots |->
           IF i \in Survivors(kill) /\ ~(retired /\ i = buf_ret) THEN buf[i] ELSE FreeRow]
    /\ buf_alloc' = (buf_com + Cardinality(Survivors(kill))) % BufDepth
    /\ buf_ret' = Stepped(buf_ret, retired)
    /\ UNCHANGED buf_com

(* A squash kills the stores under `kill` and pulls the tail back to the   *)
(* survivors.  Nothing enters and the ROB retires nothing; memory may      *)
(* still take the head, which is counted as it stands.                     *)
BufMisPred(kill, retired) ==
    /\ buf' = [i \in BufSlots |->
           IF i \in Survivors(kill) /\ ~(retired /\ i = buf_ret) THEN buf[i] ELSE FreeRow]
    /\ buf_alloc' = (buf_ret + Cardinality(Survivors(kill))) % BufDepth
    /\ buf_ret' = Stepped(buf_ret, retired)
    /\ UNCHANGED buf_com
=============================================================================
