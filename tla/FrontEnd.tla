------------------------------ MODULE FrontEnd ------------------------------
(***************************************************************************)
(* The front end: Fetch reads one word per lane through the ports of the   *)
(* banked instruction memory, Decode walks the cracks of the group level   *)
(* by level, Dispatch takes a level at a time, and a squash redirects.     *)
(*                                                                         *)
(* One step is one clock cycle.  A word stands for what is stored there,   *)
(* so a lane that reads the wrong bank or index holds another word.        *)
(***************************************************************************)
EXTENDS Integers, FiniteSets

CONSTANTS
  FeLanes,      \* CPUO3_Config.fe_lanes
  BankCnt,      \* EasyMem.bank_cnt; instr_mem_spec makes it fe_lanes
  MemWords,     \* the words of the instruction memory
  IlenBytes,    \* IsaBase.ilen_bytes, a power of two
  PcAligns,     \* the values of IsaBase.pc_align; each divides it
  PcBytes,      \* 2^pc_width
  Targets,      \* where the program's branches go
  ResetPc,
  CrackLen,     \* [Words -> how many micro-operations its instruction has]
  Levels,       \* the longest crack
  OpenMax       \* bound: dispatched groups that may still redirect

Lanes == 1 .. FeLanes
Words == 0 .. MemWords - 1
Pcs == 0 .. PcBytes - 1

ASSUME FrontEndAssumption ==
    /\ FeLanes \in Nat \ {0} /\ BankCnt \in Nat \ {0}
    /\ MemWords \in Nat \ {0} /\ MemWords % BankCnt = 0
    /\ IlenBytes \in Nat \ {0} /\ PcAligns \subseteq Nat \ {0}
    /\ \A a \in PcAligns : IlenBytes % a = 0
    /\ PcBytes \in Nat \ {0} /\ PcBytes % (MemWords * IlenBytes) = 0
    /\ ResetPc \in Pcs /\ Targets \subseteq Pcs
    /\ Levels \in Nat \ {0} /\ CrackLen \in [Words -> 0 .. Levels]
    /\ OpenMax \in Nat

VARIABLES
  pc_align,     \* the machine's own, which never changes
  read_ready,   \* EasyMem's read lock: reads are granted once it is released
  pc,
  fetch,        \* [Lanes -> [valid, pc, instr]]
  decode,       \* [Lanes -> [valid, pc, level]]
  walking,      \* the level decode is about to hand over; 0 when it is idle
  dispatching,  \* dispatch holds the decode rows
  open          \* dispatched groups whose branches may still redirect

vars == <<pc_align, read_ready, pc, fetch, decode, walking, dispatching, open>>

Init ==
    /\ pc_align \in PcAligns
    /\ read_ready = FALSE
    /\ pc = ResetPc
    /\ fetch = [l \in Lanes |-> [valid |-> FALSE, pc |-> 0, instr |-> 0]]
    /\ decode = [l \in Lanes |-> [valid |-> FALSE, pc |-> 0, level |-> 0]]
    /\ walking = 0
    /\ dispatching = FALSE
    /\ open = 0

-----------------------------------------------------------------------------
(***************************************************************************)
(* EasyMem: the bank is part of the address, below the index.              *)
(***************************************************************************)

(* Bug: the adder keeps its carry. *)
PcAfterUncut(a, bytes) == a + bytes

PcAfter(a, bytes) == (a + bytes) % PcBytes

(* The address lane l presents, and the word it names. *)
LanePc(l) == PcAfter(pc, (l - 1) * pc_align)
WordAt(a) == (a \div IlenBytes) % MemWords
BankOf(l) == WordAt(LanePc(l)) % BankCnt
IndexOf(l) == WordAt(LanePc(l)) \div BankCnt

(* The lanes before l that named its bank. *)
Rivals(l) == {m \in 1 .. l - 1 : BankOf(m) = BankOf(l)}

(* A bank serves the lowest lane that named it, and every lane that did    *)
(* reads what that one asked for.                                          *)
BankIndex(b) == IndexOf(CHOOSE l \in Lanes : BankOf(l) = b /\ Rivals(l) = {})
ReadData(l) == BankIndex(BankOf(l)) * BankCnt + BankOf(l)

(* Bug: a port that lost its bank still reports an answer. *)
ReadValidAlways(l) == TRUE

ReadValid(l) == Rivals(l) = {}

-----------------------------------------------------------------------------
(***************************************************************************)
(* Fetch                                                                   *)
(***************************************************************************)

(* Bug: a group is taken whole or not at all. *)
TakenWhole(l) == \A m \in Lanes : ReadValid(m)

(* keep_leading_run: a lane is kept if it and every lower one answered.    *)
Taken(l) == \A m \in 1 .. l : ReadValid(m)

Step == Cardinality({l \in Lanes : Taken(l)})

FetchRows == [l \in Lanes |-> [valid |-> Taken(l), pc |-> LanePc(l), instr |-> ReadData(l)]]

(* The group and the pc's advance, when decode and every read port grant.  *)
(* While the memory is locked decode may be entered on its own grant: the  *)
(* rows are still empty.                                                   *)
Capture(entered) ==
    IF entered /\ read_ready
    THEN fetch' = FetchRows /\ pc' = PcAfter(pc, Step * IlenBytes)
    ELSE UNCHANGED <<fetch, pc>>

-----------------------------------------------------------------------------
(***************************************************************************)
(* Decode                                                                  *)
(***************************************************************************)

(* One level of the walk: the micro-operation at that place in each lane's *)
(* crack; a lane without a word, or whose crack is shorter, is empty.      *)
LevelRows(level) ==
    [l \in Lanes |->
        IF fetch[l].valid /\ CrackLen[fetch[l].instr] >= level
        THEN [valid |-> TRUE, pc |-> fetch[l].pc, level |-> level]
        ELSE [decode[l] EXCEPT !.valid = FALSE]]

(* Decode can take a group: it is idle, or hands over its last level now.  *)
CanEnter(hands) == walking = 0 \/ (hands /\ walking = Levels)

(* A level goes out when dispatch is empty, or lands its rows now.         *)
CanHand(lands) == walking # 0 /\ (~dispatching \/ lands)

-----------------------------------------------------------------------------
(* Dispatch's rows hold a micro-operation, so perhaps a branch.           *)
Fed == \E l \in Lanes : decode[l].valid

(* A cycle without a squash: dispatch lands its group, decode hands over a *)
(* level, and a group enters decode, each or none.                         *)
Move(lands, hands, enters) ==
    /\ lands => dispatching
    /\ hands => CanHand(lands)
    /\ enters => CanEnter(hands)
    /\ Capture(enters)
    /\ decode' = IF hands THEN LevelRows(walking) ELSE decode
    /\ walking' = IF enters THEN 1 ELSE IF ~hands THEN walking
                  ELSE (walking + 1) % (Levels + 1)
    /\ dispatching' = (hands \/ (dispatching /\ ~lands))
    /\ read_ready' \in {read_ready, TRUE}
    /\ open' \in 0 .. (IF lands /\ Fed /\ open < OpenMax THEN open + 1 ELSE open)
    /\ UNCHANGED pc_align

Cycle == \E lands, hands, enters \in BOOLEAN : Move(lands, hands, enters)

(* Bug: the stage's own advance beats the redirect. *)
RedirectPcAdvance(target) ==
    pc' = IF read_ready THEN PcAfter(pc, Step * IlenBytes) ELSE target

(* The redirect outranks the advance of the same cycle. *)
RedirectPc(target) == pc' = target

(* A squash: fetch, decode and dispatch are flushed and fetch is sent to   *)
(* the corrected pc; rows captured in that cycle are nobody's.             *)
Flush(target, entered) ==
    /\ RedirectPc(target)
    /\ fetch' = IF entered /\ read_ready THEN FetchRows ELSE fetch
    /\ walking' = 0
    /\ dispatching' = FALSE

(* on_mis_pred, from a branch that was dispatched before. *)
Redirect ==
    \E target \in Targets, entered \in BOOLEAN :
        /\ open > 0
        /\ entered => CanEnter(TRUE)
        /\ Flush(target, entered)
        /\ open' \in 0 .. open - 1
        /\ read_ready' \in {read_ready, TRUE}
        /\ UNCHANGED <<pc_align, decode>>

Next == Cycle \/ Redirect

Spec == Init /\ [][Next]_vars

(* A cycle in which nothing stalls. *)
Flowing ==
    \E hands, enters \in BOOLEAN :
        /\ hands = CanHand(dispatching)
        /\ enters = CanEnter(hands)
        /\ Move(dispatching, hands, enters)

(* The clock ticks, the read lock is released once, and no stall of        *)
(* dispatch lasts for ever.                                                *)
FairSpec == Spec /\ WF_vars(Flowing) /\ <>read_ready

-----------------------------------------------------------------------------
(***************************************************************************)
(* Properties                                                              *)
(***************************************************************************)

(* Types. *)
TypeOK ==
    /\ pc_align \in PcAligns /\ read_ready \in BOOLEAN /\ pc \in Pcs
    /\ fetch \in [Lanes -> [valid : BOOLEAN, pc : Pcs, instr : Words]]
    /\ decode \in [Lanes -> [valid : BOOLEAN, pc : Pcs, level : 0 .. Levels]]
    /\ walking \in 0 .. Levels /\ dispatching \in BOOLEAN /\ open \in 0 .. OpenMax

(* Every fetched row holds the word at its own pc, whatever lane and bank  *)
(* it came through.                                                        *)
RowsHoldTheirWord ==
    \A l \in Lanes : fetch[l].valid =>
        /\ fetch[l].pc % IlenBytes = 0
        /\ fetch[l].instr = WordAt(fetch[l].pc)

GroupSize == Cardinality({l \in Lanes : fetch[l].valid})

(* Where the program stands: behind the group decode is walking, or at pc. *)
Base == IF walking # 0 /\ GroupSize # 0 THEN fetch[1].pc ELSE pc

FO == INSTANCE FetchOrder WITH
          After <- LAMBDA a, n : PcAfter(a, n * IlenBytes),
          Cracked <- LAMBDA a : CrackLen[WordAt(a)],
          base <- Base,
          size <- IF walking = 0 THEN 0 ELSE GroupSize,
          handed <- IF walking = 0 THEN Levels ELSE walking - 1,
          out <- IF dispatching
                 THEN {[pc |-> decode[l].pc, level |-> decode[l].level] :
                          l \in {m \in Lanes : decode[m].valid}}
                 ELSE {}

(* Dispatch gets the program: nothing skipped where a bank could not serve *)
(* a lane, nothing twice or overwritten where decode was still walking,    *)
(* and after a redirect the program from its target, nothing of the wrong  *)
(* path.                                                                   *)
HandsOverTheProgram == FO!Spec

(* Dispatch is fed for ever: a lane that lost its bank, an empty level and *)
(* a redirect each cost cycles, and none of them stops the stream.         *)
DispatchIsFed == []<>(dispatching /\ Fed)
=============================================================================
