----------------------------- MODULE RegValues -----------------------------
(***************************************************************************)
(* The values that travel through RenameCore: the architectural file, the  *)
(* physical file's data, and the operand a station entry captured.  Every  *)
(* micro-operation has a result that depends on its operand, so a value    *)
(* taken from the wrong place shows.                                       *)
(***************************************************************************)
EXTENDS RenameCore

VARIABLES
  arf,          \* [Arch -> Val]: Arf.storage, the committed values
  data,         \* [Phys -> Val]: PrfEntry.data
  src_data,     \* [Slots -> Val]: the operand a row's station entry holds
  retired       \* history: the registers after the retired program, in order

valueVars == <<arf, data, src_data, retired>>

Val == 0 .. 1

(* What a hardwired register reads, and what a micro-operation computes.   *)
ConstVal == 0
Result(uop, operand) == IF uop.src = NoReg THEN 1 ELSE 1 - operand

ValuesInit ==
    /\ arf = [a \in Arch |-> 0]
    /\ data = [p \in Phys |-> 0]
    /\ src_data = [i \in Slots |-> 0]
    /\ retired = [a \in Arch |-> 0]

(* The rows of S that make register a architectural; a write to a          *)
(* hardwired register is suppressed.                                       *)
ArfWriters(S, a) == {i \in S : WbRequired(table[i].uop) /\ table[i].uop.dest = a /\ a \notin ConstRegs}

(* Bug: where two lanes retire one register, the older one's value stays.  *)
ArfOlderLane(retire) ==
    [a \in Arch |->
        LET w == ArfWriters(retire, a)
        IN  IF w = {} THEN arf[a]
            ELSE data[table[CHOOSE i \in w : \A j \in w : Age(i) <= Age(j)].pr]]

(* The architectural file with this cycle's commits on top: what storage   *)
(* holds from the edge on, and what the read view shows at once.           *)
ArfAfter(retire) ==
    [a \in Arch |->
        LET w == ArfWriters(retire, a)
        IN  IF w = {} THEN arf[a] ELSE data[table[Youngest(w)].pr]]

(* Bug: a read takes the register, which this cycle's commit has not reached. *)
ArfReadStorage(a, retire) == IF a \in ConstRegs THEN ConstVal ELSE arf[a]

ArfRead(a, retire) == IF a \in ConstRegs THEN ConstVal ELSE ArfAfter(retire)[a]

(* The result each row of `finished` puts on its physical register. *)
ResultOf(i) == Result(table[i].uop, src_data[i])

(* The physical file with this cycle's writebacks on top. *)
DataAfter(finished) ==
    [p \in Phys |->
        LET w == {i \in finished : WbRequired(table[i].uop) /\ table[i].pr = p}
        IN  IF w = {} THEN data[p] ELSE ResultOf(CHOOSE i \in w : TRUE)]

(* The operand a lane takes to its station; nothing while it waits. *)
SrcValue(g, lane, finished, retire) ==
    LET drops == Drops(retire)
        src   == g[lane].src
        phys  == StageRow(drops, Renames(g), lane - 1)[src]
    IN  IF src = NoReg THEN 0
        ELSE IF phys = NoReg THEN ArfRead(src, retire)
        ELSE IF ReadFin(phys, Written(finished), Marked(g)) THEN DataAfter(finished)[phys]
        ELSE 0

(* A station entry's operand after the cycle: what is broadcast on the     *)
(* register it waits on, and nothing once the entry is gone.               *)
Captured(i, finished) ==
    IF i \in finished THEN 0
    ELSE IF ~rsv[i].ready /\ rsv[i].pr \in Written(finished) THEN DataAfter(finished)[rsv[i].pr]
    ELSE src_data[i]

(* The registers after row i has run on `regs`. *)
Run(regs, uop) ==
    LET operand == IF uop.src = NoReg THEN 0
                   ELSE IF uop.src \in ConstRegs THEN ConstVal ELSE regs[uop.src]
    IN  [a \in Arch |-> IF Writes(uop, a) THEN Result(uop, operand) ELSE regs[a]]

(* The registers after the n oldest rows in flight, run one by one. *)
Runs[n \in 0 .. RobDepth] ==
    IF n = 0 THEN retired ELSE Run(Runs[n - 1], table[SlotAt(n - 1)].uop)

ValuesFlow(finished, retire, g, landed) ==
    LET lane(i) == {l \in Valid(g) : landed /\ FreeSlot(Before(Valid(g), l)) = i}
    IN  /\ arf' = ArfAfter(retire)
        /\ data' = DataAfter(finished)
        /\ retired' = Runs[Cardinality(retire)]
        /\ src_data' = [i \in Slots |->
               IF lane(i) # {} THEN SrcValue(g, CHOOSE l \in lane(i) : TRUE, finished, retire)
               ELSE Captured(i, finished)]

VCycle ==
    \E finished \in SUBSET Executing, retire \in {Retiring}, g \in Groups :
        \E landed \in {FALSE, ReadyToGo(g, retire)} :
            Flow(finished, retire, g, landed, 0) /\ ValuesFlow(finished, retire, g, landed)

VSucPred ==
    \E i \in Resolving, finished \in SUBSET Executing, retire \in {Retiring}, g \in Groups :
        /\ Flow(finished \cup {i}, retire, g, FALSE, 1)
        /\ ValuesFlow(finished \cup {i}, retire, g, FALSE)

(* A squash writes back what is older; nothing commits or lands.           *)
VMisPred ==
    \E i \in Resolving :
        \E done \in SUBSET {j \in Executing : Age(j) < Age(i)} :
            /\ Squash(i, done)
            /\ data' = DataAfter(done \cup {i})
            /\ src_data' = [j \in Slots |-> IF Age(j) > Age(i) THEN 0 ELSE Captured(j, done \cup {i})]
            /\ UNCHANGED <<arf, retired>>

VInit == Init /\ ValuesInit
VNext == VCycle \/ VSucPred \/ VMisPred
VSpec == VInit /\ [][VNext]_<<vars, valueVars>>

-----------------------------------------------------------------------------
(***************************************************************************)
(* Properties                                                              *)
(***************************************************************************)

(* An unfinished row that holds its operand holds the value the program    *)
(* gives it: the one its registers have after every older instruction, run *)
(* one by one.  The value may have come from the architectural file, from  *)
(* a commit or a writeback of the same cycle, or from a broadcast.         *)
OperandsFollowProgram ==
    \A i \in Unfinished : rsv[i].ready /\ table[i].uop.src # NoReg =>
        src_data[i] = LET a == table[i].uop.src
                      IN  IF a \in ConstRegs THEN ConstVal ELSE Runs[Age(i)][a]

(* The architectural file holds what the retired program leaves, run one   *)
(* instruction at a time, however many of them retire together.            *)
ArfHoldsRetired == \A a \in Arch \ ConstRegs : arf[a] = retired[a]
=============================================================================
