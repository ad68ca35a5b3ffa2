---------------------------- MODULE UnitBodies ----------------------------
(***************************************************************************)
(* One execution unit of each kind, for either ISA, running one record     *)
(* after another: what a body writes, says of the prediction and stores.   *)
(* The load/store body takes two stages; the others take one.              *)
(***************************************************************************)
EXTENDS RvUnits, MipsUnits, FiniteSets

CONSTANTS
  Operands,       \* the words tried in a source slot
  Places,         \* addresses and displacements tried
  Pcs             \* the pcs tried, on the alignment of an instruction

ASSUME BodiesAssumption ==
    /\ \E n \in 2 .. 5 : 2^n = XLen
    /\ Operands \cup Places \cup Pcs \subseteq Word
    /\ FieldAt + CountBits <= XLen
    /\ RegionBits \in 1 .. XLen - 1

VARIABLES
  entry,          \* the record in the unit, or Idle
  result,         \* what stage 0 hands to stage 1: the word it loaded
  wrote,          \* the writebacks of the record: destination -> value
  verdict,        \* what the body declares: "mis_pred", "suc_pred"
  fix_pc,         \* and the pc it declares with them
  pushed          \* the word the record pushed into the store buffer

vars == <<entry, result, wrote, verdict, fix_pc, pushed>>

Idle == [isa |-> "none", uop |-> "none"]
Nothing == [d \in {} |-> 0]

Init ==
    /\ entry = Idle /\ result = {} /\ wrote = Nothing
    /\ verdict = {} /\ fix_pc = 0 /\ pushed = {}

-----------------------------------------------------------------------------
(***************************************************************************)
(* The records.  A slot the micro-operation does not use holds whatever is *)
(* left in it; the positions of ext and ins are the ones an assembler      *)
(* encodes, and accesses are aligned, as the code asks of a program.       *)
(***************************************************************************)
Uops(isa) == IF isa = "riscv" THEN RvUops ELSE MipsUops
Srcs(isa, u) == IF isa = "riscv" THEN RvSrcs(u) ELSE MipsSrcs(u)
Dests(isa, u) == IF isa = "riscv" THEN RvDests(u) ELSE MipsDests(u)

Loads == RvLoads
Stores == RvStores
Control(isa) == IF isa = "riscv" THEN RvControl ELSE MipsControl
MulDivs(isa) == IF isa = "riscv" THEN RvMulDivs ELSE MipsMulDivs
Alus(isa) == IF isa = "riscv" THEN RvAlus ELSE MipsAlus

Packed(low, high) == low + high * 2^FieldAt
ExtPositions == {Packed(p, n) : <<p, n>> \in
                    {q \in (0 .. XLen - 1) \X (0 .. XLen - 1) : q[1] + q[2] < XLen}}
InsPositions == {Packed(p, n) : <<p, n>> \in
                    {q \in (0 .. XLen - 1) \X (0 .. XLen - 1) : q[1] <= q[2]}}

Left == {Ones}
SlotValues(isa, u, slot) ==
    IF slot \notin Srcs(isa, u) THEN Left
    ELSE IF u = "EXT" /\ slot = "src_2" THEN ExtPositions
    ELSE IF u = "INS" /\ slot = "src_3" THEN InsPositions
    ELSE IF u \in Loads \cup Stores /\ ~(u \in Stores /\ slot = "src_2") THEN Places
    ELSE IF isa = "mips" /\ u \in {"J", "JAL"} THEN {p \in Places : p < 2^(XLen - RegionBits)}
    ELSE IF u \in Control(isa) /\ slot = "src_3" THEN Places
    ELSE Operands

Operation(isa, u) ==
    [isa : {isa}, uop : {u},
     a  : SlotValues(isa, u, "src_1"),
     b  : SlotValues(isa, u, "src_2"),
     c  : SlotValues(isa, u, "src_3"),
     hi : SlotValues(isa, u, "src_hi"),
     lo : SlotValues(isa, u, "src_lo"),
     pc : IF u \in Control(isa) \cup {"AUIPC"} THEN Pcs ELSE Left,
     word : IF u \in Loads \cup Stores THEN Operands ELSE Left]

(* Nothing predicts but the fetch, and it predicts the next instruction.   *)
WithNpc(op) == [n \in DOMAIN op \cup {"npc"} |->
                  IF n = "npc" THEN Wrap(op.pc + IlenBytes) ELSE op[n]]

EffAddr(s) == IF s.isa = "riscv" THEN RvEffAddr(s.uop, s) ELSE MipsEffAddr(s.uop, s)
Aligned(s) ==
    /\ s.uop \in {"LW", "SW"} => EffAddr(s) % 4 = 0
    /\ s.uop \in {"LH", "LHU", "SH"} => EffAddr(s) % 2 = 0

Records(isa, us) ==
    {s \in {WithNpc(op) : op \in UNION {Operation(isa, u) : u \in us}} :
        s.uop \in Loads \cup Stores => Aligned(s)}

-----------------------------------------------------------------------------
(***************************************************************************)
(* The bodies at work.                                                     *)
(***************************************************************************)
RunAlu(isa) ==
    \E s \in Records(isa, Alus(isa)) :
        /\ entry' = s
        /\ wrote' = [d \in {"dest_1"} |->
                        IF isa = "riscv" THEN RvAlu(s.uop, s) ELSE MipsAlu(s.uop, s)]
        /\ UNCHANGED <<result, verdict, fix_pc, pushed>>

RunMulDiv(isa) ==
    \E s \in Records(isa, MulDivs(isa)) :
        /\ entry' = s
        /\ wrote' = IF isa = "riscv" THEN [d \in {"dest_1"} |-> RvMulDiv(s.uop, s)]
                    ELSE MipsMulDiv(s.uop, s)
        /\ UNCHANGED <<result, verdict, fix_pc, pushed>>

(* A mispredict is "actual differs from predicted". *)
RunControl(isa) ==
    \E s \in Records(isa, Control(isa)) :
        LET actual == IF isa = "riscv" THEN RvNextPc(s.uop, s) ELSE MipsNextPc(s.uop, s)
        IN  /\ entry' = s
            /\ wrote' = IF isa = "riscv" THEN RvLink(s.uop, s) ELSE MipsLink(s.uop, s)
            /\ verdict' = (IF actual # s.npc THEN {"mis_pred"} ELSE {})
                            \cup (IF actual = s.npc THEN {"suc_pred"} ELSE {})
            /\ fix_pc' = actual
            /\ UNCHANGED <<result, pushed>>

RunAddress(isa) ==
    \E s \in Records(isa, Loads \cup Stores) :
        /\ entry' = s
        /\ result' = {s.word}
        /\ pushed' = IF s.uop \notin Stores THEN {}
                     ELSE IF isa = "riscv" THEN {RvStored(s.uop, s)}
                     ELSE {MipsStored(s.uop, s)}
        /\ UNCHANGED <<wrote, verdict, fix_pc>>

RunWriteback ==
    /\ result # {}
    /\ wrote' = [d \in IF entry.uop \in Loads THEN {"dest_1"} ELSE {} |->
                    IF entry.isa = "riscv" THEN RvLoaded(entry.uop, entry)
                    ELSE MipsLoaded(entry.uop, entry)]
    /\ result' = {}
    /\ UNCHANGED <<entry, verdict, fix_pc, pushed>>

Start ==
    /\ entry = Idle
    /\ \E isa \in {"riscv", "mips"} :
          RunAlu(isa) \/ RunMulDiv(isa) \/ RunControl(isa) \/ RunAddress(isa)

Leave ==
    /\ entry # Idle /\ result = {}
    /\ entry' = Idle /\ wrote' = Nothing /\ verdict' = {} /\ fix_pc' = 0 /\ pushed' = {}
    /\ UNCHANGED result

Next == Start \/ RunWriteback \/ Leave

Spec == Init /\ [][Next]_vars

-----------------------------------------------------------------------------
(***************************************************************************)
(* What the manuals say, over integers and over bits.                      *)
(***************************************************************************)
Signed(a) == IF a < SIGN THEN a ELSE a - 2^XLen
BitOf(a, i) == (a \div 2^i) % 2 = 1
BitsAre(v, P(_)) == \A i \in 0 .. XLen - 1 : BitOf(v, i) <=> P(i)
Abs(n) == IF n < 0 THEN -n ELSE n

(* r is the remainder of x by y, with the sign of x; q is the quotient.    *)
Remainder(x, y, r) ==
    Abs(r) < Abs(y) /\ (x - r) % Abs(y) = 0 /\ (r # 0 => (r < 0 <=> x < 0))
Quotient(x, y, q) == Remainder(x, y, x - q * y)

(* The value v is what the sum, shift, comparison ... u makes of s.        *)
AluMeans(u, s, v) ==
    LET a  == s.a
        b  == s.b
        sh == ShiftCount(b)
        x  == Signed(a)
        y  == Signed(b)
    IN  CASE u \in {"ADD", "ADDI", "ADDU", "ADDIU"} -> v = Wrap(x + y)
          [] u \in {"SUB", "SUBU"}   -> v = Wrap(x - y)
          [] u \in {"AND", "ANDI"}   -> BitsAre(v, LAMBDA i : BitOf(a, i) /\ BitOf(b, i))
          [] u \in {"OR", "ORI"}     -> BitsAre(v, LAMBDA i : BitOf(a, i) \/ BitOf(b, i))
          [] u \in {"XOR", "XORI"}   -> BitsAre(v, LAMBDA i : BitOf(a, i) # BitOf(b, i))
          [] u = "NOR"               -> BitsAre(v, LAMBDA i : ~BitOf(a, i) /\ ~BitOf(b, i))
          [] u \in {"SLL", "SLLI", "SLLV"} ->
                BitsAre(v, LAMBDA i : i >= sh /\ BitOf(a, i - sh))
          [] u \in {"SRL", "SRLI", "SRLV"} -> v = a \div 2^sh
          [] u \in {"SRA", "SRAI", "SRAV"} -> Signed(v) = x \div 2^sh
          [] u \in {"ROTR", "ROTRV"} -> BitsAre(v, LAMBDA i : BitOf(a, (i + sh) % XLen))
          [] u \in {"SLT", "SLTI"}   -> v = IF x < y THEN 1 ELSE 0
          [] u \in {"SLTU", "SLTIU"} -> v = IF a < b THEN 1 ELSE 0
          [] u = "LUI"               -> v = b
          [] u = "AUIPC"             -> v = Wrap(s.pc + y)
          [] u = "MOVZ"              -> v = IF b = 0 THEN a ELSE s.c
          [] u = "MOVN"              -> v = IF b = 0 THEN s.c ELSE a
          [] u = "CLZ" -> a < 2^(XLen - v) /\ (v < XLen => a >= 2^(XLen - v - 1))
          [] u = "CLO" -> Ones - a < 2^(XLen - v) /\ (v < XLen => Ones - a >= 2^(XLen - v - 1))
          [] u = "SEB" -> Signed(v) \in -(2^(ByteBits - 1)) .. 2^(ByteBits - 1) - 1
                            /\ v % 2^ByteBits = a % 2^ByteBits
          [] u = "SEH" -> Signed(v) \in -(2^(HalfBits - 1)) .. 2^(HalfBits - 1) - 1
                            /\ v % 2^HalfBits = a % 2^HalfBits
          [] u = "EXT" -> BitsAre(v, LAMBDA i : i <= HighPos(b) /\ BitOf(a, i + LowPos(b)))
          [] u = "INS" -> BitsAre(v, LAMBDA i :
                            IF i \in LowPos(s.c) .. HighPos(s.c) THEN BitOf(a, i - LowPos(s.c))
                            ELSE BitOf(b, i))

(* What a destination of the multiplier gets, under RISC-V's names.        *)
Product(u, d) ==
    CASE u = "MULT" /\ d = "dest_hi"             -> "MULH"
      [] u = "MULTU" /\ d = "dest_hi"            -> "MULHU"
      [] u \in {"MULT", "MULTU"} /\ d = "dest_lo" -> "MUL"
      [] u = "DIV" /\ d = "dest_hi"              -> "REM"
      [] u = "DIVU" /\ d = "dest_hi"             -> "REMU"
      [] OTHER                                    -> u

(* RISC-V fixes the answers for a divisor of zero and for the one overflow *)
(* of a division; MIPS leaves them open and its unit gives the same.       *)
MulDivMeans(u, s, v) ==
    LET a == s.a
        b == s.b
        x == Signed(a)
        y == Signed(b)
    IN  CASE u = "MUL"    -> v = Wrap(x * y)
          [] u = "MULH"   -> Signed(v) = (x * y) \div 2^XLen
          [] u = "MULHSU" -> Signed(v) = (x * b) \div 2^XLen
          [] u = "MULHU"  -> v = (a * b) \div 2^XLen
          [] u = "DIV"    -> IF b = 0 THEN v = Ones
                             ELSE IF x = -SIGN /\ y = -1 THEN v = SIGN
                             ELSE Quotient(x, y, Signed(v))
          [] u = "DIVU"   -> IF b = 0 THEN v = Ones ELSE Quotient(a, b, v)
          [] u = "REM"    -> IF b = 0 THEN v = a ELSE Remainder(x, y, Signed(v))
          [] u = "REMU"   -> IF b = 0 THEN v = a ELSE Remainder(a, b, v)
          [] u = "MFHI"   -> v = s.hi
          [] u = "MFLO"   -> v = s.lo
          [] u \in {"MTHI", "MTLO"} -> v = a

(* Where the program goes after a branch or a jump: over the signs of the  *)
(* operands, from the manuals' base of each target.                        *)
Goes(s) ==
    LET u == s.uop
        x == Signed(s.a)
        y == Signed(s.b)
        base == IF s.isa = "riscv" THEN s.pc ELSE s.pc + IlenBytes
        region == 2^(XLen - RegionBits)
        takes == CASE u = "BEQ" -> x = y
                   [] u = "BNE" -> x # y
                   [] u = "BLT" -> x < y
                   [] u = "BGE" -> x >= y
                   [] u = "BLTU" -> s.a < s.b
                   [] u = "BGEU" -> s.a >= s.b
                   [] u = "BLEZ" -> x <= 0
                   [] u = "BGTZ" -> x > 0
                   [] u \in {"BLTZ", "BLTZAL"} -> x < 0
                   [] u \in {"BGEZ", "BGEZAL"} -> x >= 0
    IN  CASE u \in RvBranches \cup MipsBranches ->
                Wrap(IF takes THEN base + Signed(s.c) ELSE s.pc + IlenBytes)
          [] u = "JALR" /\ s.isa = "riscv" -> 2 * (Wrap(x + y) \div 2)
          [] u = "JAL" /\ s.isa = "riscv"  -> Wrap(base + y)
          [] u \in {"JR", "JALR"}          -> s.a
          [] OTHER -> (Wrap(base) \div region) * region + s.c

(* The bytes of a word, lowest first, and the ones an access covers.       *)
Byte(word, k) == (word \div 2^(ByteBits * k)) % 2^ByteBits
Covered(s) ==
    LET k == EffAddr(s) % 4
    IN  CASE s.uop \in {"LB", "LBU", "SB"} -> k .. k
          [] s.uop \in {"LH", "LHU", "SH"} -> k .. k + 1
          [] OTHER                          -> 0 .. 3
First(s) == EffAddr(s) % 4

Finished == entry # Idle /\ result = {}

-----------------------------------------------------------------------------
(* A body computes what the manual says of its micro-operation, whatever   *)
(* the slots it does not use hold: signed results by flipped sign bits,    *)
(* widened products, magnitudes with their signs put back, packed bit      *)
(* fields (the exec_unit_*.py of both ISAs).                               *)
ResultsAreTheManuals ==
    Finished /\ entry.uop \notin Control(entry.isa) \cup Loads =>
        \A d \in DOMAIN wrote :
            IF entry.uop \in MulDivs(entry.isa)
            THEN MulDivMeans(Product(entry.uop, d), entry, wrote[d])
            ELSE AluMeans(entry.uop, entry, wrote[d])

(* A unit writes exactly the destinations its micro-operation booked: "an  *)
(* unguarded write would land on a garbage pr_idx", and one left out would *)
(* leave its readers waiting (exec_unit_br.py, mips/exec_unit_muldiv.py).  *)
WritesWhatItBooked ==
    Finished => DOMAIN wrote = Dests(entry.isa, entry.uop)

(* A branch declares exactly one of mispredict and success, with the pc    *)
(* the program goes to; the link it writes is where a return comes back    *)
(* to: the next instruction, on MIPS the one after the delay slot.         *)
BranchesGoRight ==
    Finished /\ entry.uop \in Control(entry.isa) =>
        /\ fix_pc = Goes(entry)
        /\ verdict = {IF Goes(entry) = Wrap(entry.pc + IlenBytes) THEN "suc_pred" ELSE "mis_pred"}
        /\ \A d \in DOMAIN wrote :
              wrote[d] = Wrap(entry.pc + (IF entry.isa = "riscv" THEN 1 ELSE 2) * IlenBytes)

(* A word is four bytes to every access: a store changes the bytes it      *)
(* covers to the low ones of its data and keeps the others, and a load     *)
(* returns the ones it covers with its sign (exec_unit_ls.py, both ISAs).  *)
WordsAreBytes ==
    Finished /\ entry.uop \in Loads \cup Stores =>
        /\ \A word \in pushed, k \in 0 .. 3 :
              Byte(word, k) = IF k \in Covered(entry) THEN Byte(entry.b, k - First(entry))
                              ELSE Byte(entry.word, k)
        /\ \A d \in DOMAIN wrote :
              /\ \A k \in Covered(entry) : Byte(wrote[d], k - First(entry)) = Byte(entry.word, k)
              /\ LET bits == ByteBits * Cardinality(Covered(entry))
                 IN  IF entry.uop \in {"LBU", "LHU"} THEN wrote[d] < 2^bits
                     ELSE Signed(wrote[d]) \in -(2^(bits - 1)) .. 2^(bits - 1) - 1
=============================================================================
