----------------------------- MODULE MipsUnits -----------------------------
(***************************************************************************)
(* The bodies of MIPS32's execution units, one row per micro-operation.    *)
(* The operands are those of RvUnits, with hi and lo in the slots of the   *)
(* accumulator.                                                            *)
(***************************************************************************)
EXTENDS UnitWords, MipsIsa

CONSTANTS
  FieldAt,      \* where imm.py packs the second position of ext and ins: 8
  RegionBits    \* the top bits a jump keeps from npc: 4

-----------------------------------------------------------------------------
Rotate(a, sh) == shiftR(a, sh) | Shl(a, (XLen - sh) % XLen)

(* How many bits of a from the top on differ from `bit`. *)
LeadingBefore(a, bit) ==
    LET at == {i \in 0 .. XLen - 1 : Bits(a, i, i) = bit}
    IN  IF at = {} THEN XLen
        ELSE XLen - 1 - (CHOOSE i \in at : \A j \in at : j <= i)

(* The two positions packed into one operand, and the masks they make: a   *)
(* field that reaches the top wraps to all ones.                           *)
LowPos(p) == Bits(p, CountBits - 1, 0)
HighPos(p) == Bits(p, FieldAt + CountBits - 1, FieldAt)
SizeMask(n) == Wrap(Shl(2, n) - 1)
InsMask(p) == SizeMask(HighPos(p)) & Inv(Wrap(Shl(1, LowPos(p)) - 1))

MipsAlu(u, s) ==
    LET a  == s.a
        b  == s.b
        c  == s.c
        sh == ShiftCount(b)
    IN  CASE u \in {"ADD", "ADDU", "ADDI", "ADDIU"} -> Wrap(a + b)
          [] u \in {"SUB", "SUBU"}   -> Wrap(a - b)
          [] u \in {"AND", "ANDI"}   -> a & b
          [] u \in {"OR", "ORI"}     -> a | b
          [] u \in {"XOR", "XORI"}   -> a ^^ b
          [] u = "NOR"               -> Inv(a | b)
          [] u \in {"SLT", "SLTI"}   -> Flag(SignedLess(a, b))
          [] u \in {"SLTU", "SLTIU"} -> Flag(a < b)
          [] u = "LUI"               -> b
          [] u \in {"SLL", "SLLV"}   -> Shl(a, sh)
          [] u \in {"SRL", "SRLV"}   -> shiftR(a, sh)
          [] u \in {"SRA", "SRAV"}   -> Sra(a, sh)
          [] u \in {"ROTR", "ROTRV"} -> Rotate(a, sh)
          [] u = "MOVZ"              -> IF b = 0 THEN a ELSE c
          [] u = "MOVN"              -> IF b # 0 THEN a ELSE c
          [] u = "CLZ"               -> LeadingBefore(a, 1)
          [] u = "CLO"               -> LeadingBefore(a, 0)
          [] u = "SEB"               -> Sext(a % 2^ByteBits, ByteBits)
          [] u = "SEH"               -> Sext(a % 2^HalfBits, HalfBits)
          [] u = "EXT"               -> shiftR(a, LowPos(b)) & SizeMask(HighPos(b))
          [] u = "INS"               -> (b & Inv(InsMask(c))) | (Shl(a, LowPos(c)) & InsMask(c))

-----------------------------------------------------------------------------
(* What the accumulator's unit computes for each destination. *)
MipsHi(u, s) ==
    CASE u = "MULT"  -> HighWord(Widen(s.a, SignBit(s.a)), Widen(s.b, SignBit(s.b)))
      [] u = "MULTU" -> HighWord(s.a, s.b)
      [] u = "DIV"   -> IF s.b = 0 THEN s.a ELSE SignedRemainder(s.a, s.b)
      [] u = "DIVU"  -> IF s.b = 0 THEN s.a ELSE Modulo(s.a, s.b)
      [] u = "MTHI"  -> s.a
MipsLo(u, s) ==
    CASE u \in {"MULT", "MULTU"} -> Wrap(s.a * s.b)
      [] u = "DIV"   -> IF s.b = 0 THEN Ones ELSE SignedQuotient(s.a, s.b)
      [] u = "DIVU"  -> IF s.b = 0 THEN Ones ELSE Divide(s.a, s.b)
      [] u = "MTLO"  -> s.a
MipsRd(u, s) ==
    CASE u = "MUL"  -> Wrap(s.a * s.b)
      [] u = "MFHI" -> s.hi
      [] u = "MFLO" -> s.lo

(* Every write is gated on the micro-operations that book its destination. *)
MulDivWrites(u) ==
    (IF u \in HiLoWriters \cup {"MTHI"} THEN {"dest_hi"} ELSE {})
      \cup (IF u \in HiLoWriters \cup {"MTLO"} THEN {"dest_lo"} ELSE {})
      \cup (IF u \in {"MUL", "MFHI", "MFLO"} THEN {"dest_1"} ELSE {})
MipsMulDiv(u, s) ==
    [d \in MulDivWrites(u) |-> CASE d = "dest_hi" -> MipsHi(u, s)
                                 [] d = "dest_lo" -> MipsLo(u, s)
                                 [] d = "dest_1"  -> MipsRd(u, s)]

-----------------------------------------------------------------------------
MipsTaken(u, s) ==
    LET a_neg == SignBit(s.a) = 1
    IN  CASE u = "BEQ"  -> s.a = s.b
          [] u = "BNE"  -> s.a # s.b
          [] u = "BLEZ" -> a_neg \/ s.a = 0
          [] u = "BGTZ" -> ~a_neg /\ s.a # 0
          [] u \in {"BLTZ", "BLTZAL"} -> a_neg
          [] u \in {"BGEZ", "BGEZAL"} -> ~a_neg
          [] u \in MipsJumps -> TRUE

(* Every target starts at npc, the delay slot; a jump keeps its region.    *)
Region(pc) == pc & (Ones - (2^(XLen - RegionBits) - 1))
MipsTargetOfPc(u, s) ==
    CASE u \in MipsBranches   -> Wrap(s.npc + s.c)
      [] u \in {"J", "JAL"}   -> Region(s.pc) | s.c
      [] u \in {"JR", "JALR"} -> s.a
MipsTarget(u, s) ==
    CASE u \in MipsBranches   -> Wrap(s.npc + s.c)
      [] u \in {"J", "JAL"}   -> Region(s.npc) | s.c
      [] u \in {"JR", "JALR"} -> s.a

MipsNextPc(u, s) == IF MipsTaken(u, s) THEN MipsTarget(u, s) ELSE s.npc

(* The link is the instruction after the delay slot. *)
MipsLink(u, s) ==
    [d \in IF u \in MipsLinks THEN {"dest_1"} ELSE {} |-> Wrap(s.pc + 2 * IlenBytes)]

-----------------------------------------------------------------------------
MipsEffAddr(u, s) == Wrap(s.a + IF u \in MipsStores THEN s.c ELSE s.b)

MipsStored(u, s) ==
    CASE u = "SW" -> s.b
      [] u = "SH" -> Merge(s.word, s.b, HalfOff(MipsEffAddr(u, s)), HalfBits)
      [] u = "SB" -> Merge(s.word, s.b, ByteOff(MipsEffAddr(u, s)), ByteBits)

MipsLoaded(u, s) ==
    LET byte == Extract(s.word, ByteOff(MipsEffAddr(u, s)), ByteBits)
        half == Extract(s.word, HalfOff(MipsEffAddr(u, s)), HalfBits)
    IN  CASE u = "LW"  -> s.word
          [] u = "LBU" -> byte
          [] u = "LHU" -> half
          [] u = "LB"  -> Sext(byte, ByteBits)
          [] u = "LH"  -> Sext(half, HalfBits)
=============================================================================
