------------------------------ MODULE RvUnits ------------------------------
(***************************************************************************)
(* The bodies of RV32IM's execution units, one row per micro-operation.    *)
(* A body gets the operands of a record: a, b and c in source slots 1 to   *)
(* 3, the pc, the predicted next pc and, in the load/store unit, the word  *)
(* at the address.  A slot the micro-operation does not use holds anything.*)
(***************************************************************************)
EXTENDS UnitWords, RvIsa

-----------------------------------------------------------------------------
RvAlu(u, s) ==
    LET a  == s.a
        b  == s.b
        sh == ShiftCount(b)
    IN  CASE u \in {"ADD", "ADDI"}   -> Wrap(a + b)
          [] u = "SUB"               -> Wrap(a - b)
          [] u \in {"AND", "ANDI"}   -> a & b
          [] u \in {"OR", "ORI"}     -> a | b
          [] u \in {"XOR", "XORI"}   -> a ^^ b
          [] u \in {"SLL", "SLLI"}   -> Shl(a, sh)
          [] u \in {"SRL", "SRLI"}   -> shiftR(a, sh)
          [] u \in {"SRA", "SRAI"}   -> Sra(a, sh)
          [] u \in {"SLT", "SLTI"}   -> Flag(SignedLess(a, b))
          [] u \in {"SLTU", "SLTIU"} -> Flag(a < b)
          [] u = "LUI"               -> b
          [] u = "AUIPC"             -> Wrap(s.pc + b)

RvMulDiv(u, s) ==
    LET a == s.a
        b == s.b
        or_else(zero, answer) == IF b = 0 THEN zero ELSE answer
    IN  CASE u = "MUL"    -> Wrap(a * b)
          [] u = "MULH"   -> HighWord(Widen(a, SignBit(a)), Widen(b, SignBit(b)))
          [] u = "MULHSU" -> HighWord(Widen(a, SignBit(a)), b)
          [] u = "MULHU"  -> HighWord(a, b)
          [] u = "DIV"    -> or_else(Ones, SignedQuotient(a, b))
          [] u = "DIVU"   -> or_else(Ones, Divide(a, b))
          [] u = "REM"    -> or_else(a, SignedRemainder(a, b))
          [] u = "REMU"   -> or_else(a, Modulo(a, b))

-----------------------------------------------------------------------------
RvTaken(u, s) ==
    CASE u = "BEQ"  -> s.a = s.b
      [] u = "BNE"  -> s.a # s.b
      [] u = "BLT"  -> SignedLess(s.a, s.b)
      [] u = "BGE"  -> ~SignedLess(s.a, s.b)
      [] u = "BLTU" -> s.a < s.b
      [] u = "BGEU" -> s.a >= s.b
      [] u \in {"JAL", "JALR"} -> TRUE

RvTarget(u, s) ==
    CASE u \in RvBranches -> Wrap(s.pc + s.c)
      [] u = "JAL"        -> Wrap(s.pc + s.b)
      [] u = "JALR"       -> Wrap(s.a + s.b) & (Ones - 1)

RvNextPc(u, s) == IF RvTaken(u, s) THEN RvTarget(u, s) ELSE Wrap(s.pc + IlenBytes)

(* What the control unit writes: the link, for the jumps only. *)
RvLinkAlways(u, s) == [d \in {"dest_1"} |-> Wrap(s.pc + IlenBytes)]
RvLink(u, s) ==
    [d \in IF u \in {"JAL", "JALR"} THEN {"dest_1"} ELSE {} |-> Wrap(s.pc + IlenBytes)]

-----------------------------------------------------------------------------
(* Loads displace by slot 2, stores by slot 3 with their data in slot 2.   *)
RvEffAddr(u, s) == Wrap(s.a + IF u \in RvStores THEN s.c ELSE s.b)

RvStored(u, s) ==
    CASE u = "SW" -> s.b
      [] u = "SH" -> Merge(s.word, s.b, HalfOff(RvEffAddr(u, s)), HalfBits)
      [] u = "SB" -> Merge(s.word, s.b, ByteOff(RvEffAddr(u, s)), ByteBits)

RvLoaded(u, s) ==
    LET byte == Extract(s.word, ByteOff(RvEffAddr(u, s)), ByteBits)
        half == Extract(s.word, HalfOff(RvEffAddr(u, s)), HalfBits)
    IN  CASE u = "LW"  -> s.word
          [] u = "LBU" -> byte
          [] u = "LHU" -> half
          [] u = "LB"  -> Sext(byte, ByteBits)
          [] u = "LH"  -> Sext(half, HalfBits)
=============================================================================
