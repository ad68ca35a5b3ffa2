------------------------------- MODULE RvIsa -------------------------------
(***************************************************************************)
(* The description of RV32IM: its micro-operations with the slots they     *)
(* fill, its encodings, what each slot reads from the word, and its units. *)
(***************************************************************************)
EXTENDS InstrWord

RvBranches == {"BEQ", "BNE", "BLT", "BGE", "BLTU", "BGEU"}
RvLoads == {"LB", "LH", "LW", "LBU", "LHU"}
RvStores == {"SB", "SH", "SW"}
RvMulDivs == {"MUL", "MULH", "MULHSU", "MULHU", "DIV", "DIVU", "REM", "REMU"}
RvAlus == {"LUI", "AUIPC", "ADDI", "SLTI", "SLTIU", "XORI", "ORI", "ANDI", "SLLI", "SRLI",
           "SRAI", "ADD", "SUB", "SLL", "SLT", "SLTU", "XOR", "SRL", "SRA", "OR", "AND"}
RvControl == RvBranches \cup {"JAL", "JALR"}
RvUops == RvAlus \cup RvControl \cup RvLoads \cup RvStores \cup RvMulDivs

(* The source slots a micro-operation reads, and the destinations it books. *)
RvSrcs(u) ==
    CASE u \in {"LUI", "AUIPC", "JAL"}   -> {"src_2"}
      [] u \in RvBranches \cup RvStores  -> {"src_1", "src_2", "src_3"}
      [] OTHER                           -> {"src_1", "src_2"}
RvDests(u) == IF u \in RvBranches \cup RvStores THEN {} ELSE {"dest_1"}

-----------------------------------------------------------------------------
(***************************************************************************)
(* Fields and encodings.                                                   *)
(***************************************************************************)
RvOpcode == <<<<0, 7>>>>
FUNCT3 == <<<<12, 15>>>>
FUNCT3_7 == <<<<12, 15>>, <<25, 32>>>>
RvField ==
    [rd    |-> <<<<7, 12>>>>,  rs1 |-> <<<<15, 20>>>>,  rs2 |-> <<<<20, 25>>>>,
     imm_i |-> <<<<20, 32>>>>,
     imm_s |-> <<<<7, 12>>, <<25, 32>>>>,
     imm_b |-> <<<<7, 8>>, <<8, 12>>, <<25, 31>>, <<31, 32>>>>,
     imm_u |-> <<<<12, 32>>>>,
     imm_j |-> <<<<12, 20>>, <<20, 21>>, <<21, 31>>, <<31, 32>>>>,
     shamt |-> <<<<20, 25>>>>]

(* The M extension reuses every funct3 of the group under another funct7.  *)
RvMopOpLoose ==
    Rows(51, FUNCT3, <<"ADD", "SLL", "SLT", "SLTU", "XOR", "SRL", "OR", "AND">>, << >>)
      \cup Rows(51, FUNCT3_7, <<"SUB", "", "", "", "", "SRA">>, <<32>>)
      \cup Rows(51, FUNCT3_7, <<"MUL", "MULH", "MULHSU", "MULHU",
                                "DIV", "DIVU", "REM", "REMU">>, <<1>>)
RvMopOp ==
    Rows(51, FUNCT3_7, <<"ADD", "SLL", "SLT", "SLTU", "XOR", "SRL", "OR", "AND">>, <<0>>)
      \cup Rows(51, FUNCT3_7, <<"SUB", "", "", "", "", "SRA">>, <<32>>)
      \cup Rows(51, FUNCT3_7, <<"MUL", "MULH", "MULHSU", "MULHU",
                                "DIV", "DIVU", "REM", "REMU">>, <<1>>)
RvSeqs ==
    RvMopOp
      \cup Rows(19, FUNCT3, <<"ADDI", "", "SLTI", "SLTIU", "XORI", "", "ORI", "ANDI">>, << >>)
      \cup Rows(19, FUNCT3_7, <<"", "SLLI", "", "", "", "SRLI">>, <<0>>)
      \cup Rows(19, FUNCT3_7, <<"", "", "", "", "", "SRAI">>, <<32>>)
      \cup Rows(3, FUNCT3, <<"LB", "LH", "LW", "", "LBU", "LHU">>, << >>)
      \cup Rows(35, FUNCT3, <<"SB", "SH", "SW">>, << >>)
      \cup Rows(99, FUNCT3, <<"BEQ", "BNE", "", "", "BLT", "BGE", "BLTU", "BGEU">>, << >>)
      \cup Rows(103, FUNCT3, <<"JALR">>, << >>)
      \cup {Alone(55, "LUI"), Alone(23, "AUIPC"), Alone(111, "JAL")}

-----------------------------------------------------------------------------
(***************************************************************************)
(* What a slot of a micro-operation reads, and what an immediate means.    *)
(***************************************************************************)
RvShiftImms == {"SLLI", "SRLI", "SRAI"}
RvOpImms == {"ADDI", "SLTI", "SLTIU", "XORI", "ORI", "ANDI"}
RvReads(u, slot) ==
    CASE slot = "src_1"                                    -> "rs1"
      [] slot = "dest_1"                                   -> "rd"
      [] slot = "src_3" /\ u \in RvStores                  -> "imm_s"
      [] slot = "src_3"                                    -> "imm_b"
      [] u \in {"LUI", "AUIPC"}                            -> "imm_u"
      [] u = "JAL"                                         -> "imm_j"
      [] u \in RvShiftImms                                 -> "shamt"
      [] u \in RvOpImms \cup RvLoads \cup {"JALR"}         -> "imm_i"
      [] OTHER                                             -> "rs2"

RvImmediate(name, word) ==
    CASE name = "imm_i" -> SignExtend(Place(word, 31, 20, 0), 11)
      [] name = "imm_s" -> SignExtend(Place(word, 31, 25, 5) \cup Place(word, 11, 7, 0), 11)
      [] name = "imm_b" -> SignExtend(Place(word, 31, 31, 12) \cup Place(word, 7, 7, 11)
                                        \cup Place(word, 30, 25, 5) \cup Place(word, 11, 8, 1), 12)
      [] name = "imm_u" -> Place(word, 31, 12, 12)
      [] name = "imm_j" -> SignExtend(Place(word, 31, 31, 20) \cup Place(word, 19, 12, 12)
                                        \cup Place(word, 20, 20, 11) \cup Place(word, 30, 21, 1), 20)
      [] name = "shamt" -> Slice(word, <<20, 25>>)

(* The units: what each runs, the slots its station must carry, and what   *)
(* its body asks of the machine.                                           *)
RvExecUnits ==
    LET two == {"src_1", "src_2", "dest_1"}
    IN  [alu     |-> [uops |-> RvAlus, slots |-> two, needs |-> {"pc"}],
         mem     |-> [uops |-> RvLoads \cup RvStores, slots |-> two \cup {"src_3"}, needs |-> {"mem"}],
         control |-> [uops |-> RvControl, slots |-> two \cup {"src_3"}, needs |-> {"pc", "npc"}],
         muldiv  |-> [uops |-> RvMulDivs, slots |-> two, needs |-> {}]]
=============================================================================
