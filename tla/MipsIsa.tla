------------------------------ MODULE MipsIsa ------------------------------
(***************************************************************************)
(* The description of MIPS32: its micro-operations with the slots they     *)
(* fill, its encodings, what each slot reads from the word, and its units. *)
(***************************************************************************)
EXTENDS InstrWord

MipsThree == {"ADD", "ADDU", "SUB", "SUBU", "AND", "OR", "XOR", "NOR", "SLT", "SLTU"}
MipsImm == {"ADDI", "ADDIU", "SLTI", "SLTIU", "ANDI", "ORI", "XORI"}
MipsShift == {"SLL", "SRL", "SRA", "ROTR", "SLLV", "SRLV", "SRAV", "ROTRV"}
MipsOne == {"CLZ", "CLO", "SEB", "SEH"}
MipsAlus == MipsThree \cup MipsImm \cup MipsShift \cup MipsOne
              \cup {"LUI", "MOVZ", "MOVN", "EXT", "INS"}
MipsLoads == {"LB", "LH", "LW", "LBU", "LHU"}
MipsStores == {"SB", "SH", "SW"}
MipsBranches == {"BEQ", "BNE", "BLEZ", "BGTZ", "BLTZ", "BGEZ", "BLTZAL", "BGEZAL"}
MipsJumps == {"J", "JAL", "JR", "JALR"}
MipsControl == MipsBranches \cup MipsJumps
MipsLinks == {"BLTZAL", "BGEZAL", "JAL", "JALR"}
HiLoWriters == {"MULT", "MULTU", "DIV", "DIVU"}
MipsMulDivs == HiLoWriters \cup {"MUL", "MFHI", "MFLO", "MTHI", "MTLO"}
MipsUops == MipsAlus \cup MipsLoads \cup MipsStores \cup MipsControl \cup MipsMulDivs

MipsSrcs(u) ==
    CASE u = "LUI"                                     -> {"src_2"}
      [] u \in MipsOne \cup {"JR", "JALR", "MTHI", "MTLO"} -> {"src_1"}
      [] u \in MipsStores \cup {"MOVZ", "MOVN", "INS", "BEQ", "BNE"}
                                                       -> {"src_1", "src_2", "src_3"}
      [] u \in MipsBranches \ {"BEQ", "BNE"}           -> {"src_1", "src_3"}
      [] u \in {"J", "JAL"}                            -> {"src_3"}
      [] u = "MFHI"                                    -> {"src_hi"}
      [] u = "MFLO"                                    -> {"src_lo"}
      [] OTHER                                         -> {"src_1", "src_2"}

MipsDests(u) ==
    CASE u \in MipsStores \cup (MipsControl \ MipsLinks) -> {}
      [] u \in HiLoWriters                               -> {"dest_hi", "dest_lo"}
      [] u = "MTHI"                                      -> {"dest_hi"}
      [] u = "MTLO"                                      -> {"dest_lo"}
      [] OTHER                                           -> {"dest_1"}

-----------------------------------------------------------------------------
(***************************************************************************)
(* Fields and encodings.                                                   *)
(***************************************************************************)
MipsOpcode == <<<<26, 32>>>>
FUNCT == <<<<0, 6>>>>
FUNCT_RS == <<<<0, 6>>, <<21, 26>>>>
FUNCT_SA == <<<<0, 6>>, <<6, 11>>>>
RT == <<<<16, 21>>>>
MipsField ==
    [rs    |-> <<<<21, 26>>>>,  rt |-> <<<<16, 21>>>>,  rd |-> <<<<11, 16>>>>,
     sa    |-> <<<<6, 11>>>>,   imm16 |-> <<<<0, 16>>>>, instr_index |-> <<<<0, 26>>>>,
     bitfield |-> <<<<6, 11>>, <<11, 16>>>>]

(* Rows given by pairs of a value and a name; `tail` as in Rows.           *)
Pairs(opcode, field, pairs, tail) ==
    {Row(opcode, field, <<p[1]>> \o tail, p[2]) : p \in pairs}

(* The rs field tells srl from rotr, and the sa field srlv from rotrv.     *)
MipsSpecial ==
    Pairs(0, FUNCT, {<<0, "SLL">>, <<3, "SRA">>, <<4, "SLLV">>, <<7, "SRAV">>, <<8, "JR">>,
                     <<9, "JALR">>, <<10, "MOVZ">>, <<11, "MOVN">>, <<16, "MFHI">>,
                     <<17, "MTHI">>, <<18, "MFLO">>, <<19, "MTLO">>, <<24, "MULT">>,
                     <<25, "MULTU">>, <<26, "DIV">>, <<27, "DIVU">>, <<32, "ADD">>,
                     <<33, "ADDU">>, <<34, "SUB">>, <<35, "SUBU">>, <<36, "AND">>, <<37, "OR">>,
                     <<38, "XOR">>, <<39, "NOR">>, <<42, "SLT">>, <<43, "SLTU">>}, << >>)
      \cup Pairs(0, FUNCT_RS, {<<2, "SRL">>}, <<0>>) \cup Pairs(0, FUNCT_RS, {<<2, "ROTR">>}, <<1>>)
      \cup Pairs(0, FUNCT_SA, {<<6, "SRLV">>}, <<0>>) \cup Pairs(0, FUNCT_SA, {<<6, "ROTRV">>}, <<1>>)
MipsSeqs ==
    MipsSpecial
      \cup Pairs(1, RT, {<<0, "BLTZ">>, <<1, "BGEZ">>, <<16, "BLTZAL">>, <<17, "BGEZAL">>}, << >>)
      \cup Pairs(28, FUNCT, {<<2, "MUL">>, <<32, "CLZ">>, <<33, "CLO">>}, << >>)
      \cup Pairs(31, FUNCT, {<<0, "EXT">>, <<4, "INS">>}, << >>)
      \cup Pairs(31, FUNCT_SA, {<<32, "SEB">>}, <<16>>) \cup Pairs(31, FUNCT_SA, {<<32, "SEH">>}, <<24>>)
      \cup {Alone(p[1], p[2]) : p \in
              {<<2, "J">>, <<3, "JAL">>, <<4, "BEQ">>, <<5, "BNE">>, <<6, "BLEZ">>, <<7, "BGTZ">>,
               <<8, "ADDI">>, <<9, "ADDIU">>, <<10, "SLTI">>, <<11, "SLTIU">>, <<12, "ANDI">>,
               <<13, "ORI">>, <<14, "XORI">>, <<15, "LUI">>, <<32, "LB">>, <<33, "LH">>,
               <<35, "LW">>, <<36, "LBU">>, <<37, "LHU">>, <<40, "SB">>, <<41, "SH">>, <<43, "SW">>}}

-----------------------------------------------------------------------------
(***************************************************************************)
(* What a slot of a micro-operation reads, and what an immediate means.    *)
(* "ra" is register 31, which no field names; the accumulator's halves are *)
(* classes of one register and have no index.                              *)
(***************************************************************************)
MipsSext == {"ADDI", "ADDIU", "SLTI", "SLTIU"}
MipsShiftByRs == {"SLLV", "SRLV", "SRAV", "ROTRV"}
MipsReads(u, slot) ==
    CASE slot \in {"src_hi", "src_lo", "dest_hi", "dest_lo"} -> "none"
      [] slot = "src_1" /\ u \in MipsShift \cup {"SEB", "SEH"} -> "rt"
      [] slot = "src_1"                                      -> "rs"
      [] slot = "dest_1" /\ u \in MipsLinks \ {"JALR"}       -> "ra"
      [] slot = "dest_1" /\ u \in MipsImm \cup MipsLoads \cup {"LUI", "EXT", "INS"} -> "rt"
      [] slot = "dest_1"                                     -> "rd"
      [] slot = "src_2" /\ u \in MipsShiftByRs               -> "rs"
      [] slot = "src_2" /\ u \in MipsShift                   -> "sa"
      [] slot = "src_2" /\ u \in MipsSext \cup MipsLoads     -> "imm_s16"
      [] slot = "src_2" /\ u \in MipsImm                     -> "imm_z16"
      [] slot = "src_2" /\ u = "LUI"                         -> "imm_lui"
      [] slot = "src_2" /\ u = "EXT"                         -> "bitfield"
      [] slot = "src_2"                                      -> "rt"
      [] u \in {"MOVZ", "MOVN"}                              -> "rd"
      [] u = "INS"                                           -> "bitfield"
      [] u \in MipsStores                                    -> "imm_s16"
      [] u \in MipsBranches                                  -> "imm_br"
      [] OTHER                                               -> "imm_j"

(* The field an immediate lies in. *)
MipsImmField(name) ==
    CASE name \in {"imm_s16", "imm_z16", "imm_lui", "imm_br"} -> "imm16"
      [] name = "imm_j"                                       -> "instr_index"
      [] OTHER                                                -> name

MipsImmediate(name, word) ==
    CASE name = "imm_s16"  -> SignExtend(Place(word, 15, 0, 0), 15)
      [] name = "imm_z16"  -> Slice(word, <<0, 16>>)
      [] name = "imm_lui"  -> Place(word, 15, 0, 16)
      [] name = "imm_br"   -> SignExtend(Place(word, 15, 0, 2), 17)
      [] name = "imm_j"    -> Place(word, 25, 0, 2)
      [] name = "bitfield" -> Place(word, 10, 6, 0) \cup Place(word, 15, 11, 8)
      [] name = "sa"       -> Slice(word, <<6, 11>>)

(* The units: what each runs, the slots its station must carry, and what   *)
(* its body asks of the machine.                                           *)
MipsExecUnits ==
    LET three == {"src_1", "src_2", "src_3", "dest_1"}
    IN  [alu     |-> [uops |-> MipsAlus, slots |-> three, needs |-> {}],
         mem     |-> [uops |-> MipsLoads \cup MipsStores, slots |-> three, needs |-> {"mem"}],
         control |-> [uops |-> MipsControl, slots |-> three, needs |-> {"pc", "npc"}],
         muldiv  |-> [uops |-> MipsMulDivs, needs |-> {},
                      slots |-> {"src_1", "src_2", "src_hi", "src_lo",
                                 "dest_1", "dest_hi", "dest_lo"}]]
=============================================================================
