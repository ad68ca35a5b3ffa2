---------------------------- MODULE DecodeRows ----------------------------
(***************************************************************************)
(* What one lane of the decode stage writes into its row of registers for  *)
(* the word fetch handed it: the match guards of the description, the      *)
(* fields of every operand slot, and the station the lane sends it to.     *)
(* The row keeps every field a transfer does not write.                    *)
(***************************************************************************)
EXTENDS Machine, TLC

CONSTANTS
  Machines,       \* the configurations tried; decode is part of those built
  Thorough,       \* bound: of these, those tried with every word
  Registers,      \* register numbers tried, as sets of bits
  Leftovers       \* micro-operations whose rows are tried as earlier contents

VARIABLES
  machine,        \* the machine, which never changes
  lane,           \* the lane of the row
  handed,         \* what fetch handed over last
  row             \* the lane's row

vars == <<machine, lane, handed, row>>

desc == machine.isa

OPCODE(isa) == IF isa = "riscv" THEN RvOpcode ELSE MipsOpcode
Reads(isa, u, slot) == IF isa = "riscv" THEN RvReads(u, slot) ELSE MipsReads(u, slot)

IsStore(u) == u \in {"SB", "SH", "SW"}
RegNames == {"rs", "rt", "rd", "rs1", "rs2", "ra"}
IsImm(name) == name \notin RegNames \cup {"none"}

(* The tables are ones a Mop and a UopSeq accept: every rule is a matcher  *)
(* pair, and nothing is decoded that is no micro-operation.                *)
ASSUME DecodeAssumption ==
    /\ \A seq \in RvSeqs \cup MipsSeqs : MatcherPair(seq.field, seq.values)
    /\ {seq.uop : seq \in RvSeqs} = RvUops
    /\ {seq.uop : seq \in MipsSeqs} = MipsUops
    /\ Thorough \subseteq Machines

(* What a machine is: a sequence of stations, and units whose `needs` say  *)
(* what their bodies ask for (isa/exec_unit.py:58), a body of loads or     *)
(* stores the memory.                                                      *)
RsvSpec == [issue_o3 : BOOLEAN, size : Nat, exec_unit : Seq(STRING), rsv_type : STRING]

ASSUME MachinesAssumption ==
    \A m \in Machines :
        /\ m.rsv_specs \in Seq(RsvSpec)
        /\ \A n \in DOMAIN m.exec_units :
              m.exec_units[n].uops \cap (RvLoads \cup RvStores) # {} => Accesses(m, n)

-----------------------------------------------------------------------------
(***************************************************************************)
(* The fields of a row: those of the shape it is declared with, and those  *)
(* a decoded lane fills.                                                   *)
(***************************************************************************)
SrcSlots(isa) == IF isa = "riscv" THEN {"src_1", "src_2", "src_3"}
                 ELSE {"src_1", "src_2", "src_3", "src_hi", "src_lo"}
DestSlots(isa) == IF isa = "riscv" THEN {"dest_1"} ELSE {"dest_1", "dest_hi", "dest_lo"}
HasImm == {"src_2", "src_3"}
HasArch(isa) == IF isa = "riscv" THEN {"src_1", "src_2", "dest_1"} ELSE SrcSlots(isa) \cup DestSlots(isa)
OneRegister == {"src_hi", "src_lo", "dest_hi", "dest_lo"}

Fields(isa) ==
    {<<"active", s>> : s \in SrcSlots(isa) \cup DestSlots(isa)}
      \cup {<<"valid", s>> : s \in SrcSlots(isa)}
      \cup {<<"data", s>> : s \in HasImm}
      \cup {<<"wb_required", s>> : s \in DestSlots(isa)}
      \cup {<<"ar_idx", s>> : s \in HasArch(isa) \ OneRegister}

Immediate(isa, name, word) ==
    IF isa = "riscv" THEN RvImmediate(name, word) ELSE MipsImmediate(name, word)
ArchIndex(isa, name, word) ==
    IF name = "ra" THEN BitsOf(31)
    ELSE Slice(word, IF isa = "riscv" THEN RvField[name][1] ELSE MipsField[name][1])

(* What one field holds for micro-operation u: a branch claims every       *)
(* destination, so that a squash has a register to roll back to.           *)
FieldValue(isa, f, u, word) ==
    LET slot   == f[2]
        filled == slot \in Srcs(isa, u) \cup Dests(isa, u)
        name   == Reads(isa, u, slot)
    IN  CASE f[1] = "active"      -> filled \/ (IsBranch(isa, u) /\ slot \in DestSlots(isa))
          [] f[1] = "valid"       -> filled /\ IsImm(name)
          [] f[1] = "data"        -> IF filled /\ IsImm(name) THEN Immediate(isa, name, word) ELSE {}
          [] f[1] = "wb_required" -> filled
          [] f[1] = "ar_idx"      -> IF filled /\ ~IsImm(name) THEN ArchIndex(isa, name, word) ELSE {}

(* A lane that decoded writes every field, those of its empty slots too.   *)
FilledOnly(isa, u, word) ==
    [f \in {f \in Fields(isa) : f[2] \in Srcs(isa, u) \cup Dests(isa, u)} |-> FieldValue(isa, f, u, word)]
Filled(isa, u, word) == [f \in Fields(isa) |-> FieldValue(isa, f, u, word)]

(* The stations with a unit that runs u, and the one the lane picks.       *)
RsvIdsFor(u) == {k \in RsvIds(machine) : CanIssue(machine, k, u)}
RsvIdForAnyLane(u) == (lane % Len(machine.rsv_specs)) + 1
RsvIdFor(u) ==
    CHOOSE k \in RsvIdsFor(u) :
        Cardinality({j \in RsvIdsFor(u) : j < k}) = lane % Cardinality(RsvIdsFor(u))

-----------------------------------------------------------------------------
(***************************************************************************)
(* Decoding.                                                               *)
(***************************************************************************)
Matches(isa, seq, word) ==
    FieldHolds(word, OPCODE(isa), <<seq.opcode>>) /\ FieldHolds(word, seq.field, seq.values)
Hits(isa, word) == {seq \in Seqs(isa) : Matches(isa, seq, word)}

UopDecode(isa, u, word) ==
    LET filled == Filled(isa, u, word)
    IN  [valid |-> TRUE, uop |-> u, is_branch |-> IsBranch(isa, u), is_store |-> IsStore(u),
         rsv_id |-> RsvIdFor(u), ops |-> filled @@ row.ops]

(* A lane without a word, and one that nothing matches, is only not valid. *)
Transfer(answered, word) ==
    IF answered /\ Hits(desc, word) # {}
    THEN \E seq \in Hits(desc, word) : row' = UopDecode(desc, seq.uop, word)
    ELSE row' = [row EXCEPT !.valid = FALSE]

-----------------------------------------------------------------------------
(***************************************************************************)
(* What programs hand over.  An assembler puts the bits of each operand    *)
(* where the manual's formats say; a value bit i lies at Layout[i].        *)
(***************************************************************************)
RvLayout(name) ==
    CASE name = "rd"    -> [i \in 0 .. 4 |-> i + 7]
      [] name = "rs1"   -> [i \in 0 .. 4 |-> i + 15]
      [] name \in {"rs2", "shamt"} -> [i \in 0 .. 4 |-> i + 20]
      [] name = "imm_i" -> [i \in 0 .. 11 |-> i + 20]
      [] name = "imm_s" -> [i \in 0 .. 11 |-> IF i < 5 THEN i + 7 ELSE i + 20]
      [] name = "imm_b" -> [i \in 1 .. 12 |-> IF i = 11 THEN 7 ELSE IF i = 12 THEN 31
                                              ELSE IF i < 5 THEN i + 7 ELSE i + 20]
      [] name = "imm_u" -> [i \in 12 .. 31 |-> i]
      [] name = "imm_j" -> [i \in 1 .. 20 |-> IF i = 20 THEN 31 ELSE IF i = 11 THEN 20
                                              ELSE IF i < 11 THEN i + 20 ELSE i]
MipsLayout(name) ==
    CASE name = "rs" -> [i \in 0 .. 4 |-> i + 21]
      [] name = "rt" -> [i \in 0 .. 4 |-> i + 16]
      [] name = "rd" -> [i \in 0 .. 4 |-> i + 11]
      [] name = "sa" -> [i \in 0 .. 4 |-> i + 6]
      [] name \in {"imm_s16", "imm_z16"} -> [i \in 0 .. 15 |-> i]
      [] name = "imm_lui"  -> [i \in 16 .. 31 |-> i - 16]
      [] name = "imm_br"   -> [i \in 2 .. 17 |-> i - 2]
      [] name = "imm_j"    -> [i \in 2 .. 27 |-> i - 2]
      [] name = "bitfield" -> [i \in 0 .. 4 \cup 8 .. 12 |-> IF i < 8 THEN i + 6 ELSE i + 3]
Layout(isa, name) == IF isa = "riscv" THEN RvLayout(name) ELSE MipsLayout(name)

(* The sign bit of a signed immediate, if it is one. *)
SignOf(isa, name) ==
    CASE name \in {"imm_i", "imm_s"}          -> {11}
      [] name = "imm_b"                       -> {12}
      [] name = "imm_j" /\ isa = "riscv"      -> {20}
      [] name = "imm_s16"                     -> {15}
      [] name = "imm_br"                      -> {17}
      [] OTHER                                -> {}
Extended(isa, name, bits) ==
    bits \cup UNION {s + 1 .. 31 : s \in SignOf(isa, name) \cap bits}

Named(isa, u) == {Reads(isa, u, s) : s \in Srcs(isa, u) \cup Dests(isa, u)} \ {"none", "ra"}
Full(isa, name) == IF IsImm(name) THEN Extended(isa, name, DOMAIN Layout(isa, name)) ELSE BitsOf(21)
ValuesOf(isa, name) ==
    IF ~IsImm(name) THEN Registers
    ELSE {Extended(isa, name, bits) : bits \in {{}, DOMAIN Layout(isa, name)}
                                            \cup {{i} : i \in DOMAIN Layout(isa, name)}}

Assembled(isa, seq, vals) ==
    {OPCODE(isa)[1][1] + i : i \in BitsOf(seq.opcode)}
      \cup UNION {{seq.field[k][1] + i : i \in BitsOf(seq.values[k])} : k \in DOMAIN seq.field}
      \cup UNION {{Layout(isa, n)[i] : i \in vals[n] \cap DOMAIN Layout(isa, n)} : n \in DOMAIN vals}

(* The instructions tried, with what an assembler makes of them.           *)
Instr(isa, seq, vals) ==
    [kind |-> "instr", uop |-> seq.uop, vals |-> vals, word |-> Assembled(isa, seq, vals)]
Choices(isa, names) ==
    LET imms == {n \in names : IsImm(n)}
        pool == UNION {ValuesOf(isa, n) : n \in imms}
    IN  {regs @@ imm : regs \in [names \ imms -> Registers], imm \in [imms -> pool]}
Instrs(isa) ==
    UNION {{Instr(isa, seq, vals) :
               vals \in {v \in Choices(isa, Named(isa, seq.uop)) :
                           \A n \in DOMAIN v : v[n] \in ValuesOf(isa, n)}} : seq \in Seqs(isa)}
Once(isa) == {Instr(isa, seq, [n \in Named(isa, seq.uop) |-> Full(isa, n)]) : seq \in Seqs(isa)}

(* Words no assembler makes as well: every value of the fields matchers    *)
(* read that some rule asks for, and one or two that none does.            *)
Segment(seg, values) == {{seg[1] + i : i \in BitsOf(v)} : v \in values}
Words(isa) ==
    IF isa = "riscv"
    THEN {op \cup f3 \cup f7 : op \in Segment(<<0, 7>>, {0} \cup {4 * k + 3 : k \in 0 .. 31}),
                               f3 \in Segment(<<12, 15>>, 0 .. 7),
                               f7 \in Segment(<<25, 32>>, {0, 1, 32, 33})}
    ELSE {op \cup fn \cup sa \cup rs :
            op \in Segment(<<26, 32>>, {0, 28, 31}), fn \in Segment(<<0, 6>>, 0 .. 63),
            sa \in Segment(<<6, 11>>, {0, 1, 16, 24}), rs \in Segment(<<21, 26>>, {0, 1})}
         \cup {op \cup rt : op \in Segment(<<26, 32>>, 0 .. 63),
                           rt \in Segment(<<16, 21>>, {0, 1, 2, 16, 17})}
AnyWord(isa) == {[kind |-> "word", word |-> w] : w \in Words(isa)}

NoAnswer == [kind |-> "no answer"]

(* Whatever the machine, fixed for the run. *)
Isas == {m.isa : m \in Machines}
InstrsTried == [i \in Isas |-> Instrs(i)]
OnceTried == [i \in Isas |-> Once(i)]
UsualTried == [i \in Isas |-> {h \in OnceTried[i] : h.uop \in Leftovers}]
WordsTried == [i \in Isas |-> AnyWord(i)]

(* Of two words in a row one is usual: what an unusual word finds in the   *)
(* row is what a usual one left, or the row as it comes up.                *)
MayBeUnusual == handed \in UsualTried[desc] \/ (handed = NoAnswer /\ row.uop = "none")

Instructions ==
    IF ~MayBeUnusual THEN UsualTried[desc]
    ELSE IF machine \in Thorough THEN InstrsTried[desc] \cup OnceTried[desc]
    ELSE OnceTried[desc]

Init ==
    /\ machine \in {m \in Machines : IsBuilt(m)}
    /\ lane \in 0 .. machine.fe_lanes - 1
    /\ handed = NoAnswer
    /\ row = [valid |-> FALSE, uop |-> "none", is_branch |-> FALSE, is_store |-> FALSE,
              rsv_id |-> 0,
              ops |-> [f \in Fields(desc) |-> IF f[1] \in {"data", "ar_idx"} THEN {} ELSE FALSE]]

DecodeInstr ==
    \E h \in Instructions :
        handed' = h /\ Transfer(TRUE, h.word) /\ UNCHANGED <<machine, lane>>

DecodeWord ==
    /\ MayBeUnusual /\ machine \in Thorough
    /\ \E h \in WordsTried[desc] :
          handed' = h /\ Transfer(TRUE, h.word) /\ UNCHANGED <<machine, lane>>

DecodeNothing ==
    handed' = NoAnswer /\ Transfer(FALSE, {}) /\ UNCHANGED <<machine, lane>>

Next == DecodeInstr \/ DecodeWord \/ DecodeNothing

Spec == Init /\ [][Next]_vars

-----------------------------------------------------------------------------
(***************************************************************************)
(* Properties                                                              *)
(***************************************************************************)

(* No word has two readings: the guards of a lane are independent, with no *)
(* chain and no priority, because "the encodings are mutually exclusive"   *)
(* (decode.py:152).                                                        *)
OneReadingPerWord ==
    handed.kind \in {"instr", "word"} => Cardinality(Hits(desc, handed.word)) <= 1

(* Decode inverts the assembler: whatever row was left, the lane holds the *)
(* micro-operation, each register and each immediate with its sign, and    *)
(* claims no slot the micro-operation does not fill, but for the           *)
(* destinations of a branch (decode.py:168-275).                           *)
DecodeInvertsAssembly ==
    handed.kind = "instr" =>
        LET u == handed.uop
            filled == Srcs(desc, u) \cup Dests(desc, u)
            value(s) == IF Reads(desc, u, s) = "ra" THEN BitsOf(31)
                        ELSE IF Reads(desc, u, s) = "none" THEN {}
                        ELSE handed.vals[Reads(desc, u, s)]
            imm(s) == IsImm(Reads(desc, u, s))
        IN  /\ row.valid /\ row.uop = u
            /\ row.is_branch <=> IsBranch(desc, u)
            /\ row.is_store <=> u \in {"SB", "SH", "SW"}
            /\ \A f \in Fields(desc) :
                  LET here == f[2] \in filled
                  IN  row.ops[f] =
                        CASE f[1] = "active"      -> here \/ (row.is_branch /\ f[2] \in DestSlots(desc))
                          [] f[1] = "valid"       -> here /\ imm(f[2])
                          [] f[1] = "wb_required" -> here
                          [] f[1] = "data"        -> IF here /\ imm(f[2]) THEN value(f[2]) ELSE {}
                          [] f[1] = "ar_idx"      -> IF here /\ ~imm(f[2]) THEN value(f[2]) ELSE {}

(* In every machine that is built, on every lane, a decoded row goes to a  *)
(* station whose units that run it have every slot it fills, and only such *)
(* units; a branch and an access go where issue is in order, and a branch  *)
(* where every other branch goes, because tags return in order.  What the  *)
(* checks of the description, of the configuration and of the blocks add   *)
(* up to (isa.py:213, 349, config.py:140, 342, core.py:151).               *)
RoutedWhereItRuns ==
    row.valid =>
        LET spec == machine.rsv_specs[row.rsv_id]
            runs == {n \in UnitsOf(spec) : row.uop \in machine.exec_units[n].uops}
        IN  /\ runs # {}
            /\ \A n \in runs : Srcs(desc, row.uop) \cup Dests(desc, row.uop)
                                  \subseteq machine.exec_units[n].slots
            /\ row.is_branch \/ row.uop \in RvLoads \cup RvStores => ~spec.issue_o3
            /\ row.is_branch => \A u \in Control(desc) : RsvIdsFor(u) = {row.rsv_id}
=============================================================================
