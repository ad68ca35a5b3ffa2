----------------------------- MODULE InstrWord -----------------------------
(***************************************************************************)
(* Instruction words and the rules a description reads them by.  A word is *)
(* the set of the bits that are one; a field is a sequence of segments,    *)
(* each a first bit and an end, as InstrFieldMatch writes them.            *)
(***************************************************************************)
EXTENDS Integers, Sequences

WordBits == 0 .. 31
BitsOf(n) == {i \in 0 .. 15 : (n \div 2^i) % 2 = 1}

Width(seg) == seg[2] - seg[1]
Slice(word, seg) == {i - seg[1] : i \in word \cap seg[1] .. seg[2] - 1}

(* One value per segment, each no wider than its segment. *)
MatcherPair(field, values) ==
    /\ \A k \in DOMAIN field : field[k][1] < field[k][2]
    /\ DOMAIN values = DOMAIN field
    /\ \A k \in DOMAIN field : values[k] \in 0 .. 2^Width(field[k]) - 1

(* Every segment of the field holds its value. *)
FieldHolds(word, field, values) ==
    \A k \in DOMAIN field : Slice(word, field[k]) = BitsOf(values[k])

(* An instruction is picked by the rule of its group, its opcode, and by   *)
(* the rule of its own row, which may be empty.                            *)
Row(opcode, field, values, uop) ==
    [opcode |-> opcode, field |-> field, values |-> values, uop |-> uop]

(* The rows of a group that differ in one value: names[k] has value k - 1, *)
(* "" is no instruction, and `tail` is what further segments hold.         *)
Rows(opcode, field, names, tail) ==
    {Row(opcode, field, <<k - 1>> \o tail, names[k]) : k \in {i \in DOMAIN names : names[i] # ""}}
Alone(opcode, uop) == Row(opcode, << >>, << >>, uop)

-----------------------------------------------------------------------------
(***************************************************************************)
(* Immediates: bits hi..lo of the word to the value's bits from `at` on,   *)
(* then the sign over everything above it.                                 *)
(***************************************************************************)
Place(word, hi, lo, at) == {i - lo + at : i \in word \cap lo .. hi}
SignExtend(value, from_bit) ==
    value \cup (IF from_bit \in value THEN from_bit + 1 .. 31 ELSE {})
=============================================================================
