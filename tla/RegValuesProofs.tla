-------------------------- MODULE RegValuesProofs --------------------------
(***************************************************************************)
(* Proofs about RegValues: every operand is the one the program gives, and *)
(* the architectural file is what retired, for every size of the rings and *)
(* every program of micro-operations, in a core with more registers than   *)
(* rows (where RenameCoreProofs shows that no wait is lost).               *)
(***************************************************************************)
EXTENDS RegValues, RenameCoreProofs, WellFoundedInduction

-----------------------------------------------------------------------------
(* Running the program.                                                    *)

(* A set of numbers has a lowest.                                          *)
LEMMA LowestExists ==
    ASSUME NEW S \in SUBSET Nat, S # {}
    PROVE  \E x \in S : \A y \in S : x <= y
<1>1. PICK x \in S : \A y \in S : <<y, x>> \notin OpToRel(<, Nat)
  BY NatLessThanWellFounded, WFMin, Zenon
<1>2. \A y \in S : ~ (y < x)
  BY <1>1 DEF OpToRel
<1>3. QED
  BY <1>2

(* Runs is what its definition says: the registers after no row are those  *)
(* retired, and one row more is run on what the rows before it leave.      *)
RunsRecur ==
    /\ Runs[0] = retired
    /\ \A n \in 1 .. RobDepth : Runs[n] = Run(Runs[n - 1], table[SlotAt(n - 1)].uop)

(* A recursive definition needs a function that satisfies it.  There is    *)
(* one on 0 .. n for every n: the lowest n without one would get it from   *)
(* the one below.                                                          *)
LEMMA RunsDefined == RunsRecur
<1> DEFINE Is(f, n) == f = [k \in 0 .. n |-> IF k = 0 THEN retired
                                             ELSE Run(f[k - 1], table[SlotAt(k - 1)].uop)]
           Missing == {n \in Nat : ~ \E f : Is(f, n)}
<1>1. Missing = {}
  <2>1. SUFFICES ASSUME Missing # {} PROVE FALSE
    OBVIOUS
  <2>2. PICK n \in Missing : \A m \in Missing : n <= m
    <3>1. Missing \in SUBSET Nat
      OBVIOUS
    <3> HIDE DEF Missing
    <3>2. QED
      BY <2>1, <3>1, LowestExists
  <2>3. CASE n = 0
    <3> DEFINE f == [k \in 0 .. 0 |-> retired]
    <3>1. Is(f, 0)
      OBVIOUS
    <3> HIDE DEF f
    <3>2. QED
      BY <2>2, <2>3, <3>1
  <2>4. CASE n # 0
    <3>1. n \in Nat /\ n - 1 \in Nat /\ ~ (n <= n - 1)
      BY <2>2, <2>4
    <3>2. PICK f : Is(f, n - 1)
      BY <2>2, <3>1
    <3> DEFINE next == Run(f[n - 1], table[SlotAt(n - 1)].uop)
               g == [k \in 0 .. n |-> IF k = n THEN next ELSE f[k]]
    <3>3. ASSUME NEW k \in 0 .. n
          PROVE  g[k] = IF k = 0 THEN retired ELSE Run(g[k - 1], table[SlotAt(k - 1)].uop)
      <4>1. CASE k = n
        <5>1. n - 1 \in 0 .. n /\ n - 1 # n /\ k # 0
          BY <2>4, <3>1, <4>1
        <5>2. g[k] = next /\ g[k - 1] = f[n - 1]
          BY <4>1, <5>1
        <5>3. QED
          BY <4>1, <5>1, <5>2
      <4>2. CASE k # n
        <5>1. k \in 0 .. n - 1 /\ k \in 0 .. n
          BY <3>1, <4>2
        <5>2. g[k] = f[k]
          BY <4>2
        <5>3. CASE k = 0
          BY <3>2, <5>1, <5>2, <5>3
        <5>4. CASE k # 0
          <6>1. k - 1 \in 0 .. n /\ k - 1 # n
            BY <3>1, <5>1, <5>4
          <6>2. g[k - 1] = f[k - 1]
            BY <6>1
          <6>3. f[k] = Run(f[k - 1], table[SlotAt(k - 1)].uop)
            BY <3>2, <5>1, <5>4
          <6> HIDE DEF g
          <6>4. QED
            BY <5>2, <5>4, <6>2, <6>3
        <5>5. QED
          BY <5>3, <5>4
      <4>3. QED
        BY <4>1, <4>2
    <3>4. g = [k \in 0 .. n |-> g[k]]
      OBVIOUS
    <3> HIDE DEF g
    <3>5. Is(g, n)
      BY <3>3, <3>4
    <3>6. QED
      BY <2>2, <3>5
  <2>5. QED
    BY <2>3, <2>4
<1>2. RobDepth \in Nat
  BY RobAssumption
<1>3. \E f : Is(f, RobDepth)
  BY <1>1, <1>2
<1>4. Is(Runs, RobDepth)
  <2>1. Runs = CHOOSE f : Is(f, RobDepth)
    BY DEF Runs
  <2> HIDE DEF Is
  <2>2. QED
    BY <1>3, <2>1, Zenon
<1>5. 0 \in 0 .. RobDepth /\ \A n \in 1 .. RobDepth : n \in 0 .. RobDepth /\ n # 0
  BY <1>2
<1> DEFINE at(k) == IF k = 0 THEN retired ELSE Run(Runs[k - 1], table[SlotAt(k - 1)].uop)
<1>6. Runs = [k \in 0 .. RobDepth |-> at(k)]
  BY <1>4
<1>7. \A k \in 0 .. RobDepth : Runs[k] = at(k)
  <2> HIDE DEF at
  <2>1. QED
    BY <1>6
<1>8. QED
  BY <1>5, <1>7 DEF RunsRecur

(* Before a step and after it.                                             *)
LEMMA RunsRecurs == RunsRecur /\ RunsRecur'
BY RunsDefined, PTL

(* What a row reads, and what it computes from it, in program order.       *)
Operand(uop, regs) ==
    IF uop.src = NoReg THEN 0 ELSE IF uop.src \in ConstRegs THEN ConstVal ELSE regs[uop.src]
Value(i) == Result(table[i].uop, Operand(table[i].uop, Runs[Age(i)]))

(* One row more writes its result where it writes, and nothing else.       *)
LEMMA RunWrites ==
    ASSUME NEW regs, NEW uop, NEW a \in Arch
    PROVE  /\ Writes(uop, a) => Run(regs, uop)[a] = Result(uop, Operand(uop, regs))
           /\ ~Writes(uop, a) => Run(regs, uop)[a] = regs[a]
BY DEF Run, Operand

(* The n oldest rows in flight.                                            *)
Oldest(n) == {j \in InFlight : Age(j) < n}

(* Each register holds the result of the youngest row that writes it, or   *)
(* what retired before them all.                                           *)
RunsLast(n) ==
    \A a \in Arch :
        /\ WritersIn(table, Oldest(n), a) = {} => Runs[n][a] = retired[a]
        /\ \A w \in InFlight : IsLast(table, com_ptr, Oldest(n), a, w) => Runs[n][a] = Value(w)

(* One row more: it is the youngest writer of what it writes.              *)
LEMMA RunsLastStep ==
    ASSUME RobTyped, RunsRecur, NEW n \in 0 .. used_entry_cnt - 1, RunsLast(n)
    PROVE  RunsLast(n + 1)
<1>1. /\ com_ptr \in Slots /\ used_entry_cnt \in 0 .. RobDepth /\ RobDepth \in Nat \ {0}
  BY RobAssumption DEF RobTyped
<1> DEFINE s == SlotAt(n)
<1>2. s \in Slots /\ Age(s) = n /\ s \in InFlight
  <2>1. n \in Slots /\ n < used_entry_cnt
    BY <1>1 DEF Slots
  <2>2. SlotFrom(com_ptr, n) \in Slots /\ AgeFrom(com_ptr, SlotFrom(com_ptr, n)) = n
    BY <1>1, <2>1, SlotsAndAges
  <2>3. QED
    BY <2>1, <2>2, AgeIsFrom DEF InFlight
<1>3. Runs[n + 1] = Run(Runs[n], table[s].uop)
  <2>1. n + 1 \in 1 .. RobDepth /\ (n + 1) - 1 = n
    BY <1>1
  <2>2. QED
    BY <2>1 DEF RunsRecur
<1>4. \A j \in InFlight : Age(j) \in Int /\ (Age(j) = n => j = s)
  <2>1. \A j \in InFlight : j \in Slots
    BY DEF InFlight
  <2>2. \A j \in Slots : Age(j) \in Slots
    BY <1>1, SlotsAndAges, AgeIsFrom
  <2>3. \A j, k \in Slots : Age(j) = Age(k) => j = k
    BY <1>1, SlotsAndAges, AgeIsFrom
  <2>4. \A k \in Slots : k \in Int
    BY <1>1 DEF Slots
  <2> HIDE DEF s
  <2>5. QED
    BY <1>2, <2>1, <2>2, <2>3, <2>4
<1> HIDE DEF s
<1>5. Oldest(n + 1) = Oldest(n) \cup {s} /\ s \notin Oldest(n) /\ n \in Int
  <2>1. n \in Int
    BY <1>1
  <2>2. \A j \in InFlight : Age(j) < n + 1 <=> Age(j) < n \/ j = s
    BY <1>2, <1>4, <2>1
  <2>3. QED
    BY <1>2, <2>1, <2>2 DEF Oldest
<1>6. \A j \in Oldest(n) : Age(j) < Age(s) /\ Age(j) \in Int /\ Age(s) \in Int
  BY <1>2, <1>4, <1>5 DEF Oldest
<1>7. SUFFICES ASSUME NEW a \in Arch
      PROVE  /\ WritersIn(table, Oldest(n + 1), a) = {} => Runs[n + 1][a] = retired[a]
             /\ \A w \in InFlight : IsLast(table, com_ptr, Oldest(n + 1), a, w)
                                       => Runs[n + 1][a] = Value(w)
  BY DEF RunsLast
<1>8. CASE Writes(table[s].uop, a)
  <2>1. Runs[n + 1][a] = Value(s)
    BY <1>2, <1>3, <1>8, RunWrites DEF Value
  <2>2. s \in WritersIn(table, Oldest(n + 1), a)
    BY <1>5, <1>8 DEF WritersIn
  <2>3. ASSUME NEW w \in InFlight, IsLast(table, com_ptr, Oldest(n + 1), a, w)
        PROVE  w = s
    <3>1. w \in Oldest(n + 1) /\ Age(s) <= Age(w)
      BY <2>2, <2>3, AgeIsFrom DEF IsLast, WritersIn
    <3>2. QED
      BY <1>5, <1>6, <3>1
  <2>4. QED
    BY <2>1, <2>2, <2>3
<1>9. CASE ~Writes(table[s].uop, a)
  <2>1. Runs[n + 1][a] = Runs[n][a]
    BY <1>3, <1>9, RunWrites
  <2>2. WritersIn(table, Oldest(n + 1), a) = WritersIn(table, Oldest(n), a)
    BY <1>5, <1>9 DEF WritersIn
  <2>3. \A w : IsLast(table, com_ptr, Oldest(n + 1), a, w) => IsLast(table, com_ptr, Oldest(n), a, w)
    BY <2>2 DEF IsLast
  <2>4. QED
    BY <2>1, <2>2, <2>3 DEF RunsLast
<1>10. QED
  BY <1>8, <1>9

(* As far as the rows reach.                                               *)
LEMMA RunsLastHolds ==
    ASSUME RobTyped, RunsRecur
    PROVE  \A n \in 0 .. used_entry_cnt : RunsLast(n)
<1>1. used_entry_cnt \in Nat
  BY RobAssumption DEF RobTyped
<1> DEFINE Bad == {n \in 0 .. used_entry_cnt : ~RunsLast(n)}
<1>2. SUFFICES ASSUME Bad # {} PROVE FALSE
  OBVIOUS
<1>3. PICK n \in Bad : \A m \in Bad : n <= m
  <2>1. Bad \in SUBSET Nat
    BY <1>1
  <2> HIDE DEF Bad
  <2>2. QED
    BY <1>2, <2>1, LowestExists
<1>4. n \in 0 .. used_entry_cnt /\ ~RunsLast(n)
  BY <1>3
<1>5. RunsLast(0)
  <2>1. Oldest(0) = {}
    <3>1. \A j \in InFlight : ~ (Age(j) < 0)
      <4>1. \A j \in Slots : Age(j) \in Slots
        BY SlotsAndAges, AgeIsFrom DEF RobTyped
      <4>2. \A k \in Slots : ~ (k < 0)
        BY RobAssumption DEF Slots
      <4>3. QED
        BY <4>1, <4>2 DEF InFlight
    <3>2. QED
      BY <3>1 DEF Oldest
  <2>2. QED
    BY <2>1 DEF RunsLast, RunsRecur, WritersIn, IsLast
<1>6. n # 0
  BY <1>4, <1>5
<1>7. n - 1 \in 0 .. used_entry_cnt - 1 /\ n - 1 \in 0 .. used_entry_cnt /\ ~ (n <= n - 1)
      /\ (n - 1) + 1 = n
  BY <1>1, <1>4, <1>6
<1>8. RunsLast(n - 1)
  BY <1>3, <1>7
<1>9. QED
  BY <1>4, <1>7, <1>8, RunsLastStep

(* The same as a formula of the state.                                     *)
RunsFollowWriters == RobTyped => \A n \in 0 .. used_entry_cnt : RunsLast(n)

(* It holds before a step and after it.                                    *)
LEMMA RunsFollow == RunsFollowWriters /\ RunsFollowWriters'
<1>1. RunsFollowWriters
  BY RunsLastHolds, RunsDefined DEF RunsFollowWriters
<1>2. QED
  BY <1>1, PTL

(* Two programs that agree from some row on leave the same registers: what *)
(* is run before the step from row n on is run after it from the start.    *)
LEMMA RunsAgree ==
    ASSUME NEW n \in 0 .. RobDepth, NEW m \in 0 .. RobDepth - n,
           retired' = Runs[n],
           \A k \in 0 .. m - 1 : table'[SlotFrom(com_ptr', k)].uop = table[SlotFrom(com_ptr, k + n)].uop
    PROVE  \A k \in 0 .. m : Runs'[k] = Runs[k + n]
<1>1. RobDepth \in Nat \ {0}
  BY RobAssumption
<1> DEFINE Bad == {k \in 0 .. m : Runs'[k] # Runs[k + n]}
<1>2. SUFFICES ASSUME Bad # {} PROVE FALSE
  OBVIOUS
<1>3. PICK k \in Bad : \A j \in Bad : k <= j
  <2>1. Bad \in SUBSET Nat
    BY <1>1
  <2> HIDE DEF Bad
  <2>2. QED
    BY <1>2, <2>1, LowestExists
<1>4. k \in 0 .. m /\ Runs'[k] # Runs[k + n]
  BY <1>3
<1>5. Runs'[0] = Runs[0 + n]
  <2>1. Runs'[0] = retired' /\ 0 + n = n
    BY <1>1, RunsRecurs DEF RunsRecur
  <2>2. QED
    BY <2>1
<1>6. k # 0
  BY <1>4, <1>5
<1>7. /\ k - 1 \in 0 .. m - 1 /\ k - 1 \in 0 .. m /\ ~ (k <= k - 1) /\ k \in 1 .. RobDepth
      /\ k + n \in 1 .. RobDepth /\ (k + n) - 1 = (k - 1) + n
  BY <1>1, <1>4, <1>6
<1>8. Runs'[k - 1] = Runs[(k - 1) + n]
  BY <1>3, <1>7
<1>9. Runs'[k] = Run(Runs'[k - 1], table'[SlotFrom(com_ptr', k - 1)].uop)
  <2>1. \A j : SlotAt(j)' = SlotFrom(com_ptr', j)
    BY DEF SlotAt, SlotFrom
  <2>2. QED
    BY <1>7, <2>1, RunsRecurs DEF RunsRecur
<1>10. Runs[k + n] = Run(Runs[(k - 1) + n], table[SlotFrom(com_ptr, (k - 1) + n)].uop)
  BY <1>7, RunsRecurs, AgeIsFrom DEF RunsRecur
<1>11. QED
  BY <1>4, <1>7, <1>8, <1>9, <1>10

-----------------------------------------------------------------------------
(* The values.                                                             *)

(* What a row has written back is what the program makes it compute.       *)
WrittenValues ==
    \A i \in InFlight : table[i].wb_fin /\ WbRequired(table[i].uop) => data[table[i].pr] = Value(i)

(* Every operand in a station is the program's.                            *)
Operands ==
    \A i \in Unfinished : rsv[i].ready /\ table[i].uop.src # NoReg =>
        src_data[i] = Operand(table[i].uop, Runs[Age(i)])

(* Operands is OperandsFollowProgram.                                      *)
LEMMA OperandsSay == Operands <=> OperandsFollowProgram
BY DEF Operands, OperandsFollowProgram, Operand

(* A row that finishes puts the value the program gives it on its          *)
(* register, and touches no register of another row.                       *)
LEMMA DataWritten ==
    ASSUME Structure, WrittenValues, Operands,
           NEW finished, finished \subseteq Unfinished, \A i \in finished : rsv[i].ready,
           data' = DataAfter(finished),
           NEW i \in InFlight, WbRequired(table[i].uop), table[i].wb_fin \/ i \in finished
    PROVE  data'[table[i].pr] = Value(i)
<1>1. i \in Held /\ table[i].pr \in Phys /\ finished \subseteq InFlight
  <2>1. i \in Held /\ finished \subseteq InFlight
    BY WritersHold DEF WbRequired, Unfinished
  <2>2. table[i] \in Row
    BY DEF Structure, TypeOK, InFlight
  <2>3. QED
    BY <2>1, <2>2 DEF Held, Row
<1> DEFINE w == {j \in finished : WbRequired(table[j].uop) /\ table[j].pr = table[i].pr}
<1>2. data'[table[i].pr] = IF w = {} THEN data[table[i].pr] ELSE ResultOf(CHOOSE j \in w : TRUE)
  BY <1>1 DEF DataAfter
<1>3. \A j \in w : j = i
  <2>1. SUFFICES ASSUME NEW j \in w PROVE j = i
    OBVIOUS
  <2>2. j \in InFlight /\ WbRequired(table[j].uop) /\ table[j].pr = table[i].pr
    BY <1>1
  <2>3. j \in Held
    BY <2>2, WritersHold DEF WbRequired
  <2>4. QED
    BY <1>1, <2>2, <2>3, HeldApart
<1>4. CASE i \in finished
  <2>1. w = {i}
    BY <1>3, <1>4
  <2>2. data'[table[i].pr] = Result(table[i].uop, src_data[i])
    BY <1>2, <2>1 DEF ResultOf
  <2>3. CASE table[i].uop.src = NoReg
    BY <2>2, <2>3 DEF Value, Result
  <2>4. CASE table[i].uop.src # NoReg
    BY <1>4, <2>2, <2>4 DEF Value, Operands
  <2>5. QED
    BY <2>3, <2>4
<1>5. CASE i \notin finished
  <2>1. w = {}
    BY <1>3, <1>5
  <2>2. QED
    BY <1>2, <1>5, <2>1 DEF WrittenValues
<1>6. QED
  BY <1>4, <1>5

-----------------------------------------------------------------------------
(* A cycle without a squash.                                               *)

(* Each row that stays runs on the registers it ran on before the cycle.   *)
LEMMA FlowRuns ==
    ASSUME Structure,
           NEW finished, NEW g, NEW landed, NEW resolved,
           CycleOf(finished, g, landed, resolved),
           ValuesFlow(finished, Retiring, g, landed)
    PROVE  /\ retired' = Runs[Gone]
           /\ \A i \in InFlight \ Retiring :
                 Runs'[AgeNext(i)] = Runs[Age(i)] /\ Value(i)' = Value(i)
<1>1. /\ RobTyped /\ alloc_ptr = SlotAt(used_entry_cnt) /\ com_ptr \in Slots
      /\ used_entry_cnt \in 0 .. RobDepth /\ RobDepth \in Nat \ {0}
      /\ Gone \in 0 .. used_entry_cnt
  BY StructureTypes, StayingRows, RobAssumption DEF RobTyped
<1>2. /\ com_ptr' \in Slots
      /\ \A i \in InFlight \ Retiring : i \in InFlight' /\ AgeNext(i) = Age(i) - Gone
      /\ \A i \in InFlight : Kept(finished, i)
  BY <1>1, FlowPointers, PlacesAfter, RowsAfter
<1>3. retired' = Runs[Gone]
  BY DEF ValuesFlow, Gone
<1> DEFINE m == used_entry_cnt - Gone
<1>4. Gone \in 0 .. RobDepth /\ m \in 0 .. RobDepth - Gone
  BY <1>1
<1>5. ASSUME NEW k \in 0 .. m - 1
      PROVE  table'[SlotFrom(com_ptr', k)].uop = table[SlotFrom(com_ptr, k + Gone)].uop
  <2> DEFINE j == SlotFrom(com_ptr, k + Gone)
  <2>1. k + Gone \in Slots /\ k + Gone < used_entry_cnt /\ k + Gone >= Gone /\ (k + Gone) - Gone = k
    BY <1>1, <1>4 DEF Slots
  <2>2. j \in Slots /\ AgeFrom(com_ptr, j) = k + Gone
    BY <1>1, <2>1, SlotsAndAges
  <2> HIDE DEF j
  <2>3. j \in InFlight \ Retiring
    <3>1. Age(j) = k + Gone
      BY <2>2, AgeIsFrom
    <3>2. j \in InFlight
      BY <2>1, <2>2, <3>1 DEF InFlight
    <3>3. ~ (Age(j) < Gone)
      BY <1>1, <2>1, <3>1
    <3>4. QED
      BY <3>2, <3>3, StayingRows
  <2>4. AgeFrom(com_ptr', j) = k
    BY <1>2, <2>1, <2>2, <2>3, AgeIsFrom DEF AgeNext
  <2>5. SlotFrom(com_ptr', k) = j
    BY <1>2, <2>2, <2>4, SlotsAndAges
  <2>6. QED
    BY <1>2, <2>3, <2>5 DEF Kept, j
<1>6. \A k \in 0 .. m : Runs'[k] = Runs[k + Gone]
  <2> HIDE DEF m
  <2>1. QED
    BY <1>3, <1>4, <1>5, RunsAgree
<1>7. ASSUME NEW i \in InFlight \ Retiring
      PROVE  Runs'[AgeNext(i)] = Runs[Age(i)]
  <2>1. Age(i) \in 0 .. used_entry_cnt - 1 /\ Age(i) >= Gone /\ AgeNext(i) = Age(i) - Gone
    BY <1>2, StayingRows
  <2>2. AgeNext(i) \in 0 .. m /\ AgeNext(i) + Gone = Age(i)
    BY <1>1, <2>1
  <2>3. QED
    BY <1>6, <2>2
<1>8. ASSUME NEW i \in InFlight \ Retiring
      PROVE  Value(i)' = Value(i)
  <2>1. Value(i)' = Result(table'[i].uop, Operand(table'[i].uop, Runs'[AgeNext(i)]))
    BY Zenon DEF Value, Age, AgeNext, AgeFrom, Result, Operand
  <2>2. table'[i].uop = table[i].uop
    BY <1>2 DEF Kept
  <2>3. QED
    BY <1>7, <2>1, <2>2 DEF Value
<1>9. QED
  BY <1>3, <1>7, <1>8

(* The writebacks of the cycle and the ones before it.                     *)
LEMMA FlowWritten ==
    ASSUME Structure, WrittenValues, Operands,
           NEW finished, NEW g, NEW landed, NEW resolved,
           CycleOf(finished, g, landed, resolved),
           ValuesFlow(finished, Retiring, g, landed)
    PROVE  WrittenValues'
<1>1. SUFFICES ASSUME NEW i \in InFlight', table'[i].wb_fin, WbRequired(table'[i].uop)
               PROVE  data'[table'[i].pr] = Value(i)'
  BY DEF WrittenValues, WbRequired
<1>2. /\ InFlight' = (InFlight \ Retiring) \cup
                        {NewSlot(g, l) : l \in IF landed THEN Valid(g) ELSE {}}
      /\ \A j \in InFlight : Kept(finished, j)
      /\ landed => \A l \in Valid(g) : Landed(finished, g, l)
  BY RowsAfter, PlacesAfter
<1>3. i \in InFlight \ Retiring
  <2>1. \A l \in (IF landed THEN Valid(g) ELSE {}) : landed /\ l \in Valid(g)
    OBVIOUS
  <2>2. \A l \in (IF landed THEN Valid(g) ELSE {}) : ~table'[NewSlot(g, l)].wb_fin
    BY <1>2, <2>1 DEF Landed
  <2>3. QED
    BY <1>1, <1>2, <2>2
<1>4. /\ table'[i].pr = table[i].pr /\ table'[i].uop = table[i].uop
      /\ table[i].wb_fin \/ i \in finished
  BY <1>1, <1>2, <1>3 DEF Kept
<1>5. finished \subseteq Unfinished /\ \A j \in finished : rsv[j].ready
  BY OneBranchResolves
<1>6. data' = DataAfter(finished)
  BY DEF ValuesFlow
<1>7. data'[table[i].pr] = Value(i)
  BY <1>1, <1>3, <1>4, <1>5, <1>6, DataWritten
<1>8. QED
  BY <1>3, <1>4, <1>7, FlowRuns

(* What retires together leaves in the architectural file what the         *)
(* instructions leave one by one.                                          *)
LEMMA FlowArf ==
    ASSUME Structure, WrittenValues, ArfHoldsRetired,
           NEW finished, NEW g, NEW landed, NEW resolved,
           CycleOf(finished, g, landed, resolved),
           ValuesFlow(finished, Retiring, g, landed)
    PROVE  ArfHoldsRetired'
<1>1. SUFFICES ASSUME NEW a \in Arch \ ConstRegs PROVE arf'[a] = Runs[Gone][a]
  BY FlowRuns DEF ArfHoldsRetired
<1>2. RobTyped /\ com_ptr \in Slots /\ Gone \in 0 .. used_entry_cnt
  BY StructureTypes, StayingRows
<1>3. Oldest(Gone) = Retiring /\ Retiring \subseteq InFlight /\ InFlight \subseteq Slots
  BY StayingRows DEF Oldest, InFlight
<1> DEFINE W == WritersIn(table, Retiring, a)
<1>4. ArfWriters(Retiring, a) = W
  BY DEF ArfWriters, WritersIn, Writes, RenameReq, WbRequired
<1>5. arf'[a] = IF W = {} THEN arf[a] ELSE data[table[Youngest(W)].pr]
  BY <1>4 DEF ValuesFlow, ArfAfter
<1>6. RunsLast(Gone)
  BY <1>2, RunsFollow DEF RunsFollowWriters
<1>7. CASE W = {}
  BY <1>3, <1>5, <1>6, <1>7 DEF RunsLast, ArfHoldsRetired
<1>8. CASE W # {}
  <2> DEFINE y == Youngest(W)
  <2>1. /\ y \in W /\ \A j \in W : AgeFrom(com_ptr, j) <= AgeFrom(com_ptr, y)
    <3>1. W \subseteq Slots
      BY <1>3 DEF WritersIn
    <3>2. Youngest(W) = YoungestFrom(com_ptr, W)
      BY MapIsFrom
    <3> HIDE DEF W
    <3>3. QED
      BY <1>2, <1>8, <3>1, <3>2, YoungestExists
  <2> HIDE DEF y
  <2>2. IsLast(table, com_ptr, Oldest(Gone), a, y) /\ y \in Retiring
    BY <1>3, <2>1 DEF IsLast, WritersIn
  <2>3. Runs[Gone][a] = Value(y)
    BY <1>3, <1>6, <2>2 DEF RunsLast
  <2>4. table[y].wb_fin /\ WbRequired(table[y].uop)
    BY <1>2, <2>1, <2>2, RetiringIsPrefix DEF WritersIn, Writes, RenameReq, WbRequired
  <2>5. data[table[y].pr] = Value(y)
    BY <1>3, <2>2, <2>4 DEF WrittenValues
  <2>6. QED
    BY <1>5, <1>8, <2>3, <2>5 DEF y
<1>9. QED
  BY <1>7, <1>8

(* What a cycle writes into each station entry in use.                     *)
LEMMA ValueRows ==
    ASSUME Structure,
           NEW finished, NEW g, NEW landed, NEW resolved,
           CycleOf(finished, g, landed, resolved),
           ValuesFlow(finished, Retiring, g, landed)
    PROVE  /\ \A i \in InFlight : src_data'[i] = Captured(i, finished)
           /\ landed => \A l \in Valid(g) :
                 src_data'[NewSlot(g, l)] = SrcValue(g, l, finished, Retiring)
<1> DEFINE lanes(i) == {l \in Valid(g) : landed /\ FreeSlot(Before(Valid(g), l)) = i}
<1>1. src_data' = [i \in Slots |->
               IF lanes(i) # {} THEN SrcValue(g, CHOOSE l \in lanes(i) : TRUE, finished, Retiring)
               ELSE Captured(i, finished)]
  BY Zenon DEF ValuesFlow
<1>2. /\ RobTyped /\ alloc_ptr = SlotAt(used_entry_cnt)
      /\ landed \in BOOLEAN /\ used_entry_cnt \in Nat
      /\ Valid(g) \in SUBSET Lanes
  BY StructureTypes, RobAssumption, LaneSets DEF Structure, CycleOf, RobTyped
<1>3. ASSUME NEW i \in InFlight
      PROVE  src_data'[i] = Captured(i, finished)
  <2>1. \A l \in Valid(g) : landed => NewSlot(g, l) \notin InFlight
    BY <1>2, FlowPointers
  <2>2. lanes(i) = {}
    BY <2>1 DEF NewSlot
  <2>3. i \in Slots
    BY DEF InFlight
  <2> HIDE DEF lanes
  <2>4. QED
    BY <1>1, <2>2, <2>3
<1>4. ASSUME NEW l \in Valid(g), landed
      PROVE  src_data'[NewSlot(g, l)] = SrcValue(g, l, finished, Retiring)
  <2> DEFINE s == NewSlot(g, l)
  <2>1. s \in Slots
    BY <1>2, <1>4, FlowPointers
  <2>2. ASSUME NEW k \in lanes(s) PROVE k = l
    <3> DEFINE a == Before(Valid(g), k)
               b == Before(Valid(g), l)
    <3>1. k \in Valid(g) /\ NewSlot(g, k) = NewSlot(g, l)
      BY DEF NewSlot
    <3>2. a \in Int /\ b \in Int
      <4>1. \A x \in Valid(g) : Before(Valid(g), x) \in Int
        BY <1>2, LaneCounts
      <4>2. QED
        BY <3>1, <4>1
    <3>3. used_entry_cnt + a = used_entry_cnt + b
      BY <1>2, <1>4, <3>1, FlowPointers
    <3>4. a = b
      <4> HIDE DEF a, b
      <4>1. QED
        BY <1>2, <3>2, <3>3
    <3>5. QED
      BY <1>2, <3>1, <3>4, LaneCounts
  <2>3. l \in lanes(s)
    BY <1>4 DEF NewSlot
  <2> HIDE DEF lanes, s
  <2>4. lanes(s) # {} /\ (CHOOSE k \in lanes(s) : TRUE) = l
    BY <2>2, <2>3
  <2>5. src_data'[s] = SrcValue(g, l, finished, Retiring)
    BY <1>1, <2>1, <2>4
  <2>6. QED
    BY <2>5 DEF s
<1>5. QED
  BY <1>3, <1>4

(* A waiting row that has its operand after the cycle's wakeup has the one *)
(* the program gives it: it was there before, or the row that just         *)
(* finished is the youngest older writer of it.                            *)
LEMMA WokenOperand ==
    ASSUME Structure, Sources, WrittenValues, Operands,
           NEW finished, finished \subseteq Unfinished, \A j \in finished : rsv[j].ready,
           data' = DataAfter(finished),
           NEW i \in Unfinished, i \notin finished, table[i].uop.src # NoReg,
           Woken(i, finished).ready
    PROVE  Captured(i, finished) = Operand(table[i].uop, Runs[Age(i)])
<1> DEFINE src == table[i].uop.src
<1>1. /\ i \in InFlight /\ i \in Slots /\ finished \subseteq InFlight /\ src \in Arch
      /\ Age(i) \in 0 .. used_entry_cnt - 1
  <2>1. i \in InFlight /\ finished \subseteq InFlight
    BY DEF Unfinished
  <2>2. table[i] \in Row /\ i \in Slots
    BY <2>1 DEF Structure, TypeOK, InFlight
  <2>3. table[i].uop \in Uop
    BY <2>2, CoreAssumption DEF Row, NoUop, Uop
  <2>4. src \in Arch \cup {NoReg}
    BY <2>3 DEF Uop
  <2>5. QED
    BY <2>1, <2>2, <2>4, StayingRows
<1>2. CASE rsv[i].ready
  BY <1>2 DEF Captured, Operands
<1>3. CASE ~rsv[i].ready
  <2>1. rsv[i].pr \in Written(finished)
    BY <1>3 DEF Woken
  <2>2. Captured(i, finished) = data'[rsv[i].pr]
    BY <1>3, <2>1 DEF Captured
  <2>3. PICK w \in Older(i) : /\ IsLast(table, com_ptr, Older(i), src, w)
                              /\ rsv[i].pr = table[w].pr
    BY <1>3 DEF Sources, Waits
  <2>4. w \in InFlight /\ Writes(table[w].uop, src)
    BY <2>3 DEF IsLast, WritersIn, Older
  <2>5. WbRequired(table[w].uop) /\ w \in Held /\ src \notin ConstRegs
    BY <2>4, WritersHold DEF Writes, RenameReq, WbRequired
  <2>6. w \in finished
    BY <1>1, <2>1, <2>3, <2>5, WrittenByRow
  <2>7. data'[rsv[i].pr] = Value(w)
    BY <2>3, <2>4, <2>5, <2>6, DataWritten
  <2>8. Runs[Age(i)][src] = Value(w)
    <3>1. Older(i) = Oldest(Age(i))
      BY DEF Older, Oldest
    <3>2. RunsLast(Age(i))
      <4>1. RobTyped /\ used_entry_cnt \in Nat /\ Age(i) \in 0 .. used_entry_cnt
        BY <1>1, StructureTypes, RobAssumption DEF RobTyped
      <4>2. QED
        BY <4>1, RunsFollow DEF RunsFollowWriters
    <3>3. QED
      BY <1>1, <2>3, <2>4, <3>1, <3>2 DEF RunsLast
  <2>9. QED
    BY <2>2, <2>5, <2>7, <2>8 DEF Operand
<1>4. QED
  BY <1>2, <1>3

(* After a step, each register before a row holds the result of the        *)
(* youngest older row that writes it, or what has retired.                 *)
LEMMA RunsNext ==
    ASSUME Structure', NEW s \in InFlight', NEW a \in Arch,
           NEW S, S = {j \in InFlight' : AgeNext(j) < AgeNext(s)}
    PROVE  /\ WritersIn(table', S, a) = {} => Runs'[AgeNext(s)][a] = retired'[a]
           /\ \A w \in InFlight' : IsLast(table', com_ptr', S, a, w)
                                      => Runs'[AgeNext(s)][a] = Value(w)'
<1>1. SUFFICES ASSUME NEW n, n = AgeNext(s)
               PROVE  /\ WritersIn(table', S, a) = {} => Runs'[n][a] = retired'[a]
                      /\ \A w \in InFlight' : IsLast(table', com_ptr', S, a, w)
                                                 => Runs'[n][a] = Value(w)'
  OBVIOUS
<1>2. RobTyped' /\ com_ptr' \in Slots /\ used_entry_cnt' \in 0 .. RobDepth
  BY DEF Structure, TypeOK, RobTyped
<1>3. n \in 0 .. used_entry_cnt'
  <2>1. s \in Slots /\ AgeNext(s) < used_entry_cnt'
    BY DEF InFlight, Age, AgeNext, AgeFrom
  <2>2. AgeNext(s) \in Slots
    BY <1>2, <2>1, SlotsAndAges DEF AgeNext
  <2>3. QED
    BY <1>1, <1>2, <2>1, <2>2, RobAssumption DEF Slots
<1>4. RunsLast(n)'
  BY <1>2, <1>3, RunsFollow DEF RunsFollowWriters
<1>5. Oldest(n)' = S
  BY <1>1 DEF Oldest, Age, AgeNext, AgeFrom
<1>6. QED
  BY <1>4, <1>5 DEF RunsLast

(* A lane that lands with its operand has it from the committed file, this *)
(* cycle's commits included, when nothing older in flight writes it, and   *)
(* from the youngest older writer, a writeback of this cycle included,     *)
(* when something does.                                                    *)
LEMMA LaneOperand ==
    ASSUME Structure, RegistersToSpare, MasterMapsYoungest, FinTracksWriteback, Sources,
           WrittenValues, Operands, ArfHoldsRetired,
           NEW finished, NEW g, NEW landed, NEW resolved,
           CycleOf(finished, g, landed, resolved), landed,
           ValuesFlow(finished, Retiring, g, landed),
           NEW l \in Valid(g), g[l].src # NoReg,
           rsv'[NewSlot(g, l)].ready
    PROVE  src_data'[NewSlot(g, l)] = Operand(g[l], Runs'[AgeNext(NewSlot(g, l))])
<1> DEFINE s == NewSlot(g, l)
           src == g[l].src
           T == {j \in InFlight' : AgeNext(j) < AgeNext(NewSlot(g, l))}
           phys == StageRow(Drops(Retiring), Renames(g), l - 1)[src]
<1>1. src \in Arch
  <2>1. g[l] \in Uop
    BY LaneSets DEF CycleOf
  <2>2. QED
    BY <2>1 DEF Uop
<1>2. /\ src_data'[s] = SrcValue(g, l, finished, Retiring)
      /\ rsv'[s] = RenameSrc(g, l, Drops(Retiring), Written(finished))
      /\ table'[s].uop = g[l]
      /\ s \in InFlight'
  <2>1. Landed(finished, g, l)
    BY RowsAfter
  <2>2. s \in InFlight'
    BY PlacesAfter
  <2>3. QED
    BY <2>1, <2>2, ValueRows DEF Landed
<1>3. /\ src_data'[s] = IF phys = NoReg THEN ArfRead(src, Retiring)
                        ELSE IF ReadFin(phys, Written(finished), Marked(g))
                             THEN data'[phys] ELSE 0
      /\ rsv'[s] = IF phys = NoReg THEN Ready
                   ELSE [ready |-> ReadFin(phys, Written(finished), Marked(g)), pr |-> phys]
  <2>1. data' = DataAfter(finished)
    BY DEF ValuesFlow
  <2>2. QED
    BY <1>2, <2>1, Zenon DEF SrcValue, RenameSrc
<1>4. ASSUME NEW U, U = T
      PROVE  U \subseteq InFlight' /\ Reads(table', com_ptr', U, src, phys)
  BY <1>1, <1>4, LaneReads
<1>5. T \subseteq InFlight' /\ Reads(table', com_ptr', T, src, phys)
  <2> HIDE DEF T, phys, src
  <2>1. QED
    BY <1>4
<1>6. ASSUME NEW U, U = T, NEW a, a = src
      PROVE  /\ WritersIn(table', U, a) = {} => Runs'[AgeNext(s)][a] = retired'[a]
             /\ \A w \in InFlight' : IsLast(table', com_ptr', U, a, w)
                                        => Runs'[AgeNext(s)][a] = Value(w)'
  <2>1. Structure'
    BY FlowStructure
  <2>2. U = {j \in InFlight' : AgeNext(j) < AgeNext(s)} /\ a \in Arch
    BY <1>1, <1>6
  <2> HIDE DEF s, T, src
  <2>3. QED
    BY <1>2, <2>1, <2>2, RunsNext
<1>7. /\ WritersIn(table', T, src) = {} => Runs'[AgeNext(s)][src] = retired'[src]
      /\ \A w \in InFlight' : IsLast(table', com_ptr', T, src, w)
                                 => Runs'[AgeNext(s)][src] = Value(w)'
  <2> HIDE DEF T, s, src
  <2>1. QED
    BY <1>6
<1> HIDE DEF T, phys, s
<1>8. CASE src \in ConstRegs
  <2>1. WritersIn(table', T, src) = {}
    BY <1>8 DEF WritersIn, Writes, RenameReq
  <2>2. phys = NoReg
    BY <1>5, <2>1 DEF Reads, IsLast
  <2>3. QED
    BY <1>3, <1>8, <2>2 DEF ArfRead, Operand, s
<1>9. CASE src \notin ConstRegs /\ WritersIn(table', T, src) = {}
  <2>1. phys = NoReg
    BY <1>5, <1>9 DEF Reads, IsLast
  <2>2. src_data'[s] = ArfAfter(Retiring)[src]
    BY <1>3, <1>9, <2>1 DEF ArfRead
  <2>3. arf' = ArfAfter(Retiring)
    BY DEF ValuesFlow
  <2>4. ArfHoldsRetired'
    BY FlowArf
  <2>5. src_data'[s] = retired'[src]
    BY <1>1, <1>9, <2>2, <2>3, <2>4 DEF ArfHoldsRetired
  <2>6. QED
    BY <1>7, <1>9, <2>5 DEF Operand, s
<1>10. CASE src \notin ConstRegs /\ WritersIn(table', T, src) # {}
  <2>1. PICK w \in T : IsLast(table', com_ptr', T, src, w) /\ phys = table'[w].pr
    BY <1>5, <1>10 DEF Reads
  <2>2. w \in InFlight' /\ WbRequired(table'[w].uop)
    BY <1>5, <2>1 DEF IsLast, WritersIn, Writes, RenameReq, WbRequired
  <2>3. Structure' /\ FinTracksWriteback' /\ WrittenValues'
    BY FlowStructure, FlowFin, FlowWritten
  <2>4. phys # NoReg /\ phys \in Phys
    BY <2>1, <2>2, <2>3 DEF Structure, RowsAreWhole, Active, WbRequired, TypeOK, Row, InFlight
  <2>5. ReadFin(phys, Written(finished), Marked(g))
    BY <1>3, <2>4 DEF s
  <2>6. fin'[phys]
    BY <2>4, <2>5, MarkedInCycle DEF ReadFin
  <2>7. table'[w].wb_fin
    BY <2>1, <2>2, <2>3, <2>4, <2>6 DEF FinTracksWriteback
  <2>8. data'[phys] = Value(w)'
    BY <2>1, <2>2, <2>3, <2>7 DEF WrittenValues, WbRequired
  <2>9. src_data'[s] = Runs'[AgeNext(s)][src]
    BY <1>3, <1>7, <2>1, <2>2, <2>4, <2>5, <2>8
  <2>10. QED
    BY <1>10, <2>9 DEF Operand, s
<1>11. QED
  BY <1>8, <1>9, <1>10

(* A cycle without a squash leaves every row that holds its operand, old   *)
(* or just landed, with the one the program gives it.                      *)
LEMMA FlowOperands ==
    ASSUME Structure, RegistersToSpare, MasterMapsYoungest, FinTracksWriteback, Sources,
           WrittenValues, Operands, ArfHoldsRetired,
           NEW finished, NEW g, NEW landed, NEW resolved,
           CycleOf(finished, g, landed, resolved),
           ValuesFlow(finished, Retiring, g, landed)
    PROVE  Operands'
<1>1. SUFFICES ASSUME NEW i \in Unfinished', rsv'[i].ready, table'[i].uop.src # NoReg
               PROVE  src_data'[i] = Operand(table'[i].uop, Runs'[AgeNext(i)])
  BY DEF Operands, Operand, Age, AgeNext, AgeFrom
<1>2. /\ InFlight' = (InFlight \ Retiring) \cup
                        {NewSlot(g, l) : l \in IF landed THEN Valid(g) ELSE {}}
      /\ \A j \in InFlight : Kept(finished, j)
      /\ landed => \A l \in Valid(g) : Landed(finished, g, l)
      /\ i \in InFlight'
  BY RowsAfter, PlacesAfter DEF Unfinished
<1>3. CASE i \in InFlight
  <2>1. /\ i \in Unfinished /\ i \notin finished
        /\ table'[i].uop = table[i].uop /\ rsv'[i] = Woken(i, finished)
    BY <1>2, <1>3 DEF Kept, Unfinished
  <2>2. finished \subseteq Unfinished /\ \A j \in finished : rsv[j].ready
    BY OneBranchResolves
  <2>3. data' = DataAfter(finished)
    BY DEF ValuesFlow
  <2>4. Captured(i, finished) = Operand(table[i].uop, Runs[Age(i)])
    BY <1>1, <2>1, <2>2, <2>3, WokenOperand
  <2>5. src_data'[i] = Captured(i, finished)
    BY <1>3, ValueRows
  <2>6. Runs'[AgeNext(i)] = Runs[Age(i)]
    <3>1. i \notin Retiring
      BY <2>1, StructureTypes, RetiringIsPrefix DEF Unfinished
    <3>2. QED
      BY <1>3, <3>1, FlowRuns
  <2>7. QED
    BY <2>1, <2>4, <2>5, <2>6
<1>4. CASE i \notin InFlight
  <2>1. PICK l \in Valid(g) : landed /\ i = NewSlot(g, l)
    <3>1. \A l \in (IF landed THEN Valid(g) ELSE {}) : landed /\ l \in Valid(g)
      OBVIOUS
    <3>2. QED
      BY <1>2, <1>4, <3>1
  <2>2. table'[i].uop = g[l]
    BY <1>2, <2>1 DEF Landed
  <2>3. src_data'[NewSlot(g, l)] = Operand(g[l], Runs'[AgeNext(NewSlot(g, l))])
    BY <1>1, <2>1, <2>2, LaneOperand
  <2>4. QED
    BY <2>1, <2>2, <2>3
<1>5. QED
  BY <1>3, <1>4

-----------------------------------------------------------------------------
(* A squash.                                                               *)

(* What VMisPred does to the values.                                       *)
ValuesSquash(i, done) ==
    /\ data' = DataAfter(done \cup {i})
    /\ src_data' = [j \in Slots |-> IF Age(j) > Age(i) THEN 0 ELSE Captured(j, done \cup {i})]
    /\ UNCHANGED <<arf, retired>>

(* The rows a squash leaves run on the registers they ran on.              *)
LEMMA SquashRuns ==
    ASSUME Structure, NEW i, NEW done, SquashOf(i, done), ValuesSquash(i, done)
    PROVE  \A j \in InFlight' :
              /\ j \in InFlight /\ Age(j) <= Age(i)
              /\ Runs'[AgeNext(j)] = Runs[Age(j)] /\ Value(j)' = Value(j)
<1>1. /\ TypeOK /\ RobTyped
      /\ com_ptr \in Slots /\ used_entry_cnt \in 0 .. RobDepth /\ RobDepth \in Nat \ {0}
  BY StructureTypes, RobAssumption DEF Structure, RobTyped
<1>2. /\ com_ptr' = com_ptr
      /\ used_entry_cnt' = Age(i) + 1 /\ used_entry_cnt' \in 0 .. RobDepth
      /\ Age(i) \in 0 .. used_entry_cnt - 1
      /\ InFlight' = {j \in InFlight : Age(j) <= Age(i)}
      /\ \A j \in Slots : table'[j].uop = table[j].uop
  BY <1>1, SquashRows
<1>3. /\ retired' = Runs[0]
      /\ 0 \in 0 .. RobDepth /\ RobDepth \in 0 .. RobDepth - 0
  BY <1>1, RunsRecurs DEF ValuesSquash, RunsRecur
<1>4. ASSUME NEW k \in 0 .. RobDepth - 1
      PROVE  table'[SlotFrom(com_ptr', k)].uop = table[SlotFrom(com_ptr, k + 0)].uop
  <2>1. SlotFrom(com_ptr', k) = SlotFrom(com_ptr, k + 0)
    BY <1>2
  <2>2. SlotFrom(com_ptr, k + 0) \in Slots
    <3>1. k \in Slots /\ k + 0 = k
      BY <1>1 DEF Slots
    <3>2. SlotFrom(com_ptr, k) \in Slots
      BY <1>1, <3>1, SlotsAndAges
    <3>3. QED
      BY <3>1, <3>2
  <2>3. QED
    BY <1>2, <2>1, <2>2
<1>5. \A k \in 0 .. RobDepth : Runs'[k] = Runs[k + 0]
  BY <1>3, <1>4, RunsAgree
<1>6. ASSUME NEW j \in InFlight'
      PROVE  /\ j \in InFlight /\ Age(j) <= Age(i) /\ AgeNext(j) = Age(j)
             /\ Runs'[AgeNext(j)] = Runs[Age(j)]
             /\ table'[j].uop = table[j].uop
  <2>1. j \in InFlight /\ Age(j) <= Age(i) /\ j \in Slots /\ Age(j) \in 0 .. used_entry_cnt - 1
    BY <1>2, StayingRows
  <2>2. AgeNext(j) = Age(j)
    BY <1>2, AgeIsFrom DEF AgeNext
  <2>3. Age(j) \in 0 .. RobDepth /\ Age(j) + 0 = Age(j)
    BY <1>1, <2>1
  <2>4. QED
    BY <1>2, <1>5, <2>1, <2>2, <2>3
<1>7. ASSUME NEW j \in InFlight'
      PROVE  Value(j)' = Value(j)
  <2>1. Value(j)' = Result(table'[j].uop, Operand(table'[j].uop, Runs'[AgeNext(j)]))
    BY Zenon DEF Value, Age, AgeNext, AgeFrom, Result, Operand
  <2>2. QED
    BY <1>6, <2>1 DEF Value
<1>8. QED
  BY <1>6, <1>7

(* A squash keeps the values: what it writes back is right, what waits is  *)
(* woken rightly, and nothing retires.                                     *)
LEMMA SquashValues ==
    ASSUME Structure, Sources, WrittenValues, Operands, ArfHoldsRetired,
           NEW i, NEW done, SquashOf(i, done), ValuesSquash(i, done)
    PROVE  WrittenValues' /\ Operands' /\ ArfHoldsRetired'
<1>1. /\ TypeOK /\ RobTyped /\ InFlight \subseteq Slots
  BY StructureTypes DEF Structure
<1>2. ASSUME NEW finished, finished = done \cup {i}
      PROVE  /\ finished \subseteq Unfinished /\ \A j \in finished : rsv[j].ready
             /\ data' = DataAfter(finished)
             /\ \A j \in InFlight' :
                   /\ table'[j].uop = table[j].uop
                   /\ table'[j].pr = table[j].pr
                   /\ table'[j].wb_fin <=> table[j].wb_fin \/ j \in finished
                   /\ j \notin finished => rsv'[j] = Woken(j, finished)
                   /\ src_data'[j] = Captured(j, finished)
  <2>1. finished \subseteq Unfinished /\ \A j \in finished : rsv[j].ready
    BY <1>2 DEF SquashOf, Resolving, Executing
  <2>2. data' = DataAfter(finished)
    BY <1>2 DEF ValuesSquash
  <2>3. ASSUME NEW j \in InFlight'
        PROVE  j \in Slots /\ Age(j) \in Int /\ Age(i) \in Int /\ Age(j) <= Age(i)
    <3>1. j \in InFlight /\ Age(j) <= Age(i) /\ i \in InFlight
      BY <1>1, SquashRuns, SquashRows
    <3>2. QED
      BY <3>1, StayingRows
  <2>4. ASSUME NEW j \in InFlight'
        PROVE  /\ table'[j].uop = table[j].uop
               /\ table'[j].pr = table[j].pr
               /\ table'[j].wb_fin <=> table[j].wb_fin \/ j \in finished
               /\ rsv'[j] = IF j \in finished \/ Age(j) > Age(i) THEN Ready
                            ELSE Woken(j, finished)
    BY <1>1, <1>2, <2>3, SquashRows
  <2>5. ASSUME NEW j \in InFlight'
        PROVE  src_data'[j] = Captured(j, finished)
    <3>1. ~ (Age(j) > Age(i))
      BY <2>3
    <3>2. src_data'[j] = IF Age(j) > Age(i) THEN 0 ELSE Captured(j, finished)
      BY <1>2, <2>3 DEF ValuesSquash
    <3>3. QED
      BY <3>1, <3>2
  <2>6. ASSUME NEW j \in InFlight', j \notin finished
        PROVE  rsv'[j] = Woken(j, finished)
    <3>1. ~ (Age(j) > Age(i))
      BY <2>3
    <3>2. QED
      BY <2>4, <2>6, <3>1
  <2>7. QED
    BY <2>1, <2>2, <2>4, <2>5, <2>6
<1>3. \A j \in InFlight' : /\ j \in InFlight /\ Runs'[AgeNext(j)] = Runs[Age(j)]
                           /\ Value(j)' = Value(j)
  BY SquashRuns
<1>4. PICK finished : finished = done \cup {i}
  OBVIOUS
<1>5. WrittenValues'
  <2>1. SUFFICES ASSUME NEW j \in InFlight', table'[j].wb_fin, WbRequired(table'[j].uop)
                 PROVE  data'[table'[j].pr] = Value(j)'
    BY DEF WrittenValues, WbRequired
  <2>2. /\ table'[j].pr = table[j].pr /\ j \in InFlight /\ WbRequired(table[j].uop)
        /\ table[j].wb_fin \/ j \in finished
    BY <1>2, <1>3, <1>4, <2>1
  <2>3. data'[table[j].pr] = Value(j)
    BY <1>2, <1>4, <2>2, DataWritten
  <2>4. QED
    BY <1>3, <2>2, <2>3
<1>6. Operands'
  <2>1. SUFFICES ASSUME NEW j \in Unfinished', rsv'[j].ready, table'[j].uop.src # NoReg
                 PROVE  src_data'[j] = Operand(table'[j].uop, Runs'[AgeNext(j)])
    BY DEF Operands, Operand, Age, AgeNext, AgeFrom
  <2>2. j \in InFlight' /\ ~table'[j].wb_fin
    BY DEF Unfinished
  <2>3. /\ j \in Unfinished /\ j \notin finished
        /\ table'[j].uop = table[j].uop /\ rsv'[j] = Woken(j, finished)
        /\ src_data'[j] = Captured(j, finished)
    BY <1>2, <1>3, <1>4, <2>2 DEF Unfinished
  <2>4. finished \subseteq Unfinished /\ (\A k \in finished : rsv[k].ready)
        /\ data' = DataAfter(finished)
    BY <1>2, <1>4
  <2>5. table[j].uop.src # NoReg /\ Woken(j, finished).ready
    BY <2>1, <2>3
  <2>6. Captured(j, finished) = Operand(table[j].uop, Runs[Age(j)])
    BY <2>3, <2>4, <2>5, WokenOperand
  <2>7. QED
    BY <1>3, <2>2, <2>3, <2>6
<1>7. ArfHoldsRetired'
  BY DEF ValuesSquash, ArfHoldsRetired
<1>8. QED
  BY <1>5, <1>6, <1>7

-----------------------------------------------------------------------------
(* The values hold in every behavior.                                      *)

(* The values that make each other right.                                  *)
Values == WrittenValues /\ Operands /\ ArfHoldsRetired

(* Every step with values is a step of the core, and a cycle or a squash   *)
(* that moves the values.                                                  *)
LEMMA StepsMoveValues ==
    ASSUME VNext
    PROVE  /\ Next
           /\ \/ \E finished, g, landed, resolved :
                    /\ CycleOf(finished, g, landed, resolved)
                    /\ ValuesFlow(finished, Retiring, g, landed)
              \/ \E i, done : SquashOf(i, done) /\ ValuesSquash(i, done)
<1>1. CASE VCycle
  <2>1. PICK finished \in SUBSET Executing, g \in Groups :
               \E landed \in {FALSE, ReadyToGo(g, Retiring)} :
                  /\ Flow(finished, Retiring, g, landed, 0)
                  /\ ValuesFlow(finished, Retiring, g, landed)
    BY <1>1, Zenon DEF VCycle
  <2>2. PICK landed \in {FALSE, ReadyToGo(g, Retiring)} :
               /\ Flow(finished, Retiring, g, landed, 0)
               /\ ValuesFlow(finished, Retiring, g, landed)
    BY <2>1
  <2>3. CycleOf(finished, g, landed, 0)
    <3>1. landed \in BOOLEAN /\ (landed => ReadyToGo(g, Retiring))
      <4>1. ReadyToGo(g, Retiring) \in BOOLEAN
        BY DEF ReadyToGo
      <4>2. QED
        BY <4>1
    <3>2. QED
      BY <2>1, <2>2, <3>1 DEF CycleOf
  <2>4. Next
    BY <2>2, Zenon DEF Next, Cycle
  <2>5. QED
    BY <2>2, <2>3, <2>4, Zenon
<1>2. CASE VSucPred
  <2>1. PICK i \in Resolving, finished \in SUBSET Executing, g \in Groups :
               /\ Flow(finished \cup {i}, Retiring, g, FALSE, 1)
               /\ ValuesFlow(finished \cup {i}, Retiring, g, FALSE)
    BY <1>2, Zenon DEF VSucPred
  <2>2. CycleOf(finished \cup {i}, g, FALSE, 1)
    BY <2>1 DEF CycleOf
  <2>3. Next
    BY <2>1, Zenon DEF Next, SucPred
  <2>4. QED
    BY <2>1, <2>2, <2>3, Zenon
<1>3. CASE VMisPred
  <2>1. PICK i \in Resolving :
               \E done \in SUBSET {j \in Executing : Age(j) < Age(i)} :
                  Squash(i, done) /\ ValuesSquash(i, done)
    BY <1>3, Zenon DEF VMisPred, ValuesSquash
  <2>2. PICK done \in SUBSET {j \in Executing : Age(j) < Age(i)} :
               Squash(i, done) /\ ValuesSquash(i, done)
    BY <2>1
  <2>3. SquashOf(i, done)
    BY <2>2 DEF SquashOf
  <2>4. Next
    BY <2>2, Zenon DEF Next, MisPred
  <2>5. QED
    BY <2>2, <2>3, <2>4, Zenon
<1>4. QED
  BY <1>1, <1>2, <1>3 DEF VNext

(* A behavior with values is a behavior of the core.                       *)
LEMMA CoreRuns == VSpec => Spec
<1>1. VInit => Init
  BY DEF VInit
<1>2. [VNext]_<<vars, valueVars>> => [Next]_vars
  <2>1. VNext => Next
    BY StepsMoveValues
  <2>2. UNCHANGED <<vars, valueVars>> => UNCHANGED vars
    OBVIOUS
  <2>3. QED
    BY <2>1, <2>2
<1>3. QED
  BY <1>1, <1>2, PTL DEF VSpec, Spec

(* No row is in flight at reset, and both files hold zeros.                *)
LEMMA InitValues ==
    ASSUME VInit
    PROVE  Values
<1>1. InFlight = {} /\ Unfinished = {}
  BY InitStructure DEF VInit, Unfinished
<1>2. ArfHoldsRetired
  BY DEF VInit, ValuesInit, ArfHoldsRetired
<1>3. QED
  BY <1>1, <1>2 DEF Values, WrittenValues, Operands

(* A step that changes nothing keeps them.                                 *)
LEMMA ValuesStutter ==
    ASSUME Structure, Values, UNCHANGED <<vars, valueVars>>
    PROVE  Values'
<1>1. /\ table' = table /\ com_ptr' = com_ptr /\ used_entry_cnt' = used_entry_cnt
      /\ rsv' = rsv /\ arf' = arf /\ data' = data /\ src_data' = src_data /\ retired' = retired
  BY DEF vars, robVars, valueVars
<1>2. Runs' = Runs
  BY <1>1 DEF Runs, SlotAt
<1>3. /\ InFlight' = InFlight /\ Unfinished' = Unfinished
      /\ \A i : Age(i)' = Age(i) /\ Value(i)' = Value(i)
  BY <1>1, <1>2 DEF InFlight, Unfinished, Age, Value
<1>4. WrittenValues'
  BY <1>1, <1>3 DEF Values, WrittenValues
<1>5. Operands'
  BY <1>1, <1>2, <1>3 DEF Values, Operands
<1>6. ArfHoldsRetired'
  BY <1>1 DEF Values, ArfHoldsRetired
<1>7. QED
  BY <1>4, <1>5, <1>6 DEF Values

(* Every step keeps the values.                                            *)
LEMMA ValuesNext ==
    ASSUME RegistersToSpare, Structure, MasterMapsYoungest, FinTracksWriteback, Sources,
           Values, [VNext]_<<vars, valueVars>>
    PROVE  Values'
<1>1. CASE UNCHANGED <<vars, valueVars>>
  BY <1>1, ValuesStutter
<1>2. ASSUME NEW finished, NEW g, NEW landed, NEW resolved,
             CycleOf(finished, g, landed, resolved),
             ValuesFlow(finished, Retiring, g, landed)
      PROVE  Values'
  <2>1. WrittenValues /\ Operands /\ ArfHoldsRetired
    BY DEF Values
  <2>2. WrittenValues'
    BY <1>2, <2>1, FlowWritten
  <2>3. Operands'
    BY <1>2, <2>1, FlowOperands
  <2>4. ArfHoldsRetired'
    BY <1>2, <2>1, FlowArf
  <2>5. QED
    BY <2>2, <2>3, <2>4 DEF Values
<1>3. ASSUME NEW i, NEW done, SquashOf(i, done), ValuesSquash(i, done)
      PROVE  Values'
  <2>1. WrittenValues /\ Operands /\ ArfHoldsRetired
    BY DEF Values
  <2>2. QED
    BY <1>3, <2>1, SquashValues DEF Values
<1>4. QED
  BY <1>1, <1>2, <1>3, StepsMoveValues

(* The core's own invariants, in a behavior with values.                   *)
LEMMA CoreHolds ==
    ASSUME RegistersToSpare
    PROVE  VSpec => [](Structure /\ MasterMapsYoungest /\ FinTracksWriteback /\ Sources)
<1>1. Structure /\ SourcesFollowProgramOrder => Sources
  BY SourcesSay
<1>2. Spec => []FinTracksWriteback
  BY FinHolds
<1>3. Spec => []SourcesFollowProgramOrder
  BY SourcesHold
<1>4. QED
  BY <1>1, <1>2, <1>3, CoreRuns, StructureHolds, MasterMapHolds, PTL

(* OperandsFollowProgram in every behavior of a core with more registers   *)
(* than rows: whichever way a value took to a station - the committed      *)
(* file, a commit or a writeback of the same cycle, a broadcast - it is    *)
(* the one its register has when the older instructions run one by one.    *)
THEOREM OperandsHold ==
    ASSUME RegistersToSpare
    PROVE  VSpec => []OperandsFollowProgram
<1>1. VInit => Values
  BY InitValues
<1>2. Structure /\ MasterMapsYoungest /\ FinTracksWriteback /\ Sources /\ Values
        /\ [VNext]_<<vars, valueVars>> => Values'
  BY ValuesNext
<1>3. Values => OperandsFollowProgram
  BY OperandsSay DEF Values
<1>4. QED
  BY <1>1, <1>2, <1>3, CoreHolds, PTL DEF VSpec

(* ArfHoldsRetired in every behavior of such a core: what retires together *)
(* leaves in the architectural file what the instructions leave one by     *)
(* one.                                                                    *)
THEOREM ArfHolds ==
    ASSUME RegistersToSpare
    PROVE  VSpec => []ArfHoldsRetired
<1>1. VInit => Values
  BY InitValues
<1>2. Structure /\ MasterMapsYoungest /\ FinTracksWriteback /\ Sources /\ Values
        /\ [VNext]_<<vars, valueVars>> => Values'
  BY ValuesNext
<1>3. Values => ArfHoldsRetired
  BY DEF Values
<1>4. QED
  BY <1>1, <1>2, <1>3, CoreHolds, PTL DEF VSpec
=============================================================================
