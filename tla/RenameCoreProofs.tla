-------------------------- MODULE RenameCoreProofs --------------------------
(***************************************************************************)
(* Proofs about RenameCore, for every size of its rings, every width and   *)
(* every set of micro-operations: its rings and types, its maps, and, for  *)
(* a core with more registers than rows, that no wait is lost and that the *)
(* machine runs its program in order.                                      *)
(***************************************************************************)
EXTENDS RenameCore, RobFacts, SequenceTheorems

-----------------------------------------------------------------------------
(* The lanes of a group.                                                   *)

(* The lanes of a group that branch take a register, and those that take   *)
(* one are valid: Decode forces a branch's destination slot active.        *)
LEMMA LaneSets ==
    ASSUME NEW g \in Groups
    PROVE  /\ Valid(g) \in SUBSET Lanes /\ Takers(g) \in SUBSET Lanes
           /\ Branches(g) \in SUBSET Lanes
           /\ Branches(g) \subseteq Takers(g) /\ Takers(g) \subseteq Valid(g)
           /\ \A l \in Valid(g) : g[l] \in Uops
           /\ \A l \in Lanes : g[l] \in Uop
           /\ \A l \in Lanes : g[l].dest # NoReg => l \in Takers(g)
<1>1. NoUop \in Uop
  BY DEF NoUop, Uop
<1>2. \A l \in Lanes : g[l] \in Uops \cup {NoUop}
  BY DEF Groups
<1>3. ASSUME NEW l \in Lanes, g[l].dest # NoReg PROVE l \in Takers(g)
  <2>1. g[l] # NoUop
    BY <1>3 DEF NoUop
  <2>2. QED
    BY <1>3, <2>1 DEF Takers, Valid, Active
<1>4. QED
  BY <1>1, <1>2, <1>3, CoreAssumption DEF Valid, Takers, Branches, Active

(* Lanes of any kind are numbered in order, without gaps: what dispatch's  *)
(* running counts of the lanes before each lane come to.                   *)
LEMMA LaneCounts ==
    ASSUME NEW S \in SUBSET Lanes
    PROVE  /\ IsFiniteSet(S) /\ Cardinality(S) \in 0 .. FeLanes /\ Cardinality(S) \in Nat
           /\ \A x \in Int : Before(S, x) \in 0 .. Cardinality(S)
           /\ \A x \in S : Before(S, x) \in 0 .. Cardinality(S) - 1
           /\ \A x \in S, z \in Int : x < z => Before(S, x) < Before(S, z)
           /\ \A x, z \in Int : x <= z => Before(S, x) <= Before(S, z)
           /\ \A x, z \in S : Before(S, x) = Before(S, z) => x = z
           /\ \A n \in 0 .. Cardinality(S) - 1 : \E x \in S : Before(S, x) = n
           /\ \A x \in Int : Cardinality({y \in S : y >= x}) = Cardinality(S) - Before(S, x)
<1>1. FeLanes \in Nat /\ IsFiniteSet(Lanes) /\ Cardinality(Lanes) = FeLanes
  BY CoreAssumption, RobAssumption, FS_Interval DEF Lanes
<1>2. IsFiniteSet(S) /\ Cardinality(S) <= FeLanes
  BY <1>1, FS_Subset
<1>3. \A x \in S : x \in Int
  BY DEF Lanes
<1>4. /\ Cardinality(S) \in Nat
      /\ \A x \in Int : Before(S, x) \in 0 .. Cardinality(S)
      /\ \A x \in S : Before(S, x) \in 0 .. Cardinality(S) - 1
      /\ \A x \in S, z \in Int : x < z => Before(S, x) < Before(S, z)
      /\ \A x, z \in Int : x <= z => Before(S, x) <= Before(S, z)
      /\ \A n \in 0 .. Cardinality(S) - 1 : \E x \in S : Before(S, x) = n
      /\ \A x \in Int : Cardinality({y \in S : y >= x}) = Cardinality(S) - Before(S, x)
  BY <1>2, <1>3, Numbering DEF Before
<1>5. ASSUME NEW x \in S, NEW z \in S, x # z PROVE Before(S, x) # Before(S, z)
  <2>1. x < z \/ z < x
    BY <1>3, <1>5
  <2>2. QED
    BY <1>3, <1>4, <2>1
<1>6. QED
  BY <1>1, <1>2, <1>4, <1>5

-----------------------------------------------------------------------------
(* A cycle without a squash, as Cycle and SucPred take it.                 *)

CycleOf(finished, g, landed, resolved) ==
    /\ g \in Groups
    /\ landed \in BOOLEAN
    /\ landed => ReadyToGo(g, Retiring) /\ resolved = 0
    /\ \/ resolved = 0 /\ finished \subseteq Executing
       \/ resolved = 1 /\ \E i \in Resolving : i \in finished /\ finished \subseteq Executing \cup {i}
    /\ Flow(finished, Retiring, g, landed, resolved)

(* How many rows land, and where.                                          *)
Took(g, landed) == IF landed THEN Cardinality(Valid(g)) ELSE 0
NewSlot(g, lane) == FreeSlot(Before(Valid(g), lane))

(* The rows after the cycle: those that stay keep their order and place,   *)
(* the lanes land behind them.                                             *)
LEMMA FlowPointers ==
    ASSUME RobTyped, alloc_ptr = SlotAt(used_entry_cnt),
           NEW finished, NEW g, NEW landed, NEW resolved,
           CycleOf(finished, g, landed, resolved)
    PROVE  /\ Took(g, landed) \in 0 .. RobDepth - used_entry_cnt
           /\ com_ptr' \in Slots
           /\ used_entry_cnt' = used_entry_cnt + Took(g, landed) - Gone
           /\ used_entry_cnt' \in 0 .. RobDepth
           /\ (alloc_ptr = SlotAt(used_entry_cnt))' /\ alloc_ptr' \in Slots
           /\ InFlight' = {i \in Slots : Age(i) \in Gone .. used_entry_cnt + Took(g, landed) - 1}
           /\ \A i \in InFlight' : AgeNext(i) = Age(i) - Gone
           /\ \A l \in Valid(g) : landed =>
                 /\ NewSlot(g, l) \in Slots
                 /\ Age(NewSlot(g, l)) = used_entry_cnt + Before(Valid(g), l)
                 /\ NewSlot(g, l) \in InFlight' \ InFlight
           /\ \A i \in InFlight' : i \in InFlight \/ \E l \in Valid(g) : landed /\ i = NewSlot(g, l)
<1> DEFINE took == Took(g, landed)
           used == used_entry_cnt
<1>1. used \in 0 .. RobDepth /\ RobDepth \in Nat \ {0}
  BY RobAssumption DEF RobTyped
<1>2. Valid(g) \in SUBSET Lanes
  BY LaneSets DEF CycleOf
<1>3. took \in 0 .. RobDepth - used
  <2>1. landed => Cardinality(Valid(g)) <= RobDepth - used
    BY DEF CycleOf, ReadyToGo, GroupFits
  <2>2. Cardinality(Valid(g)) \in Nat
    BY <1>2, LaneCounts
  <2>3. QED
    BY <1>1, <2>1, <2>2 DEF Took
<1>4. Moves(took)
  <2>1. RobUpdate(Cardinality(Valid(g)), landed, Gone)
    BY DEF CycleOf, Flow, Gone
  <2>2. QED
    BY <2>1 DEF RobUpdate, Took, Moves
<1> HIDE DEF took
<1>5. /\ com_ptr' \in Slots /\ used' = used + took - Gone /\ used' \in 0 .. RobDepth
      /\ (alloc_ptr = SlotAt(used_entry_cnt))' /\ alloc_ptr' \in Slots
      /\ InFlight' = {i \in Slots : Age(i) \in Gone .. used + took - 1}
      /\ \A i \in InFlight' : AgeNext(i) = Age(i) - Gone
      /\ \A k \in 0 .. took - 1 :
            /\ FreeSlot(k) \in Slots
            /\ Age(FreeSlot(k)) = used + k
            /\ FreeSlot(k) \in InFlight' \ InFlight
      /\ \A i \in InFlight' : i \in InFlight \/ \E k \in 0 .. took - 1 : i = FreeSlot(k)
  BY <1>3, <1>4, RowsMove DEF Moves
<1>6. ASSUME NEW l \in Valid(g), landed
      PROVE  /\ NewSlot(g, l) \in Slots
             /\ Age(NewSlot(g, l)) = used_entry_cnt + Before(Valid(g), l)
             /\ NewSlot(g, l) \in InFlight' \ InFlight
  <2>1. Before(Valid(g), l) \in 0 .. took - 1
    BY <1>2, <1>6, LaneCounts DEF took, Took
  <2>2. QED
    BY <1>5, <2>1 DEF NewSlot
<1>7. ASSUME NEW k \in 0 .. took - 1
      PROVE  \E l \in Valid(g) : landed /\ FreeSlot(k) = NewSlot(g, l)
  <2>1. landed /\ took = Cardinality(Valid(g))
    BY <1>3 DEF took, Took
  <2>2. PICK l \in Valid(g) : Before(Valid(g), l) = k
    BY <1>2, <2>1, LaneCounts
  <2>3. QED
    BY <2>1, <2>2 DEF NewSlot
<1>8. QED
  BY <1>3, <1>5, <1>6, <1>7 DEF took

(* What a cycle writes into each row in use: the writeback's bit and the   *)
(* wakeup, and for a lane that lands its Rob row and its station entry.    *)
LEMMA FlowRows ==
    ASSUME TypeOK, RobTyped, alloc_ptr = SlotAt(used_entry_cnt),
           NEW finished, NEW g, NEW landed, NEW resolved,
           CycleOf(finished, g, landed, resolved)
    PROVE  /\ \A i \in InFlight :
                 /\ table'[i].uop = table[i].uop
                 /\ table'[i].pr = table[i].pr
                 /\ table'[i].tag = table[i].tag
                 /\ table'[i].wb_fin <=> table[i].wb_fin \/ i \in finished
                 /\ rsv'[i] = IF i \in finished THEN Ready ELSE Woken(i, finished)
           /\ \A l \in Valid(g) : landed =>
                 /\ table'[NewSlot(g, l)] = RobRow(g, l)
                 /\ rsv'[NewSlot(g, l)] =
                       RenameSrc(g, l, Drops(Retiring), Written(finished))
<1> DEFINE lanes(i) == {l \in Valid(g) : landed /\ FreeSlot(Before(Valid(g), l)) = i}
<1>1. /\ table' = [i \in Slots |->
               IF lanes(i) # {} THEN RobRow(g, CHOOSE l \in lanes(i) : TRUE)
               ELSE [table[i] EXCEPT !.wb_fin = @ \/ i \in finished]]
      /\ rsv' = [i \in Slots |->
               IF lanes(i) # {}
               THEN RenameSrc(g, CHOOSE l \in lanes(i) : TRUE, Drops(Retiring), Written(finished))
               ELSE IF i \in finished THEN Ready ELSE Woken(i, finished)]
  BY Zenon DEF CycleOf, Flow
<1>2. ASSUME NEW i \in InFlight
      PROVE  /\ table'[i] = [table[i] EXCEPT !.wb_fin = @ \/ i \in finished]
             /\ rsv'[i] = IF i \in finished THEN Ready ELSE Woken(i, finished)
  <2>1. \A l \in Valid(g) : landed => NewSlot(g, l) \notin InFlight
    BY FlowPointers
  <2>2. lanes(i) = {}
    BY <2>1, <1>2 DEF NewSlot
  <2>3. i \in Slots
    BY DEF InFlight
  <2> HIDE DEF lanes
  <2>4. QED
    BY <1>1, <2>2, <2>3
<1>3. ASSUME NEW i \in InFlight
      PROVE  /\ table'[i].uop = table[i].uop
             /\ table'[i].pr = table[i].pr
             /\ table'[i].tag = table[i].tag
             /\ table'[i].wb_fin <=> table[i].wb_fin \/ i \in finished
  <2>1. table[i] \in Row
    BY DEF TypeOK, InFlight
  <2>2. table'[i] = [table[i] EXCEPT !.wb_fin = @ \/ i \in finished]
    BY <1>2
  <2>3. QED
    BY <2>1, <2>2 DEF Row
<1>4. ASSUME NEW l \in Valid(g), landed
      PROVE  /\ table'[NewSlot(g, l)] = RobRow(g, l)
             /\ rsv'[NewSlot(g, l)] =
                   RenameSrc(g, l, Drops(Retiring), Written(finished))
  <2> DEFINE s == NewSlot(g, l)
  <2>1. s \in Slots
    BY <1>4, FlowPointers
  <2>2. lanes(s) = {l}
    <3>1. Valid(g) \in SUBSET Lanes /\ used_entry_cnt \in Nat
      BY LaneSets, RobAssumption DEF CycleOf, RobTyped
    <3>2. ASSUME NEW k \in lanes(s) PROVE k = l
      <4>1. k \in Valid(g) /\ NewSlot(g, k) = NewSlot(g, l)
        BY DEF NewSlot
      <4>2. Before(Valid(g), k) \in Int /\ Before(Valid(g), l) \in Int
        BY <3>1, <4>1, LaneCounts
      <4>3. used_entry_cnt + Before(Valid(g), k) = used_entry_cnt + Before(Valid(g), l)
        BY <1>4, <4>1, FlowPointers
      <4>4. Before(Valid(g), k) = Before(Valid(g), l)
        <5> DEFINE a == Before(Valid(g), k)
                   b == Before(Valid(g), l)
        <5>1. a \in Int /\ b \in Int /\ used_entry_cnt + a = used_entry_cnt + b
          BY <4>2, <4>3
        <5> HIDE DEF a, b
        <5>2. a = b
          BY <3>1, <5>1
        <5>3. QED
          BY <5>2 DEF a, b
      <4>5. QED
        BY <3>1, <4>1, <4>4, LaneCounts
    <3>3. l \in lanes(s)
      BY <1>4 DEF NewSlot
    <3> HIDE DEF lanes
    <3>4. QED
      BY <3>2, <3>3
  <2> HIDE DEF lanes, s
  <2>3. lanes(s) # {} /\ (CHOOSE k \in lanes(s) : TRUE) = l
    BY <2>2
  <2>4. table'[s] = RobRow(g, l)
        /\ rsv'[s] = RenameSrc(g, l, Drops(Retiring), Written(finished))
    BY <1>1, <2>1, <2>3
  <2>5. QED
    BY <2>4 DEF s
<1>5. QED
  BY <1>2, <1>3, <1>4

-----------------------------------------------------------------------------
(* Resources that rows hold in program order.                              *)

(* T is what S becomes when its oldest rows D leave and the lanes NL join. *)
Counted(S, D, g, NL, T) ==
    /\ T \subseteq InFlight'
    /\ Cardinality(T) = Cardinality(S) - Cardinality(D) + Cardinality(NL)
    /\ \A i \in S \ D : Cardinality(FromNext(T, i)) = Cardinality(From(S, i)) + Cardinality(NL)
    /\ \A l \in NL : Cardinality(FromNext(T, NewSlot(g, l))) = Cardinality(NL) - Before(NL, l)

(* In a cycle, rows D older than the rest leave S and the lanes NL join:   *)
(* every row that stays has as many more behind it as lanes joined, and    *)
(* the lanes are counted from the youngest.                                *)
LEMMA FlowCounts ==
    ASSUME RobTyped, alloc_ptr = SlotAt(used_entry_cnt),
           NEW finished, NEW g, NEW landed, NEW resolved,
           CycleOf(finished, g, landed, resolved),
           NEW S, S \subseteq InFlight, NEW D, D \subseteq S,
           \A d \in D, i \in S \ D : Age(d) < Age(i),
           S \ D \subseteq InFlight',
           NEW NL, NL \subseteq Valid(g), landed \/ NL = {},
           NEW T, T = (S \ D) \cup {NewSlot(g, l) : l \in NL}
    PROVE  Counted(S, D, g, NL, T)
<1> DEFINE place(l) == Before(Valid(g), l)
           B == {place(l) : l \in NL}
           w == Took(g, landed)
<1>1. /\ Valid(g) \in SUBSET Lanes /\ NL \in SUBSET Lanes
      /\ IsFiniteSet(NL) /\ Cardinality(NL) \in Nat
  <2>1. Valid(g) \in SUBSET Lanes
    BY LaneSets DEF CycleOf
  <2>2. NL \in SUBSET Lanes
    BY <2>1
  <2>3. QED
    BY <2>1, <2>2, LaneCounts
<1>2. \A k, l \in NL : place(k) >= place(l) <=> k >= l
  <2>1. SUFFICES ASSUME NEW k \in NL, NEW l \in NL PROVE place(k) >= place(l) <=> k >= l
    OBVIOUS
  <2>2. k \in Int /\ l \in Int /\ place(k) \in Nat /\ place(l) \in Nat
    <3>1. k \in Int /\ l \in Int /\ k \in Valid(g) /\ l \in Valid(g)
      BY <1>1 DEF Lanes
    <3>2. Cardinality(Valid(g)) \in Nat
      BY <1>1, LaneCounts
    <3>3. QED
      BY <1>1, <3>1, <3>2, LaneCounts
  <2>3. (k < l => place(k) < place(l)) /\ (l < k => place(l) < place(k))
    BY <1>1, <2>2, LaneCounts
  <2>4. k = l => place(k) = place(l)
    OBVIOUS
  <2> HIDE DEF place
  <2>5. QED
    BY <2>2, <2>3, <2>4
<1>3. \A k, l \in NL : place(k) = place(l) => k = l
  BY <1>1, LaneCounts
<1>4. ASSUME NEW L \in SUBSET NL PROVE Cardinality({place(l) : l \in L}) = Cardinality(L)
  <2> DEFINE f == [l \in L |-> place(l)]
  <2>1. DOMAIN f = L /\ f = [l \in L |-> f[l]] /\ {place(l) : l \in L} = {f[l] : l \in L}
    OBVIOUS
  <2>2. \A k, l \in L : f[k] = f[l] => k = l
    BY <1>3
  <2>3. IsFiniteSet(L)
    BY <1>1, FS_Subset
  <2> HIDE DEF f
  <2>4. QED
    BY <2>1, <2>2, <2>3, ImageCount
<1>5. /\ w \in 0 .. RobDepth - used_entry_cnt /\ Moves(w)
      /\ B \subseteq 0 .. w - 1
  <2>1. w \in 0 .. RobDepth - used_entry_cnt
    BY FlowPointers
  <2>2. RobUpdate(Cardinality(Valid(g)), landed, Gone)
    BY DEF CycleOf, Flow, Gone
  <2>3. Moves(w)
    BY <2>2 DEF RobUpdate, Took, Moves
  <2>4. \A l \in NL : place(l) \in 0 .. w - 1
    BY <1>1, LaneCounts DEF Took
  <2>5. QED
    BY <2>1, <2>3, <2>4
<1>6. T = (S \ D) \cup {FreeSlot(b) : b \in B}
  BY DEF NewSlot
<1> HIDE DEF w
<1>7. CountedOn(S, D, B, T)
  <2> HIDE DEF B
  <2>1. QED
    BY <1>5, <1>6, CountsMove
<1>8. Cardinality(B) = Cardinality(NL)
  BY <1>4
<1>9. ASSUME NEW l \in NL
      PROVE  Cardinality(FromNext(T, NewSlot(g, l))) = Cardinality(NL) - Before(NL, l)
  <2>1. Cardinality(FromNext(T, NewSlot(g, l))) = Cardinality({c \in B : c >= place(l)})
    BY <1>7 DEF CountedOn, NewSlot
  <2>2. {c \in B : c >= place(l)} = {place(k) : k \in {m \in NL : m >= l}}
    BY <1>2
  <2>3. {m \in NL : m >= l} \in SUBSET NL
    OBVIOUS
  <2>4. Cardinality({m \in NL : m >= l}) = Cardinality(NL) - Before(NL, l)
    BY <1>1, LaneCounts DEF Lanes
  <2> HIDE DEF place, B
  <2>5. QED
    BY <1>4, <2>1, <2>2, <2>3, <2>4
<1> HIDE DEF B
<1>10. QED
  BY <1>7, <1>8, <1>9 DEF CountedOn, Counted

-----------------------------------------------------------------------------
(* The pool of physical registers.                                         *)

Back(next, n) == (next - n) % PhyAmount
Ahead(next, n) == (next + n) % PhyAmount

(* Distances in the register ring: going back fewer than all its places is *)
(* one to one, and handing out m registers leaves those behind where they  *)
(* were.                                                                   *)
LEMMA PoolSteps ==
    ASSUME NEW next \in Phys
    PROVE  /\ \A n \in Int : Ahead(next, n) \in Phys /\ Back(next, n) \in Phys
           /\ \A a, b \in 1 .. PhyAmount : Back(next, a) = Back(next, b) => a = b
           /\ \A m \in 0 .. PhyAmount : \A a \in 0 .. PhyAmount - m :
                 Back(Ahead(next, m), a + m) = Back(next, a)
           /\ \A m \in 0 .. PhyAmount : \A b \in 0 .. m :
                 Back(Ahead(next, m), m - b) = Ahead(next, b)
<1>1. \A n \in Int : Ahead(next, n) \in Phys /\ Back(next, n) \in Phys
  BY PrfAssumption DEF Ahead, Back, Phys
<1>2. ASSUME NEW a \in 1 .. PhyAmount, NEW b \in 1 .. PhyAmount, Back(next, a) = Back(next, b)
      PROVE  a = b
  BY <1>2, PrfAssumption DEF Back, Phys
<1>3. ASSUME NEW m \in 0 .. PhyAmount, NEW a \in 0 .. PhyAmount - m
      PROVE  Back(Ahead(next, m), a + m) = Back(next, a)
  BY PrfAssumption DEF Ahead, Back, Phys
<1>4. ASSUME NEW m \in 0 .. PhyAmount, NEW b \in 0 .. m
      PROVE  Back(Ahead(next, m), m - b) = Ahead(next, b)
  BY PrfAssumption DEF Ahead, Back, Phys
<1>5. QED
  BY <1>1, <1>2, <1>3, <1>4

(* A squash to just past the register n places back: Prf's misprediction   *)
(* arithmetic returns n - 1 registers and no more.                         *)
LEMMA PoolSquash ==
    ASSUME NEW next \in Phys, NEW n \in 1 .. PhyAmount
    PROVE  /\ Ahead(Back(next, n), 1) \in Phys
           /\ (next - Ahead(Back(next, n), 1)) % PhyAmount = n - 1
           /\ \A a \in n .. PhyAmount :
                 Back(Ahead(Back(next, n), 1), a - (n - 1)) = Back(next, a)
<1>1. Ahead(Back(next, n), 1) \in Phys
  BY PoolSteps
<1>2. (next - Ahead(Back(next, n), 1)) % PhyAmount = n - 1
  BY PrfAssumption DEF Ahead, Back, Phys
<1>3. ASSUME NEW a \in n .. PhyAmount
      PROVE  Back(Ahead(Back(next, n), 1), a - (n - 1)) = Back(next, a)
  BY PrfAssumption DEF Ahead, Back, Phys
<1>4. QED
  BY <1>1, <1>2, <1>3

-----------------------------------------------------------------------------
(* The stage chain of the rename table.                                    *)

(* What the last of a set of lanes is.                                     *)
LEMMA LastLane ==
    ASSUME NEW S \in SUBSET Lanes, S # {}
    PROVE  Max(S) \in S /\ \A l \in S : l <= Max(S)
<1>1. IsFiniteSet(S) /\ \A l \in S : l \in Int
  BY LaneCounts DEF Lanes
<1>2. PICK x \in S : \A y \in S : y <= x
  BY <1>1, HighestExists
<1>3. \A y \in S : x >= y
  BY <1>1, <1>2
<1>4. Max(S) \in S /\ \A y \in S : Max(S) >= y
  BY <1>3 DEF Max
<1>5. QED
  BY <1>1, <1>4

(* The lanes up to `port` that rename register a.                          *)
Renamers(g, port, a) == {l \in Lanes : l <= port /\ Writes(g[l], a)}

(* A register reads as its last renamer's promise, or as the commit row    *)
(* leaves it.                                                              *)
LEMMA StageReads ==
    ASSUME NEW g \in Groups, NEW drops, NEW port \in 0 .. FeLanes, NEW a \in Arch
    PROVE  LET row == StageRow(drops, Renames(g), port)
           IN  /\ Renamers(g, port, a) = {} => row[a] = Dropped(master_rt, drops)[a]
               /\ Renamers(g, port, a) # {} =>
                     \E l \in Renamers(g, port, a) :
                        /\ \A k \in Renamers(g, port, a) : k <= l
                        /\ l \in Takers(g)
                        /\ row[a] = PrIdx(g, l)
<1> DEFINE ports == {k \in 1 .. port : Renames(g)[k].req /\ Renames(g)[k].arch = a}
<1>1. StageRow(drops, Renames(g), port)[a] =
          IF ports = {} THEN Dropped(master_rt, drops)[a] ELSE Renames(g)[Max(ports)].phys
  BY DEF StageRow
<1>2. FeLanes \in Nat
  BY CoreAssumption, RobAssumption
<1>3. ports = Renamers(g, port, a)
  <2>1. \A k : k \in 1 .. port <=> k \in Lanes /\ k <= port
    BY <1>2 DEF Lanes
  <2>2. \A k \in Lanes : Renames(g)[k].req = RenameReq(g[k]) /\ Renames(g)[k].arch = g[k].dest
    BY DEF Renames
  <2>3. QED
    BY <2>1, <2>2 DEF Renamers, Writes
<1>4. CASE ports # {}
  <2>1. ports \in SUBSET Lanes
    BY <1>3 DEF Renamers
  <2> HIDE DEF ports
  <2>2. Max(ports) \in ports /\ \A l \in ports : l <= Max(ports)
    BY <1>4, <2>1, LastLane
  <2>3. Max(ports) \in Lanes /\ Renames(g)[Max(ports)].phys = PrIdx(g, Max(ports))
    BY <2>1, <2>2 DEF Renames
  <2>4. Max(ports) \in Takers(g)
    BY <1>3, <2>2, <2>3, LaneSets DEF Renamers, Writes, RenameReq
  <2>5. QED
    BY <1>1, <1>3, <1>4, <2>2, <2>3, <2>4
<1>5. QED
  BY <1>1, <1>3, <1>4

(* Every lane is promised a register of the file, also one that takes      *)
(* none.                                                                   *)
LEMMA PromiseTyped ==
    ASSUME next_index \in Phys, NEW g \in Groups, NEW l \in Lanes
    PROVE  PrIdx(g, l) \in Phys
<1>1. Takers(g) \in SUBSET Lanes /\ l \in Int
  BY LaneSets DEF Lanes
<1>2. Before(Takers(g), l) \in Int
  <2>1. Before(Takers(g), l) \in 0 .. Cardinality(Takers(g))
    BY <1>1, LaneCounts
  <2>2. Cardinality(Takers(g)) \in Nat
    BY <1>1, LaneCounts
  <2>3. QED
    BY <2>1, <2>2
<1>3. PrIdx(g, l) = Ahead(next_index, Before(Takers(g), l))
  BY DEF PrIdx, Promised, Ahead
<1>4. QED
  BY <1>2, <1>3, PoolSteps

(* Every row of the rename table's stage chain is a row of registers.      *)
LEMMA StageTyped ==
    ASSUME next_index \in Phys, master_rt \in RtRow, NEW g \in Groups, NEW drops,
           NEW port \in 0 .. FeLanes
    PROVE  /\ StageRow(drops, Renames(g), port) \in RtRow
           /\ StageRow(drops, << >>, 0) \in RtRow
<1>1. Dropped(master_rt, drops) \in RtRow
  BY DEF Dropped, RtRow
<1>2. ASSUME NEW a \in Arch
      PROVE  StageRow(drops, Renames(g), port)[a] \in Phys \cup {NoReg}
  <2>1. Dropped(master_rt, drops)[a] \in Phys \cup {NoReg}
    BY <1>1 DEF RtRow
  <2>2. \A l \in Renamers(g, port, a) : PrIdx(g, l) \in Phys
    BY PromiseTyped DEF Renamers
  <2>3. QED
    BY <2>1, <2>2, StageReads
<1>3. StageRow(drops, Renames(g), port)
        = [a \in Arch |-> StageRow(drops, Renames(g), port)[a]]
  BY DEF StageRow
<1>4. StageRow(drops, << >>, 0) = [a \in Arch |-> Dropped(master_rt, drops)[a]]
  <2>1. 1 .. 0 = {}
    OBVIOUS
  <2>2. QED
    BY <2>1 DEF StageRow
<1>5. StageRow(drops, Renames(g), port) \in RtRow
  BY <1>2, <1>3 DEF RtRow
<1>6. StageRow(drops, << >>, 0) \in RtRow
  BY <1>1, <1>4 DEF RtRow
<1>7. QED
  BY <1>5, <1>6

-----------------------------------------------------------------------------
(* The invariant of the rings.                                             *)

(* The rows in use that hold a register.                                   *)
Held == {i \in InFlight : table[i].pr # NoReg}

(* A row in use holds an instruction, and a register if that takes one.    *)
RowsAreWhole ==
    \A i \in InFlight :
        /\ table[i].uop \in Uops
        /\ table[i].pr # NoReg <=> Active(table[i].uop)

(* The registers out of the pool are those of the rows, in their order.    *)
PoolIsRing ==
    /\ free_entry = PhyAmount - Cardinality(Held)
    /\ \A i \in Held : table[i].pr = Back(next_index, Cardinality(From(Held, i)))

Structure ==
    /\ TypeOK
    /\ alloc_ptr = SlotAt(used_entry_cnt)
    /\ RowsAreWhole
    /\ PoolIsRing
    /\ TagsAreRing

(* What the proofs below use of Structure: typed pointers, and finite sets *)
(* of holders and open branches that fit their rings.                      *)
LEMMA StructureTypes ==
    ASSUME Structure
    PROVE  /\ RobTyped /\ alloc_ptr = SlotAt(used_entry_cnt)
           /\ next_index \in Phys /\ next_tag \in Tags
           /\ IsFiniteSet(Held) /\ Cardinality(Held) \in 0 .. PhyAmount
           /\ IsFiniteSet(Opened) /\ Cardinality(Opened) \in 0 .. SpTagLen - 1
           /\ PhyAmount \in Nat \ {0} /\ SpTagLen \in Nat \ {0}
           /\ InFlight \subseteq Slots /\ Held \subseteq InFlight
           /\ Unfinished \subseteq InFlight /\ Opened \subseteq Unfinished
<1>1. RobTyped /\ alloc_ptr = SlotAt(used_entry_cnt) /\ next_index \in Phys /\ next_tag \in Tags
  BY DEF Structure, TypeOK, RobTyped
<1>2. InFlight \subseteq Slots /\ Held \subseteq InFlight
      /\ Unfinished \subseteq InFlight /\ Opened \subseteq Unfinished
  BY DEF InFlight, Held, Opened, Unfinished
<1>3. /\ IsFiniteSet(Held) /\ Cardinality(Held) \in Nat
      /\ IsFiniteSet(Opened) /\ Cardinality(Opened) \in Nat
  BY <1>1, <1>2, FromCounts, RobAssumption, FS_CardinalityType
<1>4. PhyAmount \in Nat \ {0} /\ SpTagLen \in Nat \ {0}
  BY PrfAssumption, SpTagLenAssumption
<1>5. free_entry \in 0 .. PhyAmount /\ free_entry = PhyAmount - Cardinality(Held)
  BY DEF Structure, TypeOK, PoolIsRing
<1>6. free_tag \in 0 .. SpTagLen - 1 /\ free_tag = SpTagLen - 1 - Cardinality(Opened)
  BY DEF Structure, TypeOK, TagsAreRing
<1>7. Cardinality(Held) \in 0 .. PhyAmount
  BY <1>3, <1>4, <1>5
<1>8. Cardinality(Opened) \in 0 .. SpTagLen - 1
  BY <1>3, <1>4, <1>6
<1>9. QED
  BY <1>1, <1>2, <1>3, <1>4, <1>7, <1>8

(* The branch that resolves is the oldest open one, and no other finishes  *)
(* beside it: the branch station answers in order.                         *)
LEMMA OneBranchResolves ==
    ASSUME NEW finished, NEW g, NEW landed, NEW resolved,
           CycleOf(finished, g, landed, resolved)
    PROVE  /\ finished \subseteq Unfinished
           /\ \A i \in finished : rsv[i].ready
           /\ resolved \in {0, 1}
           /\ Cardinality(finished \cap Opened) = resolved
           /\ \A d \in finished \cap Opened, i \in Opened : Age(d) <= Age(i)
<1>1. CASE resolved = 0 /\ finished \subseteq Executing
  <2>1. finished \cap Opened = {}
    BY <1>1 DEF Executing, Opened, Unfinished
  <2>2. QED
    BY <1>1, <2>1, FS_EmptySet DEF Executing
<1>2. CASE resolved = 1 /\ \E i \in Resolving : i \in finished /\ finished \subseteq Executing \cup {i}
  <2>1. PICK i \in Resolving : i \in finished /\ finished \subseteq Executing \cup {i}
    BY <1>2
  <2>2. finished \cap Opened = {i}
    BY <2>1 DEF Executing, Opened, Unfinished, Resolving
  <2>3. \A j \in Opened : Age(i) <= Age(j)
    BY <2>1 DEF Opened, Unfinished, Resolving
  <2>4. QED
    BY <1>2, <2>1, <2>2, <2>3, FS_Singleton DEF Executing, Resolving
<1>3. QED
  BY <1>1, <1>2 DEF CycleOf

(* The rows whose registers go back to the pool this cycle.                *)
RetiringHeld == {i \in Held : Age(i) < Gone}

(* The rows in use, the holders of registers and the open branches after a *)
(* cycle.                                                                  *)
LEMMA FlowSets ==
    ASSUME Structure,
           NEW finished, NEW g, NEW landed, NEW resolved,
           CycleOf(finished, g, landed, resolved)
    PROVE  /\ Held' = (Held \ RetiringHeld)
                          \cup {NewSlot(g, l) : l \in IF landed THEN Takers(g) ELSE {}}
           /\ Held \ RetiringHeld \subseteq InFlight'
           /\ Returned(Retiring) = Cardinality(RetiringHeld)
           /\ Opened' = (Opened \ finished)
                          \cup {NewSlot(g, l) : l \in IF landed THEN Branches(g) ELSE {}}
           /\ Opened \ finished \subseteq InFlight'
           /\ \A i \in InFlight' \cap InFlight : Age(i) >= Gone
           /\ \A i \in Unfinished : i \in InFlight'
           /\ RowsAreWhole'
<1> DEFINE done == RetiringHeld
           lands(S) == IF landed THEN S ELSE {}
           used == used_entry_cnt
<1>1. /\ RobTyped /\ alloc_ptr = SlotAt(used) /\ TypeOK /\ RowsAreWhole
      /\ next_index \in Phys
  BY StructureTypes DEF Structure
<1>2. /\ used \in 0 .. RobDepth /\ RobDepth \in Nat \ {0} /\ Gone \in 0 .. used
      /\ com_ptr \in Slots
      /\ Retiring = {i \in Slots : Age(i) < Gone}
      /\ \A i \in Retiring : table[i].wb_fin
  BY <1>1, RobAssumption, RetiringIsPrefix DEF RobTyped
<1>3. Took(g, landed) \in 0 .. RobDepth - used
      /\ InFlight' = {i \in Slots : Age(i) \in Gone .. used + Took(g, landed) - 1}
  BY <1>1, FlowPointers
<1>4. \A i \in InFlight : i \in Slots /\ Age(i) \in 0 .. used - 1
  BY <1>2, SlotsAndAges, AgeIsFrom DEF InFlight, Slots
<1>5. ASSUME NEW i \in InFlight PROVE i \in InFlight' <=> Age(i) >= Gone
  <2>1. Age(i) \in 0 .. used - 1 /\ i \in Slots
    BY <1>4
  <2> HIDE DEF used
  <2>2. QED
    BY <1>2, <1>3, <2>1
<1>6. ASSUME NEW i \in Unfinished PROVE Age(i) >= Gone
  <2>1. i \in InFlight /\ ~table[i].wb_fin
    BY DEF Unfinished
  <2>2. i \notin Retiring
    BY <1>2, <2>1
  <2>3. QED
    BY <1>2, <1>4, <2>1, <2>2
<1>7. /\ \A i \in InFlight :
            /\ table'[i].uop = table[i].uop
            /\ table'[i].pr = table[i].pr
            /\ table'[i].wb_fin <=> table[i].wb_fin \/ i \in finished
      /\ \A l \in Valid(g) : landed => table'[NewSlot(g, l)] = RobRow(g, l)
  BY <1>1, FlowRows
<1>8. /\ \A l \in Valid(g) : landed => NewSlot(g, l) \in InFlight' \ InFlight
      /\ \A i \in InFlight' : i \in InFlight \/ \E l \in Valid(g) : landed /\ i = NewSlot(g, l)
  BY <1>1, FlowPointers
<1>9. /\ g \in Groups /\ Valid(g) \in SUBSET Lanes /\ Takers(g) \subseteq Valid(g)
      /\ Branches(g) \subseteq Valid(g)
      /\ \A l \in Valid(g) : g[l] \in Uops
  BY LaneSets DEF CycleOf
<1>10. ASSUME NEW l \in Valid(g), landed
       PROVE  LET row == table'[NewSlot(g, l)]
              IN  /\ row.uop = g[l] /\ ~row.wb_fin
                  /\ row.pr # NoReg <=> l \in Takers(g)
                  /\ row.pr # NoReg <=> Active(row.uop)
                  /\ row.uop.is_branch <=> l \in Branches(g)
  <2>1. table'[NewSlot(g, l)] = RobRow(g, l)
    BY <1>7, <1>10
  <2>2. PrIdx(g, l) # NoReg
    <3>1. PrIdx(g, l) \in Phys
      BY <1>1, <1>9, PromiseTyped
    <3>2. QED
      BY <3>1, PrfAssumption DEF Phys, NoReg
  <2>3. RobRow(g, l).uop = g[l] /\ ~RobRow(g, l).wb_fin
        /\ RobRow(g, l).pr = IF l \in Takers(g) THEN PrIdx(g, l) ELSE NoReg
    BY DEF RobRow
  <2>4. l \in Takers(g) <=> Active(g[l])
    BY DEF Takers
  <2>5. l \in Branches(g) <=> g[l].is_branch
    BY DEF Branches
  <2>6. QED
    BY <2>1, <2>2, <2>3, <2>4, <2>5
<1>11. Held' = (Held \ done) \cup {NewSlot(g, l) : l \in lands(Takers(g))}
  <2>1. Held' = {i \in InFlight' : table'[i].pr # NoReg}
    BY DEF Held
  <2>2. ASSUME NEW i \in InFlight
        PROVE  i \in Held' <=> i \in Held \ done
    <3>1. Age(i) \in 0 .. used - 1 /\ i \in Slots
      BY <1>4
    <3>2. Age(i) >= Gone <=> ~ (Age(i) < Gone)
      BY <1>2, <3>1
    <3>3. QED
      BY <1>5, <1>7, <2>1, <3>2 DEF Held, RetiringHeld
  <2>3. ASSUME NEW i, i \notin InFlight
        PROVE  i \in Held' <=> \E l \in lands(Takers(g)) : i = NewSlot(g, l)
    <3>1. i \in InFlight' <=> \E l \in Valid(g) : landed /\ i = NewSlot(g, l)
      BY <1>8, <2>3
    <3>2. QED
      BY <1>9, <1>10, <2>1, <3>1
  <2>4. \A l \in lands(Takers(g)) : NewSlot(g, l) \notin InFlight
    BY <1>8, <1>9
  <2>5. Held \subseteq InFlight
    BY DEF Held
  <2>6. QED
    BY <2>2, <2>3, <2>4, <2>5
<1>12. Opened' = (Opened \ finished) \cup {NewSlot(g, l) : l \in lands(Branches(g))}
  <2>1. Opened' = {i \in InFlight' : ~table'[i].wb_fin /\ table'[i].uop.is_branch}
    BY DEF Opened, Unfinished
  <2>2. ASSUME NEW i \in InFlight
        PROVE  i \in Opened' <=> i \in Opened \ finished
    BY <1>5, <1>6, <1>7, <2>1 DEF Opened, Unfinished
  <2>3. ASSUME NEW i, i \notin InFlight
        PROVE  i \in Opened' <=> \E l \in lands(Branches(g)) : i = NewSlot(g, l)
    <3>1. i \in InFlight' <=> \E l \in Valid(g) : landed /\ i = NewSlot(g, l)
      BY <1>8, <2>3
    <3>2. QED
      BY <1>9, <1>10, <2>1, <3>1
  <2>4. \A l \in lands(Branches(g)) : NewSlot(g, l) \notin InFlight
    BY <1>8, <1>9
  <2>5. Opened \subseteq InFlight
    BY DEF Opened, Unfinished
  <2>6. QED
    BY <2>2, <2>3, <2>4, <2>5
<1>13. Returned(Retiring) = Cardinality(done)
  <2>1. \A i \in Retiring : i \in InFlight
    BY <1>2, SlotsAndAges, AgeIsFrom DEF InFlight, Slots
  <2>2. done = {i \in Retiring : Active(table[i].uop)}
    BY <1>1, <1>2, <1>4, <2>1 DEF Held, RetiringHeld, RowsAreWhole
  <2>3. QED
    BY <2>2, Zenon DEF Returned
<1>14. RowsAreWhole'
  <2>1. SUFFICES ASSUME NEW i \in InFlight'
                 PROVE  /\ table'[i].uop \in Uops
                        /\ table'[i].pr # NoReg <=> Active(table'[i].uop)
    BY DEF RowsAreWhole
  <2>2. CASE i \in InFlight
    BY <1>1, <1>7, <2>2 DEF RowsAreWhole
  <2>3. CASE i \notin InFlight
    BY <1>8, <1>9, <1>10, <2>3
  <2>4. QED
    BY <2>2, <2>3
<1>15. /\ Held \ done \subseteq InFlight' /\ Opened \ finished \subseteq InFlight'
       /\ \A i \in InFlight' \cap InFlight : Age(i) >= Gone
       /\ \A i \in Unfinished : i \in InFlight'
  <2>1. \A i \in Held \ done : Age(i) >= Gone
    BY <1>2, <1>4 DEF Held, RetiringHeld
  <2>2. QED
    BY <1>5, <1>6, <2>1 DEF Held, Opened, Unfinished
<1>16. QED
  BY <1>11, <1>12, <1>13, <1>14, <1>15

(* A cycle keeps the pool a ring, whatever retires, lands or stalls in it: *)
(* no register is lost and none is freed twice.                            *)
LEMMA FlowPool ==
    ASSUME Structure,
           NEW finished, NEW g, NEW landed, NEW resolved,
           CycleOf(finished, g, landed, resolved)
    PROVE  /\ PoolIsRing'
           /\ free_entry' \in 0 .. PhyAmount /\ next_index' \in Phys
<1> DEFINE done == RetiringHeld
           NL == IF landed THEN Takers(g) ELSE {}
           n == Cardinality(NL)
<1>1. /\ RobTyped /\ alloc_ptr = SlotAt(used_entry_cnt)
      /\ next_index \in Phys /\ PhyAmount \in Nat \ {0}
      /\ IsFiniteSet(Held) /\ Cardinality(Held) \in 0 .. PhyAmount
      /\ InFlight \subseteq Slots /\ Held \subseteq InFlight
      /\ PoolIsRing /\ TypeOK
  BY StructureTypes DEF Structure
<1>2. /\ Held' = (Held \ done) \cup {NewSlot(g, l) : l \in NL}
      /\ Held \ done \subseteq InFlight'
      /\ Returned(Retiring) = Cardinality(done)
  BY FlowSets
<1>3. /\ NL \subseteq Valid(g) /\ (landed \/ NL = {}) /\ NL \in SUBSET Lanes
      /\ Takers(g) \in SUBSET Lanes
  BY LaneSets DEF CycleOf
<1>4. n \in Nat /\ IsFiniteSet(NL)
  BY <1>3, LaneCounts
<1>5. Cardinality(done) \in 0 .. Cardinality(Held)
  <2>1. done \in SUBSET Held
    BY DEF RetiringHeld
  <2>2. IsFiniteSet(done) /\ Cardinality(done) <= Cardinality(Held)
    BY <1>1, <2>1, FS_Subset
  <2>3. QED
    BY <1>1, <2>2, FS_CardinalityType
<1>6. /\ free_entry = PhyAmount - Cardinality(Held)
      /\ \A i \in Held : table[i].pr = Back(next_index, Cardinality(From(Held, i)))
  BY <1>1 DEF PoolIsRing
<1>7. /\ free_entry' = free_entry + Cardinality(done) - n
      /\ next_index' = Ahead(next_index, n)
  <2>1. PrfUpdateMeta(Cardinality(Takers(g)), landed, Returned(Retiring))
    BY Zenon DEF CycleOf, Flow
  <2>2. n = IF landed THEN Cardinality(Takers(g)) ELSE 0
    BY FS_EmptySet DEF CycleOf
  <2>3. QED
    BY <1>2, <2>1, <2>2 DEF PrfUpdateMeta, Ahead
<1>8. n <= free_entry + Cardinality(done)
  <2>1. CASE landed
    <3>1. ~PrfOverUse(Cardinality(Takers(g)), Returned(Retiring))
      BY <2>1 DEF CycleOf, ReadyToGo
    <3>2. n = Cardinality(Takers(g)) /\ n \in Nat
      BY <2>1, <1>4
    <3>3. free_entry \in Int /\ Cardinality(done) \in Int
      BY <1>1, <1>5, <1>6
    <3> HIDE DEF n, done
    <3>4. QED
      BY <1>2, <3>1, <3>2, <3>3 DEF PrfOverUse
  <2>2. CASE ~landed
    BY <2>2, <1>1, <1>4, <1>5, <1>6, FS_EmptySet
  <2>3. QED
    BY <2>1, <2>2 DEF CycleOf
<1>9. \A d \in done, i \in Held \ done : Age(d) < Age(i)
  <2>1. Gone \in Int /\ \A i \in Held : Age(i) \in Int
    <3>1. Gone \in 0 .. used_entry_cnt /\ com_ptr \in Slots
      BY <1>1, RetiringIsPrefix DEF RobTyped
    <3>2. \A i \in Held : Age(i) \in Slots
      BY <1>1, <3>1, SlotsAndAges, AgeIsFrom
    <3>3. QED
      BY <3>1, <3>2 DEF Slots
  <2>2. QED
    BY <2>1 DEF RetiringHeld
<1>10. /\ Held' \subseteq InFlight'
       /\ Cardinality(Held') = Cardinality(Held) - Cardinality(done) + n
       /\ \A i \in Held \ done : Cardinality(FromNext(Held', i)) = Cardinality(From(Held, i)) + n
       /\ \A l \in NL : Cardinality(FromNext(Held', NewSlot(g, l))) = n - Before(NL, l)
  <2>1. done \subseteq Held
    BY DEF RetiringHeld
  <2> HIDE DEF done, NL
  <2>2. ASSUME NEW S, S = Held, NEW D, D = done, NEW T, T = Held'
        PROVE  Counted(S, D, g, NL, T)
    <3>1. S \subseteq InFlight /\ D \subseteq S /\ S \ D \subseteq InFlight'
      BY <1>1, <1>2, <2>1, <2>2
    <3>2. \A d \in D, i \in S \ D : Age(d) < Age(i)
      BY <1>9, <2>2
    <3>3. T = (S \ D) \cup {NewSlot(g, l) : l \in NL}
      BY <1>2, <2>2
    <3>4. NL \subseteq Valid(g) /\ (landed \/ NL = {})
      BY <1>3
    <3>5. RobTyped /\ alloc_ptr = SlotAt(used_entry_cnt)
      BY <1>1
    <3>6. landed \in BOOLEAN
      BY DEF CycleOf
    <3>7. QED
      BY <3>1, <3>2, <3>3, <3>4, <3>5, <3>6, FlowCounts
  <2>3. Counted(Held, done, g, NL, Held')
    BY <2>2
  <2>4. QED
    BY <2>3 DEF Counted
<1>11. \A i : From(Held, i)' = FromNext(Held', i)
  BY DEF From, FromNext, AgeNext, Age, AgeFrom
<1>12. /\ \A i \in InFlight : table'[i].pr = table[i].pr
       /\ \A l \in Valid(g) : landed => table'[NewSlot(g, l)] = RobRow(g, l)
  BY <1>1, FlowRows
<1> HIDE DEF done, n
<1>13. free_entry' = PhyAmount - Cardinality(Held') /\ free_entry' \in 0 .. PhyAmount
  BY <1>1, <1>4, <1>5, <1>6, <1>7, <1>8, <1>10
<1>14. n \in 0 .. PhyAmount /\ next_index' \in Phys
  BY <1>1, <1>4, <1>5, <1>6, <1>7, <1>8, PoolSteps
<1>15. ASSUME NEW i \in Held \ done
       PROVE  table'[i].pr = Back(next_index', Cardinality(FromNext(Held', i)))
  <2> DEFINE a == Cardinality(From(Held, i))
  <2>1. Cardinality(FromNext(Held', i)) = a + n /\ table[i].pr = Back(next_index, a)
    BY <1>6, <1>10
  <2>2. a \in 1 .. Cardinality(Held)
    BY <1>1, FromCounts
  <2>3. a + n <= PhyAmount
    <3>1. a <= Cardinality(Held) - Cardinality(done)
      <4>1. From(Held, i) \in SUBSET (Held \ done)
        <5>1. \A j \in Held : Age(j) \in Int
          BY <1>1, SlotsAndAges, AgeIsFrom DEF RobTyped, Slots
        <5>2. QED
          BY <1>9, <5>1 DEF From
      <4>2. IsFiniteSet(Held \ done) /\ Cardinality(Held \ done) = Cardinality(Held) - Cardinality(done)
        <5>1. Held \cap done = done
          BY DEF done, RetiringHeld
        <5>2. QED
          BY <1>1, <5>1, FS_Difference
      <4>3. QED
        BY <4>1, <4>2, FS_Subset
    <3> HIDE DEF a
    <3>2. QED
      BY <1>1, <1>4, <1>5, <1>6, <1>8, <2>2, <3>1
  <2>4. table'[i].pr = table[i].pr
    BY <1>1, <1>12
  <2> HIDE DEF a
  <2>5. a \in 0 .. PhyAmount - n
    BY <1>1, <1>14, <2>2, <2>3
  <2>6. Back(Ahead(next_index, n), a + n) = Back(next_index, a)
    BY <1>1, <1>14, <2>5, PoolSteps
  <2>7. QED
    BY <1>7, <2>1, <2>4, <2>6
<1>16. ASSUME NEW l \in NL
       PROVE  table'[NewSlot(g, l)].pr
                 = Back(next_index', Cardinality(FromNext(Held', NewSlot(g, l))))
  <2> DEFINE b == Before(NL, l)
  <2>1. NL = Takers(g) /\ landed /\ l \in Takers(g) /\ l \in Valid(g)
    BY <1>3
  <2>2. table'[NewSlot(g, l)].pr = PrIdx(g, l)
    <3>1. table'[NewSlot(g, l)] = RobRow(g, l)
      BY <1>12, <2>1
    <3>2. RobRow(g, l).pr = IF l \in Takers(g) THEN PrIdx(g, l) ELSE NoReg
      BY DEF RobRow
    <3>3. QED
      BY <2>1, <3>1, <3>2
  <2>3. PrIdx(g, l) = Ahead(next_index, b)
    BY <2>1 DEF PrIdx, Promised, Ahead
  <2>4. b \in 0 .. n
    <3>1. l \in Int
      BY <1>3 DEF Lanes
    <3> HIDE DEF NL
    <3>2. QED
      BY <1>3, <3>1, LaneCounts DEF n
  <2> HIDE DEF b, NL
  <2>5. Back(Ahead(next_index, n), n - b) = Ahead(next_index, b)
    BY <1>1, <1>14, <2>4, PoolSteps
  <2>6. Cardinality(FromNext(Held', NewSlot(g, l))) = n - b
    BY <1>10 DEF b
  <2>7. QED
    BY <1>7, <2>2, <2>3, <2>5, <2>6
<1>17. \A i \in Held' : table'[i].pr = Back(next_index', Cardinality(FromNext(Held', i)))
  BY <1>2, <1>15, <1>16
<1>18. PoolIsRing'
  BY <1>11, <1>13, <1>17 DEF PoolIsRing, Back
<1>19. QED
  BY <1>13, <1>14, <1>18

(* A cycle keeps the tags a ring: the oldest branch returns its tag, the   *)
(* lanes that land take theirs at next_tag.                                *)
LEMMA FlowTags ==
    ASSUME Structure,
           NEW finished, NEW g, NEW landed, NEW resolved,
           CycleOf(finished, g, landed, resolved)
    PROVE  /\ TagsAreRing'
           /\ free_tag' \in 0 .. SpTagLen - 1 /\ next_tag' \in Tags
<1> DEFINE done == finished \cap Opened
           NL == IF landed THEN Branches(g) ELSE {}
           n == Cardinality(NL)
<1>1. /\ RobTyped /\ alloc_ptr = SlotAt(used_entry_cnt)
      /\ next_tag \in Tags /\ SpTagLen \in Nat \ {0}
      /\ IsFiniteSet(Opened) /\ Cardinality(Opened) \in 0 .. SpTagLen - 1
      /\ InFlight \subseteq Slots /\ Opened \subseteq InFlight
      /\ TagsAreRing /\ TypeOK
  BY StructureTypes DEF Structure
<1>2. /\ Opened' = (Opened \ done) \cup {NewSlot(g, l) : l \in NL}
      /\ Opened \ done \subseteq InFlight'
  <2>1. Opened \ finished = Opened \ done
    OBVIOUS
  <2>2. QED
    BY <2>1, FlowSets
<1>3. /\ NL \subseteq Valid(g) /\ (landed \/ NL = {}) /\ NL \in SUBSET Lanes
      /\ Branches(g) \in SUBSET Lanes /\ landed \in BOOLEAN
  BY LaneSets DEF CycleOf
<1>4. n \in Nat /\ IsFiniteSet(NL) /\ (landed => n = Cardinality(Branches(g)))
      /\ (~landed => n = 0)
  BY <1>3, LaneCounts, FS_EmptySet
<1>5. resolved \in {0, 1} /\ Cardinality(done) = resolved
      /\ \A d \in done, i \in Opened : Age(d) <= Age(i)
  BY OneBranchResolves
<1>6. /\ free_tag = SpTagLen - 1 - Cardinality(Opened)
      /\ \A i \in Opened : table[i].tag = {RotateRight(next_tag, Cardinality(From(Opened, i)))}
  BY <1>1 DEF TagsAreRing
<1>7. /\ free_tag' = free_tag + resolved - n
      /\ next_tag' = RotateLeft(next_tag, n)
  <2>1. UpdateMeta(Cardinality(Branches(g)), landed, resolved)
    BY Zenon DEF CycleOf, Flow
  <2>2. n = IF landed THEN Cardinality(Branches(g)) ELSE 0
    BY <1>3, <1>4
  <2>3. QED
    BY <2>1, <2>2 DEF UpdateMeta, TagAfter
<1>8. n <= free_tag /\ (resolved = 0 \/ n = 0)
  <2>1. CASE landed
    <3>1. ~OverUse(Cardinality(Branches(g)), 0) /\ resolved = 0
      BY <2>1 DEF CycleOf, ReadyToGo
    <3>2. n = Cardinality(Branches(g)) /\ n \in Nat
      BY <2>1, <1>4
    <3>3. free_tag \in Int
      BY <1>1, <1>6
    <3> HIDE DEF n, done
    <3>4. QED
      BY <3>1, <3>2, <3>3 DEF OverUse
  <2>2. CASE ~landed
    BY <2>2, <1>1, <1>4, <1>6
  <2>3. QED
    BY <1>3, <2>1, <2>2
<1>9. \A d \in done, i \in Opened \ done : Age(d) < Age(i)
  <2>1. com_ptr \in Slots /\ \A i \in Opened : i \in Slots /\ Age(i) \in Int
    BY <1>1, SlotsAndAges, AgeIsFrom DEF RobTyped, Slots
  <2>2. \A i, j \in Opened : Age(i) = Age(j) => i = j
    BY <2>1, SlotsAndAges, AgeIsFrom
  <2>3. QED
    BY <1>5, <2>1, <2>2
<1>10. Counted(Opened, done, g, NL, Opened')
  <2>1. done \subseteq Opened
    OBVIOUS
  <2> HIDE DEF done, NL
  <2>2. ASSUME NEW S, S = Opened, NEW D, D = done, NEW T, T = Opened'
        PROVE  Counted(S, D, g, NL, T)
    <3>1. S \subseteq InFlight /\ D \subseteq S /\ S \ D \subseteq InFlight'
      BY <1>1, <1>2, <2>1, <2>2
    <3>2. \A d \in D, i \in S \ D : Age(d) < Age(i)
      BY <1>9, <2>2
    <3>3. T = (S \ D) \cup {NewSlot(g, l) : l \in NL}
      BY <1>2, <2>2
    <3>4. NL \subseteq Valid(g) /\ (landed \/ NL = {})
      BY <1>3
    <3>5. RobTyped /\ alloc_ptr = SlotAt(used_entry_cnt)
      BY <1>1
    <3>6. landed \in BOOLEAN
      BY <1>3
    <3>7. QED
      BY <3>1, <3>2, <3>3, <3>4, <3>5, <3>6, FlowCounts
  <2>3. QED
    BY <2>2
<1>11. \A i : From(Opened, i)' = FromNext(Opened', i)
  BY DEF From, FromNext, AgeNext, Age, AgeFrom
<1>12. /\ \A i \in InFlight : table'[i].tag = table[i].tag
       /\ \A l \in Valid(g) : landed => table'[NewSlot(g, l)] = RobRow(g, l)
  BY <1>1, FlowRows
<1> HIDE DEF n
<1>13. free_tag' = SpTagLen - 1 - Cardinality(Opened') /\ free_tag' \in 0 .. SpTagLen - 1
  <2>1. Cardinality(Opened') = Cardinality(Opened) - resolved + n
    BY <1>5, <1>10 DEF Counted, n
  <2>2. resolved <= Cardinality(Opened)
    <3>1. done \in SUBSET Opened
      OBVIOUS
    <3>2. QED
      BY <1>1, <1>5, <3>1, FS_Subset
  <2>3. QED
    BY <1>1, <1>4, <1>5, <1>6, <1>7, <1>8, <2>1, <2>2
<1>14. n \in 0 .. SpTagLen - 1 /\ next_tag' \in Tags
  BY <1>1, <1>4, <1>6, <1>7, <1>8, BackAfterStep
<1>15. ASSUME NEW i \in Opened \ done
       PROVE  table'[i].tag = {RotateRight(next_tag', Cardinality(FromNext(Opened', i)))}
  <2> DEFINE a == Cardinality(From(Opened, i))
  <2>1. Cardinality(FromNext(Opened', i)) = a + n
        /\ table[i].tag = {RotateRight(next_tag, a)}
    BY <1>6, <1>10 DEF Counted, n
  <2>2. a \in 1 .. Cardinality(Opened)
    BY <1>1, FromCounts
  <2>3. table'[i].tag = table[i].tag
    BY <1>1, <1>12
  <2> HIDE DEF a
  <2>4. a \in 1 .. SpTagLen - 1 - n
    BY <1>1, <1>6, <1>8, <1>14, <2>2
  <2>5. RotateRight(RotateLeft(next_tag, n), a + n) = RotateRight(next_tag, a)
    BY <1>1, <1>14, <2>4, BackAfterStep
  <2>6. QED
    BY <1>7, <2>1, <2>3, <2>5
<1>16. ASSUME NEW l \in NL
       PROVE  table'[NewSlot(g, l)].tag
                 = {RotateRight(next_tag', Cardinality(FromNext(Opened', NewSlot(g, l))))}
  <2> DEFINE b == Before(NL, l)
  <2>1. NL = Branches(g) /\ landed /\ l \in Branches(g) /\ l \in Valid(g)
    BY <1>3
  <2>2. table'[NewSlot(g, l)].tag = {RotateLeft(next_tag, b)}
    <3>1. table'[NewSlot(g, l)] = RobRow(g, l)
      BY <1>12, <2>1
    <3>2. RobRow(g, l).tag = IF l \in Branches(g) THEN {TagAfter(Before(Branches(g), l))} ELSE {}
      BY DEF RobRow
    <3>3. QED
      BY <2>1, <3>1, <3>2 DEF TagAfter
  <2>3. b \in 0 .. n - 1
    <3> HIDE DEF NL
    <3>1. QED
      BY <1>3, LaneCounts DEF n
  <2>4. Cardinality(FromNext(Opened', NewSlot(g, l))) = n - b
    BY <1>10 DEF Counted, n
  <2> HIDE DEF b, NL
  <2>5. b + 1 \in 1 .. n /\ n + 1 - (b + 1) = n - b /\ (b + 1) - 1 = b
    BY <1>14, <2>3
  <2>6. RotateRight(RotateLeft(next_tag, n), n + 1 - (b + 1)) = RotateLeft(next_tag, (b + 1) - 1)
    BY <1>1, <1>14, <2>5, BackAfterStep
  <2>7. QED
    BY <1>7, <2>2, <2>4, <2>5, <2>6
<1> HIDE DEF NL, done
<1>17. \A i \in Opened' :
          table'[i].tag = {RotateRight(next_tag', Cardinality(FromNext(Opened', i)))}
  BY <1>2, <1>15, <1>16
<1>18. TagsAreRing'
  BY <1>11, <1>13, <1>17 DEF TagsAreRing
<1>19. QED
  BY <1>13, <1>14, <1>18

-----------------------------------------------------------------------------
(* The rename table after a cycle.                                         *)

(* The tag a branch's lane books. *)
LaneTag(g, l) == TagAfter(Before(Branches(g), l))

(* A group that lands books each of its branches a tag of its own, none of *)
(* them the tag of an open branch.                                         *)
LEMMA TagsBooked ==
    ASSUME Structure, NEW g \in Groups, ~OverUse(Cardinality(Branches(g)), 0)
    PROVE  /\ \A l \in Branches(g) : LaneTag(g, l) \in Tags
           /\ \A k, l \in Branches(g) : LaneTag(g, k) = LaneTag(g, l) => k = l
           /\ \A l \in Branches(g), i \in Opened : LaneTag(g, l) \notin table[i].tag
<1> DEFINE n == Cardinality(Branches(g))
           o == Cardinality(Opened)
<1>1. /\ Branches(g) \in SUBSET Lanes /\ n \in Nat
      /\ \A l \in Branches(g) : Before(Branches(g), l) \in 0 .. n - 1
      /\ \A k, l \in Branches(g) : Before(Branches(g), k) = Before(Branches(g), l) => k = l
  BY LaneSets, LaneCounts
<1>2. /\ next_tag \in Tags /\ SpTagLen \in Nat \ {0} /\ o \in 0 .. SpTagLen - 1
      /\ RobTyped /\ Opened \subseteq InFlight
  BY StructureTypes
<1>3. /\ free_tag = SpTagLen - 1 - o
      /\ \A i \in Opened : table[i].tag = {RotateRight(next_tag, Cardinality(From(Opened, i)))}
  BY DEF Structure, TagsAreRing
<1> HIDE DEF n, o
<1>4. n <= SpTagLen - 1 - o
  BY <1>1, <1>2, <1>3 DEF OverUse, n
<1>5. \A b \in 0 .. n - 1 : RotateLeft(next_tag, b) \in Tags
  BY <1>1, <1>2, <1>4, BackAfterStep
<1>6. \A b, c \in 0 .. n - 1 : RotateLeft(next_tag, b) = RotateLeft(next_tag, c) => b = c
  BY <1>1, <1>2, <1>4 DEF RotateLeft, Tags
<1>7. \A b \in 0 .. n - 1, a \in 1 .. o : RotateLeft(next_tag, b) # RotateRight(next_tag, a)
  BY <1>1, <1>2, <1>4 DEF RotateLeft, RotateRight, Tags
<1>8. \A i \in Opened : Cardinality(From(Opened, i)) \in 1 .. o
  BY <1>2, FromCounts DEF o
<1>9. \A l \in Branches(g) : LaneTag(g, l) = RotateLeft(next_tag, Before(Branches(g), l))
  BY DEF LaneTag, TagAfter
<1>10. QED
  BY <1>1, <1>3, <1>5, <1>6, <1>7, <1>8, <1>9

(* What the rename table keeps of its rows, and what the lanes write.      *)
RtKeeps(t, drops) == spec_rt'[t] = Dropped(spec_rt[t], drops)

(* The rename table after a cycle: repaired by the commits, overlaid by    *)
(* the lanes if they land, a snapshot taken at every branch's own lane.    *)
LEMMA RtAfter ==
    ASSUME Structure,
           NEW finished, NEW g, NEW landed, NEW resolved,
           CycleOf(finished, g, landed, resolved)
    PROVE  LET drops == Drops(Retiring)
           IN  /\ spec_rt' = [t \in Tags |-> spec_rt'[t]]
               /\ ~landed => /\ master_rt' = Dropped(master_rt, drops)
                             /\ \A t \in Tags : RtKeeps(t, drops)
               /\ landed =>
                    /\ master_rt' = StageRow(drops, Renames(g), FeLanes)
                    /\ \A l \in Branches(g) :
                          spec_rt'[LaneTag(g, l)] = StageRow(drops, Renames(g), l)
                    /\ \A t \in Tags :
                          (\A l \in Branches(g) : LaneTag(g, l) # t) => RtKeeps(t, drops)
<1> DEFINE drops == Drops(Retiring)
           renames == IF landed THEN Renames(g) ELSE << >>
           ports(t) == {k \in DOMAIN renames : renames[k].is_branch /\ renames[k].tag = t}
<1>1. g \in Groups /\ landed \in BOOLEAN /\ Branches(g) \in SUBSET Lanes
  BY LaneSets DEF CycleOf
<1>2. RtUpdate(drops, renames)
  BY Zenon DEF CycleOf, Flow
<1>3. /\ master_rt' = StageRow(drops, renames, Cardinality(DOMAIN renames))
      /\ spec_rt' = [t \in Tags |-> Snapshot(drops, renames, t)]
  BY <1>2 DEF RtUpdate
<1>4. \A t \in Tags : spec_rt'[t] = IF ports(t) = {} THEN Dropped(spec_rt[t], drops)
                                    ELSE StageRow(drops, renames, Max(ports(t)))
  BY <1>3, Zenon DEF Snapshot
<1>5. ASSUME ~landed
      PROVE  master_rt' = Dropped(master_rt, drops) /\ \A t \in Tags : RtKeeps(t, drops)
  <2>1. renames = << >> /\ DOMAIN renames = {}
    BY <1>5
  <2>2. Cardinality(DOMAIN renames) = 0 /\ 1 .. 0 = {}
    BY <2>1, FS_EmptySet
  <2>3. \A t : ports(t) = {}
    BY <2>1
  <2>4. master_rt' = StageRow(drops, << >>, 0)
    BY <1>3, <2>1, <2>2
  <2>5. StageRow(drops, << >>, 0) = [a \in Arch |-> Dropped(master_rt, drops)[a]]
    BY <2>2 DEF StageRow
  <2>6. Dropped(master_rt, drops) = [a \in Arch |-> Dropped(master_rt, drops)[a]]
    BY DEF Dropped
  <2> HIDE DEF ports
  <2>7. \A t \in Tags : spec_rt'[t] = Dropped(spec_rt[t], drops)
    BY <1>4, <2>3
  <2>8. QED
    BY <2>4, <2>5, <2>6, <2>7 DEF RtKeeps
<1>6. ASSUME landed
      PROVE  /\ master_rt' = StageRow(drops, Renames(g), FeLanes)
             /\ \A l \in Branches(g) :
                   spec_rt'[LaneTag(g, l)] = StageRow(drops, Renames(g), l)
             /\ \A t \in Tags :
                   (\A l \in Branches(g) : LaneTag(g, l) # t) => RtKeeps(t, drops)
  <2>1. renames = Renames(g) /\ DOMAIN renames = Lanes
    BY <1>6 DEF Renames
  <2>2. Cardinality(Lanes) = FeLanes
    BY CoreAssumption, RobAssumption, FS_Interval DEF Lanes
  <2>3. ASSUME NEW k \in Lanes
        PROVE  (renames[k].is_branch <=> k \in Branches(g)) /\ renames[k].tag = LaneTag(g, k)
    <3>1. Renames(g)[k] = [req |-> RenameReq(g[k]), arch |-> g[k].dest, phys |-> PrIdx(g, k),
                           is_branch |-> k \in Branches(g),
                           tag |-> TagAfter(Before(Branches(g), k))]
      BY DEF Renames
    <3> HIDE DEF renames
    <3>2. Renames(g)[k].is_branch = (k \in Branches(g))
      BY <3>1
    <3>3. Renames(g)[k].tag = LaneTag(g, k)
      BY <3>1 DEF LaneTag
    <3>4. QED
      BY <2>1, <3>2, <3>3, Zenon
  <2>4. ~OverUse(Cardinality(Branches(g)), 0)
    BY <1>6 DEF CycleOf, ReadyToGo
  <2>5. /\ \A l \in Branches(g) : LaneTag(g, l) \in Tags
        /\ \A k, l \in Branches(g) : LaneTag(g, k) = LaneTag(g, l) => k = l
    BY <1>1, <2>4, TagsBooked
  <2>6. \A t : ports(t) = {l \in Branches(g) : LaneTag(g, l) = t}
    BY <1>1, <2>1, <2>3
  <2>7. ASSUME NEW l \in Branches(g)
        PROVE  spec_rt'[LaneTag(g, l)] = StageRow(drops, Renames(g), l)
    <3>1. ports(LaneTag(g, l)) = {l}
      <4> HIDE DEF ports
      <4>1. QED
        BY <2>5, <2>6
    <3>2. Max({l}) = l
      <4>1. l \in Lanes /\ {l} \in SUBSET Lanes /\ {l} # {}
        BY <1>1
      <4>2. Max({l}) \in {l}
        BY <4>1, LastLane
      <4>3. QED
        BY <4>2
    <3>3. LaneTag(g, l) \in Tags
      BY <2>5
    <3> HIDE DEF ports, renames
    <3>4. QED
      BY <1>4, <2>1, <3>1, <3>2, <3>3
  <2>8. ASSUME NEW t \in Tags, \A l \in Branches(g) : LaneTag(g, l) # t
        PROVE  RtKeeps(t, drops)
    <3>1. ports(t) = {}
      BY <2>6, <2>8
    <3> HIDE DEF ports, renames
    <3>2. QED
      BY <1>4, <3>1 DEF RtKeeps
  <2>9. QED
    BY <1>3, <2>1, <2>2, <2>7, <2>8
<1>7. spec_rt' = [t \in Tags |-> spec_rt'[t]]
  BY <1>3
<1>8. QED
  BY <1>5, <1>6, <1>7

-----------------------------------------------------------------------------
(* The types.                                                              *)

Entry == [ready : BOOLEAN, pr : Phys \cup {NoReg}]

(* The Rob row of a lane is a row.                                         *)
LEMMA RowTyped ==
    ASSUME TypeOK, NEW i \in Slots, NEW finished
    PROVE  /\ [table[i] EXCEPT !.wb_fin = @ \/ i \in finished] \in Row
           /\ Ready \in Entry
           /\ Woken(i, finished) \in Entry
<1>1. table[i] \in Row /\ rsv[i] \in Entry
  BY DEF TypeOK, Entry
<1>2. [table[i] EXCEPT !.wb_fin = @ \/ i \in finished] \in Row
  BY <1>1 DEF Row
<1>3. Ready \in Entry
  BY DEF Ready, Entry
<1>4. Woken(i, finished) \in Entry
  BY <1>1 DEF Woken, Entry
<1>5. QED
  BY <1>2, <1>3, <1>4

(* The table and the stations stay typed when lanes land in them.          *)
LEMMA LandedTyped ==
    ASSUME Structure, NEW g \in Groups, ~OverUse(Cardinality(Branches(g)), 0),
           NEW l \in Valid(g), NEW drops, NEW written
    PROVE  /\ RobRow(g, l) \in Row
           /\ RenameSrc(g, l, drops, written) \in Entry
<1>1. /\ l \in Lanes /\ g[l] \in Uops /\ g[l] \in Uop
  BY LaneSets
<1>2. next_index \in Phys /\ master_rt \in RtRow
  BY DEF Structure, TypeOK
<1>3. PrIdx(g, l) \in Phys
  BY <1>1, <1>2, PromiseTyped
<1>4. l \in Branches(g) => LaneTag(g, l) \in Tags
  BY TagsBooked
<1>5. RobRow(g, l) \in Row
  <2>1. RobRow(g, l) =
           [uop |-> g[l],
            pr  |-> IF l \in Takers(g) THEN PrIdx(g, l) ELSE NoReg,
            tag |-> IF l \in Branches(g) THEN {LaneTag(g, l)} ELSE {},
            wb_fin |-> FALSE]
    BY DEF RobRow, LaneTag
  <2>2. QED
    BY <1>1, <1>3, <1>4, <2>1 DEF Row
<1>6. RenameSrc(g, l, drops, written) \in Entry
  <2> DEFINE row == StageRow(drops, Renames(g), l - 1)
             phys == row[g[l].src]
  <2>1. RenameSrc(g, l, drops, written) =
           IF g[l].src = NoReg \/ phys = NoReg THEN Ready
           ELSE [ready |-> ReadFin(phys, written, Marked(g)), pr |-> phys]
    BY DEF RenameSrc
  <2>2. l - 1 \in 0 .. FeLanes
    BY <1>1, CoreAssumption, RobAssumption DEF Lanes
  <2>3. row \in RtRow
    BY <1>2, <2>2, StageTyped
  <2>4. g[l].src # NoReg => g[l].src \in Arch
    BY <1>1 DEF Uop
  <2> HIDE DEF row
  <2>5. g[l].src # NoReg => phys \in Phys \cup {NoReg}
    BY <2>3, <2>4 DEF RtRow
  <2>6. ReadFin(phys, written, Marked(g)) \in BOOLEAN
    BY DEF ReadFin
  <2>7. Ready \in Entry
    BY DEF Ready, Entry
  <2> HIDE DEF phys
  <2>8. QED
    BY <2>1, <2>5, <2>6, <2>7 DEF Entry
<1>7. QED
  BY <1>5, <1>6

(* A cycle without a squash keeps the whole structure.                     *)
LEMMA FlowStructure ==
    ASSUME Structure,
           NEW finished, NEW g, NEW landed, NEW resolved,
           CycleOf(finished, g, landed, resolved)
    PROVE  Structure'
<1> DEFINE drops == Drops(Retiring)
           lanes(i) == {l \in Valid(g) : landed /\ FreeSlot(Before(Valid(g), l)) = i}
<1>1. TypeOK /\ RobTyped /\ alloc_ptr = SlotAt(used_entry_cnt) /\ next_index \in Phys
  BY StructureTypes DEF Structure
<1>2. /\ g \in Groups /\ landed \in BOOLEAN /\ Branches(g) \in SUBSET Lanes
      /\ landed => ~OverUse(Cardinality(Branches(g)), 0)
  BY LaneSets DEF CycleOf, ReadyToGo
<1>3. fin' \in [Phys -> BOOLEAN]
  <2>1. FinUpdate(Written(finished), IF landed THEN Marked(g) ELSE {})
    BY Zenon DEF CycleOf, Flow
  <2>2. QED
    BY <2>1 DEF FinUpdate
<1>4. FeLanes \in 0 .. FeLanes /\ \A l \in Lanes : l \in 0 .. FeLanes
  BY CoreAssumption, RobAssumption DEF Lanes
<1>5. master_rt \in RtRow /\ spec_rt \in [Tags -> RtRow]
  BY <1>1 DEF TypeOK
<1>6. /\ Dropped(master_rt, drops) \in RtRow
      /\ \A t \in Tags : Dropped(spec_rt[t], drops) \in RtRow
  BY <1>5 DEF Dropped, RtRow
<1>7. \A port \in 0 .. FeLanes : StageRow(drops, Renames(g), port) \in RtRow
  BY <1>1, <1>2, <1>5, StageTyped
<1> HIDE DEF drops
<1>8. /\ spec_rt' = [t \in Tags |-> spec_rt'[t]]
      /\ ~landed => /\ master_rt' = Dropped(master_rt, drops)
                    /\ \A t \in Tags : RtKeeps(t, drops)
      /\ landed =>
           /\ master_rt' = StageRow(drops, Renames(g), FeLanes)
           /\ \A l \in Branches(g) :
                 spec_rt'[LaneTag(g, l)] = StageRow(drops, Renames(g), l)
           /\ \A t \in Tags : (\A l \in Branches(g) : LaneTag(g, l) # t) => RtKeeps(t, drops)
  BY RtAfter DEF drops
<1>9. master_rt' \in RtRow
  BY <1>2, <1>4, <1>6, <1>7, <1>8
<1>10. ASSUME NEW t \in Tags PROVE spec_rt'[t] \in RtRow
  <2>1. RtKeeps(t, drops) => spec_rt'[t] \in RtRow
    BY <1>6 DEF RtKeeps
  <2>2. QED
    BY <1>2, <1>4, <1>7, <1>8, <2>1
<1>11. spec_rt' \in [Tags -> RtRow]
  BY <1>8, <1>10
<1>12. /\ table' = [i \in Slots |->
               IF lanes(i) # {} THEN RobRow(g, CHOOSE l \in lanes(i) : TRUE)
               ELSE [table[i] EXCEPT !.wb_fin = @ \/ i \in finished]]
       /\ rsv' = [i \in Slots |->
               IF lanes(i) # {}
               THEN RenameSrc(g, CHOOSE l \in lanes(i) : TRUE, drops, Written(finished))
               ELSE IF i \in finished THEN Ready ELSE Woken(i, finished)]
  BY Zenon DEF CycleOf, Flow, drops
<1>13. ASSUME NEW i \in Slots, lanes(i) # {}
       PROVE  /\ RobRow(g, CHOOSE l \in lanes(i) : TRUE) \in Row
              /\ RenameSrc(g, CHOOSE l \in lanes(i) : TRUE, drops, Written(finished)) \in Entry
  <2> DEFINE l == CHOOSE l \in lanes(i) : TRUE
  <2>1. l \in lanes(i)
    BY <1>13
  <2>2. l \in Valid(g) /\ landed
    BY <2>1
  <2> HIDE DEF l
  <2>3. RobRow(g, l) \in Row /\ RenameSrc(g, l, drops, Written(finished)) \in Entry
    BY <1>2, <2>2, LandedTyped
  <2>4. QED
    BY <2>3 DEF l
<1> HIDE DEF lanes
<1>14. table' \in [Slots -> Row] /\ rsv' \in [Slots -> Entry]
  BY <1>1, <1>12, <1>13, RowTyped
<1>15. /\ com_ptr' \in Slots /\ used_entry_cnt' \in 0 .. RobDepth
       /\ (alloc_ptr = SlotAt(used_entry_cnt))' /\ alloc_ptr' \in Slots
  BY <1>1, FlowPointers
<1>16. /\ PoolIsRing' /\ free_entry' \in 0 .. PhyAmount /\ next_index' \in Phys
  BY FlowPool
<1>17. /\ TagsAreRing' /\ free_tag' \in 0 .. SpTagLen - 1 /\ next_tag' \in Tags
  BY FlowTags
<1>18. RowsAreWhole'
  BY FlowSets
<1>19. TypeOK'
  BY <1>3, <1>9, <1>11, <1>14, <1>15, <1>16, <1>17 DEF TypeOK, Entry
<1>20. QED
  BY <1>15, <1>16, <1>17, <1>18, <1>19 DEF Structure

-----------------------------------------------------------------------------
(* A squash, as MisPred takes it.                                          *)

SquashOf(i, done) ==
    /\ i \in Resolving
    /\ done \subseteq Executing
    /\ \A j \in done : Age(j) < Age(i)
    /\ Squash(i, done)

(* What a squash leaves: the rows no younger than the branch, as they were *)
(* but for the writebacks.                                                 *)
LEMMA SquashRows ==
    ASSUME TypeOK, RobTyped, NEW i, NEW done, SquashOf(i, done)
    PROVE  /\ i \in InFlight /\ i \in Opened /\ Age(i) \in 0 .. used_entry_cnt - 1
           /\ \A j \in Opened : Age(i) <= Age(j)
           /\ com_ptr' = com_ptr
           /\ used_entry_cnt' = Age(i) + 1 /\ used_entry_cnt' \in 0 .. RobDepth
           /\ (alloc_ptr = SlotAt(used_entry_cnt))' /\ alloc_ptr' \in Slots
           /\ \A j : Age(j)' = Age(j)
           /\ InFlight' = {j \in InFlight : Age(j) <= Age(i)}
           /\ \A j \in Slots :
                 /\ table'[j] = [table[j] EXCEPT !.wb_fin = @ \/ j \in done \cup {i}]
                 /\ table'[j].uop = table[j].uop
                 /\ table'[j].pr = table[j].pr
                 /\ table'[j].tag = table[j].tag
                 /\ table'[j].wb_fin <=> table[j].wb_fin \/ j \in done \cup {i}
                 /\ rsv'[j] = IF j \in done \cup {i} \/ Age(j) > Age(i) THEN Ready
                              ELSE Woken(j, done \cup {i})
<1>1. /\ com_ptr \in Slots /\ used_entry_cnt \in 0 .. RobDepth /\ RobDepth \in Nat \ {0}
  BY RobAssumption DEF RobTyped
<1>2. i \in InFlight /\ i \in Slots /\ i \in Opened /\ \A j \in Opened : Age(i) <= Age(j)
  BY DEF SquashOf, Resolving, Opened, Unfinished, InFlight
<1>3. \A j \in Slots : Age(j) \in 0 .. RobDepth - 1
  BY <1>1, SlotsAndAges, AgeIsFrom DEF Slots
<1>4. Age(i) \in 0 .. used_entry_cnt - 1
  BY <1>1, <1>2, <1>3 DEF InFlight
<1>5. /\ com_ptr' = com_ptr
      /\ used_entry_cnt' = Age(i) + 1
      /\ alloc_ptr' = SlotFrom(i, 1)
  BY DEF SquashOf, Squash, RobMisPred, SlotFrom
<1>6. used_entry_cnt' \in 0 .. RobDepth
  BY <1>1, <1>4, <1>5
<1>7. alloc_ptr' = SlotFrom(com_ptr', used_entry_cnt') /\ alloc_ptr' \in Slots
  <2>1. i = SlotFrom(com_ptr, Age(i))
    BY <1>1, <1>2, SlotsAndAges, AgeIsFrom
  <2>2. Age(i) \in 0 .. RobDepth /\ 1 \in -Age(i) .. RobDepth - Age(i)
    BY <1>1, <1>4
  <2>3. SlotFrom(SlotFrom(com_ptr, Age(i)), 1) = SlotFrom(com_ptr, Age(i) + 1)
    BY <1>1, <2>2, BaseMoves
  <2>4. SlotFrom(com_ptr, Age(i) + 1) \in Slots
    BY <1>1, <1>5, <1>6, BaseMoves
  <2>5. QED
    BY <1>5, <2>1, <2>3, <2>4
<1>8. (alloc_ptr = SlotAt(used_entry_cnt))'
  BY <1>7 DEF SlotAt, SlotFrom
<1>9. \A j : Age(j)' = Age(j)
  BY <1>5 DEF Age
<1>10. InFlight' = {j \in InFlight : Age(j) <= Age(i)}
  <2>1. InFlight' = {j \in Slots : Age(j) < used_entry_cnt'}
    BY <1>9 DEF InFlight
  <2>2. ASSUME NEW j \in Slots
        PROVE  Age(j) < used_entry_cnt' <=> Age(j) < used_entry_cnt /\ Age(j) <= Age(i)
    BY <1>1, <1>3, <1>4, <1>5
  <2>3. QED
    BY <2>1, <2>2 DEF InFlight
<1>11. ASSUME NEW j \in Slots
       PROVE  /\ table'[j] = [table[j] EXCEPT !.wb_fin = @ \/ j \in done \cup {i}]
              /\ rsv'[j] = IF j \in done \cup {i} \/ Age(j) > Age(i) THEN Ready
                           ELSE Woken(j, done \cup {i})
  BY Zenon DEF SquashOf, Squash
<1>12. ASSUME NEW j \in Slots
       PROVE  /\ table'[j].uop = table[j].uop
              /\ table'[j].pr = table[j].pr
              /\ table'[j].tag = table[j].tag
              /\ table'[j].wb_fin <=> table[j].wb_fin \/ j \in done \cup {i}
  <2>1. table[j] \in Row
    BY DEF TypeOK
  <2>2. table'[j] = [table[j] EXCEPT !.wb_fin = @ \/ j \in done \cup {i}]
    BY <1>11
  <2>3. QED
    BY <2>1, <2>2 DEF Row
<1>13. QED
  BY <1>2, <1>4, <1>5, <1>6, <1>7, <1>8, <1>9, <1>10, <1>11, <1>12

(* A squash leaves the registers of the rows that stay, and no branch      *)
(* open.                                                                   *)
LEMMA SquashSets ==
    ASSUME Structure, NEW i, NEW done, SquashOf(i, done)
    PROVE  /\ i \in Held
           /\ Held' = {j \in Held : Age(j) <= Age(i)}
           /\ Opened' = {}
           /\ RowsAreWhole'
<1>1. TypeOK /\ RobTyped /\ RowsAreWhole /\ InFlight \subseteq Slots
  BY StructureTypes DEF Structure
<1>2. /\ i \in InFlight /\ i \in Opened
      /\ \A j \in Opened : Age(i) <= Age(j)
      /\ InFlight' = {j \in InFlight : Age(j) <= Age(i)}
      /\ \A j \in Slots :
            /\ table'[j].uop = table[j].uop
            /\ table'[j].pr = table[j].pr
            /\ table'[j].wb_fin <=> table[j].wb_fin \/ j \in done \cup {i}
  BY <1>1, SquashRows
<1>3. i \in Held
  BY <1>1, <1>2 DEF Held, Opened, Unfinished, RowsAreWhole, Active
<1>4. Held' = {j \in Held : Age(j) <= Age(i)}
  BY <1>1, <1>2 DEF Held
<1>5. Opened' = {}
  <2>1. Opened' = {j \in InFlight' : ~table'[j].wb_fin /\ table'[j].uop.is_branch}
    BY DEF Opened, Unfinished
  <2>2. SUFFICES ASSUME NEW j \in Opened' PROVE FALSE
    OBVIOUS
  <2>3. j \in InFlight /\ Age(j) <= Age(i) /\ j \in Opened /\ j # i
    BY <1>1, <1>2, <2>1 DEF Opened, Unfinished
  <2>4. Age(j) = Age(i)
    <3>1. Age(j) \in Int /\ Age(i) \in Int
      BY <1>1, <1>2, <2>3, SlotsAndAges, AgeIsFrom DEF RobTyped, Slots
    <3>2. QED
      BY <1>2, <2>3, <3>1
  <2>5. QED
    BY <1>1, <1>2, <2>3, <2>4, SlotsAndAges, AgeIsFrom DEF RobTyped
<1>6. RowsAreWhole'
  BY <1>1, <1>2 DEF RowsAreWhole
<1>7. QED
  BY <1>3, <1>4, <1>5, <1>6

Shortened(S, i, T) ==
    /\ Cardinality(T) = Cardinality(S) - (Cardinality(From(S, i)) - 1)
    /\ \A j \in T :
          Cardinality(From(T, j)) = Cardinality(From(S, j)) - (Cardinality(From(S, i)) - 1)

(* A squash to row i leaves every row that stays as many fewer behind it   *)
(* as there were rows behind i.                                            *)
LEMMA SquashCounts ==
    ASSUME RobTyped, NEW S, S \subseteq InFlight, NEW i \in S,
           NEW T, T = {j \in S : Age(j) <= Age(i)}
    PROVE  Shortened(S, i, T)
<1> DEFINE gone == From(S, i) \ {i}
<1>1. com_ptr \in Slots /\ \A j \in S : j \in Slots /\ Age(j) \in Int
  BY SlotsAndAges, AgeIsFrom DEF RobTyped, InFlight, Slots
<1>2. \A j, k \in S : Age(j) = Age(k) => j = k
  BY <1>1, SlotsAndAges, AgeIsFrom
<1>3. IsFiniteSet(S) /\ Cardinality(S) \in Nat
  BY FromCounts, FS_CardinalityType
<1>4. From(S, i) \in SUBSET S /\ i \in From(S, i)
  BY <1>1 DEF From
<1>5. IsFiniteSet(From(S, i)) /\ Cardinality(From(S, i)) \in Nat
  BY <1>3, <1>4, FS_Subset, FS_CardinalityType
<1>6. IsFiniteSet(gone) /\ Cardinality(gone) = Cardinality(From(S, i)) - 1
  BY <1>4, <1>5, FS_RemoveElement
<1>7. T = S \ gone
  BY <1>1, <1>2 DEF From
<1>8. Cardinality(T) = Cardinality(S) - Cardinality(gone)
  <2>1. S \cap gone = gone
    BY <1>4
  <2> HIDE DEF gone
  <2>2. QED
    BY <1>3, <1>7, <2>1, FS_Difference
<1>9. ASSUME NEW j \in T
      PROVE  Cardinality(From(T, j)) = Cardinality(From(S, j)) - Cardinality(gone)
  <2>1. From(T, j) = From(S, j) \ gone
    BY <1>7 DEF From
  <2>2. From(S, j) \cap gone = gone
    BY <1>1 DEF From
  <2>3. From(S, j) \in SUBSET S
    BY DEF From
  <2>4. IsFiniteSet(From(S, j))
    BY <1>3, <2>3, FS_Subset
  <2> HIDE DEF gone
  <2>5. QED
    BY <2>1, <2>2, <2>4, FS_Difference
<1>10. QED
  BY <1>6, <1>8, <1>9 DEF Shortened

(* A squash keeps the whole structure: the registers it returns are those  *)
(* of the rows that die, and the tag pool starts anew behind the branch.   *)
LEMMA SquashStructure ==
    ASSUME Structure, NEW i, NEW done, SquashOf(i, done)
    PROVE  Structure'
<1> DEFINE n == Cardinality(From(Held, i))
<1>1. /\ TypeOK /\ RobTyped /\ next_index \in Phys /\ next_tag \in Tags
      /\ PhyAmount \in Nat \ {0} /\ SpTagLen \in Nat \ {0}
      /\ Cardinality(Held) \in 0 .. PhyAmount /\ Held \subseteq InFlight
      /\ Cardinality(Opened) \in 0 .. SpTagLen - 1 /\ Opened \subseteq InFlight
      /\ InFlight \subseteq Slots
      /\ PoolIsRing /\ TagsAreRing
  BY StructureTypes DEF Structure
<1>2. /\ i \in InFlight /\ i \in Opened
      /\ com_ptr' = com_ptr /\ used_entry_cnt' \in 0 .. RobDepth
      /\ (alloc_ptr = SlotAt(used_entry_cnt))' /\ alloc_ptr' \in Slots
      /\ \A j : Age(j)' = Age(j)
      /\ \A j \in Slots :
            /\ table'[j] = [table[j] EXCEPT !.wb_fin = @ \/ j \in done \cup {i}]
            /\ table'[j].pr = table[j].pr
            /\ rsv'[j] = IF j \in done \cup {i} \/ Age(j) > Age(i) THEN Ready
                         ELSE Woken(j, done \cup {i})
  BY <1>1, SquashRows
<1>3. /\ i \in Held /\ Held' = {j \in Held : Age(j) <= Age(i)} /\ Opened' = {}
      /\ RowsAreWhole'
  BY SquashSets
<1>4. PICK t \in table[i].tag : TagGenMisPred(t) /\ RtMisPred(t)
  BY DEF SquashOf, Squash
<1>5. /\ table[i].tag = {RotateRight(next_tag, Cardinality(From(Opened, i)))}
      /\ Cardinality(From(Opened, i)) \in 1 .. SpTagLen - 1
  <2>1. Cardinality(From(Opened, i)) \in 1 .. Cardinality(Opened)
    BY <1>1, <1>2, FromCounts
  <2>2. QED
    BY <1>1, <1>2, <2>1 DEF TagsAreRing
<1>6. t \in Tags
  BY <1>1, <1>4, <1>5, BackIsInjective
<1>7. free_tag' = SpTagLen - 1 /\ next_tag' \in Tags
  BY <1>1, <1>4, <1>6 DEF TagGenMisPred, RotateLeft, Tags
<1>8. TagsAreRing' /\ free_tag' \in 0 .. SpTagLen - 1
  BY <1>1, <1>3, <1>7, FS_EmptySet DEF TagsAreRing
<1>9. master_rt' \in RtRow /\ spec_rt' \in [Tags -> RtRow]
  BY <1>1, <1>4, <1>6 DEF RtMisPred, TypeOK
<1>10. fin' \in [Phys -> BOOLEAN]
  <2>1. FinUpdate(Written(done \cup {i}), {})
    BY DEF SquashOf, Squash
  <2>2. QED
    BY <2>1 DEF FinUpdate
<1>11. /\ free_entry = PhyAmount - Cardinality(Held)
       /\ \A j \in Held : table[j].pr = Back(next_index, Cardinality(From(Held, j)))
  BY <1>1 DEF PoolIsRing
<1>12. n \in 1 .. Cardinality(Held) /\ n \in 1 .. PhyAmount
  <2>1. n \in 1 .. Cardinality(Held)
    BY <1>1, <1>3, FromCounts
  <2> HIDE DEF n
  <2>2. QED
    BY <1>1, <2>1
<1>13. PrfMisPred(table[i].pr) /\ table[i].pr = Back(next_index, n)
  BY <1>3, <1>11 DEF SquashOf, Squash
<1> HIDE DEF n
<1>14. /\ next_index' = Ahead(Back(next_index, n), 1)
       /\ free_entry' = free_entry + (n - 1)
       /\ next_index' \in Phys
       /\ \A a \in n .. PhyAmount : Back(next_index', a - (n - 1)) = Back(next_index, a)
  <2>1. /\ next_index' = Ahead(Back(next_index, n), 1)
        /\ free_entry' = free_entry + ((next_index - Ahead(Back(next_index, n), 1)) % PhyAmount)
    BY <1>13 DEF PrfMisPred, Ahead
  <2>2. QED
    BY <1>1, <1>12, <2>1, PoolSquash
<1>15. /\ Cardinality(Held') = Cardinality(Held) - (n - 1)
       /\ \A j \in Held' : Cardinality(From(Held', j)) = Cardinality(From(Held, j)) - (n - 1)
  <2>1. ASSUME NEW T, T = Held' PROVE Shortened(Held, i, T)
    BY <1>1, <1>3, <2>1, SquashCounts
  <2>2. Shortened(Held, i, Held')
    BY <2>1
  <2>3. QED
    BY <2>2 DEF Shortened, n
<1>16. free_entry' = PhyAmount - Cardinality(Held') /\ free_entry' \in 0 .. PhyAmount
  BY <1>1, <1>11, <1>12, <1>14, <1>15
<1>17. ASSUME NEW j \in Held'
       PROVE  table'[j].pr = Back(next_index', Cardinality(From(Held', j)))
  <2> DEFINE a == Cardinality(From(Held, j))
  <2>1. j \in Held /\ j \in Slots /\ Age(j) <= Age(i)
    BY <1>1, <1>3
  <2>2. table'[j].pr = Back(next_index, a)
    BY <1>2, <1>11, <2>1
  <2>3. a \in 1 .. Cardinality(Held)
    BY <1>1, <2>1, FromCounts
  <2>4. n <= a
    <3>1. Age(i) \in Int /\ Age(j) \in Int
      BY <1>1, <1>2, <2>1, SlotsAndAges, AgeIsFrom DEF RobTyped, Slots
    <3>2. Age(j) < Age(i) \/ Age(j) = Age(i)
      BY <2>1, <3>1
    <3>3. Age(j) = Age(i) => j = i
      BY <1>1, <1>2, <2>1, SlotsAndAges, AgeIsFrom DEF RobTyped
    <3>4. Age(j) < Age(i) => n < a
      BY <1>1, <1>3, <2>1, FromCounts DEF n
    <3> HIDE DEF a
    <3>5. j = i => n = a
      BY DEF n, a
    <3>6. QED
      BY <1>12, <2>3, <3>2, <3>3, <3>4, <3>5, <1>1
  <2>5. Cardinality(From(Held', j)) = a - (n - 1)
    BY <1>15
  <2> HIDE DEF a
  <2>6. a \in n .. PhyAmount
    BY <1>1, <1>12, <2>3, <2>4
  <2>7. Back(next_index', a - (n - 1)) = Back(next_index, a)
    BY <1>14, <2>6
  <2>8. QED
    BY <2>2, <2>5, <2>7
<1>18. \A j : From(Held, j)' = From(Held', j)
  BY <1>2 DEF From
<1>19. PoolIsRing'
  BY <1>16, <1>17, <1>18 DEF PoolIsRing, Back
<1>20. table' \in [Slots -> Row] /\ rsv' \in [Slots -> Entry]
  <2>1. /\ table' = [j \in Slots |-> table'[j]]
        /\ rsv' = [j \in Slots |-> rsv'[j]]
    BY DEF SquashOf, Squash
  <2>2. ASSUME NEW j \in Slots PROVE table'[j] \in Row /\ rsv'[j] \in Entry
    <3>1. ASSUME NEW finished, finished = done \cup {i}
          PROVE  /\ [table[j] EXCEPT !.wb_fin = @ \/ j \in finished] \in Row
                 /\ Ready \in Entry /\ Woken(j, finished) \in Entry
      BY <1>1, RowTyped
    <3>2. [table[j] EXCEPT !.wb_fin = @ \/ j \in done \cup {i}] \in Row
      BY <3>1
    <3>3. Ready \in Entry /\ Woken(j, done \cup {i}) \in Entry
      BY <3>1
    <3>4. QED
      BY <1>2, <3>2, <3>3
  <2>3. QED
    BY <2>1, <2>2
<1>21. TypeOK'
  BY <1>1, <1>2, <1>7, <1>8, <1>9, <1>10, <1>14, <1>16, <1>20 DEF TypeOK, Entry, RobTyped
<1>22. QED
  BY <1>2, <1>3, <1>8, <1>19, <1>21 DEF Structure

-----------------------------------------------------------------------------
(* The rings hold in every behavior.                                       *)

(* Every step is a cycle or a squash of the form reasoned about above.     *)
LEMMA StepsAreCycles ==
    ASSUME Next
    PROVE  \/ \E finished, g, landed, resolved : CycleOf(finished, g, landed, resolved)
           \/ \E i, done : SquashOf(i, done)
<1>1. CASE Cycle
  <2>1. PICK finished \in SUBSET Executing, g \in Groups :
                \E landed \in {FALSE, ReadyToGo(g, Retiring)} :
                   Flow(finished, Retiring, g, landed, 0)
    BY <1>1, Zenon DEF Cycle
  <2> PICK landed \in {FALSE, ReadyToGo(g, Retiring)} : Flow(finished, Retiring, g, landed, 0)
    BY <2>1
  <2>2. CycleOf(finished, g, landed, 0)
    <3>1. landed \in BOOLEAN /\ (landed => ReadyToGo(g, Retiring))
      <4>1. ReadyToGo(g, Retiring) \in BOOLEAN
        BY DEF ReadyToGo
      <4>2. QED
        BY <4>1
    <3>2. QED
      BY <2>1, <3>1 DEF CycleOf
  <2>3. QED
    BY <2>2
<1>2. CASE SucPred
  <2>1. PICK i \in Resolving, finished \in SUBSET Executing, g \in Groups :
                Flow(finished \cup {i}, Retiring, g, FALSE, 1)
    BY <1>2, Zenon DEF SucPred
  <2>2. CycleOf(finished \cup {i}, g, FALSE, 1)
    BY <2>1 DEF CycleOf
  <2>3. QED
    BY <2>2
<1>3. CASE MisPred
  <2>1. PICK i \in Resolving :
               \E done \in SUBSET {j \in Executing : Age(j) < Age(i)} : Squash(i, done)
    BY <1>3, Zenon DEF MisPred
  <2> PICK done \in SUBSET {j \in Executing : Age(j) < Age(i)} : Squash(i, done)
    BY <2>1
  <2>2. SquashOf(i, done)
    BY <2>1 DEF SquashOf
  <2>3. QED
    BY <2>2
<1>4. QED
  BY <1>1, <1>2, <1>3 DEF Next

(* The machine starts with nothing in flight.                              *)
LEMMA InitStructure ==
    ASSUME Init
    PROVE  Structure /\ InFlight = {}
<1>1. RobDepth \in Nat \ {0} /\ PhyAmount \in Nat \ {0} /\ SpTagLen \in Nat \ {0}
  BY RobAssumption, PrfAssumption, SpTagLenAssumption
<1>2. /\ alloc_ptr = 0 /\ com_ptr = 0 /\ used_entry_cnt = 0
      /\ table = [i \in Slots |-> Blank] /\ rsv = [i \in Slots |-> Ready]
      /\ free_tag = SpTagLen - 1 /\ next_tag = 0
      /\ free_entry = PhyAmount /\ next_index = 0
      /\ \E b \in FinPowerUp : fin = [p \in Phys |-> b]
      /\ master_rt = [a \in Arch |-> NoReg]
      /\ spec_rt = [t \in Tags |-> [a \in Arch |-> NoReg]]
  BY DEF Init, RobInit, TagGenInit, PrfInit, RtInit
<1>3. RobTyped
  BY <1>1, <1>2 DEF RobTyped, Slots
<1>4. InFlight = {} /\ Held = {} /\ Opened = {}
  <2>1. \A i \in Slots : ~ (Age(i) < 0)
    BY <1>1, <1>3, SlotsAndAges, AgeIsFrom DEF RobTyped, Slots
  <2>2. QED
    BY <1>2, <2>1 DEF InFlight, Held, Opened, Unfinished
<1>5. alloc_ptr = SlotAt(used_entry_cnt)
  BY <1>1, <1>2 DEF SlotAt
<1>6. Cardinality({}) = 0
  BY FS_EmptySet
<1>7. RowsAreWhole /\ PoolIsRing /\ TagsAreRing
  BY <1>1, <1>2, <1>4, <1>6 DEF RowsAreWhole, PoolIsRing, TagsAreRing
<1>8. TypeOK
  <2>1. Blank \in Row
    BY DEF Blank, Row
  <2>2. Ready \in Entry
    BY DEF Ready, Entry
  <2>3. fin \in [Phys -> BOOLEAN]
    BY <1>2, PrfAssumption
  <2>4. master_rt \in RtRow /\ spec_rt \in [Tags -> RtRow]
    BY <1>2 DEF RtRow
  <2>5. /\ free_tag \in 0 .. SpTagLen - 1 /\ next_tag \in Tags
        /\ free_entry \in 0 .. PhyAmount /\ next_index \in Phys
        /\ alloc_ptr \in Slots /\ com_ptr \in Slots /\ used_entry_cnt \in 0 .. RobDepth
    BY <1>1, <1>2 DEF Tags, Phys, Slots
  <2>6. QED
    BY <1>2, <2>1, <2>2, <2>3, <2>4, <2>5 DEF TypeOK, Entry
<1>9. QED
  BY <1>4, <1>5, <1>7, <1>8 DEF Structure

(* A step that changes nothing keeps the structure.                        *)
LEMMA StructureStutters ==
    ASSUME Structure, UNCHANGED vars
    PROVE  Structure'
BY DEF vars, prfVars, rtVars, robVars, Structure, TypeOK, SlotAt, RowsAreWhole, PoolIsRing,
       TagsAreRing, Held, Opened, Unfinished, InFlight, From, Age, Back

(* Types, counters and rings, in every behavior: no count of the pool, the *)
(* tags or the ROB leaves its range, alloc_ptr stays the count ahead of    *)
(* com_ptr, and every register and tag in flight sits in its ring in       *)
(* program order.                                                          *)
THEOREM StructureHolds == Spec => []Structure
<1>1. Init => Structure
  BY InitStructure
<1>2. Structure /\ [Next]_vars => Structure'
  <2>1. SUFFICES ASSUME Structure, [Next]_vars PROVE Structure'
    OBVIOUS
  <2>2. CASE UNCHANGED vars
    BY <2>1, <2>2, StructureStutters
  <2>3. CASE Next
    BY <2>1, <2>3, StepsAreCycles, FlowStructure, SquashStructure
  <2>4. QED
    BY <2>1, <2>2, <2>3
<1>3. QED
  BY <1>1, <1>2, PTL DEF Spec

(* TypeOK in every behavior: no counter of the pools or of the ROB leaves  *)
(* its range, so no subtraction of them wraps.                             *)
THEOREM TypesHold == Spec => []TypeOK
<1>1. Structure => TypeOK
  BY DEF Structure
<1>2. QED
  BY <1>1, StructureHolds, PTL

(* RingsAgree in every behavior: the free registers are the ring           *)
(* complement of those in flight, which sit in program order behind        *)
(* next_index, whatever commits, stalls or is squashed.                    *)
THEOREM RingsHold == Spec => []RingsAgree
<1>1. Structure => RingsAgree
  <2>1. SUFFICES ASSUME Structure PROVE RingsAgree
    OBVIOUS
  <2>2. \A i : From(Held, i) = {j \in Held : Age(j) >= Age(i)}
    BY DEF From
  <2>3. QED
    BY <2>1, <2>2 DEF Structure, PoolIsRing, RingsAgree, Back, Held
<1>2. QED
  BY <1>1, StructureHolds, PTL

-----------------------------------------------------------------------------
(***************************************************************************)
(* The rename table maps what is in flight: the master row, and the row    *)
(* each open branch would be rolled back to.                               *)
(***************************************************************************)

(* What a row of the table says of one register.                           *)

(* MapOf for any rows and any oldest slot, so that it can be read both     *)
(* before a step and after it.                                             *)
WritersIn(tbl, S, a) == {i \in S : Writes(tbl[i].uop, a)}
YoungestFrom(base, S) == CHOOSE i \in S : \A j \in S : AgeFrom(base, j) <= AgeFrom(base, i)
MapFrom(tbl, base, S) ==
    [a \in Arch |-> IF WritersIn(tbl, S, a) = {} THEN NoReg
                    ELSE tbl[YoungestFrom(base, WritersIn(tbl, S, a))].pr]

(* v is the register of the youngest writer of a in S, if there is one.    *)
IsLast(tbl, base, S, a, w) ==
    w \in WritersIn(tbl, S, a) /\ \A j \in WritersIn(tbl, S, a) : AgeFrom(base, j) <= AgeFrom(base, w)
Reads(tbl, base, S, a, v) ==
    \/ WritersIn(tbl, S, a) = {} /\ v = NoReg
    \/ \E w \in S : IsLast(tbl, base, S, a, w) /\ v = tbl[w].pr

(* MapOf and its parts are these operators at the present state.           *)
LEMMA MapIsFrom ==
    /\ \A S, a : Writers(S, a) = WritersIn(table, S, a)
    /\ \A S : Youngest(S) = YoungestFrom(com_ptr, S)
    /\ \A S : MapOf(S) = MapFrom(table, com_ptr, S)
BY Zenon DEF Writers, WritersIn, Youngest, YoungestFrom, MapOf, MapFrom, Age, AgeFrom

(* A set of rows has a youngest, and only one.                             *)
LEMMA YoungestExists ==
    ASSUME NEW base \in Slots, NEW S, S \subseteq Slots, S # {}
    PROVE  /\ YoungestFrom(base, S) \in S
           /\ \A j \in S : AgeFrom(base, j) <= AgeFrom(base, YoungestFrom(base, S))
           /\ \A w \in S : (\A j \in S : AgeFrom(base, j) <= AgeFrom(base, w))
                              => w = YoungestFrom(base, S)
<1> DEFINE A == {AgeFrom(base, i) : i \in S}
<1>1. \A i \in S : i \in Slots /\ AgeFrom(base, i) \in Slots /\ AgeFrom(base, i) \in Int
  BY SlotsAndAges DEF Slots
<1>2. \A i, j \in S : AgeFrom(base, i) = AgeFrom(base, j) => i = j
  BY SlotsAndAges
<1>3. PICK n \in A : \A m \in A : m <= n
  <2>1. IsFiniteSet(Slots)
    BY RobAssumption, FS_Interval DEF Slots
  <2>2. A \in SUBSET Slots
    BY <1>1
  <2>3. IsFiniteSet(A) /\ A # {} /\ \A m \in A : m \in Int
    BY <1>1, <2>1, <2>2, FS_Subset
  <2> HIDE DEF A
  <2>4. QED
    BY <2>3, HighestExists
<1>4. \E i \in S : \A j \in S : AgeFrom(base, j) <= AgeFrom(base, i)
  BY <1>3
<1>5. /\ YoungestFrom(base, S) \in S
      /\ \A j \in S : AgeFrom(base, j) <= AgeFrom(base, YoungestFrom(base, S))
  BY <1>4 DEF YoungestFrom
<1>6. ASSUME NEW w \in S, \A j \in S : AgeFrom(base, j) <= AgeFrom(base, w)
      PROVE  w = YoungestFrom(base, S)
  <2> DEFINE y == YoungestFrom(base, S)
  <2>1. y \in S /\ AgeFrom(base, w) <= AgeFrom(base, y) /\ AgeFrom(base, y) <= AgeFrom(base, w)
    BY <1>5, <1>6
  <2> HIDE DEF y
  <2>2. AgeFrom(base, w) = AgeFrom(base, y)
    BY <1>1, <2>1
  <2>3. QED
    BY <1>2, <2>1, <2>2 DEF y
<1>7. QED
  BY <1>5, <1>6

(* A row is the map of S when it says so of every register.                *)
LEMMA MapReads ==
    ASSUME NEW tbl, NEW base \in Slots, NEW S, S \subseteq Slots
    PROVE  /\ \A a \in Arch : Reads(tbl, base, S, a, MapFrom(tbl, base, S)[a])
           /\ \A row : /\ row = [a \in Arch |-> row[a]]
                       /\ \A a \in Arch : Reads(tbl, base, S, a, row[a])
                       => row = MapFrom(tbl, base, S)
<1> DEFINE m == MapFrom(tbl, base, S)
           W(a) == WritersIn(tbl, S, a)
<1>1. m = [a \in Arch |-> IF W(a) = {} THEN NoReg ELSE tbl[YoungestFrom(base, W(a))].pr]
  BY Zenon DEF MapFrom
<1>2. \A a : W(a) \subseteq Slots /\ W(a) \subseteq S
  BY DEF WritersIn
<1>3. ASSUME NEW a \in Arch PROVE Reads(tbl, base, S, a, m[a])
  <2>1. CASE W(a) = {}
    BY <1>1, <2>1 DEF Reads
  <2>2. CASE W(a) # {}
    <3>1. /\ YoungestFrom(base, W(a)) \in W(a)
          /\ \A j \in W(a) : AgeFrom(base, j) <= AgeFrom(base, YoungestFrom(base, W(a)))
      <4> HIDE DEF W
      <4>1. QED
        BY <1>2, <2>2, YoungestExists
    <3>2. IsLast(tbl, base, S, a, YoungestFrom(base, W(a)))
      BY <3>1 DEF IsLast
    <3>3. m[a] = tbl[YoungestFrom(base, W(a))].pr
      BY <1>1, <2>2
    <3> HIDE DEF m, W
    <3>4. QED
      BY <1>2, <3>1, <3>2, <3>3 DEF Reads
  <2>3. QED
    BY <2>1, <2>2
<1>4. ASSUME NEW a \in Arch, NEW v, Reads(tbl, base, S, a, v) PROVE v = m[a]
  <2>1. CASE W(a) = {}
    <3>1. v = NoReg
      BY <1>4, <2>1 DEF Reads, IsLast
    <3>2. QED
      BY <1>1, <2>1, <3>1
  <2>2. CASE W(a) # {}
    <3>1. PICK w \in W(a) : (\A j \in W(a) : AgeFrom(base, j) <= AgeFrom(base, w)) /\ v = tbl[w].pr
      BY <1>4, <2>2 DEF Reads, IsLast
    <3>2. w = YoungestFrom(base, W(a))
      <4> HIDE DEF W
      <4>1. QED
        BY <1>2, <2>2, <3>1, YoungestExists
    <3>3. m[a] = tbl[YoungestFrom(base, W(a))].pr
      BY <1>1, <2>2
    <3>4. QED
      BY <3>1, <3>2, <3>3
  <2>3. QED
    BY <2>1, <2>2
<1>5. ASSUME NEW row, row = [a \in Arch |-> row[a]],
             \A a \in Arch : Reads(tbl, base, S, a, row[a])
      PROVE  row = m
  <2>1. \A a \in Arch : row[a] = m[a]
    BY <1>4, <1>5
  <2>2. m = [a \in Arch |-> m[a]]
    BY <1>1
  <2> HIDE DEF m
  <2>3. QED
    BY <1>5, <2>1, <2>2
<1>6. QED
  BY <1>3, <1>5

-----------------------------------------------------------------------------
(* The commit.                                                             *)

(* No two rows in flight hold one register: each sits at its own distance  *)
(* behind next_index.                                                      *)
LEMMA HeldApart ==
    ASSUME Structure, NEW i \in Held, NEW j \in Held, table[i].pr = table[j].pr
    PROVE  i = j
<1> DEFINE a == Cardinality(From(Held, i))
           b == Cardinality(From(Held, j))
<1>1. /\ RobTyped /\ next_index \in Phys /\ PhyAmount \in Nat \ {0}
      /\ Cardinality(Held) \in 0 .. PhyAmount /\ Held \subseteq InFlight
  BY StructureTypes
<1>2. Back(next_index, a) = Back(next_index, b)
  BY DEF Structure, PoolIsRing
<1>3. a \in 1 .. Cardinality(Held) /\ b \in 1 .. Cardinality(Held)
  BY <1>1, FromCounts
<1> HIDE DEF a, b
<1>4. a \in 1 .. PhyAmount /\ b \in 1 .. PhyAmount
  BY <1>1, <1>3
<1>5. a = b
  BY <1>1, <1>2, <1>4, PoolSteps
<1>6. QED
  BY <1>1, <1>5, FromCounts DEF a, b

(* The rows that stay when the retiring ones go.                           *)
LEMMA StayingRows ==
    ASSUME Structure
    PROVE  /\ com_ptr \in Slots /\ Gone \in 0 .. used_entry_cnt
           /\ \A i \in InFlight : /\ i \in Slots /\ Age(i) \in 0 .. used_entry_cnt - 1
                                  /\ Age(i) \in Int
           /\ \A i \in InFlight : i \in Retiring <=> Age(i) < Gone
           /\ \A i \in InFlight \ Retiring : Age(i) >= Gone
           /\ Retiring \subseteq InFlight
           /\ \A i \in Retiring, j \in InFlight \ Retiring : Age(i) < Age(j)
<1>1. RobTyped /\ used_entry_cnt \in 0 .. RobDepth /\ com_ptr \in Slots /\ RobDepth \in Nat \ {0}
  BY StructureTypes, RobAssumption DEF RobTyped
<1>2. Gone \in 0 .. used_entry_cnt /\ Retiring = {i \in Slots : Age(i) < Gone}
  BY <1>1, RetiringIsPrefix
<1>3. \A i \in Slots : Age(i) \in 0 .. RobDepth - 1
  BY <1>1, SlotsAndAges, AgeIsFrom DEF Slots
<1>4. \A i \in InFlight : i \in Slots /\ Age(i) \in 0 .. used_entry_cnt - 1
  BY <1>1, <1>3 DEF InFlight
<1>5. Retiring \subseteq InFlight
  BY <1>1, <1>2, <1>3 DEF InFlight
<1>6. QED
  BY <1>1, <1>2, <1>4, <1>5

(* A row that writes a register holds one: a row in use is whole.          *)
LEMMA WritersHold ==
    ASSUME Structure, NEW i \in InFlight, table[i].uop.dest # NoReg
    PROVE  i \in Held
BY DEF Structure, RowsAreWhole, Held, Active

(* The commit row says of every register what the rows that stay write: it *)
(* forgets a mapping exactly when the row that made it retires.            *)
LEMMA DropsExactly ==
    ASSUME Structure, NEW S, S \subseteq InFlight, NEW a \in Arch, NEW v,
           Reads(table, com_ptr, S, a, v)
    PROVE  Reads(table, com_ptr, S \ Retiring, a,
                 IF <<a, v>> \in Drops(Retiring) THEN NoReg ELSE v)
<1> DEFINE W(X) == WritersIn(table, X, a)
<1>1. /\ \A i \in InFlight : Age(i) \in Int
      /\ \A i \in Retiring, j \in InFlight \ Retiring : Age(i) < Age(j)
      /\ Retiring \subseteq InFlight
  BY StayingRows
<1>2. \A i : AgeFrom(com_ptr, i) = Age(i)
  BY AgeIsFrom
<1>3. W(S \ Retiring) = W(S) \ Retiring /\ W(S) \subseteq InFlight
  BY DEF WritersIn
<1>4. \A i \in W(S) : table[i].uop.dest = a /\ a # NoReg /\ i \in Held
  BY <1>3, WritersHold DEF WritersIn, Writes, RenameReq
<1>5. CASE W(S) = {}
  <2>1. v = NoReg
    BY <1>5 DEF Reads, IsLast
  <2>2. QED
    BY <1>3, <1>5, <2>1 DEF Reads
<1>6. CASE W(S) # {}
  <2>1. PICK w \in W(S) : (\A j \in W(S) : Age(j) <= Age(w)) /\ v = table[w].pr
    BY <1>2, <1>6 DEF Reads, IsLast
  <2>2. CASE w \in Retiring
    <3>1. W(S \ Retiring) = {}
      BY <1>1, <1>3, <2>1, <2>2
    <3>2. <<a, v>> \in Drops(Retiring)
      <4>1. w \in {j \in Retiring : WbRequired(table[j].uop)}
        BY <1>4, <2>1, <2>2 DEF WbRequired
      <4>2. <<table[w].uop.dest, table[w].pr>> = <<a, v>>
        BY <1>4, <2>1
      <4>3. QED
        BY <4>1, <4>2 DEF Drops
    <3>3. QED
      BY <3>1, <3>2 DEF Reads
  <2>3. CASE w \notin Retiring
    <3>1. <<a, v>> \notin Drops(Retiring)
      <4>1. SUFFICES ASSUME <<a, v>> \in Drops(Retiring) PROVE FALSE
        OBVIOUS
      <4>2. PICK k \in Retiring : WbRequired(table[k].uop) /\ <<a, v>> = <<table[k].uop.dest, table[k].pr>>
        BY <4>1 DEF Drops
      <4>3. k \in Held /\ table[k].pr = v
        BY <1>1, <4>2, WritersHold DEF WbRequired
      <4>4. w \in Held /\ table[w].pr = v
        BY <1>4, <2>1
      <4>5. k = w
        BY <4>3, <4>4, HeldApart
      <4>6. QED
        BY <2>3, <4>2, <4>5
    <3>2. w \in W(S \ Retiring) /\ \A j \in W(S \ Retiring) : AgeFrom(com_ptr, j) <= AgeFrom(com_ptr, w)
      BY <1>2, <1>3, <2>1, <2>3
    <3>3. IsLast(table, com_ptr, S \ Retiring, a, w) /\ w \in S \ Retiring
      BY <3>2 DEF IsLast, WritersIn
    <3>4. QED
      BY <2>1, <3>1, <3>3 DEF Reads
  <2>4. QED
    BY <2>2, <2>3
<1>7. QED
  BY <1>5, <1>6

-----------------------------------------------------------------------------
(* The lanes that land.                                                    *)

(* What a cycle makes of row i, and of the row a lane lands in.            *)
Kept(finished, i) ==
    /\ table'[i].uop = table[i].uop
    /\ table'[i].pr = table[i].pr
    /\ table'[i].tag = table[i].tag
    /\ table'[i].wb_fin <=> table[i].wb_fin \/ i \in finished
    /\ rsv'[i] = IF i \in finished THEN Ready ELSE Woken(i, finished)

Landed(finished, g, l) ==
    LET row == table'[NewSlot(g, l)]
    IN  /\ row.uop = g[l]
        /\ row.pr = IF l \in Takers(g) THEN PrIdx(g, l) ELSE NoReg
        /\ row.tag = IF l \in Branches(g) THEN {LaneTag(g, l)} ELSE {}
        /\ row.wb_fin = FALSE
        /\ rsv'[NewSlot(g, l)] = RenameSrc(g, l, Drops(Retiring), Written(finished))

(* Every row after a cycle, those in use as Kept and the lanes that land   *)
(* as Landed.                                                              *)
LEMMA RowsAfter ==
    ASSUME Structure,
           NEW finished, NEW g, NEW landed, NEW resolved,
           CycleOf(finished, g, landed, resolved)
    PROVE  /\ \A i \in InFlight : Kept(finished, i)
           /\ landed => \A l \in Valid(g) : Landed(finished, g, l)
<1>1. TypeOK /\ RobTyped /\ alloc_ptr = SlotAt(used_entry_cnt)
  BY StructureTypes DEF Structure
<1>2. /\ \A i \in InFlight :
            /\ table'[i].uop = table[i].uop
            /\ table'[i].pr = table[i].pr
            /\ table'[i].tag = table[i].tag
            /\ table'[i].wb_fin <=> table[i].wb_fin \/ i \in finished
            /\ rsv'[i] = IF i \in finished THEN Ready ELSE Woken(i, finished)
      /\ \A l \in Valid(g) : landed =>
            /\ table'[NewSlot(g, l)] = RobRow(g, l)
            /\ rsv'[NewSlot(g, l)] = RenameSrc(g, l, Drops(Retiring), Written(finished))
  BY <1>1, FlowRows
<1>3. ASSUME NEW l \in Valid(g), landed PROVE Landed(finished, g, l)
  <2> DEFINE row == table'[NewSlot(g, l)]
  <2>1. row = [uop |-> g[l],
               pr  |-> IF l \in Takers(g) THEN PrIdx(g, l) ELSE NoReg,
               tag |-> IF l \in Branches(g) THEN {LaneTag(g, l)} ELSE {},
               wb_fin |-> FALSE]
    BY <1>2, <1>3 DEF RobRow, LaneTag
  <2>2. rsv'[NewSlot(g, l)] = RenameSrc(g, l, Drops(Retiring), Written(finished))
    BY <1>2, <1>3
  <2> HIDE DEF row
  <2>3. /\ row.uop = g[l]
        /\ row.pr = IF l \in Takers(g) THEN PrIdx(g, l) ELSE NoReg
        /\ row.tag = IF l \in Branches(g) THEN {LaneTag(g, l)} ELSE {}
        /\ row.wb_fin = FALSE
    BY <2>1
  <2>4. QED
    BY <2>2, <2>3, Zenon DEF Landed, row
<1>4. \A i \in InFlight : Kept(finished, i)
  BY <1>2 DEF Kept
<1>5. QED
  BY <1>3, <1>4

(* Where the rows are after a cycle: those that stay move up by what       *)
(* retires, and the lanes land behind them in order.                       *)
LEMMA PlacesAfter ==
    ASSUME Structure,
           NEW finished, NEW g, NEW landed, NEW resolved,
           CycleOf(finished, g, landed, resolved)
    PROVE  /\ \A i \in InFlight \ Retiring : i \in InFlight' /\ AgeNext(i) = Age(i) - Gone
           /\ landed => \A l \in Valid(g) :
                 /\ NewSlot(g, l) \in InFlight' \ InFlight
                 /\ AgeNext(NewSlot(g, l)) = used_entry_cnt + Before(Valid(g), l) - Gone
                 /\ Before(Valid(g), l) \in Nat
           /\ Gone \in Nat /\ used_entry_cnt \in Nat
           /\ InFlight' = (InFlight \ Retiring) \cup
                             {NewSlot(g, l) : l \in IF landed THEN Valid(g) ELSE {}}
<1> DEFINE took == Took(g, landed)
<1>1. TypeOK /\ RobTyped /\ alloc_ptr = SlotAt(used_entry_cnt)
  BY StructureTypes DEF Structure
<1>2. /\ used_entry_cnt \in 0 .. RobDepth /\ RobDepth \in Nat \ {0}
      /\ Gone \in 0 .. used_entry_cnt
      /\ \A i \in InFlight : i \in Slots /\ Age(i) \in 0 .. used_entry_cnt - 1
      /\ \A i \in InFlight : i \in Retiring <=> Age(i) < Gone
  BY <1>1, RobAssumption, StayingRows DEF RobTyped
<1>3. /\ took \in 0 .. RobDepth - used_entry_cnt
      /\ InFlight' = {i \in Slots : Age(i) \in Gone .. used_entry_cnt + took - 1}
      /\ \A i \in InFlight' : AgeNext(i) = Age(i) - Gone
  BY <1>1, FlowPointers
<1>4. \A l \in Valid(g) : landed =>
         /\ NewSlot(g, l) \in Slots
         /\ Age(NewSlot(g, l)) = used_entry_cnt + Before(Valid(g), l)
         /\ NewSlot(g, l) \in InFlight' \ InFlight
  BY <1>1, FlowPointers
<1>5. \A i \in InFlight' : i \in InFlight \/ \E l \in Valid(g) : landed /\ i = NewSlot(g, l)
  BY <1>1, FlowPointers
<1> HIDE DEF took
<1>6. ASSUME NEW i \in InFlight
      PROVE  i \in InFlight' <=> i \notin Retiring
  <2>1. Age(i) \in 0 .. used_entry_cnt - 1 /\ i \in Slots
    BY <1>2
  <2>2. Age(i) \in Gone .. used_entry_cnt + took - 1 <=> ~ (Age(i) < Gone)
    BY <1>2, <1>3, <2>1
  <2>3. QED
    BY <1>2, <1>3, <2>1, <2>2
<1>7. ASSUME landed, NEW l \in Valid(g)
      PROVE  /\ NewSlot(g, l) \in InFlight' \ InFlight
             /\ AgeNext(NewSlot(g, l)) = used_entry_cnt + Before(Valid(g), l) - Gone
             /\ Before(Valid(g), l) \in Nat
  <2>1. /\ Age(NewSlot(g, l)) = used_entry_cnt + Before(Valid(g), l)
        /\ NewSlot(g, l) \in InFlight' \ InFlight
    BY <1>4, <1>7
  <2>2. AgeNext(NewSlot(g, l)) = Age(NewSlot(g, l)) - Gone
    BY <1>3, <2>1
  <2>3. Before(Valid(g), l) \in Nat
    <3>1. Valid(g) \in SUBSET Lanes /\ l \in Int
      BY LaneSets DEF CycleOf, Lanes
    <3>2. Cardinality(Valid(g)) \in Nat /\ Before(Valid(g), l) \in 0 .. Cardinality(Valid(g))
      BY <3>1, LaneCounts
    <3>3. QED
      BY <3>2
  <2>4. AgeNext(NewSlot(g, l)) = used_entry_cnt + Before(Valid(g), l) - Gone
    <3> DEFINE b == Before(Valid(g), l)
               s == NewSlot(g, l)
    <3>1. AgeNext(s) = Age(s) - Gone /\ Age(s) = used_entry_cnt + b /\ b \in Nat
      BY <2>1, <2>2, <2>3
    <3> HIDE DEF b, s
    <3>2. AgeNext(s) = used_entry_cnt + b - Gone
      BY <1>2, <3>1
    <3>3. QED
      BY <3>2 DEF b, s
  <2>5. QED
    BY <2>1, <2>3, <2>4
<1>8. InFlight' = (InFlight \ Retiring) \cup
                    {NewSlot(g, l) : l \in IF landed THEN Valid(g) ELSE {}}
  <2>1. \A l \in (IF landed THEN Valid(g) ELSE {}) : landed /\ l \in Valid(g)
    OBVIOUS
  <2>2. QED
    BY <1>5, <1>6, <1>7, <2>1
<1>9. QED
  BY <1>2, <1>3, <1>6, <1>7, <1>8

(* The rows of S with the lanes NL behind them.                            *)
Joined(S, g, NL) == S \cup {NewSlot(g, l) : l \in NL}

(* Where no lane writes a register, it reads as before the cycle.          *)
LEMMA ReadsOn ==
    ASSUME Structure,
           NEW finished, NEW g, NEW landed, NEW resolved,
           CycleOf(finished, g, landed, resolved),
           NEW S, S \subseteq InFlight \ Retiring,
           NEW NL, NL \subseteq Valid(g), NL = {} \/ landed,
           NEW a, \A l \in NL : ~Writes(g[l], a),
           NEW v, Reads(table, com_ptr, S, a, v)
    PROVE  Reads(table', com_ptr', Joined(S, g, NL), a, v)
<1> DEFINE T == Joined(S, g, NL)
<1>1. /\ \A i \in InFlight : Kept(finished, i)
      /\ landed => \A l \in Valid(g) : Landed(finished, g, l)
      /\ landed \in BOOLEAN
  BY RowsAfter DEF CycleOf
<1>2. \A i \in S : table'[i].uop = table[i].uop /\ table'[i].pr = table[i].pr
  BY <1>1 DEF Kept
<1>3. \A l \in NL : table'[NewSlot(g, l)].uop = g[l]
  <2>1. ASSUME NEW l \in NL PROVE Landed(finished, g, l)
    BY <1>1
  <2>2. QED
    BY <2>1 DEF Landed
<1>4. WritersIn(table', T, a) = WritersIn(table, S, a)
  BY <1>2, <1>3 DEF WritersIn, Joined
<1>5. \A i, j \in S : AgeFrom(com_ptr', i) <= AgeFrom(com_ptr', j)
                        <=> AgeFrom(com_ptr, i) <= AgeFrom(com_ptr, j)
  <2>1. Gone \in Int /\ \A i \in S : Age(i) \in Int
    BY StayingRows
  <2>2. \A i \in S : AgeNext(i) = Age(i) - Gone
    BY PlacesAfter
  <2>3. \A i \in S : AgeFrom(com_ptr', i) = Age(i) - Gone /\ AgeFrom(com_ptr, i) = Age(i)
    BY <2>2, AgeIsFrom DEF AgeNext
  <2>4. QED
    BY <2>1, <2>3
<1>6. CASE WritersIn(table, S, a) = {}
  BY <1>4, <1>6 DEF Reads, IsLast
<1>7. CASE WritersIn(table, S, a) # {}
  <2>1. PICK w \in S : IsLast(table, com_ptr, S, a, w) /\ v = table[w].pr
    BY <1>7 DEF Reads
  <2>2. IsLast(table', com_ptr', T, a, w)
    <3> HIDE DEF T
    <3>1. WritersIn(table, S, a) \subseteq S
      BY DEF WritersIn
    <3>2. QED
      BY <1>4, <1>5, <2>1, <3>1 DEF IsLast
  <2>3. v = table'[w].pr /\ w \in T
    BY <1>2, <2>1 DEF Joined
  <2> HIDE DEF T
  <2>4. QED
    BY <2>2, <2>3 DEF Reads, T
<1>8. QED
  BY <1>6, <1>7

(* Where one does, it reads as the last of them.                           *)
LEMMA ReadsLane ==
    ASSUME Structure,
           NEW finished, NEW g, NEW landed, NEW resolved,
           CycleOf(finished, g, landed, resolved), landed,
           NEW S, S \subseteq InFlight \ Retiring,
           NEW NL, NL \subseteq Valid(g),
           NEW a, NEW k \in NL, Writes(g[k], a), \A l \in NL : Writes(g[l], a) => l <= k
    PROVE  Reads(table', com_ptr', Joined(S, g, NL), a, PrIdx(g, k))
<1> DEFINE T == Joined(S, g, NL)
           s == NewSlot(g, k)
<1>1. /\ Valid(g) \in SUBSET Lanes /\ k \in Takers(g)
      /\ \A l \in Valid(g) : l \in Int
  BY LaneSets DEF CycleOf, Lanes, Writes, RenameReq
<1>2. \A l \in NL : Landed(finished, g, l)
  BY RowsAfter
<1>3. /\ \A l \in NL : table'[NewSlot(g, l)].uop = g[l]
      /\ table'[s].pr = PrIdx(g, k)
  BY <1>1, <1>2 DEF Landed
<1>4. /\ Gone \in Nat /\ used_entry_cnt \in Nat
      /\ \A i \in S : AgeNext(i) = Age(i) - Gone
      /\ \A l \in NL : /\ AgeNext(NewSlot(g, l)) = used_entry_cnt + Before(Valid(g), l) - Gone
                        /\ Before(Valid(g), l) \in Nat
  BY PlacesAfter
<1>5. \A i \in S : Age(i) \in 0 .. used_entry_cnt - 1
  BY StayingRows
<1>6. \A l \in NL : l <= k => Before(Valid(g), l) <= Before(Valid(g), k)
  <2>1. \A x, z \in Int : x <= z => Before(Valid(g), x) <= Before(Valid(g), z)
    BY <1>1, LaneCounts
  <2>2. QED
    BY <1>1, <2>1
<1>7. ASSUME NEW j \in WritersIn(table', T, a)
      PROVE  AgeNext(j) <= AgeNext(s)
  <2> DEFINE b == Before(Valid(g), k)
  <2>1. AgeNext(s) = used_entry_cnt + b - Gone /\ b \in Nat
    BY <1>4
  <2>2. CASE j \in S
    <3>1. AgeNext(j) = Age(j) - Gone /\ Age(j) \in 0 .. used_entry_cnt - 1
      BY <1>4, <1>5, <2>2
    <3> HIDE DEF b, s
    <3>2. QED
      BY <1>4, <2>1, <3>1
  <2>3. CASE \E l \in NL : j = NewSlot(g, l)
    <3>1. PICK l \in NL : j = NewSlot(g, l)
      BY <2>3
    <3>2. l <= k
      <4>1. table'[j].uop = g[l]
        BY <1>3, <3>1
      <4>2. QED
        BY <4>1 DEF WritersIn
    <3> DEFINE c == Before(Valid(g), l)
    <3>3. AgeNext(j) = used_entry_cnt + c - Gone /\ c \in Nat /\ c <= b
      BY <1>4, <1>6, <3>1, <3>2
    <3> HIDE DEF b, c, s
    <3>4. QED
      BY <1>4, <2>1, <3>3
  <2>4. QED
    BY <2>2, <2>3 DEF WritersIn, Joined
<1>8. s \in WritersIn(table', T, a) /\ s \in T
  BY <1>3 DEF WritersIn, Joined
<1>9. IsLast(table', com_ptr', T, a, s)
  <2> HIDE DEF s, T
  <2>1. QED
    BY <1>7, <1>8 DEF IsLast, AgeNext
<1> HIDE DEF s, T
<1>10. QED
  BY <1>3, <1>8, <1>9 DEF Reads, T

-----------------------------------------------------------------------------
(* The maps after a cycle.                                                 *)

(* A repaired row is the map of what stays of its path.                    *)
LEMMA DroppedMaps ==
    ASSUME Structure,
           NEW finished, NEW g, NEW landed, NEW resolved,
           CycleOf(finished, g, landed, resolved),
           NEW S, S \subseteq InFlight, NEW row, row = MapFrom(table, com_ptr, S)
    PROVE  Dropped(row, Drops(Retiring)) = MapFrom(table', com_ptr', S \ Retiring)
<1> DEFINE new == Dropped(row, Drops(Retiring))
           D == Drops(Retiring)
<1>1. /\ com_ptr \in Slots /\ com_ptr' \in Slots
      /\ S \subseteq Slots /\ S \ Retiring \subseteq Slots
  BY StructureTypes, FlowPointers DEF RobTyped, InFlight
<1>2. ASSUME NEW a \in Arch PROVE Reads(table', com_ptr', S \ Retiring, a, new[a])
  <2> DEFINE v == IF <<a, row[a]>> \in D THEN NoReg ELSE row[a]
  <2>1. Reads(table, com_ptr, S, a, row[a])
    BY <1>1, MapReads
  <2>2. Reads(table, com_ptr, S \ Retiring, a, v)
    BY <2>1, DropsExactly
  <2>3. new[a] = v
    BY DEF Dropped
  <2>4. Joined(S \ Retiring, g, {}) = S \ Retiring
    BY DEF Joined
  <2>5. Reads(table', com_ptr', Joined(S \ Retiring, g, {}), a, v)
    <3> HIDE DEF v
    <3>1. ASSUME NEW R, R = S \ Retiring, NEW NL, NL = {}
          PROVE  Reads(table', com_ptr', Joined(R, g, NL), a, v)
      <4>1. R \subseteq InFlight \ Retiring /\ NL \subseteq Valid(g) /\ (NL = {} \/ landed)
            /\ (\A l \in NL : ~Writes(g[l], a)) /\ Reads(table, com_ptr, R, a, v)
        BY <2>2, <3>1
      <4>2. QED
        BY <4>1, ReadsOn
    <3>2. QED
      BY <3>1
  <2>6. QED
    BY <2>3, <2>4, <2>5
<1>3. new = [a \in Arch |-> new[a]]
  BY DEF Dropped
<1> HIDE DEF new
<1>4. new = MapFrom(table', com_ptr', S \ Retiring)
  BY <1>1, <1>2, <1>3, MapReads
<1>5. QED
  BY <1>4 DEF new

(* The row behind a lane is the map of what stays and the lanes up to it.  *)
LEMMA StageMaps ==
    ASSUME Structure, MasterMapsYoungest,
           NEW finished, NEW g, NEW landed, NEW resolved,
           CycleOf(finished, g, landed, resolved), landed,
           NEW port \in 0 .. FeLanes,
           NEW NL, NL = {l \in Valid(g) : l <= port}
    PROVE  StageRow(Drops(Retiring), Renames(g), port)
              = MapFrom(table', com_ptr', Joined(InFlight \ Retiring, g, NL))
<1> DEFINE D == Drops(Retiring)
           new == StageRow(D, Renames(g), port)
           T == Joined(InFlight \ Retiring, g, NL)
<1>1. /\ com_ptr \in Slots /\ com_ptr' \in Slots /\ InFlight \subseteq Slots
      /\ g \in Groups /\ landed \in BOOLEAN
  BY StructureTypes, FlowPointers DEF RobTyped, InFlight, CycleOf
<1>2. T \subseteq Slots
  <2>1. \A l \in NL : NewSlot(g, l) \in InFlight'
    BY PlacesAfter
  <2>2. InFlight' \subseteq Slots
    BY DEF InFlight
  <2>3. QED
    BY <1>1, <2>1, <2>2 DEF Joined
<1>3. ASSUME NEW a \in Arch PROVE Reads(table', com_ptr', T, a, new[a])
  <2>1. /\ Renamers(g, port, a) = {} => new[a] = Dropped(master_rt, D)[a]
        /\ Renamers(g, port, a) # {} =>
              \E l \in Renamers(g, port, a) :
                 /\ \A k \in Renamers(g, port, a) : k <= l
                 /\ l \in Takers(g)
                 /\ new[a] = PrIdx(g, l)
    BY <1>1, StageReads
  <2>2. Renamers(g, port, a) = {l \in NL : Writes(g[l], a)}
    <3>1. \A l \in Lanes : Writes(g[l], a) => l \in Valid(g)
      BY <1>1, LaneSets DEF Writes, RenameReq
    <3>2. Valid(g) \subseteq Lanes
      BY <1>1, LaneSets
    <3>3. QED
      BY <3>1, <3>2 DEF Renamers
  <2> HIDE DEF T, new
  <2>3. CASE Renamers(g, port, a) = {}
    <3> DEFINE v == IF <<a, master_rt[a]>> \in D THEN NoReg ELSE master_rt[a]
    <3>1. new[a] = v
      BY <2>1, <2>3 DEF Dropped
    <3>2. master_rt = MapFrom(table, com_ptr, InFlight)
      BY MapIsFrom DEF MasterMapsYoungest
    <3>3. Reads(table, com_ptr, InFlight, a, master_rt[a])
      BY <1>1, <3>2, MapReads
    <3>4. Reads(table, com_ptr, InFlight \ Retiring, a, v)
      BY <3>3, DropsExactly
    <3> HIDE DEF v
    <3>5. ASSUME NEW R, R = InFlight \ Retiring
          PROVE  Reads(table', com_ptr', Joined(R, g, NL), a, v)
      <4>1. R \subseteq InFlight \ Retiring /\ NL \subseteq Valid(g) /\ (NL = {} \/ landed)
            /\ (\A l \in NL : ~Writes(g[l], a)) /\ Reads(table, com_ptr, R, a, v)
        BY <1>1, <2>2, <2>3, <3>4, <3>5
      <4>2. QED
        BY <4>1, ReadsOn
    <3>6. QED
      BY <3>1, <3>5 DEF T
  <2>4. CASE Renamers(g, port, a) # {}
    <3>1. PICK l \in NL : Writes(g[l], a) /\ (\A k \in NL : Writes(g[k], a) => k <= l)
                          /\ new[a] = PrIdx(g, l)
      BY <2>1, <2>2, <2>4
    <3>2. ASSUME NEW R, R = InFlight \ Retiring
          PROVE  Reads(table', com_ptr', Joined(R, g, NL), a, PrIdx(g, l))
      <4>1. R \subseteq InFlight \ Retiring /\ NL \subseteq Valid(g)
        BY <3>2
      <4>2. QED
        BY <3>1, <4>1, ReadsLane
    <3>3. QED
      BY <3>1, <3>2 DEF T
  <2>5. QED
    BY <2>3, <2>4
<1>4. new = [a \in Arch |-> new[a]]
  BY DEF StageRow
<1> HIDE DEF new, T
<1>5. new = MapFrom(table', com_ptr', T)
  BY <1>1, <1>2, <1>3, <1>4, MapReads
<1>6. QED
  BY <1>5 DEF new, T

-----------------------------------------------------------------------------
(* The invariant.                                                          *)

(* The rows up to and including row i.                                     *)
Path(i) == {j \in InFlight : Age(j) <= Age(i)}

Maps == MasterMapsYoungest /\ SnapshotsMapTheirPath

(* The invariant in terms of MapFrom.                                      *)
LEMMA MapsSay ==
    ASSUME Maps
    PROVE  /\ master_rt = MapFrom(table, com_ptr, InFlight)
           /\ \A i \in Opened : \A t \in table[i].tag : spec_rt[t] = MapFrom(table, com_ptr, Path(i))
BY MapIsFrom DEF Maps, MasterMapsYoungest, SnapshotsMapTheirPath, Opened, Unfinished, Path

(* A cycle keeps every map: the master row that of all rows, and the       *)
(* snapshot of each open branch, old or just landed, that of its own path. *)
LEMMA FlowMaps ==
    ASSUME Structure, Maps,
           NEW finished, NEW g, NEW landed, NEW resolved,
           CycleOf(finished, g, landed, resolved)
    PROVE  /\ master_rt' = MapFrom(table', com_ptr', InFlight')
           /\ \A i \in Opened' : \A t \in table'[i].tag :
                 spec_rt'[t] = MapFrom(table', com_ptr', {j \in InFlight' : AgeNext(j) <= AgeNext(i)})
<1> DEFINE D == Drops(Retiring)
           Upto(i) == {j \in InFlight' : AgeNext(j) <= AgeNext(i)}
<1>1. /\ master_rt = MapFrom(table, com_ptr, InFlight)
      /\ \A i \in Opened : \A t \in table[i].tag : spec_rt[t] = MapFrom(table, com_ptr, Path(i))
      /\ MasterMapsYoungest
  BY MapsSay DEF Maps
<1>2. /\ g \in Groups /\ landed \in BOOLEAN
      /\ Branches(g) \subseteq Valid(g) /\ Valid(g) \in SUBSET Lanes
      /\ \A l \in Lanes : l \in 0 .. FeLanes /\ l <= FeLanes /\ l \in Int
      /\ FeLanes \in 0 .. FeLanes
      /\ landed => ~OverUse(Cardinality(Branches(g)), 0)
  BY LaneSets, CoreAssumption, RobAssumption DEF CycleOf, ReadyToGo, Lanes
<1>3. /\ ~landed => /\ master_rt' = Dropped(master_rt, D)
                    /\ \A t \in Tags : RtKeeps(t, D)
      /\ landed =>
           /\ master_rt' = StageRow(D, Renames(g), FeLanes)
           /\ \A l \in Branches(g) : spec_rt'[LaneTag(g, l)] = StageRow(D, Renames(g), l)
           /\ \A t \in Tags : (\A l \in Branches(g) : LaneTag(g, l) # t) => RtKeeps(t, D)
  BY RtAfter
<1>4. /\ \A i \in InFlight \ Retiring : i \in InFlight' /\ AgeNext(i) = Age(i) - Gone
      /\ landed => \A l \in Valid(g) :
            /\ NewSlot(g, l) \in InFlight' \ InFlight
            /\ AgeNext(NewSlot(g, l)) = used_entry_cnt + Before(Valid(g), l) - Gone
            /\ Before(Valid(g), l) \in Nat
      /\ Gone \in Nat /\ used_entry_cnt \in Nat
      /\ InFlight' = (InFlight \ Retiring) \cup
                        {NewSlot(g, l) : l \in IF landed THEN Valid(g) ELSE {}}
  BY PlacesAfter
<1>5. \A i \in InFlight : Age(i) \in 0 .. used_entry_cnt - 1
  BY StayingRows
<1>6. /\ \A i \in InFlight : Kept(finished, i)
      /\ landed => \A l \in Valid(g) : Landed(finished, g, l)
  BY RowsAfter
<1>7. Opened' = (Opened \ finished)
                   \cup {NewSlot(g, l) : l \in IF landed THEN Branches(g) ELSE {}}
      /\ Opened \ finished \subseteq InFlight' /\ Opened \subseteq InFlight
      /\ (\A i \in InFlight' \cap InFlight : Age(i) >= Gone)
  BY FlowSets, StructureTypes
<1>8. \A i \in Opened \ finished : i \in InFlight \ Retiring
  BY <1>7, StayingRows
<1> HIDE DEF D
<1>9. master_rt' = MapFrom(table', com_ptr', InFlight')
  <2>1. CASE ~landed
    <3>1. InFlight' = InFlight \ Retiring
      BY <1>4, <2>1
    <3>2. ASSUME NEW S, S = InFlight
          PROVE  Dropped(master_rt, Drops(Retiring)) = MapFrom(table', com_ptr', S \ Retiring)
      BY <1>1, <3>2, DroppedMaps
    <3>3. Dropped(master_rt, D) = MapFrom(table', com_ptr', InFlight \ Retiring)
      BY <3>2 DEF D
    <3>4. QED
      BY <1>3, <2>1, <3>1, <3>3
  <2>2. CASE landed
    <3>1. ASSUME NEW NL, NL = Valid(g)
          PROVE  StageRow(D, Renames(g), FeLanes)
                    = MapFrom(table', com_ptr', Joined(InFlight \ Retiring, g, NL))
      <4>1. NL = {l \in Valid(g) : l <= FeLanes}
        BY <1>2, <3>1
      <4>2. QED
        BY <1>1, <1>2, <2>2, <4>1, StageMaps DEF D
    <3>2. Joined(InFlight \ Retiring, g, Valid(g)) = InFlight'
      BY <1>4, <2>2 DEF Joined
    <3>3. QED
      BY <1>3, <2>2, <3>1, <3>2
  <2>3. QED
    BY <1>2, <2>1, <2>2
<1>10. ASSUME NEW i \in Opened \ finished, NEW t \in table'[i].tag
       PROVE  spec_rt'[t] = MapFrom(table', com_ptr', Upto(i))
  <2>1. i \in InFlight \ Retiring /\ t \in table[i].tag /\ i \in Opened
    BY <1>6, <1>7, <1>8 DEF Kept
  <2>2. t \in Tags
    BY <1>7, <2>1 DEF Structure, TypeOK, InFlight, Row
  <2>3. landed => \A l \in Branches(g) : LaneTag(g, l) # t
    BY <1>2, <2>1, TagsBooked
  <2>4. spec_rt'[t] = Dropped(spec_rt[t], D)
    BY <1>2, <1>3, <2>2, <2>3 DEF RtKeeps
  <2>5. spec_rt[t] = MapFrom(table, com_ptr, Path(i))
    BY <1>1, <2>1
  <2>6. Path(i) \ Retiring = Upto(i)
    <3>1. ASSUME NEW j \in InFlight \ Retiring PROVE AgeNext(j) <= AgeNext(i) <=> Age(j) <= Age(i)
      <4>1. AgeNext(j) = Age(j) - Gone /\ AgeNext(i) = Age(i) - Gone
            /\ Age(i) \in Int /\ Age(j) \in Int
        BY <1>4, <1>5, <2>1
      <4>2. QED
        BY <1>4, <4>1
    <3>2. ASSUME landed, NEW l \in Valid(g) PROVE ~ (AgeNext(NewSlot(g, l)) <= AgeNext(i))
      <4> DEFINE b == Before(Valid(g), l)
                 s == NewSlot(g, l)
      <4>1. AgeNext(s) = used_entry_cnt + b - Gone /\ b \in Nat
        BY <1>4, <3>2
      <4>2. AgeNext(i) = Age(i) - Gone /\ Age(i) \in 0 .. used_entry_cnt - 1
        BY <1>4, <1>5, <2>1
      <4> HIDE DEF b, s
      <4>3. ~ (AgeNext(s) <= AgeNext(i))
        BY <1>4, <4>1, <4>2
      <4>4. QED
        BY <4>3 DEF s
    <3>3. \A l \in (IF landed THEN Valid(g) ELSE {}) : landed /\ l \in Valid(g)
      OBVIOUS
    <3>4. QED
      BY <1>4, <3>1, <3>2, <3>3 DEF Path
  <2>7. ASSUME NEW S, S = Path(i), NEW row, row = spec_rt[t]
        PROVE  Dropped(row, Drops(Retiring)) = MapFrom(table', com_ptr', S \ Retiring)
    <3>1. S \subseteq InFlight /\ row = MapFrom(table, com_ptr, S)
      BY <2>5, <2>7 DEF Path
    <3>2. QED
      BY <3>1, DroppedMaps
  <2>8. QED
    BY <2>4, <2>6, <2>7 DEF D
<1>11. ASSUME landed, NEW l \in Branches(g), NEW t \in table'[NewSlot(g, l)].tag
       PROVE  spec_rt'[t] = MapFrom(table', com_ptr', Upto(NewSlot(g, l)))
  <2> DEFINE NL == {k \in Valid(g) : k <= l}
             s == NewSlot(g, l)
  <2>1. t = LaneTag(g, l)
    BY <1>2, <1>6, <1>11 DEF Landed
  <2>2. l \in 0 .. FeLanes /\ l \in Valid(g) /\ l \in Int
    BY <1>2
  <2>3. spec_rt'[t] = StageRow(D, Renames(g), l)
    BY <1>3, <1>11, <2>1
  <2>4. ASSUME NEW N, N = NL
        PROVE  StageRow(D, Renames(g), l)
                  = MapFrom(table', com_ptr', Joined(InFlight \ Retiring, g, N))
    BY <1>1, <1>11, <2>2, <2>4, StageMaps DEF D
  <2>5. Joined(InFlight \ Retiring, g, NL) = Upto(s)
    <3>1. ASSUME NEW j \in InFlight \ Retiring PROVE AgeNext(j) <= AgeNext(s)
      <4> DEFINE b == Before(Valid(g), l)
      <4>1. AgeNext(s) = used_entry_cnt + b - Gone /\ b \in Nat
        BY <1>4, <1>11, <2>2
      <4>2. AgeNext(j) = Age(j) - Gone /\ Age(j) \in 0 .. used_entry_cnt - 1
        BY <1>4, <1>5
      <4> HIDE DEF b, s
      <4>3. QED
        BY <1>4, <4>1, <4>2
    <3>2. ASSUME NEW k \in Valid(g) PROVE AgeNext(NewSlot(g, k)) <= AgeNext(s) <=> k <= l
      <4> DEFINE b == Before(Valid(g), l)
                 c == Before(Valid(g), k)
                 r == NewSlot(g, k)
      <4>1. AgeNext(s) = used_entry_cnt + b - Gone /\ b \in Nat
        BY <1>4, <1>11, <2>2
      <4>2. AgeNext(r) = used_entry_cnt + c - Gone /\ c \in Nat
        BY <1>4, <1>11
      <4>3. /\ k < l => c < b
            /\ l < k => b < c
            /\ k \in Int
        <5>1. \A x \in Valid(g), z \in Int : x < z => Before(Valid(g), x) < Before(Valid(g), z)
          BY <1>2, LaneCounts
        <5>2. k \in Int
          BY <1>2
        <5>3. QED
          BY <2>2, <5>1, <5>2
      <4>4. k = l => c = b
        OBVIOUS
      <4> HIDE DEF b, c, s, r
      <4>5. AgeNext(r) <= AgeNext(s) <=> k <= l
        BY <1>4, <2>2, <4>1, <4>2, <4>3, <4>4
      <4>6. QED
        BY <4>5 DEF r
    <3>3. InFlight' = (InFlight \ Retiring) \cup {NewSlot(g, k) : k \in Valid(g)}
      BY <1>4, <1>11
    <3> HIDE DEF s
    <3>4. QED
      BY <3>1, <3>2, <3>3 DEF Joined
  <2> HIDE DEF NL
  <2>6. QED
    BY <2>3, <2>4, <2>5
<1>12. ASSUME NEW i \in Opened', NEW t \in table'[i].tag
       PROVE  spec_rt'[t] = MapFrom(table', com_ptr', Upto(i))
  <2>1. CASE i \in Opened \ finished
    BY <1>10, <2>1
  <2>2. CASE landed /\ \E l \in Branches(g) : i = NewSlot(g, l)
    BY <1>11, <2>2
  <2> HIDE DEF Upto
  <2>3. \A l \in (IF landed THEN Branches(g) ELSE {}) : landed /\ l \in Branches(g)
    OBVIOUS
  <2>4. QED
    BY <1>7, <2>1, <2>2, <2>3
<1>13. QED
  BY <1>9, <1>12

(* A squash brings back the map of the branch's path, and leaves no branch *)
(* open whose row could be wrong.                                          *)
LEMMA SquashMaps ==
    ASSUME Structure, Maps, NEW i, NEW done, SquashOf(i, done)
    PROVE  /\ master_rt' = MapFrom(table', com_ptr', InFlight')
           /\ Opened' = {}
<1>1. /\ TypeOK /\ RobTyped /\ InFlight \subseteq Slots
      /\ \A k \in Opened : \A t \in table[k].tag : spec_rt[t] = MapFrom(table, com_ptr, Path(k))
  BY StructureTypes, MapsSay DEF Structure
<1>2. /\ i \in Opened /\ com_ptr' = com_ptr /\ com_ptr \in Slots
      /\ InFlight' = {j \in InFlight : Age(j) <= Age(i)}
      /\ \A j \in Slots : table'[j].uop = table[j].uop /\ table'[j].pr = table[j].pr
  BY <1>1, SquashRows DEF RobTyped
<1>3. PICK t \in table[i].tag : master_rt' = spec_rt[t]
  BY DEF SquashOf, Squash, RtMisPred
<1>4. master_rt' = MapFrom(table, com_ptr, InFlight')
  BY <1>1, <1>2, <1>3 DEF Path
<1>5. \A a : /\ WritersIn(table', InFlight', a) = WritersIn(table, InFlight', a)
             /\ WritersIn(table, InFlight', a) \subseteq InFlight'
             /\ InFlight' \subseteq Slots
  BY <1>1, <1>2 DEF WritersIn
<1>6. ASSUME NEW S, S = InFlight', NEW a \in Arch
      PROVE  (IF WritersIn(table, S, a) = {} THEN NoReg
              ELSE table[YoungestFrom(com_ptr, WritersIn(table, S, a))].pr)
           = (IF WritersIn(table', S, a) = {} THEN NoReg
              ELSE table'[YoungestFrom(com_ptr, WritersIn(table', S, a))].pr)
  <2> DEFINE W == WritersIn(table, S, a)
  <2>1. WritersIn(table', S, a) = W /\ W \subseteq Slots
    BY <1>5, <1>6
  <2>2. W # {} => YoungestFrom(com_ptr, W) \in W
    <3> HIDE DEF W
    <3>1. QED
      BY <1>2, <2>1, YoungestExists
  <2>3. W # {} => table[YoungestFrom(com_ptr, W)].pr = table'[YoungestFrom(com_ptr, W)].pr
    <3> HIDE DEF W
    <3>1. QED
      BY <1>2, <2>1, <2>2
  <2>4. QED
    BY <2>1, <2>3
<1>7. ASSUME NEW S, S = InFlight'
      PROVE  MapFrom(table, com_ptr, S) = MapFrom(table', com_ptr, S)
  BY <1>6, <1>7 DEF MapFrom
<1>8. QED
  BY <1>2, <1>4, <1>7, SquashSets

(* The same of the state after a step.                                     *)
LEMMA MapsNext ==
    ASSUME master_rt' = MapFrom(table', com_ptr', InFlight'),
           \A i \in Opened' : \A t \in table'[i].tag :
              spec_rt'[t] = MapFrom(table', com_ptr', {j \in InFlight' : AgeNext(j) <= AgeNext(i)})
    PROVE  Maps'
<1>1. ASSUME NEW S PROVE MapOf(S)' = MapFrom(table', com_ptr', S)
  BY Zenon DEF Writers, WritersIn, Youngest, YoungestFrom, MapOf, MapFrom, Age, AgeFrom
<1>2. MasterMapsYoungest'
  <2>1. MapOf(InFlight)' = MapFrom(table', com_ptr', InFlight')
    BY Zenon DEF Writers, WritersIn, Youngest, YoungestFrom, MapOf, MapFrom, Age, AgeFrom
  <2>2. QED
    BY <2>1 DEF MasterMapsYoungest
<1>3. SnapshotsMapTheirPath'
  <2>1. SUFFICES ASSUME NEW i \in Unfinished', table'[i].uop.is_branch, NEW t \in table'[i].tag
                 PROVE  spec_rt'[t] = MapOf({j \in InFlight : Age(j) <= Age(i)})'
    BY DEF SnapshotsMapTheirPath
  <2>2. i \in Opened'
    BY <2>1 DEF Opened, Unfinished
  <2>3. spec_rt'[t] = MapFrom(table', com_ptr', {j \in InFlight' : AgeNext(j) <= AgeNext(i)})
    BY <2>2
  <2>4. {j \in InFlight' : AgeNext(j) <= AgeNext(i)} = {j \in InFlight : Age(j) <= Age(i)}'
    BY DEF AgeNext, AgeFrom, Age
  <2>5. MapOf({j \in InFlight : Age(j) <= Age(i)})'
           = MapFrom(table', com_ptr', {j \in InFlight : Age(j) <= Age(i)}')
    BY Zenon DEF Writers, WritersIn, Youngest, YoungestFrom, MapOf, MapFrom, Age, AgeFrom
  <2>6. QED
    BY <2>3, <2>4, <2>5
<1>4. QED
  BY <1>2, <1>3 DEF Maps

(* At reset nothing is in flight and nothing is mapped.                    *)
LEMMA InitMaps ==
    ASSUME Init
    PROVE  Maps
<1>1. InFlight = {} /\ master_rt = [a \in Arch |-> NoReg]
  BY InitStructure DEF Init, RtInit
<1>2. Unfinished = {}
  BY <1>1 DEF Unfinished
<1>3. MasterMapsYoungest
  BY <1>1 DEF MasterMapsYoungest, MapOf, Writers
<1>4. SnapshotsMapTheirPath
  BY <1>2 DEF SnapshotsMapTheirPath
<1>5. QED
  BY <1>3, <1>4 DEF Maps

(* A step that changes nothing keeps the maps.                             *)
LEMMA MapsStutter ==
    ASSUME Maps, UNCHANGED vars
    PROVE  Maps'
<1>1. /\ table' = table /\ com_ptr' = com_ptr /\ used_entry_cnt' = used_entry_cnt
      /\ master_rt' = master_rt /\ spec_rt' = spec_rt
  BY DEF vars, prfVars, rtVars, robVars
<1>2. /\ InFlight' = InFlight /\ Opened' = Opened
      /\ \A i : Path(i) = {j \in InFlight' : AgeNext(j) <= AgeNext(i)}
  BY <1>1 DEF InFlight, Opened, Unfinished, Path, AgeNext, AgeFrom, Age
<1>3. /\ master_rt = MapFrom(table, com_ptr, InFlight)
      /\ \A i \in Opened : \A t \in table[i].tag : spec_rt[t] = MapFrom(table, com_ptr, Path(i))
  BY MapsSay
<1>4. master_rt' = MapFrom(table', com_ptr', InFlight')
  BY <1>1, <1>2, <1>3
<1>5. ASSUME NEW i \in Opened', NEW t \in table'[i].tag
      PROVE  spec_rt'[t] = MapFrom(table', com_ptr', {j \in InFlight' : AgeNext(j) <= AgeNext(i)})
  <2>1. spec_rt[t] = MapFrom(table, com_ptr, Path(i))
    BY <1>1, <1>2, <1>3
  <2>2. QED
    BY <1>1, <1>2, <2>1
<1>6. QED
  BY <1>4, <1>5, MapsNext

(* Both kinds of rows of the rename table, in every behavior: the master   *)
(* row is not inductive alone, since a squash makes a snapshot of it.      *)
LEMMA MapsHold == Spec => [](MasterMapsYoungest /\ SnapshotsMapTheirPath)
<1>1. Init => Maps
  BY InitMaps
<1>2. Structure /\ Maps /\ [Next]_vars => Maps'
  <2>1. SUFFICES ASSUME Structure, Maps, [Next]_vars PROVE Maps'
    OBVIOUS
  <2>2. CASE UNCHANGED vars
    BY <2>1, <2>2, MapsStutter
  <2>3. ASSUME NEW finished, NEW g, NEW landed, NEW resolved,
               CycleOf(finished, g, landed, resolved)
        PROVE  Maps'
    BY <2>1, <2>3, FlowMaps, MapsNext
  <2>4. ASSUME NEW i, NEW done, SquashOf(i, done)
        PROVE  Maps'
    BY <2>1, <2>4, SquashMaps, MapsNext
  <2>5. QED
    BY <2>1, <2>2, <2>3, <2>4, StepsAreCycles
<1>3. Maps <=> MasterMapsYoungest /\ SnapshotsMapTheirPath
  BY DEF Maps
<1>4. QED
  BY <1>1, <1>2, <1>3, StructureHolds, PTL DEF Spec

(* MasterMapsYoungest in every behavior: the master row maps every         *)
(* register to its youngest writer in flight, whatever overlays, commits   *)
(* and squashes meet in a cycle.                                           *)
THEOREM MasterMapHolds == Spec => []MasterMapsYoungest
BY MapsHold, PTL

(* SnapshotsMapTheirPath in every behavior: the row of each open branch's  *)
(* tag is the map of the rows up to that branch, kept so while older rows  *)
(* retire under it, so a squash restores the map of its own path.          *)
THEOREM SnapshotsHold == Spec => []SnapshotsMapTheirPath
BY MapsHold, PTL

-----------------------------------------------------------------------------
(* The file has a register that no row in flight can hold.                 *)
RegistersToSpare == PhyAmount > RobDepth

-----------------------------------------------------------------------------
(* The fin bits.                                                           *)

(* A writeback of some rows writes the register of a row exactly when that *)
(* row is one of them: no two hold one register.                           *)
LEMMA WrittenByRow ==
    ASSUME Structure, NEW finished, finished \subseteq InFlight
    PROVE  /\ \A i \in Held : table[i].pr \in Written(finished)
                                 <=> i \in finished /\ WbRequired(table[i].uop)
           /\ \A p \in Written(finished) : \E i \in Held : p = table[i].pr
<1>1. \A i \in finished : WbRequired(table[i].uop) => i \in Held
  BY WritersHold DEF WbRequired
<1>2. ASSUME NEW p \in Written(finished)
      PROVE  \E j \in finished : WbRequired(table[j].uop) /\ j \in Held /\ p = table[j].pr
  BY <1>1 DEF Written
<1>3. ASSUME NEW i \in Held, i \in finished, WbRequired(table[i].uop)
      PROVE  table[i].pr \in Written(finished)
  BY <1>3 DEF Written
<1>4. ASSUME NEW i \in Held, table[i].pr \in Written(finished)
      PROVE  i \in finished /\ WbRequired(table[i].uop)
  <2>1. PICK j \in finished : WbRequired(table[j].uop) /\ j \in Held /\ table[i].pr = table[j].pr
    BY <1>2, <1>4
  <2>2. j = i
    BY <2>1, HeldApart
  <2>3. QED
    BY <2>1, <2>2
<1>5. QED
  BY <1>2, <1>3, <1>4

(* What lies fewer than all the places ahead of a point of the ring is not *)
(* what lies behind it.                                                    *)
LEMMA RingsApart ==
    ASSUME NEW next \in Phys, NEW a \in Nat, NEW b \in Nat, a > 0, a + b < PhyAmount
    PROVE  Ahead(next, b) # Back(next, a)
BY PrfAssumption DEF Ahead, Back, Phys

(* The registers a group marks as not written, its lanes that take none    *)
(* included, are none of those in flight: this is where a file no larger   *)
(* than the ROB fails.                                                     *)
LEMMA MarkedAreFree ==
    ASSUME Structure, RegistersToSpare, NEW g \in Groups,
           GroupFits(Cardinality(Valid(g)))
    PROVE  \A i \in Held : table[i].pr \notin Marked(g)
<1> DEFINE t == Cardinality(Takers(g))
           v == Cardinality(Valid(g))
           h == Cardinality(Held)
<1>1. /\ RobTyped /\ next_index \in Phys /\ Held \subseteq InFlight
      /\ used_entry_cnt \in 0 .. RobDepth /\ RobDepth \in Nat
      /\ PhyAmount \in Nat /\ PhyAmount > RobDepth
      /\ \A i \in Held : table[i].pr = Back(next_index, Cardinality(From(Held, i)))
  BY StructureTypes, RobAssumption DEF RobTyped, RegistersToSpare, Structure, PoolIsRing
<1>2. /\ Takers(g) \in SUBSET Lanes /\ Valid(g) \in SUBSET Lanes
      /\ Takers(g) \in SUBSET Valid(g)
  BY LaneSets
<1>3. t \in Nat /\ v \in Nat /\ t <= v
  BY <1>2, LaneCounts, FS_Subset
<1>4. v <= RobDepth - used_entry_cnt
  BY DEF GroupFits
<1>5. h \in 0 .. used_entry_cnt
  BY <1>1, FromCounts
<1>6. SUFFICES ASSUME NEW i \in Held, NEW l \in Lanes PROVE table[i].pr # PrIdx(g, l)
  BY DEF Marked
<1> DEFINE a == Cardinality(From(Held, i))
           b == Before(Takers(g), l)
<1>7. a \in 1 .. h
  BY <1>1, FromCounts
<1>8. b \in 0 .. t
  <2>1. l \in Int
    BY CoreAssumption, RobAssumption DEF Lanes
  <2>2. QED
    BY <1>2, <2>1, LaneCounts
<1>9. PrIdx(g, l) = Ahead(next_index, b) /\ table[i].pr = Back(next_index, a)
  BY <1>1 DEF PrIdx, Promised, Ahead
<1> HIDE DEF a, b, t, v, h
<1>10. a \in Nat /\ b \in Nat /\ a > 0 /\ a + b < PhyAmount
  BY <1>1, <1>3, <1>4, <1>5, <1>7, <1>8
<1>11. QED
  BY <1>1, <1>9, <1>10, RingsApart

(* So the two writes of a cycle to the fin bits never meet, and each bit   *)
(* is what a reader of the same cycle was told.                            *)
LEMMA MarkedInCycle ==
    ASSUME Structure, RegistersToSpare,
           NEW finished, NEW g, NEW landed, NEW resolved,
           CycleOf(finished, g, landed, resolved)
    PROVE  /\ landed => \A i \in Held : table[i].pr \notin Marked(g)
           /\ finished \subseteq InFlight
           /\ \A p \in Phys : fin'[p] <=> /\ fin[p] \/ p \in Written(finished)
                                          /\ landed => p \notin Marked(g)
<1>1. landed => \A i \in Held : table[i].pr \notin Marked(g)
  BY MarkedAreFree DEF CycleOf, ReadyToGo
<1>2. finished \subseteq InFlight
  BY OneBranchResolves, StructureTypes
<1>3. FinUpdate(Written(finished), IF landed THEN Marked(g) ELSE {}) /\ landed \in BOOLEAN
  BY Zenon DEF CycleOf, Flow
<1> DEFINE written == Written(finished)
           marked == IF landed THEN Marked(g) ELSE {}
<1>4. written \cap marked = {}
  BY <1>1, <1>2, <1>3, WrittenByRow
<1>5. PICK first \in SUBSET (written \cap marked) :
          fin' = [p \in Phys |-> \/ p \in written /\ p \notin marked \ first
                                 \/ fin[p] /\ p \notin marked]
  BY <1>3 DEF FinUpdate
<1>6. ASSUME NEW p \in Phys
      PROVE  fin'[p] <=> /\ fin[p] \/ p \in written
                         /\ landed => p \notin Marked(g)
  <2>1. p \in marked <=> landed /\ p \in Marked(g)
    BY <1>3
  <2>2. first = {}
    BY <1>4, <1>5
  <2>3. fin'[p] = (\/ p \in written /\ p \notin marked \ first
                   \/ fin[p] /\ p \notin marked)
    BY <1>5
  <2>4. p \in marked \ first <=> p \in marked
    BY <2>2
  <2> HIDE DEF written, marked
  <2>5. QED
    BY <2>1, <2>3, <2>4, Zenon
<1>7. QED
  BY <1>1, <1>2, <1>6

(* A cycle without a squash keeps the fin bits true to the writebacks:     *)
(* those of rows that stay change only with their row, and those of new    *)
(* rows are cleared.                                                       *)
LEMMA FlowFin ==
    ASSUME Structure, RegistersToSpare, FinTracksWriteback,
           NEW finished, NEW g, NEW landed, NEW resolved,
           CycleOf(finished, g, landed, resolved)
    PROVE  FinTracksWriteback'
<1>1. /\ landed => \A i \in Held : table[i].pr \notin Marked(g)
      /\ finished \subseteq InFlight
      /\ \A p \in Phys : fin'[p] <=> /\ fin[p] \/ p \in Written(finished)
                                     /\ landed => p \notin Marked(g)
      /\ landed \in BOOLEAN
  BY MarkedInCycle DEF CycleOf
<1>2. /\ \A i \in Held : table[i].pr \in Written(finished)
                            <=> i \in finished /\ WbRequired(table[i].uop)
      /\ \A p \in Written(finished) : \E i \in Held : p = table[i].pr
  BY <1>1, WrittenByRow
<1>3. /\ \A i \in InFlight : Kept(finished, i)
      /\ landed => \A l \in Valid(g) : Landed(finished, g, l)
  BY RowsAfter
<1>4. Structure' /\ InFlight' = (InFlight \ Retiring) \cup
                       {NewSlot(g, l) : l \in IF landed THEN Valid(g) ELSE {}}
  BY FlowStructure, PlacesAfter
<1>5. \A i \in InFlight' : table'[i].pr # NoReg => table'[i].pr \in Phys
  BY <1>4 DEF Structure, TypeOK, Row, InFlight
<1>6. SUFFICES ASSUME NEW i \in InFlight', table'[i].pr # NoReg
               PROVE  fin'[table'[i].pr] <=> table'[i].wb_fin /\ WbRequired(table'[i].uop)
  BY DEF FinTracksWriteback
<1>7. CASE i \in InFlight
  <2>1. /\ table'[i].pr = table[i].pr /\ table'[i].uop = table[i].uop
        /\ table'[i].wb_fin <=> table[i].wb_fin \/ i \in finished
    BY <1>3, <1>7 DEF Kept
  <2>2. i \in Held /\ table[i].pr \in Phys
    BY <1>5, <1>6, <1>7, <2>1 DEF Held
  <2>3. fin[table[i].pr] <=> table[i].wb_fin /\ WbRequired(table[i].uop)
    BY <1>7, <2>2 DEF FinTracksWriteback, Held
  <2>4. QED
    BY <1>1, <1>2, <2>1, <2>2, <2>3
<1>8. CASE i \notin InFlight
  <2>1. PICK l \in Valid(g) : landed /\ i = NewSlot(g, l)
    <3>1. \A l \in (IF landed THEN Valid(g) ELSE {}) : landed /\ l \in Valid(g)
      OBVIOUS
    <3>2. QED
      BY <1>4, <1>8, <3>1
  <2>2. /\ table'[i].pr = IF l \in Takers(g) THEN PrIdx(g, l) ELSE NoReg
        /\ table'[i].wb_fin = FALSE
    BY <1>3, <2>1 DEF Landed
  <2>3. table'[i].pr \in Marked(g)
    <3>1. l \in Lanes /\ table'[i].pr = PrIdx(g, l)
      BY <1>6, <2>2, LaneSets DEF CycleOf
    <3>2. QED
      BY <3>1 DEF Marked
  <2>4. QED
    BY <1>1, <1>5, <1>6, <2>1, <2>2, <2>3
<1>9. QED
  BY <1>7, <1>8

(* A squash keeps them: it marks nothing, and what it writes back is       *)
(* older.                                                                  *)
LEMMA SquashFin ==
    ASSUME Structure, FinTracksWriteback, NEW i, NEW done, SquashOf(i, done)
    PROVE  FinTracksWriteback'
<1> DEFINE finished == done \cup {i}
<1>1. /\ TypeOK /\ RobTyped /\ InFlight \subseteq Slots
      /\ finished \subseteq InFlight
  BY StructureTypes DEF Structure, SquashOf, Resolving, Executing, Unfinished
<1>2. /\ InFlight' = {j \in InFlight : Age(j) <= Age(i)}
      /\ \A j \in Slots :
            /\ table'[j].uop = table[j].uop
            /\ table'[j].pr = table[j].pr
            /\ table'[j].wb_fin <=> table[j].wb_fin \/ j \in finished
  BY <1>1, SquashRows
<1>3. FinUpdate(Written(finished), {})
  BY DEF SquashOf, Squash
<1>4. \A p \in Phys : fin'[p] <=> fin[p] \/ p \in Written(finished)
  <2>1. fin' = [p \in Phys |-> \/ p \in Written(finished) /\ p \notin {} \ {}
                               \/ fin[p] /\ p \notin {}]
    BY <1>3 DEF FinUpdate
  <2> HIDE DEF finished
  <2>2. \A p \in Phys : fin'[p] = (\/ p \in Written(finished) /\ p \notin {} \ {}
                                   \/ fin[p] /\ p \notin {})
    BY <2>1
  <2>3. QED
    BY <2>2
<1> HIDE DEF finished
<1>5. \A j \in Held : table[j].pr \in Written(finished)
                         <=> j \in finished /\ WbRequired(table[j].uop)
  BY <1>1, WrittenByRow
<1>6. SUFFICES ASSUME NEW j \in InFlight', table'[j].pr # NoReg
               PROVE  fin'[table'[j].pr] <=> table'[j].wb_fin /\ WbRequired(table'[j].uop)
  BY DEF FinTracksWriteback
<1>7. j \in InFlight /\ j \in Slots /\ j \in Held /\ table[j].pr \in Phys
  BY <1>1, <1>2, <1>6 DEF Held, TypeOK, Row
<1>8. fin[table[j].pr] <=> table[j].wb_fin /\ WbRequired(table[j].uop)
  BY <1>7 DEF FinTracksWriteback, Held
<1>9. QED
  BY <1>2, <1>4, <1>5, <1>7, <1>8

-----------------------------------------------------------------------------
(* The sources.                                                            *)

(* A station entry is right for a reader of register a behind the rows S.  *)
Waits(tbl, base, S, a, entry) ==
    \/ WritersIn(tbl, S, a) = {} /\ entry.ready
    \/ \E w \in S : /\ IsLast(tbl, base, S, a, w)
                    /\ entry.pr = tbl[w].pr
                    /\ entry.ready <=> tbl[w].wb_fin

Older(i) == {j \in InFlight : Age(j) < Age(i)}

(* SourcesFollowProgramOrder says that every waiting entry is right.       *)
LEMMA WaitsReads ==
    ASSUME NEW tbl, NEW base \in Slots, NEW S, S \subseteq Slots, NEW a, NEW entry
    PROVE  Waits(tbl, base, S, a, entry) <=>
              IF WritersIn(tbl, S, a) = {} THEN entry.ready
              ELSE /\ entry.pr = tbl[YoungestFrom(base, WritersIn(tbl, S, a))].pr
                   /\ entry.ready <=> tbl[YoungestFrom(base, WritersIn(tbl, S, a))].wb_fin
<1> DEFINE W == WritersIn(tbl, S, a)
<1>1. W \subseteq S /\ W \subseteq Slots
  BY DEF WritersIn
<1>2. CASE W = {}
  BY <1>2 DEF Waits, IsLast
<1>3. CASE W # {}
  <2> DEFINE y == YoungestFrom(base, W)
  <2>1. /\ y \in W
        /\ \A j \in W : AgeFrom(base, j) <= AgeFrom(base, y)
        /\ \A w \in W : (\A j \in W : AgeFrom(base, j) <= AgeFrom(base, w)) => w = y
    <3> HIDE DEF W
    <3>1. QED
      BY <1>1, <1>3, YoungestExists
  <2> HIDE DEF y
  <2>2. \A w : IsLast(tbl, base, S, a, w) <=> w = y
    BY <2>1 DEF IsLast
  <2>3. y \in S
    BY <1>1, <2>1
  <2>4. Waits(tbl, base, S, a, entry) <=> entry.pr = tbl[y].pr /\ (entry.ready <=> tbl[y].wb_fin)
    BY <1>3, <2>2, <2>3 DEF Waits
  <2>5. QED
    BY <1>3, <2>4 DEF y
<1>4. QED
  BY <1>2, <1>3

(* A wait goes on rightly when the oldest writers leave finished and the   *)
(* wakeup of the cycle reaches it.                                         *)
LEMMA WokenWaits ==
    ASSUME Structure, NEW finished, finished \subseteq InFlight,
           NEW i \in Slots, i \notin finished,
           NEW a, NEW S, S \subseteq InFlight, NEW R, R \subseteq S,
           Waits(table, com_ptr, S, a, rsv[i]),
           \A j \in S \ R : table[j].wb_fin,
           \A j \in S \ R, k \in R : AgeFrom(com_ptr, j) < AgeFrom(com_ptr, k),
           \A j \in R : /\ table'[j].uop = table[j].uop
                        /\ table'[j].pr = table[j].pr
                        /\ table'[j].wb_fin <=> table[j].wb_fin \/ j \in finished,
           \A j, k \in R : AgeFrom(com_ptr', j) <= AgeFrom(com_ptr', k)
                              <=> AgeFrom(com_ptr, j) <= AgeFrom(com_ptr, k)
    PROVE  Waits(table', com_ptr', R, a, Woken(i, finished))
<1> DEFINE W(X) == WritersIn(table, X, a)
           new == Woken(i, finished)
<1>1. /\ rsv[i] \in [ready : BOOLEAN, pr : Phys \cup {NoReg}]
      /\ \A j \in InFlight : AgeFrom(com_ptr, j) \in Int
  BY StayingRows, AgeIsFrom DEF Structure, TypeOK
<1>2. /\ new.pr = rsv[i].pr
      /\ new.ready <=> rsv[i].ready \/ rsv[i].pr \in Written(finished)
  BY <1>1 DEF Woken
<1>3. WritersIn(table', R, a) = W(R) /\ W(R) = W(S) \cap R /\ W(S) \subseteq S
  BY DEF WritersIn
<1>4. CASE W(S) = {}
  <2>1. rsv[i].ready
    BY <1>4 DEF Waits, IsLast
  <2>2. QED
    BY <1>2, <1>3, <1>4, <2>1 DEF Waits
<1>5. CASE W(S) # {}
  <2>1. PICK w \in S : /\ IsLast(table, com_ptr, S, a, w)
                       /\ rsv[i].pr = table[w].pr
                       /\ rsv[i].ready <=> table[w].wb_fin
    BY <1>5 DEF Waits
  <2>2. w \in W(S) /\ \A j \in W(S) : AgeFrom(com_ptr, j) <= AgeFrom(com_ptr, w)
    BY <2>1 DEF IsLast
  <2>3. CASE w \notin R
    <3>1. W(R) = {}
      <4>1. SUFFICES ASSUME NEW j \in W(R) PROVE FALSE
        OBVIOUS
      <4>2. /\ AgeFrom(com_ptr, j) <= AgeFrom(com_ptr, w)
            /\ AgeFrom(com_ptr, w) < AgeFrom(com_ptr, j)
            /\ AgeFrom(com_ptr, j) \in Int /\ AgeFrom(com_ptr, w) \in Int
        BY <1>1, <1>3, <2>2, <2>3
      <4>3. QED
        BY <4>2
    <3>2. new.ready
      BY <1>2, <2>1, <2>3
    <3>3. QED
      BY <1>3, <3>1, <3>2 DEF Waits
  <2>4. CASE w \in R
    <3>1. IsLast(table', com_ptr', R, a, w)
      BY <1>3, <2>2, <2>4 DEF IsLast
    <3>2. WbRequired(table[w].uop) /\ w \in Held
      BY <2>1, <2>2, WritersHold DEF WritersIn, Writes, RenameReq, WbRequired
    <3>3. table[w].pr \in Written(finished) <=> w \in finished
      BY <3>2, WrittenByRow
    <3>4. /\ new.pr = table'[w].pr
          /\ new.ready <=> table'[w].wb_fin
      BY <1>2, <2>1, <2>4, <3>3
    <3> HIDE DEF new
    <3>5. QED
      BY <2>4, <3>1, <3>4 DEF Waits, new
  <2>5. QED
    BY <2>3, <2>4
<1>6. QED
  BY <1>4, <1>5

(* The rows that wait on go on waiting for the right register.             *)
LEMMA FlowWaits ==
    ASSUME Structure,
           NEW finished, NEW g, NEW landed, NEW resolved,
           CycleOf(finished, g, landed, resolved),
           NEW i \in Unfinished, i \notin finished,
           Waits(table, com_ptr, Older(i), table[i].uop.src, rsv[i])
    PROVE  /\ i \in InFlight /\ i \in InFlight'
           /\ Waits(table', com_ptr', {j \in InFlight' : AgeNext(j) < AgeNext(i)},
                    table'[i].uop.src, rsv'[i])
<1> DEFINE S == Older(i)
           R == S \ Retiring
           src == table[i].uop.src
<1>1. /\ finished \subseteq InFlight /\ i \in InFlight /\ i \in Slots
      /\ i \in InFlight' /\ landed \in BOOLEAN
  BY OneBranchResolves, FlowSets, StructureTypes DEF CycleOf
<1>2. /\ \A j \in InFlight : Kept(finished, j)
      /\ landed => \A l \in Valid(g) : Landed(finished, g, l)
  BY RowsAfter
<1>3. /\ com_ptr \in Slots /\ Gone \in 0 .. used_entry_cnt
      /\ \A j \in InFlight : j \in Slots /\ Age(j) \in 0 .. used_entry_cnt - 1 /\ Age(j) \in Int
      /\ \A j \in Retiring, k \in InFlight \ Retiring : Age(j) < Age(k)
      /\ \A j \in InFlight : j \in Retiring <=> Age(j) < Gone
      /\ \A j \in Retiring : table[j].wb_fin
  BY StayingRows, StructureTypes, RetiringIsPrefix
<1>4. /\ \A j \in InFlight \ Retiring : j \in InFlight' /\ AgeNext(j) = Age(j) - Gone
      /\ landed => \A l \in Valid(g) :
            /\ NewSlot(g, l) \in InFlight' \ InFlight
            /\ AgeNext(NewSlot(g, l)) = used_entry_cnt + Before(Valid(g), l) - Gone
            /\ Before(Valid(g), l) \in Nat
      /\ Gone \in Nat /\ used_entry_cnt \in Nat
      /\ InFlight' = (InFlight \ Retiring) \cup
                        {NewSlot(g, l) : l \in IF landed THEN Valid(g) ELSE {}}
  BY PlacesAfter
<1>5. i \notin Retiring
  BY <1>3 DEF Unfinished
<1>6. {j \in InFlight' : AgeNext(j) < AgeNext(i)} = R
  <2>1. ASSUME NEW j \in InFlight \ Retiring PROVE AgeNext(j) < AgeNext(i) <=> Age(j) < Age(i)
    <3>1. AgeNext(j) = Age(j) - Gone /\ AgeNext(i) = Age(i) - Gone
          /\ Age(i) \in Int /\ Age(j) \in Int
      BY <1>1, <1>3, <1>4, <1>5
    <3>2. QED
      BY <1>4, <3>1
  <2>2. ASSUME landed, NEW l \in Valid(g) PROVE ~ (AgeNext(NewSlot(g, l)) < AgeNext(i))
    <3> DEFINE b == Before(Valid(g), l)
               s == NewSlot(g, l)
    <3>1. AgeNext(s) = used_entry_cnt + b - Gone /\ b \in Nat
      BY <1>4, <2>2
    <3>2. AgeNext(i) = Age(i) - Gone /\ Age(i) \in 0 .. used_entry_cnt - 1
      BY <1>1, <1>3, <1>4, <1>5
    <3> HIDE DEF b, s
    <3>3. ~ (AgeNext(s) < AgeNext(i))
      BY <1>4, <3>1, <3>2
    <3>4. QED
      BY <3>3 DEF s
  <2>3. \A l \in (IF landed THEN Valid(g) ELSE {}) : landed /\ l \in Valid(g)
    OBVIOUS
  <2>4. QED
    BY <1>4, <2>1, <2>2, <2>3 DEF Older
<1>7. table'[i].uop.src = src /\ rsv'[i] = Woken(i, finished)
  BY <1>1, <1>2 DEF Kept
<1>8. \A j : AgeFrom(com_ptr, j) = Age(j)
  BY AgeIsFrom
<1>9. ASSUME NEW S0, S0 = S, NEW R0, R0 = R, NEW a, a = src
      PROVE  Waits(table', com_ptr', R0, a, Woken(i, finished))
  <2>1. S0 \subseteq InFlight /\ R0 = S0 \ Retiring /\ R0 \subseteq S0
    BY <1>9 DEF Older
  <2>2. Waits(table, com_ptr, S0, a, rsv[i])
    BY <1>9
  <2> HIDE DEF S, R, src
  <2>3. \A j \in S0 \ R0 : table[j].wb_fin
    BY <1>3, <2>1
  <2>4. \A j \in S0 \ R0, k \in R0 : AgeFrom(com_ptr, j) < AgeFrom(com_ptr, k)
    BY <1>3, <1>8, <2>1
  <2>5. \A j \in R0 : /\ table'[j].uop = table[j].uop
                      /\ table'[j].pr = table[j].pr
                      /\ table'[j].wb_fin <=> table[j].wb_fin \/ j \in finished
    BY <1>2, <2>1 DEF Kept
  <2>6. ASSUME NEW j \in R0, NEW k \in R0
        PROVE  AgeFrom(com_ptr', j) <= AgeFrom(com_ptr', k)
                  <=> AgeFrom(com_ptr, j) <= AgeFrom(com_ptr, k)
    <3>1. /\ AgeFrom(com_ptr', j) = Age(j) - Gone /\ AgeFrom(com_ptr', k) = Age(k) - Gone
          /\ Age(j) \in Int /\ Age(k) \in Int /\ Gone \in Int
      BY <1>3, <1>4, <2>1 DEF AgeNext
    <3>2. QED
      BY <1>8, <3>1
  <2>7. QED
    BY <1>1, <2>1, <2>2, <2>3, <2>4, <2>5, <2>6, WokenWaits
<1> HIDE DEF R, src, S
<1>10. Waits(table', com_ptr', R, src, Woken(i, finished))
  BY <1>9
<1>11. QED
  BY <1>1, <1>6, <1>7, <1>10

(* The stage row a lane looks its source up in names the youngest writer   *)
(* among the rows ahead of the lane.                                       *)
LEMMA LaneReads ==
    ASSUME Structure, MasterMapsYoungest,
           NEW finished, NEW g, NEW landed, NEW resolved,
           CycleOf(finished, g, landed, resolved), landed,
           NEW l \in Valid(g),
           NEW T, T = {j \in InFlight' : AgeNext(j) < AgeNext(NewSlot(g, l))}
    PROVE  /\ com_ptr' \in Slots /\ T \subseteq InFlight' /\ InFlight' \subseteq Slots
           /\ g[l].src \in Arch =>
                 Reads(table', com_ptr', T, g[l].src,
                       StageRow(Drops(Retiring), Renames(g), l - 1)[g[l].src])
<1> DEFINE s == NewSlot(g, l)
           src == g[l].src
           NL == {k \in Valid(g) : k <= l - 1}
           J == Joined(InFlight \ Retiring, g, NL)
           row == StageRow(Drops(Retiring), Renames(g), l - 1)
<1>1. /\ Valid(g) \in SUBSET Lanes /\ \A k \in Lanes : k \in Int /\ k - 1 \in 0 .. FeLanes
      /\ l \in Int /\ l - 1 \in 0 .. FeLanes
      /\ landed \in BOOLEAN
  <2>1. Valid(g) \in SUBSET Lanes
    BY LaneSets DEF CycleOf
  <2>2. \A k \in Lanes : k \in Int /\ k - 1 \in 0 .. FeLanes
    BY CoreAssumption, RobAssumption DEF Lanes
  <2>3. QED
    BY <2>1, <2>2 DEF CycleOf
<1>2. /\ \A j \in InFlight \ Retiring : j \in InFlight' /\ AgeNext(j) = Age(j) - Gone
      /\ \A k \in Valid(g) :
            /\ NewSlot(g, k) \in InFlight' \ InFlight
            /\ AgeNext(NewSlot(g, k)) = used_entry_cnt + Before(Valid(g), k) - Gone
            /\ Before(Valid(g), k) \in Nat
      /\ Gone \in Nat /\ used_entry_cnt \in Nat
      /\ InFlight' = (InFlight \ Retiring) \cup
                        {NewSlot(g, k) : k \in IF landed THEN Valid(g) ELSE {}}
  BY PlacesAfter
<1>3. \A j \in InFlight : Age(j) \in 0 .. used_entry_cnt - 1
  BY StayingRows
<1>4. J = T
  <2>1. ASSUME NEW j \in InFlight \ Retiring PROVE AgeNext(j) < AgeNext(s)
    <3> DEFINE b == Before(Valid(g), l)
    <3>1. AgeNext(s) = used_entry_cnt + b - Gone /\ b \in Nat
      BY <1>2
    <3>2. AgeNext(j) = Age(j) - Gone /\ Age(j) \in 0 .. used_entry_cnt - 1
      BY <1>2, <1>3
    <3> HIDE DEF b, s
    <3>3. QED
      BY <1>2, <3>1, <3>2
  <2>2. ASSUME NEW k \in Valid(g) PROVE AgeNext(NewSlot(g, k)) < AgeNext(s) <=> k <= l - 1
    <3> DEFINE b == Before(Valid(g), l)
               c == Before(Valid(g), k)
               r == NewSlot(g, k)
    <3>1. AgeNext(s) = used_entry_cnt + b - Gone /\ b \in Nat
      BY <1>2
    <3>2. AgeNext(r) = used_entry_cnt + c - Gone /\ c \in Nat
      BY <1>2
    <3>3. /\ k < l => c < b
          /\ l < k => b < c
          /\ k \in Int
      <4>1. \A x \in Valid(g), z \in Int : x < z => Before(Valid(g), x) < Before(Valid(g), z)
        BY <1>1, LaneCounts
      <4>2. k \in Int
        BY <1>1
      <4>3. QED
        BY <1>1, <4>1, <4>2
    <3>4. k = l => c = b
      OBVIOUS
    <3> HIDE DEF b, c, s, r
    <3>5. AgeNext(r) < AgeNext(s) <=> k <= l - 1
      BY <1>1, <1>2, <3>1, <3>2, <3>3, <3>4
    <3>6. QED
      BY <3>5 DEF r
  <2>3. InFlight' = (InFlight \ Retiring) \cup {NewSlot(g, k) : k \in Valid(g)}
    BY <1>2
  <2>4. T = {j \in InFlight' : AgeNext(j) < AgeNext(s)}
    OBVIOUS
  <2>5. J = (InFlight \ Retiring) \cup {NewSlot(g, k) : k \in NL}
    BY DEF Joined
  <2> HIDE DEF s
  <2>6. QED
    BY <2>1, <2>2, <2>3, <2>4, <2>5
<1>5. T \subseteq InFlight' /\ InFlight' \subseteq Slots /\ com_ptr' \in Slots
  BY StructureTypes, FlowPointers DEF InFlight
<1>6. ASSUME src \in Arch PROVE Reads(table', com_ptr', T, src, row[src])
  <2>1. ASSUME NEW N, N = NL
        PROVE  row = MapFrom(table', com_ptr', Joined(InFlight \ Retiring, g, N))
    BY <1>1, <2>1, StageMaps
  <2>2. row = MapFrom(table', com_ptr', T)
    BY <1>4, <2>1
  <2>3. T \subseteq Slots
    BY <1>5
  <2> HIDE DEF row, src
  <2>4. QED
    BY <1>5, <1>6, <2>2, <2>3, MapReads
<1>7. QED
  BY <1>5, <1>6

(* A new row waits for the youngest writer before its own lane.            *)
LEMMA LaneWaits ==
    ASSUME Structure, RegistersToSpare, MasterMapsYoungest, FinTracksWriteback,
           NEW finished, NEW g, NEW landed, NEW resolved,
           CycleOf(finished, g, landed, resolved), landed,
           NEW l \in Valid(g)
    PROVE  Waits(table', com_ptr', {j \in InFlight' : AgeNext(j) < AgeNext(NewSlot(g, l))},
                 table'[NewSlot(g, l)].uop.src, rsv'[NewSlot(g, l)])
<1> DEFINE s == NewSlot(g, l)
           src == g[l].src
           T == {j \in InFlight' : AgeNext(j) < AgeNext(NewSlot(g, l))}
           row == StageRow(Drops(Retiring), Renames(g), l - 1)
           phys == row[src]
<1>1. src \in Arch \cup {NoReg} /\ landed \in BOOLEAN
  <2>1. g[l] \in Uop
    BY LaneSets DEF CycleOf
  <2>2. QED
    BY <2>1 DEF Uop, CycleOf
<1>2. \A k \in Valid(g) : Landed(finished, g, k)
  BY RowsAfter
<1>3. /\ table'[s].uop.src = src
      /\ rsv'[s] = RenameSrc(g, l, Drops(Retiring), Written(finished))
  BY <1>2 DEF Landed
<1>4. ASSUME NEW U, U = T
      PROVE  /\ com_ptr' \in Slots /\ U \subseteq InFlight' /\ InFlight' \subseteq Slots
             /\ src \in Arch => Reads(table', com_ptr', U, src, phys)
  BY <1>4, LaneReads
<1>5. /\ com_ptr' \in Slots /\ T \subseteq InFlight' /\ InFlight' \subseteq Slots
      /\ src \in Arch => Reads(table', com_ptr', T, src, phys)
  <2> HIDE DEF T, phys, src
  <2>1. QED
    BY <1>4
<1>6. CASE src = NoReg
  <2>1. rsv'[s] = Ready
    BY <1>3, <1>6 DEF RenameSrc
  <2>2. WritersIn(table', T, src) = {}
    BY <1>6 DEF WritersIn, Writes, RenameReq
  <2>3. rsv'[s].ready
    BY <2>1 DEF Ready
  <2> HIDE DEF s, T, src
  <2>4. QED
    BY <1>3, <2>2, <2>3 DEF Waits, s, T
<1>7. CASE src # NoReg
  <2>2. Reads(table', com_ptr', T, src, phys)
    BY <1>1, <1>5, <1>7
  <2>3. rsv'[s] = IF phys = NoReg THEN Ready
                  ELSE [ready |-> ReadFin(phys, Written(finished), Marked(g)), pr |-> phys]
    BY <1>3, <1>7 DEF RenameSrc
  <2> HIDE DEF T, row, src, s, phys
  <2>4. CASE WritersIn(table', T, src) = {}
    <3>1. phys = NoReg
      BY <2>2, <2>4 DEF Reads, IsLast
    <3>2. rsv'[s].ready
      BY <2>3, <3>1 DEF Ready
    <3>3. QED
      BY <1>3, <2>4, <3>2 DEF Waits, s, T
  <2>5. CASE WritersIn(table', T, src) # {}
    <3>1. PICK w \in T : IsLast(table', com_ptr', T, src, w) /\ phys = table'[w].pr
      BY <2>2, <2>5 DEF Reads
    <3>2. w \in InFlight' /\ WbRequired(table'[w].uop)
      BY <1>5, <3>1 DEF IsLast, WritersIn, Writes, RenameReq, WbRequired
    <3>3. Structure' /\ FinTracksWriteback'
      BY FlowStructure, FlowFin
    <3>4. phys # NoReg /\ phys \in Phys
      BY <3>1, <3>2, <3>3 DEF Structure, RowsAreWhole, Active, WbRequired, TypeOK, Row, InFlight
    <3>5. fin'[phys] <=> table'[w].wb_fin
      BY <3>1, <3>2, <3>3, <3>4 DEF FinTracksWriteback
    <3>6. fin'[phys] <=> ReadFin(phys, Written(finished), Marked(g))
      BY <3>4, MarkedInCycle DEF ReadFin
    <3>7. rsv'[s].pr = phys /\ (rsv'[s].ready <=> table'[w].wb_fin)
      <4>1. rsv'[s].pr = phys /\ rsv'[s].ready = ReadFin(phys, Written(finished), Marked(g))
        BY <2>3, <3>4
      <4>2. QED
        BY <3>5, <3>6, <4>1
    <3>8. Waits(table', com_ptr', T, src, rsv'[s])
      BY <3>1, <3>7 DEF Waits
    <3>9. QED
      BY <1>3, <3>8 DEF s, T
  <2>6. QED
    BY <2>4, <2>5
<1>8. QED
  BY <1>6, <1>7

(* Every waiting entry, before a step and after it.                        *)
Sources == \A i \in Unfinished : Waits(table, com_ptr, Older(i), table[i].uop.src, rsv[i])

(* Sources is SourcesFollowProgramOrder, for the rows the structure        *)
(* allows.                                                                 *)
LEMMA SourcesSay ==
    ASSUME Structure
    PROVE  Sources <=> SourcesFollowProgramOrder
<1>1. com_ptr \in Slots /\ \A i : Older(i) \subseteq Slots
  BY StructureTypes DEF RobTyped, Older, InFlight
<1>2. ASSUME NEW i \in Unfinished
      PROVE  Waits(table, com_ptr, Older(i), table[i].uop.src, rsv[i]) <=>
             LET older == Writers({j \in InFlight : Age(j) < Age(i)}, table[i].uop.src)
             IN  IF older = {} THEN rsv[i].ready
                 ELSE LET w == Youngest(older)
                      IN  rsv[i].pr = table[w].pr /\ (rsv[i].ready <=> table[w].wb_fin)
  <2> DEFINE older == WritersIn(table, Older(i), table[i].uop.src)
  <2>1. ASSUME NEW S, S = Older(i), NEW a, a = table[i].uop.src, NEW entry, entry = rsv[i]
        PROVE  Waits(table, com_ptr, S, a, entry) <=>
               IF WritersIn(table, S, a) = {} THEN entry.ready
               ELSE /\ entry.pr = table[YoungestFrom(com_ptr, WritersIn(table, S, a))].pr
                    /\ entry.ready <=> table[YoungestFrom(com_ptr, WritersIn(table, S, a))].wb_fin
    BY <1>1, <2>1, WaitsReads
  <2>2. Writers({j \in InFlight : Age(j) < Age(i)}, table[i].uop.src) = older
    BY MapIsFrom DEF Older
  <2>3. Youngest(older) = YoungestFrom(com_ptr, older)
    BY MapIsFrom
  <2>4. QED
    BY <2>1, <2>2, <2>3
<1>3. QED
  BY <1>2 DEF Sources, SourcesFollowProgramOrder

(* A cycle without a squash leaves every unfinished row, old or just       *)
(* landed, with a source that is right for its place.                      *)
LEMMA FlowSources ==
    ASSUME Structure, RegistersToSpare, MasterMapsYoungest, FinTracksWriteback, Sources,
           NEW finished, NEW g, NEW landed, NEW resolved,
           CycleOf(finished, g, landed, resolved)
    PROVE  Sources'
<1>1. \A i : Older(i)' = {j \in InFlight' : AgeNext(j) < AgeNext(i)}
  BY DEF Older, Age, AgeNext, AgeFrom
<1>2. SUFFICES ASSUME NEW i \in Unfinished'
               PROVE  Waits(table', com_ptr', {j \in InFlight' : AgeNext(j) < AgeNext(i)},
                            table'[i].uop.src, rsv'[i])
  BY <1>1 DEF Sources
<1>3. /\ \A j \in InFlight : Kept(finished, j)
      /\ InFlight' = (InFlight \ Retiring) \cup
                        {NewSlot(g, l) : l \in IF landed THEN Valid(g) ELSE {}}
  BY RowsAfter, PlacesAfter
<1>4. CASE i \in InFlight
  <2>1. i \in Unfinished /\ i \notin finished
    BY <1>3, <1>4 DEF Kept, Unfinished
  <2>2. Waits(table, com_ptr, Older(i), table[i].uop.src, rsv[i])
    BY <2>1 DEF Sources
  <2>3. QED
    BY <2>1, <2>2, FlowWaits
<1>5. CASE i \notin InFlight
  <2>1. PICK l \in Valid(g) : landed /\ i = NewSlot(g, l)
    <3>1. \A l \in (IF landed THEN Valid(g) ELSE {}) : landed /\ l \in Valid(g)
      OBVIOUS
    <3>2. i \in InFlight'
      BY DEF Unfinished
    <3>3. QED
      BY <1>3, <1>5, <3>1, <3>2
  <2>2. Waits(table', com_ptr', {j \in InFlight' : AgeNext(j) < AgeNext(NewSlot(g, l))},
              table'[NewSlot(g, l)].uop.src, rsv'[NewSlot(g, l)])
    BY <2>1, LaneWaits
  <2>3. QED
    BY <2>1, <2>2
<1>6. QED
  BY <1>4, <1>5

(* A squash leaves what an older row waits for where it was, and wakes it  *)
(* like any other cycle.                                                   *)
LEMMA SquashSources ==
    ASSUME Structure, Sources, NEW i, NEW done, SquashOf(i, done)
    PROVE  Sources'
<1> DEFINE finished == done \cup {i}
<1>1. /\ TypeOK /\ RobTyped /\ InFlight \subseteq Slots
      /\ finished \subseteq InFlight
  BY StructureTypes DEF Structure, SquashOf, Resolving, Executing, Unfinished
<1>2. /\ com_ptr' = com_ptr
      /\ \A j : Age(j)' = Age(j)
      /\ InFlight' = {j \in InFlight : Age(j) <= Age(i)}
      /\ \A j \in Slots :
            /\ table'[j].uop = table[j].uop
            /\ table'[j].pr = table[j].pr
            /\ table'[j].wb_fin <=> table[j].wb_fin \/ j \in finished
      /\ \A j \in InFlight : Age(j) \in Int
      /\ i \in InFlight
  BY <1>1, SquashRows, StayingRows
<1>3. rsv' = [j \in Slots |->
               IF j \in finished \/ Age(j) > Age(i) THEN Ready ELSE Woken(j, finished)]
  BY Zenon DEF SquashOf, Squash
<1> HIDE DEF finished
<1>4. SUFFICES ASSUME NEW j \in Unfinished'
               PROVE  Waits(table', com_ptr', Older(j)', table'[j].uop.src, rsv'[j])
  BY DEF Sources
<1>5. /\ j \in InFlight /\ j \in Slots /\ j \in Unfinished /\ j \notin finished
      /\ Age(j) <= Age(i) /\ Age(j) \in Int /\ Age(i) \in Int
  BY <1>1, <1>2 DEF Unfinished
<1>6. Older(j)' = Older(j)
  <2>1. ASSUME NEW k \in InFlight, Age(k) < Age(j) PROVE Age(k) <= Age(i)
    BY <1>2, <1>5, <2>1
  <2>2. Older(j)' = {k \in InFlight' : Age(k) < Age(j)}
    BY <1>2 DEF Older
  <2>3. QED
    BY <1>2, <2>1, <2>2 DEF Older
<1>7. rsv'[j] = Woken(j, finished) /\ table'[j].uop.src = table[j].uop.src
  <2>1. ~ (j \in finished \/ Age(j) > Age(i))
    BY <1>5
  <2>2. QED
    BY <1>2, <1>3, <1>5, <2>1
<1>8. ASSUME NEW S, S = Older(j), NEW R, R = S, NEW a, a = table[j].uop.src
      PROVE  Waits(table', com_ptr', R, a, Woken(j, finished))
  <2>1. S \subseteq InFlight /\ R \subseteq S /\ S \ R = {} /\ S \subseteq Slots
    BY <1>1, <1>8 DEF Older
  <2>2. Waits(table, com_ptr, S, a, rsv[j])
    BY <1>5, <1>8 DEF Sources
  <2>3. /\ \A k \in S \ R : table[k].wb_fin
        /\ \A k \in S \ R, l \in R : AgeFrom(com_ptr, k) < AgeFrom(com_ptr, l)
    BY <2>1
  <2>4. \A k \in R : /\ table'[k].uop = table[k].uop
                     /\ table'[k].pr = table[k].pr
                     /\ table'[k].wb_fin <=> table[k].wb_fin \/ k \in finished
    BY <1>2, <2>1
  <2>5. \A k, l \in R : AgeFrom(com_ptr', k) <= AgeFrom(com_ptr', l)
                           <=> AgeFrom(com_ptr, k) <= AgeFrom(com_ptr, l)
    BY <1>2
  <2>6. QED
    BY <1>1, <1>5, <2>1, <2>2, <2>3, <2>4, <2>5, WokenWaits
<1>9. QED
  BY <1>6, <1>7, <1>8

(* Nothing is in flight at reset, so nothing is marked or waits wrongly,   *)
(* whatever the fin bits power up as.                                      *)
LEMMA InitWaits ==
    ASSUME Init
    PROVE  FinTracksWriteback /\ Sources
<1>1. InFlight = {} /\ Unfinished = {}
  BY InitStructure DEF Unfinished
<1>2. QED
  BY <1>1 DEF FinTracksWriteback, Sources

(* A step that changes nothing keeps both.                                 *)
LEMMA WaitsStutter ==
    ASSUME FinTracksWriteback, Sources, UNCHANGED vars
    PROVE  FinTracksWriteback' /\ Sources'
<1>1. /\ table' = table /\ com_ptr' = com_ptr /\ used_entry_cnt' = used_entry_cnt
      /\ fin' = fin /\ rsv' = rsv
  BY DEF vars, prfVars, robVars
<1>2. InFlight' = InFlight /\ Unfinished' = Unfinished /\ \A i : Older(i)' = Older(i)
  BY <1>1 DEF InFlight, Unfinished, Older, Age
<1>3. FinTracksWriteback'
  BY <1>1, <1>2 DEF FinTracksWriteback
<1>4. ASSUME NEW i \in Unfinished'
      PROVE  Waits(table', com_ptr', Older(i)', table'[i].uop.src, rsv'[i])
  BY <1>1, <1>2 DEF Sources
<1>5. QED
  BY <1>3, <1>4 DEF Sources

(* Every step keeps the fin bits and the sources.                          *)
LEMMA WaitsNext ==
    ASSUME RegistersToSpare, Structure, MasterMapsYoungest, FinTracksWriteback, Sources,
           [Next]_vars
    PROVE  FinTracksWriteback' /\ Sources'
<1>1. CASE UNCHANGED vars
  BY <1>1, WaitsStutter
<1>2. ASSUME NEW finished, NEW g, NEW landed, NEW resolved,
             CycleOf(finished, g, landed, resolved)
      PROVE  FinTracksWriteback' /\ Sources'
  BY <1>2, FlowFin, FlowSources
<1>3. ASSUME NEW i, NEW done, SquashOf(i, done)
      PROVE  FinTracksWriteback' /\ Sources'
  BY <1>3, SquashFin, SquashSources
<1>4. QED
  BY <1>1, <1>2, <1>3, StepsAreCycles

(* FinTracksWriteback in every behavior of a core with more registers than *)
(* rows: a register in flight is marked written exactly when its writer    *)
(* has finished. With as many registers as rows the claim is false: a full *)
(* pool's next register is its oldest one in flight, and a rename marks    *)
(* it.                                                                     *)
THEOREM FinHolds ==
    ASSUME RegistersToSpare
    PROVE  Spec => []FinTracksWriteback
<1>1. Init => FinTracksWriteback /\ Sources
  BY InitWaits
<1>2. Structure /\ MasterMapsYoungest /\ FinTracksWriteback /\ Sources /\ [Next]_vars
         => FinTracksWriteback' /\ Sources'
  BY WaitsNext
<1>3. QED
  BY <1>1, <1>2, StructureHolds, MapsHold, PTL DEF Spec

(* SourcesFollowProgramOrder in every behavior of such a core: an          *)
(* unfinished row waits on the register of the youngest older writer of    *)
(* its source until that writer finishes, and for nothing else. No wakeup  *)
(* is lost.                                                                *)
THEOREM SourcesHold ==
    ASSUME RegistersToSpare
    PROVE  Spec => []SourcesFollowProgramOrder
<1>1. Init => FinTracksWriteback /\ Sources
  BY InitWaits
<1>2. Structure /\ MasterMapsYoungest /\ FinTracksWriteback /\ Sources /\ [Next]_vars
         => FinTracksWriteback' /\ Sources'
  BY WaitsNext
<1>3. Structure /\ Sources => SourcesFollowProgramOrder
  BY SourcesSay
<1>4. QED
  BY <1>1, <1>2, <1>3, StructureHolds, MapsHold, PTL DEF Spec

-----------------------------------------------------------------------------
(* The program.                                                            *)

QueueRow == [uop : Uops, done : BOOLEAN]

(* Program is a queue whose place k holds the row k - 1 places behind the  *)
(* oldest.                                                                 *)
ProgramReads ==
    /\ Program \in Seq(QueueRow) /\ Len(Program) = used_entry_cnt
    /\ used_entry_cnt \in Nat /\ DOMAIN Program = 1 .. used_entry_cnt
    /\ \A k \in 1 .. used_entry_cnt : SlotAt(k - 1) \in InFlight /\ Age(SlotAt(k - 1)) = k - 1
    /\ \A i \in InFlight :
          /\ Age(i) \in 0 .. used_entry_cnt - 1 /\ SlotAt(Age(i)) = i
          /\ Program[Age(i) + 1] = [uop |-> table[i].uop, done |-> table[i].wb_fin]
          /\ table[i].wb_fin \in BOOLEAN

(* The rows in use read as such a queue.                                   *)
LEMMA ProgramIsQueue == Structure => ProgramReads
<1> SUFFICES ASSUME Structure PROVE ProgramReads
  OBVIOUS
<1>1. /\ com_ptr \in Slots /\ used_entry_cnt \in 0 .. RobDepth /\ RobDepth \in Nat \ {0}
      /\ InFlight \subseteq Slots
  BY StructureTypes, RobAssumption DEF RobTyped
<1>2. ASSUME NEW k \in 1 .. used_entry_cnt
      PROVE  SlotAt(k - 1) \in InFlight /\ Age(SlotAt(k - 1)) = k - 1
  <2>1. k - 1 \in Slots /\ k - 1 < used_entry_cnt
    BY <1>1 DEF Slots
  <2>2. SlotAt(k - 1) \in Slots /\ Age(SlotAt(k - 1)) = k - 1
    BY <1>1, <2>1, SlotsAndAges, AgeIsFrom
  <2>3. QED
    BY <2>1, <2>2 DEF InFlight
<1>3. ASSUME NEW i \in InFlight
      PROVE  Age(i) \in 0 .. used_entry_cnt - 1 /\ SlotAt(Age(i)) = i
  <2>1. i \in Slots /\ Age(i) \in 0 .. used_entry_cnt - 1
    BY StayingRows
  <2>2. SlotAt(Age(i)) = i
    BY <1>1, <2>1, SlotsAndAges, AgeIsFrom
  <2>3. QED
    BY <2>1, <2>2
<1>4. \A i \in InFlight : table[i].uop \in Uops /\ table[i].wb_fin \in BOOLEAN
  BY <1>1 DEF Structure, RowsAreWhole, TypeOK, Row
<1> DEFINE e(k) == [uop |-> table[SlotAt(k - 1)].uop, done |-> table[SlotAt(k - 1)].wb_fin]
<1>5. Program = [k \in 1 .. used_entry_cnt |-> e(k)]
  BY DEF Program
<1>6. \A k \in 1 .. used_entry_cnt : e(k) \in QueueRow
  BY <1>2, <1>4 DEF QueueRow
<1>7. Program \in Seq(QueueRow) /\ Len(Program) = used_entry_cnt /\ DOMAIN Program = 1 .. used_entry_cnt
  <2> HIDE DEF e
  <2>1. used_entry_cnt \in Nat
    BY <1>1
  <2>2. Program \in [1 .. used_entry_cnt -> QueueRow]
    BY <1>5, <1>6
  <2>3. Program \in Seq(QueueRow)
    BY <2>1, <2>2, SeqDef
  <2>4. DOMAIN Program = 1 .. used_entry_cnt
    BY <2>2
  <2>5. QED
    BY <2>1, <2>3, <2>4, LenProperties
<1>8. ASSUME NEW i \in InFlight
      PROVE  Program[Age(i) + 1] = [uop |-> table[i].uop, done |-> table[i].wb_fin]
  <2> DEFINE k == Age(i) + 1
  <2>1. k \in 1 .. used_entry_cnt /\ k - 1 = Age(i)
    BY <1>1, <1>3
  <2>2. SlotAt(k - 1) = i
    BY <1>3, <2>1
  <2> HIDE DEF k
  <2>3. Program[k] = [uop |-> table[i].uop, done |-> table[i].wb_fin]
    BY <1>5, <2>1, <2>2
  <2>4. QED
    BY <2>3 DEF k
<1>9. QED
  BY <1>1, <1>2, <1>3, <1>4, <1>7, <1>8 DEF ProgramReads

(* What a unit answers may be answered: the value it reads is there, and a *)
(* branch comes after every older one.                                     *)
LEMMA ReadyMayFinish ==
    ASSUME Structure, Sources, NEW i \in Unfinished, rsv[i].ready,
           table[i].uop.is_branch => \A j \in Opened : Age(i) <= Age(j)
    PROVE  PO!MayFinish(Age(i) + 1)
<1> DEFINE k == Age(i) + 1
           src == table[i].uop.src
<1>1. /\ ProgramReads /\ i \in InFlight /\ ~table[i].wb_fin
      /\ \A j \in InFlight : Age(j) \in Int
  BY ProgramIsQueue, StayingRows DEF Unfinished
<1>2. /\ k \in 1 .. used_entry_cnt /\ used_entry_cnt \in Nat /\ k - 1 = Age(i)
      /\ Program[k].uop = table[i].uop /\ Program[k].done = table[i].wb_fin
  <2>1. Age(i) \in 0 .. used_entry_cnt - 1 /\ used_entry_cnt \in Nat
    BY <1>1 DEF ProgramReads
  <2>2. Program[k] = [uop |-> table[i].uop, done |-> table[i].wb_fin]
    BY <1>1 DEF ProgramReads
  <2>3. k \in 1 .. used_entry_cnt /\ k - 1 = Age(i)
    BY <2>1
  <2> HIDE DEF k
  <2>4. QED
    BY <2>1, <2>2, <2>3
<1>3. ASSUME NEW j \in 1 .. k - 1
      PROVE  /\ SlotAt(j - 1) \in Older(i) /\ Age(SlotAt(j - 1)) = j - 1
             /\ Program[j].uop = table[SlotAt(j - 1)].uop
             /\ Program[j].done = table[SlotAt(j - 1)].wb_fin
  <2> DEFINE s == SlotAt(j - 1)
  <2>1. s \in InFlight /\ Age(s) = j - 1 /\ j - 1 < Age(i) /\ Age(s) + 1 = j
    BY <1>1, <1>2 DEF ProgramReads
  <2> HIDE DEF s
  <2>2. Program[j] = [uop |-> table[s].uop, done |-> table[s].wb_fin]
    BY <1>1, <2>1 DEF ProgramReads
  <2>3. s \in Older(i) /\ Program[j].uop = table[s].uop /\ Program[j].done = table[s].wb_fin
    BY <2>1, <2>2 DEF Older
  <2>4. QED
    BY <2>1, <2>3 DEF s
<1>4. ASSUME NEW w \in Older(i)
      PROVE  /\ Age(w) + 1 \in 1 .. k - 1 /\ SlotAt(Age(w)) = w
             /\ Program[Age(w) + 1].uop = table[w].uop
  <2>1. w \in InFlight /\ Age(w) < Age(i)
    BY DEF Older
  <2>2. /\ Age(w) \in 0 .. used_entry_cnt - 1 /\ SlotAt(Age(w)) = w
        /\ Program[Age(w) + 1] = [uop |-> table[w].uop, done |-> table[w].wb_fin]
    BY <1>1, <2>1 DEF ProgramReads
  <2>3. Age(w) + 1 \in 1 .. k - 1
    BY <1>1, <1>2, <2>1, <2>2
  <2>4. QED
    BY <2>2, <2>3
<1> HIDE DEF k
<1>5. PO!SourceKnown(k)
  <2>1. SUFFICES ASSUME NEW j \in PO!Writers(k), \A m \in PO!Writers(k) : m <= j
                 PROVE  Program[j].done
    BY DEF PO!SourceKnown
  <2>2. j \in 1 .. k - 1 /\ Writes(Program[j].uop, src)
    BY <1>2 DEF PO!Writers
  <2> DEFINE s == SlotAt(j - 1)
  <2>3. s \in WritersIn(table, Older(i), src) /\ Age(s) = j - 1
    BY <1>3, <2>2 DEF WritersIn
  <2>4. Waits(table, com_ptr, Older(i), src, rsv[i])
    BY DEF Sources
  <2> HIDE DEF s, src
  <2>5. PICK w \in Older(i) : IsLast(table, com_ptr, Older(i), src, w) /\ table[w].wb_fin
    BY <2>3, <2>4 DEF Waits
  <2>6. Age(s) <= Age(w) /\ Writes(table[w].uop, src)
    BY <2>3, <2>5, AgeIsFrom DEF IsLast, WritersIn
  <2>7. Age(w) + 1 \in PO!Writers(k)
    <3>1. Age(w) + 1 \in 1 .. k - 1 /\ Program[Age(w) + 1].uop = table[w].uop
      BY <1>4
    <3>2. QED
      BY <1>2, <2>6, <3>1 DEF PO!Writers, src
  <2>8. Age(w) = j - 1
    <3>1. Age(w) + 1 <= j /\ j - 1 <= Age(w) /\ Age(w) \in Int /\ j \in Int
      BY <1>1, <1>2, <2>1, <2>2, <2>3, <2>6, <2>7 DEF Older
    <3>2. QED
      BY <3>1
  <2>9. w = s
    BY <1>4, <2>8 DEF s
  <2>10. QED
    BY <1>3, <2>2, <2>5, <2>9 DEF s
<1>6. table[i].uop.is_branch => PO!OldestOpenBranch(k)
  <2>1. SUFFICES ASSUME table[i].uop.is_branch, NEW j \in 1 .. k - 1, Program[j].uop.is_branch
                 PROVE  Program[j].done
    BY DEF PO!OldestOpenBranch
  <2> DEFINE s == SlotAt(j - 1)
  <2>2. /\ s \in Older(i) /\ Age(s) = j - 1
        /\ Program[j].uop = table[s].uop /\ Program[j].done = table[s].wb_fin
    BY <1>3
  <2> HIDE DEF s
  <2>3. s \notin Opened
    <3>1. Age(s) < Age(i) /\ Age(s) \in Int /\ Age(i) \in Int
      BY <1>1, <2>2 DEF Older
    <3>2. QED
      BY <2>1, <3>1
  <2>4. QED
    BY <2>1, <2>2, <2>3 DEF Older, Opened, Unfinished
<1>7. PO!MayFinish(k)
  BY <1>1, <1>2, <1>5, <1>6 DEF PO!MayFinish
<1>8. QED
  BY <1>7 DEF k

(* The queue with the places S answered, row by row.                       *)
LEMMA AnsweredRows ==
    ASSUME ProgramReads, NEW S
    PROVE  /\ DOMAIN PO!Answered(S) = 1 .. used_entry_cnt
           /\ \A k \in 1 .. used_entry_cnt :
                 /\ PO!Answered(S)[k] \in QueueRow
                 /\ \A i \in InFlight : Age(i) = k - 1 =>
                       PO!Answered(S)[k] = [uop |-> table[i].uop, done |-> (table[i].wb_fin \/ k \in S)]
<1>1. DOMAIN Program = 1 .. used_entry_cnt /\ Program \in Seq(QueueRow)
      /\ Len(Program) = used_entry_cnt /\ used_entry_cnt \in Nat
  BY DEF ProgramReads
<1>2. PO!Answered(S) = [k \in 1 .. used_entry_cnt |-> [Program[k] EXCEPT !.done = @ \/ k \in S]]
  BY <1>1 DEF PO!Answered
<1>3. ASSUME NEW k \in 1 .. used_entry_cnt
      PROVE  Program[k] \in QueueRow
  BY <1>1, <1>3, ElementOfSeq
<1>4. ASSUME NEW k \in 1 .. used_entry_cnt
      PROVE  PO!Answered(S)[k] \in QueueRow
  BY <1>2, <1>3 DEF QueueRow
<1>5. ASSUME NEW k \in 1 .. used_entry_cnt, NEW i \in InFlight, Age(i) = k - 1
      PROVE  PO!Answered(S)[k] = [uop |-> table[i].uop, done |-> (table[i].wb_fin \/ k \in S)]
  <2>1. Age(i) + 1 = k
    BY <1>1, <1>5
  <2>2. Program[k] = [uop |-> table[i].uop, done |-> table[i].wb_fin]
    BY <2>1 DEF ProgramReads
  <2>3. QED
    BY <1>2, <2>2
<1>6. QED
  BY <1>2, <1>4, <1>5

(* A cycle without a squash advances the queue: what retires leaves its    *)
(* front, what finishes was ready to, and the lanes that land join behind. *)
LEMMA FlowAdvances ==
    ASSUME Structure, Sources, ProgramReads, ProgramReads',
           NEW finished, NEW g, NEW landed, NEW resolved,
           CycleOf(finished, g, landed, resolved)
    PROVE  PO!Advance
<1> DEFINE S == {k \in 1 .. used_entry_cnt : SlotAt(k - 1) \in finished}
           took == Took(g, landed)
           stay == used_entry_cnt - Gone
           new == [k \in 1 .. took |-> Program'[stay + k]]
           left == SubSeq(PO!Answered(S), Gone + 1, Len(Program))
<1>1. ProgramReads /\ ProgramReads' /\ RobTyped /\ g \in Groups /\ landed \in BOOLEAN
  BY StructureTypes DEF CycleOf
<1>2. /\ Gone \in 0 .. CommitLanes /\ Gone \in 0 .. used_entry_cnt /\ CommitLanes \in Nat
      /\ Retiring = {i \in Slots : Age(i) < Gone}
      /\ \A i \in Retiring : table[i].wb_fin
      /\ \A i \in Retiring : Age(i) < Gone - 1 =>
            ~table[i].uop.is_branch /\ ~table[i].uop.is_store
  BY <1>1, RetiringIsPrefix, RobAssumption
<1>3. /\ DOMAIN Program = 1 .. used_entry_cnt /\ Len(Program) = used_entry_cnt
      /\ used_entry_cnt \in Nat /\ Gone \in Nat
  BY <1>1, <1>2 DEF ProgramReads
<1>4. ASSUME NEW k \in 1 .. used_entry_cnt
      PROVE  /\ SlotAt(k - 1) \in InFlight /\ Age(SlotAt(k - 1)) = k - 1
             /\ Program[k].uop = table[SlotAt(k - 1)].uop
             /\ Program[k].done = table[SlotAt(k - 1)].wb_fin
  <2> DEFINE s == SlotAt(k - 1)
  <2>1. s \in InFlight /\ Age(s) = k - 1
    BY <1>1 DEF ProgramReads
  <2>2. Age(s) + 1 = k
    BY <1>3, <2>1
  <2> HIDE DEF s
  <2>3. Program[k] = [uop |-> table[s].uop, done |-> table[s].wb_fin]
    BY <1>1, <2>1, <2>2 DEF ProgramReads
  <2>4. QED
    BY <2>1, <2>3 DEF s
<1>5. PO!MayRetire(Gone)
  <2>1. ASSUME NEW k \in 1 .. Gone PROVE Program[k].done
    <3>1. k \in 1 .. used_entry_cnt /\ k - 1 < Gone
      BY <1>2, <1>3
    <3>2. SlotAt(k - 1) \in Retiring
      BY <1>2, <1>4, <3>1 DEF InFlight
    <3>3. QED
      BY <1>2, <1>4, <3>1, <3>2
  <2>2. ASSUME NEW k \in 1 .. Gone - 1 PROVE ~Program[k].uop.is_branch /\ ~Program[k].uop.is_store
    <3>1. k \in 1 .. used_entry_cnt /\ k - 1 < Gone /\ k - 1 < Gone - 1
      BY <1>2, <1>3
    <3>2. SlotAt(k - 1) \in Retiring /\ Age(SlotAt(k - 1)) < Gone - 1
      BY <1>2, <1>4, <3>1 DEF InFlight
    <3>3. QED
      BY <1>2, <1>4, <3>1, <3>2
  <2>3. QED
    BY <2>1, <2>2 DEF PO!MayRetire
<1>6. S \in SUBSET {k \in DOMAIN Program : PO!MayFinish(k)}
  <2>1. ASSUME NEW k \in S PROVE PO!MayFinish(k)
    <3> DEFINE i == SlotAt(k - 1)
    <3>1. k \in 1 .. used_entry_cnt /\ i \in finished /\ Age(i) + 1 = k
      BY <1>3, <1>4
    <3> HIDE DEF i, S
    <3>2. /\ i \in Unfinished /\ rsv[i].ready
          /\ table[i].uop.is_branch => i \in finished \cap Opened
      BY <3>1, OneBranchResolves DEF Opened, Unfinished
    <3>3. table[i].uop.is_branch => \A j \in Opened : Age(i) <= Age(j)
      BY <3>2, OneBranchResolves
    <3>4. PO!MayFinish(Age(i) + 1)
      BY <3>2, <3>3, ReadyMayFinish
    <3>5. QED
      BY <3>1, <3>4
  <2>2. S \subseteq DOMAIN Program
    BY <1>3
  <2> HIDE DEF S
  <2>3. QED
    BY <2>1, <2>2
<1>7. /\ used_entry_cnt' = stay + took /\ used_entry_cnt' \in Nat
      /\ took \in 0 .. FeLanes /\ FeLanes \in Nat /\ stay \in Nat /\ took \in Nat
  <2>1. used_entry_cnt' = used_entry_cnt + took - Gone
    BY <1>1, FlowPointers DEF Structure
  <2>2. Cardinality(Valid(g)) \in 0 .. FeLanes /\ FeLanes \in Nat
    <3>1. Valid(g) \in SUBSET Lanes
      BY <1>1, LaneSets
    <3>2. QED
      BY <3>1, LaneCounts, CoreAssumption, RobAssumption
  <2>3. took \in 0 .. FeLanes /\ took \in Nat
    BY <2>2 DEF Took
  <2> HIDE DEF took
  <2>4. QED
    BY <1>2, <1>3, <2>1, <2>2, <2>3
<1>8. /\ \A i \in InFlight : Kept(finished, i)
      /\ landed => \A l \in Valid(g) : Landed(finished, g, l)
      /\ \A i \in InFlight \ Retiring : i \in InFlight' /\ AgeNext(i) = Age(i) - Gone
      /\ InFlight' = (InFlight \ Retiring) \cup
                        {NewSlot(g, l) : l \in IF landed THEN Valid(g) ELSE {}}
  BY RowsAfter, PlacesAfter
<1>9. \A i : Age(i)' = AgeNext(i)
  BY DEF Age, AgeNext, AgeFrom
<1> HIDE DEF took
<1>10. new \in PO!Arrivals
  <2>1. ASSUME NEW k \in 1 .. took
        PROVE  Program'[stay + k] \in [uop : Uops, done : {FALSE}]
    <3> DEFINE p == stay + k
    <3>1. p \in 1 .. used_entry_cnt' /\ p \in Int /\ p - 1 >= stay
      BY <1>7
    <3>2. PICK i \in InFlight' : AgeNext(i) = p - 1
      <4>1. \A m \in 1 .. used_entry_cnt' : \E i \in InFlight' : Age(i)' = m - 1
        BY <1>1 DEF ProgramReads
      <4> HIDE DEF p
      <4>2. QED
        BY <1>9, <3>1, <4>1
    <3>3. i \notin InFlight \ Retiring
      <4>1. SUFFICES ASSUME i \in InFlight \ Retiring PROVE FALSE
        OBVIOUS
      <4>2. AgeNext(i) = Age(i) - Gone /\ Age(i) \in 0 .. used_entry_cnt - 1
        BY <1>8, <4>1, StayingRows
      <4> HIDE DEF p
      <4>3. QED
        BY <1>3, <1>7, <3>1, <3>2, <4>2
    <3>4. PICK l \in Valid(g) : landed /\ i = NewSlot(g, l)
      <4>1. \A l \in (IF landed THEN Valid(g) ELSE {}) : landed /\ l \in Valid(g)
        OBVIOUS
      <4>2. QED
        BY <1>8, <3>2, <3>3, <4>1
    <3>5. table'[i].uop \in Uops /\ table'[i].wb_fin = FALSE
      <4>1. Landed(finished, g, l) /\ g[l] \in Uops
        BY <1>1, <1>8, <3>4, LaneSets
      <4>2. QED
        BY <3>4, <4>1 DEF Landed
    <3>6. Program'[AgeNext(i) + 1] = [uop |-> table'[i].uop, done |-> table'[i].wb_fin]
      BY <1>1, <1>9, <3>2 DEF ProgramReads
    <3>7. AgeNext(i) + 1 = p
      BY <3>1, <3>2
    <3> HIDE DEF p
    <3>8. Program'[p] = [uop |-> table'[i].uop, done |-> FALSE]
      BY <3>5, <3>6, <3>7
    <3>9. [uop |-> table'[i].uop, done |-> FALSE] \in [uop : Uops, done : {FALSE}]
      BY <3>5
    <3>10. QED
      BY <3>8, <3>9 DEF p
  <2>2. new \in [1 .. took -> [uop : Uops, done : {FALSE}]]
    BY <2>1
  <2> HIDE DEF new
  <2>3. QED
    BY <1>7, <2>2 DEF PO!Arrivals
<1>11. \A k \in 1 .. took : new[k] = Program'[stay + k]
  OBVIOUS
<1>12. new \in Seq(QueueRow) /\ Len(new) = took
  <2>1. \A k \in 1 .. took : new[k] \in QueueRow
    <3>1. ASSUME NEW k \in 1 .. took PROVE stay + k \in 1 .. used_entry_cnt'
      BY <1>7
    <3>2. Program' \in Seq(QueueRow) /\ Len(Program') = used_entry_cnt'
      BY <1>1 DEF ProgramReads
    <3>3. QED
      BY <1>11, <3>1, <3>2, ElementOfSeq
  <2>2. new \in [1 .. took -> QueueRow] /\ DOMAIN new = 1 .. took
    BY <2>1
  <2> HIDE DEF new
  <2>3. new \in Seq(QueueRow)
    BY <1>7, <2>2, SeqDef
  <2>4. QED
    BY <1>7, <2>2, <2>3, LenProperties
<1>13. /\ left \in Seq(QueueRow) /\ Len(left) = stay
       /\ \A k \in 1 .. stay : left[k] = PO!Answered(S)[Gone + k]
  <2> HIDE DEF S
  <2>1. \A k \in Gone + 1 .. used_entry_cnt : PO!Answered(S)[k] \in QueueRow
    <3>1. \A k \in Gone + 1 .. used_entry_cnt : k \in 1 .. used_entry_cnt
      BY <1>3
    <3>2. QED
      BY <1>1, <3>1, AnsweredRows
  <2> DEFINE s == PO!Answered(S)
             m == Gone + 1
             n == used_entry_cnt
  <2>2. left = SubSeq(s, m, n)
    BY <1>3
  <2>3. m \in Int /\ n \in Int /\ \A k \in m .. n : s[k] \in QueueRow
    BY <1>3, <2>1
  <2>4. /\ (m <= n => n - m + 1 = stay) /\ (~(m <= n) => stay = 0) /\ n - m + 1 = stay
        /\ \A k \in 1 .. stay : m + k - 1 = Gone + k
    BY <1>2, <1>3
  <2> HIDE DEF s, m, n, left, stay
  <2>5. /\ left \in Seq(QueueRow) /\ Len(left) = IF m <= n THEN n - m + 1 ELSE 0
        /\ \A k \in 1 .. n - m + 1 : left[k] = s[m + k - 1]
    BY <2>2, <2>3, SubSeqProperties
  <2>6. QED
    BY <2>4, <2>5 DEF s
<1>14. ASSUME NEW k \in 1 .. stay
       PROVE  Program'[k] = left[k]
  <2> DEFINE p == Gone + k
             i == SlotAt(p - 1)
  <2>1. p \in 1 .. used_entry_cnt /\ p - 1 = Gone + k - 1 /\ k \in Int /\ k >= 1
    BY <1>2, <1>3
  <2>2. i \in InFlight /\ Age(i) = p - 1
    BY <1>4, <2>1
  <2> HIDE DEF i, S
  <2>3. PO!Answered(S)[p] = [uop |-> table[i].uop, done |-> (table[i].wb_fin \/ p \in S)]
    BY <1>1, <2>1, <2>2, AnsweredRows
  <2>4. i \in InFlight' /\ AgeNext(i) = k - 1
    <3>1. ~(Age(i) < Gone)
      BY <1>3, <2>1, <2>2
    <3>2. i \in InFlight \ Retiring
      BY <1>2, <2>2, <3>1
    <3>3. AgeNext(i) = Age(i) - Gone /\ i \in InFlight'
      BY <1>8, <3>2
    <3>4. QED
      BY <1>3, <2>1, <2>2, <3>3
  <2>5. Program'[k] = [uop |-> table'[i].uop, done |-> table'[i].wb_fin]
        /\ table'[i].wb_fin \in BOOLEAN
    <3>1. Program'[AgeNext(i) + 1] = [uop |-> table'[i].uop, done |-> table'[i].wb_fin]
          /\ table'[i].wb_fin \in BOOLEAN
      BY <1>1, <1>9, <2>4 DEF ProgramReads
    <3>2. AgeNext(i) + 1 = k
      BY <2>1, <2>4
    <3>3. QED
      BY <3>1, <3>2
  <2>6. p \in S <=> i \in finished
    BY <2>1 DEF S, i
  <2>7. /\ table'[i].uop = table[i].uop
        /\ table'[i].wb_fin <=> table[i].wb_fin \/ i \in finished
    BY <1>8, <2>2 DEF Kept
  <2>8. table'[i].wb_fin = (table[i].wb_fin \/ p \in S)
    <3> HIDE DEF p
    <3>1. QED
      BY <2>5, <2>6, <2>7
  <2>9. left[k] = PO!Answered(S)[p]
    BY <1>13
  <2> HIDE DEF p
  <2>10. QED
    BY <2>3, <2>5, <2>7, <2>8, <2>9
<1>15. Program' = left \o new
  <2> HIDE DEF left, new, stay
  <2>1. /\ left \o new \in Seq(QueueRow) /\ Len(left \o new) = stay + took
        /\ \A k \in 1 .. stay + took :
              (left \o new)[k] = IF k <= stay THEN left[k] ELSE new[k - stay]
    BY <1>12, <1>13, ConcatProperties
  <2>2. Program' \in Seq(QueueRow) /\ Len(Program') = stay + took
    BY <1>1, <1>7 DEF ProgramReads
  <2>3. ASSUME NEW k \in 1 .. stay + took PROVE Program'[k] = (left \o new)[k]
    <3>1. CASE k <= stay
      <4>1. k \in 1 .. stay
        BY <1>7, <3>1
      <4>2. QED
        BY <1>14, <2>1, <3>1, <4>1
    <3>2. CASE ~(k <= stay)
      <4>1. k - stay \in 1 .. took /\ stay + (k - stay) = k
        BY <1>7, <3>2
      <4>2. new[k - stay] = Program'[k]
        BY <1>11, <4>1
      <4>3. QED
        BY <2>1, <3>2, <4>2
    <3>3. QED
      BY <3>1, <3>2
  <2>4. QED
    BY <2>1, <2>2, <2>3, SeqEqual
<1>16. Gone \in 0 .. CommitLanes /\ Gone <= Len(Program)
  BY <1>2, <1>3
<1> HIDE DEF S, new
<1>17. QED
  BY <1>5, <1>6, <1>10, <1>15, <1>16 DEF PO!Advance

(* A squash answers its branch and keeps the queue up to it.               *)
LEMMA SquashShortens ==
    ASSUME Structure, Sources, ProgramReads, ProgramReads',
           NEW i, NEW done, SquashOf(i, done)
    PROVE  PO!Squash
<1> DEFINE S == {k \in 1 .. Age(i) : SlotAt(k - 1) \in done}
           b == Age(i) + 1
           left == SubSeq(PO!Answered(S \cup {b}), 1, b)
<1>1. /\ TypeOK /\ RobTyped /\ InFlight \subseteq Slots
      /\ i \in Opened /\ i \in Resolving
      /\ done \subseteq {j \in Executing : Age(j) < Age(i)}
  BY StructureTypes, SquashRows DEF Structure, SquashOf
<1>2. /\ com_ptr' = com_ptr /\ used_entry_cnt' = b
      /\ \A j : Age(j)' = Age(j)
      /\ InFlight' = {j \in InFlight : Age(j) <= Age(i)}
      /\ \A j \in Slots :
            /\ table'[j].uop = table[j].uop
            /\ table'[j].wb_fin <=> table[j].wb_fin \/ j \in done \cup {i}
      /\ \A j \in Opened : Age(i) <= Age(j)
  BY <1>1, SquashRows
<1>3. /\ DOMAIN Program = 1 .. used_entry_cnt /\ used_entry_cnt \in Nat
      /\ Age(i) \in 0 .. used_entry_cnt - 1 /\ SlotAt(Age(i)) = i /\ i \in InFlight
      /\ Program[b] = [uop |-> table[i].uop, done |-> table[i].wb_fin]
  BY <1>1 DEF ProgramReads, Opened, Unfinished
<1>4. b \in 1 .. used_entry_cnt /\ b - 1 = Age(i) /\ b \in Nat /\ Age(i) \in Nat
  BY <1>3
<1> HIDE DEF b
<1>5. ASSUME NEW k \in 1 .. b
      PROVE  /\ SlotAt(k - 1) \in InFlight /\ Age(SlotAt(k - 1)) = k - 1
             /\ k \in 1 .. used_entry_cnt /\ k - 1 <= Age(i)
             /\ Age(SlotAt(k - 1)) + 1 = k
  <2>1. k \in 1 .. used_entry_cnt /\ k - 1 <= Age(i)
    BY <1>3, <1>4
  <2>2. SlotAt(k - 1) \in InFlight /\ Age(SlotAt(k - 1)) = k - 1
    BY <2>1 DEF ProgramReads
  <2>3. QED
    BY <1>4, <2>1, <2>2
<1>6. b \in {k \in DOMAIN Program : Program[k].uop.is_branch /\ PO!MayFinish(k)}
  <2>1. PO!MayFinish(Age(i) + 1)
    BY <1>1, <1>2, ReadyMayFinish DEF Resolving
  <2>2. PO!MayFinish(b) /\ Program[b].uop.is_branch
    BY <1>1, <1>3, <2>1 DEF b, Opened, Unfinished
  <2>3. QED
    BY <1>3, <1>4, <2>2
<1>7. S \in SUBSET {k \in 1 .. b - 1 : PO!MayFinish(k)}
  <2>1. ASSUME NEW k \in S PROVE k \in 1 .. b - 1 /\ PO!MayFinish(k)
    <3> DEFINE j == SlotAt(k - 1)
    <3>1. k \in 1 .. b - 1 /\ k \in 1 .. b /\ j \in done
      BY <1>4
    <3>2. Age(j) + 1 = k
      BY <1>5, <3>1
    <3> HIDE DEF j, S
    <3>3. j \in Unfinished /\ rsv[j].ready /\ ~table[j].uop.is_branch
      BY <1>1, <3>1 DEF Executing
    <3>4. PO!MayFinish(Age(j) + 1)
      BY <3>3, ReadyMayFinish
    <3>5. QED
      BY <3>1, <3>2, <3>4
  <2> HIDE DEF S
  <2>2. QED
    BY <2>1
<1>8. /\ left \in Seq(QueueRow) /\ Len(left) = b
      /\ \A k \in 1 .. b : left[k] = PO!Answered(S \cup {b})[k]
  <2> DEFINE s == PO!Answered(S \cup {b})
  <2> HIDE DEF S
  <2>1. \A k \in 1 .. b : s[k] \in QueueRow
    BY <1>5, AnsweredRows
  <2>2. /\ 1 \in Int /\ b \in Int /\ 1 <= b /\ b - 1 + 1 = b
        /\ \A k \in 1 .. b : 1 + k - 1 = k
    BY <1>4
  <2>3. left = SubSeq(s, 1, b)
    OBVIOUS
  <2> HIDE DEF s, left
  <2>4. /\ left \in Seq(QueueRow) /\ Len(left) = IF 1 <= b THEN b - 1 + 1 ELSE 0
        /\ \A k \in 1 .. b - 1 + 1 : left[k] = s[1 + k - 1]
    BY <2>1, <2>2, <2>3, SubSeqProperties
  <2>5. QED
    BY <2>2, <2>4 DEF s
<1>9. ASSUME NEW k \in 1 .. b
      PROVE  Program'[k] = left[k]
  <2> DEFINE T == S \cup {b}
  <2>1. PICK j \in InFlight : j = SlotAt(k - 1)
    BY <1>5
  <2>2. /\ Age(j) = k - 1 /\ k \in 1 .. used_entry_cnt
        /\ j \in Slots /\ Age(j) <= Age(i) /\ Age(j) + 1 = k
    BY <1>1, <1>5, <2>1
  <2>3. k \in T <=> j \in done \cup {i}
    <3>1. CASE k = b
      BY <1>3, <1>4, <2>1, <3>1
    <3>2. CASE k # b
      <4>1. k \in 1 .. Age(i) /\ Age(j) # Age(i)
        BY <1>4, <2>2, <3>2
      <4>2. QED
        BY <2>1, <3>2, <4>1
    <3>3. QED
      BY <3>1, <3>2
  <2> HIDE DEF T
  <2>4. PO!Answered(T)[k] = [uop |-> table[j].uop, done |-> (table[j].wb_fin \/ k \in T)]
    BY <2>2, AnsweredRows
  <2>5. Program'[k] = [uop |-> table'[j].uop, done |-> table'[j].wb_fin]
        /\ table'[j].wb_fin \in BOOLEAN
    <3>1. j \in InFlight' /\ Age(j)' + 1 = k
      BY <1>2, <2>2
    <3>2. Program'[Age(j)' + 1] = [uop |-> table'[j].uop, done |-> table'[j].wb_fin]
          /\ table'[j].wb_fin \in BOOLEAN
      BY <3>1 DEF ProgramReads
    <3>3. QED
      BY <3>1, <3>2
  <2>6. /\ table'[j].uop = table[j].uop
        /\ table'[j].wb_fin <=> table[j].wb_fin \/ j \in done \cup {i}
    BY <1>2, <2>2
  <2>7. table'[j].wb_fin = (table[j].wb_fin \/ k \in T)
    BY <2>3, <2>5, <2>6
  <2>8. left[k] = PO!Answered(T)[k]
    BY <1>8 DEF T
  <2>9. QED
    BY <2>4, <2>5, <2>6, <2>7, <2>8
<1>10. Program' = left
  <2>1. Program' \in Seq(QueueRow) /\ Len(Program') = b
    BY <1>2 DEF ProgramReads
  <2> HIDE DEF left
  <2>2. QED
    BY <1>8, <1>9, <2>1, SeqEqual
<1> HIDE DEF S
<1>11. QED
  BY <1>6, <1>7, <1>10 DEF PO!Squash

(* RunsInProgramOrder: every behavior of such a core is one of the         *)
(* abstract machine.  Nothing leaves before everything older, nothing is   *)
(* answered before the value it reads exists, branches are answered oldest *)
(* first, and a squash removes exactly what is younger than its branch.    *)
THEOREM RefinesProgramOrder ==
    ASSUME RegistersToSpare
    PROVE  Spec => RunsInProgramOrder
<1>1. Init => FinTracksWriteback /\ Sources
  BY InitWaits
<1>2. Structure /\ MasterMapsYoungest /\ FinTracksWriteback /\ Sources /\ [Next]_vars
         => FinTracksWriteback' /\ Sources'
  BY WaitsNext
<1>3. Init => PO!Init
  <2>1. SUFFICES ASSUME Init PROVE Program = << >>
    BY DEF PO!Init
  <2>2. used_entry_cnt = 0
    BY <2>1 DEF Init, RobInit
  <2>3. ProgramReads
    BY <2>1, InitStructure, ProgramIsQueue
  <2>4. QED
    BY <2>2, <2>3, EmptySeq, SeqEqual DEF ProgramReads
<1>4. Structure /\ Sources /\ ProgramReads /\ ProgramReads' /\ [Next]_vars => [PO!Next]_Program
  <2>1. SUFFICES ASSUME Structure, Sources, ProgramReads, ProgramReads', [Next]_vars
                 PROVE  [PO!Next]_Program
    OBVIOUS
  <2>2. CASE UNCHANGED vars
    <3>1. table' = table /\ com_ptr' = com_ptr /\ used_entry_cnt' = used_entry_cnt
      BY <2>2 DEF vars, robVars
    <3>2. Program' = Program
      BY <3>1 DEF Program, SlotAt
    <3>3. QED
      BY <3>2
  <2>3. ASSUME NEW finished, NEW g, NEW landed, NEW resolved,
               CycleOf(finished, g, landed, resolved)
        PROVE  PO!Advance
    BY <2>1, <2>3, FlowAdvances
  <2>4. ASSUME NEW i, NEW done, SquashOf(i, done)
        PROVE  PO!Squash
    BY <2>1, <2>4, SquashShortens
  <2>5. QED
    BY <2>1, <2>2, <2>3, <2>4, StepsAreCycles DEF PO!Next
<1>5. QED
  BY <1>1, <1>2, <1>3, <1>4, StructureHolds, MapsHold, ProgramIsQueue, PTL
     DEF Spec, RunsInProgramOrder, PO!Spec
=============================================================================
