-------------------------- MODULE DecodeRowsProofs --------------------------
(***************************************************************************)
(* Where a decoded row goes, on every machine that all the checks accept:  *)
(* what the description, the configuration and the blocks each refuse is   *)
(* together enough for the rest of the core.                               *)
(***************************************************************************)
EXTENDS DecodeRows, FiniteSetTheorems, TLAPS

(* A finite set of positions has an element before which any number of     *)
(* them, less than all, come.                                              *)
LEMMA SomeHasThatManyBefore ==
    ASSUME NEW S, \A x \in S : x \in Int, IsFiniteSet(S), NEW d \in 0 .. Cardinality(S) - 1
    PROVE  \E x \in S : Cardinality({y \in S : y < x}) = d
<1> DEFINE Below(x) == {y \in S : y < x}
           n == Cardinality(S)
           num == [x \in S |-> Cardinality(Below(x))]
<1>1. n \in Nat
  BY FS_CardinalityType
<1>2. ASSUME NEW x \in S
      PROVE  IsFiniteSet(Below(x)) /\ Cardinality(Below(x)) \in 0 .. n - 1
  <2>1. Below(x) \in SUBSET S /\ x \notin Below(x)
    OBVIOUS
  <2>2. IsFiniteSet(Below(x)) /\ Cardinality(Below(x)) <= n /\ Cardinality(Below(x)) # n
    BY <2>1, FS_Subset
  <2>3. Cardinality(Below(x)) \in Nat
    BY <2>2, FS_CardinalityType
  <2>4. QED
    BY <1>1, <2>2, <2>3
<1>3. ASSUME NEW x \in S, NEW z \in S, x < z
      PROVE  Cardinality(Below(x)) # Cardinality(Below(z))
  <2>1. Below(x) \in SUBSET Below(z) /\ x \in Below(z) /\ x \notin Below(x)
    BY <1>3
  <2>2. QED
    BY <2>1, <1>2, FS_Subset
<1>4. \A x, y \in S : Cardinality(Below(x)) = Cardinality(Below(y)) => x = y
  <2>1. SUFFICES ASSUME NEW x \in S, NEW y \in S, x # y
                 PROVE  Cardinality(Below(x)) # Cardinality(Below(y))
    OBVIOUS
  <2>2. x < y \/ y < x
    BY <2>1
  <2> HIDE DEF Below
  <2>3. QED
    BY <2>2, <1>3
<1>5. num \in Injection(S, 0 .. n - 1)
  BY <1>2, <1>4 DEF Injection, IsInjective
<1>6. IsFiniteSet(0 .. n - 1) /\ Cardinality(0 .. n - 1) = n
  BY <1>1, FS_Interval
<1>7. num \in Surjection(S, 0 .. n - 1)
  BY <1>5, <1>6, FS_Injection
<1>8. QED
  BY <1>7 DEF Surjection

(* The image of a finite set is finite.                                    *)
LEMMA FiniteImage ==
    ASSUME NEW S, IsFiniteSet(S), NEW f, DOMAIN f = S, f = [x \in S |-> f[x]]
    PROVE  IsFiniteSet({f[x] : x \in S})
<1> DEFINE T == {f[x] : x \in S}
<1>1. f \in Surjection(S, T)
  BY DEF Surjection
<1> HIDE DEF T
<1>2. IsFiniteSet(T)
  BY <1>1, FS_Surjection
<1>3. QED
  BY <1>2 DEF T

(* Two elements of a set make it larger than one.                          *)
LEMMA AtMostOne ==
    ASSUME NEW S, IsFiniteSet(S), Cardinality(S) <= 1, NEW x \in S, NEW y \in S
    PROVE  x = y
<1>1. SUFFICES ASSUME x # y PROVE FALSE
  OBVIOUS
<1>2. IsFiniteSet({x}) /\ Cardinality({x}) = 1
  BY FS_Singleton
<1>3. IsFiniteSet({x, y}) /\ Cardinality({x, y}) = 2
  <2>1. {x, y} = {x} \cup {y} /\ y \notin {x}
    BY <1>1
  <2>2. IsFiniteSet({x} \cup {y}) /\ Cardinality({x} \cup {y}) = Cardinality({x}) + 1
    BY <1>2, <2>1, FS_AddElement
  <2>3. QED
    BY <1>2, <2>1, <2>2
<1>4. Cardinality({x, y}) <= Cardinality(S)
  BY FS_Subset
<1>5. Cardinality(S) \in Nat
  BY FS_CardinalityType
<1>6. QED
  BY <1>3, <1>4, <1>5

-----------------------------------------------------------------------------
(* The row is one the lane decoded, or not valid.                          *)
IInv ==
    /\ machine \in Machines /\ IsBuilt(machine)
    /\ lane \in 0 .. machine.fe_lanes - 1
    /\ "valid" \in DOMAIN row
    /\ row.valid => /\ row.uop \in Used(machine)
                    /\ row.rsv_id = RsvIdFor(row.uop)
                    /\ row.is_branch <=> IsBranch(desc, row.uop)

(* What the proofs use of a machine that is built.                         *)
LEMMA BuiltMeans ==
    ASSUME NEW m \in Machines, IsBuilt(m)
    PROVE  /\ m.rsv_specs \in Seq(RsvSpec) /\ m.fe_lanes \in Nat \ {0}
           /\ \A u \in Used(m) : \A n \in UnitsFor(m, u) : Covers(m, n, u)
           /\ \A k \in RsvIds(m) : /\ UnitsOf(m.rsv_specs[k]) \subseteq DOMAIN m.exec_units
                                   /\ RsvSpecAccepts(m, m.rsv_specs[k])
           /\ \A u \in Used(m) : \E k \in RsvIds(m) : CanIssue(m, k, u)
           /\ Cardinality(Squashers(m)) <= 1
           /\ \A n \in DOMAIN m.exec_units :
                 m.exec_units[n].uops \cap (RvLoads \cup RvStores) # {} => Accesses(m, n)
           /\ \A k \in RsvIds(m) : k \in Int
           /\ IsFiniteSet(RsvIds(m))
<1>1. /\ m.rsv_specs \in Seq(RsvSpec)
      /\ \A n \in DOMAIN m.exec_units :
            m.exec_units[n].uops \cap (RvLoads \cup RvStores) # {} => Accesses(m, n)
  BY MachinesAssumption
<1>2. /\ \A u \in Used(m) : \A n \in UnitsFor(m, u) : Covers(m, n, u)
      /\ Cardinality(Squashers(m)) <= 1
  BY DEF IsBuilt, IsaAccepts, CoreBuilds
<1>3. m.fe_lanes \in Nat \ {0} /\ RsvSpecsAccepted(m)
  BY DEF IsBuilt, ConfigAccepts
<1>4. RsvIds(m) = 1 .. Len(m.rsv_specs) /\ Len(m.rsv_specs) \in Nat
  BY <1>1 DEF RsvIds
<1>5. IsFiniteSet(RsvIds(m)) /\ \A k \in RsvIds(m) : k \in Int
  BY <1>4, FS_Interval
<1>6. QED
  BY <1>1, <1>2, <1>3, <1>5 DEF RsvSpecsAccepted

(* Some station runs a micro-operation in use, and the lane picks one.     *)
LEMMA PickRuns ==
    ASSUME IInv, NEW u \in Used(machine)
    PROVE  RsvIdFor(u) \in RsvIdsFor(u)
<1> DEFINE S == RsvIdsFor(u)
<1>1. S \in SUBSET RsvIds(machine) /\ S # {}
  BY BuiltMeans DEF IInv, RsvIdsFor
<1>2. IsFiniteSet(S) /\ \A x \in S : x \in Int
  BY <1>1, BuiltMeans, FS_Subset DEF IInv
<1>3. Cardinality(S) \in Nat /\ Cardinality(S) # 0
  BY <1>1, <1>2, FS_CardinalityType, FS_EmptySet
<1>4. lane \in Nat
  BY BuiltMeans DEF IInv
<1>5. lane % Cardinality(S) \in 0 .. Cardinality(S) - 1
  BY <1>3, <1>4
<1> HIDE DEF S
<1>6. \E k \in S : Cardinality({j \in S : j < k}) = lane % Cardinality(S)
  BY <1>2, <1>5, SomeHasThatManyBefore
<1>7. QED
  BY <1>6 DEF S, RsvIdFor

(* A station with a branch is the only one, has one unit and issues in     *)
(* order.                                                                  *)
LEMMA BranchesMeet ==
    ASSUME NEW m \in Machines, IsBuilt(m),
           NEW u \in Control(m.isa), NEW v \in Control(m.isa),
           NEW k \in RsvIds(m), CanIssue(m, k, u), NEW l \in RsvIds(m), CanIssue(m, l, v)
    PROVE  k = l
<1>1. ASSUME NEW w \in Control(m.isa), NEW j \in RsvIds(m), CanIssue(m, j, w)
      PROVE  <<j, 1>> \in Squashers(m)
  <2>1. PICK n \in UnitsOf(m.rsv_specs[j]) : w \in m.exec_units[n].uops
    BY <1>1 DEF CanIssue
  <2>2. Branches(m, n)
    BY <2>1 DEF Branches
  <2>3. RsvSpecAccepts(m, m.rsv_specs[j]) /\ m.rsv_specs[j] \in RsvSpec
    BY BuiltMeans DEF RsvIds
  <2>4. Len(m.rsv_specs[j].exec_unit) = 1
    BY <2>1, <2>2, <2>3 DEF RsvSpecAccepts
  <2>5. DOMAIN m.rsv_specs[j].exec_unit = {1}
    BY <2>3, <2>4 DEF RsvSpec
  <2>6. m.rsv_specs[j].exec_unit[1] = n
    BY <2>1, <2>5 DEF UnitsOf
  <2>7. QED
    BY <2>2, <2>5, <2>6 DEF Squashers
<1>2. IsFiniteSet(Squashers(m)) /\ Cardinality(Squashers(m)) <= 1
  <2> DEFINE Of(j) == {<<j, i>> : i \in {i \in DOMAIN m.rsv_specs[j].exec_unit :
                                            Branches(m, m.rsv_specs[j].exec_unit[i])}}
             All == {Of(j) : j \in RsvIds(m)}
  <2>1. IsFiniteSet(RsvIds(m)) /\ Cardinality(Squashers(m)) <= 1
    BY BuiltMeans
  <2>2. ASSUME NEW j \in RsvIds(m) PROVE IsFiniteSet(Of(j))
    <3> DEFINE I == {i \in DOMAIN m.rsv_specs[j].exec_unit :
                         Branches(m, m.rsv_specs[j].exec_unit[i])}
    <3>1. PICK units : units = m.rsv_specs[j].exec_unit /\ units \in Seq(STRING)
      <4>1. m.rsv_specs[j] \in RsvSpec
        BY BuiltMeans DEF RsvIds
      <4>2. QED
        BY <4>1 DEF RsvSpec
    <3>2. DOMAIN units = 1 .. Len(units) /\ Len(units) \in Nat
      BY <3>1
    <3>3. IsFiniteSet(DOMAIN m.rsv_specs[j].exec_unit)
      <4>1. IsFiniteSet(1 .. Len(units))
        BY <3>2, FS_Interval
      <4>2. QED
        BY <3>1, <3>2, <4>1
    <3>4. IsFiniteSet(I)
      BY <3>3, FS_Subset
    <3> HIDE DEF I
    <3>5. IsFiniteSet({<<j, i>> : i \in I})
      <4> DEFINE f == [i \in I |-> <<j, i>>]
      <4>1. {f[i] : i \in I} = {<<j, i>> : i \in I}
        OBVIOUS
      <4>2. DOMAIN f = I /\ f = [i \in I |-> f[i]]
        OBVIOUS
      <4> HIDE DEF f
      <4>3. QED
        BY <3>4, <4>1, <4>2, FiniteImage
    <3>6. QED
      BY <3>5 DEF I
  <2> HIDE DEF Of
  <2>3. IsFiniteSet(All) /\ \A T \in All : IsFiniteSet(T)
    <3> DEFINE f == [j \in RsvIds(m) |-> Of(j)]
    <3>1. {f[j] : j \in RsvIds(m)} = All
      OBVIOUS
    <3>2. DOMAIN f = RsvIds(m) /\ f = [j \in RsvIds(m) |-> f[j]]
      OBVIOUS
    <3> HIDE DEF f
    <3>3. IsFiniteSet({f[j] : j \in RsvIds(m)})
      BY <2>1, <3>2, FiniteImage
    <3>4. QED
      BY <2>2, <3>1, <3>3
  <2>4. Squashers(m) = UNION All
    BY DEF Squashers, Of
  <2> HIDE DEF All
  <2>5. QED
    BY <2>1, <2>3, <2>4, FS_UNION
<1>3. <<k, 1>> \in Squashers(m) /\ <<l, 1>> \in Squashers(m)
  BY <1>1
<1>4. <<k, 1>> = <<l, 1>>
  BY <1>2, <1>3, AtMostOne
<1>5. QED
  BY <1>4

(* Every branch of a description is in use.                                *)
LEMMA BranchesUsed == ASSUME NEW m, NEW u \in Control(m.isa) PROVE u \in Used(m)
<1>1. CASE m.isa = "riscv"
  BY <1>1, DecodeAssumption DEF Control, Used, Seqs, RvUops
<1>2. CASE m.isa # "riscv"
  BY <1>2, DecodeAssumption DEF Control, Used, Seqs, MipsUops
<1>3. QED
  BY <1>1, <1>2

-----------------------------------------------------------------------------
(* Nothing has been decoded at first, and each hand-over leaves a decoded  *)
(* row or one that is not valid.                                           *)
LEMMA Inductive == Spec => []IInv
<1>1. Init => IInv
  BY DEF Init, IInv
<1>2. IInv /\ [Next]_vars => IInv'
  <2> SUFFICES ASSUME IInv, [Next]_vars PROVE IInv'
    OBVIOUS
  <2>1. ASSUME NEW answered \in BOOLEAN, NEW word, Transfer(answered, word),
               UNCHANGED <<machine, lane>>
        PROVE  IInv'
    <3>1. CASE answered /\ Hits(desc, word) # {}
      <4>1. PICK seq \in Hits(desc, word) : row' = UopDecode(desc, seq.uop, word)
        BY <2>1, <3>1 DEF Transfer
      <4>2. seq.uop \in Used(machine)
        BY DEF Hits, Used, desc
      <4>3. /\ "valid" \in DOMAIN row' /\ row'.uop = seq.uop
            /\ row'.rsv_id = RsvIdFor(seq.uop) /\ row'.is_branch = IsBranch(desc, seq.uop)
        BY <4>1 DEF UopDecode
      <4>4. RsvIdFor(seq.uop)' = RsvIdFor(seq.uop) /\ desc' = desc /\ machine' = machine
        BY <2>1 DEF RsvIdFor, RsvIdsFor, desc
      <4>5. QED
        BY <2>1, <4>2, <4>3, <4>4 DEF IInv
    <3>2. CASE ~(answered /\ Hits(desc, word) # {})
      <4>1. row' = [row EXCEPT !.valid = FALSE]
        BY <2>1, <3>2 DEF Transfer
      <4>2. "valid" \in DOMAIN row' /\ ~row'.valid
        BY <4>1 DEF IInv
      <4>3. QED
        BY <2>1, <4>2 DEF IInv
    <3>3. QED
      BY <3>1, <3>2
  <2>2. CASE DecodeInstr
    BY <2>1, <2>2 DEF DecodeInstr
  <2>3. CASE DecodeWord
    BY <2>1, <2>3 DEF DecodeWord
  <2>4. CASE DecodeNothing
    BY <2>1, <2>4 DEF DecodeNothing
  <2>5. CASE UNCHANGED vars
    BY <2>5 DEF vars, IInv, RsvIdFor, RsvIdsFor, desc
  <2>6. QED
    BY <2>2, <2>3, <2>4, <2>5 DEF Next
<1>3. QED
  BY <1>1, <1>2, PTL DEF Spec

(* A decoded row goes to a station whose units that run it have every slot *)
(* it fills; branches and accesses go where issue is in order, all         *)
(* branches to one station.  So on every machine that passes the checks of *)
(* its description, its configuration and its blocks, and on every lane.   *)
THEOREM RoutesHold == Spec => []RoutedWhereItRuns
<1>1. IInv => RoutedWhereItRuns
  <2> SUFFICES ASSUME IInv, row.valid PROVE RoutedWhereItRuns
    BY DEF RoutedWhereItRuns
  <2> DEFINE k == row.rsv_id
             spec == machine.rsv_specs[k]
             runs == {n \in UnitsOf(spec) : row.uop \in machine.exec_units[n].uops}
  <2>1. row.uop \in Used(machine) /\ k \in RsvIdsFor(row.uop)
    BY PickRuns DEF IInv
  <2>2. k \in RsvIds(machine) /\ CanIssue(machine, k, row.uop)
    BY <2>1 DEF RsvIdsFor
  <2>3. runs # {}
    BY <2>2 DEF CanIssue
  <2>4. ASSUME NEW n \in runs
        PROVE  n \in DOMAIN machine.exec_units /\ n \in UnitsFor(machine, row.uop)
    BY <2>2, BuiltMeans DEF IInv, UnitsFor
  <2>5. ASSUME NEW n \in runs
        PROVE  Srcs(desc, row.uop) \cup Dests(desc, row.uop) \subseteq machine.exec_units[n].slots
    BY <2>1, <2>4, BuiltMeans DEF IInv, Covers, desc
  <2>6. RsvSpecAccepts(machine, spec)
    BY <2>2, BuiltMeans DEF IInv
  <2>7. ASSUME row.is_branch PROVE ~spec.issue_o3
    <3>1. row.uop \in Control(machine.isa)
      BY <2>7 DEF IInv, IsBranch, desc
    <3>2. PICK n \in runs : TRUE
      BY <2>3
    <3>3. Branches(machine, n)
      BY <3>1 DEF Branches
    <3>4. QED
      BY <2>6, <3>3 DEF RsvSpecAccepts
  <2>8. ASSUME row.uop \in RvLoads \cup RvStores PROVE ~spec.issue_o3
    <3>1. PICK n \in runs : TRUE
      BY <2>3
    <3>2. Accesses(machine, n)
      BY <2>4, <2>8, BuiltMeans DEF IInv
    <3>3. QED
      BY <2>6, <3>2 DEF RsvSpecAccepts
  <2>9. ASSUME row.is_branch, NEW u \in Control(desc) PROVE RsvIdsFor(u) = {k}
    <3>1. row.uop \in Control(machine.isa) /\ u \in Control(machine.isa) /\ machine \in Machines
          /\ IsBuilt(machine)
      BY <2>9 DEF IInv, IsBranch, desc
    <3>2. RsvIdsFor(u) # {}
      BY <3>1, BranchesUsed, BuiltMeans DEF RsvIdsFor
    <3>3. \A l \in RsvIdsFor(u) : l = k
      BY <2>2, <3>1, BranchesMeet DEF RsvIdsFor
    <3>4. QED
      BY <3>2, <3>3
  <2>10. QED
    BY <2>3, <2>5, <2>7, <2>8, <2>9 DEF RoutedWhereItRuns
<1>2. QED
  BY <1>1, Inductive, PTL
=============================================================================
