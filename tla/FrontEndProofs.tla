--------------------------- MODULE FrontEndProofs ---------------------------
(***************************************************************************)
(* Proofs about FrontEnd: types, that a fetched row holds the word at its  *)
(* own pc, and that dispatch is handed the program (HandsOverTheProgram).  *)
(*                                                                         *)
(* The argument: only lanes on different words answer together, so the     *)
(* leading run that fetch keeps is always the words from pc on, one after  *)
(* the other, whatever pc_align and the banks are (FetchedRun).  That is   *)
(* what decode walks until it enters the next group.                       *)
(***************************************************************************)
EXTENDS FrontEnd, FiniteSetTheorems, WellFoundedInduction, TLAPS

(* Dividing what is known to be q whole units and a rest.                  *)
LEMMA WholeAndRest ==
    ASSUME NEW n \in Nat \ {0}, NEW q \in Nat, NEW r \in Nat, r < n
    PROVE  (q * n + r) % n = r /\ (q * n + r) \div n = q
OBVIOUS

(* Every number is so many units and a rest.                               *)
LEMMA Division ==
    ASSUME NEW n \in Nat \ {0}, NEW x \in Nat
    PROVE  x \div n \in Nat /\ x % n \in Nat /\ x % n < n /\ x = (x \div n) * n + (x % n)
OBVIOUS

(* Whole units more change the quotient and not the rest.                  *)
LEMMA UnitsMore ==
    ASSUME NEW n \in Nat \ {0}, NEW x \in Nat, NEW q \in Nat
    PROVE  (x + q * n) % n = x % n
<1>1. PICK p \in Nat, r \in Nat : r < n /\ x = p * n + r /\ r = x % n
  BY Division
<1>2. x + q * n = (p + q) * n + r
  BY <1>1
<1>3. p + q \in Nat
  BY <1>1
<1>4. ((p + q) * n + r) % n = r
  BY <1>1, <1>3, WholeAndRest
<1>5. QED
  BY <1>1, <1>2, <1>4

(* A sum cut to a width is the same whether or not a part was cut before.  *)
LEMMA CutThenAdd ==
    ASSUME NEW n \in Nat \ {0}, NEW a \in Nat, NEW c \in Nat
    PROVE  ((a % n) + c) % n = (a + c) % n
<1>1. PICK p \in Nat, r \in Nat : r < n /\ a = p * n + r /\ r = a % n
  BY Division
<1>2. a + c = (r + c) + p * n
  BY <1>1
<1>3. r + c \in Nat
  BY <1>1
<1>4. ((r + c) + p * n) % n = (r + c) % n
  BY <1>1, <1>3, UnitsMore
<1>5. QED
  BY <1>1, <1>2, <1>4

(* A multiple of n, cut to a multiple of n, is a multiple of n.            *)
LEMMA CutMultiple ==
    ASSUME NEW n \in Nat \ {0}, NEW k \in Nat \ {0}, NEW a \in Nat, a % n = 0
    PROVE  (a % (k * n)) % n = 0
<1>0. k * n \in Nat \ {0}
  OBVIOUS
<1>1. PICK p \in Nat, r \in Nat : r < k * n /\ a = p * (k * n) + r /\ r = a % (k * n)
  BY <1>0, Division
<1>2. p * k \in Nat
  BY <1>1
<1>3. a = r + (p * k) * n
  BY <1>1
<1>4. (r + (p * k) * n) % n = r % n
  BY <1>1, <1>2, UnitsMore
<1>5. QED
  BY <1>1, <1>3, <1>4

(* A divisor of a unit is the unit, or a step of it from a boundary stays  *)
(* inside the unit.                                                        *)
LEMMA ProperDivisor ==
    ASSUME NEW n \in Nat \ {0}, NEW d \in Nat \ {0}, n % d = 0, NEW a \in Nat, a % n = 0
    PROVE d = n \/ (d < n /\ (a + d) \div n = a \div n)
<1> DEFINE k == n \div d
<1>1. k \in Nat /\ n = k * d
  BY Division
<1> HIDE DEF k
<1>2. k # 0
  BY <1>1
<1>3. k = 1 \/ d < n
  BY <1>1, <1>2
<1>4. CASE d < n
  <2>1. PICK p \in Nat : a = p * n /\ p = a \div n
    BY Division
  <2>2. (p * n + d) \div n = p
    BY <1>4, <2>1, WholeAndRest
  <2>3. QED
    BY <1>4, <2>1, <2>2
<1>5. QED
  BY <1>1, <1>3, <1>4

(* A multiple of n below another leaves room for one n more.               *)
LEMMA RoomAbove ==
    ASSUME NEW n \in Nat \ {0}, NEW k \in Nat \ {0}, NEW a \in Nat, a % n = 0, a < k * n
    PROVE  a + n <= k * n
<1>1. PICK p \in Nat : a = p * n
  BY Division
<1>2. p < k
  BY <1>1
<1>3. p + 1 <= k
  BY <1>1, <1>2
<1>4. (p + 1) * n <= k * n
  BY <1>1, <1>3
<1>5. QED
  BY <1>1, <1>4

(* A set of numbers has a lowest.                                          *)
LEMMA LowestExists ==
    ASSUME NEW S \in SUBSET Nat, S # {}
    PROVE  \E x \in S : \A y \in S : x <= y
<1>1. PICK x \in S : \A y \in S : <<y, x>> \notin OpToRel(<, Nat)
  BY NatLessThanWellFounded, WFMin, Zenon
<1>2. \A y \in S : ~ (y < x)
  BY <1>1 DEF OpToRel
<1>3. QED
  BY <1>2

-----------------------------------------------------------------------------
(* The program counter.                                                    *)

(* The program counter stays in its width, counts instructions one after   *)
(* the other and does not leave the boundaries of words.                   *)
LEMMA PcSteps ==
    ASSUME NEW a \in Pcs
    PROVE  /\ PcAfter(a, 0) = a
           /\ \A b \in Nat : PcAfter(a, b) \in Pcs
           /\ \A m, n \in Nat :
                 PcAfter(PcAfter(a, m * IlenBytes), n * IlenBytes) = PcAfter(a, (m + n) * IlenBytes)
<1>1. IlenBytes \in Nat \ {0} /\ PcBytes \in Nat \ {0} /\ a \in Nat /\ a < PcBytes
  BY FrontEndAssumption DEF Pcs
<1>2. PcAfter(a, 0) = a
  <2>1. a % PcBytes = a
    BY <1>1, WholeAndRest
  <2>2. QED
    BY <1>1, <2>1 DEF PcAfter
<1>3. ASSUME NEW b \in Nat PROVE PcAfter(a, b) \in Pcs
  <2>1. a + b \in Nat
    BY <1>1
  <2>2. (a + b) % PcBytes \in Nat /\ (a + b) % PcBytes < PcBytes
    BY <1>1, <2>1, Division
  <2>3. QED
    BY <1>1, <2>2 DEF PcAfter, Pcs
<1>4. ASSUME NEW m \in Nat, NEW n \in Nat
      PROVE  PcAfter(PcAfter(a, m * IlenBytes), n * IlenBytes) = PcAfter(a, (m + n) * IlenBytes)
  <2>1. a + m * IlenBytes \in Nat /\ n * IlenBytes \in Nat
    BY <1>1
  <2>2. (((a + m * IlenBytes) % PcBytes) + n * IlenBytes) % PcBytes
           = (a + m * IlenBytes + n * IlenBytes) % PcBytes
    BY <1>1, <2>1, CutThenAdd
  <2>3. a + m * IlenBytes + n * IlenBytes = a + (m + n) * IlenBytes
    BY <1>1
  <2>4. QED
    BY <2>2, <2>3 DEF PcAfter
<1>5. QED
  BY <1>2, <1>3, <1>4

(* The address space is whole words.                                       *)
LEMMA WholeWords == \E k \in Nat \ {0} : PcBytes = k * IlenBytes
<1>1. IlenBytes \in Nat \ {0} /\ PcBytes \in Nat \ {0} /\ MemWords \in Nat \ {0}
  BY FrontEndAssumption
<1> DEFINE span == MemWords * IlenBytes
           p == PcBytes \div span
<1>2. span \in Nat \ {0}
  BY <1>1
<1>3. PcBytes % span = 0
  BY FrontEndAssumption
<1> HIDE DEF span
<1>4. p \in Nat /\ PcBytes = p * span
  BY <1>1, <1>2, <1>3, Division
<1> HIDE DEF p
<1>5. p * MemWords \in Nat \ {0} /\ p * span = (p * MemWords) * IlenBytes
  BY <1>1, <1>2, <1>4 DEF span
<1>6. QED
  BY <1>4, <1>5

(* Whole instructions on from a word is a word.                            *)
LEMMA AfterAligned ==
    ASSUME NEW a \in Pcs, a % IlenBytes = 0, NEW n \in Nat
    PROVE  PcAfter(a, n * IlenBytes) % IlenBytes = 0
<1>1. IlenBytes \in Nat \ {0} /\ PcBytes \in Nat \ {0} /\ a \in Nat
  BY FrontEndAssumption DEF Pcs
<1>2. PICK k \in Nat \ {0} : PcBytes = k * IlenBytes
  BY WholeWords
<1>3. a + n * IlenBytes \in Nat /\ (a + n * IlenBytes) % IlenBytes = 0
  <2>1. a + n * IlenBytes \in Nat
    BY <1>1
  <2>2. (a + n * IlenBytes) % IlenBytes = a % IlenBytes
    BY <1>1, UnitsMore
  <2>3. QED
    BY <2>1, <2>2
<1>4. ((a + n * IlenBytes) % (k * IlenBytes)) % IlenBytes = 0
  BY <1>1, <1>3, CutMultiple
<1>5. QED
  BY <1>2, <1>4 DEF PcAfter

(* A step of pc_align from a word is either the next word or the same one. *)
LEMMA AlignStep ==
    ASSUME NEW a \in Pcs, a % IlenBytes = 0, NEW d \in PcAligns
    PROVE  d = IlenBytes \/ WordAt(PcAfter(a, d)) = WordAt(a)
<1>1. /\ IlenBytes \in Nat \ {0} /\ PcBytes \in Nat \ {0} /\ a \in Nat /\ a < PcBytes
      /\ d \in Nat \ {0} /\ IlenBytes % d = 0
  BY FrontEndAssumption DEF Pcs
<1>2. d = IlenBytes \/ (d < IlenBytes /\ (a + d) \div IlenBytes = a \div IlenBytes)
  BY <1>1, ProperDivisor
<1>3. PICK k \in Nat \ {0} : PcBytes = k * IlenBytes
  BY WholeWords
<1>4. a + IlenBytes <= PcBytes
  BY <1>1, <1>3, RoomAbove
<1>5. ASSUME d < IlenBytes PROVE (a + d) % PcBytes = a + d
  <2>1. a + d \in Nat /\ a + d < PcBytes
    BY <1>1, <1>4, <1>5
  <2>2. (0 * PcBytes + (a + d)) % PcBytes = a + d
    BY <1>1, <2>1, WholeAndRest
  <2>3. QED
    BY <1>1, <2>1, <2>2
<1>6. QED
  BY <1>2, <1>5 DEF PcAfter, WordAt

-----------------------------------------------------------------------------
(* The banks.                                                              *)

(* What is known of the registers fetch reads.                             *)
FetchTyped == pc \in Pcs /\ pc_align \in PcAligns

(* Every lane presents an address of the space, the first one pc; bank and *)
(* index together name the word there.                                     *)
LEMMA LaneReads ==
    ASSUME FetchTyped, NEW l \in Lanes
    PROVE  /\ LanePc(l) \in Pcs /\ LanePc(1) = pc
           /\ WordAt(LanePc(l)) \in Words
           /\ BankOf(l) \in Nat
           /\ IndexOf(l) * BankCnt + BankOf(l) = WordAt(LanePc(l))
<1>1. /\ IlenBytes \in Nat \ {0} /\ MemWords \in Nat \ {0} /\ BankCnt \in Nat \ {0}
      /\ pc_align \in Nat /\ l - 1 \in Nat
  BY FrontEndAssumption DEF FetchTyped, Lanes
<1>2. (l - 1) * pc_align \in Nat /\ (1 - 1) * pc_align = 0
  BY <1>1
<1>3. LanePc(l) \in Pcs /\ LanePc(1) = pc
  BY <1>2, PcSteps DEF LanePc, FetchTyped
<1>4. LanePc(l) \in Nat
  BY <1>3, FrontEndAssumption DEF Pcs
<1>5. LanePc(l) \div IlenBytes \in Nat
  BY <1>1, <1>4, Division
<1>6. WordAt(LanePc(l)) \in Nat /\ WordAt(LanePc(l)) < MemWords
  BY <1>1, <1>5, Division DEF WordAt
<1>7. /\ BankOf(l) \in Nat
      /\ WordAt(LanePc(l)) = IndexOf(l) * BankCnt + BankOf(l)
  BY <1>1, <1>6, Division DEF BankOf, IndexOf
<1>8. QED
  BY <1>1, <1>3, <1>6, <1>7 DEF Words

(* A bank serves the lowest lane that names it.  Every lane that names it  *)
(* reads that lane's word, so a lane that is served reads its own.         *)
LEMMA BanksServe ==
    ASSUME FetchTyped, NEW l \in Lanes
    PROVE  /\ ReadData(l) \in Words
           /\ ReadValid(l) => ReadData(l) = WordAt(LanePc(l))
<1>1. FeLanes \in Nat
  BY FrontEndAssumption
<1> DEFINE S == {m \in Lanes : BankOf(m) = BankOf(l)}
<1>2. l \in S /\ S \subseteq Nat
  BY <1>1 DEF Lanes
<1>3. PICK low \in S : \A m \in S : low <= m
  BY <1>2, LowestExists
<1>4. low \in Lanes /\ BankOf(low) = BankOf(l) /\ Rivals(low) = {}
  <2>1. \A m \in 1 .. low - 1 : m \in Lanes /\ ~ (low <= m)
    BY <1>1, <1>3 DEF Lanes
  <2>2. QED
    BY <1>3, <2>1 DEF Rivals
<1>5. ASSUME NEW m \in Lanes, BankOf(m) = BankOf(l), Rivals(m) = {}
      PROVE  m = low
  <2>1. low <= m
    BY <1>3, <1>5
  <2>2. low \notin 1 .. m - 1
    BY <1>4, <1>5 DEF Rivals
  <2>3. QED
    BY <1>1, <1>4, <2>1, <2>2 DEF Lanes
<1>6. (CHOOSE m \in Lanes : BankOf(m) = BankOf(l) /\ Rivals(m) = {}) = low
  BY <1>4, <1>5
<1>7. ReadData(l) = IndexOf(low) * BankCnt + BankOf(low)
  BY <1>4, <1>6 DEF ReadData, BankIndex
<1>8. ReadData(l) = WordAt(LanePc(low)) /\ ReadData(l) \in Words
  BY <1>4, <1>7, LaneReads
<1>9. ReadValid(l) => l = low
  BY <1>5 DEF ReadValid
<1>10. QED
  BY <1>8, <1>9

(* The lanes fetch keeps are the first so many, and there is always one.   *)
LEMMA LeadingRun ==
    ASSUME FetchTyped
    PROVE  /\ Step \in 1 .. FeLanes
           /\ \A l \in Lanes : Taken(l) <=> l <= Step
<1>1. FeLanes \in Nat \ {0}
  BY FrontEndAssumption
<1> DEFINE T == {l \in Lanes : Taken(l)}
           Lost == Lanes \ T
<1>2. 1 \in T
  <2>1. Rivals(1) = {}
    BY DEF Rivals
  <2>2. \A m \in 1 .. 1 : m = 1
    OBVIOUS
  <2>3. QED
    BY <1>1, <2>1, <2>2 DEF Taken, ReadValid, Lanes
<1>3. ASSUME NEW l \in T, NEW m \in 1 .. l PROVE m \in T
  <2>1. m \in Lanes /\ 1 .. m \subseteq 1 .. l
    BY <1>1 DEF Lanes
  <2>2. QED
    BY <2>1 DEF Taken
<1>4. \E k \in 1 .. FeLanes : T = 1 .. k
  <2>1. CASE Lost = {}
    <3>1. T = 1 .. FeLanes
      BY <2>1 DEF Lanes
    <3>2. QED
      BY <1>1, <3>1
  <2>2. CASE Lost # {}
    <3>1. Lost \subseteq Nat
      BY <1>1 DEF Lanes
    <3>2. PICK first \in Lost : \A m \in Lost : first <= m
      BY <2>2, <3>1, LowestExists
    <3>3. first \in Lanes /\ first # 1
      BY <3>2, <1>2
    <3>4. \A m \in 1 .. first - 1 : m \in T
      BY <1>1, <3>2, <3>3 DEF Lanes
    <3>5. \A m \in T : m \in 1 .. first - 1
      <4>1. SUFFICES ASSUME NEW m \in T, ~ (m \in 1 .. first - 1) PROVE FALSE
        OBVIOUS
      <4>2. first \in 1 .. m
        BY <1>1, <3>3, <4>1 DEF Lanes
      <4>3. QED
        BY <1>3, <4>2, <3>2
    <3>6. first - 1 \in 1 .. FeLanes
      BY <1>1, <3>3 DEF Lanes
    <3>7. QED
      BY <3>4, <3>5, <3>6
  <2>3. QED
    BY <2>1, <2>2
<1>5. PICK k \in 1 .. FeLanes : T = 1 .. k
  BY <1>4
<1>6. Step = k
  <2>1. Cardinality(1 .. k) = k
    BY <1>1, FS_Interval
  <2>2. QED
    BY <1>5, <2>1 DEF Step
<1>7. \A l \in Lanes : l \in T <=> l <= k
  BY <1>1, <1>5 DEF Lanes
<1>8. QED
  BY <1>6, <1>7

(* The words fetch keeps are the ones from pc on, one after the other:     *)
(* lanes of one word contest its bank, so a second lane answers only when  *)
(* pc_align is a whole word.                                               *)
LEMMA KeptWords ==
    ASSUME FetchTyped, pc % IlenBytes = 0, NEW l \in Lanes, Taken(l)
    PROVE  /\ LanePc(l) = PcAfter(pc, (l - 1) * IlenBytes)
           /\ LanePc(l) % IlenBytes = 0
           /\ ReadData(l) = WordAt(LanePc(l))
<1>1. FeLanes \in Nat \ {0} /\ l - 1 \in Nat /\ IlenBytes \in Nat \ {0}
  BY FrontEndAssumption DEF Lanes
<1>2. LanePc(l) = PcAfter(pc, (l - 1) * IlenBytes)
  <2>1. CASE l = 1
    <3>1. (l - 1) * IlenBytes = 0
      BY <1>1, <2>1
    <3>2. QED
      BY <2>1, <3>1, LaneReads, PcSteps DEF FetchTyped
  <2>2. CASE l # 1
    <3>1. 1 \in Lanes /\ 2 \in Lanes /\ 2 \in 1 .. l
      BY <1>1, <2>2 DEF Lanes
    <3>2. BankOf(2) # BankOf(1)
      <4>1. Rivals(2) = {}
        BY <3>1 DEF Taken, ReadValid
      <4>2. 1 \in 1 .. 2 - 1
        OBVIOUS
      <4>3. QED
        BY <4>1, <4>2 DEF Rivals
    <3>3. LanePc(1) = pc /\ LanePc(2) = PcAfter(pc, pc_align)
      <4>1. (2 - 1) * pc_align = pc_align
        BY FrontEndAssumption DEF FetchTyped
      <4>2. QED
        BY <3>1, <4>1, LaneReads DEF LanePc
    <3>4. pc_align = IlenBytes
      <4>1. WordAt(PcAfter(pc, pc_align)) # WordAt(pc)
        BY <3>2, <3>3 DEF BankOf
      <4>2. QED
        BY <4>1, AlignStep DEF FetchTyped
    <3>5. QED
      BY <3>4 DEF LanePc
  <2>3. QED
    BY <2>1, <2>2
<1>3. LanePc(l) % IlenBytes = 0
  BY <1>1, <1>2, AfterAligned DEF FetchTyped
<1>4. l \in 1 .. l
  BY <1>1 DEF Lanes
<1>5. ReadValid(l)
  BY <1>4 DEF Taken
<1>6. QED
  BY <1>2, <1>3, <1>5, BanksServe

-----------------------------------------------------------------------------
(* Types.                                                                  *)

(* The rows fetch captures, and the pc it moves on to, keep their types.   *)
LEMMA CaptureTyped ==
    ASSUME TypeOK, NEW entered \in BOOLEAN
    PROVE  /\ FetchRows \in [Lanes -> [valid : BOOLEAN, pc : Pcs, instr : Words]]
           /\ PcAfter(pc, Step * IlenBytes) \in Pcs
<1>1. FetchTyped
  BY DEF TypeOK, FetchTyped
<1>2. ASSUME NEW l \in Lanes
      PROVE  Taken(l) \in BOOLEAN /\ LanePc(l) \in Pcs /\ ReadData(l) \in Words
  BY <1>1, LaneReads, BanksServe DEF Taken
<1>3. Step * IlenBytes \in Nat
  <2>1. FeLanes \in Nat /\ IlenBytes \in Nat /\ Step \in 1 .. FeLanes
    BY <1>1, LeadingRun, FrontEndAssumption
  <2>2. QED
    BY <2>1
<1>4. QED
  BY <1>1, <1>2, <1>3, PcSteps DEF FetchRows, FetchTyped

(* The rows of a level keep their types.                                   *)
LEMMA LevelTyped ==
    ASSUME TypeOK, NEW level \in 0 .. Levels
    PROVE  LevelRows(level) \in [Lanes -> [valid : BOOLEAN, pc : Pcs, level : 0 .. Levels]]
BY DEF TypeOK, LevelRows

(* Every step keeps every register in its width.                           *)
LEMMA TypesStep == TypeOK /\ [Next]_vars => TypeOK'
<1> SUFFICES ASSUME TypeOK, [Next]_vars PROVE TypeOK'
  OBVIOUS
<1>1. Levels \in Nat \ {0} /\ OpenMax \in Nat /\ Targets \subseteq Pcs
  BY FrontEndAssumption
<1>2. ASSUME NEW lands \in BOOLEAN, NEW hands \in BOOLEAN, NEW enters \in BOOLEAN,
             Move(lands, hands, enters)
      PROVE  TypeOK'
  <2>1. fetch' \in [Lanes -> [valid : BOOLEAN, pc : Pcs, instr : Words]] /\ pc' \in Pcs
    BY <1>2, CaptureTyped DEF Move, Capture, TypeOK
  <2>2. decode' \in [Lanes -> [valid : BOOLEAN, pc : Pcs, level : 0 .. Levels]]
    BY <1>2, LevelTyped DEF Move, TypeOK
  <2>3. walking' \in 0 .. Levels
    <3>1. (walking + 1) % (Levels + 1) \in 0 .. Levels
      <4>1. walking + 1 \in Nat /\ Levels + 1 \in Nat \ {0}
        BY <1>1 DEF TypeOK
      <4>2. /\ (walking + 1) % (Levels + 1) \in Nat
            /\ (walking + 1) % (Levels + 1) < Levels + 1
        BY <4>1, Division
      <4>3. QED
        BY <1>1, <4>2
    <3>2. 1 \in 0 .. Levels
      BY <1>1
    <3>3. QED
      BY <1>2, <3>1, <3>2 DEF Move, TypeOK
  <2>4. open' \in 0 .. OpenMax
    BY <1>1, <1>2 DEF Move, TypeOK
  <2>5. pc_align' \in PcAligns /\ read_ready' \in BOOLEAN /\ dispatching' \in BOOLEAN
    BY <1>2 DEF Move, TypeOK
  <2>6. QED
    BY <2>1, <2>2, <2>3, <2>4, <2>5 DEF TypeOK
<1>3. CASE Redirect
  <2>1. PICK target \in Targets, entered \in BOOLEAN :
           /\ open > 0 /\ Flush(target, entered) /\ open' \in 0 .. open - 1
           /\ read_ready' \in {read_ready, TRUE} /\ UNCHANGED <<pc_align, decode>>
    BY <1>3 DEF Redirect
  <2>2. fetch' \in [Lanes -> [valid : BOOLEAN, pc : Pcs, instr : Words]]
    BY <2>1, CaptureTyped DEF Flush, TypeOK
  <2>3. pc' \in Pcs /\ walking' \in 0 .. Levels /\ dispatching' \in BOOLEAN
    <3>1. pc' = target /\ walking' = 0 /\ dispatching' = FALSE
      BY <2>1, Zenon DEF Flush, RedirectPc
    <3>2. target \in Pcs /\ 0 \in 0 .. Levels
      BY <1>1
    <3>3. QED
      BY <3>1, <3>2, Zenon
  <2>4. open' \in 0 .. OpenMax
    BY <1>1, <2>1 DEF TypeOK
  <2>5. QED
    BY <2>1, <2>2, <2>3, <2>4 DEF TypeOK
<1>4. CASE UNCHANGED vars
  BY <1>4 DEF TypeOK, vars
<1>5. QED
  BY <1>2, <1>3, <1>4 DEF Next, Cycle

(* Types hold from the start.                                              *)
LEMMA TypesInit == Init => TypeOK
<1> SUFFICES ASSUME Init PROVE TypeOK
  OBVIOUS
<1>1. /\ Levels \in Nat \ {0} /\ OpenMax \in Nat /\ ResetPc \in Pcs
      /\ MemWords \in Nat \ {0} /\ PcBytes \in Nat \ {0}
  BY FrontEndAssumption
<1>2. 0 \in Pcs /\ 0 \in Words /\ 0 \in 0 .. Levels /\ 0 \in 0 .. OpenMax
  BY <1>1 DEF Pcs, Words
<1>3. QED
  BY <1>1, <1>2 DEF Init, TypeOK

(* Types: no pc, row, level or count leaves its width (TypeOK), whatever   *)
(* the alignment of the pc and of the branch targets.                      *)
THEOREM TypesHold == Spec => []TypeOK
<1>1. QED
  BY TypesInit, TypesStep, PTL DEF Spec

-----------------------------------------------------------------------------
(* The group decode walks.                                                 *)

(* A program whose branches go to whole words, as both shipped ISAs have   *)
(* it: bits of the pc below the word are cut on the way to the memory, so  *)
(* there is no other word to read there.                                   *)
TargetsAreWords ==
    /\ ResetPc % IlenBytes = 0
    /\ \A target \in Targets : target % IlenBytes = 0

(* Fetch's valid rows are the first n, and hold the n words from b on.     *)
RunFrom(b, n) ==
    \A l \in Lanes :
        /\ fetch[l].valid <=> l <= n
        /\ l <= n => /\ fetch[l].pc = PcAfter(b, (l - 1) * IlenBytes)
                     /\ fetch[l].pc % IlenBytes = 0
                     /\ fetch[l].instr = WordAt(fetch[l].pc)

(* What fetch holds is a run of the program; while decode walks it, pc is  *)
(* right behind it; and before memory answers there is none.               *)
HoldsRun ==
    /\ pc % IlenBytes = 0
    /\ ~read_ready => \A l \in Lanes : ~fetch[l].valid
    /\ \E b \in Pcs, n \in 0 .. FeLanes :
          RunFrom(b, n) /\ (walking # 0 /\ n # 0 => pc = PcAfter(b, n * IlenBytes))

(* A run's length is the count of valid rows, and it starts at row 1.      *)
LEMMA RunSize ==
    ASSUME NEW b \in Pcs, NEW n \in 0 .. FeLanes, RunFrom(b, n)
    PROVE  GroupSize = n /\ (n # 0 => fetch[1].pc = b)
<1>1. FeLanes \in Nat \ {0} /\ IlenBytes \in Nat
  BY FrontEndAssumption
<1>2. {l \in Lanes : fetch[l].valid} = 1 .. n
  BY <1>1 DEF RunFrom, Lanes
<1>3. Cardinality(1 .. n) = n
  BY <1>1, FS_Interval
<1>4. ASSUME n # 0 PROVE fetch[1].pc = b
  <2>1. 1 \in Lanes /\ 1 <= n
    BY <1>1, <1>4 DEF Lanes
  <2>2. (1 - 1) * IlenBytes = 0
    BY <1>1
  <2>3. fetch[1].pc = PcAfter(b, (1 - 1) * IlenBytes)
    BY <2>1 DEF RunFrom
  <2>4. QED
    BY <2>2, <2>3, PcSteps
<1>5. QED
  BY <1>2, <1>3, <1>4 DEF GroupSize

(* What fetch captures is the run from pc on.                              *)
LEMMA CapturesRun ==
    ASSUME TypeOK, pc % IlenBytes = 0, fetch' = FetchRows,
           NEW b, b = pc, NEW n, n = Step
    PROVE  RunFrom(b, n)'
<1>1. FetchTyped
  BY DEF TypeOK, FetchTyped
<1>2. SUFFICES ASSUME NEW l \in Lanes
               PROVE  /\ fetch'[l].valid <=> l <= n
                      /\ l <= n => /\ fetch'[l].pc = PcAfter(b, (l - 1) * IlenBytes)
                                   /\ fetch'[l].pc % IlenBytes = 0
                                   /\ fetch'[l].instr = WordAt(fetch'[l].pc)
  BY Zenon DEF RunFrom
<1>3. fetch'[l] = [valid |-> Taken(l), pc |-> LanePc(l), instr |-> ReadData(l)]
  BY DEF FetchRows
<1>4. Taken(l) <=> l <= n
  BY <1>1, LeadingRun
<1>5. Taken(l) => /\ LanePc(l) = PcAfter(b, (l - 1) * IlenBytes)
                  /\ LanePc(l) % IlenBytes = 0
                  /\ ReadData(l) = WordAt(LanePc(l))
  BY <1>1, KeptWords
<1>6. Taken(l) \in BOOLEAN
  BY DEF Taken
<1>7. QED
  BY <1>3, <1>4, <1>5, <1>6

(* A group that is not replaced stays the run it was.                      *)
LEMMA KeepsRun ==
    ASSUME UNCHANGED fetch, NEW b, NEW n, RunFrom(b, n)
    PROVE  RunFrom(b, n)'
BY DEF RunFrom

(* An empty group is a run, and reset finds the pc on a word.              *)
LEMMA RunInit == TargetsAreWords /\ Init => HoldsRun
<1> SUFFICES ASSUME TargetsAreWords, Init PROVE HoldsRun
  OBVIOUS
<1>1. 0 \in 0 .. FeLanes /\ ResetPc \in Pcs /\ FeLanes \in Nat
  BY FrontEndAssumption
<1>2. RunFrom(ResetPc, 0)
  BY <1>1 DEF Init, RunFrom, Lanes
<1>3. QED
  BY <1>1, <1>2 DEF Init, HoldsRun, TargetsAreWords

(* A cycle without a squash keeps the run: a group enters only behind one  *)
(* that is handed over, and pc moves by what was captured.                 *)
LEMMA MoveKeepsRun ==
    ASSUME TypeOK, HoldsRun, NEW lands \in BOOLEAN, NEW hands \in BOOLEAN, NEW enters \in BOOLEAN,
           Move(lands, hands, enters)
    PROVE  HoldsRun'
<1>1. FetchTyped /\ FeLanes \in Nat \ {0}
  BY FrontEndAssumption DEF TypeOK, FetchTyped
<1>2. PICK b \in Pcs, n \in 0 .. FeLanes :
         RunFrom(b, n) /\ (walking # 0 /\ n # 0 => pc = PcAfter(b, n * IlenBytes))
  BY DEF HoldsRun
<1>3. CASE enters /\ read_ready
  <2>1. fetch' = FetchRows /\ pc' = PcAfter(pc, Step * IlenBytes)
    BY <1>3 DEF Move, Capture
  <2>2. PICK c \in Pcs, k \in 1 .. FeLanes : c = pc /\ k = Step
    BY <1>1, LeadingRun DEF FetchTyped
  <2>3. RunFrom(c, k)'
    BY <2>1, <2>2, CapturesRun DEF HoldsRun
  <2>4. pc' % IlenBytes = 0 /\ pc' = PcAfter(c, k * IlenBytes)
    BY <1>1, <2>1, <2>2, AfterAligned DEF HoldsRun
  <2>5. read_ready'
    BY <1>3 DEF Move
  <2>6. k \in 0 .. FeLanes
    BY <1>1, <2>2
  <2>7. QED
    BY <2>2, <2>3, <2>4, <2>5, <2>6 DEF HoldsRun
<1>4. CASE ~ (enters /\ read_ready)
  <2>1. UNCHANGED <<fetch, pc>>
    BY <1>4 DEF Move, Capture
  <2>2. RunFrom(b, n)'
    BY <1>2, <2>1, KeepsRun
  <2>3. ~read_ready' => ~read_ready
    BY DEF Move, TypeOK
  <2>4. ASSUME walking' # 0, n # 0 PROVE walking # 0
    <3>1. 1 \in Lanes /\ fetch[1].valid
      BY <1>1, <1>2, <2>4 DEF RunFrom, Lanes
    <3>2. read_ready /\ ~enters
      BY <3>1, <1>4 DEF HoldsRun
    <3>3. ~hands \/ walking # 0
      BY DEF Move, CanHand
    <3>4. QED
      BY <2>4, <3>2, <3>3 DEF Move
  <2>5. pc' % IlenBytes = 0 /\ (~read_ready' => \A l \in Lanes : ~fetch'[l].valid)
    BY <2>1, <2>3 DEF HoldsRun
  <2>6. walking' # 0 /\ n # 0 => pc' = PcAfter(b, n * IlenBytes)
    BY <1>2, <2>1, <2>4
  <2>7. QED
    BY <2>2, <2>5, <2>6 DEF HoldsRun
<1>5. QED
  BY <1>3, <1>4

(* A squash keeps the run it finds or captures; decode no longer walks it. *)
LEMMA RedirectKeepsRun ==
    ASSUME TypeOK, HoldsRun, TargetsAreWords, Redirect
    PROVE  HoldsRun'
<1>1. FetchTyped /\ FeLanes \in Nat \ {0}
  BY FrontEndAssumption DEF TypeOK, FetchTyped
<1>2. PICK target \in Targets, entered \in BOOLEAN :
         Flush(target, entered) /\ read_ready' \in {read_ready, TRUE}
  BY DEF Redirect
<1>3. pc' = target /\ walking' = 0 /\ (read_ready => read_ready')
  <2>1. pc' = target /\ walking' = 0
    BY <1>2, Zenon DEF Flush, RedirectPc
  <2>2. read_ready => read_ready'
    <3>1. CASE read_ready' = read_ready
      BY <3>1
    <3>2. CASE read_ready' = TRUE
      BY <3>2
    <3>3. QED
      BY <1>2, <3>1, <3>2
  <2>3. QED
    BY <2>1, <2>2
<1>4. pc' % IlenBytes = 0
  BY <1>3 DEF TargetsAreWords
<1>5. CASE entered /\ read_ready
  <2>1. fetch' = FetchRows
    BY <1>2, <1>5 DEF Flush
  <2>2. PICK c \in Pcs, k \in 1 .. FeLanes : c = pc /\ k = Step
    BY <1>1, LeadingRun DEF FetchTyped
  <2>3. RunFrom(c, k)'
    BY <2>1, <2>2, CapturesRun DEF HoldsRun
  <2>4. read_ready' /\ k \in 0 .. FeLanes
    <3>1. k \in 0 .. FeLanes
      BY <1>1, <2>2
    <3>2. QED
      BY <1>3, <1>5, <3>1, Zenon
  <2>5. QED
    BY <1>3, <1>4, <2>2, <2>3, <2>4 DEF HoldsRun
<1>6. CASE ~ (entered /\ read_ready)
  <2>1. UNCHANGED fetch
    BY <1>2, <1>6 DEF Flush
  <2>2. PICK b \in Pcs, n \in 0 .. FeLanes : RunFrom(b, n)
    BY DEF HoldsRun
  <2>3. RunFrom(b, n)'
    BY <2>1, <2>2, KeepsRun
  <2>4. ~read_ready' => \A l \in Lanes : ~fetch'[l].valid
    <3>1. ~read_ready' => ~read_ready
      BY <1>3, Zenon
    <3>2. QED
      BY <2>1, <3>1 DEF HoldsRun
  <2>5. QED
    BY <1>3, <1>4, <2>2, <2>3, <2>4 DEF HoldsRun
<1>7. QED
  BY <1>5, <1>6

(* Every step keeps the group in fetch a run, ahead of which the pc goes   *)
(* on.                                                                     *)
LEMMA RunStep == TargetsAreWords /\ TypeOK /\ HoldsRun /\ [Next]_vars => HoldsRun'
<1> SUFFICES ASSUME TargetsAreWords, TypeOK, HoldsRun, [Next]_vars PROVE HoldsRun'
  OBVIOUS
<1>1. CASE Cycle
  BY <1>1, MoveKeepsRun DEF Cycle
<1>2. CASE Redirect
  BY <1>2, RedirectKeepsRun
<1>3. CASE UNCHANGED vars
  <2>1. UNCHANGED <<pc, read_ready, fetch, walking>>
    BY <1>3 DEF vars
  <2>2. PICK b \in Pcs, n \in 0 .. FeLanes :
           RunFrom(b, n) /\ (walking # 0 /\ n # 0 => pc = PcAfter(b, n * IlenBytes))
    BY DEF HoldsRun
  <2>3. RunFrom(b, n)'
    BY <2>1, <2>2, KeepsRun
  <2>4. QED
    BY <2>1, <2>2, <2>3 DEF HoldsRun
<1>4. QED
  BY <1>1, <1>2, <1>3 DEF Next

(* Whatever lane and bank a row came through, it holds the word at its own *)
(* pc (RowsHoldTheirWord): for every count of lanes and banks, every       *)
(* pc_align that divides a word, also where lanes contest a bank or the pc *)
(* wraps, if branches go to whole words.                                   *)
THEOREM RowsHold == ASSUME TargetsAreWords PROVE Spec => []RowsHoldTheirWord
<1>1. Init => HoldsRun
  BY RunInit
<1>2. TypeOK /\ HoldsRun /\ [Next]_vars => HoldsRun'
  BY RunStep
<1>3. HoldsRun => RowsHoldTheirWord
  BY DEF HoldsRun, RunFrom, RowsHoldTheirWord
<1>4. QED
  BY <1>1, <1>2, <1>3, TypesHold, PTL DEF Spec

-----------------------------------------------------------------------------
(* The refinement of FetchOrder.                                           *)

(* The count and the start of a run, as a formula of the state.            *)
RunsAreCounted ==
    \A b \in Pcs, n \in 0 .. FeLanes :
        RunFrom(b, n) => GroupSize = n /\ (n # 0 => fetch[1].pc = b)

(* Before a step and after it.                                             *)
LEMMA RunsCounted == RunsAreCounted /\ RunsAreCounted'
<1>1. RunsAreCounted
  BY RunSize DEF RunsAreCounted
<1>2. QED
  BY <1>1, PTL

(* While decode walks a group, pc is right behind it.                      *)
LEMMA PcIsBehind ==
    ASSUME TypeOK, HoldsRun, walking # 0
    PROVE  PcAfter(Base, GroupSize * IlenBytes) = pc
<1>1. PICK b \in Pcs, n \in 0 .. FeLanes :
         RunFrom(b, n) /\ (n # 0 => pc = PcAfter(b, n * IlenBytes))
  BY DEF HoldsRun
<1>2. GroupSize = n /\ (n # 0 => fetch[1].pc = b)
  BY <1>1, RunSize
<1>3. CASE n # 0
  BY <1>1, <1>2, <1>3 DEF Base
<1>4. CASE n = 0
  <2>1. GroupSize * IlenBytes = 0 /\ Base = pc
    BY <1>2, <1>4, FrontEndAssumption DEF Base
  <2>2. QED
    BY <2>1, PcSteps DEF TypeOK
<1>5. QED
  BY <1>3, <1>4

(* The micro-operations in a set of rows.                                  *)
Held(rows) ==
    {[pc |-> rows[l].pc, level |-> rows[l].level] : l \in {m \in Lanes : rows[m].valid}}

(* The rows decode hands over are the level of the group it walks.         *)
LEMMA HandsItsLevel ==
    ASSUME TypeOK, HoldsRun, walking # 0
    PROVE  Held(LevelRows(walking)) = FO!Level(Base, GroupSize, walking)
<1>1. PICK b \in Pcs, n \in 0 .. FeLanes : RunFrom(b, n)
  BY DEF HoldsRun
<1>2. GroupSize = n /\ (n # 0 => Base = b)
  BY <1>1, RunSize DEF Base
<1>3. FeLanes \in Nat \ {0} /\ IlenBytes \in Nat \ {0}
  BY FrontEndAssumption
<1> DEFINE at(i) == PcAfter(b, i * IlenBytes)
           has(i) == CrackLen[WordAt(at(i))] >= walking
           op(i) == [pc |-> at(i), level |-> walking]
<1>4. FO!Level(b, n, walking) = {op(i) : i \in {j \in 0 .. n - 1 : has(j)}}
  BY DEF FO!Level
<1>5. ASSUME NEW l \in Lanes
      PROVE  /\ LevelRows(walking)[l].valid <=> (l <= n /\ has(l - 1))
             /\ LevelRows(walking)[l].valid =>
                   [pc |-> LevelRows(walking)[l].pc, level |-> LevelRows(walking)[l].level] = op(l - 1)
  <2>1. /\ fetch[l].valid <=> l <= n
        /\ l <= n => fetch[l].pc = at(l - 1) /\ fetch[l].instr = WordAt(fetch[l].pc)
    BY <1>1 DEF RunFrom
  <2>2. decode[l] \in [valid : BOOLEAN, pc : Pcs, level : 0 .. Levels]
    BY DEF TypeOK
  <2> HIDE DEF at
  <2>3. CASE fetch[l].valid /\ CrackLen[fetch[l].instr] >= walking
    <3>1. LevelRows(walking)[l] = [valid |-> TRUE, pc |-> fetch[l].pc, level |-> walking]
      BY <2>3 DEF LevelRows
    <3>2. QED
      BY <2>1, <2>3, <3>1
  <2>4. CASE ~ (fetch[l].valid /\ CrackLen[fetch[l].instr] >= walking)
    <3>1. LevelRows(walking)[l].valid = FALSE
      BY <2>2, <2>4 DEF LevelRows
    <3>2. QED
      BY <2>1, <2>4, <3>1
  <2>5. QED
    BY <2>3, <2>4
<1> HIDE DEF at, has, op
<1>6. \A l \in Lanes : l <= n => l - 1 \in 0 .. n - 1
  BY <1>3 DEF Lanes
<1>7. \A i \in 0 .. n - 1 : i + 1 \in Lanes /\ i + 1 <= n /\ (i + 1) - 1 = i
  BY <1>3 DEF Lanes
<1>8. Held(LevelRows(walking)) = {op(i) : i \in {j \in 0 .. n - 1 : has(j)}}
  <2>1. ASSUME NEW x \in Held(LevelRows(walking))
        PROVE  x \in {op(i) : i \in {j \in 0 .. n - 1 : has(j)}}
    <3>1. PICK l \in Lanes : /\ LevelRows(walking)[l].valid
                             /\ x = [pc |-> LevelRows(walking)[l].pc,
                                     level |-> LevelRows(walking)[l].level]
      BY DEF Held
    <3>2. x = op(l - 1) /\ has(l - 1) /\ l - 1 \in 0 .. n - 1
      BY <3>1, <1>5, <1>6
    <3>3. QED
      BY <3>2
  <2>2. ASSUME NEW i \in 0 .. n - 1, has(i)
        PROVE  op(i) \in Held(LevelRows(walking))
    <3>1. PICK l \in Lanes : l = i + 1 /\ l <= n /\ l - 1 = i
      BY <1>7
    <3>2. /\ LevelRows(walking)[l].valid
          /\ op(i) = [pc |-> LevelRows(walking)[l].pc, level |-> LevelRows(walking)[l].level]
      BY <2>2, <3>1, <1>5
    <3>3. QED
      BY <3>2 DEF Held
  <2>3. QED
    BY <2>1, <2>2
<1>9. CASE n # 0
  BY <1>2, <1>4, <1>8, <1>9
<1>10. CASE n = 0
  <2>1. \A i \in 0 .. 0 - 1 : FALSE
    OBVIOUS
  <2>2. Held(LevelRows(walking)) = {}
    BY <1>8, <1>10, <2>1
  <2>3. 0 .. 0 - 1 = {}
    OBVIOUS
  <2>4. FO!Level(Base, 0, walking) = {}
    BY <2>3 DEF FO!Level
  <2>5. QED
    BY <1>2, <1>10, <2>2, <2>4
<1>11. QED
  BY <1>9, <1>10

(* Between groups, the next one starts at pc, or none does yet.            *)
LEMMA StartsAtPc ==
    ASSUME TypeOK, HoldsRun, NEW lands \in BOOLEAN, NEW hands \in BOOLEAN, NEW enters \in BOOLEAN,
           Move(lands, hands, enters), walking = 0 \/ (hands /\ walking = Levels),
           NEW b, b = pc
    PROVE  FO!Start(b)
<1>1. Levels \in Nat \ {0} /\ FeLanes \in Nat \ {0} /\ b \in Pcs
  BY FrontEndAssumption DEF TypeOK
<1>2. CASE enters /\ read_ready
  <2>1. fetch' = FetchRows /\ walking' = 1
    BY <1>2 DEF Move, Capture
  <2>2. PICK k \in 1 .. FeLanes : k = Step
    BY LeadingRun DEF TypeOK, FetchTyped
  <2>3. RunFrom(b, k)'
    BY <2>1, <2>2, CapturesRun DEF HoldsRun
  <2>4. k \in 0 .. FeLanes /\ k # 0
    BY <1>1, <2>2
  <2>5. GroupSize' = k /\ fetch'[1].pc = b
    BY <1>1, <2>3, <2>4, RunsCounted DEF RunsAreCounted
  <2>6. Base' = b
    BY <2>1, <2>4, <2>5 DEF Base
  <2>7. QED
    BY <2>1, <2>4, <2>5, <2>6 DEF FO!Start
<1>3. CASE enters /\ ~read_ready
  <2>1. UNCHANGED <<fetch, pc>> /\ walking' = 1
    BY <1>3 DEF Move, Capture
  <2>2. GroupSize' = 0
    <3>1. {l \in Lanes : fetch'[l].valid} = {}
      BY <1>3, <2>1 DEF HoldsRun
    <3>2. QED
      BY <3>1, FS_EmptySet DEF GroupSize
  <2>3. Base' = b
    BY <2>1, <2>2 DEF Base
  <2>4. 0 \in 0 .. FeLanes
    BY <1>1
  <2>5. QED
    BY <2>1, <2>2, <2>3, <2>4 DEF FO!Start
<1>4. CASE ~enters
  <2>1. UNCHANGED <<fetch, pc>>
    BY <1>4 DEF Move, Capture
  <2>2. walking' = 0
    <3>1. CASE hands /\ walking = Levels
      <4>1. (0 + 1 * (Levels + 1)) % (Levels + 1) = 0
        <5>1. Levels + 1 \in Nat \ {0}
          BY <1>1
        <5>2. (1 * (Levels + 1) + 0) % (Levels + 1) = 0
          BY <5>1, WholeAndRest
        <5>3. QED
          BY <1>1, <5>2
      <4>2. walking + 1 = 0 + 1 * (Levels + 1)
        BY <1>1, <3>1
      <4>3. QED
        BY <1>4, <3>1, <4>1, <4>2 DEF Move
    <3>2. CASE walking = 0
      BY <1>4, <3>2 DEF Move, CanHand
    <3>3. QED
      BY <3>1, <3>2
  <2>3. Base' = b
    BY <2>1, <2>2 DEF Base
  <2>4. QED
    BY <2>2, <2>3 DEF FO!Start
<1>5. QED
  BY <1>2, <1>3, <1>4

(* A level that decode hands over is HandOver: dispatch has exactly that   *)
(* level of the group, and the last one ends the group.                    *)
LEMMA HandingOver ==
    ASSUME TypeOK, HoldsRun, NEW lands \in BOOLEAN, NEW enters \in BOOLEAN,
           Move(lands, TRUE, enters)
    PROVE  FO!HandOver
<1>1. Levels \in Nat \ {0} /\ walking \in 0 .. Levels /\ walking # 0
  BY FrontEndAssumption DEF TypeOK, Move, CanHand
<1> DEFINE handed == IF walking = 0 THEN Levels ELSE walking - 1
           size == IF walking = 0 THEN 0 ELSE GroupSize
<1>2. handed = walking - 1 /\ handed < Levels /\ handed + 1 = walking /\ size = GroupSize
  BY <1>1
<1>3. dispatching' /\ decode' = LevelRows(walking)
  BY DEF Move
<1>4. Held(decode') = FO!Level(Base, GroupSize, walking)
  BY <1>1, <1>3, HandsItsLevel
<1> DEFINE out == IF dispatching'
                  THEN {[pc |-> decode'[l].pc, level |-> decode'[l].level] :
                          l \in {m \in Lanes : decode'[m].valid}}
                  ELSE {}
<1>5. out = FO!Level(Base, size, handed + 1)
  BY <1>2, <1>3, <1>4 DEF Held
<1>6. PICK b : b = pc
  OBVIOUS
<1>7. ASSUME walking = Levels PROVE FO!Start(PcAfter(Base, size * IlenBytes))
  <2>1. FO!Start(b)
    BY <1>6, <1>7, StartsAtPc
  <2>2. PcAfter(Base, size * IlenBytes) = b
    BY <1>1, <1>2, <1>6, PcIsBehind
  <2>3. QED
    BY <2>1, <2>2
<1>8. ASSUME walking # Levels
      PROVE  Base' = Base /\ walking' = walking + 1 /\ walking' # 0 /\ GroupSize' = GroupSize
  <2>1. ~enters
    BY <1>1, <1>8 DEF Move, CanEnter
  <2>2. UNCHANGED <<fetch, pc>>
    BY <2>1 DEF Move, Capture
  <2>3. (walking + 1) % (Levels + 1) = walking + 1
    <3>1. Levels + 1 \in Nat \ {0} /\ walking + 1 \in Nat /\ walking + 1 < Levels + 1
      BY <1>1, <1>8
    <3>2. (0 * (Levels + 1) + (walking + 1)) % (Levels + 1) = walking + 1
      BY <3>1, WholeAndRest
    <3>3. QED
      BY <1>1, <3>2
  <2>4. walking' = walking + 1 /\ walking' # 0
    BY <1>1, <2>1, <2>3 DEF Move
  <2>5. GroupSize' = GroupSize
    BY <2>2 DEF GroupSize
  <2>6. QED
    BY <1>1, <2>2, <2>4, <2>5 DEF Base
<1>9. IF handed + 1 = Levels THEN FO!Start(PcAfter(Base, size * IlenBytes))
      ELSE /\ Base' = Base
           /\ (IF walking' = 0 THEN 0 ELSE GroupSize') = size
           /\ (IF walking' = 0 THEN Levels ELSE walking' - 1) = handed + 1
  <2>1. CASE walking = Levels
    BY <1>2, <1>7, <2>1
  <2>2. CASE walking # Levels
    BY <1>1, <1>2, <1>8, <2>2
  <2>3. QED
    BY <2>1, <2>2
<1>10. QED
  BY <1>2, <1>5, <1>9 DEF FO!HandOver

(* Any other cycle is Wait: dispatch lands what it holds or keeps it, and  *)
(* a group may enter when decode is idle.                                  *)
LEMMA Waiting ==
    ASSUME TypeOK, HoldsRun, NEW lands \in BOOLEAN, NEW enters \in BOOLEAN,
           Move(lands, FALSE, enters)
    PROVE  FO!Wait
<1>1. Levels \in Nat \ {0} /\ walking \in 0 .. Levels
  BY FrontEndAssumption DEF TypeOK
<1>2. decode' = decode /\ (dispatching' => dispatching)
  BY DEF Move
<1> DEFINE out(d, rows) == IF d THEN {[pc |-> rows[l].pc, level |-> rows[l].level] :
                                        l \in {m \in Lanes : rows[m].valid}}
                           ELSE {}
<1>3. out(dispatching', decode') \in {out(dispatching, decode), {}}
  BY <1>2
<1>4. CASE walking = 0
  <2>1. PICK b : b = pc
    OBVIOUS
  <2>2. FO!Start(b)
    BY <1>4, <2>1, StartsAtPc
  <2>3. Base = b
    BY <1>4, <2>1 DEF Base
  <2>4. QED
    BY <1>3, <1>4, <2>2, <2>3 DEF FO!Wait
<1>5. CASE walking # 0
  <2>1. ~enters
    BY <1>5 DEF Move, CanEnter
  <2>2. UNCHANGED <<fetch, pc, walking>>
    BY <2>1 DEF Move, Capture
  <2>3. Base' = Base /\ GroupSize' = GroupSize
    BY <2>2 DEF Base, GroupSize
  <2>4. (IF walking = 0 THEN Levels ELSE walking - 1) # Levels
    BY <1>1, <1>5
  <2>5. QED
    BY <1>3, <2>2, <2>3, <2>4 DEF FO!Wait
<1>6. QED
  BY <1>4, <1>5

(* A squash is Redirect: whatever was under way is dropped, and the program *)
(* goes on at the target.                                                  *)
LEMMA Redirecting ==
    ASSUME Redirect
    PROVE  FO!Redirect
<1>1. PICK target \in Targets, entered \in BOOLEAN : Flush(target, entered)
  BY DEF Redirect
<1>2. pc' = target /\ walking' = 0 /\ dispatching' = FALSE
  BY <1>1, Zenon DEF Flush, RedirectPc
<1>3. Base' = target
  BY <1>2 DEF Base
<1>4. QED
  BY <1>2, <1>3 DEF FO!Redirect

(* Every step hands over the program's next word, waits or starts anew.    *)
LEMMA StepsAreTheProgram ==
    ASSUME TypeOK, HoldsRun, [Next]_vars
    PROVE  FO!Next \/ UNCHANGED <<Base, IF walking = 0 THEN 0 ELSE GroupSize,
                                  IF walking = 0 THEN Levels ELSE walking - 1,
                                  IF dispatching
                                  THEN {[pc |-> decode[l].pc, level |-> decode[l].level] :
                                          l \in {m \in Lanes : decode[m].valid}}
                                  ELSE {}>>
<1>1. ASSUME NEW lands \in BOOLEAN, NEW hands \in BOOLEAN, NEW enters \in BOOLEAN,
             Move(lands, hands, enters)
      PROVE  FO!Next
  <2>1. CASE hands = TRUE
    BY <1>1, <2>1, HandingOver DEF FO!Next
  <2>2. CASE hands = FALSE
    BY <1>1, <2>2, Waiting DEF FO!Next
  <2>3. QED
    BY <2>1, <2>2
<1>2. CASE Redirect
  BY <1>2, Redirecting DEF FO!Next
<1>3. CASE UNCHANGED vars
  <2>1. UNCHANGED <<pc, fetch, decode, walking, dispatching>>
    BY <1>3 DEF vars
  <2>2. Base' = Base /\ GroupSize' = GroupSize
    BY <2>1 DEF Base, GroupSize
  <2>3. QED
    BY <2>1, <2>2
<1>4. QED
  BY <1>1, <1>2, <1>3 DEF Next, Cycle

(* Dispatch is handed the program (HandsOverTheProgram): FrontEnd          *)
(* implements FetchOrder for every count of lanes, banks and levels.       *)
THEOREM RefinesFetchOrder == ASSUME TargetsAreWords PROVE Spec => HandsOverTheProgram
<1>1. Init => HoldsRun
  BY RunInit
<1>2. TypeOK /\ HoldsRun /\ [Next]_vars => HoldsRun'
  BY RunStep
<1>3. Init => FO!Init
  BY DEF Init, Base, FO!Init
<1>4. TypeOK /\ HoldsRun /\ [Next]_vars
         => [FO!Next]_<<Base, IF walking = 0 THEN 0 ELSE GroupSize,
                        IF walking = 0 THEN Levels ELSE walking - 1,
                        IF dispatching
                        THEN {[pc |-> decode[l].pc, level |-> decode[l].level] :
                                l \in {m \in Lanes : decode[m].valid}}
                        ELSE {}>>
  BY StepsAreTheProgram
<1>5. QED
  BY <1>1, <1>2, <1>3, <1>4, TypesHold, PTL DEF Spec, HandsOverTheProgram, FO!Spec
=============================================================================
