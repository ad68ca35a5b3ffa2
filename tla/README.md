# A TLA+ model of the Carolyne out-of-order core

Carolyne (`src/carolyne`) is a Python package that describes instruction sets
and elaborates an out-of-order processor from a description and a configuration,
on top of the external hardware-construction library Kathryn. Its Python runs
once, at build time; what has behaviour over time is the circuit it elaborates.
These modules model that circuit, cycle by cycle: the machinery under
`src/carolyne/uarch/o3` that fetches, decodes, renames, speculates, executes out
of order, commits in order and rolls back, the bodies of the execution units and
the instruction tables of both ISAs, and the checks that decide which machines
are built at all.

Everything below refers to the code by `file:line` under `src/carolyne/uarch/o3`
unless a longer path is given. `PROJECT.json` maps every definition to its lines.

## 1. The system

### 1.1 Components

| component | state | operations | what makes it correct |
|---|---|---|---|
| Fetch (`fetch.py`) | `pc`, a group of words | read a word per lane, keep the leading run, advance, redirect | no instruction skipped or repeated |
| EasyMem (`src/carolyne/uarch/mem/easy_mem.py`) | banks, a read lock | one read and one write per bank a cycle | a read answers its own word or says it did not |
| Decode (`decode.py`) | a row per lane, the level of the crack | match, fill a row, walk the levels, pick a station | the row is the instruction's, whatever was in it |
| TagGen (`tag_gen.py`) | `free_tag`, `next_tag` (one-hot) | book tags for a group, resolve one, roll back to one | the tags out of the pool are the open branches', one each, in order |
| Mpft (`mpft.py`) | a bit matrix, row T = tags T sits under | seed rows of a group, clear a resolved column, read a kill mask | the mask of a branch covers exactly what is younger |
| Prf (`prf.py`), one per renamed class | `free_entry`, `next_index`, `fin` and data per entry | book, mark, write back, release at commit, roll back | no register lost or given twice; `fin` means written |
| Rt (`rt.py`), one per class | `master_rt`, one snapshot row per tag | overlay a group's renames, snapshot at a branch, drop at commit, restore | each row is the map of its own path |
| Arf (`arf.py`), one per class | committed values | commit lanes write; a read view over this cycle's commits | it is what retired |
| Rob (`rob.py`) | ring of rows, two pointers and a count | allocate a group, mark finished, retire a group, roll back | retires in order; pointers and count agree |
| Dispatch (`dispatch.py`) | the waiting group | book all resources, land or stall whole, rename sources | a group lands everywhere or nowhere |
| RsvIOR (`rsv.py`, `rsv_ior.py`) | ring of entries | land lanes, issue the head, wake, squash, resolve | entries stay a run in program order |
| RsvO3 (`rsv_o3.py`) | table with stamps and epochs | find free rows, issue the oldest ready per unit | no entry lost, doubled or starved |
| ExecUnitO3 (`exec_unit.py`, `exec_unit_api.py`) | one record per stage | stage handshake, report, write back, kill, resolve | a record is where its instruction is |
| bodies of the units (`src/carolyne/isa/*/exec_unit_*.py`) | a result between two stages | compute, resolve a branch, load, store | what the architecture manual says |
| StoreBuf (`store_buf.py`) | ring with three pointers | push, search, commit, write to memory, squash, resolve | program order of stores; loads see it |
| CoreO3 (`core.py`) | none | builds the blocks; the fan-out of a squash and of a resolve | one cycle rolls everything back |
| CPUO3_Config, RegArchMng, IssueLane | none at run time | checks, construction, routing | accepts only machines that work |
| ISA packages (`src/carolyne/isa`) | none | instruction tables, units, checks of their own | unambiguous, and decode inverts the assembler |
| debug logs, example systems, tests | none in the core | observe and drive it | not modelled |

### 1.2 How they interact

There are no messages and no threads of control: every block is hardware and
acts in every clock cycle. A block calls another at elaboration, which wires one
to the other; at run time the call is a value present in that cycle. What makes
this concurrent is the cycle itself: dispatch books, units write back, the ROB
retires, memory takes a store and a branch resolves all at once, each reading
the registers as they stood before the edge, with write priorities
(`priority.py`) settling who wins. Handshakes between stages (`pip`, `zync`) come
from the external Kathryn library and are modelled as the code uses them.

Three events cross the whole core:

* **landing** (`dispatch.py:276`): six blocks book for the group in front of
  dispatch in every cycle, the AND of their answers gates all six updates;
* **resolve** (`core.py:190`): a correct prediction clears a tag everywhere;
  dispatch is stalled for the cycle, so its bookings are asked and do not land;
* **squash** (`core.py:128`): a wrong prediction rolls back TagGen, Mpft, Prf,
  Rt, Rob, stations, units and store buffer in one cycle; fetch is redirected,
  decode, dispatch and commit are flushed.

### 1.3 What is hard

Same-cycle races (a writeback beside the dispatch of its reader, a commit beside
a snapshot, a store changing places beside a resolve, an entry issuing as its tag
resolves); resources booked and not taken; rings whose pointers and counts move
along different paths; reuse of tags, registers and rows that someone still
names; banks that serve one lane of a group and not another; rows that keep what
an earlier instruction left; stalls that could close a circle; limits a
configuration may set. `PROJECT.json` lists each at its line, with the properties
that would catch it.

## 2. Modules

```
TagRing ── TagGen ─┬── SpecTags ── SpecTagsProofs                 speculation tags
            Mpft ──┘
            TagGen, Rt, Rob ────── RenameCore ─┬─ MCRenameCore     rename, ROB
                                       │       └─ RegValues ── MCRegValues   values
                                       └─ INSTANCE ProgramOrder
            TagGen, Rob, RsvO3 ─────── IssueO3 ── MCIssueO3        out-of-order issue
            TagGen, Rob, StoreBuf, RsvIOR ── LoadStore ── MCLoadStore
FrontEnd ── MCFrontEnd,  INSTANCE FetchOrder                      fetch, decode walk
UnitWords ── RvUnits, MipsUnits ─┐
InstrWord ── RvIsa, MipsIsa ─────┴─ UnitBodies ── MCUnitBodies    bodies of the units
             RvIsa, MipsIsa ── Machine ── DecodeRows ── MCDecodeRows

RobFacts ─┬─ RenameCoreProofs ── RegValuesProofs                  proofs
          ├─ IssueO3Proofs
          └─ LoadStoreProofs
             SpecTagsProofs, FrontEndProofs, DecodeRowsProofs
```

(`Prf` reaches `RenameCore` through `Rt`.)

Component modules hold a block's state, its initial state and one operator per
operation, parameterised by what its caller drives. A composition module adds
what the blocks share, and its actions are whole clock cycles.

| module | models |
|---|---|
| `TagRing` | one-hot tags as bit numbers, rotation, the pair (is_spec, spec_tag), the squash test and the resolve mask |
| `TagGen`, `Mpft`, `Prf`, `Rt`, `Rob`, `StoreBuf`, `RsvIOR`, `RsvO3` | the blocks of the same names |
| `SpecTags` | TagGen and Mpft with the branch station and every other holder of a tag |
| `RobFacts` | what moving and cutting the ROB's ring does to its rows, to counts of them and to the tags they hold, for any core around it |
| `SpecTagsProofs` | the inductive invariant of `SpecTags` and its theorems |
| `RenameCore` | dispatch, rename, wakeup, commit and squash for one register class |
| `RenameCoreProofs` | its rings and types; its maps; its fin bits, sources and refinement |
| `RegValues` | the values that travel through `RenameCore`: Arf, PRF data, captured operands |
| `RegValuesProofs` | that operands and the architectural file are the program's |
| `ProgramOrder` | the abstract specification of the back end: a queue of instructions in program order |
| `IssueO3` | an out-of-order station with its units, under commit, resolve and squash |
| `IssueO3Proofs` | the inductive invariant of `IssueO3` and its theorems |
| `LoadStore` | the load/store path: station, two stages, store buffer, memory, under commit and squash |
| `LoadStoreProofs` | the inductive invariant of `LoadStore` and its theorems |
| `FrontEnd` | fetch over banked memory, decode's walk of a crack, dispatch's grant, redirects |
| `FrontEndProofs` | types, that fetched rows hold their word, and the refinement of `FetchOrder` |
| `FetchOrder` | the abstract specification of the front end: the program, group by group |
| `InstrWord` | instruction words as sets of bits, fields, matchers, placing and extending an immediate |
| `RvIsa`, `MipsIsa` | the two instruction tables: micro-operations, slots, encodings, operand fields, units |
| `UnitWords`, `RvUnits`, `MipsUnits` | the arithmetic of the bodies and the bodies, for any width of word |
| `UnitBodies` | one unit of each kind at work, and what the manuals say of it |
| `Machine` | which machines are built: checks of description, configuration and blocks |
| `DecodeRows` | what a decode lane writes into its row, on every machine that is built |
| `DecodeRowsProofs` | that rows go where they run, on every machine that is built |
| `MC*` | instances to check |

Operators whose comment begins with "Bug:" are plausible mistakes in the code.
No specification uses them: putting one in place of the definition it precedes
violates a property, as `PROJECT.json` pairs them, which shows that the property
depends on what the code does there.

### 2.1 Speculation tags (`SpecTags`)

One step is one event. `Deliver` hands dispatch any group; `Dispatch` lands it
(or it waits, by `OverUse`); `SucPred` and `MisPred` are the two fan-outs as far
as tags go; `Finish` retires a holder. `branch_rsv` is the branch station, which
the configuration forces to issue in order (`config.py:150`), so the branch that
resolves is its head. `holders` are the pairs of all other in-flight records;
`depth`, how many open branches are ahead of a record, is history only. A one-hot
tag is the set of its single bit, 0 is `{}`, so the code's AND and OR are
intersection and union. `PowerUp` says what the Mpft's rows may hold before first
use: the code resets none of them.

### 2.2 Rename, wakeup and commit (`RenameCore`)

A step is a clock cycle of all blocks. `Cycle` combines any set of units that
finish, the group the ROB retires and a group that lands or stalls. `SucPred` is
the same with the oldest branch answered and dispatch stalled. `MisPred` is the
squash cycle, in which commit and dispatch are flushed and units older than the
branch still finish. The order inside a cycle is the code's: drops of the
retiring rows first, then the group's overlays lane by lane, each lane reading
the row before its own (`rt.py:100`); bypass before mark in the read view
(`prf.py:145`, `239`); counters written once from both sides.

Abstractions: one register class; a µop has at most one source and one
destination (a second source repeats the first's logic); a unit takes any time
from ready to finished and any ready row may go, so every choice of the stations
is included, except that branches issue in order; a full station is a stall
without a cause. `Rob`'s `Age` and `InFlight` read the pointers, they are not
state.

### 2.3 Values (`RegValues`)

The same cycles with values beside them: `data` of the physical file, `arf`, and
the operand a station entry captured (`src_data`), from the Arf's read view, from
the physical file, from a writeback of that cycle or from a later broadcast. A
µop's result depends on its operand, and a link's does not. `retired` is history:
the registers after the retired program, one instruction at a time. Values are
two; every µop changes its operand, so that one taken from the wrong writer shows.

### 2.4 Program order (`ProgramOrder`)

Instructions arrive at the tail of a queue, are answered when the value they read
is known and, if branches, in program order, and leave from the head once
answered, a branch or a store last in its group. A squash removes exactly what is
younger than its branch. `RenameCore` maps to it by reading the ROB's rows from
`com_ptr` for `used_entry_cnt` rows (`Program`); tags, rings, tables and stations
disappear.

### 2.5 Out-of-order issue (`RsvO3`, `IssueO3`)

`RsvO3` has the table with its stamp and epoch bit per row. `PortRow` is the row
each lane finds, a port seeing as taken what earlier ports claimed; `Pick` is the
entry a unit wins: the oldest issuable that no earlier unit claimed, by epoch,
stamp and, between lanes of one cycle, row number. `IssueO3` adds the units, the
ROB and the branches, which run elsewhere and resolve in order. An instruction
may wait for the one before it that went to the station.

### 2.6 Loads and stores (`LoadStore`)

A step is a clock cycle. An access is dispatched into the in-order station,
issues into stage 0, waits there while the buffer is full (stores only), moves
into stage 1 with the word it read, pushing its store, and reports to the ROB one
cycle later. The ROB's commit marks the store at `buf_com`; memory takes the one
at `buf_ret`. A word is a function from `Parts` to `Bytes`, so that a half-word
store really merges. The branches in the ROB resolve in order, at any time;
`FixTag` is the set of tags of the open branches from the mispredicted one on,
which `SquashIsExact` proves is what the Mpft answers as to the records in
flight. ROB rows out of use are blanked, since nothing reads them before they are
written again. `committed` is history: the memory that the retired stores make.
In a squash cycle the buffer's gate is shut (`store_buf.py:252`) and, since
`with_lsq` binds every µop of the unit, loads in stage 0 wait with the stores.

`OwnAck` says how the external `zync` of `mode="all"` enters its targets. FALSE is
the contract the code is written to (`exec_unit_api.py:56-103`, "both must
grant"). TRUE is what `docs/open_items.md:412-426` reports of the library: each
target is entered on its own acknowledgement.

Abstractions: other instructions are absent, except branches, which are also
plain ROB rows; the head of the station is ready or not, memory free or not, by
choice.

### 2.7 The front end (`FrontEnd`, `FetchOrder`)

Each lane presents the address `pc + lane * pc_align` (`fetch.py:85-94`), which
`MemPort` cuts into bank and index. Where two lanes name one bank, the lower one
is served and the other reads the lower one's word and must be told it has no
answer, or the group takes one word twice. With a bank per lane this happens only
when `pc_align` is smaller than a word, which the code allows. Fetch keeps the leading run of answered lanes and steps by it. Decode
hands over one level of the group's cracks at a time. `lands`, `hands` and `enters`
are the three handshakes of a cycle; `Redirect` flushes all three and wins over
the pc's own advance. A word of memory stands for the instruction stored there.

`FetchOrder` knows a position in the program, a group and how many of its levels
are handed over. The mapping reads the position from the group decode is walking,
or from `pc` when there is none: that `pc` has by then been moved over a group
nobody handed over is what a redirect must undo.

### 2.8 Bodies (`UnitBodies`)

The bodies of both ISAs as functions of a record, over words of `XLen` bits that
wrap, in the forms the code uses (sign bit flipped for a signed compare,
xor-and-subtract for sign extension, magnitudes for signed division, upper words
from fills). `UnitBodies` runs one record after another through a unit and
compares with definitions over integers and over single bits, written from what
the instructions mean. Division by zero of the raw divider is open in the
hardware; the bodies choose another value then, so nothing depends on it. A slot
the µop does not fill holds garbage. Fields of `ext`/`ins` and regions of jumps
scale with the width.

### 2.9 Machines and decode (`Machine`, `DecodeRows`)

`Machine` states each check as a predicate on a machine: the description's
(`isa.py:246`, `349`), the configuration's (`config.py:123-180`, `262-365`) and
those that blocks make while they are built (`prf.py:56`, `rob.py:58`,
`rsv_ior.py:49`, `exec_unit.py:82`, and `core.py:151`, which lets one complex squash).
`DecodeRows` starts from any machine of `MCMachines` that passes all of them and
decodes words into one lane's row: `Hits` are the rules that match, `Filled` the
fields written, `RsvIdFor` the station. The words are those an assembler makes
(`Assembled`, written from the manuals' formats, apart from the tables of the
code) and, on the shipped machines, every combination of the fields the rules
read. In the code's terms: a row keeps the fields nobody writes, so earlier
contents are part of the state.

## 3. Runs

Two workers, at most two minutes each.

| run | instance | checks | distinct states |
|---|---|---|---|
| `spec_tags` | 3 tags, 2 lanes, rows that power up empty or full | types, tag ring, exact squash, fresh tags, groups leave dispatch | 6,030 |
| `narrow_tags` | 1 tag, 2 lanes | *violated*: groups leave dispatch | |
| `reg_values` | 2 rows, 4 registers, 2 lanes, a hardwired register, links | types, map, snapshots, rings, fin bits, operands, architectural file | 50,713 |
| `program_order` | 4 rows, 1 lane, 2 nested branches, 8 registers, fair units | implements `ProgramOrder`, snapshots, sources, the oldest instruction retires | 202,588 |
| `full_pool` | 2 rows, 2 registers, fair units | *violated*: the oldest instruction retires | |
| `load_store` | 4 rows, buffer 2, station 2, 2 nested branches, fair clock, branches and memory | types, accesses in order, buffer in order, tags of records, stage 0 clears | 247,464 |
| `store_words` | 2 rows, buffer 4, two words, half-word stores | loads see program order, memory keeps commits | 469,296 |
| `own_ack` | as `load_store`, `OwnAck` | *violated*: what is finished has executed | |
| `issue_o3` | 4 rows, station of 3, stamps of 2 bits, 2 units, a branch | types, one place each, ready means written, tags, order by stamps, no entry starves | 94,128 |
| `front_end` | 4 lanes, 4 banks, 8 words, cracks of 0 to 2, `pc_align` half a word or a word | types, rows hold their word, implements `FetchOrder`, dispatch is fed | 701 |
| `unit_bodies` | words of 8 bits, edge values | results, writebacks, branch targets, sub-word accesses | 409,441 |
| `decode_rows` | both ISAs in 32 bits, over 200 configurations of each (those not built drop out), the shipped ones with every word | one reading per word, decode inverts the assembler, rows go where they run | 39,612 |

### 3.1 Why the bounds are enough

* *Tags.* Two open branches nest; a third under them shows the whole open set
  being seeded, a group of two seeds in a chain, and the ring of four wraps.
  For larger rings the theorems of section 5 hold.
* *Rows.* Two rows and two lanes make a full ROB, groups that fit only together,
  and every pair of µops in a group. Four rows put work before, between and
  after two branches, with rows retiring under an open one. A branch that writes
  the hardwired register is in `AllKinds`: it takes a register, is never mapped.
* *Registers.* Rings larger than the ROB wrap; a pool that cannot run out and,
  in `full_pool`, one that does. `FinPowerUp` is TRUE, the worst case: an entry
  not marked at rename reads as written.
* *Station.* Three rows over two units fill and empty; one of the units runs
  everything and the other a part, so picks collide. Stamps of two bits wrap
  with entries waiting, so every combination of epochs and stamps occurs.
* *Buffer.* Two rows fill and empty it under branches; four rows over a two-row
  ROB hold retired and executed stores on both sides of the wrap.
* *Words.* Two addresses, two parts, two byte values tell apart every mix-up of
  addresses, of pieces and of store and memory. Word stores write ones, half-word
  stores a zero, memory starts with zeroes.
* *Front end.* Four lanes contest banks in pairs when `pc_align` is half a word;
  the pc crosses the end of the memory and of the address space; of the program
  one word matches nothing and some crack in two.
* *Width.* A byte of two bits and a half of four keep every offset, sign and
  merge distinct; the operands have each bit alone, the ends of both orders and
  mixed patterns. Nothing in the bodies depends on 32 but `X_LEN`.
* *Decode.* The instruction words are real. Immediates are tried with each bit
  alone, none and all; registers with two complementary patterns. The other
  machines decode each instruction once.

`program_order` and `full_pool` use two kinds of µop, one that reads and writes a
register and a branch on it: with these every wait and every squash arises.

### 3.2 Fairness

`FairSpec` of each composition states only what the circuit does by itself.
The clock ticks: in `RenameCore`, `LoadStore` and `IssueO3` this is weak fairness of
`Next`, written (but for `RenameCore`'s `FairSpec`, which `full_pool` runs) with
`CanMove`, the condition that some block has work, in place of ENABLED, which TLC
evaluates slowly (`CanMove <=> ENABLED <<Next>>_vars` was checked as an invariant of
each instance); in `FrontEnd` it is weak fairness of `Flowing`, the cycle in which no
stall comes from outside, with the memory's read lock released once. Beyond the
clock: a branch that can be answered is, its unit having nothing to wait for; a
row whose source is ready finishes (`RenameCore`), a unit ends with its record
(`IssueO3`), each on its own, because every unit is a pipeline that ends; memory
takes the store offered to it (`LoadStore`). Dispatch is never assumed to land a
group, except in `SpecTags`, where `WF_vars(Dispatch)` says that a group whose
resources are all there goes. All are weak: each such step stays possible until it
is taken or the work is squashed. `EntriesLeave` discharges what `RenameCore`
assumes of a station: there a ready row is never passed over for ever.

### 3.3 Deadlock

Checking it is off only in `narrow_tags`, whose point is that the system stops.
In every passing run TLC also finds that no state is without a next step.

## 4. Disagreements found

1. **A group can need more tags than exist** (`narrow_tags`). `config.py:273`
   accepts any `sptag_len >= 1`; the ROB makes the analogous check (`rob.py:68`).
2. **A full pool loses a wakeup** (`full_pool`). Every lane of a landing group
   marks its promised register, also lanes that take none (`dispatch.py:243`). With
   `phy <= rob_depth` that may be the oldest live register, in the cycle it is
   written back; the reader then waits for ever. `HeadRetires` in `program_order`
   shows that with more registers than rows it cannot happen.
3. **A refused transfer can finish the wrong row** (`own_ack`). Given what
   `docs/open_items.md` reports of the library, stage 1 may run its last record
   again after the record's ROB row has been reallocated. The document expects
   harm only from a squash that recycles the row; the run shows an ordinary
   retirement is enough.

Observations without a run of their own:

* Comments the model shows to be out of date: `core.py:147` ("this read
  under-kills": `SquashIsExact` is proved), `exec_unit.py:352` (a record changing
  stage in the resolve cycle is masked by the override of `exec_unit_api.py`:
  `PairsFollowBranches` holds), and `docs/open_items.md:147` (an inner branch
  resolving before an outer one cannot happen, since branches resolve in order).
* The order of an out-of-order station (`rsv_o3.py:24-30`, a heuristic by its own
  words) has a second exception beside entries that wait through more than one
  wrap: an entry that lands in the very cycle of a wrap keeps the new epoch with
  the old epoch's last stamp, and compares as the youngest of that epoch, before
  the next wrap and after it. `OldestGoesFirst` allows these two and the lanes of
  one cycle. An entry that has waited through two wraps is known by being a wrap
  behind with a stamp no smaller than a later entry's that is a wrap behind too.
* `config.py:356` matches a station's unit to the description's by name; the other
  lookups go by identity. `Machine` has one unit per name, so the difference does
  not arise in it.
* `data_mem_spec` (`config.py:411`) gives one load path because "a memory-needing
  unit issues in order from a station of its own"; no check refuses a second
  memory station. `RoutedWhereItRuns` says of an access only that its station
  issues in order.
* An out-of-order station smaller than `fe_lanes` is accepted, and a group with
  more lanes for it than it has rows can never land; `RsvIOR` refuses that
  (`rsv_ior.py:62`). `IssueO3` assumes `FeLanes <= O3Size`.

## 5. Proofs

Each theorem holds for every value of the constants that satisfies the named
assumptions of its module; further hypotheses are in the table.

| module | theorem | states | hypothesis |
|---|---|---|---|
| `SpecTagsProofs` | `InductiveInvariant` | `[]IInv` | |
| | `TypesHold` | `[]TypeOK`: no counter leaves its width | |
| | `RingHolds` | `[]OpenTagsAreTheRing` | |
| | `TagsStayFresh` | `[]NoStaleTag` | |
| | `SquashIsExact` | `[]KillsExactlyYounger` | |
| `RenameCoreProofs` | `StructureHolds` | `[]Structure` | |
| | `TypesHold`, `RingsHold` | `[]TypeOK`, `[]RingsAgree` | |
| | `MasterMapHolds`, `SnapshotsHold` | `[]MasterMapsYoungest`, `[]SnapshotsMapTheirPath` | |
| | `FinHolds`, `SourcesHold` | `[]FinTracksWriteback`, `[]SourcesFollowProgramOrder` | `RegistersToSpare` |
| | `RefinesProgramOrder` | implements `ProgramOrder` | `RegistersToSpare` |
| `RegValuesProofs` | `OperandsHold`, `ArfHolds` | `[]OperandsFollowProgram`, `[]ArfHoldsRetired` | `RegistersToSpare` |
| `IssueO3Proofs` | `TypesHold`, `EntriesHold` | `[]TypeOK`, `[]EntriesInOnePlace` | |
| | `SourcesHold`, `PairsHold` | `[]ReadyWhenResultExists`, `[]O3PairsFollowBranches` | |
| | `OldestHolds` | `[]OldestGoesFirst` | |
| `LoadStoreProofs` | `TypesHold`, `AccessesHold` | `[]TypeOK`, `[]AccessesInOrder` | `~OwnAck` |
| | `BufferHolds`, `PairsHold` | `[]BufferIsProgramOrder`, `[]PairsFollowBranches` | `~OwnAck` |
| | `LoadsHold`, `CommitsHold` | `[]LoadsSeeProgramOrder`, `[]MemoryKeepsCommits` | `~OwnAck` |
| | `FinishedHolds` | `[]FinishedHasExecuted` | `~OwnAck` |
| `FrontEndProofs` | `TypesHold` | `[]TypeOK` | |
| | `RowsHold`, `RefinesFetchOrder` | `[]RowsHoldTheirWord`, implements `FetchOrder` | `TargetsAreWords` |
| `DecodeRowsProofs` | `RoutesHold` | `[]RoutedWhereItRuns` | |

Three hypotheses are on constants. `RegistersToSpare` is `PhyAmount > RobDepth`:
without it the claims are false, which is finding 2. `~OwnAck` is the contract of
`mode="all"` the code is written to (section 2.6): a transfer enters stage 1 and
the buffer together or not at all. Without it `FinishedHasExecuted` is false, which
is finding 3, and stage 1 holds a record that no unfinished row owns.
`TargetsAreWords` says that the reset pc and every target of a redirect are
multiples of a word: the core cuts the bits below (a fetch reads a whole word), so
at another target the row would hold the word the target lies in. In both shipped
ISAs an instruction is one aligned word.

### 5.1 Speculation tags

`KillsExactlyYounger` is not inductive: it reads a column of the Mpft, and rows
of closed tags hold anything. `IInv` says what the rows of open tags hold,
`RowsNest`: row of the k-th oldest open branch = the ring tags 1..k. Then the
column of branch k, restricted to open tags, is k and everything after it, and as
no record carries a closed tag (`NoStaleTag`), the rest of the column cannot
matter. `YoungerAreSpec` and `DepthIsOpen` say that pairs are marked speculative
while they must be. Each action has its lemma (`DispatchKeeps`, `SucPredKeeps`,
`MisPredKeeps`, `QuietStep`); they rest on two facts of ring arithmetic,
`BackIsInjective` and `BackAfterStep`. The hard case is `Dispatch`, where rows of a
whole group are seeded from one another.

### 5.2 Rename, commit and squash

`Cycle` and `SucPred` are one case (`CycleOf`), `MisPred` the other (`SquashOf`);
`StepsAreCycles` says that these are all the steps.

*Rings.* `RingsAgree` is not inductive alone: a squash sets `next_index` from its
branch's row and `next_tag` from that row's tag. `Structure` adds what makes this
right: rows in use are whole (`RowsAreWhole`: a row holds a register exactly when
its µop takes one, a branch exactly one tag), and the holders of registers
(`PoolIsRing`) and the open branches (`TagsAreRing`) sit in program order behind
their pointers, row i at the distance of the number of holders from i on. One
lemma of `RobFacts` (`CountsMove`; `FlowCounts` puts it in terms of lanes) says how
such numbers change in a cycle, for any kind of row; it serves rows, registers and
tags alike, here and in `IssueO3Proofs`. Counters keep their width because
each is a ring's size less a number of rows.

*Maps.* `Reads` states of one register what a map must say of it, so that a map
can be followed lane by lane. Three lemmas carry the argument: the drops of the
retiring rows remove exactly what maps to them (`DropsExactly`, because no two
rows hold one register), dropping leaves the map of the rows that stay
(`DroppedMaps`), and each stage row is the map of those rows and the lanes so far
(`StageMaps`). The master row and the snapshots are inductive only together: a
squash makes the master row from a snapshot.

*Waits.* Registers to spare put the registers a group marks apart from those in
flight (`MarkedAreFree`); then `FinTracksWriteback` is inductive on top of the
rings, and a source that is looked up in a right map, and is told by a right
`fin` bit, waits rightly (`Waits`). It goes on so while writers retire
(`WokenWaits`).

*Refinement.* A cycle is one step of `ProgramOrder` that answers, retires and
appends at once, a squash the other; that an answer is allowed
(`ReadyMayFinish`) is `Sources`.

*Values.* `Runs` is a recursive function; that it is the function its definition
describes (`RunsDefined`), that each register holds the result of its last writer
(`RunsLast`) and that the same rows give the same registers (`RunsAgree`) are
proved from the lowest number at which they would fail (`LowestExists`). The
invariant is that operands held and results written are the program's
(`Operands`, `WrittenValues`), and that the architectural file is what retired.

### 5.3 Out-of-order issue

`Cycle` and `SucPred` are one case (`FlowOf`), `MisPred` the other (`CutTo`). None of
the four invariants is inductive alone. A squash stops the
right records only if pairs are right; whether the rows it leaves unfinished are
exactly those still in an entry or a unit (`Placed`) depends on that; the result an
entry waits for is written only by a unit that holds its producer, which is
`Placed` again; and pairs are right because each open branch holds the ring's tag of
its place (`TagsAreRing`, as in `RenameCore`). `IInv` is all of these with the types:

* `Placed`: entries and running records correspond one to one with the rows that
  wait. `FlowMoves` and `CutMoves` say where each of them goes in a step.
* `SourcesSound`: an entry is ready exactly when the instruction before it that went
  to the station has reported, and else names that one's row. The producer may
  retire meanwhile, and its row be reused: the entry is ready by then, and of the
  rows that stay the youngest older one is the same or gone (`FlowSourced`).
* `PairsSound`: the pair of a row is the tag of the youngest open branch ahead of it
  (`PairTag`). A resolve clears that of the oldest branch (`PairsMove`), a squash
  leaves rows with no open branch ahead (`PairsCut`).
* `StampsSound`: in program order no entry is an epoch ahead of an older one, or has
  a smaller stamp in the same epoch, but for the stamp of the cycle that wraps. This
  is what stamps of `TrackWidth` bits and one epoch bit keep, and it gives `OldestGoesFirst` with its exceptions.

The units pick one after the other, each without what earlier ones claimed; the code
writes this as a chain and the model as a recursive function, of which `ClaimSteps`
proves that it is the function described, from the shortest chain at which it would
fail. `Picks` then says that no entry is picked twice and none is picked that may not
issue; `Ports` says the same of the rows the lanes write.

### 5.4 Loads and stores

`Cycle` and `SucPred` are one case (`FlowOf`), `MisPred` the other (`CutTo`). The six
claims hold only together:

* `Placed`: the two stages and the station hold exactly the loads and stores that have
  not finished, in order, and every access that has finished is older than every one
  that has not, so that what a squash drops is the tail of each ring.
* `Buffered`: for some `cnt` and `done`, the busy rows are the `cnt` from `buf_ret` on,
  the first `done` of them retired, the others as many as the stores in flight that
  have executed (`Entered`); the three pointers are at 0, `done` and `cnt`. That the
  row a store has is the one at its number among those (`RowOf`) then follows
  from how numbers in a set change when it loses its oldest and gains a youngest
  (`Ranks`, `RanksMove`).
* `PairsSound`: as in 5.3, and for buffered rows too; a retired row has none, because
  a store retires with no open branch ahead. A squash hits a row of station or
  buffer exactly when it is younger than the branch (`CutKills`), so each ring is cut
  to a prefix, and `buf_alloc` goes back to its end.
* `WordsSound`: an executed store's row holds what its store makes of the word before
  it (`StoreMerged`), memory and the retired rows are `committed` (`Committed`), and a
  load's answer is the word before it. The hard step is a store or load leaving stage 0
  (`StageZeroReads`): the newest buffered row of its address, or memory, is the word
  before it. It rests on the other parts: the stores ahead of stage 0 have all
  entered and no others have (`AheadOfStageZero`), and `Newest`, which the code finds by
  a scan from `buf_alloc` back, is the last of them (`NewestIsLast`). `WordStep` says that
  `WordBefore` is built one store at a time, so a word needs no recursion.

`StationRun`, `RunMoves` and `RunPrefix` are the ring arithmetic of the station and the
buffer alike: a run of slots that loses one at its head, gains some at its tail, or is
cut.

### 5.5 Front end

Only lanes on different words answer together, so the leading run that fetch
keeps is always consecutive words from the pc on, whatever `pc_align` and the
number of banks are (`LeadingRun`, `KeptWords`). `HoldsRun` says that the group
decode walks is such a run and that the pc stands behind it once the walk has
begun; the types, it and the walk's own counters give each step of `FetchOrder`.

### 5.6 Routes

`RoutesHold` is about every machine record that `IsBuilt` accepts, not only the
configurations of `MCDecodeRows`. `MachinesAssumption` says what such a record is: its
stations are a sequence, and a unit that lists loads or stores declares `"mem"` among
its `needs`, as `isa/exec_unit.py:58` means the field (no check compares them, since a
body is Python code). Then a lane's pick exists, for any number of stations that can
take the µop (`SomeHasThatManyBefore`, `PickRuns`); the unit it meets has the slots by the
description's check, and the order by the station's. That all branches meet in one
station takes three checks together: an out-of-order station has no branch unit, an
in-order one has one unit, and the squash fan-out is built once (`BranchesMeet`).

### 5.7 Only model-checked

The invariants of `UnitBodies` are over `Bitwise`, which a module with a theorem cannot
use; `OneReadingPerWord` and `DecodeInvertsAssembly` are evaluations of two finite tables
of encodings, which TLC does and a proof would only repeat row by row. Both are checked
on the instances of section 3. All liveness (`HeadRetires`, `EntriesLeave`,
`StageZeroClears`, `DispatchIsFed`, `GroupLeavesDispatch`) needs ENABLED and fairness
and is outside the prover's reach. No operator is declared RECURSIVE, so every
module but those over `Bitwise` (`UnitWords` and what extends it) can be proved
about.

## 6. Not modelled

* **Several register classes at work**: they share only the ROB row; `Machine` has
  their sizes, `UnitBodies` what MIPS writes to hi and lo.
* **Stage counts other than the shipped ones** (`exec_unit.py`): two for loads and
  stores, one for the rest.
* **The delay slot of MIPS**: the core does not read the feature
  (`src/carolyne/isa/mips/uop.py:16-20`); builds keep a nop there.
* **A linking µtemp source** (`decode.py:258`, a documented limit): no shipped ISA
  has one.
* **Several write ports on a memory bank**: no shipped core has them.
* **Unset power-up bits**: `Rt`'s `renamed` and the valid bits of tables start
  FALSE, as simulations start them. `fin` and the Mpft are given the worst case.
* **Checks of types, names and declarations by identity** in descriptions and
  configurations: they concern Python values, and no behaviour follows from them.
* **Logs, probes, examples, tests**: they observe or drive the core.

## 7. Plan

Done: speculation tags, rename with its values, the front end, and their proofs;
the abstract specifications of back end and front end and their refinements;
loads and stores, and out-of-order issue, with their proofs; the bodies; decode
and which machines are built, with the proof of its routes. Next:

1. **Composition** of `LoadStore` and `IssueO3` with `RenameCore` on one ROB.
2. **Two register classes** in `RenameCore`.
