------------------------------ MODULE Machine ------------------------------
(***************************************************************************)
(* Which machines are built: the checks a description makes of itself, the *)
(* checks of CPUO3_Config and its RsvSpecs, and those the blocks make as   *)
(* the core builds them.  Each one raises, so a machine exists only if it  *)
(* passes all; the constants of the other modules are assumed to.          *)
(*                                                                         *)
(* A machine is a record: its isa, the exec_units its description declares *)
(* (name -> [uops, slots, needs]), the numbers of CPUO3_Config, phy_size   *)
(* by register class, and rsv_specs, a sequence of [issue_o3, size,        *)
(* exec_unit, rsv_type] where exec_unit is a sequence of unit names.       *)
(***************************************************************************)
EXTENDS RvIsa, MipsIsa, FiniteSets

Uops(isa) == IF isa = "riscv" THEN RvUops ELSE MipsUops
Seqs(isa) == IF isa = "riscv" THEN RvSeqs ELSE MipsSeqs
Srcs(isa, u) == IF isa = "riscv" THEN RvSrcs(u) ELSE MipsSrcs(u)
Dests(isa, u) == IF isa = "riscv" THEN RvDests(u) ELSE MipsDests(u)
Control(isa) == IF isa = "riscv" THEN RvControl ELSE MipsControl
ExecUnits(isa) == IF isa = "riscv" THEN RvExecUnits ELSE MipsExecUnits

IsBranch(isa, u) == u \in Control(isa)

(* The register classes, each with the size of its architectural file.     *)
RegFiles(isa) == IF isa = "riscv" THEN [x |-> 32] ELSE [r |-> 32, hi |-> 1, lo |-> 1]

PowerOfTwo(n) == \E k \in 0 .. 10 : n = 2^k

-----------------------------------------------------------------------------
(***************************************************************************)
(* The description: every micro-operation has a unit, and every unit that  *)
(* lists it has the slots it fills.                                        *)
(***************************************************************************)
UnitsFor(m, u) == {n \in DOMAIN m.exec_units : u \in m.exec_units[n].uops}

Used(m) == {seq.uop : seq \in Seqs(m.isa)}

Covers(m, n, u) == Srcs(m.isa, u) \cup Dests(m.isa, u) \subseteq m.exec_units[n].slots

IsaAccepts(m) ==
    /\ \A u \in Uops(m.isa) : UnitsFor(m, u) # {}
    /\ \A u \in Used(m) : \A n \in UnitsFor(m, u) : Covers(m, n, u)

-----------------------------------------------------------------------------
(***************************************************************************)
(* The configuration.                                                      *)
(***************************************************************************)
UnitsOf(spec) == {spec.exec_unit[k] : k \in DOMAIN spec.exec_unit}
Branches(m, n) == m.exec_units[n].uops \cap Control(m.isa) # {}
Accesses(m, n) == "mem" \in m.exec_units[n].needs

(* What the units of a station ask of its issue policy: tags return in     *)
(* order, forwarding is in program order, one stage chain keeps an order.  *)
RsvSpecAccepts(m, spec) ==
    /\ spec.size >= 1
    /\ spec.exec_unit # << >>
    /\ spec.issue_o3 => \A n \in UnitsOf(spec) : ~Branches(m, n) /\ ~Accesses(m, n)
    /\ ~spec.issue_o3 => Len(spec.exec_unit) = 1

RsvIds(m) == DOMAIN m.rsv_specs
CanIssue(m, k, u) == \E n \in UnitsOf(m.rsv_specs[k]) : u \in m.exec_units[n].uops

(* Every renamed class has a file with a register to spare. *)
PhySpecsAccepted(m) ==
    /\ DOMAIN m.phy_size = DOMAIN RegFiles(m.isa)
    /\ \A c \in DOMAIN m.phy_size : m.phy_size[c] > RegFiles(m.isa)[c]

(* Stations name declared units, and no micro-operation in use is stranded.*)
RsvSpecsAccepted(m) ==
    /\ RsvIds(m) # {}
    /\ \A k \in RsvIds(m) : /\ UnitsOf(m.rsv_specs[k]) \subseteq DOMAIN m.exec_units
                            /\ RsvSpecAccepts(m, m.rsv_specs[k])
    /\ \A u \in Used(m) : \E k \in RsvIds(m) : CanIssue(m, k, u)

ConfigAccepts(m) ==
    /\ {m.fe_lanes, m.commit_lanes, m.rob_depth, m.sptag_len, m.st_buf_depth} \subseteq Nat \ {0}
    /\ m.commit_lanes <= m.rob_depth
    /\ PowerOfTwo(m.fe_lanes)
    /\ m.st_buf_depth >= 2 /\ PowerOfTwo(m.st_buf_depth)
    /\ PhySpecsAccepted(m)
    /\ RsvSpecsAccepted(m)

-----------------------------------------------------------------------------
(***************************************************************************)
(* The core: each block refuses a size its pointers cannot address.        *)
(***************************************************************************)
PrfBuilds(m, c) ==
    m.phy_size[c] >= 2 /\ PowerOfTwo(m.phy_size[c]) /\ m.fe_lanes <= m.phy_size[c]

RobBuilds(m) == m.rob_depth >= 2 /\ PowerOfTwo(m.rob_depth) /\ m.fe_lanes <= m.rob_depth

StationBuilds(m, spec) ==
    /\ spec.size >= 2
    /\ ~spec.issue_o3 => PowerOfTwo(spec.size) /\ m.fe_lanes <= spec.size

(* The fields a kind of station adds, which the bodies of its units read.  *)
KindFields(rsv_type) ==
    CASE rsv_type = "exec"   -> {"pc"}
      [] rsv_type = "branch" -> {"pc", "npc"}
      [] rsv_type = "ld_st"  -> {}

ExecUnitBuilds(m, spec, n) ==
    m.exec_units[n].needs \cap {"pc", "npc"} \subseteq KindFields(spec.rsv_type)

(* Every complex whose body may squash calls the squash fan-out, which can *)
(* be built once.                                                          *)
Squashers(m) ==
    UNION {{<<k, i>> : i \in {i \in DOMAIN m.rsv_specs[k].exec_unit :
                                 Branches(m, m.rsv_specs[k].exec_unit[i])}} : k \in RsvIds(m)}

CoreBuilds(m) ==
    /\ \A c \in DOMAIN m.phy_size : PrfBuilds(m, c)
    /\ RobBuilds(m)
    /\ \A k \in RsvIds(m) :
          LET spec == m.rsv_specs[k]
          IN  StationBuilds(m, spec) /\ \A n \in UnitsOf(spec) : ExecUnitBuilds(m, spec, n)
    /\ Cardinality(Squashers(m)) <= 1

IsBuilt(m) == IsaAccepts(m) /\ ConfigAccepts(m) /\ CoreBuilds(m)
=============================================================================
