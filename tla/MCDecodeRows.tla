---------------------------- MODULE MCDecodeRows ----------------------------
(* Machines to run DecodeRows with: for each description the shipped one,  *)
(* others that vary its stations, its units and its numbers, and among     *)
(* them many that some check refuses.                                      *)
EXTENDS DecodeRows

Station(issue_o3, exec_unit, rsv_type) ==
    [issue_o3 |-> issue_o3, size |-> 4, exec_unit |-> exec_unit, rsv_type |-> rsv_type]

InOrder(unit, rsv_type) == Station(FALSE, <<unit>>, rsv_type)
Alus == Station(TRUE, <<"alu", "alu">>, "exec")
Mem == InOrder("mem", "ld_st")
Ctl == InOrder("control", "branch")
Mul == InOrder("muldiv", "exec")

Layouts ==
    {<<Alus, Mem, Ctl, Mul>>,                                    \* as shipped
     <<InOrder("alu", "exec"), Mem, Ctl, Mul>>,                  \* as in the tests
     <<Mem, Alus, Ctl, InOrder("alu", "exec"), Mul>>,
     <<Station(TRUE, <<"alu", "muldiv">>, "exec"), Mem, Mul, Ctl>>,
     <<Station(TRUE, <<"alu", "mem">>, "exec"), Ctl, Mul>>,      \* memory out of order
     <<Station(TRUE, <<"alu", "control">>, "branch"), Mem, Mul>>,
     <<Alus, Mem, Ctl, Ctl, Mul>>,                               \* two squash callers
     <<Alus, Mem, InOrder("control", "exec"), Mul>>,             \* no npc
     <<Alus, Mem, Ctl>>,                                         \* stranded
     <<Alus, Station(FALSE, <<"mem", "muldiv">>, "ld_st"), Ctl>>,
     <<InOrder("alu2", "exec"), Alus, Mem, Ctl, Mul>>}

(* A second ALU that runs a part of what the first does, with some slots.  *)
WithAlu2(isa, uops, slots) ==
    [n \in {"alu", "alu2", "mem", "control", "muldiv"} |->
        IF n = "alu2" THEN [uops |-> uops, slots |-> slots, needs |-> {}] ELSE ExecUnits(isa)[n]]
Units(isa) ==
    {ExecUnits(isa),
     WithAlu2(isa, {"ADD", "SUB"}, {"src_1", "src_2", "dest_1"}),
     WithAlu2(isa, {"ADD", "SUB"}, {"src_1", "dest_1"}),
     [ExecUnits(isa) EXCEPT !.mem.uops = @ \ {"SB"}]}

With(isa, units, layout, lanes, rob, buf, phy) ==
    [isa |-> isa, exec_units |-> units, fe_lanes |-> lanes, commit_lanes |-> 2,
     rob_depth |-> rob, sptag_len |-> 3, st_buf_depth |-> buf,
     phy_size |-> [c \in DOMAIN RegFiles(isa) |-> IF RegFiles(isa)[c] = 1 THEN 4 ELSE phy],
     rsv_specs |-> layout]

Shipped(isa) == With(isa, ExecUnits(isa), <<Alus, Mem, Ctl, Mul>>, 2, 8, 4, 64)
MCThorough == {Shipped(isa) : isa \in {"riscv", "mips"}}
MCMachines ==
    UNION {{With(isa, units, layout, 2, 8, 4, 64) : units \in Units(isa), layout \in Layouts}
             \cup {With(isa, ExecUnits(isa), <<Alus, Mem, Ctl, Mul>>, lanes, rob, buf, phy) :
                      lanes \in {1, 2, 3, 4, 8}, rob \in {1, 2, 6, 8}, buf \in {1, 4, 6},
                      phy \in {32, 33, 64}} : isa \in {"riscv", "mips"}}

TwoRegisters == {{0, 2, 4}, {1, 3}}
=============================================================================
