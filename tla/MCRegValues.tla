---------------------------- MODULE MCRegValues ----------------------------
(* Micro-operations to check RegValues with: register 0 is hardwired.      *)
EXTENDS RegValues

Kind(branch, store, dest, src) ==
    [is_branch |-> branch, is_store |-> store, dest |-> dest, src |-> src]

Increment == Kind(FALSE, FALSE, 1, 1)       \* addi x1, x1
Zero      == Kind(FALSE, FALSE, 1, 0)       \* add x1, x0
Call      == Kind(TRUE, FALSE, 1, NoReg)    \* jal x1
Return    == Kind(TRUE, FALSE, 0, 1)        \* jalr x0, x1

AllKinds == {Increment, Zero, Call, Return}
=============================================================================
