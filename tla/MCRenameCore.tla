---------------------------- MODULE MCRenameCore ----------------------------
(* Micro-operations to check RenameCore with.                           *)
EXTENDS RenameCore

Kind(branch, store, dest, src) ==
    [is_branch |-> branch, is_store |-> store, dest |-> dest, src |-> src]

Increment == Kind(FALSE, FALSE, 1, 1)       \* addi x1, x1
Test      == Kind(TRUE, FALSE, NoReg, 1)    \* beq x1, x0

FewKinds == {Increment, Test}
=============================================================================
