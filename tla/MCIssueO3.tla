----------------------------- MODULE MCIssueO3 -----------------------------
(* A station of two units, the second of which runs everything, and the    *)
(* micro-operations to check IssueO3 with.                                 *)
EXTENDS IssueO3

AluAndAny == [u \in 1 .. 2 |-> IF u = 1 THEN {"alu"} ELSE {"alu", "mul"}]

Op(kind, waits) == [is_branch |-> FALSE, is_store |-> FALSE, kind |-> kind, waits |-> waits]
Branch == [is_branch |-> TRUE, is_store |-> FALSE]

AllUops == {Op("alu", TRUE), Op("mul", FALSE), Branch}
=============================================================================
