----------------------------- MODULE FetchOrder -----------------------------
(***************************************************************************)
(* What the front end promises dispatch: the program from the last         *)
(* redirect on, group after group, no instruction skipped or repeated, and *)
(* every level of every group handed over once.  Nothing here knows of     *)
(* banks, ports or handshakes.                                             *)
(***************************************************************************)
EXTENDS Integers

CONSTANTS
  FeLanes,      \* the most instructions in a group
  Levels,       \* the longest crack
  Targets,      \* where the program's branches go
  ResetPc,
  After(_, _),  \* After(pc, n): the address n instructions on
  Cracked(_)    \* Cracked(pc): the micro-operations the instruction there has

VARIABLES
  base,         \* the oldest instruction not handed over completely
  size,         \* the instructions of the group under way
  handed,       \* how many of its levels dispatch has had
  out           \* the micro-operations dispatch holds: a set of [pc, level]

Init == base = ResetPc /\ size = 0 /\ handed = Levels /\ out = {}

(* Level k of n instructions from pc b. *)
Level(b, n, k) ==
    {[pc |-> After(b, i), level |-> k] : i \in {j \in 0 .. n - 1 : Cracked(After(b, j)) >= k}}

(* Between groups: a group of any size may start, or none. *)
Start(b) ==
    \/ base' = b /\ size' = 0 /\ handed' = Levels
    \/ base' = b /\ size' \in 0 .. FeLanes /\ handed' = 0

(* Dispatch takes the next level of the group. *)
HandOver ==
    /\ handed < Levels
    /\ out' = Level(base, size, handed + 1)
    /\ IF handed + 1 = Levels THEN Start(After(base, size))
       ELSE base' = base /\ size' = size /\ handed' = handed + 1

(* Dispatch's group lands, or stays; a group may start. *)
Wait ==
    /\ out' \in {out, {}}
    /\ IF handed = Levels THEN Start(base) ELSE UNCHANGED <<base, size, handed>>

Redirect == base' \in Targets /\ size' = 0 /\ handed' = Levels /\ out' = {}

Next == HandOver \/ Wait \/ Redirect

Spec == Init /\ [][Next]_<<base, size, handed, out>>
=============================================================================
