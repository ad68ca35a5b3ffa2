---------------------------- MODULE ProgramOrder ----------------------------
(***************************************************************************)
(* What an out-of-order core promises the program: a queue of instructions *)
(* in program order, oldest first, of which only the oldest ones leave.    *)
(* Nothing here knows of tags, rings, tables or stations.                  *)
(***************************************************************************)
EXTENDS Integers, Sequences

CONSTANTS
  FeLanes,      \* how many instructions arrive together, at most
  CommitLanes,  \* how many leave together, at most
  Uops,         \* the instructions: records with is_branch, is_store, src
  Writes(_, _)  \* Writes(uop, a): uop gives register a a new value

VARIABLE queue  \* Seq([uop : Uops, done : BOOLEAN])

Init == queue = << >>

(* The older instructions that give instruction i its source value. *)
Writers(i) == {j \in 1 .. i - 1 : Writes(queue[j].uop, queue[i].uop.src)}

(* The youngest older writer of its source is done. *)
SourceKnown(i) ==
    \A j \in Writers(i) : (\A k \in Writers(i) : k <= j) => queue[j].done

(* Branches are answered in program order. *)
OldestOpenBranch(i) ==
    \A j \in 1 .. i - 1 : queue[j].uop.is_branch => queue[j].done

(* An instruction that may be answered now. *)
MayFinish(i) ==
    /\ ~queue[i].done
    /\ SourceKnown(i)
    /\ queue[i].uop.is_branch => OldestOpenBranch(i)

(* The n oldest may leave: all done, and a branch or a store leaves last. *)
MayRetire(n) ==
    /\ \A i \in 1 .. n : queue[i].done
    /\ \A i \in 1 .. n - 1 : ~queue[i].uop.is_branch /\ ~queue[i].uop.is_store

Answered(S) ==
    [i \in DOMAIN queue |-> [queue[i] EXCEPT !.done = @ \/ i \in S]]

Arrivals == UNION {[1 .. n -> [uop : Uops, done : {FALSE}]] : n \in 0 .. FeLanes}

(* Some oldest instructions leave, some are answered, some arrive.         *)
Advance ==
    \E n \in 0 .. CommitLanes :
        /\ n <= Len(queue)
        /\ MayRetire(n)
        /\ \E S \in SUBSET {i \in DOMAIN queue : MayFinish(i)}, new \in Arrivals :
              queue' = SubSeq(Answered(S), n + 1, Len(queue)) \o new

(* A mispredicted branch is answered, and everything younger is gone. *)
Squash ==
    \E b \in {i \in DOMAIN queue : queue[i].uop.is_branch /\ MayFinish(i)} :
        \E S \in SUBSET {i \in 1 .. b - 1 : MayFinish(i)} :
            queue' = SubSeq(Answered(S \cup {b}), 1, b)

Next == Advance \/ Squash

Spec == Init /\ [][Next]_queue
=============================================================================
