---------------------------- MODULE MCLoadStore ----------------------------
(* Micro-operations and a memory to check LoadStore with.                  *)
EXTENDS LoadStore

Access(store, addr, bytes) ==
    [is_branch |-> FALSE, is_store |-> store, is_load |-> ~store,
     addr |-> addr, bytes |-> bytes]

Both(v) == [p \in {"hi", "lo"} |-> v]
Low(v) == [p \in {"lo"} |-> v]
None == [p \in {} |-> 0]

LoadWord(a)  == Access(FALSE, a, None)
StoreWord(a) == Access(TRUE, a, Both(1))
StoreHalf(a) == Access(TRUE, a, Low(0))
Branch == [is_branch |-> TRUE, is_store |-> FALSE, is_load |-> FALSE,
           addr |-> 0, bytes |-> None]

Zeroes == [a \in Addrs |-> Both(0)]

(* Forwarding, merging and draining over two words, in straight-line code. *)
TwoWords == {LoadWord(0), StoreWord(0), StoreHalf(0), StoreWord(1)}

(* One kind of store under branches: squashes and resolves. *)
Branching == {LoadWord(0), StoreWord(0), Branch}
=============================================================================
