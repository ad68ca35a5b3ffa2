------------------------------- MODULE RsvO3 -------------------------------
(***************************************************************************)
(* An out-of-order reservation station that feeds several execution units. *)
(* Entries land in any free rows; in every cycle each unit picks the       *)
(* oldest ready entry it can run, by a stamp that counts dispatch cycles   *)
(* and one bit that says the counter has wrapped since.                    *)
(***************************************************************************)
EXTENDS TagRing, Sequences, FiniteSets

CONSTANTS
  O3Size,       \* RsvSpec.size
  TrackWidth,   \* ceil_log2(size): the width of a stamp
  UnitCnt,      \* how many execution units the station feeds
  Runs          \* [Units -> set of uop kinds]: what each unit runs

Units == 1 .. UnitCnt

ASSUME RsvO3Assumption ==
    /\ O3Size \in Nat \ {0, 1}
    /\ UnitCnt \in Nat \ {0}
    /\ DOMAIN Runs = Units
    /\ TrackWidth \in Nat \ {0}
    /\ 2^(TrackWidth - 1) < O3Size /\ O3Size <= 2^TrackWidth

VARIABLES
  o3,           \* [O3Slots -> entry]: the code's table
  track_ptr     \* the stamp of the next cycle that dispatches here

o3Vars == <<o3, track_ptr>>

O3Slots == 0 .. O3Size - 1
Tracks == 0 .. 2^TrackWidth - 1

NoRow == [valid |-> FALSE]

O3Init ==
    /\ o3 = [i \in O3Slots |-> NoRow]
    /\ track_ptr = 0

Held == {i \in O3Slots : o3[i].valid}
Free == O3Slots \ Held

-----------------------------------------------------------------------------
(***************************************************************************)
(* Dispatch.                                                               *)
(***************************************************************************)

(* Where the k-th lane aimed here lands: the lowest row that is free and   *)
(* that no earlier lane is taking.                                         *)
PortRow(k) == CHOOSE i \in Free : Cardinality({j \in Free : j < i}) = k - 1

(* Every lane aimed here finds a row.  A row issuing now is not free yet.  *)
O3Fits(wanted) == wanted <= Cardinality(Free)

(* The last stamp is being spent: the counter is about to wrap. *)
Rolls(taken) == taken # << >> /\ track_ptr = 2^TrackWidth - 1

-----------------------------------------------------------------------------
(***************************************************************************)
(* Issue.                                                                  *)
(***************************************************************************)

(* Occupied, and every source it waits for has landed. *)
SlotReady(i) == o3[i].valid /\ o3[i].ready

(* Bug: the epoch bit is left out of the comparison. *)
OlderByStamp(i, j) == o3[i].track < o3[j].track

(* Entry i is older: it is a wrap behind and j is not, or, both in one     *)
(* epoch, it has the smaller stamp.                                        *)
Older(i, j) ==
    \/ o3[i].is_lower /\ ~o3[j].is_lower
    \/ o3[i].is_lower = o3[j].is_lower /\ o3[i].track < o3[j].track

(* The fold's winner among the rows of S: of the oldest, the highest row.  *)
PickOldest(S) ==
    CHOOSE i \in S : \A j \in S : Older(i, j) \/ (~Older(j, i) /\ j <= i)

Issuable(u) == {i \in O3Slots : SlotReady(i) /\ o3[i].kind \in Runs[u]}

(* Bug: a unit does not see what the units before it are taking. *)
PickAlone(u) == IF Issuable(u) = {} THEN {} ELSE {PickOldest(Issuable(u))}

(* What each unit picks: at most one row, never one an earlier unit picked *)
(* (even when that unit is busy and leaves it in the table).               *)
Pick(u) ==
    LET claimed[k \in 0 .. UnitCnt] ==
            IF k = 0 THEN {}
            ELSE LET open == Issuable(k) \ claimed[k - 1]
                 IN  claimed[k - 1] \cup (IF open = {} THEN {} ELSE {PickOldest(open)})
    IN  claimed[u] \ claimed[u - 1]

-----------------------------------------------------------------------------
(***************************************************************************)
(* The cycle.                                                              *)
(***************************************************************************)

(* Bug: the stamp counter is a bit too wide. *)
NextTrackUncut == (track_ptr + 1) % 2^(TrackWidth + 1)

NextTrack == (track_ptr + 1) % 2^TrackWidth

(* Bug: the broadcast does not reach the waiting entries. *)
WokenNever(e, written) == e

(* Bug: any broadcast wakes every source. *)
WokenByAny(e, written) == IF written = {} THEN e ELSE [e EXCEPT !.ready = TRUE]

(* An entry after the broadcasts of the results `written`. *)
Woken(e, written) == IF e.pr \in written THEN [e EXCEPT !.ready = TRUE] ELSE e

(* The entries `taken` land with this cycle's stamp, the rows `issued`     *)
(* leave, the rest wake, drop resolving tags and, when the counter wraps,  *)
(* are stamped a wrap behind.  An entry landing in that cycle is not.      *)
O3Update(taken, issued, written, suc) ==
    LET lane(i) == {k \in DOMAIN taken : PortRow(k) = i}
        kept(e) == Resolved([Woken(e, written) EXCEPT !.is_lower = @ \/ Rolls(taken)], suc)
    IN  /\ o3' = [i \in O3Slots |->
               IF lane(i) # {}
               THEN [taken[CHOOSE k \in lane(i) : TRUE]
                       EXCEPT !.track = track_ptr, !.is_lower = FALSE]
               ELSE IF i \in Held \ issued THEN kept(o3[i])
               ELSE NoRow]
        /\ track_ptr' = IF taken = << >> THEN track_ptr ELSE NextTrack

(* A squash: nothing lands or issues, and the entries under `kill` go.     *)
O3MisPred(kill, written) ==
    /\ o3' = [i \in O3Slots |->
           IF i \in Held /\ ~Squashed(o3[i], kill) THEN Woken(o3[i], written) ELSE NoRow]
    /\ UNCHANGED track_ptr
=============================================================================
