---------------------------- MODULE SessionListMC ----------------------------
(* A small instance of SessionList for TLC, with lists that meet each limit. *)
EXTENDS SessionList

LOCAL INSTANCE TLC

(* Two sessions meet the first list's budget, and with one other entry its  *)
(* limit on entries; they exceed the second list's limit on candidates, and *)
(* one of them can exceed its budget.                                       *)
MCLimits ==
    { [directory_entries |-> 2, candidates |-> 2, read_bytes |-> 3],
      [directory_entries |-> 3, candidates |-> 1, read_bytes |-> 1] }

(* Times are only compared: that all are the later one adds nothing.        *)
SomeAreEarly == \E w \in Writer : created[w] = 1

(* Writers are only compared; ids are ordered. *)
ListSymmetry == Permutations(Writer)
=============================================================================
