---------------------------- MODULE SessionLogMC ----------------------------
(* Small instances of SessionLog for TLC. *)
EXTENDS SessionLog, TLC

(* Writers, readers and ids are only compared. *)
StoreSymmetry ==
    Permutations(Writer) \cup Permutations(Reader) \cup Permutations(Id)

(* What a state can still make a difference by.  States that agree in this  *)
(* have the same steps, and every property sees them as the same: nothing   *)
(* reads the tries of a start that has its id, the terminal record of an    *)
(* ended writer whose file does not hold it, which of the failures a writer *)
(* or reader ended with, nor what a reader was asked for once it has ended. *)
Ended(w) == pc[w] = "done"

WriterView(w) ==
    <<pc[w], id[w],
      IF pc[w] = "idle" THEN tries[w] ELSE 0,
      IF Ended(w) /\ data[w].lines < 3 THEN "none" ELSE terminal[w],
      IF Ended(w) /\ result[w] \notin {"Appended", "RolledBack"} THEN "none" ELSE result[w]>>

ReaderView(r) ==
    IF rpc[r] # "done" THEN <<rpc[r], opened[r], asked[r]>>
    ELSE IF shown[r] \in {"Corrupt", "Interrupted", "Completed", "Failed"}
    THEN <<opened[r], shown[r]>>
    ELSE <<>>

StoreView ==
    <<directory, contents, exclusive, shared, history,
      [w \in Writer |-> WriterView(w)], [r \in Reader |-> ReaderView(r)]>>
=============================================================================
