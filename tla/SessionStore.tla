---------------------------- MODULE SessionStore ----------------------------
(***************************************************************************)
(* What the session store of crates/harness-session-log promises to those  *)
(* who inspect it: a session is created, locked, written and closed; once  *)
(* closed its content stays, whatever happens to its name; and a session   *)
(* whose result was acknowledged survives every crash and power loss.      *)
(*                                                                         *)
(* SessionLog implements this module step by step.  Syncs, retries and     *)
(* failing calls are not visible here, and of a content only what an       *)
(* inspection reports (view) and its size are.                             *)
(***************************************************************************)
EXTENDS Naturals

CONSTANTS
    Writer,     \* calls of SessionLog::start, and the files they create
    Reader,     \* inspections, one at a time each
    Id,         \* session ids
    None,       \* no file, no id
    Terminal,   \* statuses a terminal record gives a session
    Sizes       \* sizes of a session file

ASSUME StoreAssumption ==
    /\ None \notin Writer \cup Id
    /\ Terminal \subseteq {"Completed", "Failed"}
    /\ Sizes \subseteq Nat /\ 0 \in Sizes

VARIABLES
    entry,          \* the file each id names
    id,             \* the id of each file
    phase,          \* idle, created, open, closed, or gone after a rollback
    view,           \* what an inspection of each file reports
    size,
    locked,         \* files locked by their writer
    shared,         \* the readers that lock each file
    acknowledged,   \* sessions whose terminal record was acknowledged
    removed,        \* sessions whose name was removed or lost
    young           \* the directory itself is not on disk yet

files == <<phase, view, size, locked>>
storeVars == <<entry, id, files, shared, acknowledged, removed, young>>

View == {"Corrupt", "Interrupted"} \cup Terminal

StoreInit ==
    /\ entry = [i \in Id |-> None]
    /\ id = [w \in Writer |-> None]
    /\ phase = [w \in Writer |-> "idle"]
    /\ view = [w \in Writer |-> "Corrupt"]
    /\ size = [w \in Writer |-> 0]
    /\ locked = {}
    /\ shared = [w \in Writer |-> {}]
    /\ acknowledged = {} /\ removed = {}
    /\ young \in BOOLEAN

-----------------------------------------------------------------------------
Create(w) ==
    /\ phase[w] = "idle"
    /\ \E i \in Id :
           /\ entry[i] = None
           /\ entry' = [entry EXCEPT ![i] = w]
           /\ id' = [id EXCEPT ![w] = i]
    /\ phase' = [phase EXCEPT ![w] = "created"]
    /\ UNCHANGED <<view, size, locked, shared, acknowledged, removed, young>>

Lock(w) ==
    /\ phase[w] = "created"
    /\ shared[w] = {}
    /\ phase' = [phase EXCEPT ![w] = "open"]
    /\ locked' = locked \cup {w}
    /\ UNCHANGED <<entry, id, view, size, shared, acknowledged, removed, young>>

(* Lines are only added: the header, the prompt, and one terminal record. *)
Write(w) ==
    /\ phase[w] = "open"
    /\ view[w] \notin Terminal
    /\ UNCHANGED <<entry, id, phase, locked, shared, acknowledged, removed, young>>
    /\ \E s \in Sizes : s > size[w] /\ size' = [size EXCEPT ![w] = s]
    /\ \E v \in View :
           /\ v = "Corrupt" => view[w] = "Corrupt"
           /\ v \in Terminal => view[w] = "Interrupted"
           /\ view' = [view EXCEPT ![w] = v]

(* The caller is told that its result is kept. *)
Acknowledge(w) ==
    /\ phase[w] = "open"
    /\ view[w] \in Terminal
    /\ phase' = [phase EXCEPT ![w] = "closed"]
    /\ locked' = locked \ {w}
    /\ acknowledged' = acknowledged \cup {w}
    /\ UNCHANGED <<entry, id, view, size, shared, removed, young>>

(* The file is closed without that: a failure, perhaps with a torn line, a  *)
(* kill, or a rollback that will remove the name.                           *)
Close(w) ==
    /\ phase[w] \in {"idle", "created", "open"}
    /\ phase' = [phase EXCEPT ![w] = "closed"]
    /\ locked' = locked \ {w}
    /\ UNCHANGED <<entry, id, view, shared, acknowledged, removed, young>>
    /\ \E s \in Sizes :
           /\ s = size[w] \/ (phase[w] = "open" /\ s > size[w])
           /\ size' = [size EXCEPT ![w] = s]

(* A rollback is acknowledged: the session is gone for ever. *)
RollBack(w) ==
    /\ phase[w] = "closed" /\ w \notin acknowledged
    /\ \A i \in Id : entry[i] # w
    /\ phase' = [phase EXCEPT ![w] = "gone"]
    /\ UNCHANGED <<entry, id, view, size, locked, shared, acknowledged, removed, young>>

(* A name is removed by the user, or by the writer it was rolled back by. *)
Remove(i) ==
    /\ entry[i] # None
    /\ entry' = [entry EXCEPT ![i] = None]
    /\ removed' = removed \cup {entry[i]}
    /\ UNCHANGED <<id, files, shared, acknowledged, young>>

-----------------------------------------------------------------------------
Share(r, w) ==
    /\ w \notin locked
    /\ phase[w] # "idle"
    /\ shared' = [shared EXCEPT ![w] = @ \cup {r}]
    /\ UNCHANGED <<entry, id, files, acknowledged, removed, young>>

Unshare(r) ==
    /\ shared' = [w \in Writer |-> shared[w] \ {r}]
    /\ UNCHANGED <<entry, id, files, acknowledged, removed, young>>

(* Power is lost.  Acknowledged sessions that keep their name are untouched *)
(* unless the directory is young, which may lose every name; one that is    *)
(* still there is young no more.  Other contents may shrink, removed names  *)
(* may return, but no gone session does.                                    *)
Kept == acknowledged \ removed

PowerLoss ==
    /\ phase' = [w \in Writer |-> IF phase[w] \in {"created", "open"} THEN "closed"
                                  ELSE phase[w]]
    /\ locked' = {} /\ shared' = [w \in Writer |-> {}]
    /\ UNCHANGED <<id, acknowledged>>
    /\ view' \in [Writer -> View] /\ size' \in [Writer -> Sizes]
    /\ \A w \in Writer :
           /\ size'[w] <= size[w]
           /\ view'[w] \in {view[w], "Corrupt"} \/ (view[w] \in Terminal
                                                   /\ view'[w] = "Interrupted")
    /\ \A w \in Kept : view'[w] = view[w] /\ size'[w] = size[w]
    /\ \/ /\ entry' \in [Id -> Writer \cup {None}]
          /\ \A i \in Id : entry'[i] # None => id[entry'[i]] = i /\ phase[entry'[i]] # "gone"
          /\ \A w \in Kept : entry'[id[w]] = w
          /\ young' = FALSE
          /\ UNCHANGED removed
       \/ /\ young /\ UNCHANGED young
          /\ entry' = [i \in Id |-> None]
          /\ removed' = removed \cup ({entry[i] : i \in Id} \ {None})

WriterNext(w) ==
    \/ Create(w) \/ Lock(w) \/ Write(w) \/ Acknowledge(w) \/ Close(w) \/ RollBack(w)

StoreNext ==
    \/ \E w \in Writer : WriterNext(w)
    \/ \E i \in Id : Remove(i)
    \/ \E r \in Reader : Unshare(r) \/ \E w \in Writer : Share(r, w)
    \/ PowerLoss

StoreSpec == StoreInit /\ [][StoreNext]_storeVars
=============================================================================
