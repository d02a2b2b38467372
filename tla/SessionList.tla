----------------------------- MODULE SessionList -----------------------------
(***************************************************************************)
(* `session list`: list_file of crates/harness-session-log/src/file.rs,    *)
(* over the store that SessionStore promises (and SessionLog implements):  *)
(* writers create, finish and roll back sessions and the user removes      *)
(* files while the list scans the directory and then inspects what it has  *)
(* found.  It changes nothing in the store but the shared locks it holds.  *)
(*                                                                         *)
(* Ids are numbers, since the list sorts them; they are random and 128     *)
(* bits long, so a directory scan meets each at most once.                 *)
(***************************************************************************)
EXTENDS SessionStore, Sequences, FiniteSets

Seqs == INSTANCE SequencesExt

CONSTANTS
    Lister,     \* the reader that lists
    Others,     \* how many directory entries at most are no session files
    Times,      \* creation times, from a clock that may be set back
    Limits      \* the limits a list may be called with (LIST_LIMITS in the code)

ASSUME ListAssumption ==
    /\ Lister \in Reader /\ Id \subseteq Nat /\ Times \subseteq Nat \ {0}
    /\ Others \in Nat /\ IsFiniteSet(Writer)
    /\ Limits \subseteq [directory_entries : Nat, candidates : Nat, read_bytes : Nat]

VARIABLES
    step,           \* how far the inspection of the next candidate is
    opened,         \* the file it opened
    shown,          \* what it reports
    limits,         \* the limits of this list
    created,        \* created_at_unix_ms of each file
    lpc,            \* where list_file is
    unscanned,      \* ids the scan has not come to
    others,         \* other entries it has not come to
    entries,        \* directory_entries
    candidates,     \* ids found, in order, and not inspected
    used,           \* budget.used
    read,           \* history: the bytes set out to be read of each file
    summaries,
    listed,         \* what list_file returned
    known,          \* history: sessions acknowledged before the list began,
    nameless,       \* files that had lost their name by then,
    foreign         \* and how many other entries there were

scanning == <<unscanned, others, entries>>
inspection == <<step, opened, shown>>
budget == <<used, read>>
history == <<known, nameless, foreign>>
listing ==
    <<limits, created, lpc, scanning, candidates, budget, summaries, listed, history>>
listVars == <<storeVars, inspection, listing>>

-----------------------------------------------------------------------------
Projected == {"Interrupted"} \cup Terminal
Status == Projected \cup {"Busy", "Corrupt", "Unavailable"}

(* created is 0 where the code has no creation time. *)
Summary == [id : Id, status : Status, created : Times \cup {0}]

(* Defects for the mutation runs. *)
PrecedesSwapped(a, b) ==
    IF a.created = b.created THEN a.id > b.id ELSE a.created < b.created

(* The sort_by of the summaries: newest first, the ones without a time last. *)
Precedes(a, b) ==
    IF a.created = b.created THEN a.id < b.id ELSE a.created > b.created

ListInit ==
    /\ StoreInit /\ ~young
    /\ step = "open" /\ opened = None /\ shown = "none"
    /\ limits \in Limits
    /\ created \in [Writer -> Times]
    /\ lpc = "idle"
    /\ unscanned = {} /\ others = 0 /\ entries = 0
    /\ candidates = <<>> /\ summaries = <<>>
    /\ used = 0 /\ read = [w \in Writer |-> 0]
    /\ listed = "none"
    /\ known = {} /\ nameless = {} /\ foreign = 0

ListReturn(value) ==
    /\ lpc' = "done"
    /\ listed' = value

-----------------------------------------------------------------------------
(* Both directories exist, and read_dir opens the second. *)
ListStart ==
    /\ lpc = "idle"
    /\ lpc' = "scan"
    /\ unscanned' = Id
    /\ foreign' \in 0 .. Others /\ others' = foreign'
    /\ known' = Kept
    /\ nameless' = {w \in Writer : id[w] # None /\ entry[id[w]] # w}
    /\ UNCHANGED <<storeVars, inspection, limits, created, entries, candidates,
                   budget, summaries, listed>>

(* No session was ever started: there is nothing to list. *)
NoDirectory ==
    /\ lpc = "idle"
    /\ \A w \in Writer : phase[w] = "idle"
    /\ ListReturn("Listed")
    /\ UNCHANGED <<storeVars, inspection, limits, created, scanning, candidates,
                   budget, summaries, history>>

ListFails ==
    /\ lpc \in {"idle", "scan"}
    /\ ListReturn("StoreUnavailable")
    /\ UNCHANGED <<storeVars, inspection, limits, created, scanning, candidates,
                   budget, summaries, history>>

(* Defects for the mutation runs: a limit of the scan is not looked at. *)
ScanManyIds(i) ==
    /\ lpc = "scan" /\ i \in unscanned
    /\ entry[i] # None
    /\ entries < limits.directory_entries
    /\ entries' = entries + 1
    /\ candidates' = Append(candidates, i)
    /\ unscanned' = unscanned \ {i}
    /\ UNCHANGED <<storeVars, inspection, limits, created, lpc, others, budget,
                   summaries, listed, history>>

ScanManyOthers ==
    /\ lpc = "scan" /\ others > 0
    /\ entries' = entries + 1
    /\ others' = others - 1
    /\ UNCHANGED <<storeVars, inspection, limits, created, lpc, unscanned,
                   candidates, budget, summaries, listed, history>>

(* collect_candidate_ids, one directory entry at a time.  A name that is    *)
(* added or removed meanwhile is found if it is there when its turn comes.  *)
ScanPasses(i) ==
    /\ lpc = "scan" /\ i \in unscanned
    /\ entry[i] = None
    /\ unscanned' = unscanned \ {i}
    /\ UNCHANGED <<storeVars, inspection, limits, created, lpc, others, entries,
                   candidates, budget, summaries, listed, history>>

Scan(i) ==
    /\ lpc = "scan" /\ i \in unscanned
    /\ entry[i] # None
    /\ entries < limits.directory_entries /\ Len(candidates) < limits.candidates
    /\ entries' = entries + 1
    /\ candidates' = Append(candidates, i)
    /\ unscanned' = unscanned \ {i}
    /\ UNCHANGED <<storeVars, inspection, limits, created, lpc, others, budget,
                   summaries, listed, history>>

ScanOther ==
    /\ lpc = "scan" /\ others > 0
    /\ entries < limits.directory_entries
    /\ entries' = entries + 1
    /\ others' = others - 1
    /\ UNCHANGED <<storeVars, inspection, limits, created, lpc, unscanned,
                   candidates, budget, summaries, listed, history>>

(* Defect for the mutation runs: the list is cut off at the limit. *)
ScanCutOff ==
    /\ lpc = "scan"
    /\ \E i \in unscanned : entry[i] # None
    /\ Len(candidates) >= limits.candidates
    /\ unscanned' = {}
    /\ UNCHANGED <<storeVars, inspection, limits, created, lpc, others, entries,
                   candidates, budget, summaries, listed, history>>

ScanTooLarge ==
    /\ lpc = "scan"
    /\ \/ others > 0 /\ entries >= limits.directory_entries
       \/ /\ \E i \in unscanned : entry[i] # None
          /\ entries >= limits.directory_entries \/ Len(candidates) >= limits.candidates
    /\ ListReturn("InventoryTooLarge")
    /\ UNCHANGED <<storeVars, inspection, limits, created, scanning, candidates,
                   budget, summaries, history>>

ScanEnds ==
    /\ lpc = "scan"
    /\ unscanned = {} /\ others = 0
    /\ candidates' \in Seqs!SetToSeqs(Seqs!ToSet(candidates))
    /\ \A i, j \in DOMAIN candidates' : i < j => candidates'[i] < candidates'[j]
    /\ lpc' = "inspect"
    /\ UNCHANGED <<storeVars, inspection, limits, created, scanning, budget,
                   summaries, listed, history>>

-----------------------------------------------------------------------------
(* summarize_candidates: inspect_file of the next candidate.  While the     *)
(* list holds its shared lock no writer writes to the file: the size, the   *)
(* read and the second look at the path are one step.                       *)
InspectReturns(report) ==
    /\ shown' = report
    /\ step' = "done"

ListOpen ==
    /\ lpc = "inspect" /\ candidates # <<>> /\ step = "open"
    /\ opened' = entry[Head(candidates)]
    /\ \/ opened' = None /\ InspectReturns("Missing")
       \/ opened' # None /\ step' = "opened" /\ UNCHANGED shown
    /\ UNCHANGED <<storeVars, listing>>

ListBusy ==
    /\ lpc = "inspect" /\ step = "opened"
    /\ opened \in locked
    /\ InspectReturns("Busy")
    /\ UNCHANGED <<storeVars, opened, listing>>

(* Defect for the mutation runs: a locked file is read. *)
LockNotTried ==
    /\ lpc = "inspect" /\ step = "opened"
    /\ step' = "locked"
    /\ UNCHANGED <<storeVars, opened, shown, listing>>

ListTryLock ==
    /\ lpc = "inspect" /\ step = "opened"
    /\ Share(Lister, opened)
    /\ step' = "locked"
    /\ UNCHANGED <<opened, shown, listing>>

(* An input or output error before the charge, or the first look at the     *)
(* path.  That the second look itself fails is left out.                    *)
ListInspectFails ==
    /\ lpc = "inspect" /\ candidates # <<>> /\ step # "done"
    /\ InspectReturns("Unavailable")
    /\ Unshare(Lister)
    /\ UNCHANGED <<opened, listing>>

(* What the content says, unless the path names another file by now. *)
Report == IF entry[Head(candidates)] = opened THEN view[opened] ELSE "Corrupt"

(* Defect for the mutation runs: the budget is looked at before the size is *)
(* added to it.                                                             *)
ChargeUnchecked ==
    /\ lpc = "inspect" /\ step = "locked"
    /\ used <= limits.read_bytes
    /\ used' = used + size[opened]
    /\ read' = [read EXCEPT ![opened] = @ + size[opened]]
    /\ Unshare(Lister)
    /\ UNCHANGED <<opened, limits, created, lpc, scanning, candidates, summaries,
                   listed, history>>

(* budget.charge: the size counts once the file is locked, before it is     *)
(* read, and whether or not it can be.                                      *)
Charge ==
    /\ lpc = "inspect" /\ step = "locked"
    /\ used + size[opened] <= limits.read_bytes
    /\ used' = used + size[opened]
    /\ read' = [read EXCEPT ![opened] = @ + size[opened]]
    /\ Unshare(Lister)
    /\ UNCHANGED <<opened, limits, created, lpc, scanning, candidates, summaries,
                   listed, history>>

ListInspect == Charge /\ InspectReturns(Report)

(* The bytes cannot be read. *)
ReadFails == Charge /\ InspectReturns("Unavailable")

ReadTooLarge ==
    /\ lpc = "inspect" /\ step = "locked"
    /\ used + size[opened] > limits.read_bytes
    /\ ListReturn("InventoryTooLarge")
    /\ Unshare(Lister)
    /\ UNCHANGED <<inspection, limits, created, scanning, candidates, budget,
                   summaries, history>>

(* The candidate's outcome becomes a summary; a missing file has none. *)
Summarize ==
    /\ lpc = "inspect" /\ step = "done"
    /\ LET time == IF shown \in Projected THEN created[opened] ELSE 0
           summary == [id |-> Head(candidates), status |-> shown, created |-> time]
       IN  summaries' = IF shown = "Missing" THEN summaries ELSE Append(summaries, summary)
    /\ candidates' = Tail(candidates)
    /\ step' = "open"
    /\ UNCHANGED <<storeVars, opened, shown, limits, created, lpc, scanning, budget,
                   listed, history>>

Listed ==
    /\ lpc = "inspect" /\ candidates = <<>>
    /\ summaries' \in Seqs!SetToSeqs(Seqs!ToSet(summaries))
    /\ \A i, j \in DOMAIN summaries' : i < j => Precedes(summaries'[i], summaries'[j])
    /\ ListReturn("Listed")
    /\ UNCHANGED <<storeVars, inspection, limits, created, scanning, candidates,
                   budget, history>>

ListStep ==
    \/ ListStart \/ NoDirectory
    \/ \E i \in Id : ScanPasses(i) \/ Scan(i)
    \/ ScanOther \/ ScanTooLarge \/ ScanEnds
    \/ ListOpen \/ ListBusy \/ ListTryLock \/ ListInspect \/ ReadTooLarge
    \/ Summarize \/ Listed

(* Other readers are left out, since they share every lock the list takes, *)
(* and so is a power loss, which ends the list.                             *)
StoreStep ==
    /\ \/ \E w \in Writer : WriterNext(w)
       \/ \E i \in Id : Remove(i)
    /\ UNCHANGED <<inspection, listing>>

ListNext == ListStep \/ ListFails \/ ListInspectFails \/ ReadFails \/ StoreStep

ListSpec == ListInit /\ [][ListNext]_listVars

-----------------------------------------------------------------------------
(* A list is never partial: every session whose result was acknowledged     *)
(* before the list began is in it, once, with the status and creation time  *)
(* of its own file, unless its name is removed or it cannot be read.        *)
ListIsComplete ==
    listed = "Listed" =>
        /\ \A i, j \in DOMAIN summaries : summaries[i].id = summaries[j].id => i = j
        /\ \A w \in known \ removed :
               \E s \in Seqs!ToSet(summaries) :
                   /\ s.id = id[w]
                   /\ \/ s.status = view[w] /\ s.created = created[w]
                      \/ s.status = "Unavailable"

(* What is listed stays true: a session shown with a status of its own is    *)
(* closed, and its file still has that status and creation time.            *)
ListIsTrue ==
    \A s \in Seqs!ToSet(summaries) : s.status \in Projected =>
        \E w \in Writer :
            /\ id[w] = s.id /\ created[w] = s.created
            /\ view[w] = s.status /\ phase[w] \in {"closed", "gone"}

(* README.md: newest first, and the entries without a trusted time follow   *)
(* in the order of their ids.                                               *)
NewestFirst ==
    listed = "Listed" =>
        \A i, j \in DOMAIN summaries : i < j =>
            LET a == summaries[i]
                b == summaries[j]
            IN  \/ a.status \in Projected /\ b.status \notin Projected
                \/ /\ a.status \in Projected <=> b.status \in Projected
                   /\ \/ a.created > b.created
                      \/ a.created = b.created /\ a.id < b.id

(* The bytes of the files ws, told apart by their places. *)
Bytes(length, ws) == UNION {{w} \X (1 .. length[w]) : w \in ws}

(* The scan takes in no more entries than directory_entries and no more ids *)
(* than candidates.                                                         *)
ScanIsBounded ==
    /\ Len(candidates) <= limits.candidates
    /\ Len(candidates) + (foreign - others) <= limits.directory_entries

(* No more than read_bytes are read, whatever comes of it: a corrupt file   *)
(* counts, and so does one that could not be read.                          *)
ReadIsBounded == Cardinality(Bytes(read, Writer)) <= limits.read_bytes

(* A store is refused as too large only if what it holds while it is listed *)
(* exceeds a limit: names removed before the list began count for nothing.  *)
RefusedOnlyAboveLimits ==
    listed = "InventoryTooLarge" =>
        LET there == Writer \ nameless
            ids == {id[w] : w \in there} \ {None}
        IN  \/ Cardinality(ids) > limits.candidates
            \/ Cardinality(ids) + foreign > limits.directory_entries
            \/ Cardinality(Bytes(size, there)) > limits.read_bytes

(* The three limits hold to the unit: nothing beyond them is scanned or     *)
(* read, nothing within them is refused.                                    *)
LimitsExact == ScanIsBounded /\ ReadIsBounded /\ RefusedOnlyAboveLimits
=============================================================================
