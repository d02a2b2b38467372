----------------------------- MODULE SessionLog -----------------------------
(***************************************************************************)
(* The session store of crates/harness-session-log/src/file.rs: writers    *)
(* that create, finish or roll back one session file each, readers that    *)
(* inspect session files (`session show`, and each candidate of `session   *)
(* list`), a user who removes files by hand, killed processes and power    *)
(* loss.                                                                   *)
(*                                                                         *)
(* A start creates at most one file, so a file is named by its writer; the *)
(* directory maps a session id to the file of that name.  A file's content *)
(* is a number of complete lines, in the order header, user, terminal,     *)
(* with or without a torn line after them.  Directory and contents exist   *)
(* twice, as every process sees them and as they are on disk: losing power *)
(* keeps what is on disk and any part of what was written since.           *)
(***************************************************************************)
EXTENDS Naturals

CONSTANTS
    Writer,         \* calls of SessionLog::start, and the files they create
    Reader,         \* inspections of one session file
    Id,             \* session ids
    None,           \* no file, no id
    CREATE_RETRIES  \* ids a start tries (8 in the code)

ASSUME NoneAssumption == None \notin Writer \cup Id
ASSUME RetryAssumption == CREATE_RETRIES \in Nat \ {0}

VARIABLES
    entry,          \* the sessions directory: the file each id names
    entryOnDisk,    \* the directory as it would be found after a power loss
    directoryOnDisk,\* whether the directory itself would be found
    data,           \* the content of each file
    dataOnDisk,     \* the part of it that is certain to be on disk
    exclusive,      \* files locked by their writer
    shared,         \* the readers that lock each file
    pc,             \* where each writer is
    id,             \* the session id of each writer's file
    tries,          \* ids found taken
    terminal,       \* the terminal record a writer appends
    result,         \* what the writer's last operation returned
    rpc,            \* where each reader is
    opened,         \* the file a reader opened
    asked,          \* the session id a reader inspects
    shown,          \* what a reader reports
    unlinked,       \* history: files whose name was removed
    vanished        \* history: files lost with a directory not yet on disk

directory == <<entry, entryOnDisk, directoryOnDisk>>
contents == <<data, dataOnDisk>>
writers == <<pc, id, tries, terminal, result>>
readers == <<rpc, opened, asked, shown>>
history == <<unlinked, vanished>>
vars == <<directory, contents, exclusive, shared, writers, readers, history>>

-----------------------------------------------------------------------------
Content == [lines : 0 .. 3, torn : BOOLEAN]
Empty == [lines |-> 0, torn |-> FALSE]
WithLine(content) == [lines |-> content.lines + 1, torn |-> FALSE]
Torn(content) == [content EXCEPT !.torn = TRUE]
Length(content) == 2 * content.lines + IF content.torn THEN 1 ELSE 0

Starting == {"lock", "header", "user", "sync", "dirsync"}
Live == Starting \cup {"undo", "open", "flush", "unlink", "unlinksync"}

(* Defect for the mutation runs: the terminal line is looked for one too far. *)
ProjectOffByOne(w) == IF data[w].lines < 2 THEN "Corrupt" ELSE "Interrupted"

(* project: fewer than a header and a user line is corrupt, a torn line is  *)
(* only reported, and the third line decides the status.                    *)
Project(w) ==
    IF data[w].lines < 2 THEN "Corrupt"
    ELSE IF data[w].lines = 2 THEN "Interrupted" ELSE terminal[w]

Init ==
    /\ entry = [i \in Id |-> None]
    /\ entryOnDisk = [i \in Id |-> None]
    /\ directoryOnDisk \in BOOLEAN
    /\ data = [w \in Writer |-> Empty]
    /\ dataOnDisk = [w \in Writer |-> Empty]
    /\ exclusive = {}
    /\ shared = [w \in Writer |-> {}]
    /\ pc = [w \in Writer |-> "idle"]
    /\ id = [w \in Writer |-> None]
    /\ tries = [w \in Writer |-> 0]
    /\ terminal = [w \in Writer |-> "none"]
    /\ result = [w \in Writer |-> "none"]
    /\ rpc = [r \in Reader |-> "idle"]
    /\ opened = [r \in Reader |-> None]
    /\ asked = [r \in Reader |-> None]
    /\ shown = [r \in Reader |-> "none"]
    /\ unlinked = {}
    /\ vanished = {}

(* identity_matches: the path still names the open file, once. *)
IdentityMatches(w) == entry[id[w]] = w

-----------------------------------------------------------------------------
(* The operation of w returns; its file is closed, which drops the lock. *)
Return(w, value) ==
    /\ pc' = [pc EXCEPT ![w] = "done"]
    /\ result' = [result EXCEPT ![w] = value]
    /\ exclusive' = exclusive \ {w}

(* A write of w may fail half-way at the given places. *)
MayTear(w, places) ==
    \/ data' = data
    \/ pc[w] \in places /\ data' = [data EXCEPT ![w] = Torn(@)]

(* remove_file of a path, whichever file it names. *)
RemovePath(i) ==
    /\ entry[i] # None
    /\ entry' = [entry EXCEPT ![i] = None]
    /\ unlinked' = unlinked \cup {entry[i]}

-----------------------------------------------------------------------------
(* Defects for the mutation runs, one per action they replace. *)
SyncDirectorySkipped(w) ==
    /\ pc[w] = "dirsync"
    /\ pc' = [pc EXCEPT ![w] = "open"]
    /\ result' = [result EXCEPT ![w] = "Started"]
    /\ UNCHANGED <<directory, contents, exclusive, shared, id, tries, terminal,
                   readers, history>>

FlushSkipped(w) ==
    /\ pc[w] = "flush"
    /\ Return(w, "Appended")
    /\ UNCHANGED <<directory, contents, shared, id, tries, terminal, readers, history>>

SyncUnlinkSkipped(w) ==
    /\ pc[w] = "unlinksync"
    /\ Return(w, "RolledBack")
    /\ UNCHANGED <<directory, contents, shared, id, tries, terminal, readers, history>>

TryLockIgnored(r) ==
    /\ rpc[r] = "opened"
    /\ shared' = [shared EXCEPT ![opened[r]] = @ \cup {r}]
    /\ rpc' = [rpc EXCEPT ![r] = "locked"]
    /\ UNCHANGED <<directory, contents, exclusive, writers, opened, asked, shown,
                   history>>

IdsTakenTooLate(w) ==
    /\ pc[w] = "idle"
    /\ tries[w] = CREATE_RETRIES
    /\ Return(w, "CreateFailed")
    /\ UNCHANGED <<directory, contents, shared, id, tries, terminal, readers, history>>

InspectKeepsLock(r) ==
    /\ rpc[r] = "locked"
    /\ shown' = [shown EXCEPT ![r] = Project(opened[r])]
    /\ rpc' = [rpc EXCEPT ![r] = "done"]
    /\ UNCHANGED <<directory, contents, exclusive, shared, writers, opened, asked,
                   history>>

-----------------------------------------------------------------------------
(* start_file: create_new under a random id, another one if it is taken. *)
Create(w) ==
    /\ pc[w] = "idle"
    /\ \E i \in Id :
           /\ entry[i] = None
           /\ entry' = [entry EXCEPT ![i] = w]
           /\ id' = [id EXCEPT ![w] = i]
    /\ pc' = [pc EXCEPT ![w] = "lock"]
    /\ UNCHANGED <<entryOnDisk, directoryOnDisk, contents, exclusive, shared, tries,
                   terminal, result, readers, history>>

Retry(w) ==
    /\ pc[w] = "idle"
    /\ \E i \in Id : entry[i] # None
    /\ tries[w] + 1 < CREATE_RETRIES
    /\ tries' = [tries EXCEPT ![w] = @ + 1]
    /\ UNCHANGED <<directory, contents, exclusive, shared, pc, id, terminal, result,
                   readers, history>>

(* Directories or file cannot be made; IdsTaken is a case of its own. *)
CreateFails(w) ==
    /\ pc[w] = "idle"
    /\ Return(w, "CreateFailed")
    /\ UNCHANGED <<directory, contents, shared, id, tries, terminal, readers, history>>

(* The last of the ids is taken as well. *)
IdsTaken(w) ==
    /\ \E i \in Id : entry[i] # None
    /\ tries[w] + 1 = CREATE_RETRIES
    /\ CreateFails(w)

(* FileExt::lock blocks while a reader has the new file open and locked. *)
Lock(w) ==
    /\ pc[w] = "lock"
    /\ shared[w] = {}
    /\ exclusive' = exclusive \cup {w}
    /\ pc' = [pc EXCEPT ![w] = "header"]
    /\ UNCHANGED <<directory, contents, shared, id, tries, terminal, result, readers,
                   history>>

WriteLine(w) ==
    /\ \/ pc[w] = "header" /\ pc' = [pc EXCEPT ![w] = "user"]
       \/ pc[w] = "user" /\ pc' = [pc EXCEPT ![w] = "sync"]
    /\ data' = [data EXCEPT ![w] = WithLine(@)]
    /\ UNCHANGED <<directory, dataOnDisk, exclusive, shared, id, tries, terminal,
                   result, readers, history>>

Sync(w) ==
    /\ pc[w] = "sync"
    /\ dataOnDisk' = [dataOnDisk EXCEPT ![w] = data[w]]
    /\ pc' = [pc EXCEPT ![w] = "dirsync"]
    /\ UNCHANGED <<directory, data, exclusive, shared, id, tries, terminal, result,
                   readers, history>>

(* The directory's content is synced; the directory's own name is not. *)
SyncDirectory(w) ==
    /\ pc[w] = "dirsync"
    /\ entryOnDisk' = entry
    /\ pc' = [pc EXCEPT ![w] = "open"]
    /\ result' = [result EXCEPT ![w] = "Started"]
    /\ UNCHANGED <<entry, directoryOnDisk, contents, exclusive, shared, id, tries,
                   terminal, readers, history>>

(* One of the steps fails, a write perhaps half-way: rollback_created_file  *)
(* compares, closes the file and then removes the path.                     *)
StartFails(w) ==
    /\ pc[w] \in Starting
    /\ exclusive' = exclusive \ {w}
    /\ \/ IdentityMatches(w) /\ pc' = [pc EXCEPT ![w] = "undo"] /\ UNCHANGED result
       \/ ~IdentityMatches(w) /\ Return(w, "CreateFailed")
    /\ MayTear(w, {"header", "user"})
    /\ UNCHANGED <<directory, dataOnDisk, shared, id, tries, terminal, readers,
                   history>>

(* The result of the removal is ignored, and the directory is not synced. *)
Undo(w) ==
    /\ pc[w] = "undo"
    /\ Return(w, "CreateFailed")
    /\ \/ RemovePath(id[w])
       \/ UNCHANGED <<entry, unlinked>>
    /\ UNCHANGED <<entryOnDisk, directoryOnDisk, contents, shared, id, tries,
                   terminal, readers, vanished>>

-----------------------------------------------------------------------------
(* append_assistant and append_failure, up to the write. *)
WriteTerminal(w) ==
    /\ pc[w] = "open"
    /\ IdentityMatches(w)
    /\ \E status \in {"Completed", "Failed"} :
           terminal' = [terminal EXCEPT ![w] = status]
    /\ data' = [data EXCEPT ![w] = WithLine(@)]
    /\ pc' = [pc EXCEPT ![w] = "flush"]
    /\ UNCHANGED <<directory, dataOnDisk, exclusive, shared, id, tries, result,
                   readers, history>>

(* The record cannot be made, the path names another file, the file would   *)
(* be too long, or the write fails, perhaps half-way.                       *)
AppendFails(w) ==
    /\ pc[w] = "open"
    /\ Return(w, "AppendFailed")
    /\ MayTear(w, IF IdentityMatches(w) THEN {"open"} ELSE {})
    /\ UNCHANGED <<directory, dataOnDisk, shared, id, tries, terminal, readers,
                   history>>

(* sync_data *)
Flush(w) ==
    /\ pc[w] = "flush"
    /\ dataOnDisk' = [dataOnDisk EXCEPT ![w] = data[w]]
    /\ Return(w, "Appended")
    /\ UNCHANGED <<directory, data, shared, id, tries, terminal, readers, history>>

FlushFails(w) ==
    /\ pc[w] = "flush"
    /\ Return(w, "AppendFailed")
    /\ UNCHANGED <<directory, contents, shared, id, tries, terminal, readers, history>>

(* SessionWriter::rollback: compare, close, remove, sync the directory. *)
Rollback(w) ==
    /\ pc[w] = "open"
    /\ IdentityMatches(w)
    /\ exclusive' = exclusive \ {w}
    /\ pc' = [pc EXCEPT ![w] = "unlink"]
    /\ UNCHANGED <<directory, contents, shared, id, tries, terminal, result, readers,
                   history>>

Unlink(w) ==
    /\ pc[w] = "unlink"
    /\ RemovePath(id[w])
    /\ pc' = [pc EXCEPT ![w] = "unlinksync"]
    /\ UNCHANGED <<entryOnDisk, directoryOnDisk, contents, exclusive, shared, id,
                   tries, terminal, result, readers, vanished>>

SyncUnlink(w) ==
    /\ pc[w] = "unlinksync"
    /\ entryOnDisk' = entry
    /\ Return(w, "RolledBack")
    /\ UNCHANGED <<entry, directoryOnDisk, contents, shared, id, tries, terminal,
                   readers, history>>

RollbackFails(w) ==
    /\ \/ pc[w] = "open" /\ ~IdentityMatches(w)
       \/ pc[w] \in {"unlink", "unlinksync"}
    /\ Return(w, "RollbackFailed")
    /\ UNCHANGED <<directory, contents, shared, id, tries, terminal, readers, history>>

(* The process is killed, perhaps in the middle of a write. *)
Kill(w) ==
    /\ pc[w] \in Live
    /\ Return(w, "Killed")
    /\ MayTear(w, {"header", "user", "open"})
    /\ UNCHANGED <<directory, dataOnDisk, shared, id, tries, terminal, readers,
                   history>>

-----------------------------------------------------------------------------
(* inspect_file_with_hook.  The shared lock is only tried, and no harness   *)
(* process writes to the file while it is held: size, read and the second   *)
(* identity check are one step.                                             *)
Open(r) ==
    /\ rpc[r] = "idle"
    /\ \E i \in Id :
           /\ asked' = [asked EXCEPT ![r] = i]
           /\ opened' = [opened EXCEPT ![r] = entry[i]]
           /\ \/ /\ entry[i] = None
                 /\ shown' = [shown EXCEPT ![r] = "Missing"]
                 /\ rpc' = [rpc EXCEPT ![r] = "done"]
              \/ /\ entry[i] # None
                 /\ rpc' = [rpc EXCEPT ![r] = "opened"]
                 /\ UNCHANGED shown
    /\ UNCHANGED <<directory, contents, exclusive, shared, writers, history>>

TryLock(r) ==
    /\ rpc[r] = "opened"
    /\ \/ /\ opened[r] \in exclusive
          /\ shown' = [shown EXCEPT ![r] = "Busy"]
          /\ rpc' = [rpc EXCEPT ![r] = "done"]
          /\ UNCHANGED shared
       \/ /\ opened[r] \notin exclusive
          /\ shared' = [shared EXCEPT ![opened[r]] = @ \cup {r}]
          /\ rpc' = [rpc EXCEPT ![r] = "locked"]
          /\ UNCHANGED shown
    /\ UNCHANGED <<directory, contents, exclusive, writers, opened, asked, history>>

Inspect(r) ==
    /\ rpc[r] = "locked"
    /\ shown' = [shown EXCEPT ![r] = IF entry[asked[r]] = opened[r]
                                     THEN Project(opened[r]) ELSE "Corrupt"]
    /\ shared' = [shared EXCEPT ![opened[r]] = @ \ {r}]
    /\ rpc' = [rpc EXCEPT ![r] = "done"]
    /\ UNCHANGED <<directory, contents, exclusive, writers, opened, asked, history>>

(* An input or output error, the first identity check, or a killed reader. *)
InspectFails(r) ==
    /\ rpc[r] \in {"idle", "opened", "locked"}
    /\ shown' = [shown EXCEPT ![r] = "StoreUnavailable"]
    /\ shared' = [w \in Writer |-> shared[w] \ {r}]
    /\ rpc' = [rpc EXCEPT ![r] = "done"]
    /\ UNCHANGED <<directory, contents, exclusive, writers, opened, asked, history>>

-----------------------------------------------------------------------------
(* The user removes a session file by hand (external). *)
Remove(i) ==
    /\ RemovePath(i)
    /\ UNCHANGED <<entryOnDisk, directoryOnDisk, contents, exclusive, shared, writers,
                   readers, vanished>>

(* Power is lost (external).  Contents and names keep what is on disk and   *)
(* any part of what was changed since; a directory that is not on disk may  *)
(* be gone with every name in it, and the one made in its place is again    *)
(* not on disk.                                                             *)
PowerLoss ==
    /\ data' \in [Writer -> Content]
    /\ \A w \in Writer : Length(data'[w]) \in Length(dataOnDisk[w]) .. Length(data[w])
    /\ dataOnDisk' = data'
    /\ \/ /\ entry' \in [Id -> Writer \cup {None}]
          /\ \A i \in Id : entry'[i] \in {entry[i], entryOnDisk[i]}
          /\ directoryOnDisk' = TRUE
          /\ UNCHANGED vanished
       \/ /\ ~directoryOnDisk
          /\ UNCHANGED directoryOnDisk
          /\ entry' = [i \in Id |-> None]
          /\ vanished' = vanished \cup ({entry[i] : i \in Id} \ {None})
    /\ entryOnDisk' = entry'
    /\ exclusive' = {}
    /\ shared' = [w \in Writer |-> {}]
    /\ pc' = [w \in Writer |-> IF pc[w] \in Live THEN "done" ELSE pc[w]]
    /\ result' = [w \in Writer |-> IF pc[w] \in Live THEN "Killed" ELSE result[w]]
    /\ rpc' = [r \in Reader |-> IF rpc[r] = "idle" THEN "idle" ELSE "done"]
    /\ UNCHANGED <<id, tries, terminal, opened, asked, shown, unlinked>>

Look(r) == Open(r) \/ TryLock(r) \/ Inspect(r)

WriterStep(w) ==
    \/ Create(w) \/ Retry(w) \/ CreateFails(w) \/ Lock(w) \/ WriteLine(w)
    \/ Sync(w) \/ SyncDirectory(w) \/ StartFails(w) \/ Undo(w)
    \/ WriteTerminal(w) \/ AppendFails(w) \/ Flush(w) \/ FlushFails(w)
    \/ Rollback(w) \/ Unlink(w) \/ SyncUnlink(w) \/ RollbackFails(w)

ReaderStep(r) == Look(r) \/ InspectFails(r)

Next ==
    \/ \E w \in Writer : WriterStep(w) \/ Kill(w)
    \/ \E r \in Reader : ReaderStep(r)
    \/ \E i \in Id : Remove(i)
    \/ PowerLoss

Spec == Init /\ [][Next]_vars

-----------------------------------------------------------------------------
(* Once start has returned, and so before the model is contacted, the file  *)
(* is found under its id after a power loss and holds the prompt, unless    *)
(* its name was removed or its directory was lost.                          *)
DurableBeforeModel ==
    \A w \in Writer :
        pc[w] \in {"open", "flush"} /\ w \notin unlinked \cup vanished =>
            /\ entry[id[w]] = w /\ entryOnDisk[id[w]] = w
            /\ dataOnDisk[w].lines >= 2

(* An acknowledged append stays: after any later crash or power loss the    *)
(* file has its terminal record under its id, unless its name was removed   *)
(* or its directory was lost.                                               *)
AcknowledgedRemains ==
    \A w \in Writer :
        result[w] = "Appended" /\ w \notin unlinked \cup vanished =>
            /\ entry[id[w]] = w /\ entryOnDisk[id[w]] = w
            /\ data[w].lines = 3 /\ dataOnDisk[w].lines = 3

(* A rolled back session does not come back, not even after a power loss. *)
RolledBackStaysGone ==
    \A w \in Writer : result[w] = "RolledBack" =>
        \A i \in Id : entry[i] # w /\ entryOnDisk[i] # w

(* A reader reports a session's content only when its writer has closed it: *)
(* a session that is still being recorded is busy, never interrupted.       *)
NoUnfinishedView ==
    \A r \in Reader : shown[r] \in {"Interrupted", "Completed", "Failed"} =>
        pc[opened[r]] \in {"undo", "unlink", "unlinksync", "done"}

(* Whoever inspects a file after its append was acknowledged, and finds it  *)
(* under its id, sees the terminal record.                                  *)
AcknowledgedIsShown ==
    [][\A r \in Reader :
           LET w == opened[r] IN
           /\ rpc[r] = "locked" /\ shown'[r] # shown[r]
           /\ result[w] = "Appended" /\ w \notin unlinked \cup vanished
           => shown'[r] \in {terminal[w], "StoreUnavailable"}]_vars

(* SECURITY.md: "concurrent callers must not ... publish partial state": a  *)
(* session that is being created is not reported as corrupt.                *)
NoPartialState ==
    \A r \in Reader : shown[r] = "Corrupt" => pc[opened[r]] \notin Starting

(* README.md: "Session files remain until you manually remove them." *)
SessionsRemain ==
    \A w \in Writer :
        result[w] = "Appended" /\ w \notin unlinked => entry[id[w]] = w

(* The store as those who inspect it see it. *)
Phase(w) ==
    CASE pc[w] = "idle" -> "idle"
      [] pc[w] = "lock" -> "created"
      [] pc[w] \in {"header", "user", "sync", "dirsync", "open", "flush"} -> "open"
      [] OTHER -> IF result[w] = "RolledBack" THEN "gone" ELSE "closed"

Store == INSTANCE SessionStore WITH
             Terminal <- {"Completed", "Failed"},
             Sizes <- 0 .. 7,
             phase <- [w \in Writer |-> Phase(w)],
             view <- [w \in Writer |-> Project(w)],
             size <- [w \in Writer |-> Length(data[w])],
             locked <- exclusive,
             acknowledged <- {w \in Writer : result[w] = "Appended"},
             removed <- unlinked \cup vanished,
             young <- ~directoryOnDisk

(* The files, locks and syncs of the code implement the store others rely   *)
(* on: closed content stays, and what was acknowledged survives.            *)
ImplementsStore == Store!StoreSpec
=============================================================================
