--------------------------- MODULE SessionLogProofs ---------------------------
(***************************************************************************)
(* Proofs of the safety properties of SessionLog for every set of writers, *)
(* readers and ids, and of its refinement of SessionStore.                 *)
(*                                                                         *)
(* The properties are not inductive by themselves.  LogInv, which is, has  *)
(* four parts, each proved from the ones before it: LogTypeOK, FileInv     *)
(* (what a writer has put into its file, by where it is), NameInv (which   *)
(* names lead to a file, now and after a power loss) and ReaderInv (what   *)
(* the shared lock of a reader means to the writer).                       *)
(***************************************************************************)
EXTENDS SessionLog, TLAPS

Locked == {"header", "user", "sync", "dirsync", "open", "flush"}
Outcome == {"none", "Started", "CreateFailed", "Appended", "AppendFailed",
            "RolledBack", "RollbackFailed", "Killed"}
Report == {"none", "Missing", "Busy", "Corrupt", "Interrupted", "Completed",
           "Failed", "StoreUnavailable"}

LogTypeOK ==
    /\ entry \in [Id -> Writer \cup {None}]
    /\ entryOnDisk \in [Id -> Writer \cup {None}]
    /\ directoryOnDisk \in BOOLEAN
    /\ data \in [Writer -> Content]
    /\ dataOnDisk \in [Writer -> Content]
    /\ exclusive \subseteq Writer
    /\ shared \in [Writer -> SUBSET Reader]
    /\ pc \in [Writer -> Live \cup {"idle", "done"}]
    /\ id \in [Writer -> Id \cup {None}]
    /\ tries \in [Writer -> Nat]
    /\ terminal \in [Writer -> {"none", "Completed", "Failed"}]
    /\ result \in [Writer -> Outcome]
    /\ rpc \in [Reader -> {"idle", "opened", "locked", "done"}]
    /\ opened \in [Reader -> Writer \cup {None}]
    /\ asked \in [Reader -> Id \cup {None}]
    /\ shown \in [Reader -> Report]
    /\ unlinked \subseteq Writer
    /\ vanished \subseteq Writer

-----------------------------------------------------------------------------
(* Where a writer is tells what is in its file.  Whole lines only, until an *)
(* operation fails or the process dies.                                     *)
Lines(w, n) == data[w].lines = n /\ data[w].torn = FALSE

FileContent(w) ==
    /\ pc[w] \in {"idle", "lock", "header"} => Lines(w, 0)
    /\ pc[w] = "user" => Lines(w, 1)
    /\ pc[w] \in {"sync", "dirsync", "open", "unlink", "unlinksync"} => Lines(w, 2)
    /\ pc[w] = "flush" => Lines(w, 3)
    /\ pc[w] = "undo" => data[w].lines <= 2
    /\ data[w].lines = 3 => terminal[w] \in {"Completed", "Failed"}

(* What is certain to be on disk is a part of the content, the header and   *)
(* the prompt from the first sync on, all of it once it is acknowledged.    *)
FileOnDisk(w) ==
    /\ Length(dataOnDisk[w]) <= Length(data[w])
    /\ pc[w] \in {"dirsync", "open", "flush", "unlink", "unlinksync"} =>
           dataOnDisk[w].lines = 2 /\ dataOnDisk[w].torn = FALSE
    /\ result[w] = "Appended" => Lines(w, 3) /\ dataOnDisk[w] = data[w]
    /\ result[w] = "AppendFailed" => dataOnDisk[w].lines >= 2

(* The lock is held from the lock call to the end of the operation, and the *)
(* result tells how far the writer has come.                                *)
FileStatus(w) ==
    /\ w \in exclusive <=> pc[w] \in Locked
    /\ pc[w] \in {"idle", "undo"} \cup Starting <=> result[w] = "none"
    /\ pc[w] \in {"open", "flush", "unlink", "unlinksync"} <=> result[w] = "Started"
    /\ pc[w] \in Live => id[w] \in Id

FileInv == \A w \in Writer : FileContent(w) /\ FileOnDisk(w) /\ FileStatus(w)

-----------------------------------------------------------------------------
(* A name leads to the file that was created under it.                      *)
NamesAreTrue ==
    \A i \in Id, w \in Writer :
        entry[i] = w \/ entryOnDisk[i] = w => id[w] = i /\ pc[w] # "idle"

(* A session keeps its name while its writer lives and once its append has  *)
(* returned, and the name is on disk as soon as the directory was synced.   *)
NamesAreKept ==
    \A w \in Writer : w \notin unlinked \cup vanished =>
        /\ pc[w] \in Starting \cup {"open", "flush"} => entry[id[w]] = w
        /\ pc[w] \in {"open", "flush"} => entryOnDisk[id[w]] = w
        /\ result[w] \in {"Appended", "AppendFailed"} =>
               id[w] \in Id /\ entry[id[w]] = w /\ entryOnDisk[id[w]] = w

(* Unlink removes the only name of a file, SyncUnlink its copy on disk. *)
NamesAreGone ==
    \A w \in Writer, i \in Id :
        /\ pc[w] = "unlinksync" => entry[i] # w
        /\ result[w] = "RolledBack" => entry[i] # w /\ entryOnDisk[i] # w

NameInv == NamesAreTrue /\ NamesAreKept /\ NamesAreGone

-----------------------------------------------------------------------------
(* A reader that holds its shared lock looks at a file that was created     *)
(* under the id it asked for, and that no writer has locked.                *)
ReaderHasFile(r) ==
    /\ rpc[r] \in {"opened", "locked"} =>
           /\ opened[r] \in Writer /\ asked[r] = id[opened[r]]
           /\ asked[r] \in Id /\ pc[opened[r]] # "idle"
    /\ rpc[r] = "locked" => r \in shared[opened[r]]
    /\ \A w \in Writer : r \in shared[w] =>
           rpc[r] = "locked" /\ opened[r] = w /\ pc[w] \notin Locked

(* What a reader has reported of a content stays final. *)
ReportIsFinal(r) ==
    /\ rpc[r] # "done" => shown[r] = "none"
    /\ shown[r] \in {"Interrupted", "Completed", "Failed"} =>
           opened[r] \in Writer /\ pc[opened[r]] \in {"undo", "unlink", "unlinksync", "done"}

ReaderInv == \A r \in Reader : ReaderHasFile(r) /\ ReportIsFinal(r)

LogInv == LogTypeOK /\ FileInv /\ NameInv /\ ReaderInv

-----------------------------------------------------------------------------

LEMMA LogTypeInit == Init => LogTypeOK
BY DEF Init, LogTypeOK, Content, Empty, Outcome, Report

LEMMA WithLineType ==
    ASSUME NEW content \in Content, content.lines < 3
    PROVE  WithLine(content) \in Content
BY DEF Content, WithLine

LEMMA TornType ==
    ASSUME NEW content \in Content
    PROVE  Torn(content) \in Content
BY DEF Content, Torn

(* A torn write adds no whole line, and only to the file that is written. *)
LEMMA TearKeepsLines ==
    ASSUME NEW w \in Writer, NEW places, data \in [Writer -> Content], MayTear(w, places)
    PROVE  /\ data' \in [Writer -> Content]
           /\ \A v \in Writer :
                  /\ data'[v].lines = data[v].lines
                  /\ data'[v] = data[v] \/ (v = w /\ pc[w] \in places)
                  /\ Length(data[v]) <= Length(data'[v])
<1>1. CASE data' = data
  BY <1>1 DEF Content, Length
<1>2. CASE pc[w] \in places /\ data' = [data EXCEPT ![w] = Torn(@)]
  BY <1>2, TornType DEF Torn, Content, Length
<1> QED
  BY <1>1, <1>2 DEF MayTear

LEMMA LogTypeWriter ==
    ASSUME LogInv, NEW w \in Writer, WriterStep(w) \/ Kill(w)
    PROVE  LogTypeOK'
<1> USE DEF LogInv, LogTypeOK, FileInv, FileContent, Lines, Live, Starting, Outcome, Return,
            RemovePath,
            directory, contents, writers, readers, history
<1>1. CASE Create(w)
  BY <1>1 DEF Create
<1>2. CASE Retry(w)
  BY <1>2 DEF Retry
<1>3. CASE CreateFails(w)
  BY <1>3 DEF CreateFails
<1>4. CASE Lock(w)
  BY <1>4 DEF Lock
<1>5. CASE WriteLine(w)
  BY <1>5, WithLineType DEF WriteLine
<1>6. CASE Sync(w)
  BY <1>6 DEF Sync
<1>7. CASE SyncDirectory(w)
  BY <1>7 DEF SyncDirectory
<1>8. CASE StartFails(w)
  BY <1>8, TearKeepsLines DEF StartFails
<1>9. CASE Undo(w)
  BY <1>9 DEF Undo, FileStatus
<1>10. CASE WriteTerminal(w)
  BY <1>10, WithLineType DEF WriteTerminal
<1>11. CASE AppendFails(w)
  BY <1>11, TearKeepsLines DEF AppendFails
<1>12. CASE Flush(w)
  BY <1>12 DEF Flush
<1>13. CASE FlushFails(w)
  BY <1>13 DEF FlushFails
<1>14. CASE Rollback(w)
  BY <1>14 DEF Rollback
<1>15. CASE Unlink(w)
  BY <1>15 DEF Unlink, FileStatus
<1>16. CASE SyncUnlink(w)
  BY <1>16 DEF SyncUnlink
<1>17. CASE RollbackFails(w)
  BY <1>17 DEF RollbackFails
<1>18. CASE Kill(w)
  BY <1>18, TearKeepsLines DEF Kill
<1> QED
  BY <1>1, <1>2, <1>3, <1>4, <1>5, <1>6, <1>7, <1>8, <1>9, <1>10, <1>11, <1>12,
     <1>13, <1>14, <1>15, <1>16, <1>17, <1>18 DEF WriterStep

LEMMA LogTypeOthers ==
    ASSUME LogInv, \/ \E r \in Reader : ReaderStep(r)
                   \/ \E i \in Id : Remove(i)
                   \/ PowerLoss
                   \/ UNCHANGED vars
    PROVE  LogTypeOK'
<1> USE DEF LogInv, LogTypeOK, Outcome, directory, contents, writers, readers, history
<1>1. ASSUME NEW r \in Reader, Open(r) PROVE LogTypeOK'
  BY <1>1 DEF Open, Report
<1>2. ASSUME NEW r \in Reader, TryLock(r) PROVE LogTypeOK'
  BY <1>2 DEF TryLock, Report
<1>3. ASSUME NEW r \in Reader, Inspect(r) PROVE LogTypeOK'
  <2>1. shown' \in [Reader -> Report]
    BY <1>3 DEF Inspect, Project, Report, ReaderInv, ReaderHasFile
  <2> QED
    BY <1>3, <2>1 DEF Inspect
<1>4. ASSUME NEW r \in Reader, InspectFails(r) PROVE LogTypeOK'
  BY <1>4 DEF InspectFails, Report
<1>5. ASSUME NEW i \in Id, Remove(i) PROVE LogTypeOK'
  BY <1>5 DEF Remove, RemovePath
<1>6. CASE PowerLoss
  <2>1. directoryOnDisk' \in BOOLEAN
    BY <1>6 DEF PowerLoss
  <2>2. /\ entry' \in [Id -> Writer \cup {None}] /\ entryOnDisk' = entry'
        /\ vanished' \subseteq Writer
    BY <1>6 DEF PowerLoss
  <2>3. /\ pc' = [w \in Writer |-> IF pc[w] \in Live THEN "done" ELSE pc[w]]
        /\ result' = [w \in Writer |-> IF pc[w] \in Live THEN "Killed" ELSE result[w]]
        /\ rpc' = [r \in Reader |-> IF rpc[r] = "idle" THEN "idle" ELSE "done"]
        /\ data' \in [Writer -> Content] /\ dataOnDisk' = data'
        /\ exclusive' = {} /\ shared' = [w \in Writer |-> {}]
        /\ UNCHANGED <<id, tries, terminal, opened, asked, shown, unlinked>>
    BY <1>6 DEF PowerLoss
  <2> QED
    BY <2>1, <2>2, <2>3 DEF Live, Starting
<1>7. CASE UNCHANGED vars
  BY <1>7 DEF vars
<1> QED
  BY <1>1, <1>2, <1>3, <1>4, <1>5, <1>6, <1>7 DEF ReaderStep, Look

-----------------------------------------------------------------------------

LEMMA FileInit == Init => FileInv
<1> SUFFICES ASSUME Init, NEW w \in Writer
             PROVE  FileContent(w) /\ FileOnDisk(w) /\ FileStatus(w)
  BY DEF FileInv
<1> QED
  BY DEF Init, FileContent, FileOnDisk, FileStatus, Lines, Empty, Length, Locked, Starting, Live

LEMMA FileWriter ==
    ASSUME LogInv, NEW w \in Writer, WriterStep(w) \/ Kill(w)
    PROVE  FileInv'
<1> SUFFICES ASSUME NEW v \in Writer
             PROVE  FileContent(v)' /\ FileOnDisk(v)' /\ FileStatus(v)'
  BY DEF FileInv
<1> DEFINE Tears == /\ data'[v].lines = data[v].lines
                    /\ data'[v] = data[v] \/ v = w
                    /\ Length(data[v]) <= Length(data'[v])
<1>a. ASSUME NEW places, MayTear(w, places)
      PROVE  Tears
  BY <1>a, TearKeepsLines DEF LogInv, LogTypeOK
<1> USE DEF LogInv, LogTypeOK, FileInv, FileContent, FileOnDisk, FileStatus, Lines, Length,
            Content, Locked, Live, Starting, Outcome, Return,
            directory, contents, writers, readers, history
<1>1. CASE Create(w)
  BY <1>1 DEF Create
<1>2. CASE Retry(w)
  BY <1>2 DEF Retry
<1>3. CASE CreateFails(w)
  BY <1>3 DEF CreateFails
<1>4. CASE Lock(w)
  BY <1>4 DEF Lock
<1>5. CASE WriteLine(w)
  BY <1>5 DEF WriteLine, WithLine
<1>6. CASE Sync(w)
  BY <1>6 DEF Sync
<1>7. CASE SyncDirectory(w)
  BY <1>7 DEF SyncDirectory
<1>8. CASE StartFails(w)
  <2>1. Tears
    <3>1. \E places : MayTear(w, places)
      BY <1>8 DEF StartFails
    <3> QED
      BY <3>1, <1>a
  <2>2. FileContent(v)' /\ FileStatus(v)'
    BY <1>8, <2>1 DEF StartFails
  <2>3. FileOnDisk(v)'
    BY <1>8, <2>1 DEF StartFails
  <2> QED
    BY <2>2, <2>3
<1>9. CASE Undo(w)
  BY <1>9 DEF Undo
<1>10. CASE WriteTerminal(w)
  BY <1>10 DEF WriteTerminal, WithLine
<1>11. CASE AppendFails(w)
  <2>1. PICK places : MayTear(w, places)
    BY <1>11 DEF AppendFails
  <2>2. Tears
    BY <2>1, <1>a
  <2> QED
    BY <1>11, <2>2 DEF AppendFails
<1>12. CASE Flush(w)
  BY <1>12 DEF Flush
<1>13. CASE FlushFails(w)
  BY <1>13 DEF FlushFails
<1>14. CASE Rollback(w)
  BY <1>14 DEF Rollback
<1>15. CASE Unlink(w)
  BY <1>15 DEF Unlink
<1>16. CASE SyncUnlink(w)
  BY <1>16 DEF SyncUnlink
<1>17. CASE RollbackFails(w)
  BY <1>17 DEF RollbackFails
<1>18. CASE Kill(w)
  <2>1. Tears
    <3>1. \E places : MayTear(w, places)
      BY <1>18 DEF Kill
    <3> QED
      BY <3>1, <1>a
  <2> QED
    BY <1>18, <2>1 DEF Kill
<1> QED
  BY <1>1, <1>2, <1>3, <1>4, <1>5, <1>6, <1>7, <1>8, <1>9, <1>10, <1>11, <1>12,
     <1>13, <1>14, <1>15, <1>16, <1>17, <1>18 DEF WriterStep

LEMMA FileOthers ==
    ASSUME LogInv, \/ \E r \in Reader : ReaderStep(r)
                   \/ \E i \in Id : Remove(i)
                   \/ UNCHANGED vars
    PROVE  FileInv'
<1>1. UNCHANGED <<data, dataOnDisk, exclusive, pc, id, terminal, result>>
  BY DEF ReaderStep, Look, Open, TryLock, Inspect, InspectFails, Remove, vars,
         contents, writers
<1> QED
  BY <1>1 DEF LogInv, FileInv, FileContent, FileOnDisk, FileStatus, Lines

(* What a power loss leaves of a content that was on disk is that content. *)
LEMMA LengthIsContent ==
    ASSUME NEW a \in Content, NEW b \in Content
    PROVE  /\ Length(a) \in 0 .. 7
           /\ Length(a) = Length(b) => a = b
           /\ Length(a) <= Length(b) => a.lines <= b.lines
           /\ a.lines \in 0 .. 3
<1> QED
  BY DEF Length, Content

LEMMA FilePowerLoss ==
    ASSUME LogInv, PowerLoss
    PROVE  FileInv'
<1> SUFFICES ASSUME NEW w \in Writer
             PROVE  FileContent(w)' /\ FileOnDisk(w)' /\ FileStatus(w)'
  BY DEF FileInv
<1>1. data'[w] \in Content /\ data[w] \in Content /\ dataOnDisk[w] \in Content
  BY DEF LogInv, LogTypeOK, PowerLoss
<1>2. Length(dataOnDisk[w]) <= Length(data'[w]) /\ Length(data'[w]) <= Length(data[w])
  BY <1>1 DEF PowerLoss, Length, Content
<1>3. data'[w].lines <= data[w].lines
  BY <1>1, <1>2, LengthIsContent
<1>4. pc'[w] = (IF pc[w] \in Live THEN "done" ELSE pc[w])
      /\ result'[w] = (IF pc[w] \in Live THEN "Killed" ELSE result[w])
  BY DEF PowerLoss
<1>5. FileContent(w)'
  BY <1>1, <1>2, <1>3, <1>4
     DEF LogInv, FileInv, FileContent, Lines, PowerLoss, Live, Starting, Content, Length
<1>6. FileOnDisk(w)'
  BY <1>1, <1>2, <1>3, <1>4, LengthIsContent
     DEF LogInv, FileInv, FileOnDisk, Lines, PowerLoss, Live, Starting, Content
<1>7. FileStatus(w)'
  BY <1>1, <1>4
     DEF LogInv, LogTypeOK, FileInv, FileStatus, PowerLoss, Live, Starting, Locked
<1> QED
  BY <1>5, <1>6, <1>7

-----------------------------------------------------------------------------

LEMMA NameInit == Init => NameInv
BY NoneAssumption DEF Init, NameInv, NamesAreTrue, NamesAreKept, NamesAreGone, Starting

(* The steps that bring no writer to a place where a name is owed to it, or *)
(* to be gone.                                                              *)
OwesNothing ==
    /\ UNCHANGED id
    /\ \A v \in Writer :
           /\ pc'[v] \in Starting => pc[v] \in Starting
           /\ pc'[v] \in {"open", "flush"} => pc[v] \in {"open", "flush"}
           /\ pc'[v] = "idle" => pc[v] = "idle"
           /\ result'[v] \in {"Appended", "AppendFailed"} =>
                  result[v] \in {"Appended", "AppendFailed"} \/ pc[v] \in {"open", "flush"}
           /\ result'[v] = "RolledBack" => result[v] = "RolledBack"

(* Most of them leave every name where it is, too. *)
KeepsNames ==
    /\ OwesNothing
    /\ UNCHANGED <<entry, entryOnDisk, unlinked, vanished>>
    /\ \A v \in Writer : pc'[v] = "unlinksync" => pc[v] = "unlinksync"

LEMMA NameKept ==
    ASSUME LogInv, KeepsNames
    PROVE  NameInv'
<1> USE DEF LogInv, FileInv, FileStatus, NameInv, KeepsNames, OwesNothing
<1>1. NamesAreTrue'
  BY DEF NamesAreTrue
<1>2. NamesAreKept'
  BY DEF NamesAreKept, Live
<1>3. NamesAreGone'
  BY DEF NamesAreGone
<1> QED
  BY <1>1, <1>2, <1>3

(* A path is removed, by the user, by a rollback or by a failed start. *)
LEMMA NameRemoved ==
    ASSUME LogInv, OwesNothing, NEW i \in Id, RemovePath(i),
           UNCHANGED <<entryOnDisk, vanished>>,
           \A v \in Writer : pc'[v] = "unlinksync" => pc[v] = "unlinksync" \/ id[v] = i
    PROVE  NameInv'
<1> USE NoneAssumption
    DEF LogInv, LogTypeOK, FileInv, FileStatus, NameInv, OwesNothing, RemovePath
<1>1. NamesAreTrue'
  BY DEF NamesAreTrue
<1>2. NamesAreKept'
  BY DEF NamesAreKept, NamesAreTrue, Live
<1>3. NamesAreGone'
  BY DEF NamesAreGone, NamesAreTrue
<1> QED
  BY <1>1, <1>2, <1>3

LEMMA NameWriter ==
    ASSUME LogInv, NEW w \in Writer, WriterStep(w) \/ Kill(w)
    PROVE  NameInv'
<1> USE DEF LogInv, LogTypeOK, Live, Starting, Return, directory, contents, writers, history
<1>1. CASE Create(w)
  <2>1. PICK i \in Id : /\ entry[i] = None
                        /\ entry' = [entry EXCEPT ![i] = w]
                        /\ id' = [id EXCEPT ![w] = i]
    BY <1>1 DEF Create
  <2>2. pc[w] = "idle" /\ w \notin {entry[j] : j \in Id} \cup {entryOnDisk[j] : j \in Id}
    BY <1>1 DEF Create, NameInv, NamesAreTrue
  <2>3. NamesAreTrue'
    BY <1>1, <2>1, <2>2, NoneAssumption DEF Create, NameInv, NamesAreTrue
  <2>4. NamesAreKept'
    BY <1>1, <2>1, <2>2, NoneAssumption DEF Create, NameInv, NamesAreKept, FileInv, FileStatus
  <2>5. NamesAreGone'
    BY <1>1, <2>1, <2>2 DEF Create, NameInv, NamesAreGone, FileInv, FileStatus
  <2> QED
    BY <2>3, <2>4, <2>5 DEF NameInv
<1>2. CASE SyncDirectory(w)
  <2> USE <1>2 DEF SyncDirectory, NameInv
  <2>1. NamesAreTrue'
    BY DEF NamesAreTrue
  <2>2. NamesAreKept'
    BY DEF NamesAreKept
  <2>3. NamesAreGone'
    BY DEF NamesAreGone
  <2> QED
    BY <2>1, <2>2, <2>3
<1>3. CASE Undo(w)
  <2>1. OwesNothing /\ id[w] \in Id /\ UNCHANGED <<entryOnDisk, vanished>>
        /\ \A v \in Writer : pc'[v] = "unlinksync" => pc[v] = "unlinksync"
    BY <1>3 DEF Undo, OwesNothing, FileInv, FileStatus
  <2>2. CASE RemovePath(id[w])
    BY <2>1, <2>2, NameRemoved
  <2>3. CASE UNCHANGED <<entry, unlinked>>
    BY <2>1, <2>3, NameKept DEF KeepsNames
  <2> QED
    BY <1>3, <2>2, <2>3 DEF Undo
<1>4. CASE Unlink(w)
  <2>1. OwesNothing /\ id[w] \in Id
    BY <1>4 DEF Unlink, OwesNothing, FileInv, FileStatus
  <2> QED
    BY <1>4, <2>1, NameRemoved DEF Unlink
<1>5. CASE SyncUnlink(w)
  <2> USE <1>5 DEF SyncUnlink, NameInv
  <2>1. NamesAreTrue'
    BY DEF NamesAreTrue
  <2>2. NamesAreKept'
    BY DEF NamesAreKept
  <2>3. NamesAreGone'
    BY DEF NamesAreGone
  <2> QED
    BY <2>1, <2>2, <2>3
<1>6. CASE \/ Retry(w) \/ CreateFails(w) \/ Lock(w) \/ WriteLine(w) \/ Sync(w)
           \/ StartFails(w) \/ WriteTerminal(w) \/ AppendFails(w) \/ Flush(w)
           \/ FlushFails(w) \/ Rollback(w) \/ RollbackFails(w) \/ Kill(w)
  <2>1. KeepsNames
    BY <1>6 DEF KeepsNames, OwesNothing, Retry, CreateFails, Lock, WriteLine, Sync,
                StartFails, WriteTerminal, AppendFails, Flush, FlushFails, Rollback,
                RollbackFails, Kill
  <2> QED
    BY <2>1, NameKept
<1> QED
  BY <1>1, <1>2, <1>3, <1>4, <1>5, <1>6 DEF WriterStep

LEMMA NameOthers ==
    ASSUME LogInv, \/ \E r \in Reader : ReaderStep(r)
                   \/ \E i \in Id : Remove(i)
                   \/ UNCHANGED vars
    PROVE  NameInv'
<1>1. CASE \E i \in Id : Remove(i)
  <2>1. PICK i \in Id : Remove(i)
    BY <1>1
  <2>2. OwesNothing /\ UNCHANGED pc
    BY <2>1 DEF Remove, OwesNothing, writers
  <2> QED
    BY <2>1, <2>2, NameRemoved DEF Remove
<1>2. CASE (\E r \in Reader : ReaderStep(r)) \/ UNCHANGED vars
  <2>1. KeepsNames
    BY <1>2 DEF ReaderStep, Look, Open, TryLock, Inspect, InspectFails, vars, KeepsNames,
                OwesNothing, directory, writers, history
  <2> QED
    BY <2>1, NameKept
<1> QED
  BY <1>1, <1>2

LEMMA NamePowerLoss ==
    ASSUME LogInv, PowerLoss
    PROVE  NameInv'
<1> USE DEF LogInv, LogTypeOK, NameInv
<1>1. /\ UNCHANGED <<id, unlinked>> /\ entryOnDisk' = entry'
      /\ \A w \in Writer :
             /\ pc'[w] = IF pc[w] \in Live THEN "done" ELSE pc[w]
             /\ result'[w] = IF pc[w] \in Live THEN "Killed" ELSE result[w]
  BY DEF PowerLoss
<1>2. CASE (\A i \in Id : entry'[i] \in {entry[i], entryOnDisk[i]}) /\ UNCHANGED vanished
  <2>1. NamesAreTrue'
    BY <1>1, <1>2 DEF NamesAreTrue
  <2>2. NamesAreKept'
    BY <1>1, <1>2 DEF NamesAreKept, Live, Starting
  <2>3. NamesAreGone'
    BY <1>1, <1>2 DEF NamesAreGone, Live
  <2> QED
    BY <2>1, <2>2, <2>3
<1>3. CASE /\ entry' = [i \in Id |-> None]
           /\ vanished' = vanished \cup ({entry[i] : i \in Id} \ {None})
  <2>1. NamesAreTrue' /\ NamesAreGone'
    BY <1>1, <1>3, NoneAssumption DEF NamesAreTrue, NamesAreGone
  <2>2. NamesAreKept'
    BY <1>1, <1>3, NoneAssumption DEF NamesAreKept, Live, Starting
  <2> QED
    BY <2>1, <2>2
<1> QED
  BY <1>2, <1>3 DEF PowerLoss

-----------------------------------------------------------------------------

LEMMA ReaderInit == Init => ReaderInv
BY DEF Init, ReaderInv, ReaderHasFile, ReportIsFinal

(* A writer's step, as far as readers see it: no reader has a lock that the *)
(* writer takes, and what is final stays so.                                *)
LEMMA ReaderWriter ==
    ASSUME LogInv, NEW w \in Writer, WriterStep(w) \/ Kill(w)
    PROVE  ReaderInv'
<1>1. UNCHANGED <<rpc, opened, asked, shown, shared>>
  BY DEF WriterStep, Create, Retry, CreateFails, Lock, WriteLine, Sync, SyncDirectory,
         StartFails, Undo, WriteTerminal, AppendFails, Flush, FlushFails, Rollback, Unlink,
         SyncUnlink, RollbackFails, Kill, readers
<1>2. \A v \in Writer :
          /\ v # w => pc'[v] = pc[v]
          /\ pc[v] # "idle" => pc'[v] # "idle" /\ id'[v] = id[v]
          /\ pc'[v] \in Locked => pc[v] \in Locked \/ shared[v] = {}
          /\ pc[v] \in {"undo", "unlink", "unlinksync", "done"} =>
                 pc'[v] \in {"undo", "unlink", "unlinksync", "done"}
  BY DEF LogInv, LogTypeOK, Locked, Return, writers, WriterStep, Create, Retry, CreateFails,
         Lock, WriteLine, Sync, SyncDirectory, StartFails, Undo, WriteTerminal, AppendFails,
         Flush, FlushFails, Rollback, Unlink, SyncUnlink, RollbackFails, Kill, Live, Starting
<1>3. ASSUME NEW r \in Reader
      PROVE  ReaderHasFile(r)' /\ ReportIsFinal(r)'
  <2>1. ReaderHasFile(r)'
    BY <1>1, <1>2 DEF LogInv, ReaderInv, ReaderHasFile
  <2>2. ReportIsFinal(r)'
    BY <1>1, <1>2 DEF LogInv, ReaderInv, ReportIsFinal
  <2> QED
    BY <2>1, <2>2
<1> QED
  BY <1>3 DEF ReaderInv

LEMMA ReaderReader ==
    ASSUME LogInv, NEW r \in Reader, ReaderStep(r)
    PROVE  ReaderInv'
<1> SUFFICES ASSUME NEW q \in Reader
             PROVE  ReaderHasFile(q)' /\ ReportIsFinal(q)'
  BY DEF ReaderInv
<1> USE DEF LogInv, LogTypeOK, ReaderInv, ReaderHasFile, ReportIsFinal, directory, writers
<1>1. CASE Open(r)
  <2>1. PICK i \in Id : /\ asked' = [asked EXCEPT ![r] = i]
                        /\ opened' = [opened EXCEPT ![r] = entry[i]]
                        /\ \/ /\ entry[i] = None
                              /\ shown' = [shown EXCEPT ![r] = "Missing"]
                              /\ rpc' = [rpc EXCEPT ![r] = "done"]
                           \/ /\ entry[i] # None
                              /\ rpc' = [rpc EXCEPT ![r] = "opened"]
                              /\ UNCHANGED shown
    BY <1>1 DEF Open
  <2>2. entry[i] # None => entry[i] \in Writer /\ id[entry[i]] = i /\ pc[entry[i]] # "idle"
    BY DEF NameInv, NamesAreTrue
  <2> QED
    BY <1>1, <2>1, <2>2 DEF Open
<1>2. CASE TryLock(r)
  BY <1>2 DEF TryLock, FileInv, FileStatus
<1>3. CASE Inspect(r)
  <2>1. opened[r] \in Writer /\ pc[opened[r]] \notin Locked \cup {"idle"}
    BY <1>3 DEF Inspect
  <2>2. Project(opened[r]) \in {"Interrupted", "Completed", "Failed"} =>
            pc[opened[r]] \in {"undo", "unlink", "unlinksync", "done"}
    BY <2>1 DEF Project, Locked, Live, Starting, FileInv, FileContent, Lines
  <2>3. UNCHANGED <<pc, id, opened, asked>>
    BY <1>3 DEF Inspect
  <2>4. ReaderHasFile(q)'
    BY <1>3, <2>1, <2>3 DEF Inspect
  <2>5. ReportIsFinal(q)'
    BY <1>3, <2>1, <2>2, <2>3 DEF Inspect
  <2> QED
    BY <2>4, <2>5
<1>4. CASE InspectFails(r)
  BY <1>4 DEF InspectFails
<1> QED
  BY <1>1, <1>2, <1>3, <1>4 DEF ReaderStep, Look

LEMMA ReaderOthers ==
    ASSUME LogInv, (\E i \in Id : Remove(i)) \/ PowerLoss \/ UNCHANGED vars
    PROVE  ReaderInv'
<1> SUFFICES ASSUME NEW r \in Reader
             PROVE  ReaderHasFile(r)' /\ ReportIsFinal(r)'
  BY DEF ReaderInv
<1> USE DEF LogInv, LogTypeOK, ReaderInv, ReaderHasFile, ReportIsFinal
<1>1. CASE (\E i \in Id : Remove(i)) \/ UNCHANGED vars
  BY <1>1 DEF Remove, vars, writers, readers
<1>2. CASE PowerLoss
  BY <1>2 DEF PowerLoss, Live, Starting
<1> QED
  BY <1>1, <1>2

-----------------------------------------------------------------------------
(* The inductive invariant, for every set of writers, readers and ids.      *)
THEOREM LogInvariant == Spec => []LogInv
<1>1. Init => LogInv
  BY LogTypeInit, FileInit, NameInit, ReaderInit DEF LogInv
<1>2. LogInv /\ [Next]_vars => LogInv'
  <2> SUFFICES ASSUME LogInv, [Next]_vars
               PROVE  LogInv'
    OBVIOUS
  <2>1. ASSUME NEW w \in Writer, WriterStep(w) \/ Kill(w)
        PROVE  LogInv'
    BY <2>1, LogTypeWriter, FileWriter, NameWriter, ReaderWriter DEF LogInv
  <2>2. ASSUME NEW r \in Reader, ReaderStep(r)
        PROVE  LogInv'
    BY <2>2, LogTypeOthers, FileOthers, NameOthers, ReaderReader DEF LogInv
  <2>3. CASE (\E i \in Id : Remove(i)) \/ UNCHANGED vars
    BY <2>3, LogTypeOthers, FileOthers, NameOthers, ReaderOthers DEF LogInv
  <2>4. CASE PowerLoss
    BY <2>4, LogTypeOthers, FilePowerLoss, NamePowerLoss, ReaderOthers DEF LogInv
  <2> QED
    BY <2>1, <2>2, <2>3, <2>4 DEF Next
<1> QED
  BY <1>1, <1>2, PTL DEF Spec

(* start has synced the file and the directory before it returns, so what   *)
(* the model is asked about is on disk under its id.                        *)
THEOREM PromptIsDurable == Spec => []DurableBeforeModel
<1>1. LogInv => DurableBeforeModel
  BY DEF LogInv, FileInv, FileOnDisk, NameInv, NamesAreKept, DurableBeforeModel
<1> QED
  BY <1>1, LogInvariant, PTL

(* An acknowledged append survives every crash and power loss.              *)
THEOREM AppendIsKept == Spec => []AcknowledgedRemains
<1>1. LogInv => AcknowledgedRemains
  BY DEF LogInv, FileInv, FileOnDisk, Lines, NameInv, NamesAreKept, AcknowledgedRemains
<1> QED
  BY <1>1, LogInvariant, PTL

(* A session that was rolled back has no name left, on disk neither.        *)
THEOREM RollbackIsFinal == Spec => []RolledBackStaysGone
<1>1. LogInv => RolledBackStaysGone
  BY DEF LogInv, NameInv, NamesAreGone, RolledBackStaysGone
<1> QED
  BY <1>1, LogInvariant, PTL

(* A reader reports content of closed files only: the two locks exclude     *)
(* each other.                                                              *)
THEOREM ViewsAreFinished == Spec => []NoUnfinishedView
<1>1. LogInv => NoUnfinishedView
  BY DEF LogInv, ReaderInv, ReportIsFinal, NoUnfinishedView
<1> QED
  BY <1>1, LogInvariant, PTL

(* Whoever inspects an acknowledged session under its id sees its terminal  *)
(* record: the file was complete before the reader could lock it.           *)
THEOREM AcknowledgedViews == Spec => AcknowledgedIsShown
<1>1. ASSUME LogInv, [Next]_vars
      PROVE  [\A r \in Reader :
                 LET w == opened[r] IN
                 /\ rpc[r] = "locked" /\ shown'[r] # shown[r]
                 /\ result[w] = "Appended" /\ w \notin unlinked \cup vanished
                 => shown'[r] \in {terminal[w], "StoreUnavailable"}]_vars
  <2> SUFFICES ASSUME NEW r \in Reader, Next, rpc[r] = "locked", shown'[r] # shown[r],
                      result[opened[r]] = "Appended", opened[r] \notin unlinked \cup vanished
               PROVE  shown'[r] \in {terminal[opened[r]], "StoreUnavailable"}
    BY <1>1
  <2>1. PICK q \in Reader : ReaderStep(q)
    BY DEF Next, WriterStep, Create, Retry, CreateFails, Lock, WriteLine, Sync, SyncDirectory,
           StartFails, Undo, WriteTerminal, AppendFails, Flush, FlushFails, Rollback, Unlink,
           SyncUnlink, RollbackFails, Kill, Remove, PowerLoss, readers
  <2>2. opened[r] \in Writer /\ entry[asked[r]] = opened[r] /\ data[opened[r]].lines = 3
    BY <1>1 DEF LogInv, ReaderInv, ReaderHasFile, NameInv, NamesAreKept, FileInv,
                FileOnDisk, Lines
  <2>3. CASE Inspect(q)
    BY <1>1, <2>2, <2>3 DEF Inspect, Project, LogInv, LogTypeOK
  <2>4. CASE InspectFails(q)
    BY <1>1, <2>4 DEF InspectFails, LogInv, LogTypeOK
  <2>5. CASE Open(q) \/ TryLock(q)
    BY <1>1, <2>5 DEF Open, TryLock, LogInv, LogTypeOK
  <2> QED
    BY <2>1, <2>3, <2>4, <2>5 DEF ReaderStep, Look
<1> QED
  BY <1>1, LogInvariant, PTL DEF Spec, AcknowledgedIsShown

-----------------------------------------------------------------------------
(***************************************************************************)
(* SessionLog implements SessionStore, for every set of writers, readers   *)
(* and ids: every step of the files, locks and syncs of the code is a step *)
(* of the store that SessionList relies on, or changes nothing in it.      *)
(***************************************************************************)
Finished == {"Completed", "Failed"}

(* What the store sees of one session. *)
Seen(w) == <<Phase(w), Project(w), Length(data[w]), result[w] = "Appended">>

(* What it can see, which is all that is needed of Phase, Project, Length.  *)
SeenOK(w) ==
    /\ Phase(w) \in {"idle", "created", "open", "closed", "gone"}
    /\ Phase(w) = "idle" <=> pc[w] = "idle"
    /\ Phase(w) = "created" <=> pc[w] = "lock"
    /\ Phase(w) = "open" <=> pc[w] \in Locked
    /\ Phase(w) = "gone" <=> result[w] = "RolledBack"
    /\ Project(w) \in {"Corrupt", "Interrupted"} \cup Finished
    /\ Project(w) = "Corrupt" <=> data[w].lines < 2
    /\ Project(w) = "Interrupted" <=> data[w].lines = 2
    /\ Project(w) \in Finished <=> data[w].lines = 3
    /\ Length(data[w]) \in 0 .. 7

SeenInv == \A w \in Writer : SeenOK(w)

LEMMA SeenIsOK == LogInv => SeenInv
<1> SUFFICES ASSUME LogInv, NEW w \in Writer PROVE SeenOK(w)
  BY DEF SeenInv
<1>1. data[w] \in Content
  BY DEF LogInv, LogTypeOK
<1>2. Length(data[w]) \in 0 .. 7 /\ data[w].lines \in 0 .. 3
  BY <1>1, LengthIsContent
<1>3. /\ Project(w) \in {"Corrupt", "Interrupted"} \cup Finished
      /\ Project(w) = "Corrupt" <=> data[w].lines < 2
      /\ Project(w) = "Interrupted" <=> data[w].lines = 2
      /\ Project(w) \in Finished <=> data[w].lines = 3
  BY <1>2 DEF Project, Finished, LogInv, FileInv, FileContent
<1>4. pc[w] \in Live \cup {"idle", "done"} /\ (result[w] = "RolledBack" => pc[w] = "done")
  BY DEF LogInv, LogTypeOK, FileInv, FileStatus, Live, Starting
<1>5. /\ Phase(w) \in {"idle", "created", "open", "closed", "gone"}
      /\ Phase(w) = "idle" <=> pc[w] = "idle"
      /\ Phase(w) = "created" <=> pc[w] = "lock"
      /\ Phase(w) = "open" <=> pc[w] \in Locked
      /\ Phase(w) = "gone" <=> result[w] = "RolledBack"
  BY <1>4 DEF Phase, Live, Starting, Locked
<1> QED
  BY <1>2, <1>3, <1>5 DEF SeenOK

-----------------------------------------------------------------------------
LEMMA StoreInitially == Init => Store!StoreInit
<1> SUFFICES ASSUME Init PROVE Store!StoreInit
  OBVIOUS
<1>1. \A w \in Writer : data[w].lines = 0 /\ data[w].torn = FALSE /\ pc[w] = "idle"
  BY DEF Init, Empty
<1>2. ASSUME NEW w \in Writer
      PROVE  Phase(w) = "idle" /\ Project(w) = "Corrupt" /\ Length(data[w]) = 0
  BY <1>1 DEF Phase, Project, Length
<1>3. {w \in Writer : result[w] = "Appended"} = {}
  BY DEF Init
<1> QED
  BY <1>2, <1>3 DEF Init, Store!StoreInit

-----------------------------------------------------------------------------
(* The store's variables that are not variables here. *)
phases == [w \in Writer |-> Phase(w)]
views == [w \in Writer |-> Project(w)]
sizes == [w \in Writer |-> Length(data[w])]
acked == {w \in Writer : result[w] = "Appended"}

(* A step that concerns the session of w alone. *)
OnlySeen(w) ==
    /\ \A v \in Writer \ {w} : Seen(v)' = Seen(v)
    /\ UNCHANGED <<shared, vanished, directoryOnDisk>>

LEMMA SeenMaps ==
    ASSUME NEW w \in Writer, OnlySeen(w)
    PROVE  /\ phases' = [phases EXCEPT ![w] = Phase(w)']
           /\ views' = [views EXCEPT ![w] = Project(w)']
           /\ sizes' = [sizes EXCEPT ![w] = Length(data[w])']
           /\ (result'[w] = "Appended" <=> result[w] = "Appended") => acked' = acked
           /\ result'[w] = "Appended" => acked' = acked \cup {w}
           /\ Phase(w)' = Phase(w) => phases' = phases
           /\ Project(w)' = Project(w) => views' = views
           /\ Length(data[w])' = Length(data[w]) => sizes' = sizes
<1> USE DEF OnlySeen, Seen
<1>1. /\ phases' = [phases EXCEPT ![w] = Phase(w)']
      /\ Phase(w)' = Phase(w) => phases' = phases
  BY DEF phases
<1>2. /\ views' = [views EXCEPT ![w] = Project(w)']
      /\ Project(w)' = Project(w) => views' = views
  BY DEF views
<1>3. /\ sizes' = [sizes EXCEPT ![w] = Length(data[w])']
      /\ Length(data[w])' = Length(data[w]) => sizes' = sizes
  BY DEF sizes
<1>4. /\ (result'[w] = "Appended" <=> result[w] = "Appended") => acked' = acked
      /\ result'[w] = "Appended" => acked' = acked \cup {w}
  BY DEF acked
<1> QED
  BY <1>1, <1>2, <1>3, <1>4

NoName == UNCHANGED <<entry, id, unlinked>>

(* The writer stops writing, with or without a torn line. *)
LEMMA StoreCloses ==
    ASSUME LogInv, SeenInv, SeenInv', NEW w \in Writer, OnlySeen(w), NoName,
           pc[w] \in Locked \cup {"idle", "lock"}, pc'[w] \notin Locked \cup {"idle", "lock"},
           result'[w] \notin {"Appended", "RolledBack"},
           exclusive' = exclusive \ {w}, Project(w)' = Project(w),
           \/ Length(data[w])' = Length(data[w])
           \/ pc[w] \in Locked /\ Length(data[w]) < Length(data[w])'
    PROVE  Store!Close(w)
<1>1. Phase(w) \in {"idle", "created", "open"} /\ Phase(w)' = "closed"
  BY DEF SeenInv, SeenOK
<1>2. Length(data[w])' \in 0 .. 7 /\ Length(data[w]) \in 0 .. 7
  BY DEF SeenInv, SeenOK
<1>3. result[w] # "Appended"
  BY DEF LogInv, FileInv, FileStatus, Locked, Live, Starting
<1>4. phases[w] \in {"idle", "created", "open"} /\ phases' = [phases EXCEPT ![w] = "closed"]
  BY <1>1, SeenMaps DEF phases
<1>5. UNCHANGED <<views, acked, unlinked \cup vanished, ~directoryOnDisk>>
  BY <1>3, SeenMaps DEF OnlySeen, NoName
<1>6. \E s \in 0 .. 7 :
          /\ s = sizes[w] \/ (phases[w] = "open" /\ s > sizes[w])
          /\ sizes' = [sizes EXCEPT ![w] = s]
  <2>1. sizes[w] = Length(data[w]) /\ sizes' = [sizes EXCEPT ![w] = Length(data[w])']
    BY SeenMaps DEF sizes
  <2>2. pc[w] \in Locked => phases[w] = "open"
    BY DEF SeenInv, SeenOK, phases
  <2> QED
    BY <1>2, <2>1, <2>2
<1> QED
  BY <1>4, <1>5, <1>6
     DEF Store!Close, phases, views, sizes, acked, OnlySeen, NoName

LEMMA WriterIsAlone ==
    ASSUME LogInv, NEW w \in Writer, WriterStep(w) \/ Kill(w)
    PROVE  OnlySeen(w)
<1>1. UNCHANGED <<shared, vanished, directoryOnDisk>>
  BY DEF WriterStep, Create, Retry, CreateFails, Lock, WriteLine, Sync, SyncDirectory,
         StartFails, Undo, WriteTerminal, AppendFails, Flush, FlushFails, Rollback, Unlink,
         SyncUnlink, RollbackFails, Kill, directory, history
<1>2. ASSUME NEW v \in Writer \ {w}
      PROVE  /\ pc'[v] = pc[v] /\ result'[v] = result[v]
             /\ data'[v] = data[v] /\ terminal'[v] = terminal[v]
  BY DEF LogInv, LogTypeOK, WriterStep, Create, Retry, CreateFails, Lock, WriteLine, Sync,
         SyncDirectory, StartFails, Undo, WriteTerminal, AppendFails, Flush, FlushFails,
         Rollback, Unlink, SyncUnlink, RollbackFails, Kill, MayTear, Return, contents, writers
<1>3. ASSUME NEW v \in Writer \ {w}
      PROVE  Seen(v)' = Seen(v)
  BY <1>2 DEF Seen, Phase, Project
<1> QED
  BY <1>1, <1>3 DEF OnlySeen

LEMMA WriterEnds ==
    ASSUME LogInv, SeenInv, SeenInv', NEW w \in Writer,
           \/ CreateFails(w) \/ StartFails(w) \/ AppendFails(w) \/ FlushFails(w)
           \/ Rollback(w) \/ (RollbackFails(w) /\ pc[w] = "open")
           \/ (Kill(w) /\ pc[w] \in Locked \cup {"lock"})
    PROVE  Store!Close(w)
<1>1. OnlySeen(w) /\ NoName /\ exclusive' = exclusive \ {w}
  BY WriterIsAlone
     DEF WriterStep, NoName, CreateFails, StartFails, AppendFails, FlushFails, Rollback,
         RollbackFails, Kill, Return, directory, writers, history
<1>2. /\ pc[w] \in Locked \cup {"idle", "lock"}
      /\ pc'[w] \notin Locked \cup {"idle", "lock"}
      /\ result'[w] \notin {"Appended", "RolledBack"}
  BY DEF LogInv, LogTypeOK, FileInv, FileStatus, Locked, Live, Starting, CreateFails,
         StartFails, AppendFails, FlushFails, Rollback, RollbackFails, Kill, Return
<1>3. /\ Project(w)' = Project(w)
      /\ \/ Length(data[w])' = Length(data[w])
         \/ pc[w] \in Locked /\ Length(data[w]) < Length(data[w])'
  <2>1. terminal' = terminal
    BY DEF CreateFails, StartFails, AppendFails, FlushFails, Rollback, RollbackFails, Kill,
           writers
  <2>2. data' = data \/ \E places \in SUBSET Locked : MayTear(w, places)
    BY DEF CreateFails, StartFails, AppendFails, FlushFails, Rollback, RollbackFails, Kill,
           contents, Locked
  <2>3. CASE data' = data
    BY <2>1, <2>3 DEF Project
  <2>4. ASSUME NEW places \in SUBSET Locked, MayTear(w, places)
        PROVE  <1>3!:
    <3>1. data \in [Writer -> Content]
      BY DEF LogInv, LogTypeOK
    <3>2. /\ data' \in [Writer -> Content]
          /\ data'[w].lines = data[w].lines
          /\ data'[w] = data[w] \/ pc[w] \in places
          /\ Length(data[w]) <= Length(data'[w])
      BY <2>4, <3>1, TearKeepsLines
    <3>3. Length(data[w]) \in 0 .. 7 /\ Length(data'[w]) \in 0 .. 7
      BY <3>1, <3>2, LengthIsContent
    <3> QED
      BY <2>1, <3>2, <3>3 DEF Project
  <2> QED
    BY <2>2, <2>3, <2>4
<1> QED
  BY <1>1, <1>2, <1>3, StoreCloses
(* A whole line more: the header, the prompt or the terminal record. *)
LEMMA WriterWrites ==
    ASSUME LogInv, SeenInv, SeenInv', NEW w \in Writer, WriteLine(w) \/ WriteTerminal(w)
    PROVE  Store!Write(w)
<1>1. OnlySeen(w) /\ NoName /\ exclusive' = exclusive
  BY WriterIsAlone
     DEF WriterStep, NoName, WriteLine, WriteTerminal, directory, writers, history
<1>2. /\ pc[w] \in Locked /\ pc'[w] \in Locked
      /\ result[w] # "Appended" /\ result' = result
  BY DEF LogInv, LogTypeOK, FileInv, FileStatus, Locked, Live, Starting, WriteLine,
         WriteTerminal
<1>3. /\ data'[w].lines = data[w].lines + 1 /\ data'[w].torn = FALSE
      /\ data[w].torn = FALSE /\ data[w].lines \in 0 .. 2
  BY DEF LogInv, LogTypeOK, FileInv, FileContent, Lines, WithLine, WriteLine, WriteTerminal
<1>4. Length(data[w])' \in 0 .. 7 /\ Length(data[w])' > Length(data[w])
  BY <1>3 DEF Length, SeenInv, SeenOK
<1>5. /\ Project(w)' \in {"Corrupt", "Interrupted"} \cup Finished
      /\ Project(w)' = "Corrupt" => Project(w) = "Corrupt"
      /\ Project(w)' \in Finished => Project(w) = "Interrupted"
      /\ Project(w) \notin Finished
  BY <1>3 DEF SeenInv, SeenOK, Finished
<1>6. phases[w] = "open" /\ phases' = phases /\ acked' = acked
  BY <1>1, <1>2, SeenMaps DEF phases, SeenInv, SeenOK
<1>7. /\ views[w] = Project(w) /\ views' = [views EXCEPT ![w] = Project(w)']
      /\ sizes[w] = Length(data[w]) /\ sizes' = [sizes EXCEPT ![w] = Length(data[w])']
  BY <1>1, SeenMaps DEF views, sizes
<1>8. \E s \in 0 .. 7 : s > sizes[w] /\ sizes' = [sizes EXCEPT ![w] = s]
  BY <1>4, <1>7
<1>9. \E v \in Store!View :
          /\ v = "Corrupt" => views[w] = "Corrupt"
          /\ v \in {"Completed", "Failed"} => views[w] = "Interrupted"
          /\ views' = [views EXCEPT ![w] = v]
  BY <1>5, <1>7 DEF Store!View, Finished
<1>10. views[w] \notin {"Completed", "Failed"}
  BY <1>5, <1>7 DEF Finished
<1>11. UNCHANGED <<entry, id, phases, exclusive, shared, acked, unlinked \cup vanished,
                  ~directoryOnDisk>>
  BY <1>1, <1>6 DEF OnlySeen, NoName
<1> QED
  BY <1>6, <1>8, <1>9, <1>10, <1>11 DEF Store!Write, phases, views, sizes, acked

LEMMA WriterCreates ==
    ASSUME LogInv, SeenInv, SeenInv', NEW w \in Writer, Create(w)
    PROVE  Store!Create(w)
<1>1. OnlySeen(w)
  BY WriterIsAlone DEF WriterStep
<1>2. /\ data' = data /\ terminal' = terminal /\ result' = result
      /\ pc[w] = "idle" /\ pc'[w] = "lock"
  BY DEF LogInv, LogTypeOK, Create, contents
<1>3. phases[w] = "idle" /\ phases' = [phases EXCEPT ![w] = "created"]
  BY <1>1, <1>2, SeenMaps DEF phases, SeenInv, SeenOK
<1>4. UNCHANGED <<views, sizes, acked>>
  BY <1>1, <1>2, SeenMaps DEF Project
<1>5. \E i \in Id :
          /\ entry[i] = None
          /\ entry' = [entry EXCEPT ![i] = w]
          /\ id' = [id EXCEPT ![w] = i]
  BY DEF Create
<1>6. UNCHANGED <<views, sizes, exclusive, shared, acked, unlinked \cup vanished,
                  ~directoryOnDisk>>
  BY <1>1, <1>4 DEF Create, OnlySeen, history
<1> QED
  BY <1>3, <1>5, <1>6 DEF Store!Create, phases, views, sizes, acked

LEMMA WriterLocks ==
    ASSUME LogInv, SeenInv, SeenInv', NEW w \in Writer, Lock(w)
    PROVE  Store!Lock(w)
<1>1. OnlySeen(w)
  BY WriterIsAlone DEF WriterStep
<1>2. /\ data' = data /\ terminal' = terminal /\ result' = result
      /\ pc[w] = "lock" /\ pc'[w] \in Locked
  BY DEF LogInv, LogTypeOK, Lock, contents, Locked
<1>3. phases[w] = "created" /\ phases' = [phases EXCEPT ![w] = "open"]
  BY <1>1, <1>2, SeenMaps DEF phases, SeenInv, SeenOK
<1>4. UNCHANGED <<views, sizes, acked>>
  BY <1>1, <1>2, SeenMaps DEF Project
<1> QED
  BY <1>1, <1>3, <1>4
     DEF Store!Lock, Lock, phases, views, sizes, acked, directory, history, OnlySeen

(* The flush acknowledges the terminal record. *)
LEMMA WriterAcknowledges ==
    ASSUME LogInv, SeenInv, SeenInv', NEW w \in Writer, Flush(w)
    PROVE  Store!Acknowledge(w)
<1>1. OnlySeen(w)
  BY WriterIsAlone DEF WriterStep
<1>2. /\ data' = data /\ terminal' = terminal /\ result'[w] = "Appended"
      /\ pc[w] = "flush" /\ pc'[w] = "done" /\ data[w].lines = 3
  BY DEF LogInv, LogTypeOK, FileInv, FileContent, Lines, Flush, Return
<1>3. phases[w] = "open" /\ phases' = [phases EXCEPT ![w] = "closed"]
  BY <1>1, <1>2, SeenMaps DEF phases, SeenInv, SeenOK, Locked
<1>4. UNCHANGED <<views, sizes>> /\ acked' = acked \cup {w} /\ views[w] \in Finished
  BY <1>1, <1>2, SeenMaps DEF Project, SeenInv, SeenOK, views
<1> QED
  BY <1>1, <1>3, <1>4
     DEF Store!Acknowledge, Flush, Return, Finished, phases, views, sizes, acked, directory,
         history, OnlySeen

(* The name and its copy on disk are gone before the rollback returns. *)
LEMMA WriterRollsBack ==
    ASSUME LogInv, SeenInv, SeenInv', NEW w \in Writer, SyncUnlink(w)
    PROVE  Store!RollBack(w)
<1>1. OnlySeen(w)
  BY WriterIsAlone DEF WriterStep
<1>2. /\ data' = data /\ terminal' = terminal /\ result'[w] = "RolledBack"
      /\ pc[w] = "unlinksync" /\ pc'[w] = "done" /\ result[w] = "Started"
  BY DEF LogInv, LogTypeOK, FileInv, FileStatus, SyncUnlink, Return, contents
<1>3. phases[w] = "closed" /\ phases' = [phases EXCEPT ![w] = "gone"]
  BY <1>1, <1>2, SeenMaps DEF phases, SeenInv, SeenOK, Locked
<1>4. UNCHANGED <<views, sizes, acked>> /\ w \notin acked
  BY <1>1, <1>2, SeenMaps DEF Project, acked
<1>5. \A i \in Id : entry[i] # w
  BY <1>2 DEF LogInv, NameInv, NamesAreGone
<1>6. exclusive' = exclusive
  BY <1>2 DEF SyncUnlink, Return, LogInv, FileInv, FileStatus, Locked
<1> QED
  BY <1>1, <1>3, <1>4, <1>5, <1>6
     DEF Store!RollBack, SyncUnlink, phases, views, sizes, acked, directory, history,
         OnlySeen
(* A name is removed: by a rollback, by a start that failed, by the user.   *)
LEMMA StoreRemoves ==
    ASSUME NEW i \in Id, RemovePath(i), UNCHANGED <<phases, views, sizes, acked>>,
           UNCHANGED <<id, exclusive, shared, vanished, directoryOnDisk>>
    PROVE  Store!Remove(i)
<1>1. (unlinked \cup vanished)' = (unlinked \cup vanished) \cup {entry[i]}
  BY DEF RemovePath
<1> QED
  BY <1>1 DEF Store!Remove, Store!files, RemovePath, phases, views, sizes, acked

LEMMA StoreStutters ==
    ASSUME UNCHANGED <<phases, views, sizes, acked>>, NoName,
           UNCHANGED <<exclusive, shared, vanished, directoryOnDisk>>
    PROVE  UNCHANGED Store!storeVars
BY DEF Store!storeVars, Store!files, NoName, phases, views, sizes, acked

LEMMA WriterRefines ==
    ASSUME LogInv, SeenInv, SeenInv', NEW w \in Writer, WriterStep(w) \/ Kill(w)
    PROVE  Store!StoreNext \/ UNCHANGED Store!storeVars
<1>1. CASE \/ Create(w) \/ Lock(w) \/ WriteLine(w) \/ WriteTerminal(w) \/ Flush(w)
           \/ SyncUnlink(w)
  BY <1>1, WriterCreates, WriterLocks, WriterWrites, WriterAcknowledges, WriterRollsBack
     DEF Store!StoreNext, Store!WriterNext
<1>2. CASE \/ CreateFails(w) \/ StartFails(w) \/ AppendFails(w) \/ FlushFails(w)
           \/ Rollback(w) \/ (RollbackFails(w) /\ pc[w] = "open")
           \/ (Kill(w) /\ pc[w] \in Locked \cup {"lock"})
  BY <1>2, WriterEnds DEF Store!StoreNext, Store!WriterNext
<1>3. CASE \/ Retry(w) \/ Sync(w) \/ SyncDirectory(w) \/ Undo(w) \/ Unlink(w)
           \/ (RollbackFails(w) /\ pc[w] # "open")
           \/ (Kill(w) /\ pc[w] \notin Locked \cup {"lock"})
  <2>1. OnlySeen(w)
    BY WriterIsAlone
  <2>2. /\ data' = data /\ terminal' = terminal /\ UNCHANGED <<id, exclusive>>
        /\ result'[w] = "Appended" <=> result[w] = "Appended"
        /\ result'[w] = "RolledBack" <=> result[w] = "RolledBack"
        /\ \/ pc[w] = "idle" /\ pc'[w] = "idle"
           \/ pc[w] \in Locked /\ pc'[w] \in Locked
           \/ /\ pc[w] \notin Locked \cup {"idle", "lock"}
              /\ pc'[w] \notin Locked \cup {"idle", "lock"}
    <3> USE DEF LogInv, LogTypeOK, FileInv, FileStatus, Return, Locked, Starting, contents,
                writers
    <3>1. CASE Retry(w)
      BY <3>1 DEF Retry
    <3>2. CASE Undo(w)
      <4>1. /\ w \notin exclusive
            /\ result \in [Writer -> Outcome] /\ pc \in [Writer -> Live \cup {"idle", "done"}]
            /\ result[w] = "none"
        BY <3>2 DEF Undo
      <4> QED
        BY ONLY <3>2, <4>1, w \in Writer
           DEF Undo, Return, Locked, contents, writers
    <3>3. CASE Unlink(w)
      BY <3>3 DEF Unlink
    <3>4. CASE Sync(w)
      BY <3>4 DEF Sync
    <3>5. CASE SyncDirectory(w)
      BY <3>5 DEF SyncDirectory
    <3>6. CASE RollbackFails(w) /\ pc[w] # "open"
      BY <3>6 DEF RollbackFails
    <3>7. CASE Kill(w) /\ pc[w] \notin Locked \cup {"lock"}
      BY <3>7 DEF Kill, MayTear, Live
    <3> QED
      BY <1>3, <3>1, <3>2, <3>3, <3>4, <3>5, <3>6, <3>7
  <2>3. Phase(w)' = Phase(w)
    BY <2>2 DEF Phase, Locked
  <2>4. UNCHANGED <<phases, views, sizes, acked>>
    BY <2>1, <2>2, <2>3, SeenMaps DEF Project
  <2>5. CASE RemovePath(id[w]) /\ pc[w] \in Live
    <3>1. id[w] \in Id
      BY <2>5 DEF LogInv, FileInv, FileStatus
    <3>2. Store!Remove(id[w])
      BY <2>1, <2>2, <2>4, <2>5, <3>1, StoreRemoves DEF OnlySeen
    <3> QED
      BY <3>1, <3>2 DEF Store!StoreNext
  <2>6. CASE UNCHANGED <<entry, unlinked>>
    BY <2>1, <2>2, <2>4, <2>6, StoreStutters DEF OnlySeen, NoName
  <2> QED
    BY <1>3, <2>5, <2>6
       DEF Retry, Sync, SyncDirectory, Undo, Unlink, RollbackFails, Kill, Live, directory,
           history
<1> QED
  BY <1>1, <1>2, <1>3 DEF WriterStep

(* A reader takes or gives back its shared lock, or only looks. *)
LEMMA ReaderRefines ==
    ASSUME LogInv, SeenInv, NEW r \in Reader, ReaderStep(r)
    PROVE  Store!StoreNext \/ UNCHANGED Store!storeVars
<1>1. UNCHANGED <<pc, result, data, terminal, exclusive, vanished, directoryOnDisk>> /\ NoName
  BY DEF ReaderStep, Look, Open, TryLock, Inspect, InspectFails, directory, contents, writers,
         history, NoName
<1>2. UNCHANGED <<phases, views, sizes, acked>>
  BY <1>1 DEF phases, views, sizes, acked, Phase, Project
<1>3. CASE shared' = shared
  BY <1>1, <1>2, <1>3, StoreStutters
<1>4. CASE TryLock(r) /\ shared' # shared
  <2>1. /\ opened[r] \in Writer /\ opened[r] \notin exclusive /\ pc[opened[r]] # "idle"
        /\ shared' = [shared EXCEPT ![opened[r]] = @ \cup {r}]
    BY <1>4 DEF TryLock, LogInv, ReaderInv, ReaderHasFile
  <2>2. phases[opened[r]] # "idle"
    BY <2>1 DEF phases, SeenInv, SeenOK
  <2>3. Store!Share(r, opened[r])
    BY <1>1, <1>2, <2>1, <2>2 DEF Store!Share, Store!files, NoName, phases, views, sizes, acked
  <2> QED
    BY <2>1, <2>3 DEF Store!StoreNext
<1>5. CASE Inspect(r) \/ InspectFails(r)
  <2>1. shared' = [w \in Writer |-> shared[w] \ {r}]
    <3>1. CASE Inspect(r)
      <4>1. \A w \in Writer : r \in shared[w] => w = opened[r]
        BY DEF LogInv, ReaderInv, ReaderHasFile
      <4> QED
        BY <3>1, <4>1 DEF Inspect, LogInv, LogTypeOK
    <3>2. CASE InspectFails(r)
      BY <3>2 DEF InspectFails
    <3> QED
      BY <1>5, <3>1, <3>2
  <2>2. Store!Unshare(r)
    BY <1>1, <1>2, <2>1 DEF Store!Unshare, Store!files, NoName, phases, views, sizes, acked
  <2> QED
    BY <2>2 DEF Store!StoreNext
<1>6. Open(r) => shared' = shared
  BY DEF Open
<1> QED
  BY <1>3, <1>4, <1>5, <1>6 DEF ReaderStep, Look

LEMMA RemoveRefines ==
    ASSUME NEW i \in Id, Remove(i)
    PROVE  Store!StoreNext
<1>1. UNCHANGED <<pc, id, result, data, terminal, exclusive, shared, vanished, directoryOnDisk>>
  BY DEF Remove, contents, writers
<1>2. UNCHANGED <<phases, views, sizes, acked>>
  BY <1>1 DEF phases, views, sizes, acked, Phase, Project
<1>3. Store!Remove(i)
  BY <1>1, <1>2, StoreRemoves DEF Remove
<1> QED
  BY <1>3 DEF Store!StoreNext

(* Losing power ends every writer.  An acknowledged session keeps its whole *)
(* content; another one keeps a part, and may look corrupt or interrupted.  *)
LEMMA PowerLossRefines ==
    ASSUME LogInv, SeenInv, SeenInv', PowerLoss
    PROVE  Store!PowerLoss
<1>1. ASSUME NEW w \in Writer
      PROVE  /\ pc'[w] = IF pc[w] \in Live THEN "done" ELSE pc[w]
             /\ result'[w] = IF pc[w] \in Live THEN "Killed" ELSE result[w]
             /\ result'[w] = "Appended" <=> result[w] = "Appended"
             /\ result'[w] = "RolledBack" <=> result[w] = "RolledBack"
  BY DEF PowerLoss, LogInv, LogTypeOK, FileInv, FileStatus, Live, Starting
<1>2. ASSUME NEW w \in Writer
      PROVE  /\ data'[w] \in Content /\ data[w] \in Content /\ dataOnDisk[w] \in Content
             /\ Length(dataOnDisk[w]) <= Length(data'[w])
             /\ Length(data'[w]) <= Length(data[w])
             /\ data'[w].lines <= data[w].lines
  <2>1. data'[w] \in Content /\ data[w] \in Content /\ dataOnDisk[w] \in Content
    BY DEF PowerLoss, LogInv, LogTypeOK
  <2>2. Length(dataOnDisk[w]) <= Length(data'[w]) /\ Length(data'[w]) <= Length(data[w])
    BY <2>1, LengthIsContent DEF PowerLoss
  <2> QED
    BY <2>1, <2>2, LengthIsContent
<1>3. phases' = [w \in Writer |-> IF phases[w] \in {"created", "open"} THEN "closed"
                                  ELSE phases[w]]
  <2>1. ASSUME NEW w \in Writer
        PROVE  Phase(w)' = IF Phase(w) \in {"created", "open"} THEN "closed" ELSE Phase(w)
    BY <1>1 DEF Phase, Live, Starting, LogInv, LogTypeOK, FileInv, FileStatus
  <2> QED
    BY <2>1 DEF phases
<1>4. acked' = acked
  BY <1>1 DEF acked
<1>5. views' \in [Writer -> Store!View] /\ sizes' \in [Writer -> 0 .. 7]
  BY DEF views, sizes, SeenInv, SeenOK, Store!View, Finished
<1>6. ASSUME NEW w \in Writer
      PROVE  /\ sizes'[w] <= sizes[w]
             /\ \/ views'[w] \in {views[w], "Corrupt"}
                \/ views[w] \in {"Completed", "Failed"} /\ views'[w] = "Interrupted"
  <2>1. sizes'[w] <= sizes[w]
    BY <1>2 DEF sizes
  <2>2. terminal' = terminal
    BY DEF PowerLoss
  <2>3. data'[w].lines \in 0 .. 3 /\ data[w].lines \in 0 .. 3
    BY <1>2 DEF Content
  <2>4. \/ Project(w)' \in {Project(w), "Corrupt"}
        \/ data[w].lines = 3 /\ Project(w)' = "Interrupted"
    BY <1>2, <2>2, <2>3 DEF Project
  <2>5. data[w].lines = 3 => Project(w) \in {"Completed", "Failed"}
    BY DEF SeenInv, SeenOK, Finished
  <2> QED
    BY <2>1, <2>4, <2>5 DEF views
<1>7. ASSUME NEW w \in acked \ (unlinked \cup vanished)
      PROVE  /\ views'[w] = views[w] /\ sizes'[w] = sizes[w]
             /\ id[w] \in Id /\ entry[id[w]] = w /\ entryOnDisk[id[w]] = w
  <2>1. w \in Writer /\ result[w] = "Appended"
    BY DEF acked
  <2>2. dataOnDisk[w] = data[w]
    BY <2>1 DEF LogInv, FileInv, FileOnDisk
  <2>3. data'[w] = data[w]
    BY <1>2, <2>1, <2>2, LengthIsContent
  <2>4. terminal' = terminal
    BY DEF PowerLoss
  <2>5. views'[w] = views[w] /\ sizes'[w] = sizes[w]
    BY <2>1, <2>3, <2>4 DEF views, sizes, Project
  <2>6. id[w] \in Id /\ entry[id[w]] = w /\ entryOnDisk[id[w]] = w
    BY <2>1 DEF LogInv, NameInv, NamesAreKept
  <2> QED
    BY <2>5, <2>6
<1>8. \/ /\ entry' \in [Id -> Writer \cup {None}]
         /\ \A i \in Id : entry'[i] # None => id[entry'[i]] = i /\ phases[entry'[i]] # "gone"
         /\ \A w \in acked \ (unlinked \cup vanished) : entry'[id[w]] = w
         /\ (~directoryOnDisk)' = FALSE
         /\ UNCHANGED (unlinked \cup vanished)
      \/ /\ ~directoryOnDisk /\ UNCHANGED (~directoryOnDisk)
         /\ entry' = [i \in Id |-> None]
         /\ (unlinked \cup vanished)' =
                (unlinked \cup vanished) \cup ({entry[i] : i \in Id} \ {None})
  <2>1. CASE /\ entry' \in [Id -> Writer \cup {None}]
             /\ \A i \in Id : entry'[i] \in {entry[i], entryOnDisk[i]}
             /\ directoryOnDisk' = TRUE
             /\ UNCHANGED vanished
    <3>1. ASSUME NEW i \in Id, entry'[i] # None
          PROVE  id[entry'[i]] = i /\ phases[entry'[i]] # "gone"
      <4>1. PICK w \in Writer : entry'[i] = w
        BY <2>1, <3>1
      <4>2. id[w] = i /\ result[w] # "RolledBack"
        BY <2>1, <4>1 DEF LogInv, NameInv, NamesAreTrue, NamesAreGone
      <4> QED
        BY <4>1, <4>2 DEF phases, SeenInv, SeenOK
    <3>2. ASSUME NEW w \in acked \ (unlinked \cup vanished) PROVE entry'[id[w]] = w
      BY <1>7, <2>1
    <3>3. UNCHANGED (unlinked \cup vanished)
      BY <2>1 DEF PowerLoss
    <3> QED
      BY <2>1, <3>1, <3>2, <3>3
  <2>2. CASE /\ ~directoryOnDisk
             /\ UNCHANGED directoryOnDisk
             /\ entry' = [i \in Id |-> None]
             /\ vanished' = vanished \cup ({entry[i] : i \in Id} \ {None})
    <3>1. unlinked' = unlinked
      BY DEF PowerLoss
    <3> QED
      BY <2>2, <3>1
  <2> QED
    BY <2>1, <2>2 DEF PowerLoss
<1>9. /\ exclusive' = {} /\ shared' = [w \in Writer |-> {}] /\ UNCHANGED id
  BY DEF PowerLoss
<1> QED
  BY <1>3, <1>4, <1>5, <1>6, <1>7, <1>8, <1>9
     DEF Store!PowerLoss, Store!Kept, phases, views, sizes, acked

-----------------------------------------------------------------------------
(* The code's files, locks and syncs implement the store.                   *)
THEOREM LogImplementsStore == Spec => ImplementsStore
<1>1. ASSUME LogInv, SeenInv, SeenInv', [Next]_vars
      PROVE  [Store!StoreNext]_Store!storeVars
  <2>1. CASE \E w \in Writer : WriterStep(w) \/ Kill(w)
    BY <1>1, <2>1, WriterRefines
  <2>2. CASE \E r \in Reader : ReaderStep(r)
    BY <1>1, <2>2, ReaderRefines
  <2>3. CASE \E i \in Id : Remove(i)
    BY <2>3, RemoveRefines
  <2>4. CASE PowerLoss
    BY <1>1, <2>4, PowerLossRefines DEF Store!StoreNext
  <2>5. CASE UNCHANGED vars
    <3>1. UNCHANGED <<phases, views, sizes, acked>> /\ NoName
          /\ UNCHANGED <<exclusive, shared, vanished, directoryOnDisk>>
      BY <2>5 DEF vars, directory, contents, writers, history, NoName, phases, views, sizes,
                  acked, Phase, Project
    <3> QED
      BY <3>1, StoreStutters
  <2> QED
    BY <1>1, <2>1, <2>2, <2>3, <2>4, <2>5 DEF Next
<1> QED
  BY <1>1, StoreInitially, LogInvariant, SeenIsOK, PTL
     DEF Spec, ImplementsStore, Store!StoreSpec

=============================================================================
