------------------------------- MODULE AskProofs -------------------------------
(***************************************************************************)
(* An ask keeps every promise of the session store, for every set of asks, *)
(* readers and ids: each of its steps is a step of SessionLog or leaves    *)
(* the store alone.  What it tells its user follows from that and from     *)
(* AskInv, which ties the outcome of the model call, what the store        *)
(* returned and what was told to each other.                               *)
(***************************************************************************)
EXTENDS Ask, SessionLogProofs

(* The step of the store under a step of the asks. *)
LEMMA AskStepsLog == [AskNext]_askVars => [Next]_vars
<1> SUFFICES ASSUME [AskNext]_askVars PROVE [Next]_vars
  OBVIOUS
<1>1. ASSUME NEW w \in Writer, AskStep(w) \/ StartSessionFails(w) \/ KillAsk(w)
      PROVE  WriterStep(w) \/ Kill(w) \/ UNCHANGED vars
  BY <1>1 DEF AskStep, StartSession, StartSessionFails, IdsTaken, CallModel, RecordAnswer,
              WithdrawPrompt, PrintAnswer, ReportFailure, ReportWithdrawal,
              ReportNoSession, KillAsk, WriterStep
<1>2. ASSUME NEW r \in Reader, LookAtSession(r)
      PROVE  ReaderStep(r)
  BY <1>2 DEF LookAtSession, ReaderStep
<1>3. UNCHANGED askVars => UNCHANGED vars
  BY DEF askVars
<1> QED
  BY <1>1, <1>2, <1>3 DEF AskNext, Others, PowerLossAsk, ReaderStep, Next

(* An ask implements the session store: all that is proved of SessionLog    *)
(* holds of its sessions.                                                   *)
THEOREM AskImplementsLog == AskSpec => Spec
<1>1. AskInit => Init
  BY DEF AskInit
<1> QED
  BY <1>1, AskStepsLog, PTL DEF AskSpec, Spec

-----------------------------------------------------------------------------
AskTypeOK ==
    /\ answer \in [Writer -> {"none", "text", "InvalidPrompt", "failure"}]
    /\ stdout \in [Writer -> Stream \cup {"none"}]
    /\ announced \in [Writer -> BOOLEAN]
    /\ exit \in [Writer -> {"none", "SUCCESS", "FAILURE", "2", "killed"}]

(* The record follows the answer, and what is told follows the record. *)
AskInv ==
    \A w \in Writer :
        /\ terminal[w] \in {"none", CASE answer[w] = "text" -> "Completed"
                                      [] answer[w] = "failure" -> "Failed"
                                      [] OTHER -> "none"}
        /\ exit[w] = "SUCCESS" =>
               /\ answer[w] = "text" /\ stdout[w] \in {"written", "closed"}
               /\ pc[w] = "done" /\ result[w] = "Appended"
        /\ announced[w] => pc[w] = "done" /\ result[w] \in {"Appended", "AppendFailed"}

LEMMA AskInitial == AskInit => AskTypeOK /\ AskInv
BY DEF AskInit, Init, AskTypeOK, AskInv

LEMMA AskTypeStep ==
    ASSUME AskTypeOK, [AskNext]_askVars
    PROVE  AskTypeOK'
<1> USE DEF AskTypeOK, output
<1>1. ASSUME NEW w \in Writer,
             \/ StartSession(w) \/ StartSessionFails(w) \/ RecordAnswer(w)
             \/ WithdrawPrompt(w)
      PROVE  AskTypeOK'
  BY <1>1 DEF StartSession, StartSessionFails, RecordAnswer, WithdrawPrompt
<1>2. ASSUME NEW w \in Writer, CallModel(w)
      PROVE  AskTypeOK'
  BY <1>2 DEF CallModel
<1>3. ASSUME NEW w \in Writer, PrintAnswer(w)
      PROVE  AskTypeOK'
  <2>1. PICK out \in Stream, err \in Stream :
            /\ stdout' = [stdout EXCEPT ![w] = out]
            /\ announced' = [announced EXCEPT ![w] = err = "written"]
            /\ exit' = [exit EXCEPT ![w] =
                   Complete(IF result[w] = "Appended" THEN "SUCCESS" ELSE "FAILURE", out, err)]
    BY <1>3 DEF PrintAnswer
  <2>2. announced' \in [Writer -> BOOLEAN]
    BY <2>1
  <2> QED
    BY <1>3, <2>1, <2>2 DEF PrintAnswer, Complete
<1>4. ASSUME NEW w \in Writer, ReportFailure(w)
      PROVE  AskTypeOK'
  BY <1>4 DEF ReportFailure
<1>5. ASSUME NEW w \in Writer, ReportWithdrawal(w) \/ ReportNoSession(w) \/ KillAsk(w)
      PROVE  AskTypeOK'
  BY <1>5 DEF ReportWithdrawal, ReportNoSession, KillAsk
<1>6. CASE PowerLossAsk
  BY <1>6 DEF PowerLossAsk
<1>7. CASE (\E r \in Reader : LookAtSession(r)) \/ Others \/ UNCHANGED askVars
  BY <1>7 DEF LookAtSession, Others, askVars
<1> QED
  BY <1>1, <1>2, <1>3, <1>4, <1>5, <1>6, <1>7 DEF AskNext, AskStep

(* A writer that is done does not change its mind. *)
LEMMA DoneIsFinal ==
    ASSUME LogInv, [Next]_vars, NEW w \in Writer, pc[w] = "done"
    PROVE  pc'[w] = "done" /\ result'[w] = result[w] /\ terminal'[w] = terminal[w]
<1>1. ASSUME NEW v \in Writer, WriterStep(v) \/ Kill(v)
      PROVE  v # w /\ pc'[w] = pc[w] /\ result'[w] = result[w] /\ terminal'[w] = terminal[w]
  BY <1>1 DEF LogInv, LogTypeOK, Return, writers, WriterStep, Create, Retry, CreateFails,
         Lock, WriteLine, Sync, SyncDirectory, StartFails, Undo, WriteTerminal, AppendFails,
         Flush, FlushFails, Rollback, Unlink, SyncUnlink, RollbackFails, Kill, Live, Starting
<1>2. CASE PowerLoss
  BY <1>2 DEF PowerLoss, Live, Starting
<1>3. CASE (\E r \in Reader : ReaderStep(r)) \/ (\E i \in Id : Remove(i)) \/ UNCHANGED vars
  BY <1>3 DEF ReaderStep, Look, Open, TryLock, Inspect, InspectFails, Remove, vars, writers
<1> QED
  BY <1>1, <1>2, <1>3 DEF Next

(* Only an append sets the terminal record, and to what the answer was. *)
LEMMA TerminalFollowsAnswer ==
    ASSUME LogInv, AskTypeOK, AskInv, [AskNext]_askVars, NEW v \in Writer
    PROVE  terminal'[v] \in {"none", CASE answer'[v] = "text" -> "Completed"
                                       [] answer'[v] = "failure" -> "Failed"
                                       [] OTHER -> "none"}
<1> USE DEF AskTypeOK, AskInv, output
<1>1. ASSUME NEW w \in Writer, CallModel(w)
      PROVE  terminal' = terminal /\ (answer'[v] = answer[v] \/ answer[v] = "none")
  BY <1>1 DEF CallModel, vars, writers
<1>2. ASSUME NEW w \in Writer, RecordAnswer(w)
      PROVE  /\ answer' = answer
             /\ \/ terminal'[v] = terminal[v]
                \/ answer[v] = "text" /\ terminal'[v] = "Completed"
                \/ answer[v] = "failure" /\ terminal'[v] = "Failed"
  BY <1>2 DEF RecordAnswer, WriteTerminal, AppendFails, Flush, FlushFails, LogInv, LogTypeOK
<1>3. ASSUME NEW w \in Writer,
             \/ StartSession(w) \/ StartSessionFails(w) \/ WithdrawPrompt(w)
             \/ PrintAnswer(w) \/ ReportFailure(w) \/ ReportWithdrawal(w)
             \/ ReportNoSession(w) \/ KillAsk(w)
      PROVE  terminal' = terminal /\ answer' = answer
  BY <1>3 DEF StartSession, StartSessionFails, WithdrawPrompt, PrintAnswer, ReportFailure,
         ReportWithdrawal, ReportNoSession, KillAsk, Create, Retry, CreateFails, IdsTaken, Lock,
         WriteLine, Sync, SyncDirectory, StartFails, Undo, Rollback, Unlink, SyncUnlink,
         RollbackFails, Kill, vars, writers
<1>4. CASE (\E r \in Reader : LookAtSession(r)) \/ Others \/ PowerLossAsk \/ UNCHANGED askVars
  BY <1>4 DEF LookAtSession, Others, PowerLossAsk, askVars, vars, Look, Open, TryLock, Inspect,
         InspectFails, Remove, PowerLoss, writers
<1>5. CASE terminal' = terminal /\ answer' = answer
  BY <1>5
<1>6. ASSUME NEW w \in Writer, AskStep(w) \/ StartSessionFails(w) \/ KillAsk(w)
      PROVE  terminal'[v] \in {"none", CASE answer'[v] = "text" -> "Completed"
                                         [] answer'[v] = "failure" -> "Failed"
                                         [] OTHER -> "none"}
  BY <1>1, <1>2, <1>3, <1>5, <1>6 DEF AskStep
<1> QED
  BY <1>4, <1>5, <1>6 DEF AskNext, LookAtSession, Others, PowerLossAsk, askVars, vars, writers

LEMMA AskInvStep ==
    ASSUME LogInv, AskTypeOK, AskInv, [AskNext]_askVars
    PROVE  AskInv'
<1> SUFFICES ASSUME NEW v \in Writer
             PROVE  /\ exit'[v] = "SUCCESS" =>
                           /\ answer'[v] = "text" /\ stdout'[v] \in {"written", "closed"}
                           /\ pc'[v] = "done" /\ result'[v] = "Appended"
                    /\ announced'[v] => /\ pc'[v] = "done"
                                        /\ result'[v] \in {"Appended", "AppendFailed"}
  BY TerminalFollowsAnswer DEF AskInv
<1> USE DEF AskTypeOK, AskInv, output
<1>1. pc[v] = "done" => pc'[v] = "done" /\ result'[v] = result[v]
  BY AskStepsLog, DoneIsFinal
<1>2. CASE UNCHANGED <<stdout, announced, exit>> /\ (answer'[v] = answer[v] \/ pc[v] # "done")
  BY <1>1, <1>2
<1>3. ASSUME NEW w \in Writer, PrintAnswer(w)
      PROVE  /\ answer'[v] = answer[v] /\ pc'[v] = pc[v] /\ result'[v] = result[v]
             /\ \/ /\ exit'[v] = exit[v] /\ announced'[v] = announced[v]
                   /\ stdout'[v] = stdout[v]
                \/ /\ answer[v] = "text" /\ pc[v] = "done"
                   /\ result[v] \in {"Appended", "AppendFailed"}
                   /\ exit'[v] = "SUCCESS" =>
                          result[v] = "Appended" /\ stdout'[v] \in {"written", "closed"}
  <2>1. PICK out \in Stream, err \in Stream :
            /\ stdout' = [stdout EXCEPT ![w] = out]
            /\ announced' = [announced EXCEPT ![w] = err = "written"]
            /\ exit' = [exit EXCEPT ![w] =
                   Complete(IF result[w] = "Appended" THEN "SUCCESS" ELSE "FAILURE", out, err)]
    BY <1>3 DEF PrintAnswer
  <2>2. announced'[v] = IF v = w THEN err = "written" ELSE announced[v]
    BY <2>1
  <2>3. UNCHANGED <<answer, pc, result>>
    BY <1>3 DEF PrintAnswer, vars, writers
  <2> QED
    BY <1>3, <2>1, <2>2, <2>3 DEF PrintAnswer, Complete, Stream
<1>4. ASSUME NEW w \in Writer, ReportFailure(w)
      PROVE  /\ UNCHANGED <<answer, stdout>> /\ pc'[v] = pc[v] /\ result'[v] = result[v]
             /\ \/ exit'[v] = exit[v] /\ announced'[v] = announced[v]
                \/ /\ exit'[v] = "FAILURE" /\ pc[v] = "done"
                   /\ result[v] \in {"Appended", "AppendFailed"}
  BY <1>4 DEF ReportFailure, vars, writers
<1>5. ASSUME NEW w \in Writer, ReportWithdrawal(w) \/ ReportNoSession(w) \/ KillAsk(w)
      PROVE  /\ UNCHANGED <<answer, stdout, announced>>
             /\ exit'[v] = exit[v] \/ exit'[v] \in {"FAILURE", "2", "killed"}
  BY <1>5 DEF ReportWithdrawal, ReportNoSession, KillAsk
<1>6. CASE PowerLossAsk
  <2>1. /\ UNCHANGED <<answer, stdout, announced>>
        /\ exit'[v] = exit[v] \/ exit'[v] = "killed"
    BY <1>6 DEF PowerLossAsk
  <2> QED
    BY <1>1, <2>1
<1>7. CASE (\E r \in Reader : LookAtSession(r)) \/ Others \/ UNCHANGED askVars
  BY <1>2, <1>7 DEF LookAtSession, Others, askVars
<1>8. ASSUME NEW w \in Writer,
             \/ StartSession(w) \/ StartSessionFails(w) \/ CallModel(w) \/ RecordAnswer(w)
             \/ WithdrawPrompt(w)
      PROVE  UNCHANGED <<stdout, announced, exit>> /\ (answer'[v] = answer[v] \/ pc[v] # "done")
  BY <1>8 DEF StartSession, StartSessionFails, CallModel, RecordAnswer, WithdrawPrompt
<1> QED
  BY <1>1, <1>2, <1>3, <1>4, <1>5, <1>6, <1>7, <1>8 DEF AskNext, AskStep

(* The inductive invariant: that of the session log, which every ask step    *)
(* keeps because it is a step of the log, and what an ask has told.          *)
THEOREM AskInvariant == AskSpec => [](LogInv /\ AskTypeOK /\ AskInv)
<1>1. LogInv /\ AskTypeOK /\ AskInv /\ [AskNext]_askVars => AskTypeOK' /\ AskInv'
  BY AskTypeStep, AskInvStep
<1> QED
  BY <1>1, AskInitial, AskImplementsLog, LogInvariant, PTL DEF AskSpec

-----------------------------------------------------------------------------
(* An ask that reports success has its answer on disk, and has told it.     *)
THEOREM SuccessTheorem == AskSpec => []SuccessIsRecorded
<1>1. LogInv /\ AskInv => SuccessIsRecorded
  <2> SUFFICES ASSUME LogInv, AskInv, NEW w \in Writer, exit[w] = "SUCCESS"
               PROVE  /\ stdout[w] \in {"written", "closed"}
                      /\ terminal[w] = "Completed"
                      /\ w \notin unlinked \cup vanished =>
                             entryOnDisk[id[w]] = w /\ dataOnDisk[w].lines = 3
    BY DEF SuccessIsRecorded
  <2>1. answer[w] = "text" /\ stdout[w] \in {"written", "closed"} /\ result[w] = "Appended"
    BY DEF AskInv
  <2>2. data[w].lines = 3 /\ dataOnDisk[w] = data[w] /\ terminal[w] \in {"Completed", "Failed"}
    BY <2>1 DEF LogInv, FileInv, FileOnDisk, FileContent, Lines
  <2>3. terminal[w] = "Completed"
    BY <2>1, <2>2 DEF AskInv
  <2>4. w \notin unlinked \cup vanished => entryOnDisk[id[w]] = w
    BY <2>1 DEF LogInv, NameInv, NamesAreKept
  <2> QED
    BY <2>1, <2>2, <2>3, <2>4
<1> QED
  BY <1>1, AskInvariant, PTL

(* An announced session can be shown, now and after a power loss.           *)
THEOREM AnnouncementTheorem == AskSpec => []AnnouncedIsFindable
<1>1. LogInv /\ AskInv => AnnouncedIsFindable
  <2> SUFFICES ASSUME LogInv, AskInv, NEW w \in Writer, announced[w]
               PROVE  /\ result[w] # "RolledBack"
                      /\ w \notin unlinked \cup vanished =>
                             /\ entry[id[w]] = w /\ entryOnDisk[id[w]] = w
                             /\ dataOnDisk[w].lines >= 2
    BY DEF AnnouncedIsFindable
  <2>1. result[w] \in {"Appended", "AppendFailed"}
    BY DEF AskInv
  <2>2. dataOnDisk[w].lines >= 2
    BY <2>1 DEF LogInv, FileInv, FileOnDisk, Lines
  <2>3. w \notin unlinked \cup vanished => entry[id[w]] = w /\ entryOnDisk[id[w]] = w
    BY <2>1 DEF LogInv, NameInv, NamesAreKept
  <2> QED
    BY <2>1, <2>2, <2>3
<1> QED
  BY <1>1, AskInvariant, PTL
=============================================================================
