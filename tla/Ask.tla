-------------------------------- MODULE Ask --------------------------------
(***************************************************************************)
(* `ask openai-codex <prompt>` end to end: run_ask and complete of         *)
(* crates/harness-cli/src/main.rs over the session store of SessionLog.    *)
(* Every writer of SessionLog is the one session of an ask process, which  *)
(* records the prompt, calls the model, records the outcome, writes its    *)
(* output and exits.  The model call is the choice of its outcome.         *)
(***************************************************************************)
EXTENDS SessionLog

VARIABLES
    answer,     \* what the model call returned
    stdout,     \* what became of the rendered answer
    announced,  \* whether the line "Session: <id>" reached stderr
    exit        \* the exit code of the process

output == <<stdout, announced, exit>>
askVars == <<vars, answer, output>>

Stream == {"written", "closed", "failed"}   \* closed is ErrorKind::BrokenPipe

AskInit ==
    /\ Init
    /\ answer = [w \in Writer |-> "none"]
    /\ stdout = [w \in Writer |-> "none"]
    /\ announced = [w \in Writer |-> FALSE]
    /\ exit = [w \in Writer |-> "none"]

-----------------------------------------------------------------------------
(* actions.session.start *)
StartSession(w) ==
    /\ \/ Create(w) \/ Retry(w) \/ IdsTaken(w) \/ Lock(w) \/ WriteLine(w)
       \/ Sync(w) \/ SyncDirectory(w) \/ Undo(w)
    /\ UNCHANGED <<answer, output>>

StartSessionFails(w) ==
    /\ CreateFails(w) \/ StartFails(w)
    /\ UNCHANGED <<answer, output>>

(* actions.model.ask_openai_codex *)
CallModel(w) ==
    /\ pc[w] = "open"
    /\ answer[w] = "none"
    /\ \E outcome \in {"text", "InvalidPrompt", "failure"} :
           answer' = [answer EXCEPT ![w] = outcome]
    /\ UNCHANGED <<vars, output>>

(* append_assistant for a text, append_failure for a failure. *)
RecordAnswer(w) ==
    /\ answer[w] \in {"text", "failure"}
    /\ \/ /\ WriteTerminal(w)
          /\ terminal'[w] = IF answer[w] = "text" THEN "Completed" ELSE "Failed"
       \/ AppendFails(w) \/ Flush(w) \/ FlushFails(w)
    /\ UNCHANGED <<answer, output>>

(* The defensive rollback of a prompt the model adapter refuses. *)
WithdrawPrompt(w) ==
    /\ answer[w] = "InvalidPrompt"
    /\ Rollback(w) \/ Unlink(w) \/ SyncUnlink(w) \/ RollbackFails(w)
    /\ UNCHANGED <<answer, output>>

-----------------------------------------------------------------------------
(* complete: a stream that failed turns success into failure; a closed one  *)
(* does not.                                                                *)
Complete(status, out, err) ==
    IF status = "SUCCESS" /\ "failed" \in {out, err} THEN "FAILURE" ELSE status

(* Defects for the mutation runs, one per action they replace. *)
PrintAnswerAlwaysZero(w) ==
    /\ pc[w] = "done" /\ exit[w] = "none" /\ answer[w] = "text"
    /\ \E out \in Stream, err \in Stream :
           /\ stdout' = [stdout EXCEPT ![w] = out]
           /\ announced' = [announced EXCEPT ![w] = err = "written"]
           /\ exit' = [exit EXCEPT ![w] = Complete("SUCCESS", out, err)]
    /\ UNCHANGED <<vars, answer>>

ReportWithdrawalWithId(w) ==
    /\ pc[w] = "done" /\ exit[w] = "none" /\ answer[w] = "InvalidPrompt"
    /\ announced' = [announced EXCEPT ![w] = TRUE]
    /\ exit' = [exit EXCEPT ![w] = "2"]
    /\ UNCHANGED <<vars, answer, stdout>>

(* The answer is written whether or not it could be recorded, then errors   *)
(* and the session id.                                                      *)
PrintAnswer(w) ==
    /\ pc[w] = "done" /\ exit[w] = "none" /\ answer[w] = "text"
    /\ result[w] \in {"Appended", "AppendFailed"}
    /\ \E out \in Stream, err \in Stream :
           /\ stdout' = [stdout EXCEPT ![w] = out]
           /\ announced' = [announced EXCEPT ![w] = err = "written"]
           /\ exit' = [exit EXCEPT ![w] =
                  Complete(IF result[w] = "Appended" THEN "SUCCESS" ELSE "FAILURE", out, err)]
    /\ UNCHANGED <<vars, answer>>

ReportFailure(w) ==
    /\ pc[w] = "done" /\ exit[w] = "none" /\ answer[w] = "failure"
    /\ result[w] \in {"Appended", "AppendFailed"}
    /\ \E written \in BOOLEAN : announced' = [announced EXCEPT ![w] = written]
    /\ exit' = [exit EXCEPT ![w] = "FAILURE"]
    /\ UNCHANGED <<vars, answer, stdout>>

ReportWithdrawal(w) ==
    /\ pc[w] = "done" /\ exit[w] = "none" /\ answer[w] = "InvalidPrompt"
    /\ result[w] \in {"RolledBack", "RollbackFailed"}
    /\ exit' = [exit EXCEPT ![w] = IF result[w] = "RolledBack" THEN "2" ELSE "FAILURE"]
    /\ UNCHANGED <<vars, answer, stdout, announced>>

ReportNoSession(w) ==
    /\ pc[w] = "done" /\ exit[w] = "none"
    /\ result[w] = "CreateFailed"
    /\ exit' = [exit EXCEPT ![w] = "FAILURE"]
    /\ UNCHANGED <<vars, answer, stdout, announced>>

-----------------------------------------------------------------------------
(* The process is killed while it works on the session or before it exits. *)
KillAsk(w) ==
    /\ exit[w] = "none"
    /\ \/ Kill(w)
       \/ pc[w] = "done" /\ UNCHANGED vars
    /\ exit' = [exit EXCEPT ![w] = "killed"]
    /\ UNCHANGED <<answer, stdout, announced>>

PowerLossAsk ==
    /\ PowerLoss
    /\ exit' = [w \in Writer |->
                   IF exit[w] = "none" /\ pc[w] # "idle" THEN "killed" ELSE exit[w]]
    /\ UNCHANGED <<answer, stdout, announced>>

(* The steps of an ask that goes on, at a lock it waits for only once the    *)
(* lock is free.                                                            *)
AskStep(w) ==
    \/ StartSession(w) \/ CallModel(w) \/ RecordAnswer(w) \/ WithdrawPrompt(w)
    \/ PrintAnswer(w) \/ ReportFailure(w) \/ ReportWithdrawal(w) \/ ReportNoSession(w)

LookAtSession(r) == Look(r) /\ UNCHANGED <<answer, output>>

Others ==
    /\ \/ \E r \in Reader : InspectFails(r)
       \/ \E i \in Id : Remove(i)
    /\ UNCHANGED <<answer, output>>

AskNext ==
    \/ \E w \in Writer : AskStep(w) \/ StartSessionFails(w) \/ KillAsk(w)
    \/ \E r \in Reader : LookAtSession(r)
    \/ Others
    \/ PowerLossAsk

AskSpec == AskInit /\ [][AskNext]_askVars

(* A process that runs takes its next step, the model call ends because its *)
(* timeouts bound it, and a free lock is granted to the ask that waits for  *)
(* it.  No failure, no kill and no removal is owed to anybody.              *)
AskFairness ==
    /\ \A w \in Writer : WF_askVars(AskStep(w))
    /\ \A r \in Reader : WF_askVars(LookAtSession(r))

AskLiveSpec == AskSpec /\ AskFairness

-----------------------------------------------------------------------------
(* An ask that exits with success has its answer on disk under its id, and  *)
(* has written it unless the reader of its output went away.  Only removing *)
(* the file, or losing a directory not yet on disk, takes it away again.    *)
SuccessIsRecorded ==
    \A w \in Writer : exit[w] = "SUCCESS" =>
        /\ stdout[w] \in {"written", "closed"}
        /\ terminal[w] = "Completed"
        /\ w \notin unlinked \cup vanished =>
               entryOnDisk[id[w]] = w /\ dataOnDisk[w].lines = 3

(* A session id that was announced can be shown, now and after a power      *)
(* loss, with its prompt at least.                                          *)
AnnouncedIsFindable ==
    \A w \in Writer : announced[w] =>
        /\ result[w] # "RolledBack"
        /\ w \notin unlinked \cup vanished =>
               /\ entry[id[w]] = w /\ entryOnDisk[id[w]] = w
               /\ dataOnDisk[w].lines >= 2

(* Every ask that has begun ends, the retries under taken ids and the       *)
(* blocking lock of a new file included, and so does every inspection: asks *)
(* and readers never wait for each other for ever.                          *)
AskEnds ==
    /\ \A w \in Writer : pc[w] # "idle" \/ tries[w] > 0 ~> exit[w] # "none"
    /\ \A r \in Reader : rpc[r] # "idle" ~> rpc[r] = "done"
=============================================================================
