-------------------------------- MODULE Command --------------------------------
(***************************************************************************)
(* The command line of crates/harness-cli/src/main.rs: what the arguments  *)
(* ask for (parse_command), each command's run over the model call         *)
(* (ModelCall) and the session records (SessionRecord), what it writes     *)
(* (TerminalText) and the exit status (complete).                          *)
(*                                                                         *)
(* One process runs a command, then another one may; between them the user *)
(* may touch the session files.  The steps in which processes interleave   *)
(* are those of Ask, LoginFlow and CredentialRenewal; here a command is    *)
(* alone, and what another process did is the choice of a result.          *)
(***************************************************************************)
EXTENDS ModelCall, SessionRecord

CONSTANTS
    FirstArguments,     \* what the first command may be given
    LaterArguments,     \* what a later one may be given
    PromptOf,           \* the texts of arguments that are no plain word
    MaxCommands         \* a bound: how many commands are run

ASSUME MaxCommandsAssumption == MaxCommands \in Nat \ {0}

(* An argument list is a sequence, and the text of an id is no option.      *)
ASSUME ArgumentsAssumption ==
    \A a \in FirstArguments \cup LaterArguments : a \in Seq({a[i] : i \in DOMAIN a})
ASSUME PromptAssumption == \A w \in DOMAIN PromptOf : PromptOf[w] \in ModelText
ASSUME IdAssumption == "-h" \notin Id

VARIABLES
    args,       \* the arguments of the command
    op,         \* what they ask for
    step,       \* where the command is
    commands,   \* how many have begun
    file,       \* the session files, with no lines where there is none
    wrote,      \* the lines the writer of each session has made
    session,    \* the session of the running ask
    lost,       \* why a record could not be written, "none" if it was
    touched,    \* whether the user has touched a session file
    told,       \* what the last ask printed
    result,     \* what the operation itself returned
    stdout,     \* what was written to standard output, and how that went
    stderr,     \* the lines that reached standard error, and its first error
    exit        \* the exit status

store == <<file, wrote, session, lost, touched>>
output == <<stdout, stderr, exit>>
cmdVars == <<callVars, args, op, step, commands, store, told, result, output>>

-----------------------------------------------------------------------------
Stream == {"written", "closed", "failed"}   \* closed is ErrorKind::BrokenPipe
NoFile == [lines |-> <<>>, torn |-> FALSE]
Nothing == [text |-> <<>>, says |-> "none", wrote |-> "written"]
Silence == [lines |-> {}, wrote |-> "written"]

(* The text of an argument; every word may be a prompt. *)
TextOf(argument) ==
    IF argument \in DOMAIN PromptOf THEN PromptOf[argument] ELSE <<Run("letter", 4)>>

(* Defects for the mutation runs, each named for the definition it replaces. *)
CliValidPromptByChars(text) ==
    ~IsBlank(text) /\ \A i \in DOMAIN text : text[i].count <= MAX_PROMPT_BYTES

CliValidPrompt(text) == ~IsBlank(text) /\ Size(text) <= MAX_PROMPT_BYTES
IsHelp(argument) == argument = "-h"     \* and --help

Do(name) == [name |-> name, argument |-> "none"]
Help == Do("Help")
UsageError == Do("UsageError")

(* parse_auth_provider, and parse_model below `model test`. *)
ParseProvider(a, success) ==
    IF Len(a) < 3 THEN Help
    ELSE IF IsHelp(a[3]) THEN Help
    ELSE IF a[3] = "openai-codex" /\ Len(a) = 3 THEN Do(success) ELSE UsageError

ParseGroup(a, commands_of) ==
    IF Len(a) < 2 THEN Help
    ELSE IF IsHelp(a[2]) THEN Help
    ELSE IF a[2] \in DOMAIN commands_of THEN ParseProvider(a, commands_of[a[2]])
    ELSE UsageError

(* Here an argument after a help option is an error. *)
OnlyHelp(a, n) == IF Len(a) = n THEN Help ELSE UsageError

ParseSession(a) ==
    IF Len(a) < 2 THEN Help
    ELSE IF IsHelp(a[2]) THEN OnlyHelp(a, 2)
    ELSE IF a[2] = "list"
    THEN IF Len(a) = 2 THEN Do("SessionList")
         ELSE IF IsHelp(a[3]) THEN OnlyHelp(a, 3) ELSE UsageError
    ELSE IF a[2] # "show" \/ Len(a) < 3 THEN UsageError
    ELSE IF IsHelp(a[3]) THEN OnlyHelp(a, 3)
    ELSE IF Len(a) = 3 /\ a[3] \in Id
    THEN [name |-> "SessionShow", argument |-> a[3]] ELSE UsageError

ParseAsk(a) ==
    IF Len(a) < 2 THEN Help
    ELSE IF IsHelp(a[2]) THEN Help
    ELSE IF a[2] # "openai-codex" THEN UsageError
    ELSE IF Len(a) < 3 THEN Do("InvalidPrompt")
    ELSE IF IsHelp(a[3]) THEN Help
    ELSE IF a[3] = "--" \/ Len(a) > 3 THEN UsageError
    ELSE IF a[3] = "not-utf8" \/ ~CliValidPrompt(TextOf(a[3])) THEN Do("InvalidPrompt")
    ELSE [name |-> "AskOpenAiCodex", argument |-> a[3]]

(* parse_command *)
ParseCommand(a) ==
    IF a = <<>> THEN Help
    ELSE IF IsHelp(a[1]) THEN Help
    ELSE IF a[1] = "-V" THEN Do("Version")     \* and --version
    ELSE IF a[1] = "auth"
    THEN ParseGroup(a, [login |-> "LoginOpenAiCodex", logout |-> "LogoutOpenAiCodex",
                        status |-> "StatusOpenAiCodex"])
    ELSE IF a[1] = "model" THEN ParseGroup(a, [test |-> "ModelTestOpenAiCodex"])
    ELSE IF a[1] = "session" THEN ParseSession(a)
    ELSE IF a[1] = "ask" THEN ParseAsk(a)
    ELSE UsageError

-----------------------------------------------------------------------------
(* Defects for the mutation runs, each named for the definition it replaces. *)
CompleteByStdout(status, out, err) ==
    IF status = "SUCCESS" /\ out = "failed" THEN "FAILURE" ELSE status

(* complete: output that failed turns success into failure; a reader that   *)
(* went away does not.                                                      *)
Complete(status, out, err) ==
    IF status = "SUCCESS" /\ "failed" \in {out, err} THEN "FAILURE" ELSE status

(* The command writes its text to standard output and its lines to standard *)
(* error; the first error counts.  With a stream that fails, all lines or   *)
(* none may have come through: which of them is not told apart.             *)
Write(text, says) == {[text |-> text, says |-> says, wrote |-> how] : how \in Stream}
WriteLines(lines) == {[lines |-> lines, wrote |-> "written"]}
    \cup {[lines |-> {}, wrote |-> how] : how \in {"closed", "failed"}}

End(status, out, err) ==
    /\ step' = "done"
    /\ stdout' = out
    /\ stderr' = err
    /\ exit' = Complete(status, out.wrote, err.wrote)

(* A command that only writes a line of its own, or an error. *)
EndWithText(status, says) == \E out \in Write(<<LineEnd>>, says) : End(status, out, Silence)
EndWithError(status, line) == \E err \in WriteLines({line}) : End(status, Nothing, err)

CmdInit ==
    /\ CallInit
    /\ args \in FirstArguments
    /\ op = Do("none") /\ step = "start" /\ commands = 1
    /\ file = [i \in Id |-> NoFile]
    /\ wrote = [i \in Id |-> <<>>]
    /\ session = NoId /\ lost = "none" /\ touched = FALSE
    /\ told = NoAnswer
    /\ result = "none"
    /\ stdout = Nothing /\ stderr = Silence /\ exit = "none"

Parse ==
    /\ step = "start"
    /\ op' = ParseCommand(args)
    /\ step' = "run"
    /\ UNCHANGED <<callVars, args, commands, store, told, result, output>>

Running(name) == step = "run" /\ op.name = name

-----------------------------------------------------------------------------
Explain ==
    /\ Running("Help") \/ Running("Version")
    /\ EndWithText("SUCCESS", op.name)
    /\ UNCHANGED <<callVars, args, op, commands, store, told, result>>

Refuse ==
    /\ Running("UsageError") \/ Running("InvalidPrompt")
    /\ EndWithError("2", "usage")
    /\ UNCHANGED <<callVars, args, op, commands, store, told, result>>

(* What login reports while it runs: nothing before its listener is bound,  *)
(* then the URL, which is all the user has if the browser does not open.    *)
Progress(returned, launched) ==
    IF returned = "BeforeBrowser" THEN <<>>
    ELSE <<"opening", "visit URL">> \o IF launched THEN <<>> ELSE <<"use the URL above">>

(* run_login.  Nothing is shown after a progress line that could not be     *)
(* written, the result neither.                                             *)
RunLogin ==
    /\ Running("LoginOpenAiCodex")
    /\ \E returned \in {"ok", "BeforeBrowser", "AfterBrowser"}, launched \in BOOLEAN :
           LET progress == Progress(returned, launched)
               status == IF returned = "ok" THEN "SUCCESS" ELSE "FAILURE"
               shown(n) == {progress[i] : i \in 1 .. n}
           IN  /\ result' = returned
               /\ \/ \E n \in 0 .. Len(progress) - 1, how \in {"closed", "failed"} :
                         End(status, Nothing, [lines |-> shown(n), wrote |-> how])
                  \/ /\ returned = "ok"
                     /\ \E out \in Write(<<LineEnd>>, "Connected") :
                            End(status, out, [lines |-> shown(Len(progress)), wrote |-> "written"])
                  \/ /\ returned # "ok"
                     /\ \E err \in WriteLines({"error"}) :
                            End(status, Nothing,
                                [err EXCEPT !.lines = @ \cup shown(Len(progress))])
    /\ UNCHANGED <<callVars, args, op, commands, store, told>>

(* run_status and run_logout *)
RunLocal ==
    /\ Running("StatusOpenAiCodex") \/ Running("LogoutOpenAiCodex")
    /\ \/ result' = "ok" /\ EndWithText("SUCCESS", "done")
       \/ result' = "error" /\ EndWithError("FAILURE", "error")
    /\ UNCHANGED <<callVars, args, op, commands, store, told>>

-----------------------------------------------------------------------------
(* The model call of `model test` and of an ask that has its session. *)
CallModel ==
    /\ \/ Running("ModelTestOpenAiCodex") /\ Enter(<<Run("letter", 4)>>)
       \/ step = "ask" /\ Enter(TextOf(op.argument))
       \/ CallNext
    /\ UNCHANGED <<args, op, step, commands, store, told, result, output>>

(* run_model_test and write_model_text *)
RunModelTest ==
    /\ Running("ModelTestOpenAiCodex")
    /\ CallOver
    /\ \/ /\ answer.kind = "text"
          /\ result' = "ok"
          /\ \E out \in Write(Render(answer.text), "none") :
                 IF out.wrote = "failed"
                 THEN \E err \in WriteLines({"unable to write"}) : End("FAILURE", out, err)
                 ELSE End("SUCCESS", out, Silence)
       \/ /\ answer.kind = "error"
          /\ result' = "error"
          /\ EndWithError("FAILURE", answer.error)
    /\ UNCHANGED <<args, op, commands, store, told>>

(* A file was made and its rollback fails: some of its lines are there, and *)
(* no line is torn but the next.  An empty file is not told apart from none.*)
Leave(s, lines) ==
    \E whole \in {<<>>, <<lines[1]>>, lines}, torn \in BOOLEAN :
        /\ torn => whole # lines
        /\ file' = [file EXCEPT ![s] = [lines |-> whole, torn |-> torn]]
        /\ wrote' = [wrote EXCEPT ![s] = whole]

(* run_ask: the session begins before the model is called.  An identifier   *)
(* that is taken, here by a session there is, or a failing write end it.    *)
StartAsk ==
    /\ Running("AskOpenAiCodex")
    /\ \E drawn \in Drawn :
       LET prompt == TextOf(op.argument)
           s == drawn[1]
           o == drawn[2]
           u == drawn[3]
       IN  \/ /\ InitialRecords(s, o, u, prompt)
              /\ file[s] = NoFile
              /\ file' = [file EXCEPT ![s].lines = InitialLines(s, o, u, prompt)]
              /\ wrote' = [wrote EXCEPT ![s] = InitialLines(s, o, u, prompt)]
              /\ session' = s
              /\ step' = "ask"
              /\ UNCHANGED <<lost, touched, output, result>>
           \/ /\ lost' = IF Cardinality({s, o, u}) < 3 THEN "identifiers"
                         ELSE IF ~InitialRecords(s, o, u, prompt) THEN "size" ELSE "storage"
              /\ result' = "error"
              /\ EndWithError("FAILURE", "error")
              /\ \/ UNCHANGED <<file, wrote>>
                 \/ /\ lost' = "storage" /\ file[s] = NoFile
                    /\ Leave(s, InitialLines(s, o, u, prompt))
              /\ UNCHANGED <<session, touched>>
    /\ UNCHANGED <<callVars, args, op, commands, told>>

(* Defects for the mutation runs, each named for the definition it replaces. *)
ModelFailureCodeMerged ==
    [[e \in FailureCode |-> e] EXCEPT !["AccessDenied"] = "ConnectionRejected"]

(* model_failure_code: every error but InvalidPrompt has the code of its    *)
(* name, whose diagnostic is the error's own text.                          *)
ModelFailureCode == [e \in FailureCode |-> e]

TerminalLine(entry, lines) ==
    IF answer.kind = "text"
    THEN AssistantEntry(entry, lines[2].entry_id, lines[2].operation_id, answer.text)
    ELSE FailureEntry(entry, lines[2].entry_id, lines[2].operation_id,
                      ModelFailureCode[answer.error])

(* append_assistant and append_failure: the line is written, or it is lost, *)
(* and then nothing, a part or even all of it may be in the file.           *)
AppendTerminal(entry) ==
    LET lines == file[session].lines
        line == TerminalLine(entry, lines)
    IN  IF ~NewEntryId(entry, lines) \/ ~FitsInSession(line, lines)
        THEN /\ lost' = IF NewEntryId(entry, lines) THEN "size" ELSE "identifiers"
             /\ UNCHANGED <<file, wrote>>
        ELSE /\ wrote' = [wrote EXCEPT ![session] = Append(@, line)]
             /\ \/ /\ lost' = "none"
                   /\ file' = [file EXCEPT ![session].lines = Append(@, line)]
                \/ /\ lost' = "storage"
                   /\ \/ file' = [file EXCEPT ![session].lines = Append(@, line)]
                      \/ file' = [file EXCEPT ![session].torn = TRUE]
                      \/ UNCHANGED file

(* run_ask from the answer on.  A prompt the adapter refuses is rolled back; *)
(* an answer is recorded, printed and then announced with its session.      *)
FinishAsk ==
    /\ step = "ask"
    /\ CallOver
    /\ told' = answer
    /\ IF answer = Error("InvalidPrompt")
       THEN /\ result' = "error"
            /\ \/ /\ file' = [file EXCEPT ![session] = NoFile]
                  /\ EndWithError("2", "usage")
               \/ UNCHANGED file /\ EndWithError("FAILURE", "error")
            /\ UNCHANGED <<wrote, lost>>
       ELSE \E entry \in Id :
            /\ AppendTerminal(entry)
            /\ LET failed == IF lost' = "none" THEN {} ELSE {"not recorded"}
               IN  \/ /\ answer.kind = "text"
                      /\ result' = IF lost' = "none" THEN "ok" ELSE "error"
                      /\ \E out \in Write(Render(answer.text), "none") :
                         \E err \in WriteLines({"Session:"} \cup failed \cup
                                    (IF out.wrote = "failed" THEN {"unable to write"} ELSE {})) :
                             End(IF lost' = "none" THEN "SUCCESS" ELSE "FAILURE", out, err)
                   \/ /\ answer.kind = "error"
                      /\ result' = "error"
                      /\ \E err \in WriteLines({answer.error, "Session:"} \cup failed) :
                             End("FAILURE", Nothing, err)
    /\ UNCHANGED <<args, op, commands, session, touched>>

-----------------------------------------------------------------------------
(* What run_session_show and run_session_list write beside their output. *)
Warnings(files, out) ==
    {"warning" : i \in {i \in files : file[i].torn}}
    \cup (IF out.wrote = "failed" THEN {"unable to write"} ELSE {})

(* run_session_show and render_session; Busy and a store that fails are     *)
(* SessionLog's.                                                            *)
ShowSession ==
    /\ Running("SessionShow")
    /\ LET id == op.argument
           shown == Project(file[id], id)
       IN  IF file[id] = NoFile \/ shown.result # "shown"
           THEN result' = "error" /\ EndWithError("FAILURE", "error")
           ELSE /\ result' = "ok"
                /\ LET last == shown.terminal
                       text == Render(shown.prompt)
                               \o (IF last.kind = "text" THEN Render(last.text) ELSE <<LineEnd>>)
                       says == IF last.kind = "error" THEN last.error ELSE shown.status
                   IN  \E out \in Write(text, says) :
                       \E err \in WriteLines(Warnings({id}, out)) : End("SUCCESS", out, err)
    /\ UNCHANGED <<callVars, args, op, commands, store, told>>

(* run_session_list, with the inventory of SessionList. *)
ListSessions ==
    /\ Running("SessionList")
    /\ LET shown == {i \in Id : file[i] # NoFile /\ Project(file[i], i).result = "shown"}
       IN  \/ result' = "error" /\ EndWithError("FAILURE", "error")
           \/ /\ result' = "ok"
              /\ \E out \in Write(<<LineEnd>>, "list") :
                 \E err \in WriteLines(Warnings(shown, out)) : End("SUCCESS", out, err)
    /\ UNCHANGED <<callVars, args, op, commands, store, told>>

-----------------------------------------------------------------------------
(* The user copies a file under another identifier, or damages one: a line  *)
(* is lost or repeated, or its failure code is changed; another version of  *)
(* the harness writes its own header.                                       *)
Change(i) ==
    /\ file[i] # NoFile
    /\ \/ \E j \in Id \ {i} : file' = [file EXCEPT ![j] = file[i]]
       \/ \E k \in DOMAIN file[i].lines :
            \/ file' = [file EXCEPT ![i].lines =
                           SubSeq(@, 1, k - 1) \o SubSeq(@, k + 1, Len(@))]
            \/ file' = [file EXCEPT ![i].lines = Append(@, @[k])]
            \/ /\ file[i].lines[k].type = "terminal_failure"
               /\ file' = [file EXCEPT ![i].lines[k].content.failure_code = "Rejected"]
            \/ /\ k = 1
               /\ file' = [file EXCEPT ![i].lines[k].format_version = FORMAT_VERSION + 1]

Touch ==
    /\ step = "start" /\ ~touched /\ commands > 1
    /\ \E i \in Id : Change(i)
    /\ touched' = TRUE
    /\ UNCHANGED <<callVars, args, op, step, commands, wrote, session, lost, told, result,
                   output>>

(* The next command is a new process with nothing but the session files. *)
NextCommand ==
    /\ step = "done" /\ commands < MaxCommands
    /\ commands' = commands + 1
    /\ args' \in LaterArguments
    /\ op' = Do("none") /\ step' = "start"
    /\ phase' = "idle" /\ elapsed' = 0 /\ left' = 0 /\ contacted' = FALSE
    /\ requests' = <<>> /\ answer' = NoAnswer
    /\ result' = "none"
    /\ stdout' = Nothing /\ stderr' = Silence /\ exit' = "none"
    /\ UNCHANGED <<store, told>>

Next ==
    \/ Parse \/ Explain \/ Refuse
    \/ RunLogin \/ RunLocal \/ RunModelTest \/ CallModel \/ StartAsk \/ FinishAsk
    \/ ShowSession \/ ListSessions
    \/ Touch \/ NextCommand

Spec == CmdInit /\ [][Next]_cmdVars

-----------------------------------------------------------------------------
(* The usage lines of the help texts: each operation is asked for by one    *)
(* sequence of arguments and by no other, and a prompt that the command     *)
(* line accepts is one the model adapter accepts too.                       *)
Usage ==
    [LoginOpenAiCodex |-> <<"auth", "login", "openai-codex">>,
     LogoutOpenAiCodex |-> <<"auth", "logout", "openai-codex">>,
     StatusOpenAiCodex |-> <<"auth", "status", "openai-codex">>,
     ModelTestOpenAiCodex |-> <<"model", "test", "openai-codex">>,
     SessionList |-> <<"session", "list">>]

OnlyAsDocumented ==
    step # "start" =>
        /\ \A name \in DOMAIN Usage : op.name = name <=> args = Usage[name]
        /\ op.name = "SessionShow" <=>
               \E i \in Id : args = <<"session", "show", i>> /\ op.argument = i
        /\ op.name = "AskOpenAiCodex" =>
               /\ args = <<"ask", "openai-codex", op.argument>>
               /\ answer # Error("InvalidPrompt")

(* The exit status is 0 exactly if the operation succeeded and no output    *)
(* was lost but to a reader that went away; a failure has told why; it is 2 *)
(* only if nothing was kept and nobody was contacted.                       *)
ExitStatusTrue ==
    step = "done" =>
        /\ exit = "SUCCESS" <=>
               /\ op.name \notin {"UsageError", "InvalidPrompt"}
               /\ result \in {"none", "ok"}
               /\ "failed" \notin {stdout.wrote, stderr.wrote}
        /\ exit # "SUCCESS" /\ {stdout.wrote, stderr.wrote} = {"written"} => stderr.lines # {}
        /\ exit = "2" =>
               requests = <<>> /\ (commands = 1 => \A i \in Id : file[i] = NoFile \/ touched)

(* `session show` of the last ask writes the prompt and the answer as the   *)
(* ask wrote it, or the failure the ask reported; a record the ask called   *)
(* lost is shown as interrupted, or as it was.                              *)
ShownAsTold ==
    (/\ step = "done" /\ op.name = "SessionShow" /\ result = "ok" /\ ~touched
     /\ op.argument = session) =>
        LET prompt == Render(wrote[session][2].content.text)
            whole == IF told.kind = "text"
                     THEN stdout.text = prompt \o Render(told.text) /\ stdout.says = "Completed"
                     ELSE stdout.says = told.error
        IN  whole \/ (lost # "none" /\ stdout.says = "Interrupted"
                       /\ stdout.text = prompt \o <<LineEnd>>)

(* The reader accepts what the writer wrote, whole lines of it at least,    *)
(* once they hold the prompt, and whatever has happened to the file it      *)
(* shows no text, no outcome and no identifier that the writer of this      *)
(* session did not write.                                                   *)
ReadsOnlyWritten ==
    \A i \in Id : file[i] # NoFile =>
        LET shown == Project(file[i], i)
            is(terminal) == /\ shown.prompt = wrote[i][2].content.text
                            /\ shown.terminal = terminal
        IN  /\ shown.result = "shown" =>
                   /\ wrote[i] # <<>>
                   /\ \/ is([kind |-> "none"])
                      \/ is(Terminal(wrote[i]))
            /\ ~touched /\ Len(wrote[i]) >= 2 => shown.result = "shown"

(* Every prompt and every answer within the limits of the command line and  *)
(* of the decoder fits the limits of the session format, escapes included.  *)
LimitsSuffice == lost # "size"

(* What must come through: all but the line ends. *)
Visible(run) ==
    IF run.char \in {"CR", "LF"} THEN <<>> ELSE <<<<run.char, run.count>>>>
VisibleText(runs) == Joined([i \in DOMAIN runs |-> Visible(runs[i])], Len(runs))

(* Model text reaches the terminal without a control or bidi character but  *)
(* LF and TAB, ends its line, and loses nothing but the CR of line ends.    *)
Printed(rendered, text) ==
    /\ \A i \in DOMAIN rendered :
           /\ rendered[i].escaped <=>
                  rendered[i].char \in {"VT", "control", "NEL", "C1", "bidi2", "bidi3"}
           /\ rendered[i].char # "CR" /\ rendered[i].count > 0
    /\ rendered[Len(rendered)].char = "LF"
    /\ VisibleText(rendered) = VisibleText(text)

TerminalSafe ==
    (step = "done" /\ answer.kind = "text" /\ op.name \in {"AskOpenAiCodex",
                                                         "ModelTestOpenAiCodex"}) =>
        Printed(stdout.text, answer.text)
=============================================================================
