----------------------------- MODULE SessionRecord -----------------------------
(***************************************************************************)
(* The lines of a session file of crates/harness-session-log: what the     *)
(* writer puts in them (initial_records and terminal_record of file.rs,    *)
(* over format.rs) and what the reader accepts (project of projection.rs). *)
(* When the lines reach the disk is SessionLog's; here a file is its       *)
(* complete lines and whether a torn one follows them.                     *)
(***************************************************************************)
EXTENDS TerminalText, FiniteSets

CONSTANTS
    Id,             \* identifiers of sessions, entries and operations
    NoId,           \* the parent of the first entry
    HEADER_BYTES,   \* a header line with its working directory, at most
    ENTRY_BYTES     \* an entry line beside its text

ASSUME NoIdAssumption == NoId \notin Id

(* A path has at most PATH_MAX bytes, 4096 or fewer, and JSON writes at     *)
(* most six for each; what else a line has is of a fixed length.            *)
ASSUME LineAssumption == HEADER_BYTES \in 0 .. 25000 /\ ENTRY_BYTES \in 0 .. 5000

-----------------------------------------------------------------------------
FORMAT_VERSION == 1
MAX_RECORD_BYTES == 2 * 1024 * 1024
MAX_SESSION_BYTES == 3 * 1024 * 1024

FailureCode ==
    {"UnsupportedPlatform", "NotConnected", "CredentialStoreUnavailable",
     "InvalidCredential", "ExpiredCredential", "CredentialRefreshBusy",
     "CredentialRefreshUnavailable", "Unavailable", "UnexpectedProviderResponse",
     "ConnectionRejected", "AccessDenied", "RateLimited", "TemporarilyUnavailable",
     "Rejected", "InvalidProviderResponse", "CallTimedOut", "ResponseTooLarge",
     "ModelCallFailed", "EmptyResponse"}

Header(session) ==
    [type |-> "session_header", format_version |-> FORMAT_VERSION,
     session_id |-> session, bytes |-> HEADER_BYTES]

(* An entry; a diagnostic is named by the code whose diagnostic() it is. *)
Entry(type, entry, parent, sequence, operation, content, bytes) ==
    [type |-> type, entry_id |-> entry, parent_entry_id |-> parent,
     sequence |-> sequence, operation_id |-> operation, content |-> content,
     bytes |-> ENTRY_BYTES + bytes]
UserEntry(entry, operation, text) ==
    Entry("user_message", entry, NoId, 1, operation, [text |-> text], JsonSize(text))
AssistantEntry(entry, user, operation, text) ==
    Entry("assistant_message", entry, user, 2, operation, [text |-> text], JsonSize(text))
FailureEntry(entry, user, operation, code) ==
    Entry("terminal_failure", entry, user, 2, operation,
          [failure_code |-> code, diagnostic |-> code], 0)

(* Defects for the mutation runs, each named for the definition it replaces. *)
IsHeaderOfAnySession(line, id) == line.type = "session_header"
SerializableAsEvent(line) == line.bytes <= 1024 * 1024

(* serialize_line refuses a record that is too long; the newline comes on   *)
(* top of that.                                                             *)
Serializable(line) == line.bytes <= MAX_RECORD_BYTES
FileBytes(lines) ==
    LET bytes[n \in 0 .. Len(lines)] ==
            IF n = 0 THEN 0 ELSE bytes[n - 1] + (lines[n].bytes + 1)
    IN  bytes[Len(lines)]

(* What three calls of next_id draw; nothing keeps the draws apart. *)
Drawn == Id \X Id \X Id

(* initial_records, for the three identifiers it has drawn, and the checks  *)
(* of terminal_record and append_terminal before anything is written.       *)
InitialLines(session, operation, user, prompt) ==
    <<Header(session), UserEntry(user, operation, prompt)>>
InitialRecords(session, operation, user, prompt) ==
    LET lines == InitialLines(session, operation, user, prompt)
    IN  /\ Cardinality({session, operation, user}) = 3
        /\ Serializable(lines[1]) /\ Serializable(lines[2])
        /\ FileBytes(lines) <= MAX_SESSION_BYTES

NewEntryId(entry, lines) ==
    entry \notin {lines[1].session_id, lines[2].entry_id, lines[2].operation_id}
FitsInSession(line, lines) ==
    Serializable(line) /\ FileBytes(Append(lines, line)) <= MAX_SESSION_BYTES

-----------------------------------------------------------------------------
(* What project requires of each line.  serde refuses a line of another     *)
(* shape; the identifiers of the model are all well formed.                 *)
IsHeader(line, id) == line.type = "session_header" /\ line.session_id = id

IsUser(line, header) ==
    /\ line.type = "user_message"
    /\ line.parent_entry_id = NoId /\ line.sequence = 1
    /\ Cardinality({header.session_id, line.entry_id, line.operation_id}) = 3

IsTerminal(line, header, user) ==
    /\ line.type \in {"assistant_message", "terminal_failure"}
    /\ line.entry_id \notin {header.session_id, user.entry_id, user.operation_id}
    /\ line.parent_entry_id = user.entry_id /\ line.sequence = 2
    /\ line.operation_id = user.operation_id
    /\ line.type = "terminal_failure" => line.content.diagnostic = line.content.failure_code

(* parse_records *)
Parses(file) ==
    /\ Len(file.lines) \in 1 .. 3
    /\ \A i \in DOMAIN file.lines : Serializable(file.lines[i])
    /\ FileBytes(file.lines) <= MAX_SESSION_BYTES

IsCorrupt(file, id) ==
    \/ ~Parses(file)
    \/ Len(file.lines) < 2
    \/ ~IsHeader(file.lines[1], id)
    \/ ~IsUser(file.lines[2], file.lines[1])
    \/ Len(file.lines) = 3 /\ ~IsTerminal(file.lines[3], file.lines[1], file.lines[2])

HasOtherVersion(file) ==
    /\ Parses(file)
    /\ file.lines[1].type = "session_header"
    /\ file.lines[1].format_version # FORMAT_VERSION

(* project_terminal: an answer, a failure or none yet. *)
Terminal(lines) ==
    IF Len(lines) = 2 THEN [kind |-> "none"]
    ELSE IF lines[3].type = "assistant_message"
    THEN [kind |-> "text", text |-> lines[3].content.text]
    ELSE [kind |-> "error", error |-> lines[3].content.failure_code]
Status(lines) ==
    [none |-> "Interrupted", text |-> "Completed", error |-> "Failed"][Terminal(lines).kind]

(* project *)
Project(file, id) ==
    IF HasOtherVersion(file) THEN [result |-> "UnsupportedVersion"]
    ELSE IF IsCorrupt(file, id) THEN [result |-> "Corrupt"]
    ELSE [result |-> "shown", status |-> Status(file.lines),
          prompt |-> file.lines[2].content.text,
          terminal |-> Terminal(file.lines), trailing_fragment |-> file.torn]
=============================================================================
