# Verification of rust-agent-harness

TLA+ models of `rust-agent-harness`: of the parts whose correctness depends on
the order in which several processes, the operating system and a remote provider
act, and of the sequential parts where many small rules must agree; TLC
configurations that check them on small instances; and proofs, checked by TLAPS,
that their safety properties hold for every number of processes, every clock,
every set of session files, every command line and every response. What the
proofs leave to TLC is named at the end of section 4. Paths below are relative to `crates/`.

## 1. The system

`harness` is a command line program. Each invocation is one sequential,
single-threaded process; concurrency is between invocations, which share the
macOS Keychain, a lock file and a directory of session files, and between an
invocation and the HTTP services it talks to.

| Component | State | Operations | Hard behaviour |
|---|---|---|---|
| Credential renewal (`openai-codex-auth/src/lib.rs`) | one Keychain item; in memory `attempted_bytes`, `record`, `contacted_refresh_endpoint` | `with_renewable_authorized_credential` | two refresh sites, a re-read under a lock, one replay after a 401, crashes between request and save, login and logout that take no lock |
| Refresh lock (`refresh_lock.rs`) | a lock file held by an open file | `acquire`, drop of the guard | polling with a deadline of 65 s, a holder that never returns, release by a dying process |
| Credential record (`credential.rs`) | the record's fields | `validate`, `deserialize`, `deserialize_structural`, `refresh_due`, `apply_refresh` | 64-bit expiry arithmetic, records one function accepts and another refuses |
| Refresh client (`refresh.rs`) | none | `request_refresh` | a response lost after the provider rotated the token |
| Keychain (`keychain.rs`) | the item | `read`, `replace`, `delete` | each may fail |
| Login callback (`callback.rs`, `oauth.rs`, `pkce.rs`) | a listener, a deadline | `bind`, `wait`, `exchange_code` | invalid requests before the valid one, the deadline |
| Session store (`harness-session-log/src/file.rs`) | a directory of files, one exclusive lock per live writer | `start`, `append_assistant`, `append_failure`, `rollback`, `show`, `list` | creation before locking, torn writes, power loss between writing and syncing, removal by hand |
| Projection and format (`projection.rs`, `format.rs`) | none | `project`, `serialize_line` | torn last line, limits |
| Model call (`openai-codex-model/src/lib.rs`) | none | `ask`, `test_connection` | error mapping, the 401 that triggers a renewal |
| Event decoder (`sse.rs`) | buffers and counters | `decode` | framing over chunk boundaries, limits, deadlines |
| Command line (`harness-cli/src/main.rs`) | the exit status | `parse_command`, `run_ask`, `run_login`, ..., `complete` | recording, printing and exit code may fail one by one; model text on a terminal |

They interact as follows. `ask` starts a session, calls the model through
`with_renewable_authorized_credential` (whose operation is one HTTP request and
whose 401 starts a renewal), appends the outcome to the session and writes it to
stdout. `auth login` ends with a `replace` of the Keychain item, `auth logout`
is its `delete`. `session show` and `session list` read the session files of
other, possibly running, invocations.

What makes the components correct:

- renewal: a refresh token is spent once; the stored token stays usable; the
  model sees only saved credentials; one refresh and one replay per invocation;
  an invocation ends whatever other processes do;
- session store: what `start`, `append` and `rollback` acknowledge survives any
  crash; readers never see a session of a live writer; nobody blocks for ever;
- session list: no acknowledged session is missing, what is listed is true and
  stays true, the limits refuse only inventories above them;
- `ask`: exit code 0 and an announced id mean what the user reads into them;
- login: only the user's answer to this very authorization counts, the wait for
  it ends, and a failed login leaves the stored credential alone;
- credential record: what status calls connected can be used, what has expired
  is renewed, a refresh never leaves an unreadable record or another account;
- model call: one answer per call, a second request only after a 401, and all
  waits together within the bound the documentation gives;
- records: the reader accepts what the writer writes, whatever text it holds,
  and shows nothing from a file that its session did not write;
- command line: operations are asked for as documented and in no other way, the
  exit status is true, a session is shown as it was told;
- event decoder: the result depends on the events alone, not on how the network
  cuts them up, and memory stays within the limits.

## 2. Modules

| Module | Models | Composes |
|---|---|---|
| `CredentialRenewal` | renewal, lock, Keychain, provider, login, logout | |
| `CredentialRenewalMC` | symmetry for its instances | `CredentialRenewal` |
| `CredentialRenewalProofs` | the inductive invariants and theorems | `CredentialRenewal` |
| `SessionLog` | session files: writers, readers, the user, kills, power loss | |
| `SessionLogMC` | symmetry and view for its instances | `SessionLog` |
| `SessionLogProofs` | its inductive invariant and theorems, its refinement of `SessionStore` | `SessionLog`, `SessionStore` |
| `SessionStore` | the abstract session store that `SessionLog` implements | |
| `SessionList`, `SessionListMC` | `list_file` | `SessionStore` |
| `SessionListProofs` | its inductive invariant and theorems | `SessionList` |
| `Ask`, `AskMC` | `run_ask` and `complete` over the session store | `SessionLog` |
| `AskProofs` | its refinement of `SessionLog`, invariant and theorems | `Ask`, `SessionLogProofs` |
| `LoginFlow` | `login_with`, the callback listener, the code exchange | |
| `LoginFlowProofs` | the inductive invariant and theorems of the login | `LoginFlow` |
| `EventStream`, `EventStreamMC` | `decode` of `sse.rs` | |
| `EventStreamProofs` | its inductive invariant and theorems | `EventStream` |
| `CredentialRecord`, `CredentialRecordMC` | `credential.rs`, with the login, renewals and status that use it | |
| `CredentialRecordProofs` | its inductive invariant and theorems | `CredentialRecord` |
| `TerminalText` | model text, its sizes and its rendering | |
| `ModelCall` | `ask` and `test_connection`: their time, requests and errors | `TerminalText` |
| `SessionRecord` | the lines of a session file, written and read | `TerminalText` |
| `Command`, `CommandMC` | arguments, every command, output streams, exit status | `ModelCall`, `SessionRecord` |
| `CommandProofs` | the inductive invariant and theorems of `Command` and the modules below it | `Command` |

Operators whose name says how they differ from the one they stand beside
(`FlushSkipped`, `GrantedWhileHeld`, ...) are defects for the mutation runs; no
specification uses them.

### CredentialRenewal

A *caller* is one invocation of `with_renewable_authorized_credential`. Its `pc`
is where it stands: `idle` (before `lib.rs:356`), `acquire` (in
`FileRefreshLock::acquire`), `reread` (lock held, `lib.rs:361` or `394`), `await`
(request out, lock held), `call` (in `operation`), `done`. The two refresh sites
of the source run the same steps; `refused[c]`, the credential a 401 was for,
tells them apart (`Absent` before the first call), and with it the guards that
differ: only the second site looks at `contacted_refresh_endpoint`, only the
first sets it. `attempted` stands for `attempted_bytes` and the record they
decode to, which the code keeps in step.

Tokens are numbers in the order in which the provider issues them. A record is
its access token and its refresh token; after a refresh whose response omits
`refresh_token` the record keeps the old one (`optional_rotated_token`). Bytes
that a read rejects are `unsupported` (another schema version) or `malformed`
(written by a login whose access token or account is no header value, which
`validate` does not check).

Steps that touch only the caller's memory are merged with the shared access next
to them. This hides nothing from the other callers: the request leaves after the
re-read with the lock held, and `apply_refresh` and `serialize` precede the
`replace` that publishes their result. Login and logout are single steps because
their one shared access is the `replace` or the `delete`.

The environment is external. The provider rotates, refuses or fails to process
the request; a request whose sender gave up may still arrive (`orphans`); access
tokens expire in any order (`aged`). Any Keychain access may fail, a caller may
crash between any two steps, and the operating system drops a dead process's
lock.

`consumed`, `lost`, `reused`, `saved`, `intruded` and `requests` are history:
no guard of the program's actions reads them, except that the provider knows
which tokens it rotated.

### SessionLog

A *writer* is one call of `SessionLog::start` and what its `SessionWriter` does
afterwards. It creates at most one file, so the file bears the writer's name,
and `entry` maps session ids to files. A file's content is its number of
complete lines (header, user, terminal) with or without a torn line after them.
`entryOnDisk` and `dataOnDisk` are what a power loss certainly leaves:
`sync_all` and `sync_data` copy the content there, syncing the sessions
directory copies the names. `directoryOnDisk` says whether the directory's own
name would be found: when `start_file` has just created it, nothing syncs its
parent. `PowerLoss` keeps a content between the synced and the written one and,
name by name, the synced or the current entry, or takes the unsynced directory away;
the one made in its place is then unsynced again.

`StartFails` is the failure of any step of `start_file`'s chain, with the
comparison of `rollback_created_file`; `Undo` is its `remove_file`, a step of
its own because the lock is gone before the path is removed, whichever file it
names by then. `Rollback`, `Unlink` and `SyncUnlink` are the three accesses of
`SessionWriter::rollback`.

A *reader* is one `inspect_file_with_hook`. Opening, trying the shared lock and
the rest are three steps. Size, read and the second identity check are one: no
harness process writes to a file that another has locked, and a removal in
between gives the same result as one before.

### Ask

Each writer of `SessionLog` becomes one `ask` process that chooses the outcome
of the model call, records it, writes its output and exits. `PrintAnswer` merges
the writes to stdout and stderr with `complete`, since no other process reads
them; each stream may be written, fail, or be closed by its reader
(`BrokenPipe`, which `complete` forgives). The rollback of a refused prompt is
`WithdrawPrompt`. `Retry` draws another id when the one tried is taken, and
`IdsTaken` gives up when the last one is as well. `AskLiveSpec` adds readers that lock the new file at any time;
`LookAtSession` is their inspection.

### SessionStore and SessionList

`SessionStore` is what others may rely on: a session is created, locked, written
and closed; closed content stays; an acknowledged session keeps its name and
content through every kill and power loss, unless its name is removed or its
directory, which nothing syncs, is lost; a session whose rollback returned is
gone. A content is the report an inspection would give (`view`) and a size.
`SessionLog` maps its program counters to phases (`Phase`), its lines to views
(`Project`) and its results to `acknowledged`; syncs, retries and most failures
become stutters. `ImplementsStore` states the refinement.

`SessionList` composes the abstract store with one list: `Scan`, `ScanOther` and
`ScanTooLarge` are the loop of `collect_candidate_ids`, `ListOpen` to
`ReadTooLarge` the inspection under `ReadPolicy::List`, `Summarize` and `Listed`
the two halves of `summarize_candidates`. A sort takes, of the
arrangements of its elements, the one in order: neither list has an element
twice, so there is just one. The scan takes one directory entry at a time, since
`read_dir` promises nothing about names that come and go meanwhile. `Charge` is
`ListReadBudget::charge` of a locked file: its size counts before the read and
whatever comes of it, be it a report (`ListInspect`) or an error (`ReadFails`).
An error before the charge is `ListInspectFails`.

Four variables are history. `known` is what was acknowledged when the list began.
The other three let `LimitsExact` speak of the store instead of the code's own
counters: `foreign` is how many directory entries are no session files,
`nameless` are the files that had lost their name when the list began and count for
nothing, and `read` the bytes the list set out to read of each file. The bytes of a
set of files are counted as their places (`Bytes`).

### LoginFlow

Logins run at once or one after the other. A state, a code and a verifier are
named by the login whose `AuthSecrets` they belong to, so that "another state"
and "another login's code" can be told apart. `sent` holds every redirect a
browser was ever sent to: it may be delivered late, again, or to the listener of
a later login on the same port. `Stray` are requests of anybody else. The loop
of `wait` has two places: the deadline has been looked at (`receive`), or not
(`wait`). After `TakeCode` the listener is closed, and the code is exchanged,
validated and stored without further interaction. `Store` is the `replace` and
`Connected` the return after it: a login killed in between has stored its
credential and told nobody. `BindFails` is both errors of `bind`: no port is free,
or the first free one is bound to an address that is not the loopback's. The
provider exchanges a code once, for its own verifier.

### EventStream

A line is a data field with an event or half of one, another field, no UTF-8, or
blank; `size` is its length in bytes, and chunks end at any byte. `Push` and the
process-line actions take one byte each, `Read` any number up to the buffer's.
An event's type stands for the JSON it is parsed from: `head` and `tail` are the
two lines of an event that is one only when they are joined. `lines` is history;
the properties compare the result with what a decoder that sees the whole
response computes from it: `Whole` folds the lines into events and sizes,
`Streamed`, `IsLatest` and `Ends` say which text those events make. A line holds
at least one byte of data after `data:` if it has that field, and a blank line
none (`LineAssumption`).

### CredentialRecord

One process at a time over one Keychain item and a clock of `MaxTime + 1`
seconds, so that sums reach the end of its range: `CheckedAdd` gives no deadline
where `checked_add` does, `DuePoint` saturates. A token is what the code tells
apart: blank, fit for a header or not, a JSON web token or opaque, and the
account and expiry its payload claims. `Login` takes any response that
`validate` accepts, `Renew` any reply that `apply_refresh` accepts; `Status` and
`Readable` are the two ways a stored record is read. `grant` is history: by what
and when the provider gave the stored access token, and for how long.
`CredentialRenewal` abstracts all this to two tokens and whether a record is
malformed; here are the rules, there the interleavings.

### Command and the modules below it

`TerminalText` has a text as runs of equal characters of the kinds the code tells
apart (VT stands for FF too, NEL for itself, and `space2` and `space3` for the
other Unicode white space that `str::trim` removes), with their bytes in UTF-8 and in JSON, so that texts of 256
KiB are one run. `Render` is `render_model_text`.

`ModelCall` is one call as the places of the renewal boundary and of the
request, with `elapsed`, the seconds that have passed: each wait takes nothing
or as long as its timeout lets it, and the read that overruns a budget takes its
own timeout on top. What a read of the Keychain finds, and what the provider
answers, is a choice. `requests` are the statuses of the model requests sent.

`SessionRecord` has the fields of every record. A record's `bytes` is what it
takes as a JSON line: header and entries have a constant part (`HEADER_BYTES`
with the longest working directory, `ENTRY_BYTES` with identifiers and times)
and the text its size with escapes. `Project` is `project` with each of its
checks, down to the pairing of failure code and diagnostic.

`Command` is one process from its arguments to its exit status, followed by
further ones that find its session files. Arguments are words; `PromptOf` gives
the text of those that are no plain word. `RunLogin`, `RunLocal`, `FinishAsk`
and the others choose what their library call returned and how each output
stream went (`written`, `closed`, `failed`); `Complete` makes the exit status of
both. `Leave` is the file of a failed start whose rollback failed as well, with
any of its lines or half a line. Between two commands the user may copy, cut or edit a session file, or
another version may write one (`Touch`). A stream that fails keeps nothing of
what was written to it: how many lines came through is not told apart.

## 3. Runs

| Run | Question | Instance |
|---|---|---|
| `renewal_safety` | safety of the renewal, `NoRegression` as an action property, and `EndsDespiteStalls` | 2 callers of which one may stall, 3 token sets, wait of 1 poll, all crashes |
| `double_spend` | SECURITY.md's "must not double-spend" (violated) | 2 callers, 2 token sets |
| `logout_undone` | after a logout only a login connects (violated) | 2 callers, 2 token sets |
| `session_store` | promises of `start`, `append`, `rollback`; `SessionLog` implements `SessionStore` | 2 writers, 1 reader, 2 ids, 2 tries |
| `create_window` | SECURITY.md's "must not publish partial state" (violated) | 1 writer, 1 reader |
| `new_directory` | README.md's "remain until you manually remove them" (violated) | 1 writer, 1 reader |
| `ask` | exit code and announced id; `AskEnds` | 1 ask after an earlier one that took the only id, 1 reader, 2 tries |
| `session_list` | completeness, truth, order and limits of a list | 2 sessions, 2 ids, 1 other entry, 3 sizes, two sets of limits |
| `login` | whose answer and credential count; `WaitEnds` | 2 logins, 2 ports, deadline after 1 tick, 2 answers to an authorization |
| `credential_record` | what login and refresh leave, and how it is read | clock of 3 bits, window of 2 s, 3 accounts of which one fits no header, 3 expiries, 3 lifetimes |
| `command` | arguments, exit status, records, rendering, one answer and its time | every sequence of up to 3 of 24 words and those with one word too many, 4 identifiers, 16 answers up to the size limit, 2 commands |
| `event_stream` | result, limits and termination of `decode` | responses of up to 12 bytes, 12 lines, reads of 1 or 2 bytes, events of 7 bytes, texts of 2 |

Bounds. Two callers give every interleaving of a holder and a waiter; a third
would only wait as well, and the proofs cover any number. Three token sets allow
the initial one, a rotation and a login or a second rotation. `MaxPolls` stands
for 65 s / 50 ms = 1300 polls: only "less than" and "at least" matter, and one
sleep may take any number of intervals. Two writers with two ids contend for one
path, which random ids make rare and `create_new` must handle, or use two.
`StoreView` merges the states of `session_store` that differ only in what no later
step and no property reads, the tries of a start that has its id for instance. In
`ask` the only id is taken by an earlier session before the ask starts
(`EarlierInit`, a state `AskSpec` reaches), so that its first and its last try,
`CREATE_RETRIES = 2`, meet a taken id, unless the user removes that session in
between: `AskEnds` says that the retries end. The writers of `SessionLog` and the
callers of `CredentialRenewal` run once, so the session runs end and are checked without the deadlock check;
so do `list_file`, `decode` and a command. The renewal, login and record runs
check it. The type invariants are proved with the inductive invariants they are
part of (`TypeOK`, `LogTypeOK`, `AskTypeOK`, `ListTypeOK`, `CallTypeOK`) and no
run checks them.

`SessionList` has two sessions, the least for an order and a limit of one
candidate. Under the first of its two sets of limits two sessions meet the limits
on entries and bytes and exceed the first with one other entry, the second with
two completed sessions; under the second they exceed the limit on candidates and
one completed session the read budget. Each limit is thus met and exceeded by one.
`SomeAreEarly` leaves out the lists whose sessions all have the later time, since
times are only compared. Sizes 0, 1 and 2 are those of an empty, an interrupted
and a completed session, so that two sessions may be just within or just above
the read budget. `Timeout = 1` has a login before and at its deadline, and two `Answers` let a user
approve and refuse the same authorization. Twelve
bytes hold three one-line events, hence every pair of text sources before a
completion; seven bytes hold the largest event of two lines and refuse a third.

The clock of `credential_record` has eight instants, with a window of two: sums
overflow by one, by the window and not at all, and an expiry lies before, at and
after the clock. The texts and limits of `command` have their real sizes. Four
identifiers are three for a session and one for its answer; fewer would make
`ReadsOnlyWritten` and the collisions of identifiers vacuous. Two commands
suffice since a command that reads changes nothing. `answer` ranges over every
error and over texts of every kind of character, of CR before other characters,
and of the longest text of characters that JSON doubles or makes six times as
long.

Fairness. `LiveSpec` of `CredentialRenewal` is fair only to the steps of
`Punctual` callers: their process is scheduled, `acquire` has a deadline, the
refresh request a budget of 30 s (`GiveUp` is always enabled while waiting) and
the model call one of its own. Nothing is assumed of the other callers, who may
hold the lock for ever, as README.md:82 warns, nor of the provider. `AskLiveSpec` of
`Ask` is fair to each ask and to each reader; the strongest thing it needs is
that the operating system grants a free lock to the one writer that waits for
it. Removal, kills and power losses need not happen. `LiveSpec` of `LoginFlow`
is fair to the clock and to the loop of `wait`, whose `recv_timeout` returns
after 100 ms at most; nobody need send a request, and anybody may for ever.
`LiveSpec` of `EventStream` is fair to the decoder's own loop; that a read
returns is the request timeout's doing, and `OutOfTime` and `ReadFails` are not
needed for `Terminates`.

`WithinBudget` takes its 430 seconds from README.md:82. The longest call of the
model takes 400: a wait of 65 s before the call, a refresh of 30, a first
request refused with 401 after 60, another wait of 65 in which the record is
adopted, and a request whose body is read until its budget of 120 is spent by a
read of 60 more. The 430 add a second refresh, which the code excludes: the
replay after a refresh of its own only adopts.

Defects. Every property of a passing run has one mutation in `PROJECT.json` that
breaks it. The modules define three more, because a property has several ways to
fail: `ScanManyOthers` (no limit on entries) and `ChargeUnchecked` (the budget is
looked at before the size is added) also break `LimitsExact`, in `ScanOther` and
`Charge`, and `InspectKeepsLock` breaks `AskEnds`, in `Inspect`.

### What the violated properties show

- `double_spend`: a refresh reaches the provider, which rotates the token, and
  its response is lost (timeout, crash, failed save). The stored token is now
  dead, and the next caller finds the bytes unchanged and sends it again. The
  provider answers with `refresh_token_reused`, and only a login helps.
  `ReusedOnlyAfterLoss` shows that this is the only way.
- `logout_undone`: `logout_with` does not take the refresh lock, so a renewal
  whose request is out writes its result after the delete.
- `create_window`: the file is visible from `create_private_file` on and locked
  one call later; a `show` in between reports `Corrupt`.
- `new_directory`: the first session of a fresh installation is acknowledged
  although the directory that holds it need not survive a power loss.

## 4. Proofs

`CredentialRenewalProofs` proves nine theorems for every `Caller`, `MaxToken`
and `MaxPolls` that meet `CallerAssumption` (the free lock has no caller's name,
the punctual callers are callers) and `BoundAssumption` (the bounds are natural
numbers). TLC evaluates both assumptions and checks all nine properties in
`renewal_safety`.

None of the properties is inductive, so the proof goes in four layers, each
using the ones before it:

1. `TypeInv`: `TypeOK`, and every caller past its first read holds a decoded
   record (`Decoded`), so that its refresh token is a token. Gives `TypeCorrect`.
2. `LockInv`: who is at `reread` or `await` is the lock's `holder`
   (`Exclusive`), and `SpendsStoredToken`. The stored item changes only through
   the holder's `Save` or through login and logout, which set `intruded`.
3. `TokenInv`: stored and attempted tokens were issued by the provider
   (`WasIssued`), a `granted` reply carries the newest number and its request's
   token is consumed exactly when it was rotated (`Answered`),
   `StoredTokenLive` and `ReusedOnlyAfterLoss`. An orphan's token counts as lost
   when its sender gives up, which is what makes its later arrival harmless to
   the invariant.
4. `SavedInv` and `PhaseInv`: an active caller's access token has been saved; and
   for each `pc` the relation of `requests`, `contacted`, `refused` and
   `attempted` that the two refresh sites establish. Give `SavedBeforeUse`,
   `OneRefresh`, `ReplayDiffers` and `RenewedBeforeUnauthorized`.

`NoRegression` follows from layers 1 to 3 for `Save`, the only action that
changes the item without setting `intruded`. The lemma `NextCases` sorts the
actions into those that end an invocation and those that continue it, so that
the invariants are proved once for all endings.

`LoginFlowProofs` proves three theorems for every `Login`, `Ports` and `Timeout`
under `LoginAssumption` (the secrets of nobody are no login's) and
`BoundsAssumption`. `OnlyOwnAnswer` is inductive given `TypeOK`: a request that
carries a login's state is in `sent` (`AcceptedWasSent`), and `sent` only grows.
`StoredWasApproved` needs `Progressed`: a login that exchanges a code has its
own, one that stores has exchanged it, and one that has not ended has no result,
so that a login that has stored can only report `Connected` or be killed.

`CredentialRecordProofs` proves five theorems for every clock range, window,
set of accounts, expiries and lifetimes that meet `TimeAssumption`,
`NoneAssumption`, `AccountAssumption` and `RecordAssumption` (absent values are
no records, no grants and no numbers; expiries fit the clock). `ConnectedIsUsable`
and `RefreshKeepsAccount` are not inductive: both need that every stored record
is `WellFormed`, which is `Readable` without the version (another version may
write its own) and without the header check (which `validate` does not make, and
`Status` does). `IInv` is `TypeOK`, `WellFormed` of what is stored, and
`DeadlineIsPromised`. The lemmas `LoginStores` and `RefreshStores` say what login
and refresh store, `LoginPromises` and `RenewalPromises` how its deadline
relates to what the provider promised, over the lemma `Deadlines` about the
earlier of two deadlines; `ExpiredIsRenewed` follows from arithmetic on
`DuePoint`.

`SessionLogProofs` proves four invariants and one action property for
every set of writers, readers and ids under `NoneAssumption` and
`RetryAssumption`, through kills, removals and power losses. `LogInv` has three
parts besides the types:

- `FileInv`: where a writer is tells how many whole lines its file has
  (`FileContent`), what of it is certain to be on disk (`FileOnDisk`: both lines
  from the first sync on, everything once `append` has returned), and whether it
  holds the lock and has an id (`FileStatus`).
- `NameInv`: a name leads to the file created under it (`NamesAreTrue`), the name
  of a live or finished session is there and on disk unless it was removed or
  its directory vanished (`NamesAreKept`), and after a rollback it is in neither
  place (`NamesAreGone`), so that a power loss cannot bring it back.
- `ReaderInv`: a reader with a shared lock looks at a file no writer has locked
  (`ReaderHasFile`), which makes what it reports final (`ReportIsFinal`): a file
  with a prompt whose writer is not locking it has a writer that has ended.

`DurableBeforeModel`, `AcknowledgedRemains`, `RolledBackStaysGone` and
`NoUnfinishedView` follow from it; `AcknowledgedIsShown` from it for
`Inspect`, the one action that makes a report. Each part is proved to be kept
from itself and the parts before it, once for the writer's steps, once for the
others', and for `PowerLoss` on its own, since it changes everything at once.

The rest of the module proves `ImplementsStore`. Under the mapping of
`SessionLog` the store sees of a session its phase, view, size and whether it is
acknowledged (`Seen`); `SeenOK` is what these say about the program counter and
the lines, and all that the refinement needs of their definitions. There is one
lemma per action of the store (`WriterCreates`, `WriterLocks`, ...) with the
least a step of the log must do to be one, `StoreStutters` for those that do
nothing to it, and then each action of the log is one of these. `PowerLoss` needs
`LogInv`: that an acknowledged content equals its synced copy, and that its
name is on disk or the directory is young.

`AskProofs` proves `AskImplementsLog`: every step of an ask is a step of
`SessionLog` or leaves it alone. `LogInv` therefore holds of its sessions, and
`SuccessIsRecorded` and `AnnouncedIsFindable` follow from it with `AskInv`, which
ties the answer of the model to the record that was chosen, to the result of the
store and to what was printed.

`SessionListProofs` proves four properties for every set of writers, ids, times
and limits under `StoreAssumption` and `ListAssumption` (there are finitely many
writers, so that their bytes can be counted), over the store's own steps.
`StoreInv` is what the list relies on: a file somebody shares is not being
written, a closed one never again, and an acknowledged session keeps its name
until that is removed. An id is met once (`MetInv`), so nothing is listed twice;
while the shared lock is held, and after, the report is that of a closed file
(`InspectInv`, `SummaryInv`); and a session known before the list began is not yet
scanned, a candidate, under inspection as itself, or in a summary (`KnownInv`). The
lemma `Keeps` says what neither a writer, the user nor the list takes back, so
that each part is proved once for all steps of the others. `LimitsExact` needs
`LimitInv` on top: every entry met is a candidate or one of the other entries
(`CountInv`), so the scan takes in no more than the code counts and a refused count
is really exceeded; what is used of the budget is the bytes set out to be read, of
files that had a name when the list began and of each once (`ChargeInv`), so the
budget bounds the reads and a refusal means that the files there exceed it; and the
list opens no file that had lost its name by then (`NamelessInv`). Files only grow,
and closed ones do not change, which keeps all this while others write.

`EventStreamProofs` proves `StreamInv`, and from it both safety properties of the
decoder and the length of its answer, for responses of any length, all
lines, letters and limits that meet `LimitsAssumption` and `LineAssumption`:

- `FrameInv`: the buffered event is what `Whole` makes of the lines so far, and
  the bytes of those lines, the pending and the unread ones are the bytes
  charged. This is where the chunks disappear: nothing else of the invariant
  depends on where a read ended.
- `BoundInv`: response, event and texts are within their limits at all times.
- `TextInv`: each of the three texts is the one the events so far make; a source
  that has not arrived is empty, and a later one replaces an earlier one.
- `ResultInv`: what each result was returned for; no event ended the response
  before the one that did.

`Whole` and `Streamed` are functions by recursion over sequences. That they exist
is proved by `Induction`, and all else uses only what they are of no line and of
one line more (`WholeOfNone`, `WholeOfOneMore`). `AnswersFit`, no answer is longer
than the text limit, is what `AnswersAssumption` of `ModelCall` takes for granted.

`CommandProofs` proves `CommandInv`, and from it eight properties, for every set of
arguments, prompts, answers and ids and any number of commands. It assumes that
argument lists are sequences (`ArgumentsAssumption`), that `-h` is no session id
(`IdAssumption`; an id has 32 hexadecimal digits), that `NoId` is none either,
that prompts and answers are texts, an answer no longer than the decoder lets it
be (`PromptAssumption`, `AnswersAssumption`), and the constant part of a line at
most 25000 bytes for a header, whose path has at most `PATH_MAX` bytes, and 5000
for an entry (`LineAssumption`). The parts are independent enough to be proved one by one:

- `CallInv` bounds the time at each place of a call (`FirstBy` before a request
  was refused, `SecondBy` after) and says which requests have been sent. It
  proves more than the README's bound: `elapsed <= 400`. The refresh that both
  sites could make is excluded by `contacted`, as section 3 explains. Gives
  `WithinBudget` and `OneAnswer`.
- `CommandMeans` is about `ParseCommand` alone: each operation has its arguments
  and no others. `StepInv` keeps that meaning of the arguments to the end of the
  command. Gives `OnlyAsDocumented`.
- `FirstInv` and `ExitInv`: what has been contacted and written where a command
  stands, and what its exit status follows from. Give `ExitStatusTrue`.
- `FilesInv`: a file no user has touched is what its writer made (`Kept`), or the
  beginning of it that a failed rollback left (`Begun`), and whatever a copy, a cut, a repeated line, another failure code or another
  version makes of it either is refused or shows what was written
  (`ShownIsWritten`). The user touches one file, once (`Touch`), in the model and
  so in the proof. Gives `ReadsOnlyWritten`.
- `ToldInv`: the file of the last ask ends with the outcome it told, unless it
  also said that this could not be recorded. Gives `ShownAsTold`.
- `SizeInv`: no record was lost to its size, and the two lines of a running ask
  leave room for every answer. It rests on `JsonAtMostSixfold`: the JSON of a
  text is at most six times as long as the text, whichever characters it has.
  Sizes are functions by recursion over the runs of a text; that they exist
  (`SumExists`) and what they bound is by `Induction` over sets of numbers, which
  follows from the well-foundedness of `<` without the library's induction
  rules. Gives `LimitsSuffice`.
- `OutputInv`: what is on standard output after an answer is `Render` of it.
  `RenderedIsPrinted` is the rest of `TerminalSafe` and says it of every text:
  `WrittenRun` of one run, which is written as one safe run or, a CR before LF,
  not at all, and `WrittenText` of the runs joined so far, by induction. Gives
  `TerminalSafe`.

Every safety property that a passing run checks is proved. Only model-checked are
the liveness properties `EndsDespiteStalls`, `AskEnds`, `WaitEnds` and
`Terminates`, since fairness and ENABLED are out of the prover's reach, and that
the four violated properties are violated.

## 5. Not modelled

Error wording and help texts, the email and plan that a record displays, PKCE
digests (secrets are named by their login), file permissions and symbolic links
of the session and lock directories (each check is one failure of its
operation), the size limits of the token and refresh responses, the headers and
body of a model request, the CI scripts. They decide nothing the properties
speak of, or are outside the program. `PROJECT.json` lists every component with
its status; four stay "partly" for these reasons: the refresh lock, the refresh
client, the Keychain, and login and logout.

## 6. What may follow

The model covers the components to the extent section 5 says, and its safety
properties are proved. Two extensions would say more about the code:

1. permissions and symbolic links of the two directories, with the checks of
   `refresh_lock.rs` and `file.rs` as steps of their own between which another
   process acts;
2. the size limits of the token and refresh responses, whose refusal is today one
   of the failures of a request.
