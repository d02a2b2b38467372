-------------------------- MODULE CredentialRenewal --------------------------
(***************************************************************************)
(* Renewal of the stored OpenAI Codex credential by several harness        *)
(* processes at once (crates/openai-codex-auth/src/lib.rs).                *)
(*                                                                         *)
(* A caller is one invocation of with_renewable_authorized_credential,     *)
(* each in an operating system process of its own.  Callers share the      *)
(* Keychain item, the refresh lock file and the provider; `auth login` and *)
(* `auth logout` write the Keychain item without taking the lock.          *)
(*                                                                         *)
(* Steps of one caller that touch only its own memory are merged with the  *)
(* shared access next to them: sending a refresh request with the re-read  *)
(* that decides it, apply_refresh and serialize with the replace that      *)
(* publishes their result.  A caller may crash between any two steps.      *)
(*                                                                         *)
(* Tokens are numbers issued in increasing order.  A credential issued     *)
(* under number n has access token n; its refresh token is n when the      *)
(* provider rotated it and an older number when the provider omitted it.   *)
(***************************************************************************)
EXTENDS Naturals

CONSTANTS
    Caller,     \* invocations of with_renewable_authorized_credential
    NoCaller,   \* holder of the free refresh lock
    Punctual,   \* callers that keep running; the others may stall for ever
    MaxToken,   \* bound: how many token sets the provider issues
    MaxPolls    \* WAIT_TIMEOUT in units of POLL_INTERVAL (1300 in the code)

ASSUME CallerAssumption == NoCaller \notin Caller /\ Punctual \subseteq Caller
ASSUME BoundAssumption == MaxToken \in Nat \ {0} /\ MaxPolls \in Nat

VARIABLES
    keychain,   \* the harness-owned Keychain item
    saved,      \* history: access tokens that were in the Keychain item
    aged,       \* access tokens expired, about to expire or without expiry
    minted,     \* the number of token sets the provider has issued
    consumed,   \* refresh tokens the provider has rotated away
    orphans,    \* tokens of requests in flight that no caller waits for
    lost,       \* history: tokens of refreshes whose result was not saved
    reused,     \* history: tokens the provider received after rotating them
    holder,     \* the caller that holds the refresh lock
    intruded,   \* history: login or logout wrote since the last spender's re-read
    pc,         \* where each caller is
    attempted,  \* attempted_bytes (and the record they decode to)
    contacted,  \* contacted_refresh_endpoint
    refused,    \* the credential the model answered with 401, if any
    elapsed,    \* time spent waiting for the lock, in poll intervals
    reply,      \* the refresh response on its way to a waiting caller
    requests,   \* history: refresh requests a caller has sent
    outcome     \* what the caller's invocation returned

store == <<keychain, saved>>
provider == <<aged, minted, consumed, orphans, reused>>
coordination == <<holder, intruded>>
locals == <<attempted, contacted, refused, elapsed, reply, requests, outcome>>
vars == <<store, provider, coordination, lost, pc, locals>>

-----------------------------------------------------------------------------
Token == 1 .. MaxToken
Number == 0 .. MaxToken

(* Keychain bytes, as the two reads tell them apart.  "malformed" bytes are *)
(* written by a login whose access token or account id is no header value.  *)
Item == [form : {"absent", "v1", "unsupported", "malformed"},
         access : Number, refresh : Number]
Blank(form) == [form |-> form, access |-> 0, refresh |-> 0]
Absent == Blank("absent")
Issued(form, n) == [form |-> form, access |-> n, refresh |-> n]

(* A refresh response.  refresh = 0 stands for an omitted refresh_token;    *)
(* "invalid" for a success that apply_refresh rejects.                      *)
Reply == [kind : {"none", "granted", "invalid", "refused", "unavailable"},
          access : Number, refresh : Number]
Answer(kind) == [kind |-> kind, access |-> 0, refresh |-> 0]

Outcome ==
    {"none", "Returned", "Unauthorized", "Crashed", "NotConnected",
     "StoreUnavailable", "UnsupportedVersion", "InvalidCredential",
     "RefreshCoordinationBusy", "RefreshTemporarilyUnavailable",
     "ReauthenticationRequired"}

Init ==
    /\ keychain \in {Absent, Blank("unsupported"), Issued("v1", 1)}
    /\ saved = {keychain.access}
    /\ aged = {}
    /\ minted = 1
    /\ consumed = {}
    /\ orphans = {}
    /\ lost = {}
    /\ reused = {}
    /\ holder = NoCaller
    /\ intruded = FALSE
    /\ pc = [c \in Caller |-> "idle"]
    /\ attempted = [c \in Caller |-> Absent]
    /\ contacted = [c \in Caller |-> FALSE]
    /\ refused = [c \in Caller |-> Absent]
    /\ elapsed = [c \in Caller |-> 0]
    /\ reply = [c \in Caller |-> Answer("none")]
    /\ requests = [c \in Caller |-> 0]
    /\ outcome = [c \in Caller |-> "none"]

-----------------------------------------------------------------------------
(* read_renewable_record: the item decodes, or the read ends the invocation *)
RejectedForm == {<<"absent", "NotConnected">>, <<"unsupported", "UnsupportedVersion">>,
                 <<"malformed", "InvalidCredential">>}
ReadErrors(item) ==
    {"StoreUnavailable"} \cup
    {error \in Outcome : <<item.form, error>> \in RejectedForm}

RefreshDue(item) == item.access \in aged

(* Defect for the mutation runs: the rotated refresh token is dropped. *)
ApplyRefreshKeepsOldToken(record, response) ==
    [form |-> "v1", access |-> response.access, refresh |-> record.refresh]

ApplyRefresh(record, response) ==
    [form |-> "v1",
     access |-> response.access,
     refresh |-> IF response.refresh = 0 THEN record.refresh
                                         ELSE response.refresh]

Free(c) == IF holder = c THEN NoCaller ELSE holder

(* The invocation of c ends; a lock guard it holds is dropped. *)
Finish(c, result) ==
    /\ pc' = [pc EXCEPT ![c] = "done"]
    /\ outcome' = [outcome EXCEPT ![c] = result]
    /\ holder' = Free(c)
    /\ UNCHANGED <<store, aged, minted, consumed, reused, intruded, attempted,
                   contacted, refused, elapsed, reply, requests>>

-----------------------------------------------------------------------------
(* Defects for the mutation runs, one per action they replace. *)
BusyOneTooLate(c) ==
    /\ pc[c] = "acquire"
    /\ holder # NoCaller
    /\ elapsed[c] > MaxPolls
    /\ Finish(c, "RefreshCoordinationBusy")
    /\ UNCHANGED <<orphans, lost>>

GrantedWhileHeld(c) ==
    /\ pc[c] = "acquire"
    /\ holder' = c
    /\ pc' = [pc EXCEPT ![c] = "reread"]
    /\ UNCHANGED <<store, provider, intruded, lost, locals>>

AdoptUnchanged(c) ==
    /\ pc[c] = "reread"
    /\ keychain.form = "v1"
    /\ attempted' = [attempted EXCEPT ![c] = keychain]
    /\ holder' = NoCaller
    /\ pc' = [pc EXCEPT ![c] = "call"]
    /\ UNCHANGED <<store, provider, intruded, lost, contacted, refused, elapsed,
                   reply, requests, outcome>>

KeepFirstErrorAlways(c) ==
    /\ pc[c] = "reread"
    /\ keychain = attempted[c]
    /\ refused[c] # Absent
    /\ Finish(c, "Unauthorized")
    /\ UNCHANGED <<orphans, lost>>

SpendWithoutCompare(c) ==
    /\ pc[c] = "reread"
    /\ keychain.form = "v1"
    /\ refused[c] # Absent => ~contacted[c]
    /\ contacted' = [contacted EXCEPT ![c] = @ \/ refused[c] = Absent]
    /\ requests' = [requests EXCEPT ![c] = @ + 1]
    /\ intruded' = FALSE
    /\ pc' = [pc EXCEPT ![c] = "await"]
    /\ UNCHANGED <<store, provider, holder, lost, attempted, refused, elapsed,
                   reply, outcome>>

SpendAgain(c) ==
    /\ pc[c] = "reread"
    /\ keychain.form = "v1"
    /\ keychain = attempted[c]
    /\ contacted' = [contacted EXCEPT ![c] = TRUE]
    /\ requests' = [requests EXCEPT ![c] = @ + 1]
    /\ intruded' = FALSE
    /\ pc' = [pc EXCEPT ![c] = "await"]
    /\ UNCHANGED <<store, provider, holder, lost, attempted, refused, elapsed,
                   reply, outcome>>

SaveFailureIgnored(c) ==
    /\ pc[c] = "await"
    /\ reply[c].kind = "granted"
    /\ attempted' = [attempted EXCEPT ![c] = ApplyRefresh(attempted[c], reply[c])]
    /\ holder' = NoCaller
    /\ pc' = [pc EXCEPT ![c] = "call"]
    /\ lost' = lost \cup {attempted[c].refresh}
    /\ UNCHANGED <<store, provider, intruded, contacted, refused, elapsed, reply,
                   requests, outcome>>

-----------------------------------------------------------------------------
(* The first read of the Keychain, and what refresh_due says of its record. *)
FirstRead(c) ==
    /\ pc[c] = "idle"
    /\ keychain.form = "v1"
    /\ attempted' = [attempted EXCEPT ![c] = keychain]
    /\ pc' = [pc EXCEPT ![c] = IF RefreshDue(keychain) THEN "acquire" ELSE "call"]
    /\ UNCHANGED <<store, provider, coordination, lost, contacted, refused,
                   elapsed, reply, requests, outcome>>

FirstReadFails(c) ==
    /\ pc[c] = "idle"
    /\ \E error \in ReadErrors(keychain) : Finish(c, error)
    /\ UNCHANGED <<orphans, lost>>

(* FileRefreshLock::acquire.  The wait clock is read only after a failed    *)
(* try, and a sleep takes at least one poll interval.                       *)
Granted(c) ==
    /\ pc[c] = "acquire"
    /\ holder = NoCaller
    /\ holder' = c
    /\ pc' = [pc EXCEPT ![c] = "reread"]
    /\ UNCHANGED <<store, provider, intruded, lost, locals>>

Poll(c) ==
    /\ pc[c] = "acquire"
    /\ holder # NoCaller
    /\ elapsed[c] < MaxPolls
    /\ \E slept \in (elapsed[c] + 1) .. MaxPolls :
           elapsed' = [elapsed EXCEPT ![c] = slept]
    /\ UNCHANGED <<store, provider, coordination, lost, pc, attempted, contacted,
                   refused, reply, requests, outcome>>

Busy(c) ==
    /\ pc[c] = "acquire"
    /\ holder # NoCaller
    /\ elapsed[c] >= MaxPolls
    /\ Finish(c, "RefreshCoordinationBusy")
    /\ UNCHANGED <<orphans, lost>>

LockUnavailable(c) ==
    /\ pc[c] = "acquire"
    /\ Finish(c, "StoreUnavailable")
    /\ UNCHANGED <<orphans, lost>>

-----------------------------------------------------------------------------
(* The re-read under the lock. *)
RereadFails(c) ==
    /\ pc[c] = "reread"
    /\ \E error \in ReadErrors(keychain) : Finish(c, error)
    /\ UNCHANGED <<orphans, lost>>

(* The bytes changed: another process renewed, and its record is used. *)
Adopt(c) ==
    /\ pc[c] = "reread"
    /\ keychain.form = "v1"
    /\ keychain # attempted[c]
    /\ attempted' = [attempted EXCEPT ![c] = keychain]
    /\ holder' = NoCaller
    /\ pc' = [pc EXCEPT ![c] = "call"]
    /\ UNCHANGED <<store, provider, intruded, lost, contacted, refused, elapsed,
                   reply, requests, outcome>>

(* The 401 was for a credential this invocation has already refreshed. *)
KeepFirstError(c) ==
    /\ pc[c] = "reread"
    /\ keychain = attempted[c]
    /\ refused[c] # Absent
    /\ contacted[c]
    /\ Finish(c, "Unauthorized")
    /\ UNCHANGED <<orphans, lost>>

(* The bytes are those of the attempt: their refresh token is sent.  Only   *)
(* the refresh before the first call sets contacted_refresh_endpoint.       *)
Spend(c) ==
    /\ pc[c] = "reread"
    /\ keychain.form = "v1"
    /\ keychain = attempted[c]
    /\ refused[c] # Absent => ~contacted[c]
    /\ contacted' = [contacted EXCEPT ![c] = @ \/ refused[c] = Absent]
    /\ requests' = [requests EXCEPT ![c] = @ + 1]
    /\ intruded' = FALSE
    /\ pc' = [pc EXCEPT ![c] = "await"]
    /\ UNCHANGED <<store, provider, holder, lost, attempted, refused, elapsed,
                   reply, outcome>>

(* The request is answered by an error the caller understands. *)
Declined(c) ==
    /\ pc[c] = "await"
    /\ \/ /\ reply[c].kind = "refused"
          /\ Finish(c, "ReauthenticationRequired")
       \/ /\ reply[c].kind = "unavailable"
          /\ Finish(c, "RefreshTemporarilyUnavailable")
    /\ UNCHANGED <<orphans, lost>>

(* A success that apply_refresh rejects. *)
InvalidReply(c) ==
    /\ pc[c] = "await"
    /\ reply[c].kind = "invalid"
    /\ Finish(c, "InvalidCredential")
    /\ lost' = lost \cup {attempted[c].refresh}
    /\ UNCHANGED orphans

(* A connection failure, a timeout, or a response that is not read in time, *)
(* too long or no JSON; a request without a response may still arrive.      *)
GiveUp(c) ==
    /\ pc[c] = "await"
    /\ Finish(c, "RefreshTemporarilyUnavailable")
    /\ lost' = lost \cup {attempted[c].refresh}
    /\ \/ UNCHANGED orphans
       \/ /\ reply[c].kind = "none"
          /\ orphans' = orphans \cup {attempted[c].refresh}

(* apply_refresh, serialize and CredentialStore::replace; the guard drops.  *)
Save(c) ==
    /\ pc[c] = "await"
    /\ reply[c].kind = "granted"
    /\ keychain' = ApplyRefresh(attempted[c], reply[c])
    /\ saved' = saved \cup {reply[c].access}
    /\ attempted' = [attempted EXCEPT ![c] = ApplyRefresh(attempted[c], reply[c])]
    /\ reply' = [reply EXCEPT ![c] = Answer("none")]
    /\ holder' = NoCaller
    /\ pc' = [pc EXCEPT ![c] = "call"]
    /\ UNCHANGED <<provider, intruded, lost, contacted, refused, elapsed,
                   requests, outcome>>

SaveFails(c) ==
    /\ pc[c] = "await"
    /\ reply[c].kind = "granted"
    /\ Finish(c, "StoreUnavailable")
    /\ lost' = lost \cup {attempted[c].refresh}
    /\ UNCHANGED orphans

-----------------------------------------------------------------------------
(* The model request made with the attempted credential. *)
CallReturns(c) ==
    /\ pc[c] = "call"
    /\ Finish(c, "Returned")
    /\ UNCHANGED <<orphans, lost>>

(* The first 401 leads to the lock again, with a new wait; the replay's is  *)
(* returned.                                                                *)
CallRejected(c) ==
    /\ pc[c] = "call"
    /\ refused[c] = Absent
    /\ refused' = [refused EXCEPT ![c] = attempted[c]]
    /\ elapsed' = [elapsed EXCEPT ![c] = 0]
    /\ pc' = [pc EXCEPT ![c] = "acquire"]
    /\ UNCHANGED <<store, provider, coordination, lost, attempted, contacted,
                   reply, requests, outcome>>

ReplayRejected(c) ==
    /\ pc[c] = "call"
    /\ refused[c] # Absent
    /\ Finish(c, "Unauthorized")
    /\ UNCHANGED <<orphans, lost>>

(* The process dies; the operating system releases its file lock. *)
Crash(c) ==
    /\ pc[c] \in {"acquire", "reread", "await", "call"}
    /\ Finish(c, "Crashed")
    /\ lost' = IF pc[c] = "await" THEN lost \cup {attempted[c].refresh} ELSE lost
    /\ orphans' = IF pc[c] = "await" /\ reply[c].kind = "none"
                  THEN orphans \cup {attempted[c].refresh} ELSE orphans

-----------------------------------------------------------------------------
(* The provider (external).  A token it has rotated away is refused; any    *)
(* other is rotated, with or without a new refresh token, or refused, or    *)
(* the request fails before it is processed.                                *)
Rotate(c) ==
    /\ pc[c] = "await"
    /\ reply[c].kind = "none"
    /\ attempted[c].refresh \notin consumed
    /\ minted < MaxToken
    /\ minted' = minted + 1
    /\ \E kind \in {"granted", "invalid"}, rotated \in {0, minted + 1} :
           /\ reply' = [reply EXCEPT ![c] = [kind |-> kind, access |-> minted + 1,
                                             refresh |-> rotated]]
           /\ consumed' = IF rotated = 0 THEN consumed
                          ELSE consumed \cup {attempted[c].refresh}
    /\ UNCHANGED <<store, aged, orphans, reused, coordination, lost, pc,
                   attempted, contacted, refused, elapsed, requests, outcome>>

Refuse(c) ==
    /\ pc[c] = "await"
    /\ reply[c].kind = "none"
    /\ reply' = [reply EXCEPT ![c] = Answer("refused")]
    /\ reused' = reused \cup ({attempted[c].refresh} \cap consumed)
    /\ UNCHANGED <<store, aged, minted, consumed, orphans, coordination, lost, pc,
                   attempted, contacted, refused, elapsed, requests, outcome>>

Unprocessed(c) ==
    /\ pc[c] = "await"
    /\ reply[c].kind = "none"
    /\ reply' = [reply EXCEPT ![c] = Answer("unavailable")]
    /\ UNCHANGED <<store, provider, coordination, lost, pc, attempted,
                   contacted, refused, elapsed, requests, outcome>>

(* A request nobody waits for is processed, or never arrives. *)
OrphanArrives(t) ==
    /\ t \in orphans
    /\ orphans' = orphans \ {t}
    /\ consumed' = consumed \cup {t}
    /\ reused' = reused \cup ({t} \cap consumed)
    /\ UNCHANGED <<store, aged, minted, coordination, lost, pc, locals>>

(* Time passes for an access token. *)
Age(t) ==
    /\ t \in (1 .. minted) \ aged
    /\ aged' = aged \cup {t}
    /\ UNCHANGED <<store, minted, consumed, orphans, reused, coordination, lost,
                   pc, locals>>

-----------------------------------------------------------------------------
(* login_with up to its replace, which takes no lock. *)
Login ==
    /\ minted < MaxToken
    /\ minted' = minted + 1
    /\ \E form \in {"v1", "malformed"} : keychain' = Issued(form, minted + 1)
    /\ saved' = saved \cup {minted + 1}
    /\ intruded' = TRUE
    /\ UNCHANGED <<aged, consumed, orphans, reused, holder, lost, pc, locals>>

(* logout_with, which neither reads the item nor takes the lock. *)
Logout ==
    /\ keychain' = Absent
    /\ intruded' = TRUE
    /\ UNCHANGED <<saved, provider, holder, lost, pc, locals>>

Acquire(c) == Granted(c) \/ Poll(c) \/ Busy(c) \/ LockUnavailable(c)

Step(c) ==
    \/ FirstRead(c) \/ FirstReadFails(c)
    \/ Acquire(c)
    \/ RereadFails(c) \/ Adopt(c) \/ KeepFirstError(c) \/ Spend(c)
    \/ Declined(c) \/ InvalidReply(c) \/ GiveUp(c) \/ Save(c) \/ SaveFails(c)
    \/ CallReturns(c) \/ CallRejected(c) \/ ReplayRejected(c)

Provider(c) == Rotate(c) \/ Refuse(c) \/ Unprocessed(c)

Next ==
    \/ \E c \in Caller : Step(c) \/ Crash(c) \/ Provider(c)
    \/ \E t \in Token : OrphanArrives(t) \/ Age(t)
    \/ Login
    \/ Logout

Spec == Init /\ [][Next]_vars

(* Only punctual callers are sure to be scheduled.  Each of their own steps *)
(* is bounded by a timeout of the code, and none of them waits for a        *)
(* failure of the Keychain or of the lock file.                             *)
Progress(c) == Step(c) /\ outcome'[c] # "StoreUnavailable"

LiveSpec == Spec /\ \A c \in Punctual : WF_vars(Progress(c))

-----------------------------------------------------------------------------
(* The state of every variable of the renewal stays in its domain. *)
TypeOK ==
    /\ keychain \in Item
    /\ saved \subseteq Number
    /\ aged \subseteq Token /\ consumed \subseteq Token /\ orphans \subseteq Token
    /\ lost \subseteq Token /\ reused \subseteq Token
    /\ minted \in Token
    /\ holder \in Caller \cup {NoCaller}
    /\ intruded \in BOOLEAN
    /\ pc \in [Caller -> {"idle", "acquire", "reread", "await", "call", "done"}]
    /\ attempted \in [Caller -> Item]
    /\ contacted \in [Caller -> BOOLEAN]
    /\ refused \in [Caller -> Item]
    /\ elapsed \in [Caller -> 0 .. MaxPolls]
    /\ reply \in [Caller -> Reply]
    /\ requests \in [Caller -> Nat]
    /\ outcome \in [Caller -> Outcome]

(* While a refresh request is out, its sender holds the lock and the token  *)
(* it spends is the stored one, unless login or logout wrote in between:    *)
(* the re-read under the lock stays valid until the save.                   *)
SpendsStoredToken ==
    \A c \in Caller :
        pc[c] = "await" => holder = c /\ (intruded \/ keychain = attempted[c])

(* The stored refresh token is one the provider still accepts, except while *)
(* its replacement is on the way to the lock holder, or after a refresh     *)
(* whose result was lost.                                                   *)
StoredTokenLive ==
    keychain.refresh \in consumed =>
        \/ keychain.refresh \in lost
        \/ \E c \in Caller : /\ pc[c] = "await"
                             /\ attempted[c].refresh = keychain.refresh
                             /\ reply[c].kind \in {"granted", "invalid"}

(* No caller spends a token that was already rotated, unless the caller     *)
(* that rotated it never saved the result: serialising the refreshes and    *)
(* re-reading under the lock leaves no other double spend.                  *)
ReusedOnlyAfterLoss == reused \subseteq lost

(* The model is called only with a credential that was saved before. *)
SavedBeforeUse ==
    \A c \in Caller : pc[c] = "call" => attempted[c].access \in saved

(* A replay never presents the credential that was answered with 401. *)
ReplayDiffers ==
    \A c \in Caller :
        pc[c] = "call" /\ refused[c] # Absent => attempted[c] # refused[c]

(* One invocation contacts the refresh endpoint at most once, over both of  *)
(* its refresh sites.                                                       *)
OneRefresh == \A c \in Caller : requests[c] <= 1

(* A 401 reaches the caller only after its credential was renewed, by the   *)
(* invocation itself or by adopting another process's replacement.          *)
RenewedBeforeUnauthorized ==
    \A c \in Caller :
        outcome[c] = "Unauthorized" => requests[c] = 1 \/ attempted[c] # refused[c]

(* Without login or logout in between, no save puts back an older           *)
(* credential than the one it overwrites.                                   *)
NoRegression ==
    [][keychain' # keychain /\ ~intruded' => keychain'.access > keychain.access]_vars

(* A punctual caller's invocation ends although other callers stall for     *)
(* ever, the holder of the lock included.                                   *)
EndsDespiteStalls ==
    \A c \in Punctual : pc[c] # "idle" ~> pc[c] = "done"

(* SECURITY.md: "concurrent callers must not double-spend a refresh token". *)
NoDoubleSpend == reused = {}

(* README.md: after logout, "Reconnect with the existing browser login      *)
(* command": only a login puts a credential back.                           *)
LogoutDisconnects ==
    [][keychain = Absent /\ keychain' # Absent => Login]_vars
=============================================================================
