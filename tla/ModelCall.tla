------------------------------- MODULE ModelCall -------------------------------
(***************************************************************************)
(* One model call of crates/openai-codex-model/src/lib.rs: ask and         *)
(* test_connection, with model_call_with and the renewal boundary around   *)
(* it, as the time they take and the requests they send.  What other       *)
(* processes did to the Keychain item meanwhile is the choice of what a    *)
(* read finds; CredentialRenewal has those processes.  The body is decoded *)
(* by EventStream; here its outcome and its duration are chosen.           *)
(*                                                                         *)
(* Every wait takes no time or as long as its timeout lets it, in seconds. *)
(* Keychain operations are not bounded by the code and take no time here.  *)
(***************************************************************************)
EXTENDS TerminalText

CONSTANTS Answers       \* texts the model gives

VARIABLES
    phase,      \* where the call is
    elapsed,    \* seconds since it began
    left,       \* what is left of the current request's budget
    contacted,  \* contacted_refresh_endpoint
    requests,   \* the statuses of the model requests sent, in order
    answer      \* what the call returned

callVars == <<phase, elapsed, left, contacted, requests, answer>>

-----------------------------------------------------------------------------
WAIT_TIMEOUT == 65
REFRESH_TIMEOUT == 30      \* of one read, and the elapsed budget of a refresh
REQUEST_TIMEOUT == 60      \* of sending a request, and of one read of its body
TOTAL_BUDGET == 120        \* of a request and its body
MAX_PROMPT_BYTES == 32 * 1024
MAX_TEXT_BYTES == 256 * 1024

(* sse::decode returns no longer text (LimitsExact of EventStream).         *)
ASSUME AnswersAssumption ==
    \A t \in Answers : t \in ModelText /\ Size(t) <= MAX_TEXT_BYTES

NoAnswer == [kind |-> "none"]
Text(t) == [kind |-> "text", text |-> t]
Error(e) == [kind |-> "error", error |-> e]

ValidPrompt(prompt) == ~IsBlank(prompt) /\ Size(prompt) <= MAX_PROMPT_BYTES

(* What a status that is no success means. *)
Refusal ==
    [Unauthorized |-> "ConnectionRejected", Forbidden |-> "AccessDenied",
     RequestTimeout |-> "TemporarilyUnavailable", TooManyRequests |-> "RateLimited",
     ServerError |-> "TemporarilyUnavailable", Redirection |-> "UnexpectedProviderResponse",
     ClientError |-> "Rejected", Informational |-> "UnexpectedProviderResponse"]

(* Error of a credential read, lock or refresh, and of the decoder. *)
UseError ==
    [UnsupportedPlatform |-> "UnsupportedPlatform", NotConnected |-> "NotConnected",
     StoreUnavailable |-> "CredentialStoreUnavailable",
     UnsupportedVersion |-> "InvalidCredential", InvalidCredential |-> "InvalidCredential",
     RefreshCoordinationBusy |-> "CredentialRefreshBusy",
     RefreshTemporarilyUnavailable |-> "CredentialRefreshUnavailable",
     ReauthenticationRequired |-> "ConnectionRejected"]
DecodeError ==
    [Invalid |-> "InvalidProviderResponse", LimitExceeded |-> "ResponseTooLarge",
     TimedOut |-> "CallTimedOut", ModelFailed |-> "ModelCallFailed",
     EmptyText |-> "EmptyResponse"]

ReadError == {"NotConnected", "StoreUnavailable", "UnsupportedVersion", "InvalidCredential"}

CallInit ==
    /\ phase = "idle"
    /\ elapsed = 0 /\ left = 0
    /\ contacted = FALSE
    /\ requests = <<>>
    /\ answer = NoAnswer

Replaying == requests # <<>>

(* Time passes, the call goes on at another place. *)
Goto(place, seconds) ==
    /\ phase' = place
    /\ elapsed' = elapsed + seconds
Fail(e, seconds) == Goto("done", seconds) /\ answer' = Error(e)
FailUse(e, seconds) == Fail(UseError[e], seconds)

-----------------------------------------------------------------------------
(* ask and test_connection up to the boundary; only ask validates. *)
Enter(prompt) ==
    /\ phase = "idle"
    /\ IF ValidPrompt(prompt)
       THEN Goto("read", 0) /\ UNCHANGED answer
       ELSE Fail("InvalidPrompt", 0)
    /\ UNCHANGED <<left, contacted, requests>>

ReadRecord ==
    /\ phase = "read"
    /\ \/ \E place \in {"send", "lock"} :    \* as refresh_due says
              Goto(place, 0) /\ UNCHANGED answer
       \/ \E e \in ReadError \cup {"UnsupportedPlatform"} : FailUse(e, 0)
    /\ UNCHANGED <<left, contacted, requests>>

Acquire ==
    /\ phase = "lock"
    /\ \/ \E s \in {0, WAIT_TIMEOUT} : Goto("reread", s) /\ UNCHANGED answer
       \/ FailUse("RefreshCoordinationBusy", WAIT_TIMEOUT)
       \/ FailUse("StoreUnavailable", 0)
    /\ UNCHANGED <<left, contacted, requests>>

(* Another process's record is adopted; otherwise the record is renewed, or *)
(* a refresh before the call leaves nothing but the first error.            *)
Reread ==
    /\ phase = "reread"
    /\ \/ Goto("send", 0) /\ UNCHANGED answer
       \/ IF Replaying /\ contacted
          THEN Fail("ConnectionRejected", 0)
          ELSE Goto("refresh", 0) /\ UNCHANGED answer
       \/ \E e \in ReadError : FailUse(e, 0)
    /\ UNCHANGED <<left, contacted, requests>>

(* request_refresh: an answer counts only within the budget, and the read   *)
(* that exceeds it may take its own timeout.                                *)
Refresh ==
    /\ phase = "refresh"
    /\ \/ \E s \in {0, REFRESH_TIMEOUT} :
              \/ Goto("save", s) /\ UNCHANGED answer
              \/ FailUse("ReauthenticationRequired", s)
              \/ FailUse("InvalidCredential", s)         \* apply_refresh
       \/ \E s \in {0, 2 * REFRESH_TIMEOUT} : FailUse("RefreshTemporarilyUnavailable", s)
    /\ contacted' = (contacted \/ ~Replaying)
    /\ UNCHANGED <<left, requests>>

Save ==
    /\ phase = "save"
    /\ \/ Goto("send", 0) /\ UNCHANGED answer
       \/ FailUse("StoreUnavailable", 0)
    /\ UNCHANGED <<left, contacted, requests>>

-----------------------------------------------------------------------------
(* Defects for the mutation runs, each named for the definition it replaces. *)
RenewableAfterOutage(e) ==
    e \in {"ConnectionRejected", "TemporarilyUnavailable"} /\ requests = <<>>
RenewableAgain(e) == e = "ConnectionRejected"

(* is_unauthorized, which is asked about the first request only. *)
Renewable(e) == e = "ConnectionRejected" /\ requests = <<>>

(* send, validate_status and validate_content_type. *)
Send ==
    /\ phase = "send"
    /\ \/ \E s \in {0, REQUEST_TIMEOUT}, status \in DOMAIN Refusal \cup {"Success"} :
              /\ requests' = Append(requests, status)
              /\ \/ /\ status = "Success"
                    /\ Goto("decode", s)
                    /\ left' = TOTAL_BUDGET - s
                    /\ UNCHANGED answer
                 \/ status = "Success" /\ Fail("InvalidProviderResponse", s) /\ UNCHANGED left
                 \/ /\ status # "Success"
                    /\ UNCHANGED left
                    /\ IF Renewable(Refusal[status])
                       THEN Goto("lock", s) /\ UNCHANGED answer
                       ELSE Fail(Refusal[status], s)
       \/ /\ requests' = Append(requests, "none")
          /\ UNCHANGED left
          /\ \/ Fail("CallTimedOut", REQUEST_TIMEOUT)
             \/ \E s \in {0, REQUEST_TIMEOUT} : Fail("Unavailable", s)
    /\ UNCHANGED contacted

(* sse::decode with what is left of the budget: the read that exceeds it    *)
(* may take its own timeout, and then counts for nothing.                   *)
Decode ==
    /\ phase = "decode"
    /\ \/ \E s \in {0, left} :
              \/ \E t \in Answers : Goto("done", s) /\ answer' = Text(t)
              \/ \E e \in DOMAIN DecodeError \ {"TimedOut"} : Fail(DecodeError[e], s)
       \/ \E s \in {REQUEST_TIMEOUT, left + REQUEST_TIMEOUT} :
              Fail(DecodeError["TimedOut"], s)
    /\ left' = 0
    /\ UNCHANGED <<contacted, requests>>

(* The caller takes the answer; what only the call used is forgotten. *)
CallOver ==
    /\ phase = "done"
    /\ elapsed' = 0 /\ contacted' = FALSE
    /\ UNCHANGED <<phase, left, requests, answer>>

CallNext == ReadRecord \/ Acquire \/ Reread \/ Refresh \/ Save \/ Send \/ Decode

-----------------------------------------------------------------------------
(* At most one request is answered, and the only request that is sent again *)
(* is a first one that was refused with 401.  An answer is returned only if *)
(* the last request was accepted.                                           *)
OneAnswer ==
    /\ Len(requests) <= 2
    /\ Len(requests) = 2 => requests[1] = "Unauthorized"
    /\ answer.kind = "text" => requests[Len(requests)] = "Success"

(* The budgets of one call sum up to no more than the 430 seconds of the    *)
(* README, whichever waits take their time.                                 *)
WithinBudget == elapsed <= 430
=============================================================================
