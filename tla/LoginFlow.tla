------------------------------ MODULE LoginFlow ------------------------------
(***************************************************************************)
(* `auth login openai-codex`: login_with of crates/openai-codex-auth, with *)
(* the callback listener, the code exchange and the final replace.         *)
(*                                                                         *)
(* Several login processes may run at once or one after the other, on the  *)
(* same two ports.  Each has secrets of its own (a state and a verifier),  *)
(* so a state, an authorization code and a verifier are named by the login *)
(* they belong to.  The user answers an authorization in the browser at    *)
(* any time, also after its login has ended; the redirect may be delivered *)
(* again, and other local programs may send requests to the ports.         *)
(***************************************************************************)
EXTENDS Naturals, FiniteSets

CONSTANTS
    Login,      \* login processes, each with its own AuthSecrets
    NoLogin,    \* the secrets of nobody
    Ports,      \* how many redirect_ports there are (2 in the code)
    Timeout,    \* login_timeout in ticks of the clock
    Answers     \* how many different answers a user gives to one authorization

ASSUME LoginAssumption == NoLogin \notin Login
ASSUME BoundsAssumption == Ports \in Nat \ {0} /\ Timeout \in Nat \ {0} /\ Answers \in Nat

VARIABLES
    pc,         \* where each login is
    port,       \* the port of its listener, 0 if it has none
    url,        \* the port its authorization URL names, 0 before it is shown
    foreign,    \* ports other programs listen on
    remaining,  \* ticks until its deadline
    sent,       \* redirects a browser has been sent to, and may deliver again
    code,       \* the login whose code it received
    redeemed,   \* codes the provider has exchanged
    outcome,    \* what login_with returned
    keychain    \* the login whose credential is stored

vars == <<pc, port, url, foreign, remaining, sent, code, redeemed, outcome, keychain>>

-----------------------------------------------------------------------------
Port == 1 .. Ports
Decision == {"code", "access_denied", "server_error", "unknown_error"}

(* What validate_request sees of a request: "invalid" stands for a wrong    *)
(* method, path, encoding or parameter, "oversized" for a long target.      *)
Request == [port : Port, form : {"callback", "invalid", "oversized"},
            state : Login \cup {NoLogin}, decision : Decision]

(* Requests that do not come from an authorization. *)
Stray == {r \in Request : r.form # "callback" \/ r.state = NoLogin}

Meaning ==
    [code |-> "Code", access_denied |-> "AuthorizationDenied",
     server_error |-> "AuthorizationTemporarilyUnavailable",
     unknown_error |-> "AuthorizationFailed"]

Failure ==
    {"CallbackPortsUnavailable", "TimedOut", "InvalidCallback", "AuthorizationDenied",
     "AuthorizationTemporarilyUnavailable", "AuthorizationFailed",
     "TokenExchangeUnavailable", "TokenExchangeRejected", "TokenResponseMalformed",
     "CredentialStoreUnavailable", "Killed"}

Open(p) == p \notin foreign /\ \A l \in Login : port[l] # p

Init ==
    /\ pc = [l \in Login |-> "idle"]
    /\ port = [l \in Login |-> 0]
    /\ url = [l \in Login |-> 0]
    /\ foreign \in SUBSET Port
    /\ remaining = [l \in Login |-> 0]
    /\ sent = {}
    /\ code = [l \in Login |-> NoLogin]
    /\ redeemed = {}
    /\ outcome = [l \in Login |-> "none"]
    /\ keychain = NoLogin

-----------------------------------------------------------------------------
(* login_with returns; a listener it still has is closed. *)
Return(l, result) ==
    /\ pc' = [pc EXCEPT ![l] = "done"]
    /\ outcome' = [outcome EXCEPT ![l] = result]
    /\ port' = [port EXCEPT ![l] = 0]
    /\ UNCHANGED <<url, foreign, remaining, sent, code>>

(* bind takes the first port that is free; the deadline starts with wait. *)
Bind(l) ==
    /\ pc[l] = "idle"
    /\ \E p \in Port :
           /\ Open(p) /\ \A q \in 1 .. (p - 1) : ~Open(q)
           /\ port' = [port EXCEPT ![l] = p]
           /\ url' = [url EXCEPT ![l] = p]
    /\ remaining' = [remaining EXCEPT ![l] = Timeout]
    /\ pc' = [pc EXCEPT ![l] = "wait"]
    /\ UNCHANGED <<foreign, sent, code, redeemed, outcome, keychain>>

(* No port is free, or the first free one is bound to no usable address:    *)
(* then the ports after it are not tried.                                   *)
BindFails(l) ==
    /\ pc[l] = "idle"
    /\ \/ (\A p \in Port : ~Open(p)) /\ Return(l, "CallbackPortsUnavailable")
       \/ (\E p \in Port : Open(p)) /\ Return(l, "InvalidCallback")
    /\ UNCHANGED <<redeemed, keychain>>

-----------------------------------------------------------------------------
(* The loop of wait: the deadline is looked at, then recv_timeout.  A       *)
(* request may be received a little after the deadline.                     *)
LookAtDeadline(l) ==
    /\ pc[l] = "wait"
    /\ remaining[l] > 0
    /\ pc' = [pc EXCEPT ![l] = "receive"]
    /\ UNCHANGED <<port, url, foreign, remaining, sent, code, redeemed, outcome,
                   keychain>>

TimedOut(l) ==
    /\ pc[l] = "wait"
    /\ remaining[l] = 0
    /\ Return(l, "TimedOut")
    /\ UNCHANGED <<redeemed, keychain>>

NoRequest(l) ==
    /\ pc[l] = "receive"
    /\ pc' = [pc EXCEPT ![l] = "wait"]
    /\ UNCHANGED <<port, url, foreign, remaining, sent, code, redeemed, outcome,
                   keychain>>

ListenerFails(l) ==
    /\ pc[l] = "receive"
    /\ Return(l, "InvalidCallback")
    /\ UNCHANGED <<redeemed, keychain>>

(* Defects for the mutation runs. *)
AcceptedAnyState(l, request) == request.form = "callback"

IgnoreRestartsDeadline(l) ==
    /\ pc[l] = "receive"
    /\ \E request \in sent \cup Stray : request.port = port[l] /\ request.state # l
    /\ pc' = [pc EXCEPT ![l] = "wait"]
    /\ remaining' = [remaining EXCEPT ![l] = Timeout]
    /\ UNCHANGED <<port, url, foreign, sent, code, redeemed, outcome, keychain>>

RedeemStoresAtOnce(l) ==
    /\ pc[l] = "exchange"
    /\ redeemed' = redeemed \cup {code[l]}
    /\ pc' = [pc EXCEPT ![l] = "store"]
    /\ keychain' = l
    /\ UNCHANGED <<port, url, foreign, remaining, sent, code, outcome>>

(* validate_request: a well-formed callback with the state of this login. *)
Accepted(l, request) == request.form = "callback" /\ request.state = l

(* Answered with 400 or 414, and the wait goes on. *)
Ignore(l) ==
    /\ pc[l] = "receive"
    /\ \E request \in sent \cup Stray :
           request.port = port[l] /\ ~Accepted(l, request)
    /\ pc' = [pc EXCEPT ![l] = "wait"]
    /\ UNCHANGED <<port, url, foreign, remaining, sent, code, redeemed, outcome,
                   keychain>>

(* A code ends the wait and closes the listener, whether or not the browser *)
(* gets its receipt.                                                        *)
TakeCode(l) ==
    /\ pc[l] = "receive"
    /\ \E request \in sent \cup Stray :
           /\ request.port = port[l] /\ Accepted(l, request)
           /\ Meaning[request.decision] = "Code"
           /\ code' = [code EXCEPT ![l] = request.state]
    /\ port' = [port EXCEPT ![l] = 0]
    /\ pc' = [pc EXCEPT ![l] = "exchange"]
    /\ UNCHANGED <<url, foreign, remaining, sent, redeemed, outcome, keychain>>

TakeRefusal(l) ==
    /\ pc[l] = "receive"
    /\ \E request \in sent \cup Stray :
           /\ request.port = port[l] /\ Accepted(l, request)
           /\ Meaning[request.decision] # "Code"
           /\ Return(l, Meaning[request.decision])
    /\ UNCHANGED <<redeemed, keychain>>

-----------------------------------------------------------------------------
(* exchange_code.  The provider exchanges a code once, for the verifier of  *)
(* the login it was issued for; the response may then be lost, or be none   *)
(* that validate accepts.                                                   *)
Redeem(l) ==
    /\ pc[l] = "exchange"
    /\ code[l] = l /\ l \notin redeemed
    /\ redeemed' = redeemed \cup {l}
    /\ \/ /\ pc' = [pc EXCEPT ![l] = "store"]
          /\ UNCHANGED <<port, url, foreign, remaining, sent, code, outcome>>
       \/ Return(l, "TokenExchangeUnavailable")
       \/ Return(l, "TokenResponseMalformed")
    /\ UNCHANGED keychain

ExchangeFails(l) ==
    /\ pc[l] = "exchange"
    /\ \E error \in {"TokenExchangeUnavailable", "TokenExchangeRejected"} : Return(l, error)
    /\ UNCHANGED <<redeemed, keychain>>

(* replace, and then the return: the process may be killed in between, when *)
(* the item is stored and nobody has been told.                             *)
Store(l) ==
    /\ pc[l] = "store"
    /\ pc' = [pc EXCEPT ![l] = "stored"]
    /\ keychain' = l
    /\ UNCHANGED <<port, url, foreign, remaining, sent, code, redeemed, outcome>>

Connected(l) ==
    /\ pc[l] = "stored"
    /\ Return(l, "Connected")
    /\ UNCHANGED <<redeemed, keychain>>

StoreFails(l) ==
    /\ pc[l] = "store"
    /\ Return(l, "CredentialStoreUnavailable")
    /\ UNCHANGED <<redeemed, keychain>>

(* logout_with in another process. *)
Logout ==
    /\ keychain' = NoLogin
    /\ UNCHANGED <<pc, port, url, foreign, remaining, sent, code, redeemed, outcome>>

-----------------------------------------------------------------------------
(* What authorization_url asks the provider for: a redirect to the port of  *)
(* this listener, with the state of this login.                             *)
Redirect(l, decision) ==
    [port |-> url[l], form |-> "callback", state |-> l, decision |-> decision]

(* The user answers an authorization whose URL was shown (external). *)
Authorize(l) ==
    /\ url[l] # 0
    /\ Cardinality({r \in sent : r.state = l}) < Answers
    /\ \E decision \in Decision : sent' = sent \cup {Redirect(l, decision)}
    /\ UNCHANGED <<pc, port, url, foreign, remaining, code, redeemed, outcome,
                   keychain>>

(* The user interrupts the command (external). *)
Kill(l) ==
    /\ pc[l] \notin {"idle", "done"}
    /\ Return(l, "Killed")
    /\ UNCHANGED <<redeemed, keychain>>

(* Time passes for every login that waits (external). *)
Tick ==
    /\ \E l \in Login : port[l] # 0 /\ remaining[l] > 0
    /\ remaining' = [l \in Login |-> IF port[l] # 0 /\ remaining[l] > 0
                                     THEN remaining[l] - 1 ELSE remaining[l]]
    /\ UNCHANGED <<pc, port, url, foreign, sent, code, redeemed, outcome, keychain>>

Wait(l) ==
    \/ LookAtDeadline(l) \/ TimedOut(l) \/ NoRequest(l)
    \/ Ignore(l) \/ TakeCode(l) \/ TakeRefusal(l)

Step(l) ==
    \/ Bind(l) \/ BindFails(l)
    \/ Wait(l) \/ ListenerFails(l)
    \/ Redeem(l) \/ ExchangeFails(l)
    \/ Store(l) \/ StoreFails(l) \/ Connected(l)

Next ==
    \/ \E l \in Login : Step(l) \/ Authorize(l) \/ Kill(l)
    \/ Tick
    \/ Logout

Spec == Init /\ [][Next]_vars

(* recv_timeout returns within 100 ms and the clock goes on; nobody need    *)
(* send anything, and anybody may send requests for ever.                   *)
LiveSpec == Spec /\ WF_vars(Tick) /\ \A l \in Login : WF_vars(Wait(l))

-----------------------------------------------------------------------------
(* Every variable of the login stays in its domain. *)
TypeOK ==
    /\ pc \in [Login -> {"idle", "wait", "receive", "exchange", "store", "stored",
                        "done"}]
    /\ port \in [Login -> 0 .. Ports] /\ url \in [Login -> 0 .. Ports]
    /\ \A l \in Login : port[l] # 0 <=> pc[l] \in {"wait", "receive"}
    /\ foreign \subseteq Port
    /\ remaining \in [Login -> 0 .. Timeout]
    /\ sent \subseteq Request
    /\ code \in [Login -> Login \cup {NoLogin}]
    /\ redeemed \subseteq Login
    /\ outcome \in [Login -> Failure \cup {"none", "Connected"}]
    /\ keychain \in Login \cup {NoLogin}

(* Only an answer the user gave to this very authorization ends a wait: not *)
(* the redirect of an earlier login on the same port, nor a stray request.  *)
OnlyOwnAnswer ==
    \A l \in Login :
        /\ code[l] # NoLogin => code[l] = l
        /\ \A d \in Decision :
               outcome[l] = Meaning[d] \/ (d = "code" /\ code[l] # NoLogin) =>
                   \E r \in sent : r.state = l /\ r.decision = d

(* The stored credential belongs to a login that the user approved and      *)
(* whose code was exchanged with its own verifier, and that reported        *)
(* success, unless it has not returned yet or was killed before it could:   *)
(* a login that reports a failure leaves the record before it alone.        *)
StoredWasApproved ==
    keychain # NoLogin =>
        /\ pc[keychain] = "stored" \/ outcome[keychain] \in {"Connected", "Killed"}
        /\ keychain \in redeemed
        /\ \E r \in sent : r.state = keychain /\ r.decision = "code"

(* Whatever requests arrive, and however many, a wait ends. *)
WaitEnds == \A l \in Login : pc[l] \in {"wait", "receive"} ~> port[l] = 0
=============================================================================
