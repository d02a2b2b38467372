--------------------------- MODULE LoginFlowProofs ---------------------------
(***************************************************************************)
(* The safety of logins, for every number of logins and ports: only the    *)
(* user's own answer ends a wait, and only an approved login is stored.    *)
(***************************************************************************)
EXTENDS LoginFlow, TLAPS

(* How far a login must have come: a code it exchanges is its own, one it    *)
(* stores has been exchanged, and one that reported success has ended.       *)
Progressed ==
    \A l \in Login :
        /\ pc[l] = "exchange" => code[l] = l
        /\ pc[l] = "store" => code[l] = l /\ l \in redeemed
        /\ pc[l] # "done" => outcome[l] = "none"

(* The actions of one login that end it, and their results. *)
Ends(l) ==
    \/ BindFails(l) \/ TimedOut(l) \/ ListenerFails(l) \/ ExchangeFails(l)
    \/ StoreFails(l) \/ Kill(l)

Continues(l) == LookAtDeadline(l) \/ NoRequest(l) \/ Ignore(l)

(* A request that a login accepts comes from an authorization of its own. *)
LEMMA AcceptedWasSent ==
    ASSUME NEW l \in Login, NEW request \in sent \cup Stray, Accepted(l, request)
    PROVE  request \in sent /\ request.state = l
BY LoginAssumption DEF Stray, Accepted

(* Every variable of the login keeps its type. *)
LEMMA TypeStep == TypeOK /\ [Next]_vars => TypeOK'
<1> SUFFICES ASSUME TypeOK, [Next]_vars PROVE TypeOK'
  OBVIOUS
<1> USE BoundsAssumption, LoginAssumption DEF TypeOK
<1>0. CASE UNCHANGED vars
  BY <1>0 DEF vars
<1>1. ASSUME NEW l \in Login, Bind(l) PROVE TypeOK'
  BY <1>1 DEF Bind, Port
<1>2. ASSUME NEW l \in Login, Ends(l) PROVE TypeOK'
  BY <1>2 DEF Ends, BindFails, TimedOut, ListenerFails, ExchangeFails, StoreFails, Kill,
              Return, Failure
<1>3. ASSUME NEW l \in Login, Continues(l) PROVE TypeOK'
  BY <1>3 DEF Continues, LookAtDeadline, NoRequest, Ignore
<1>4. ASSUME NEW l \in Login, TakeCode(l) PROVE TypeOK'
  BY <1>4, AcceptedWasSent DEF TakeCode
<1>5. ASSUME NEW l \in Login, TakeRefusal(l) PROVE TypeOK'
  <2>1. PICK request \in sent \cup Stray :
            Meaning[request.decision] # "Code" /\ Return(l, Meaning[request.decision])
    BY <1>5 DEF TakeRefusal
  <2>2. request.decision \in Decision
    BY DEF Stray, Request
  <2>3. Meaning[request.decision] \in Failure
    BY <2>1, <2>2 DEF Meaning, Decision, Failure
  <2> QED
    BY <1>5, <2>1, <2>3 DEF TakeRefusal, Return
<1>6. ASSUME NEW l \in Login, Redeem(l) PROVE TypeOK'
  BY <1>6 DEF Redeem, Return, Failure
<1>7. ASSUME NEW l \in Login, Store(l) PROVE TypeOK'
  BY <1>7 DEF Store
<1>11. ASSUME NEW l \in Login, Connected(l) PROVE TypeOK'
  BY <1>11 DEF Connected, Return
<1>8. ASSUME NEW l \in Login, Authorize(l) PROVE TypeOK'
  BY <1>8 DEF Authorize, Redirect, Request, Port
<1>9. CASE Tick
  BY <1>9 DEF Tick
<1>10. CASE Logout
  BY <1>10 DEF Logout
<1> QED
  BY <1>0, <1>1, <1>2, <1>3, <1>4, <1>5, <1>6, <1>7, <1>8, <1>9, <1>10, <1>11
     DEF Next, Step, Wait, Ends, Continues

(* Type correctness of the login, for every number of logins and ports. *)
THEOREM LoginTypeCorrect == Spec => []TypeOK
<1>1. Init => TypeOK
  BY BoundsAssumption, LoginAssumption DEF Init, TypeOK, Port, Request
<1> QED
  BY <1>1, TypeStep, PTL DEF Spec

-----------------------------------------------------------------------------
(* Nothing that answers an authorization is ever taken back. *)
LEMMA AnswersRemain ==
    TypeOK /\ [Next]_vars => sent \subseteq sent' /\ redeemed \subseteq redeemed'
BY DEF Next, vars, Step, Wait, Bind, BindFails, LookAtDeadline, TimedOut, NoRequest,
       ListenerFails, Ignore, TakeCode, TakeRefusal, Redeem, ExchangeFails, Store,
       StoreFails, Connected, Logout, Authorize, Redirect, Kill, Tick, Return

(* A result is no answer, unless a refusal is returned by TakeRefusal. *)
LEMMA AnswersDiffer ==
    /\ \A d \in Decision : Meaning[d] \notin {"none", "Connected"}
    /\ \A d, e \in Decision : Meaning[d] = Meaning[e] => d = e
    /\ \A d \in Decision :
           Meaning[d] \notin {"CallbackPortsUnavailable", "TimedOut", "InvalidCallback",
               "TokenExchangeUnavailable", "TokenExchangeRejected",
               "TokenResponseMalformed", "CredentialStoreUnavailable", "Killed"}
BY DEF Decision, Meaning

(* The invariant: each step keeps every login's answer its own. *)
LEMMA OwnAnswerStep == TypeOK /\ OnlyOwnAnswer /\ [Next]_vars => OnlyOwnAnswer'
<1> SUFFICES ASSUME TypeOK, OnlyOwnAnswer, [Next]_vars PROVE OnlyOwnAnswer'
  OBVIOUS
<1>a. sent \subseteq sent'
  BY AnswersRemain
<1> DEFINE Kept(l) ==
        /\ code' = code
        /\ \A k \in Login \ {l} : outcome'[k] = outcome[k]
        /\ \/ outcome'[l] = outcome[l]
           \/ \A d \in Decision : outcome'[l] # Meaning[d]
<1>b. ASSUME NEW l \in Login, Kept(l) PROVE OnlyOwnAnswer'
  BY <1>a, <1>b DEF OnlyOwnAnswer
<1> HIDE DEF Kept
<1>0. CASE UNCHANGED vars
  BY <1>0, <1>a DEF vars, OnlyOwnAnswer
<1>2. ASSUME NEW l \in Login, Ends(l) PROVE OnlyOwnAnswer'
  <2>1. Kept(l)
    BY <1>2, AnswersDiffer DEF Kept, TypeOK, Ends, BindFails, TimedOut, ListenerFails,
       ExchangeFails, StoreFails, Kill, Return
  <2> QED
    BY <2>1, <1>b
<1>3. ASSUME NEW l \in Login, Continues(l) \/ Bind(l) \/ Authorize(l) PROVE OnlyOwnAnswer'
  <2>1. Kept(l)
    BY <1>3 DEF Kept, Continues, LookAtDeadline, NoRequest, Ignore, Bind, Authorize, Redirect
  <2> QED
    BY <2>1, <1>b
<1>4. ASSUME NEW l \in Login, TakeCode(l) PROVE OnlyOwnAnswer'
  <2>1. PICK request \in sent \cup Stray :
            /\ Accepted(l, request) /\ Meaning[request.decision] = "Code"
            /\ code' = [code EXCEPT ![l] = request.state]
    BY <1>4 DEF TakeCode
  <2>2. request \in sent /\ request.state = l /\ request.decision = "code"
    BY <2>1, AcceptedWasSent, AnswersDiffer DEF TypeOK, Request, Decision, Meaning
  <2>3. outcome' = outcome
    BY <1>4 DEF TakeCode
  <2> QED
    BY <1>a, <2>1, <2>2, <2>3 DEF OnlyOwnAnswer, TypeOK
<1>5. ASSUME NEW l \in Login, TakeRefusal(l) PROVE OnlyOwnAnswer'
  <2>1. PICK request \in sent \cup Stray :
            Accepted(l, request) /\ Return(l, Meaning[request.decision])
    BY <1>5 DEF TakeRefusal
  <2>2. request \in sent /\ request.state = l /\ request.decision \in Decision
    BY <2>1, AcceptedWasSent DEF TypeOK, Request
  <2>3. code' = code /\ outcome' = [outcome EXCEPT ![l] = Meaning[request.decision]]
    BY <2>1 DEF Return
  <2> QED
    BY <1>a, <2>2, <2>3, AnswersDiffer DEF OnlyOwnAnswer, TypeOK
<1>6. ASSUME NEW l \in Login, Redeem(l) \/ Store(l) \/ Connected(l) PROVE OnlyOwnAnswer'
  <2>1. Kept(l)
    BY <1>6, AnswersDiffer DEF Kept, TypeOK, Redeem, Store, Connected, Return
  <2> QED
    BY <2>1, <1>b
<1>7. CASE Tick \/ Logout
  BY <1>7, <1>a DEF Tick, Logout, OnlyOwnAnswer
<1> QED
  BY <1>0, <1>2, <1>3, <1>4, <1>5, <1>6, <1>7
     DEF Next, Step, Wait, Ends, Continues

(* Only an answer the user gave to this authorization ends a wait, however   *)
(* many logins share the ports.                                              *)
THEOREM OnlyOwnAnswerAlways == Spec => []OnlyOwnAnswer
<1>1. Init => OnlyOwnAnswer
  BY AnswersDiffer DEF Init, OnlyOwnAnswer
<1> QED
  BY <1>1, LoginTypeCorrect, OwnAnswerStep, PTL DEF Spec

-----------------------------------------------------------------------------
StoredInv == Progressed /\ StoredWasApproved

(* The invariant: a login stores only after its own code was exchanged, and  *)
(* a login that has stored can only report success or be killed.            *)
LEMMA StoredStep ==
    TypeOK /\ OnlyOwnAnswer /\ StoredInv /\ [Next]_vars => StoredInv'
<1> SUFFICES ASSUME TypeOK, OnlyOwnAnswer, StoredInv, [Next]_vars PROVE StoredInv'
  OBVIOUS
<1>a. sent \subseteq sent' /\ redeemed \subseteq redeemed'
  BY AnswersRemain
<1>b. ASSUME keychain' = keychain,
             \/ keychain = NoLogin
             \/ /\ outcome'[keychain] = outcome[keychain]
                /\ pc[keychain] = "stored" => pc'[keychain] = "stored"
      PROVE  StoredWasApproved'
  BY <1>a, <1>b DEF StoredInv, StoredWasApproved
<1>c. ASSUME NEW l \in Login, pc[l] \notin {"stored", "done"}, keychain' = keychain,
             \A k \in Login \ {l} : outcome'[k] = outcome[k] /\ pc'[k] = pc[k]
      PROVE  StoredWasApproved'
  BY <1>b, <1>c DEF StoredInv, StoredWasApproved, Progressed, TypeOK
<1>d. ASSUME NEW l \in Login, pc[l] = "stored", keychain' = keychain,
             outcome'[l] \in {"Connected", "Killed"},
             \A k \in Login \ {l} : outcome'[k] = outcome[k] /\ pc'[k] = pc[k]
      PROVE  StoredWasApproved'
  BY <1>a, <1>d DEF StoredInv, StoredWasApproved, TypeOK
<1> USE DEF StoredInv, Progressed, TypeOK
<1>0. CASE UNCHANGED vars
  BY <1>0 DEF vars, StoredWasApproved
<1>2. ASSUME NEW l \in Login, Ends(l) \/ Connected(l) PROVE StoredInv'
  <2>1. /\ pc[l] # "done" /\ keychain' = keychain /\ redeemed' = redeemed
        /\ pc[l] = "stored" => Return(l, "Killed") \/ Return(l, "Connected")
    BY <1>2 DEF Ends, BindFails, TimedOut, ListenerFails, ExchangeFails, StoreFails, Kill,
       Connected
  <2>2. PICK result \in Failure \cup {"Connected"} : Return(l, result)
    BY <1>2 DEF Ends, BindFails, TimedOut, ListenerFails, ExchangeFails, StoreFails, Kill,
       Connected, Failure
  <2>3. /\ pc' = [pc EXCEPT ![l] = "done"] /\ outcome' = [outcome EXCEPT ![l] = result]
        /\ code' = code
    BY <2>2 DEF Return
  <2>4. pc[l] = "stored" => result \in {"Connected", "Killed"}
    BY <2>1, <2>3 DEF Return
  <2>5. StoredWasApproved'
    BY <2>1, <2>3, <2>4, <1>c, <1>d
  <2>6. Progressed'
    BY <2>1, <2>3
  <2> QED
    BY <2>5, <2>6
<1>3. ASSUME NEW l \in Login, Continues(l) \/ Bind(l) \/ TakeCode(l) PROVE StoredInv'
  <2>1. /\ keychain' = keychain /\ redeemed' = redeemed /\ outcome' = outcome
        /\ pc[l] \notin {"stored", "done"}
        /\ \A k \in Login \ {l} : pc'[k] = pc[k] /\ code'[k] = code[k]
        /\ pc'[l] \in {"wait", "receive", "exchange"}
        /\ pc'[l] = "exchange" => TakeCode(l)
    BY <1>3 DEF Continues, LookAtDeadline, NoRequest, Ignore, Bind, TakeCode
  <2>2. TakeCode(l) => code'[l] = l
    BY AcceptedWasSent DEF TakeCode
  <2> QED
    BY <2>1, <2>2, <1>c
<1>4. ASSUME NEW l \in Login, TakeRefusal(l) PROVE StoredInv'
  <2>1. PICK request \in sent \cup Stray : Return(l, Meaning[request.decision])
    BY <1>4 DEF TakeRefusal
  <2>2. pc[l] \notin {"stored", "done"} /\ keychain' = keychain /\ redeemed' = redeemed
    BY <1>4 DEF TakeRefusal
  <2> QED
    BY <2>1, <2>2, <1>c DEF Return
<1>5. ASSUME NEW l \in Login, Redeem(l) PROVE StoredInv'
  <2>1. /\ pc[l] = "exchange" /\ code[l] = l /\ keychain' = keychain /\ code' = code
        /\ redeemed' = redeemed \cup {l}
        /\ \A k \in Login \ {l} : pc'[k] = pc[k] /\ outcome'[k] = outcome[k]
        /\ \/ pc'[l] = "store" /\ outcome'[l] = outcome[l]
           \/ pc'[l] = "done"
    BY <1>5 DEF Redeem, Return
  <2> QED
    BY <2>1, <1>c
<1>6. ASSUME NEW l \in Login, Store(l) PROVE StoredInv'
  <2>1. /\ pc[l] = "store" /\ keychain' = l /\ redeemed' = redeemed /\ code' = code
        /\ pc' = [pc EXCEPT ![l] = "stored"] /\ outcome' = outcome
    BY <1>6 DEF Store
  <2>2. \E r \in sent : r.state = l /\ r.decision = "code"
    BY <2>1, LoginAssumption DEF OnlyOwnAnswer, Decision
  <2> QED
    BY <1>a, <2>1, <2>2 DEF StoredWasApproved
<1>7. ASSUME NEW l \in Login, Authorize(l) PROVE StoredInv'
  BY <1>7, <1>b DEF Authorize, Redirect
<1>8. CASE Tick
  BY <1>8, <1>b DEF Tick
<1>9. CASE Logout
  BY <1>9 DEF Logout, StoredWasApproved
<1> QED
  BY <1>0, <1>2, <1>3, <1>4, <1>5, <1>6, <1>7, <1>8, <1>9
     DEF Next, Step, Wait, Ends, Continues

(* The Keychain never holds the credential of a login that reported a        *)
(* failure, or that the user did not approve.                                *)
THEOREM StoredWasApprovedAlways == Spec => []StoredWasApproved
<1>1. Init => StoredInv
  BY DEF Init, StoredInv, Progressed, StoredWasApproved
<1>2. StoredInv => StoredWasApproved
  BY DEF StoredInv
<1> QED
  BY <1>1, <1>2, LoginTypeCorrect, OnlyOwnAnswerAlways, StoredStep, PTL DEF Spec
=============================================================================
