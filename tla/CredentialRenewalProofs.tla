----------------------- MODULE CredentialRenewalProofs -----------------------
(***************************************************************************)
(* Proofs of the safety properties of CredentialRenewal for every number   *)
(* of callers, tokens and polls.                                           *)
(*                                                                         *)
(* The properties are not inductive by themselves.  Four invariants are    *)
(* proved one after the other, each from the ones before it: TypeInv       *)
(* (records in use were decoded, numbers were issued), LockInv (the lock   *)
(* names the one caller past it), TokenInv (which refresh tokens can still *)
(* be spent) and PhaseInv (how far an invocation's renewal has come).      *)
(***************************************************************************)
EXTENDS CredentialRenewal, TLAPS

Active == {"acquire", "reread", "await", "call"}

(* Every action that ends an invocation, as far as the proofs need it. *)
Ends(c) ==
    /\ pc[c] # "done"
    /\ \E result \in Outcome :
           /\ Finish(c, result)
           /\ result = "Unauthorized" =>
                  \/ pc[c] = "reread" /\ contacted[c]
                  \/ pc[c] = "call" /\ refused[c] # Absent
    /\ pc[c] # "await" => lost' = lost /\ orphans' = orphans
    /\ lost' \in {lost, lost \cup {attempted[c].refresh}}
    /\ \/ orphans' = orphans
       \/ orphans' = orphans \cup {attempted[c].refresh} /\ attempted[c].refresh \in lost'
    /\ pc[c] = "await" /\ reply[c].kind \in {"granted", "invalid"} =>
           attempted[c].refresh \in lost'
    /\ reply[c].kind = "granted" => orphans' = orphans

(* The actions that do not end an invocation. *)
Continues(c) ==
    \/ FirstRead(c) \/ Granted(c) \/ Poll(c) \/ Adopt(c) \/ Spend(c) \/ Save(c)
    \/ CallRejected(c) \/ Rotate(c) \/ Refuse(c) \/ Unprocessed(c)

LEMMA EndingActions ==
    ASSUME NEW c \in Caller,
           \/ FirstReadFails(c) \/ Busy(c) \/ LockUnavailable(c) \/ RereadFails(c)
           \/ KeepFirstError(c) \/ Declined(c) \/ InvalidReply(c) \/ GiveUp(c)
           \/ SaveFails(c) \/ CallReturns(c) \/ ReplayRejected(c) \/ Crash(c)
    PROVE  Ends(c)
<1> USE DEF Ends, Outcome
<1>1. CASE FirstReadFails(c)
  <2>1. PICK error \in ReadErrors(keychain) : Finish(c, error)
    BY <1>1 DEF FirstReadFails
  <2>2. error \in Outcome /\ error # "Unauthorized"
    BY DEF ReadErrors, RejectedForm
  <2> QED
    BY <1>1, <2>1, <2>2 DEF FirstReadFails
<1>2. CASE RereadFails(c)
  <2>1. PICK error \in ReadErrors(keychain) : Finish(c, error)
    BY <1>2 DEF RereadFails
  <2>2. error \in Outcome /\ error # "Unauthorized"
    BY DEF ReadErrors, RejectedForm
  <2> QED
    BY <1>2, <2>1, <2>2 DEF RereadFails
<1>3. CASE Busy(c)
  BY <1>3 DEF Busy
<1>4. CASE LockUnavailable(c)
  BY <1>4 DEF LockUnavailable
<1>5. CASE KeepFirstError(c)
  BY <1>5 DEF KeepFirstError
<1>6. CASE Declined(c)
  BY <1>6 DEF Declined
<1>7. CASE InvalidReply(c)
  BY <1>7 DEF InvalidReply
<1>8. CASE GiveUp(c)
  BY <1>8 DEF GiveUp
<1>9. CASE SaveFails(c)
  BY <1>9 DEF SaveFails
<1>10. CASE CallReturns(c)
  BY <1>10 DEF CallReturns
<1>11. CASE ReplayRejected(c)
  BY <1>11 DEF ReplayRejected
<1>12. CASE Crash(c)
  BY <1>12 DEF Crash
<1> QED
  BY <1>1, <1>2, <1>3, <1>4, <1>5, <1>6, <1>7, <1>8, <1>9, <1>10, <1>11, <1>12

(* Next, sorted for the proofs. *)
LEMMA NextCases ==
    ASSUME [Next]_vars
    PROVE  \/ \E c \in Caller : Ends(c) \/ Continues(c)
           \/ \E t \in Token : OrphanArrives(t) \/ Age(t)
           \/ Login
           \/ Logout
           \/ UNCHANGED vars
<1>1. CASE \E c \in Caller : Step(c) \/ Crash(c) \/ Provider(c)
  <2>1. PICK c \in Caller : Step(c) \/ Crash(c) \/ Provider(c)
    BY <1>1
  <2>2. Ends(c) \/ Continues(c)
    BY <2>1, EndingActions DEF Step, Acquire, Provider, Continues
  <2> QED
    BY <2>2
<1> QED
  BY <1>1 DEF Next

-----------------------------------------------------------------------------
(* A record in use was decoded from version 1 bytes, whose refresh token    *)
(* is a token.                                                              *)
Decoded ==
    /\ keychain.form = "v1" => keychain.refresh \in Token
    /\ \A c \in Caller :
           pc[c] \in Active => attempted[c].form = "v1" /\ attempted[c].refresh \in Token

TypeInv == TypeOK /\ Decoded

LEMMA ItemTypes ==
    /\ Absent \in Item
    /\ \A form \in {"v1", "malformed", "unsupported"} : Blank(form) \in Item
    /\ \A form \in {"v1", "malformed"}, n \in Number : Issued(form, n) \in Item
    /\ \A kind \in {"none", "granted", "invalid", "refused", "unavailable"} :
           Answer(kind) \in Reply
BY BoundAssumption DEF Absent, Blank, Issued, Answer, Item, Reply, Number

LEMMA TypeInit == Init => TypeInv
<1> SUFFICES ASSUME Init PROVE TypeInv
  OBVIOUS
<1>1. 1 \in Token /\ 1 \in Number /\ Token \subseteq Number /\ 0 \in 0 .. MaxPolls
  BY BoundAssumption DEF Token, Number
<1>2. keychain \in Item /\ (keychain.form = "v1" => keychain.refresh \in Token)
  BY <1>1, ItemTypes DEF Init, Absent, Blank, Issued
<1>3. TypeOK
  BY <1>1, <1>2, ItemTypes DEF Init, TypeOK, Outcome, Item
<1>4. Decoded
  BY <1>2 DEF Init, Decoded, Active
<1> QED
  BY <1>3, <1>4 DEF TypeInv

LEMMA TypeEnds ==
    ASSUME TypeInv, NEW c \in Caller, Ends(c)
    PROVE  TypeInv'
<1> USE DEF TypeInv
<1>1. PICK result \in Outcome : Finish(c, result)
  BY DEF Ends
<1>2. lost' \subseteq Token /\ orphans' \subseteq Token
  <2>1. CASE pc[c] = "await"
    BY <2>1 DEF Ends, TypeOK, Decoded, Active
  <2>2. CASE pc[c] # "await"
    BY <2>2 DEF Ends, TypeOK
  <2> QED
    BY <2>1, <2>2
<1>3. TypeOK'
  BY <1>1, <1>2 DEF TypeOK, Finish, Free, store
<1>4. Decoded'
  BY <1>1 DEF TypeOK, Decoded, Finish, store, Active, Token
<1> QED
  BY <1>3, <1>4

LEMMA TypeContinues ==
    ASSUME TypeInv, NEW c \in Caller, Continues(c)
    PROVE  TypeInv'
<1> USE DEF TypeInv, store, provider, coordination, locals
<1>1. CASE FirstRead(c)
  BY <1>1 DEF FirstRead, TypeOK, Decoded, Active, Token
<1>2. CASE Granted(c)
  BY <1>2 DEF Granted, TypeOK, Decoded, Active, Token
<1>3. CASE Poll(c)
  <2>1. PICK slept \in (elapsed[c] + 1) .. MaxPolls :
            elapsed' = [elapsed EXCEPT ![c] = slept]
    BY <1>3 DEF Poll
  <2>2. slept \in 0 .. MaxPolls
    BY BoundAssumption DEF TypeOK
  <2> QED
    BY <1>3, <2>1, <2>2 DEF Poll, TypeOK, Decoded, Active, Token
<1>4. CASE Adopt(c)
  BY <1>4 DEF Adopt, TypeOK, Decoded, Active, Token
<1>5. CASE Spend(c)
  <2>1. contacted' \in [Caller -> BOOLEAN]
    BY <1>5, Zenon DEF Spend, TypeOK
  <2>2. requests' \in [Caller -> Nat]
    BY <1>5 DEF Spend, TypeOK
  <2>3. /\ pc' = [pc EXCEPT ![c] = "await"]
        /\ intruded' = FALSE
        /\ UNCHANGED <<store, provider, holder, lost, attempted, refused, elapsed,
                       reply, outcome>>
        /\ pc[c] = "reread"
    BY <1>5 DEF Spend
  <2> QED
    BY <2>1, <2>2, <2>3 DEF TypeOK, Decoded, Active, Token
<1>6. CASE Save(c)
  <2>1. /\ ApplyRefresh(attempted[c], reply[c]) \in Item
        /\ ApplyRefresh(attempted[c], reply[c]).form = "v1"
        /\ ApplyRefresh(attempted[c], reply[c]).refresh \in Token
        /\ reply[c].access \in Number
    BY <1>6, BoundAssumption
    DEF Save, ApplyRefresh, TypeOK, Decoded, Active, Item, Reply, Token, Number
  <2> QED
    BY <1>6, <2>1, ItemTypes DEF Save, TypeOK, Decoded, Active, Token
<1>7. CASE CallRejected(c)
  BY <1>7, BoundAssumption DEF CallRejected, TypeOK, Decoded, Active, Token
<1>8. CASE Rotate(c)
  <2>1. /\ minted + 1 \in Token
        /\ \A kind \in {"granted", "invalid"}, rotated \in {0, minted + 1} :
              [kind |-> kind, access |-> minted + 1, refresh |-> rotated] \in Reply
    BY <1>8, BoundAssumption DEF Rotate, TypeOK, Reply, Token, Number
  <2>2. attempted[c].refresh \in Token
    BY <1>8 DEF Rotate, Decoded, Active
  <2>3. reply' \in [Caller -> Reply] /\ consumed' \subseteq Token
    BY <1>8, <2>1, <2>2 DEF Rotate, TypeOK
  <2> QED
    BY <1>8, <2>1, <2>3 DEF Rotate, TypeOK, Decoded, Active, Token
<1>9. CASE Refuse(c)
  <2>1. reused' \subseteq Token
    BY <1>9 DEF Refuse, TypeOK
  <2> QED
    BY <1>9, <2>1, ItemTypes DEF Refuse, TypeOK, Decoded, Active, Token
<1>10. CASE Unprocessed(c)
  BY <1>10, ItemTypes DEF Unprocessed, TypeOK, Decoded, Active, Token
<1> QED
  BY <1>1, <1>2, <1>3, <1>4, <1>5, <1>6, <1>7, <1>8, <1>9, <1>10 DEF Continues

LEMMA TypeStep == TypeInv /\ [Next]_vars => TypeInv'
<1> SUFFICES ASSUME TypeInv, [Next]_vars PROVE TypeInv'
  OBVIOUS
<1> USE DEF TypeInv, store, provider, coordination, locals
<1>1. CASE \E c \in Caller : Ends(c) \/ Continues(c)
  BY <1>1, TypeEnds, TypeContinues
<1>2. CASE \E t \in Token : OrphanArrives(t) \/ Age(t)
  <2>1. PICK t \in Token : OrphanArrives(t) \/ Age(t)
    BY <1>2
  <2> QED
    BY <2>1 DEF OrphanArrives, Age, TypeOK, Decoded, Active, Token
<1>3. CASE Login
  <2>1. minted + 1 \in Token /\ minted + 1 \in Number
    BY <1>3, BoundAssumption DEF Login, TypeOK, Token, Number
  <2>2. keychain' \in Item /\ keychain'.refresh \in Token
    BY <1>3, <2>1, ItemTypes DEF Login, Issued
  <2> QED
    BY <1>3, <2>1, <2>2 DEF Login, TypeOK, Decoded, Active, Token
<1>4. CASE Logout
  BY <1>4, ItemTypes DEF Logout, TypeOK, Decoded, Active, Token, Absent, Blank
<1>5. CASE UNCHANGED vars
  BY <1>5 DEF vars, TypeOK, Decoded, Active, Token
<1> QED
  BY <1>1, <1>2, <1>3, <1>4, <1>5, NextCases

(* Every variable keeps its type: in particular the waits stay within       *)
(* WAIT_TIMEOUT and every record in use has a refresh token.                *)
THEOREM TypeCorrect == Spec => []TypeOK
<1>1. Spec => []TypeInv
  BY TypeInit, TypeStep, PTL DEF Spec
<1> QED
  BY <1>1, PTL DEF TypeInv

-----------------------------------------------------------------------------
(* The lock names exactly the caller between acquisition and release. *)
Exclusive == \A c \in Caller : pc[c] \in {"reread", "await"} <=> holder = c

LockInv == Exclusive /\ SpendsStoredToken

(* Numbers in use were issued. *)
WasIssued ==
    /\ keychain.access <= minted /\ keychain.refresh <= minted
    /\ \A c \in Caller : /\ attempted[c].access <= minted
                         /\ attempted[c].refresh <= minted
    /\ \A t \in consumed \cup orphans : t <= minted

(* What the answer to a refresh means for the tokens it names. *)
Answered(c) ==
    /\ reply[c].kind \notin {"granted", "invalid"} =>
           (attempted[c].refresh \in consumed => attempted[c].refresh \in lost)
    /\ reply[c].kind = "granted" =>
           /\ reply[c].access > attempted[c].access
           /\ reply[c].access <= minted /\ reply[c].refresh <= minted
           /\ reply[c].refresh \notin consumed \cup orphans
           /\ reply[c].refresh = 0 =>
                  (attempted[c].refresh \in consumed => attempted[c].refresh \in lost)

TokenInv ==
    /\ WasIssued
    /\ orphans \subseteq lost
    /\ ReusedOnlyAfterLoss
    /\ \A c \in Caller : pc[c] = "await" => Answered(c)
    /\ \A c \in Caller : pc[c] \notin {"await", "done"} => reply[c].kind = "none"
    /\ StoredTokenLive

(* How far the renewal of one invocation has come. *)
Phase(c) ==
    /\ pc[c] = "idle" => refused[c] = Absent
    /\ pc[c] \in {"acquire", "reread", "await"} => refused[c] \in {Absent, attempted[c]}
    /\ pc[c] \in {"idle", "acquire", "reread"} /\ refused[c] = Absent => requests[c] = 0
    /\ contacted[c] => requests[c] = 1
    /\ pc[c] \notin {"await", "done"} /\ ~contacted[c] =>
           requests[c] = 0 \/ (pc[c] = "call" /\ refused[c] # Absent)
    /\ pc[c] = "await" => requests[c] = 1 /\ (refused[c] = Absent => contacted[c])
    /\ requests[c] <= 1
    /\ pc[c] # "done" => outcome[c] = "none"

PhaseInv ==
    /\ \A c \in Caller : Phase(c)
    /\ ReplayDiffers
    /\ RenewedBeforeUnauthorized

(* A stored or used credential was saved before. *)
SavedInv ==
    /\ keychain.form = "v1" => keychain.access \in saved
    /\ \A c \in Caller : pc[c] \in Active => attempted[c].access \in saved

-----------------------------------------------------------------------------
LEMMA LockInit == Init => LockInv
BY CallerAssumption DEF Init, LockInv, Exclusive, SpendsStoredToken

LEMMA LockStep == TypeInv /\ LockInv /\ [Next]_vars => LockInv'
<1> SUFFICES ASSUME TypeInv, LockInv, [Next]_vars PROVE LockInv'
  OBVIOUS
<1> USE CallerAssumption DEF LockInv, Exclusive, SpendsStoredToken, store, provider,
        coordination, locals
<1>0. pc \in [Caller -> {"idle", "acquire", "reread", "await", "call", "done"}]
      /\ attempted \in [Caller -> Item]
  BY DEF TypeInv, TypeOK
<1>1. ASSUME NEW c \in Caller, Ends(c) PROVE LockInv'
  BY <1>0, <1>1 DEF Ends, Finish, Free
<1>2. ASSUME NEW c \in Caller, Continues(c) PROVE LockInv'
  <2>1. CASE FirstRead(c)
    BY <1>0, <2>1 DEF FirstRead
  <2>2. CASE Granted(c)
    BY <1>0, <2>2 DEF Granted
  <2>3. CASE Poll(c)
    BY <1>0, <2>3 DEF Poll
  <2>4. CASE Adopt(c)
    BY <1>0, <2>4 DEF Adopt
  <2>5. CASE Spend(c)
    BY <1>0, <2>5 DEF Spend
  <2>6. CASE Save(c)
    BY <1>0, <2>6 DEF Save
  <2>7. CASE CallRejected(c)
    BY <1>0, <2>7 DEF CallRejected
  <2>8. CASE Rotate(c) \/ Refuse(c) \/ Unprocessed(c)
    BY <1>0, <2>8 DEF Rotate, Refuse, Unprocessed
  <2> QED
    BY <1>2, <2>1, <2>2, <2>3, <2>4, <2>5, <2>6, <2>7, <2>8 DEF Continues
<1>3. CASE \E t \in Token : OrphanArrives(t) \/ Age(t)
  BY <1>3 DEF OrphanArrives, Age
<1>4. CASE Login \/ Logout
  BY <1>4 DEF Login, Logout
<1>5. CASE UNCHANGED vars
  BY <1>5 DEF vars
<1> QED
  BY <1>1, <1>2, <1>3, <1>4, <1>5, NextCases

(* While a refresh request is out its sender holds the lock and spends the  *)
(* stored token, for any number of callers.                                 *)
THEOREM SpendsStoredTokenAlways == Spec => []SpendsStoredToken
<1>1. Spec => [](TypeInv /\ LockInv)
  BY TypeInit, TypeStep, LockInit, LockStep, PTL DEF Spec
<1> QED
  BY <1>1, PTL DEF LockInv

-----------------------------------------------------------------------------
LEMMA TokenInit == Init => TokenInv
<1> SUFFICES ASSUME Init PROVE TokenInv
  OBVIOUS
<1>1. keychain.access <= 1 /\ keychain.refresh <= 1
  BY DEF Init, Absent, Blank, Issued
<1> QED
  BY <1>1 DEF Init, TokenInv, WasIssued, Answered, ReusedOnlyAfterLoss,
              StoredTokenLive, Absent, Blank, Answer

LEMMA TokenEnds ==
    ASSUME TypeInv, LockInv, TokenInv, NEW c \in Caller, Ends(c)
    PROVE  TokenInv'
<1>0. PICK result \in Outcome : Finish(c, result)
  BY DEF Ends
<1>1. /\ pc \in [Caller -> {"idle", "acquire", "reread", "await", "call", "done"}]
      /\ pc' = [pc EXCEPT ![c] = "done"]
      /\ UNCHANGED <<keychain, minted, consumed, reused, attempted, reply>>
  BY <1>0 DEF TypeInv, TypeOK, Finish, store
<1>2. lost \subseteq lost' /\ orphans' \subseteq lost'
  BY DEF Ends, TokenInv
<1>3. WasIssued'
  BY <1>1 DEF Ends, TokenInv, WasIssued
<1>4. ASSUME NEW d \in Caller, pc'[d] = "await" PROVE Answered(d)'
  <2>1. d # c /\ pc[d] = "await"
    BY <1>1, <1>4
  <2>2. pc[c] # "await"
    BY <2>1, CallerAssumption DEF LockInv, Exclusive
  <2>3. orphans' = orphans /\ lost' = lost
    BY <2>2 DEF Ends
  <2> QED
    BY <1>1, <2>1, <2>3 DEF TokenInv, Answered
<1>5. StoredTokenLive'
  BY <1>1, <1>2 DEF Ends, TokenInv, StoredTokenLive
<1>6. ReusedOnlyAfterLoss'
  BY <1>1, <1>2 DEF TokenInv, ReusedOnlyAfterLoss
<1>7. \A d \in Caller : pc'[d] \notin {"await", "done"} => reply'[d].kind = "none"
  BY <1>1 DEF TokenInv
<1> QED
  BY <1>2, <1>3, <1>4, <1>5, <1>6, <1>7 DEF TokenInv

(* The four actions of a caller and its provider that touch tokens, and the *)
(* others together.                                                         *)
LEMMA TokenContinues ==
    ASSUME TypeInv, LockInv, TokenInv, NEW c \in Caller, Continues(c)
    PROVE  TokenInv'
<1> USE DEF store, provider, coordination, locals
<1>0. /\ pc \in [Caller -> {"idle", "acquire", "reread", "await", "call", "done"}]
      /\ attempted \in [Caller -> Item] /\ reply \in [Caller -> Reply]
      /\ keychain \in Item /\ minted \in Token
      /\ consumed \subseteq Token /\ orphans \subseteq Token
      /\ \A d \in Caller : pc[d] = "await" => attempted[d].refresh \in Token
  BY DEF TypeInv, TypeOK, Decoded, Active
<1>1. CASE FirstRead(c) \/ Adopt(c)
  BY <1>0, <1>1
  DEF FirstRead, Adopt, TokenInv, WasIssued, Answered, ReusedOnlyAfterLoss, StoredTokenLive
<1>2. CASE Granted(c) \/ Poll(c) \/ CallRejected(c)
  BY <1>0, <1>2
  DEF Granted, Poll, CallRejected, TokenInv, WasIssued, Answered, ReusedOnlyAfterLoss,
      StoredTokenLive
<1>3. CASE Spend(c)
  <2>1. \A d \in Caller : pc[d] # "await"
    BY <1>3, CallerAssumption DEF Spend, LockInv, Exclusive
  <2>2. keychain.refresh \in consumed => keychain.refresh \in lost
    BY <2>1 DEF TokenInv, StoredTokenLive
  <2>3. /\ keychain = attempted[c] /\ reply[c].kind = "none"
        /\ pc' = [pc EXCEPT ![c] = "await"]
        /\ UNCHANGED <<keychain, minted, consumed, orphans, reused, lost, attempted, reply>>
    BY <1>3 DEF Spend, TokenInv
  <2> QED
    BY <1>0, <2>1, <2>2, <2>3
    DEF TokenInv, WasIssued, Answered, ReusedOnlyAfterLoss, StoredTokenLive
<1>4. CASE Save(c)
  <2> DEFINE new == ApplyRefresh(attempted[c], reply[c])
  <2>1. /\ keychain' = new
        /\ attempted' = [attempted EXCEPT ![c] = new]
        /\ reply' = [reply EXCEPT ![c] = Answer("none")]
        /\ pc' = [pc EXCEPT ![c] = "call"]
        /\ UNCHANGED <<minted, consumed, orphans, reused, lost>>
        /\ pc[c] = "await" /\ reply[c].kind = "granted" /\ Answered(c)
    BY <1>4 DEF Save, TokenInv
  <2>2. new.access <= minted /\ new.refresh <= minted
    BY <1>0, <2>1 DEF ApplyRefresh, Answered, TokenInv, WasIssued
  <2>3. new.refresh \in consumed => new.refresh \in lost
    BY <2>1 DEF ApplyRefresh, Answered
  <2>4. \A d \in Caller : pc'[d] # "await"
    BY <1>0, <2>1, CallerAssumption DEF LockInv, Exclusive
  <2>5. \A d \in Caller : pc'[d] \notin {"await", "done"} => reply'[d].kind = "none"
    BY <1>0, <2>1 DEF Answer, TokenInv
  <2> HIDE DEF new
  <2>6. WasIssued'
    BY <1>0, <2>1, <2>2 DEF TokenInv, WasIssued
  <2> QED
    BY <2>1, <2>3, <2>4, <2>5, <2>6 DEF TokenInv, ReusedOnlyAfterLoss, StoredTokenLive
<1>5. CASE Rotate(c)
  <2>1. PICK kind \in {"granted", "invalid"}, rotated \in {0, minted + 1} :
            /\ reply' = [reply EXCEPT ![c] = [kind |-> kind, access |-> minted + 1,
                                              refresh |-> rotated]]
            /\ consumed' = IF rotated = 0 THEN consumed
                           ELSE consumed \cup {attempted[c].refresh}
    BY <1>5 DEF Rotate
  <2>2. /\ minted' = minted + 1 /\ minted \in Nat /\ minted > 0
        /\ pc[c] = "await" /\ reply[c].kind = "none"
        /\ attempted[c].refresh \notin consumed
        /\ UNCHANGED <<keychain, orphans, reused, lost, pc, attempted>>
    BY <1>0, <1>5, BoundAssumption DEF Rotate, Token
  <2>3. \A d \in Caller : pc[d] = "await" => d = c
    BY <2>2, CallerAssumption DEF LockInv, Exclusive
  <2>4. /\ reply'[c].kind = kind /\ reply'[c].access = minted + 1
        /\ reply'[c].refresh = rotated
        /\ \A d \in Caller \ {c} : reply'[d] = reply[d]
    BY <1>0, <2>1
  <2>5. WasIssued'
    BY <1>0, <2>1, <2>2, BoundAssumption DEF TokenInv, WasIssued, Item, Number, Token
  <2>6. Answered(c)'
    BY <1>0, <2>1, <2>2, <2>4, BoundAssumption
    DEF TokenInv, WasIssued, Answered, Item, Number, Token
  <2>7. StoredTokenLive'
    BY <2>1, <2>2, <2>4 DEF TokenInv, StoredTokenLive
  <2>8. \A d \in Caller : pc'[d] \notin {"await", "done"} => reply'[d].kind = "none"
    BY <2>2, <2>4 DEF TokenInv
  <2> QED
    BY <2>2, <2>3, <2>5, <2>6, <2>7, <2>8 DEF TokenInv, ReusedOnlyAfterLoss
<1>6. CASE Refuse(c) \/ Unprocessed(c)
  <2>1. /\ pc[c] = "await" /\ reply[c].kind = "none"
        /\ UNCHANGED <<keychain, minted, consumed, orphans, lost, pc, attempted>>
        /\ reused' \subseteq reused \cup ({attempted[c].refresh} \cap consumed)
        /\ \E kind \in {"refused", "unavailable"} :
               reply' = [reply EXCEPT ![c] = Answer(kind)]
    BY <1>6 DEF Refuse, Unprocessed
  <2>2. /\ reply'[c].kind \in {"refused", "unavailable"}
        /\ \A d \in Caller \ {c} : reply'[d] = reply[d]
    BY <1>0, <2>1 DEF Answer
  <2>3. ReusedOnlyAfterLoss'
    BY <2>1 DEF TokenInv, Answered, ReusedOnlyAfterLoss
  <2>4. StoredTokenLive'
    BY <2>1, <2>2 DEF TokenInv, StoredTokenLive
  <2>5. \A d \in Caller : pc'[d] = "await" => Answered(d)'
    BY <2>1, <2>2 DEF TokenInv, Answered
  <2> QED
    BY <2>1, <2>2, <2>3, <2>4, <2>5 DEF TokenInv, WasIssued
<1> QED
  BY <1>1, <1>2, <1>3, <1>4, <1>5, <1>6 DEF Continues

LEMMA TokenStep == TypeInv /\ LockInv /\ TokenInv /\ [Next]_vars => TokenInv'
<1> SUFFICES ASSUME TypeInv, LockInv, TokenInv, [Next]_vars PROVE TokenInv'
  OBVIOUS
<1> USE DEF store, provider, coordination, locals
<1>1. CASE \E c \in Caller : Ends(c) \/ Continues(c)
  BY <1>1, TokenEnds, TokenContinues
<1>2. CASE \E t \in Token : OrphanArrives(t) \/ Age(t)
  BY <1>2
  DEF OrphanArrives, Age, TokenInv, WasIssued, Answered, ReusedOnlyAfterLoss,
      StoredTokenLive
<1>3. CASE Login
  <2>1. minted' = minted + 1 /\ minted \in Nat
    BY <1>3, BoundAssumption DEF Login, TypeInv, TypeOK, Token
  <2>2. /\ keychain'.access = minted + 1 /\ keychain'.refresh = minted + 1
        /\ UNCHANGED <<consumed, orphans, reused, lost, pc, attempted, reply>>
    BY <1>3 DEF Login, Issued
  <2>3. minted + 1 \notin consumed
    BY <2>1 DEF TokenInv, WasIssued
  <2>4. WasIssued'
    BY <2>1, <2>2, BoundAssumption
    DEF TokenInv, WasIssued, TypeInv, TypeOK, Item, Number, Token
  <2>5. \A c \in Caller : pc'[c] = "await" => Answered(c)'
    BY <2>1, <2>2, BoundAssumption
    DEF TokenInv, Answered, TypeInv, TypeOK, Reply, Number
  <2> QED
    BY <2>2, <2>3, <2>4, <2>5 DEF TokenInv, ReusedOnlyAfterLoss, StoredTokenLive
<1>4. CASE Logout
  <2>1. 0 \notin consumed /\ minted \in Nat
    BY BoundAssumption DEF TypeInv, TypeOK, Token
  <2> QED
    BY <1>4, <2>1
    DEF Logout, Absent, Blank, TokenInv, WasIssued, Answered, ReusedOnlyAfterLoss,
        StoredTokenLive
<1>5. CASE UNCHANGED vars
  BY <1>5
  DEF vars, TokenInv, WasIssued, Answered, ReusedOnlyAfterLoss, StoredTokenLive
<1> QED
  BY <1>1, <1>2, <1>3, <1>4, <1>5, NextCases

LEMMA TokensSafe == Spec => [](TypeInv /\ LockInv /\ TokenInv)
BY TypeInit, TypeStep, LockInit, LockStep, TokenInit, TokenStep, PTL DEF Spec

(* A rotated token reaches the provider again only if the refresh that      *)
(* rotated it lost its result: for any number of callers, crashes, logins   *)
(* and logouts.                                                             *)
THEOREM NoOtherDoubleSpend == Spec => []ReusedOnlyAfterLoss
BY TokensSafe, PTL DEF TokenInv

(* The stored refresh token stays usable unless a result was lost. *)
THEOREM CredentialContinuity == Spec => []StoredTokenLive
BY TokensSafe, PTL DEF TokenInv

(* Without login or logout in between, no save puts back an older           *)
(* credential than the one it overwrites.                                   *)
THEOREM SavesMoveForward == Spec => NoRegression
<1>1. ASSUME TypeInv, LockInv, TokenInv, [Next]_vars
      PROVE  [keychain' # keychain /\ ~intruded' => keychain'.access > keychain.access]_vars
  <2> SUFFICES ASSUME keychain' # keychain, ~intruded'
               PROVE  keychain'.access > keychain.access
    OBVIOUS
  <2> USE DEF store, provider, coordination, locals
  <2>1. PICK c \in Caller : Save(c)
    BY <1>1, NextCases
    DEF Ends, Finish, Continues, FirstRead, Granted, Poll, Adopt, Spend, CallRejected,
        Rotate, Refuse, Unprocessed, OrphanArrives, Age, Login, Logout, vars
  <2>2. keychain = attempted[c]
    BY <1>1, <2>1 DEF Save, LockInv, SpendsStoredToken
  <2>3. reply[c].access > attempted[c].access
    BY <1>1, <2>1 DEF Save, TokenInv, Answered
  <2> QED
    BY <2>1, <2>2, <2>3 DEF Save, ApplyRefresh
<1> QED
  BY <1>1, TokensSafe, PTL DEF Spec, NoRegression

-----------------------------------------------------------------------------
LEMMA SavedInit == Init => SavedInv
BY DEF Init, SavedInv, Active

LEMMA SavedStep == TypeInv /\ SavedInv /\ [Next]_vars => SavedInv'
<1> SUFFICES ASSUME TypeInv, SavedInv, [Next]_vars PROVE SavedInv'
  OBVIOUS
<1> USE DEF SavedInv, Active, store, provider, coordination, locals
<1>0. /\ pc \in [Caller -> {"idle", "acquire", "reread", "await", "call", "done"}]
      /\ attempted \in [Caller -> Item]
  BY DEF TypeInv, TypeOK
<1>1. ASSUME NEW c \in Caller, Ends(c) PROVE SavedInv'
  BY <1>0, <1>1 DEF Ends, Finish
<1>2. ASSUME NEW c \in Caller, Continues(c) PROVE SavedInv'
  <2>1. CASE Save(c)
    BY <1>0, <2>1 DEF Save, ApplyRefresh
  <2>2. CASE FirstRead(c) \/ Adopt(c) \/ Granted(c)
    BY <1>0, <2>2 DEF FirstRead, Adopt, Granted
  <2>3. CASE Poll(c) \/ Spend(c) \/ CallRejected(c)
    BY <1>0, <2>3 DEF Poll, Spend, CallRejected
  <2>4. CASE Rotate(c) \/ Refuse(c) \/ Unprocessed(c)
    BY <1>0, <2>4 DEF Rotate, Refuse, Unprocessed
  <2> QED
    BY <1>2, <2>1, <2>2, <2>3, <2>4 DEF Continues
<1>3. CASE \E t \in Token : OrphanArrives(t) \/ Age(t)
  BY <1>3 DEF OrphanArrives, Age
<1>4. CASE Login \/ Logout
  BY <1>4 DEF Login, Logout, Issued, Absent, Blank
<1>5. CASE UNCHANGED vars
  BY <1>5 DEF vars
<1> QED
  BY <1>1, <1>2, <1>3, <1>4, <1>5, NextCases

(* The model is only ever called with a credential that had been saved. *)
THEOREM SavedBeforeUseAlways == Spec => []SavedBeforeUse
<1>1. Spec => [](TypeInv /\ SavedInv)
  BY TypeInit, TypeStep, SavedInit, SavedStep, PTL DEF Spec
<1>2. SavedInv => SavedBeforeUse
  BY DEF SavedInv, SavedBeforeUse, Active
<1> QED
  BY <1>1, <1>2, PTL

-----------------------------------------------------------------------------
LEMMA PhaseInit == Init => PhaseInv
BY DEF Init, PhaseInv, Phase, ReplayDiffers, RenewedBeforeUnauthorized

(* A step that concerns one caller leaves the phase of the others alone. *)
LEMMA PhaseOthers ==
    ASSUME PhaseInv, NEW c \in Caller,
           \A d \in Caller \ {c} :
               /\ pc'[d] = pc[d] /\ attempted'[d] = attempted[d]
               /\ refused'[d] = refused[d] /\ contacted'[d] = contacted[d]
               /\ requests'[d] = requests[d] /\ outcome'[d] = outcome[d],
           Phase(c)',
           pc'[c] = "call" /\ refused'[c] # Absent => attempted'[c] # refused'[c],
           outcome'[c] = "Unauthorized" =>
               requests'[c] = 1 \/ attempted'[c] # refused'[c]
    PROVE  PhaseInv'
<1>1. \A d \in Caller : Phase(d)'
  BY DEF PhaseInv, Phase
<1>2. ReplayDiffers' /\ RenewedBeforeUnauthorized'
  BY DEF PhaseInv, ReplayDiffers, RenewedBeforeUnauthorized
<1> QED
  BY <1>1, <1>2 DEF PhaseInv

LEMMA PhaseStep ==
    TypeInv /\ LockInv /\ TokenInv /\ PhaseInv /\ [Next]_vars => PhaseInv'
<1> SUFFICES ASSUME TypeInv, LockInv, TokenInv, PhaseInv, [Next]_vars PROVE PhaseInv'
  OBVIOUS
<1> USE DEF store, provider, coordination, locals
<1>0. /\ pc \in [Caller -> {"idle", "acquire", "reread", "await", "call", "done"}]
      /\ attempted \in [Caller -> Item] /\ refused \in [Caller -> Item]
      /\ contacted \in [Caller -> BOOLEAN] /\ requests \in [Caller -> Nat]
      /\ outcome \in [Caller -> Outcome]
  BY DEF TypeInv, TypeOK
<1>00. \A c \in Caller : pc[c] \in Active => attempted[c] # Absent
  BY DEF TypeInv, Decoded, Absent, Blank
<1>1. ASSUME NEW c \in Caller, Ends(c) PROVE PhaseInv'
  <2>1. PICK result \in Outcome :
            /\ Finish(c, result)
            /\ result = "Unauthorized" =>
                   \/ pc[c] = "reread" /\ contacted[c]
                   \/ pc[c] = "call" /\ refused[c] # Absent
    BY <1>1 DEF Ends
  <2>2. /\ pc' = [pc EXCEPT ![c] = "done"]
        /\ outcome' = [outcome EXCEPT ![c] = result]
        /\ UNCHANGED <<attempted, contacted, refused, requests>>
    BY <2>1 DEF Finish
  <2>3. Phase(c)'
    BY <1>0, <2>2 DEF PhaseInv, Phase
  <2>4. result = "Unauthorized" => requests[c] = 1 \/ attempted[c] # refused[c]
    BY <2>1 DEF PhaseInv, Phase, ReplayDiffers
  <2> QED
    BY <1>0, <2>2, <2>3, <2>4, PhaseOthers
<1>2. ASSUME NEW c \in Caller, Continues(c) PROVE PhaseInv'
  <2>1. Phase(c) /\ pc[c] # "done"
    BY <1>2
    DEF PhaseInv, Continues, FirstRead, Granted, Poll, Adopt, Spend, Save, CallRejected,
        Rotate, Refuse, Unprocessed
  <2>2. CASE FirstRead(c)
    <3>1. Phase(c)'
      BY <1>0, <2>1, <2>2 DEF FirstRead, Phase
    <3> QED
      BY <1>0, <2>1, <2>2, <3>1, PhaseOthers DEF FirstRead, Phase
  <2>3. CASE Granted(c) \/ Poll(c)
    <3>1. Phase(c)'
      BY <1>0, <2>1, <2>3 DEF Granted, Poll, Phase
    <3> QED
      BY <1>0, <2>1, <2>3, <3>1, PhaseOthers DEF Granted, Poll, Phase
  <2>4. CASE Adopt(c)
    <3>1. Phase(c)'
      BY <1>0, <2>1, <2>4 DEF Adopt, Phase
    <3> QED
      BY <1>0, <2>1, <2>4, <3>1, PhaseOthers DEF Adopt, Phase
  <2>5. CASE Spend(c)
    <3>1. requests[c] = 0
      BY <1>0, <2>1, <2>5 DEF Spend, Phase
    <3>2. /\ pc' = [pc EXCEPT ![c] = "await"]
          /\ requests' = [requests EXCEPT ![c] = 1]
          /\ pc[c] = "reread"
          /\ UNCHANGED <<attempted, refused, outcome>>
      BY <1>0, <2>5, <3>1 DEF Spend
    <3>3. contacted'[c] <=> (contacted[c] \/ refused[c] = Absent)
      BY <1>0, <2>5, Zenon DEF Spend
    <3>4. \A d \in Caller \ {c} : contacted'[d] = contacted[d]
      BY <1>0, <2>5, Zenon DEF Spend
    <3>5. Phase(c)'
      BY <1>0, <2>1, <3>2, <3>3 DEF Phase
    <3> QED
      BY <1>0, <2>1, <3>2, <3>4, <3>5, PhaseOthers DEF Phase
  <2>6. CASE Save(c)
    <3>1. /\ pc[c] = "await" /\ attempted'[c].access # attempted[c].access
          /\ attempted' = [attempted EXCEPT ![c] = ApplyRefresh(attempted[c], reply[c])]
          /\ pc' = [pc EXCEPT ![c] = "call"]
          /\ UNCHANGED <<contacted, refused, requests, outcome>>
      BY <1>0, <2>6, BoundAssumption
      DEF Save, ApplyRefresh, TokenInv, Answered, TypeInv, TypeOK, Reply, Item, Number
    <3>2. Phase(c)'
      BY <1>0, <2>1, <3>1 DEF Phase
    <3> QED
      BY <1>0, <2>1, <3>1, <3>2, PhaseOthers DEF Phase
  <2>7. CASE CallRejected(c)
    <3>1. Phase(c)'
      BY <1>0, <1>00, <2>1, <2>7 DEF CallRejected, Phase, Active
    <3> QED
      BY <1>0, <2>1, <2>7, <3>1, PhaseOthers DEF CallRejected, Phase
  <2>8. CASE Rotate(c) \/ Refuse(c) \/ Unprocessed(c)
    BY <2>8
    DEF Rotate, Refuse, Unprocessed, PhaseInv, Phase, ReplayDiffers,
        RenewedBeforeUnauthorized
  <2> QED
    BY <1>2, <2>2, <2>3, <2>4, <2>5, <2>6, <2>7, <2>8 DEF Continues
<1>3. CASE \E t \in Token : OrphanArrives(t) \/ Age(t)
  BY <1>3
  DEF OrphanArrives, Age, PhaseInv, Phase, ReplayDiffers, RenewedBeforeUnauthorized
<1>4. CASE Login \/ Logout
  BY <1>4
  DEF Login, Logout, PhaseInv, Phase, ReplayDiffers, RenewedBeforeUnauthorized
<1>5. CASE UNCHANGED vars
  BY <1>5 DEF vars, PhaseInv, Phase, ReplayDiffers, RenewedBeforeUnauthorized
<1> QED
  BY <1>1, <1>2, <1>3, <1>4, <1>5, NextCases

LEMMA PhasesSafe == Spec => []PhaseInv
BY TypeInit, TypeStep, LockInit, LockStep, TokenInit, TokenStep, PhaseInit, PhaseStep,
   PTL DEF Spec

(* One invocation sends at most one refresh request. *)
THEOREM OneRefreshAlways == Spec => []OneRefresh
<1>1. PhaseInv => OneRefresh
  BY DEF PhaseInv, Phase, OneRefresh
<1> QED
  BY <1>1, PhasesSafe, PTL

(* The one replay never repeats the credential answered with 401. *)
THEOREM ReplayDiffersAlways == Spec => []ReplayDiffers
BY PhasesSafe, PTL DEF PhaseInv

(* A 401 is returned only once the credential was renewed. *)
THEOREM RenewedBeforeUnauthorizedAlways == Spec => []RenewedBeforeUnauthorized
BY PhasesSafe, PTL DEF PhaseInv
=============================================================================
