------------------------ MODULE CredentialRecordProofs ------------------------
(***************************************************************************)
(* Proofs about the stored credential record, for a clock of any width and *)
(* any accounts, claims and lifetimes: what `auth status` shows, when a    *)
(* renewal is due and what the stored deadline means.                      *)
(***************************************************************************)
EXTENDS CredentialRecord, TLAPS

(* What every stored record has, of whatever version: tokens that are not   *)
(* blank, an ID token that is a JSON web token, and no second account.      *)
WellFormed(r) ==
    /\ r.refresh # "blank" /\ r.id.text # "blank"
    /\ r.id.jwt
    /\ {r.access.claims.account, r.id.claims.account} \subseteq {r.account, None}

(* The inductive invariant.  WellFormed is Readable without the parts that  *)
(* the writers do not ask for, the version and the header components.       *)
IInv ==
    /\ TypeOK
    /\ Stored => WellFormed(item)
    /\ DeadlineIsPromised

-----------------------------------------------------------------------------
(* A token that is a JSON web token has claims and is not blank. *)
LEMMA TokenFields ==
    ASSUME NEW t \in Token
    PROVE  /\ t.claims \in Claims /\ t.text \in {"blank", "fit", "unfit"}
           /\ t.jwt \in BOOLEAN /\ (t.jwt => t.text # "blank")
  <1>0. NoClaims \in Claims
    BY DEF NoClaims, Claims
  <1>1. CASE t \in [text : {"blank"}, jwt : {FALSE}, claims : {NoClaims}]
    BY <1>0, <1>1
  <1>2. CASE t \in [text : {"fit", "unfit"}, jwt : {FALSE}, claims : {NoClaims}]
    BY <1>0, <1>2
  <1>3. CASE t \in [text : {"fit", "unfit"}, jwt : {TRUE}, claims : Claims]
    BY <1>3
  <1> QED BY <1>1, <1>2, <1>3 DEF Token

(* The times the code computes: a deadline of a response is a time or none, *)
(* and the earlier one of two deadlines is one of them.                     *)
LEMMA Deadlines ==
    ASSUME now \in Time
    PROVE  /\ \A e \in Lifetime \cup {None} :
                  ResponseExpiry(e) =
                      IF e # None /\ e > 0 /\ now + e <= MaxTime THEN now + e ELSE None
           /\ \A e \in Lifetime \cup {None} : ResponseExpiry(e) \in Time \cup {None}
           /\ \A d, e \in Time \cup {None} :
                  /\ EarliestDeadline(d, e) \in {d, e}
                  /\ EarliestDeadline(d, e) = None <=> d = None /\ e = None
                  /\ d # None => EarliestDeadline(d, e) <= d
                  /\ e # None => EarliestDeadline(d, e) <= e
  <1> USE TimeAssumption, NoneAssumption DEF Time
  <1>1. \A e \in Lifetime \cup {None} :
            ResponseExpiry(e) =
                IF e # None /\ e > 0 /\ now + e <= MaxTime THEN now + e ELSE None
    BY DEF ResponseExpiry, CheckedAdd
  <1>2. \A e \in Lifetime \cup {None} : ResponseExpiry(e) \in Time \cup {None}
    BY <1>1
  <1>3. \A d, e \in Time \cup {None} :
            /\ EarliestDeadline(d, e) \in {d, e}
            /\ EarliestDeadline(d, e) = None <=> d = None /\ e = None
            /\ d # None => EarliestDeadline(d, e) <= d
            /\ e # None => EarliestDeadline(d, e) <= e
    BY DEF EarliestDeadline
  <1> QED BY <1>1, <1>2, <1>3

-----------------------------------------------------------------------------
(* What a login stores. *)
LEMMA LoginStores ==
    ASSUME now \in Time, NEW r \in Response, ValidResponse(r)
    PROVE  /\ Validated(r) \in Record
           /\ WellFormed(Validated(r))
           /\ Validated(r).deadline \in {ResponseExpiry(r.expires), UsableExpiry(r.access)}
  <1>1. r.access \in Token /\ r.id \in Token /\ r.id \in IdToken
        /\ r.refresh \in {"blank", "fit"} /\ r.expires \in Lifetime \cup {None}
    BY DEF Response, IdToken
  <1>2. r.access.claims \in Claims /\ r.id.claims \in Claims
    BY <1>1, TokenFields
  <1>3. UsableExpiry(r.access) \in Time \cup {None}
    BY <1>2, TimeAssumption DEF UsableExpiry, Claims, Time
  <1>4. ResponseExpiry(r.expires) \in Time \cup {None}
    BY <1>1, Deadlines
  <1>5. /\ LoginDeadline(r) \in {ResponseExpiry(r.expires), UsableExpiry(r.access)}
        /\ LoginDeadline(r) \in Time \cup {None}
    BY <1>3, <1>4, Deadlines DEF LoginDeadline
  <1>6. /\ Validated(r).account \in Account
        /\ {r.access.claims.account, r.id.claims.account}
               \subseteq {Validated(r).account, None}
    BY <1>2, NoneAssumption DEF Validated, ValidResponse, SameAccount, Claims
  <1>7. Validated(r) \in Record
    BY <1>1, <1>5, <1>6 DEF Validated, Record
  <1>8. WellFormed(Validated(r))
    BY <1>6 DEF Validated, WellFormed, ValidResponse
  <1> QED BY <1>5, <1>7, <1>8 DEF Validated

(* What a refresh makes of a record that could be read. *)
LEMMA RefreshStores ==
    ASSUME now \in Time, NEW r \in Record, Readable(r),
           NEW reply \in Reply, ValidReply(reply, r)
    PROVE  /\ Refreshed(reply, r) \in Record
           /\ WellFormed(Refreshed(reply, r))
           /\ Readable(Refreshed(reply, r))
           /\ Refreshed(reply, r).account = r.account
           /\ Refreshed(reply, r).deadline = RefreshDeadline(reply)
           /\ Refreshed(reply, r).access = reply.access
           /\ reply.access.claims.exp \in Time \cup {None}
           /\ RefreshDeadline(reply) \in Time
  <1> DEFINE s == Refreshed(reply, r)
  <1>1. /\ reply.access \in Token
        /\ reply.id \in Token \cup {None} /\ reply.id \in IdToken \cup {None}
        /\ reply.refresh \in {"blank", "fit", None}
        /\ reply.expires \in Lifetime \cup {None}
    BY DEF Reply, ValidReply, IdToken
  <1>2. reply.access.claims.exp \in Time \cup {None}
    BY <1>1, TokenFields, TimeAssumption DEF Claims, Time
  <1>3. ResponseExpiry(reply.expires) \in Time \cup {None}
    BY <1>1, Deadlines
  <1>4. RefreshDeadline(reply) \in Time
    BY <1>2, <1>3, Deadlines DEF RefreshDeadline, ValidReply
  <1>5. r.schema = 1 /\ r.refresh = "fit" /\ r.id \in IdToken /\ r.account \in Account
        /\ r.id.text # "blank" /\ r.id.jwt /\ r.id.claims.account \in {r.account, None}
        /\ r.account \notin UnfitAccount
    BY DEF Record, Readable, Fit
  <1>6. /\ s.schema = r.schema /\ s.account = r.account
        /\ s.access = reply.access /\ s.deadline = RefreshDeadline(reply)
        /\ s.refresh = IF reply.refresh = None THEN r.refresh ELSE reply.refresh
        /\ s.id = IF reply.id = None THEN r.id ELSE reply.id
    BY DEF Refreshed, OptionalToken, Record
  <1>7. s.refresh = "fit"
    BY <1>1, <1>5, <1>6 DEF ValidReply
  <1>8. /\ s.id \in IdToken /\ s.id.text # "blank" /\ s.id.jwt
        /\ s.id.claims.account \in {r.account, None}
    <2>1. CASE reply.id = None
      BY <2>1, <1>5, <1>6
    <2>2. CASE reply.id # None
      BY <2>2, <1>1, <1>6, TokenFields DEF ValidReply, ReturnedAccount
    <2> QED BY <2>1, <2>2
  <1>9. reply.access.text = "fit" /\ reply.access.claims.account \in {r.account, None}
    BY DEF ValidReply, ReturnedAccount
  <1>10. s \in Record
    BY <1>1, <1>4, <1>5, <1>6, <1>7, <1>8 DEF Refreshed, OptionalToken, Record
  <1>11. WellFormed(s)
    BY <1>6, <1>7, <1>8, <1>9 DEF WellFormed
  <1>12. Readable(s)
    BY <1>5, <1>6, <1>7, <1>8, <1>9 DEF Readable, Fit
  <1> QED BY <1>2, <1>4, <1>6, <1>10, <1>11, <1>12
-----------------------------------------------------------------------------
(* The promises of a login are kept by what it stores. *)
LEMMA LoginPromises ==
    ASSUME TypeOK, Login
    PROVE  DeadlineIsPromised'
  <1>1. PICK r \in Response :
            /\ ValidResponse(r)
            /\ item' = Validated(r)
            /\ grant' = [by |-> "login", at |-> now, expires |-> r.expires]
    BY DEF Login
  <1>2. now \in Time
    BY DEF TypeOK
  <1>3. r.access \in Token /\ r.expires \in Lifetime \cup {None}
    BY DEF Response
  <1> DEFINE e == ResponseExpiry(r.expires)
             x == r.access.claims.exp
             u == UsableExpiry(r.access)
  <1>4. x \in Time \cup {None}
    BY <1>3, TokenFields, TimeAssumption DEF Claims, Time
  <1>5. u = (IF x # None /\ x > now THEN x ELSE None) /\ u \in Time \cup {None}
    BY <1>4, NoneAssumption DEF UsableExpiry
  <1>6. e = (IF r.expires # None /\ r.expires > 0 /\ now + r.expires <= MaxTime
             THEN now + r.expires ELSE None)
        /\ e \in Time \cup {None}
    BY <1>2, <1>3, Deadlines
  <1>7. /\ item'.deadline = EarliestDeadline(e, u)
        /\ item'.access = r.access
        /\ grant'.at = now /\ grant'.expires = r.expires /\ grant'.by = "login"
    BY <1>1 DEF Validated, LoginDeadline
  <1>8. \A t \in Time : t \in Promised' <=>
            t = x \/ (r.expires # None /\ r.expires > 0 /\ t = now + r.expires)
    BY <1>7 DEF Promised
  <1> HIDE DEF e, u, x
  <1>9. /\ item'.deadline \in {e, u}
        /\ item'.deadline = None <=> e = None /\ u = None
        /\ e # None => item'.deadline <= e
        /\ u # None => item'.deadline <= u
    BY <1>2, <1>5, <1>6, <1>7, Deadlines
  <1>10. \A t \in Promised' : t \in Time
    BY DEF Promised, Time
  <1>11. CASE item'.deadline = None
    <2>1. \A t \in Promised' : t <= grant'.at
      BY <1>2, <1>3, <1>4, <1>5, <1>6, <1>7, <1>8, <1>9, <1>10, <1>11,
         NoneAssumption, TimeAssumption DEF Time
    <2> QED BY <2>1, <1>11 DEF DeadlineIsPromised
  <1>12. CASE item'.deadline # None
    <2>1. item'.deadline \in Promised' /\ item'.deadline > grant'.at
      <3>1. CASE item'.deadline = e
        <4>1. /\ r.expires # None /\ r.expires > 0
              /\ e = now + r.expires /\ e \in Time
          BY <3>1, <1>6, <1>12
        <4> r.expires \in Lifetime
          BY <4>1, <1>3
        <4>2. r.expires \in Int /\ now \in Int
          BY <1>2, TimeAssumption DEF Time
        <4>3. e > now
          BY <4>1, <4>2
        <4> QED BY <3>1, <4>1, <4>3, <1>7, <1>8
      <3>2. CASE item'.deadline = u
        BY <3>2, <1>2, <1>4, <1>5, <1>7, <1>8, <1>12
      <3> QED BY <3>1, <3>2, <1>9
    <2>2. \A t \in Promised' : t > grant'.at => item'.deadline <= t
      BY <1>2, <1>3, <1>4, <1>5, <1>6, <1>7, <1>8, <1>9, <1>10, <1>12,
         NoneAssumption, TimeAssumption DEF Time
    <2> QED BY <2>1, <2>2, <1>12 DEF DeadlineIsPromised
  <1> QED BY <1>11, <1>12

(* And those of a refresh, whose deadline may be an exp that has passed. *)
LEMMA RenewalPromises ==
    ASSUME TypeOK, Renew
    PROVE  DeadlineIsPromised'
  <1>1. PICK reply \in Reply :
            /\ ValidReply(reply, item)
            /\ item' = Refreshed(reply, item)
            /\ grant' = [by |-> "refresh", at |-> now, expires |-> reply.expires]
    BY DEF Renew
  <1>2. now \in Time /\ item \in Record /\ Readable(item)
    BY DEF TypeOK, Renew
  <1>3. reply.expires \in Lifetime \cup {None}
    BY DEF Reply
  <1> DEFINE e == ResponseExpiry(reply.expires)
             x == reply.access.claims.exp
  <1>4. /\ x \in Time \cup {None}
        /\ item'.access = reply.access
        /\ item'.deadline = RefreshDeadline(reply) /\ RefreshDeadline(reply) \in Time
        /\ grant'.at = now /\ grant'.expires = reply.expires /\ grant'.by = "refresh"
    BY <1>1, <1>2, RefreshStores
  <1>5. e = (IF reply.expires # None /\ reply.expires > 0 /\ now + reply.expires <= MaxTime
             THEN now + reply.expires ELSE None)
        /\ e \in Time \cup {None}
    BY <1>2, <1>3, Deadlines
  <1>6. \A t \in Time : t \in Promised' <=>
            t = x \/ (reply.expires # None /\ reply.expires > 0 /\ t = now + reply.expires)
    BY <1>4 DEF Promised
  <1>11. item'.deadline = EarliestDeadline(e, x) /\ item'.deadline \in Time
    BY <1>4 DEF RefreshDeadline
  <1>8. \A t \in Promised' : t \in Time
    BY DEF Promised, Time
  <1> HIDE DEF e, x
  <1>7. /\ item'.deadline \in {e, x} /\ item'.deadline \in Time /\ item'.deadline # None
        /\ e # None => item'.deadline <= e
        /\ x # None => item'.deadline <= x
    BY <1>2, <1>4, <1>5, <1>11, Deadlines, NoneAssumption DEF Time
  <1>9. item'.deadline \in Promised'
    BY <1>4, <1>5, <1>6, <1>7
  <1>10. \A t \in Promised' : t > grant'.at => item'.deadline <= t
    BY <1>2, <1>3, <1>4, <1>5, <1>6, <1>7, <1>8, NoneAssumption, TimeAssumption DEF Time
  <1> QED BY <1>4, <1>7, <1>9, <1>10 DEF DeadlineIsPromised

-----------------------------------------------------------------------------
(* A stored item is a record. *)
LEMMA StoredIsRecord == TypeOK /\ Stored => item \in Record
  BY DEF TypeOK, Stored

LEMMA InvInit == Init => IInv
  <1> SUFFICES ASSUME Init PROVE IInv
    OBVIOUS
  <1>1. ~Stored
    BY DEF Init, Stored
  <1> QED BY <1>1 DEF Init, IInv, TypeOK, DeadlineIsPromised

LEMMA InvStep == IInv /\ [Next]_vars => IInv'
  <1> SUFFICES ASSUME IInv, [Next]_vars PROVE IInv'
    OBVIOUS
  <1> USE RecordAssumption
  <1>1. now \in Time
    BY DEF IInv, TypeOK
  <1>2. CASE Login
    <2>1. PICK r \in Response :
              /\ ValidResponse(r)
              /\ item' = Validated(r)
              /\ grant' = [by |-> "login", at |-> now, expires |-> r.expires]
      BY <1>2 DEF Login
    <2>2. item' \in Record /\ WellFormed(item') /\ now' = now
      BY <2>1, <1>1, <1>2, LoginStores DEF Login
    <2>3. grant' \in Grant /\ grant' # None
      BY <2>1, <1>1 DEF Grant, Response
    <2>4. TypeOK' /\ (Stored => WellFormed(item))'
      BY <2>2, <2>3, <1>1 DEF TypeOK, Stored
    <2>5. DeadlineIsPromised'
      BY <1>2, LoginPromises DEF IInv
    <2> QED BY <2>4, <2>5 DEF IInv
  <1>3. CASE Renew
    <2>1. PICK reply \in Reply :
              /\ ValidReply(reply, item)
              /\ item' = Refreshed(reply, item)
              /\ grant' = [by |-> "refresh", at |-> now, expires |-> reply.expires]
      BY <1>3 DEF Renew
    <2>2. item \in Record /\ Readable(item) /\ now' = now
      BY <1>3 DEF Renew, IInv, TypeOK
    <2>3. item' \in Record /\ WellFormed(item')
      BY <2>1, <2>2, <1>1, RefreshStores
    <2>4. grant' \in Grant /\ grant' # None
      BY <2>1, <1>1 DEF Grant, Reply
    <2>5. TypeOK' /\ (Stored => WellFormed(item))'
      BY <2>2, <2>3, <2>4, <1>1 DEF TypeOK, Stored
    <2>6. DeadlineIsPromised'
      BY <1>3, RenewalPromises DEF IInv
    <2> QED BY <2>5, <2>6 DEF IInv
  <1>4. CASE Logout
    <2>1. ~Stored'
      BY <1>4 DEF Logout, Stored
    <2> QED BY <2>1, <1>4 DEF Logout, IInv, TypeOK, DeadlineIsPromised, Stored
  <1>5. CASE OtherVersion
    <2>1. item \in Record /\ Stored
      BY <1>5 DEF OtherVersion, IInv, TypeOK, Stored
    <2>2. /\ item' = [item EXCEPT !.schema = 2] /\ item' \in Record
          /\ item'.access = item.access /\ item'.refresh = item.refresh
          /\ item'.id = item.id /\ item'.account = item.account
          /\ item'.deadline = item.deadline
      BY <2>1, <1>5 DEF OtherVersion, Record
    <2>3. TypeOK' /\ (Stored => WellFormed(item))'
      BY <2>1, <2>2, <1>5 DEF OtherVersion, IInv, TypeOK, Stored, WellFormed
    <2>4. Promised' = Promised
      BY <2>2, <1>5 DEF OtherVersion, Promised
    <2>5. DeadlineIsPromised'
      BY <2>1, <2>2, <2>4, <1>5 DEF OtherVersion, IInv, DeadlineIsPromised
    <2> QED BY <2>3, <2>5 DEF IInv
  <1>6. CASE Tick
    <2>1. now' \in Time
      BY <1>1, <1>6, TimeAssumption DEF Tick, Time
    <2>2. Promised' = Promised
      BY <1>6 DEF Tick, Promised
    <2> QED BY <2>1, <2>2, <1>6
            DEF Tick, IInv, TypeOK, Stored, DeadlineIsPromised, WellFormed
  <1>7. CASE UNCHANGED vars
    <2>1. Promised' = Promised
      BY <1>7 DEF vars, Promised
    <2> QED BY <2>1, <1>7 DEF vars, IInv, TypeOK, Stored, DeadlineIsPromised, WellFormed
  <1> QED BY <1>2, <1>3, <1>4, <1>5, <1>6, <1>7 DEF Next

(* The inductive invariant holds in every reachable state. *)
THEOREM RecordInvariant == Spec => []IInv
  BY InvInit, InvStep, PTL DEF Spec

-----------------------------------------------------------------------------
(* Clock, item and grant keep their types. *)
THEOREM RecordTypeCorrect == Spec => []TypeOK
  <1>1. IInv => TypeOK
    BY DEF IInv
  <1> QED BY <1>1, RecordInvariant, PTL

(* Whatever `auth status` shows as connected or expired can be read by the  *)
(* model commands, for any accounts and claims (deserialize against         *)
(* deserialize_structural).                                                 *)
THEOREM ConnectedIsUsableAlways == Spec => []ConnectedIsUsable
  <1>1. IInv => ConnectedIsUsable
    BY DEF IInv, ConnectedIsUsable, WellFormed, Readable, Status, Deserialized
  <1> QED BY <1>1, RecordInvariant, PTL

(* Whatever the width of the clock and the window, what has expired is due: *)
(* the saturating sum of refresh_due hides no expired record.               *)
THEOREM ExpiredIsRenewedAlways == Spec => []ExpiredIsRenewed
  <1>1. IInv => ExpiredIsRenewed
    <2> SUFFICES ASSUME IInv, Stored, Status(item) = "Expired" PROVE RefreshDue(item)
      BY DEF ExpiredIsRenewed
    <2>1. now \in Time /\ item.deadline \in Time \cup {None}
      BY StoredIsRecord DEF IInv, TypeOK, Record
    <2>2. item.deadline # None => item.deadline <= now
      BY DEF Status, Deserialized
    <2> QED BY <2>1, <2>2, TimeAssumption DEF RefreshDue, DuePoint, Time
  <1> QED BY <1>1, RecordInvariant, PTL

(* The stored deadline is the earliest promise that was still to come, for  *)
(* any lifetimes and claims, also where a sum exceeds the clock.            *)
THEOREM DeadlineIsPromisedAlways == Spec => []DeadlineIsPromised
  <1>1. IInv => DeadlineIsPromised
    BY DEF IInv
  <1> QED BY <1>1, RecordInvariant, PTL

(* apply_refresh never makes a record that the next call cannot read, nor   *)
(* one of another account.                                                  *)
THEOREM RefreshKeepsAccountAlways == Spec => RefreshKeepsAccount
  <1> DEFINE Kept == grant' # grant /\ grant' # None /\ grant'.by = "refresh" =>
                         Readable(item') /\ item'.account = item.account
  <1>1. IInv /\ [Next]_vars => [Kept]_vars
    <2> SUFFICES ASSUME IInv, Next, grant' # grant, grant' # None, grant'.by = "refresh"
                 PROVE  Readable(item') /\ item'.account = item.account
      OBVIOUS
    <2>1. ~Login /\ ~Logout /\ ~OtherVersion /\ ~Tick
      BY DEF Login, Logout, OtherVersion, Tick
    <2>2. Renew
      BY <2>1 DEF Next
    <2>3. now \in Time /\ item \in Record /\ Readable(item)
      BY <2>2 DEF Renew, IInv, TypeOK
    <2> QED BY <2>2, <2>3, RefreshStores DEF Renew
  <1> QED BY <1>1, RecordInvariant, PTL DEF Spec, RefreshKeepsAccount
=============================================================================
