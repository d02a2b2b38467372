--------------------------- MODULE CredentialRecord ---------------------------
(***************************************************************************)
(* The credential record of crates/openai-codex-auth/src/credential.rs:    *)
(* what login accepts from the provider and stores (validate), what the    *)
(* status command and a renewal accept from the Keychain (deserialize and  *)
(* deserialize_structural), and what a refresh makes of it (apply_refresh).*)
(*                                                                         *)
(* One process at a time: how processes interleave is CredentialRenewal's. *)
(* Here the clock, the tokens and the deadlines are those of the code.  A  *)
(* token is known by what the code tells apart: whether its text is blank  *)
(* or fit for a header, and the claims of its payload, None for a token    *)
(* that is no JSON web token.                                              *)
(***************************************************************************)
EXTENDS Integers

CONSTANTS
    None,           \* an absent value
    Garbage,        \* bytes that are no credential record
    Account,        \* values of chatgpt_account_id, trimmed and not blank
    UnfitAccount,   \* those that are no header component
    MaxTime,        \* the largest u64
    Window,         \* REFRESH_WINDOW_SECONDS
    Exp,            \* values of an exp claim that the provider puts in a token
    Lifetime        \* values of expires_in, an i64

ASSUME TimeAssumption ==
    /\ MaxTime \in Nat /\ Window \in Nat
    /\ Exp \subseteq 0 .. MaxTime
    /\ Lifetime \subseteq {e \in Int : e <= MaxTime}
ASSUME NoneAssumption == None \notin Int /\ None \notin Account /\ None # Garbage
ASSUME AccountAssumption == UnfitAccount \subseteq Account

VARIABLES
    item,       \* the Keychain item
    now,        \* the clock
    grant       \* how the stored record was obtained, None if by no login

vars == <<item, now, grant>>

-----------------------------------------------------------------------------
Time == 0 .. MaxTime

(* decode_jwt_payload, account_id and expiry: what a payload says.  A blank *)
(* account is no account, and an exp that is no u64 is no exp.              *)
Claims == [account : Account \cup {None}, exp : Exp \cup {None}]
NoClaims == [account |-> None, exp |-> None]

(* A token of blank text is no JSON web token.  Only for the access token   *)
(* it matters whether its text fits a header.                               *)
Token ==
    [text : {"blank"}, jwt : {FALSE}, claims : {NoClaims}]
    \cup [text : {"fit", "unfit"}, jwt : {FALSE}, claims : {NoClaims}]
    \cup [text : {"fit", "unfit"}, jwt : {TRUE}, claims : Claims]
IdToken == {t \in Token : t.text # "unfit" /\ t.claims.exp = None}

Response == [access : Token, refresh : {"blank", "fit"}, id : IdToken,
             expires : Lifetime \cup {None}]
Reply == [access : Token \cup {None}, refresh : {"blank", "fit", None},
          id : IdToken \cup {None}, expires : Lifetime \cup {None}]

Record == [schema : {1, 2}, access : Token, refresh : {"blank", "fit"}, id : IdToken,
           account : Account, deadline : Time \cup {None}]

(* By what, when and for how long the provider gave the access token. *)
Grant == [by : {"login", "refresh"}, at : Time, expires : Lifetime \cup {None}]

ASSUME RecordAssumption ==
    None \notin Record /\ None \notin Grant /\ Garbage \notin Record

(* valid_header_component of the access token and of the account. *)
Fit(r) == r.access.text = "fit" /\ r.account \notin UnfitAccount

-----------------------------------------------------------------------------
(* Defects for the mutation runs, each named for the definition it replaces. *)
CheckedAddWraps(t, d) == (t + d) % (MaxTime + 1)
DuePointWraps(t) == (t + Window) % (MaxTime + 1)
SameAccountUnasked(t, u) == TRUE
ReturnedAccountUnasked(t, r) == TRUE

(* now.checked_add of a positive expires_in, and its saturating_add for the *)
(* window.                                                                  *)
CheckedAdd(t, d) == IF t + d <= MaxTime THEN t + d ELSE None
ResponseExpiry(expires) ==
    IF expires = None THEN None ELSE IF expires <= 0 THEN None ELSE CheckedAdd(now, expires)

EarliestDeadline(first, second) ==
    IF first = None THEN second
    ELSE IF second = None THEN first
    ELSE IF first <= second THEN first ELSE second

DuePoint(t) == IF t + Window <= MaxTime THEN t + Window ELSE MaxTime
RefreshDue(r) == r.deadline # None => r.deadline <= DuePoint(now)

(* CredentialRecord::validate.  It does not ask whether the access token    *)
(* and the account fit a header, and the access token may be opaque.        *)
SameAccount(t, u) == None \in {t.claims.account, u.claims.account}
                     \/ t.claims.account = u.claims.account
UsableExpiry(t) == IF t.claims.exp = None THEN None
                   ELSE IF t.claims.exp > now THEN t.claims.exp ELSE None
LoginDeadline(r) == EarliestDeadline(ResponseExpiry(r.expires), UsableExpiry(r.access))
ValidResponse(r) ==
    /\ "blank" \notin {r.access.text, r.refresh, r.id.text}
    /\ r.id.jwt
    /\ SameAccount(r.id, r.access)
    /\ {r.id.claims.account, r.access.claims.account} # {None}
    /\ LoginDeadline(r) = None => r.expires = None /\ r.access.claims.exp = None
Validated(r) ==
    [schema |-> 1, access |-> r.access, refresh |-> r.refresh, id |-> r.id,
     account |-> IF r.id.claims.account = None THEN r.access.claims.account
                 ELSE r.id.claims.account,
     deadline |-> LoginDeadline(r)]

(* CredentialRecord::deserialize, and how with_authorized_credential_from   *)
(* reports it to the status command; deserialize_structural as a renewal    *)
(* sees it.  Neither accepts an item that is Garbage.                       *)
Deserialized(r) ==
    IF r.schema # 1 THEN "UnsupportedVersion"
    ELSE IF ~Fit(r) THEN "Malformed"
    ELSE IF r.deadline # None /\ r.deadline <= now THEN "Expired"
    ELSE "record"
Status(r) ==
    [UnsupportedVersion |-> "UnsupportedVersion", Malformed |-> "InvalidCredential",
     Expired |-> "Expired", record |-> "Connected"][Deserialized(r)]
Readable(r) ==
    /\ r.schema = 1
    /\ Fit(r) /\ r.refresh # "blank" /\ r.id.text # "blank"
    /\ r.id.jwt
    /\ {r.access.claims.account, r.id.claims.account} \subseteq {r.account, None}

(* CredentialRecord::apply_refresh: the access token must be a JSON web     *)
(* token that fits a header, tokens that are omitted are kept, and an exp   *)
(* that has passed is taken.                                                *)
OptionalToken(returned, stored) == IF returned = None THEN stored ELSE returned
ReturnedAccount(t, r) == t.claims.account \in {r.account, None}
RefreshDeadline(reply) ==
    EarliestDeadline(ResponseExpiry(reply.expires), reply.access.claims.exp)
ValidReply(reply, r) ==
    /\ reply.access # None
    /\ reply.access.text = "fit" /\ reply.access.jwt
    /\ ReturnedAccount(reply.access, r)
    /\ reply.refresh # "blank"
    /\ reply.id # None => reply.id.jwt /\ ReturnedAccount(reply.id, r)
    /\ RefreshDeadline(reply) # None
Refreshed(reply, r) ==
    [schema |-> r.schema, access |-> reply.access,
     refresh |-> OptionalToken(reply.refresh, r.refresh),
     id |-> OptionalToken(reply.id, r.id),
     account |-> r.account, deadline |-> RefreshDeadline(reply)]

-----------------------------------------------------------------------------
Init ==
    /\ item \in {None, Garbage}
    /\ now \in Time
    /\ grant = None

(* login_with from the response on; a response that is refused changes      *)
(* nothing.                                                                 *)
Login ==
    \E r \in Response :
        /\ ValidResponse(r)
        /\ item' = Validated(r)
        /\ grant' = [by |-> "login", at |-> now, expires |-> r.expires]
        /\ UNCHANGED now

(* A renewal: before a call that is due, or after a 401 whatever the        *)
(* deadline.                                                                *)
Renew ==
    /\ item \notin {None, Garbage}
    /\ Readable(item)
    /\ \E reply \in Reply :
           /\ ValidReply(reply, item)
           /\ item' = Refreshed(reply, item)
           /\ grant' = [by |-> "refresh", at |-> now, expires |-> reply.expires]
    /\ UNCHANGED now

Logout ==
    /\ item' = None
    /\ grant' = None
    /\ UNCHANGED now

(* Another version of the program writes its own record over this one. *)
OtherVersion ==
    /\ item \notin {None, Garbage}
    /\ item' = [item EXCEPT !.schema = 2]
    /\ UNCHANGED <<now, grant>>

Tick ==
    /\ now < MaxTime
    /\ now' = now + 1
    /\ UNCHANGED <<item, grant>>

Next == Login \/ Renew \/ Logout \/ OtherVersion \/ Tick

Spec == Init /\ [][Next]_vars

-----------------------------------------------------------------------------
Stored == item \notin {None, Garbage}

(* The item is a record exactly when a grant is known for it. *)
TypeOK ==
    /\ item \in Record \cup {None, Garbage}
    /\ now \in Time
    /\ grant \in Grant \cup {None}
    /\ Stored <=> grant # None

(* `auth status` reads the item with other checks than the calls do: an     *)
(* account it shows as connected, or as expired, can be read for a call.    *)
ConnectedIsUsable ==
    Stored => (Status(item) \in {"Connected", "Expired"} => Readable(item))

(* A record that has expired is never used for a first call without a       *)
(* refresh, at the end of the clock's range either.                         *)
ExpiredIsRenewed ==
    Stored => (Status(item) = "Expired" => RefreshDue(item))

(* What the provider promised of the stored access token: the seconds of    *)
(* expires_in after the grant, and the exp claim.                           *)
Promised ==
    {t \in Time : t = item.access.claims.exp}
    \cup {t \in Time : /\ grant.expires # None
                       /\ grant.expires > 0 /\ t = grant.at + grant.expires}

(* The stored deadline is a promise of the provider and no later than any   *)
(* other that was still to come when it was made; it is missing only if     *)
(* there was none.  A login never stores a deadline that has passed.        *)
DeadlineIsPromised ==
    Stored =>
        IF item.deadline = None
        THEN \A t \in Promised : t <= grant.at
        ELSE /\ item.deadline \in Promised
             /\ \A t \in Promised : t > grant.at => item.deadline <= t
             /\ grant.by = "login" => item.deadline > grant.at

(* A refresh leaves a record of the same account that the next call can     *)
(* read: after one, no call asks the user to log in again because of it.    *)
RefreshKeepsAccount ==
    [][grant' # grant /\ grant' # None /\ grant'.by = "refresh" =>
           Readable(item') /\ item'.account = item.account]_vars
=============================================================================
