----------------------------- MODULE CommandProofs -----------------------------
(***************************************************************************)
(* What the command line promises, for every set of arguments, answers and *)
(* ids and any number of commands: how long a model call may take and how  *)
(* often it asks, what the arguments mean, what the exit status says, what *)
(* a session file that was damaged may still show, that no prompt or       *)
(* answer is too large for a session file, and that what is printed of an  *)
(* answer is safe for a terminal and complete.                             *)
(***************************************************************************)
EXTENDS Command, SequenceTheorems, FiniteSetTheorems, WellFoundedInduction, TLAPS

-----------------------------------------------------------------------------
(* How late a call may be where it is.  A first request may be preceded by  *)
(* one renewal and a second by one lock and one refresh, but not two: what  *)
(* has contacted the refresh endpoint before does not do so again.          *)
FirstBy ==
    [idle |-> 0, read |-> 0, lock |-> 0, reread |-> 65, refresh |-> 65, save |-> 95,
     send |-> IF contacted THEN 95 ELSE 65]
SecondBy ==
    [lock |-> IF contacted THEN 155 ELSE 125,
     reread |-> IF contacted THEN 220 ELSE 190,
     refresh |-> 190, save |-> 220, send |-> 220]

Answered == DOMAIN Refusal \cup {"Success", "none"}

CallTypeOK ==
    /\ elapsed \in Nat /\ left \in Nat
    /\ contacted \in BOOLEAN
    /\ requests \in Seq(Answered)

Refused == Len(requests) = 1 /\ requests[1] = "Unauthorized"
AtMostTwo ==
    \/ Len(requests) = 0 \/ Len(requests) = 1
    \/ Len(requests) = 2 /\ requests[1] = "Unauthorized"
Accepted == AtMostTwo /\ requests # <<>> /\ requests[Len(requests)] = "Success"

CallInv ==
    \/ /\ phase \in DOMAIN FirstBy /\ requests = <<>>
       /\ elapsed <= FirstBy[phase]
       /\ phase = "save" => contacted
       /\ answer = NoAnswer
    \/ /\ phase \in DOMAIN SecondBy /\ Refused
       /\ elapsed <= SecondBy[phase]
       /\ answer = NoAnswer
    \/ /\ phase = "decode" /\ Accepted
       /\ elapsed + left <= 340
       /\ answer = NoAnswer
    \/ /\ phase = "done"
       /\ elapsed <= 400
       /\ AtMostTwo
       /\ \/ answer.kind = "text" /\ answer = Text(answer.text) /\ Accepted
          \/ /\ answer.kind = "error" /\ answer = Error(answer.error)
             /\ answer.error \in FailureCode
          \/ answer = Error("InvalidPrompt") /\ requests = <<>>

-----------------------------------------------------------------------------
(* The model call: every step keeps the time and the requests within CallInv. *)
LEMMA ErrorsHaveCodes ==
    /\ \A e \in DOMAIN UseError : UseError[e] \in FailureCode
    /\ \A e \in DOMAIN DecodeError : DecodeError[e] \in FailureCode
    /\ \A e \in DOMAIN Refusal : Refusal[e] \in FailureCode
BY DEF UseError, DecodeError, Refusal, FailureCode

LEMMA FailedCall ==
    ASSUME NEW e \in FailureCode, answer' = Error(e), phase' = "done",
           elapsed' <= 400, AtMostTwo'
    PROVE  CallInv'
BY DEF CallInv, Error

LEMMA FirstCall ==
    ASSUME CallTypeOK, CallInv, requests = <<>>, phase # "done"
    PROVE  /\ phase \in DOMAIN FirstBy /\ elapsed <= FirstBy[phase]
           /\ phase = "save" => contacted
BY DEF CallTypeOK, CallInv, Refused, Accepted

LEMMA SecondCall ==
    ASSUME CallTypeOK, CallInv, requests # <<>>, phase \notin {"decode", "done"}
    PROVE  phase \in DOMAIN SecondBy /\ elapsed <= SecondBy[phase] /\ Refused
BY DEF CallTypeOK, CallInv

LEMMA EnterKeepsCall ==
    ASSUME CallTypeOK, CallInv, NEW prompt, Enter(prompt)
    PROVE  CallTypeOK' /\ CallInv'
<1>1. phase = "idle" /\ requests = <<>> /\ elapsed = 0 /\ answer = NoAnswer
  BY FirstCall DEF CallTypeOK, CallInv, Enter, FirstBy, SecondBy
<1>2. CallTypeOK' /\ requests' = <<>> /\ UNCHANGED contacted /\ elapsed' = 0
  BY <1>1 DEF CallTypeOK, Enter, Goto, Fail
<1>3. CASE phase' = "read" /\ answer' = NoAnswer
  BY <1>2, <1>3 DEF CallInv, FirstBy
<1>4. CASE phase' = "done" /\ answer' = Error("InvalidPrompt")
  <2>1. AtMostTwo'
    BY <1>2 DEF AtMostTwo
  <2> QED
    BY <1>2, <1>4, <2>1 DEF CallInv, FirstBy
<1> QED
  BY <1>1, <1>2, <1>3, <1>4 DEF Enter, Goto, Fail

LEMMA CallStep ==
    ASSUME CallTypeOK, CallInv, CallNext
    PROVE  CallTypeOK' /\ CallInv'
<1> USE DEF CallTypeOK, Goto, Fail, FailUse,
            WAIT_TIMEOUT, REFRESH_TIMEOUT, REQUEST_TIMEOUT, TOTAL_BUDGET
<1> DEFINE Waiting == phase \notin {"decode", "done"}
<1>0. ASSUME Waiting
      PROVE  /\ answer = NoAnswer
             /\ requests = <<>> \/ Refused
             /\ elapsed <= 220
  BY <1>0, FirstCall, SecondCall DEF CallInv, FirstBy, SecondBy
<1>1. ASSUME Waiting, UNCHANGED requests,
             NEW e \in DOMAIN UseError, NEW s \in 0 .. 65, FailUse(e, s)
      PROVE  CallInv'
  <2>1. UseError[e] \in FailureCode /\ answer' = Error(UseError[e])
    BY <1>1, ErrorsHaveCodes
  <2>2. elapsed' <= 400 /\ phase' = "done"
    BY <1>0, <1>1
  <2>3. requests' = requests /\ (requests = <<>> \/ Refused)
    BY <1>0, <1>1
  <2>4. AtMostTwo'
    BY <2>3 DEF Refused, AtMostTwo
  <2> QED
    BY <2>1, <2>2, <2>4, FailedCall
<1>2. DOMAIN UseError = {"UnsupportedPlatform", "NotConnected", "StoreUnavailable",
          "UnsupportedVersion", "InvalidCredential", "RefreshCoordinationBusy",
          "RefreshTemporarilyUnavailable", "ReauthenticationRequired"}
  BY DEF UseError
<1>3. CASE ReadRecord
  <2>1. CallTypeOK' /\ Waiting /\ UNCHANGED requests
    BY <1>3 DEF ReadRecord, FailUse, Fail
  <2>2. ASSUME NEW e \in ReadError \cup {"UnsupportedPlatform"}, FailUse(e, 0)
        PROVE  CallInv'
    BY <1>1, <1>2, <2>1, <2>2 DEF ReadError
  <2>3. ASSUME NEW place \in {"send", "lock"}, Goto(place, 0), UNCHANGED answer
        PROVE  CallInv'
    BY <1>0, <1>3, <2>1, <2>3, FirstCall, SecondCall DEF ReadRecord, CallInv, FirstBy, SecondBy
  <2> QED
    BY <1>3, <2>1, <2>2, <2>3 DEF ReadRecord
<1>4. CASE Acquire
  <2>1. CallTypeOK' /\ Waiting /\ UNCHANGED requests
    BY <1>4 DEF Acquire, FailUse, Fail
  <2>2. ASSUME NEW e \in {"RefreshCoordinationBusy", "StoreUnavailable"},
               NEW s \in {0, WAIT_TIMEOUT}, FailUse(e, s)
        PROVE  CallInv'
    BY <1>1, <1>2, <2>1, <2>2
  <2>3. ASSUME NEW s \in {0, WAIT_TIMEOUT}, Goto("reread", s), UNCHANGED answer
        PROVE  CallInv'
    <3>1. /\ phase' = "reread" /\ answer' = NoAnswer
          /\ elapsed' = elapsed + s /\ UNCHANGED contacted
      BY <1>0, <1>4, <2>1, <2>3 DEF Acquire
    <3>2. CASE requests = <<>>
      BY <1>4, <2>1, <3>1, <3>2, FirstCall DEF Acquire, CallInv, FirstBy
    <3>3. CASE requests # <<>>
      BY <1>4, <2>1, <3>1, <3>3, SecondCall DEF Acquire, CallInv, SecondBy, Refused
    <3> QED
      BY <3>2, <3>3
  <2> QED
    BY <1>4, <2>1, <2>2, <2>3 DEF Acquire
<1>5. CASE Reread
  <2>1. CallTypeOK' /\ Waiting /\ UNCHANGED requests
    BY <1>5 DEF Reread
  <2>2. ASSUME NEW e \in ReadError, FailUse(e, 0)
        PROVE  CallInv'
    BY <1>1, <1>2, <2>1, <2>2 DEF ReadError
  <2>3. ASSUME Fail("ConnectionRejected", 0)
        PROVE  CallInv'
    BY <1>1, <1>2, <2>1, <2>3 DEF UseError
  <2>4. ASSUME NEW place \in {"send", "refresh"}, Goto(place, 0), UNCHANGED answer,
               place = "send" \/ ~(Replaying /\ contacted)
        PROVE  CallInv'
    <3>1. phase' = place /\ answer' = NoAnswer /\ elapsed' = elapsed /\ UNCHANGED contacted
      BY <1>0, <1>5, <2>1, <2>4 DEF Reread
    <3>2. CASE requests = <<>>
      BY <1>5, <2>1, <3>1, <3>2, FirstCall DEF Reread, CallInv, FirstBy
    <3>3. CASE requests # <<>>
      BY <1>5, <2>1, <2>4, <3>1, <3>3, SecondCall
         DEF Reread, CallInv, SecondBy, Refused, Replaying
    <3> QED
      BY <3>2, <3>3
  <2> QED
    BY <1>5, <2>1, <2>2, <2>3, <2>4 DEF Reread
<1>6. CASE Refresh
  <2>1. CallTypeOK' /\ Waiting /\ UNCHANGED requests
    BY <1>6 DEF Refresh
  <2>2. ASSUME NEW e \in {"ReauthenticationRequired", "InvalidCredential",
                          "RefreshTemporarilyUnavailable"},
               NEW s \in {0, REFRESH_TIMEOUT, 2 * REFRESH_TIMEOUT}, FailUse(e, s)
        PROVE  CallInv'
    BY <1>1, <1>2, <2>1, <2>2
  <2>3. ASSUME NEW s \in {0, REFRESH_TIMEOUT}, Goto("save", s), UNCHANGED answer
        PROVE  CallInv'
    <3>1. phase' = "save" /\ answer' = NoAnswer /\ elapsed' = elapsed + s
      BY <1>0, <1>6, <2>1, <2>3 DEF Refresh
    <3>2. CASE requests = <<>>
      <4>1. contacted' = TRUE /\ elapsed <= 65 /\ requests' = <<>>
        BY <1>6, <2>1, <3>2, FirstCall DEF Refresh, FirstBy, Replaying
      <4> QED
        BY <2>3, <3>1, <4>1 DEF CallInv, FirstBy
    <3>3. CASE requests # <<>>
      BY <1>6, <2>1, <3>1, <3>3, SecondCall DEF Refresh, CallInv, SecondBy, Refused
    <3> QED
      BY <3>2, <3>3
  <2> QED
    BY <1>6, <2>1, <2>2, <2>3 DEF Refresh
<1>7. CASE Save
  <2>1. CallTypeOK' /\ Waiting /\ UNCHANGED requests
    BY <1>7 DEF Save
  <2>2. ASSUME FailUse("StoreUnavailable", 0)
        PROVE  CallInv'
    BY <1>1, <1>2, <2>1, <2>2
  <2>3. ASSUME Goto("send", 0), UNCHANGED answer
        PROVE  CallInv'
    <3>1. phase' = "send" /\ answer' = NoAnswer /\ elapsed' = elapsed /\ UNCHANGED contacted
      BY <1>0, <1>7, <2>1, <2>3 DEF Save
    <3>2. CASE requests = <<>>
      BY <1>7, <2>1, <3>1, <3>2, FirstCall DEF Save, CallInv, FirstBy
    <3>3. CASE requests # <<>>
      BY <1>7, <2>1, <3>1, <3>3, SecondCall DEF Save, CallInv, SecondBy, Refused
    <3> QED
      BY <3>2, <3>3
  <2> QED
    BY <1>7, <2>1, <2>2, <2>3 DEF Save
<1>8. CASE Send
  <2>1. Waiting /\ phase = "send"
    BY <1>8 DEF Send
  <2>2. elapsed <= 220 /\ answer = NoAnswer /\ (requests = <<>> \/ Refused)
    BY <1>0, <2>1
  <2>3. ASSUME NEW status \in Answered, requests' = Append(requests, status)
        PROVE  /\ requests' \in Seq(Answered)
               /\ Len(requests') \in {1, 2} /\ requests'[Len(requests')] = status
               /\ requests = <<>> => Len(requests') = 1 /\ requests'[1] = status
               /\ Len(requests') = 2 => requests'[1] = "Unauthorized"
    BY <2>2, <2>3 DEF Refused
  <2>4. ASSUME NEW status \in Answered, requests' = Append(requests, status),
               NEW e \in FailureCode, NEW s \in {0, REQUEST_TIMEOUT}, Fail(e, s),
               UNCHANGED <<left, contacted>>
        PROVE  CallTypeOK' /\ CallInv'
    <3>1. CallTypeOK'
      BY <2>3, <2>4
    <3>2. elapsed' <= 400 /\ phase' = "done" /\ answer' = Error(e)
      BY <2>2, <2>4
    <3>3. AtMostTwo'
      BY <2>3, <2>4 DEF AtMostTwo
    <3> QED
      BY <3>1, <3>2, <3>3, FailedCall
  <2>5. ASSUME NEW s \in {0, REQUEST_TIMEOUT}, requests' = Append(requests, "Success"),
               Goto("decode", s), left' = TOTAL_BUDGET - s, UNCHANGED <<answer, contacted>>
        PROVE  CallTypeOK' /\ CallInv'
    <3>1. requests' \in Seq(Answered) /\ Accepted'
      BY <2>3, <2>5 DEF Accepted, AtMostTwo, Answered
    <3>2. elapsed' + left' <= 340 /\ phase' = "decode" /\ answer' = NoAnswer
      BY <2>2, <2>5
    <3>3. elapsed' \in Nat /\ left' \in Nat /\ contacted' \in BOOLEAN
      BY <2>5
    <3> QED
      BY <3>1, <3>2, <3>3 DEF CallInv
  <2>6. ASSUME NEW s \in {0, REQUEST_TIMEOUT}, NEW status \in DOMAIN Refusal,
               requests' = Append(requests, status), Renewable(Refusal[status]),
               Goto("lock", s), UNCHANGED <<answer, contacted, left>>
        PROVE  CallTypeOK' /\ CallInv'
    <3>1. status = "Unauthorized" /\ requests = <<>>
      BY <2>6 DEF Renewable, Refusal
    <3>2. requests' \in Seq(Answered) /\ Refused'
      BY <2>3, <2>6, <3>1 DEF Refused, Answered
    <3>3. elapsed <= IF contacted THEN 95 ELSE 65
      BY <2>1, <3>1, FirstCall DEF FirstBy
    <3> QED
      BY <2>2, <2>6, <3>2, <3>3 DEF CallInv, SecondBy
  <2>7. DOMAIN Refusal \cup {"Success", "none"} \subseteq Answered
    BY DEF Answered
  <2>8. {"CallTimedOut", "Unavailable", "InvalidProviderResponse"} \subseteq FailureCode
    BY DEF FailureCode
  <2> QED
    BY <1>8, <2>4, <2>5, <2>6, <2>7, <2>8, ErrorsHaveCodes DEF Send
<1>9. CASE Decode
  <2>1. phase = "decode" /\ elapsed + left <= 340 /\ Accepted
    BY <1>9 DEF Decode, CallInv, FirstBy, SecondBy
  <2>2. CallTypeOK' /\ Accepted'
    BY <1>9, <2>1 DEF Decode, Accepted, AtMostTwo
  <2>3. ASSUME NEW e \in DOMAIN DecodeError,
               NEW s \in {0, left, REQUEST_TIMEOUT, left + REQUEST_TIMEOUT},
               Fail(DecodeError[e], s)
        PROVE  CallInv'
    <3>1. elapsed' <= 400 /\ phase' = "done" /\ answer' = Error(DecodeError[e])
      BY <2>1, <2>3
    <3>2. DecodeError[e] \in FailureCode
      BY ErrorsHaveCodes
    <3> QED
      BY <2>2, <3>1, <3>2, FailedCall DEF Accepted
  <2>4. ASSUME NEW t \in Answers, NEW s \in {0, left}, Goto("done", s), answer' = Text(t)
        PROVE  CallInv'
    <3>1. elapsed' <= 400 /\ phase' = "done"
      BY <2>1, <2>4
    <3>2. answer'.kind = "text" /\ answer' = Text(answer'.text)
      BY <2>4 DEF Text
    <3> QED
      BY <2>2, <3>1, <3>2 DEF CallInv, Accepted, Text
  <2>5. "TimedOut" \in DOMAIN DecodeError
    BY DEF DecodeError
  <2> QED
    BY <1>9, <2>2, <2>3, <2>4, <2>5 DEF Decode
<1> QED
  BY <1>3, <1>4, <1>5, <1>6, <1>7, <1>8, <1>9 DEF CallNext

(* The error of a call that fails on its way has a code. *)
LEMMA CallEnds ==
    ASSUME CallTypeOK, CallInv, CallNext
    PROVE  answer' # Error("InvalidPrompt")
<1> USE ErrorsHaveCodes DEF Goto, Fail, FailUse
<1>1. answer # Error("InvalidPrompt")
  BY DEF CallInv, CallNext, ReadRecord, Acquire, Reread, Refresh, Save, Send, Decode, NoAnswer,
         Error
<1>2. "InvalidPrompt" \notin FailureCode
  BY DEF FailureCode
<1>3. ASSUME NEW e \in FailureCode, answer' = Error(e)
      PROVE  answer' # Error("InvalidPrompt")
  BY <1>2, <1>3 DEF Error
<1>4. CASE ReadRecord \/ Acquire \/ Save
  BY <1>1, <1>3, <1>4 DEF ReadRecord, Acquire, Save, ReadError, UseError
<1>5. CASE Reread \/ Refresh
  BY <1>1, <1>3, <1>5 DEF Reread, Refresh, ReadError, UseError, FailureCode
<1>6. CASE Send
  BY <1>1, <1>3, <1>6 DEF Send, FailureCode
<1>7. CASE Decode
  BY <1>3, <1>7 DEF Decode, Text, Error, DecodeError
<1> QED
  BY <1>4, <1>5, <1>6, <1>7 DEF CallNext

-----------------------------------------------------------------------------
(* What the arguments mean. *)
LEMMA Words ==
    ASSUME NEW S, NEW a \in Seq(S)
    PROVE  /\ a = <<>> <=> Len(a) = 0
           /\ Len(a) = 2 => a = <<a[1], a[2]>>
           /\ Len(a) = 3 => a = <<a[1], a[2], a[3]>>
OBVIOUS

LEMMA Lengths ==
    ASSUME NEW S, NEW a \in Seq(S)
    PROVE  \/ Len(a) < 2 /\ Len(a) < 3 /\ Len(a) # 3
           \/ Len(a) = 2 /\ ~(Len(a) < 2) /\ Len(a) < 3 /\ ~(Len(a) = 3)
           \/ Len(a) = 3 /\ ~(Len(a) < 2) /\ ~(Len(a) < 3) /\ ~(Len(a) = 2)
           \/ /\ Len(a) > 3 /\ ~(Len(a) < 2) /\ ~(Len(a) < 3)
              /\ ~(Len(a) = 2) /\ ~(Len(a) = 3) /\ a # <<>>
<1>1. \A n \in Nat : \/ n < 2 /\ n < 3 /\ n # 3
                     \/ n = 2 /\ ~(n < 2) /\ n < 3 /\ ~(n = 3)
                     \/ n = 3 /\ ~(n < 2) /\ ~(n < 3) /\ ~(n = 2)
                     \/ n > 3 /\ ~(n < 2) /\ ~(n < 3) /\ ~(n = 2) /\ ~(n = 3) /\ n # 0
  OBVIOUS
<1>2. Len(a) \in Nat
  OBVIOUS
<1> QED
  BY <1>1, <1>2, Words

LEMMA ProviderMeans ==
    ASSUME NEW S, NEW a \in Seq(S), NEW success, success \notin {"Help", "UsageError"}
    PROVE  /\ ParseProvider(a, success).name \in {success, "Help", "UsageError"}
           /\ ParseProvider(a, success).name = success <=> Len(a) = 3 /\ a[3] = "openai-codex"
BY DEF ParseProvider, Do, Help, UsageError, IsHelp

LEMMA SessionMeans ==
    ASSUME NEW S, NEW a \in Seq(S), Len(a) > 0, a[1] = "session"
    PROVE  LET o == ParseSession(a)
           IN  /\ o.name \in {"SessionList", "SessionShow", "Help", "UsageError"}
               /\ o.name = "SessionList" <=> a = <<"session", "list">>
               /\ o.name = "SessionShow" <=>
                      \E i \in Id : a = <<"session", "show", i>> /\ o.argument = i
<1>1. \A i \in Id : ~IsHelp(i)
  BY IdAssumption DEF IsHelp
<1>2. CASE Len(a) < 2
  BY <1>2 DEF ParseSession, Do, Help
<1>3. CASE Len(a) = 2
  BY <1>3, Words DEF ParseSession, OnlyHelp, Do, Help, UsageError, IsHelp
<1>4. CASE Len(a) = 3
  <2>1. a = <<"session", a[2], a[3]>>
    BY <1>4, Words
  <2>2. CASE a[2] = "show" /\ ~IsHelp(a[3]) /\ a[3] \in Id
    <3>1. ParseSession(a) = [name |-> "SessionShow", argument |-> a[3]]
      BY <1>4, <2>2 DEF ParseSession, IsHelp
    <3> QED
      BY <1>4, <2>1, <2>2, <3>1
  <2>3. CASE ~(a[2] = "show" /\ ~IsHelp(a[3]) /\ a[3] \in Id)
    <3>1. ParseSession(a).name \in {"Help", "UsageError"}
      BY <1>4, <2>3 DEF ParseSession, OnlyHelp, Do, Help, UsageError, IsHelp
    <3>2. ~\E i \in Id : a = <<"session", "show", i>>
      BY <1>1, <2>3
    <3> QED
      BY <1>4, <3>1, <3>2
  <2> QED
    BY <2>2, <2>3
<1>5. CASE Len(a) > 3 /\ ~(Len(a) < 2) /\ ~(Len(a) < 3) /\ ~(Len(a) = 2) /\ ~(Len(a) = 3)
  <2>1. ParseSession(a).name \in {"Help", "UsageError"}
    BY <1>5 DEF ParseSession, OnlyHelp, Do, Help, UsageError
  <2>2. a # <<"session", "list">> /\ \A i \in Id : a # <<"session", "show", i>>
    BY <1>5
  <2> QED
    BY <2>1, <2>2
<1> QED
  BY <1>2, <1>3, <1>4, <1>5, Lengths

LEMMA AskMeans ==
    ASSUME NEW S, NEW a \in Seq(S), Len(a) > 0, a[1] = "ask"
    PROVE  LET o == ParseAsk(a)
           IN  /\ o.name \in {"AskOpenAiCodex", "InvalidPrompt", "Help", "UsageError"}
               /\ o.name = "AskOpenAiCodex" =>
                      /\ a = <<"ask", "openai-codex", o.argument>>
                      /\ ValidPrompt(TextOf(o.argument))
<1> DEFINE Accepts ==
               /\ Len(a) = 3 /\ a[2] = "openai-codex"
               /\ ~IsHelp(a[3]) /\ a[3] \notin {"--", "not-utf8"}
               /\ CliValidPrompt(TextOf(a[3]))
<1>1. CASE Accepts
  <2>1. ParseAsk(a) = [name |-> "AskOpenAiCodex", argument |-> a[3]]
    BY <1>1 DEF ParseAsk, IsHelp
  <2>2. a = <<"ask", "openai-codex", a[3]>>
    BY <1>1, Words
  <2>3. ValidPrompt(TextOf(a[3]))
    BY <1>1 DEF ValidPrompt, CliValidPrompt
  <2> QED
    BY <2>1, <2>2, <2>3
<1>2. CASE ~Accepts
  <2>1. ParseAsk(a) \in {Help, UsageError, Do("InvalidPrompt")}
    BY <1>2, Lengths DEF ParseAsk
  <2> QED
    BY <2>1 DEF Do, Help, UsageError
<1> QED
  BY <1>1, <1>2

LEMMA GroupMeans ==
    ASSUME NEW S, NEW a \in Seq(S), NEW names,
           \A w \in DOMAIN names : names[w] \notin {"Help", "UsageError"} /\ ~IsHelp(w)
    PROVE  LET o == ParseGroup(a, names)
           IN  /\ \/ o.name \in {"Help", "UsageError"}
                  \/ /\ a[2] \in DOMAIN names /\ a = <<a[1], a[2], "openai-codex">>
                     /\ o.name = names[a[2]]
               /\ \A w \in DOMAIN names :
                      Len(a) = 3 /\ a[2] = w /\ a[3] = "openai-codex" => o.name = names[w]
<1>1. CASE Len(a) < 2 \/ IsHelp(a[2]) \/ a[2] \notin DOMAIN names
  <2>1. ParseGroup(a, names).name \in {"Help", "UsageError"}
    BY <1>1 DEF ParseGroup, Do, Help, UsageError
  <2> QED
    BY <1>1, <2>1, Lengths
<1>2. CASE ~(Len(a) < 2 \/ IsHelp(a[2]) \/ a[2] \notin DOMAIN names)
  <2>1. ParseGroup(a, names) = ParseProvider(a, names[a[2]])
    BY <1>2 DEF ParseGroup
  <2> QED
    BY <1>2, <2>1, ProviderMeans, Words
<1> QED
  BY <1>1, <1>2

(* Each operation is asked for by its own words. *)
LEMMA CommandMeans ==
    ASSUME NEW S, NEW a \in Seq(S)
    PROVE  LET o == ParseCommand(a)
           IN  /\ \A name \in DOMAIN Usage : o.name = name <=> a = Usage[name]
               /\ o.name = "SessionShow" <=>
                      \E i \in Id : a = <<"session", "show", i>> /\ o.argument = i
               /\ o.name = "AskOpenAiCodex" =>
                      /\ a = <<"ask", "openai-codex", o.argument>>
                      /\ ValidPrompt(TextOf(o.argument))
<1> DEFINE o == ParseCommand(a)
           auth == [login |-> "LoginOpenAiCodex", logout |-> "LogoutOpenAiCodex",
                    status |-> "StatusOpenAiCodex"]
           model == [test |-> "ModelTestOpenAiCodex"]
           Reads(name, words) == o.name = name <=> a = words
           Goal ==
               /\ Reads("LoginOpenAiCodex", <<"auth", "login", "openai-codex">>)
               /\ Reads("LogoutOpenAiCodex", <<"auth", "logout", "openai-codex">>)
               /\ Reads("StatusOpenAiCodex", <<"auth", "status", "openai-codex">>)
               /\ Reads("ModelTestOpenAiCodex", <<"model", "test", "openai-codex">>)
               /\ Reads("SessionList", <<"session", "list">>)
               /\ o.name = "SessionShow" <=>
                      \E i \in Id : a = <<"session", "show", i>> /\ o.argument = i
               /\ o.name = "AskOpenAiCodex" =>
                      /\ a = <<"ask", "openai-codex", o.argument>>
                      /\ ValidPrompt(TextOf(o.argument))
<1>1. ASSUME a = <<>> \/ IsHelp(a[1]) \/ a[1] \notin {"auth", "model", "session", "ask"}
      PROVE  Goal
  <2>1. o.name \in {"Help", "Version", "UsageError"}
    BY <1>1 DEF ParseCommand, Do, Help, UsageError
  <2>2. /\ \A v, w : a # <<"auth", v, w>> /\ a # <<"model", v, w>> /\ a # <<"session", v, w>>
        /\ a # <<"session", "list">>
    <3>1. CASE a = <<>>
      BY <3>1
    <3>2. CASE a[1] \notin {"auth", "model", "session", "ask"}
      BY <3>2
    <3> QED
      BY <1>1, <3>1, <3>2 DEF IsHelp
  <2> QED
    BY <2>1, <2>2
<1>2. ASSUME a # <<>> /\ a[1] = "auth"
      PROVE  Goal
  <2>1. o = ParseGroup(a, auth)
    BY <1>2 DEF ParseCommand, IsHelp
  <2>2. \A w \in DOMAIN auth : auth[w] \notin {"Help", "UsageError"} /\ ~IsHelp(w)
    BY DEF IsHelp
  <2>3. /\ \/ o.name \in {"Help", "UsageError"}
           \/ /\ a[2] \in DOMAIN auth /\ a = <<a[1], a[2], "openai-codex">>
              /\ o.name = auth[a[2]]
        /\ \A w \in DOMAIN auth :
               Len(a) = 3 /\ a[2] = w /\ a[3] = "openai-codex" => o.name = auth[w]
    BY <2>1, <2>2, GroupMeans
  <2>4. \A w \in DOMAIN auth : a = <<"auth", w, "openai-codex">> => o.name = auth[w]
    BY <2>3
  <2>5. o.name \in {"Help", "UsageError"} \/ \E w \in DOMAIN auth :
            a = <<"auth", w, "openai-codex">> /\ o.name = auth[w]
    BY <1>2, <2>3
  <2>6. /\ a # <<"session", "list">> /\ \A i \in Id : a # <<"session", "show", i>>
        /\ \A w : a # <<"model", w, "openai-codex">>
    BY <1>2
  <2>7. o.name \in {"Help", "UsageError", "LoginOpenAiCodex", "LogoutOpenAiCodex",
                   "StatusOpenAiCodex"}
    BY <2>5
  <2> QED
    BY <2>4, <2>5, <2>6, <2>7
<1>3. ASSUME a # <<>> /\ a[1] = "model"
      PROVE  Goal
  <2>1. o = ParseGroup(a, model)
    BY <1>3 DEF ParseCommand, IsHelp
  <2>2. \A w \in DOMAIN model : model[w] \notin {"Help", "UsageError"} /\ ~IsHelp(w)
    BY DEF IsHelp
  <2>3. /\ \/ o.name \in {"Help", "UsageError"}
           \/ /\ a[2] \in DOMAIN model /\ a = <<a[1], a[2], "openai-codex">>
              /\ o.name = model[a[2]]
        /\ \A w \in DOMAIN model :
               Len(a) = 3 /\ a[2] = w /\ a[3] = "openai-codex" => o.name = model[w]
    BY <2>1, <2>2, GroupMeans
  <2>4. \A w \in DOMAIN model : a = <<"model", w, "openai-codex">> => o.name = model[w]
    BY <2>3
  <2>5. o.name \in {"Help", "UsageError"} \/ \E w \in DOMAIN model :
            a = <<"model", w, "openai-codex">> /\ o.name = model[w]
    BY <1>3, <2>3
  <2>6. /\ a # <<"session", "list">> /\ \A i \in Id : a # <<"session", "show", i>>
        /\ \A w : a # <<"auth", w, "openai-codex">>
    BY <1>3
  <2>7. o.name \in {"Help", "UsageError", "ModelTestOpenAiCodex"}
    BY <2>5
  <2> QED
    BY <2>4, <2>5, <2>6, <2>7
<1>4. ASSUME a # <<>> /\ a[1] = "session"
      PROVE  Goal
  <2>1. o = ParseSession(a) /\ Len(a) > 0
    BY <1>4, Words DEF ParseCommand, IsHelp
  <2>2. \A w : a # <<"auth", w, "openai-codex">> /\ a # <<"model", w, "openai-codex">>
    BY <1>4
  <2> QED
    BY <1>4, <2>1, <2>2, SessionMeans
<1>5. ASSUME a # <<>> /\ a[1] = "ask"
      PROVE  Goal
  <2>1. o = ParseAsk(a) /\ Len(a) > 0
    BY <1>5, Words DEF ParseCommand, IsHelp
  <2>2. /\ a # <<"session", "list">> /\ \A i \in Id : a # <<"session", "show", i>>
        /\ \A w : a # <<"auth", w, "openai-codex">> /\ a # <<"model", w, "openai-codex">>
    BY <1>5
  <2> QED
    BY <1>5, <2>1, <2>2, AskMeans
<1>6. Goal
  BY <1>1, <1>2, <1>3, <1>4, <1>5
<1>7. \A name \in DOMAIN Usage : o.name = name <=> a = Usage[name]
  <2>1. DOMAIN Usage = {"LoginOpenAiCodex", "LogoutOpenAiCodex", "StatusOpenAiCodex",
                        "ModelTestOpenAiCodex", "SessionList"}
    BY DEF Usage
  <2>2. /\ Usage["LoginOpenAiCodex"] = <<"auth", "login", "openai-codex">>
        /\ Usage["LogoutOpenAiCodex"] = <<"auth", "logout", "openai-codex">>
        /\ Usage["StatusOpenAiCodex"] = <<"auth", "status", "openai-codex">>
        /\ Usage["ModelTestOpenAiCodex"] = <<"model", "test", "openai-codex">>
        /\ Usage["SessionList"] = <<"session", "list">>
    BY DEF Usage
  <2> QED
    BY <1>6, <2>1, <2>2
<1> QED
  BY <1>6, <1>7

-----------------------------------------------------------------------------
(* Every step of a command keeps the model call within CallInv. *)
LEMMA CallSteps ==
    ASSUME CallTypeOK, CallInv, [Next]_cmdVars
    PROVE  CallTypeOK' /\ CallInv'
<1>1. CASE UNCHANGED callVars
  BY <1>1 DEF callVars, CallTypeOK, CallInv, FirstBy, SecondBy, Refused, Accepted, AtMostTwo,
              NoAnswer
<1>2. CASE CallNext
  BY <1>2, CallStep
<1>3. CASE \E prompt : Enter(prompt)
  BY <1>3, EnterKeepsCall
<1>4. CASE CallOver
  <2>1. phase = "done" /\ phase' = "done" /\ elapsed' = 0 /\ contacted' = FALSE
        /\ left' = left /\ requests' = requests /\ answer' = answer
    BY <1>4 DEF CallOver
  <2>2. AtMostTwo' = AtMostTwo /\ Accepted' = Accepted
    BY <2>1 DEF AtMostTwo, Accepted
  <2>3. CallTypeOK'
    BY <2>1 DEF CallTypeOK
  <2> QED
    BY <2>1, <2>2, <2>3 DEF CallInv, FirstBy, SecondBy
<1>5. CASE NextCommand
  <2>1. /\ phase' = "idle" /\ elapsed' = 0 /\ left' = 0 /\ contacted' = FALSE
        /\ requests' = <<>> /\ answer' = NoAnswer
    BY <1>5 DEF NextCommand
  <2>2. elapsed' \in Nat /\ left' \in Nat /\ contacted' \in BOOLEAN
    BY <2>1
  <2>3. requests' \in Seq(Answered)
    BY <2>1
  <2>4. "idle" \in DOMAIN FirstBy' /\ elapsed' <= FirstBy'["idle"]
    BY <2>1 DEF FirstBy
  <2> QED
    BY <2>1, <2>2, <2>3, <2>4 DEF CallTypeOK, CallInv
<1>6. CASE \/ Parse \/ Explain \/ Refuse \/ RunLogin \/ RunLocal \/ StartAsk
           \/ ShowSession \/ ListSessions \/ Touch \/ UNCHANGED cmdVars
  BY <1>1, <1>6 DEF Parse, Explain, Refuse, RunLogin, RunLocal, StartAsk, ShowSession,
                    ListSessions, Touch, cmdVars
<1>7. CASE RunModelTest \/ FinishAsk \/ CallModel
  BY <1>2, <1>3, <1>4, <1>7 DEF RunModelTest, FinishAsk, CallModel
<1> QED
  BY <1>5, <1>6, <1>7 DEF Next

-----------------------------------------------------------------------------
Asking == op.name = "AskOpenAiCodex"

(* Where a command is, and what it has decided there. *)
StepInv ==
    /\ step \in {"start", "run", "ask", "done"}
    /\ commands \in Nat \ {0}
    /\ args \in FirstArguments \cup LaterArguments
    /\ step # "start" => op = ParseCommand(args)
    /\ step # "done" => result = "none"
    /\ step = "start" \/ (step = "run" /\ op.name # "ModelTestOpenAiCodex") => phase = "idle"
    /\ step = "done" => phase \in {"idle", "done"}
    /\ step = "ask" => Asking
    /\ Asking /\ step \in {"ask", "done"} => answer # Error("InvalidPrompt")

(* Before the first ask there is no file. *)
FirstInv ==
    commands = 1 =>
        /\ ~touched
        /\ (step \in {"ask", "done"} /\ Asking) \/ file = [i \in Id |-> NoFile]

(* What is said of the end of a command, at its end. *)
ExitInv ==
    step = "done" =>
        /\ exit = "SUCCESS" <=>
               /\ op.name \notin {"UsageError", "InvalidPrompt"}
               /\ result \in {"none", "ok"}
               /\ "failed" \notin {stdout.wrote, stderr.wrote}
        /\ exit # "SUCCESS" /\ {stdout.wrote, stderr.wrote} = {"written"} => stderr.lines # {}
        /\ exit = "2" => requests = <<>> /\ op.name \in {"UsageError", "InvalidPrompt"}

LEMMA StepSteps ==
    ASSUME CallTypeOK, CallInv, StepInv, [Next]_cmdVars
    PROVE  StepInv'
<1> USE DEF StepInv, Asking, Running
<1>0. phase = "idle" => answer = NoAnswer
  BY DEF CallInv, SecondBy
<1>1. NoAnswer # Error("InvalidPrompt")
  BY DEF NoAnswer, Error
<1>2. CASE Parse
  BY <1>2, <1>0, <1>1 DEF Parse, callVars
<1>3. CASE \/ Explain \/ Refuse \/ RunLogin \/ RunLocal \/ ShowSession \/ ListSessions
  <2>1. step' = "done" /\ op.name \notin {"AskOpenAiCodex", "ModelTestOpenAiCodex"}
        /\ step = "run" /\ UNCHANGED <<callVars, args, op, commands>>
    BY <1>3 DEF Explain, Refuse, RunLogin, RunLocal, ShowSession, ListSessions,
                EndWithText, EndWithError, End
  <2> QED
    BY <2>1 DEF callVars
<1>4. CASE CallModel
  <2>1. UNCHANGED <<args, op, step, commands, result>>
    BY <1>4 DEF CallModel
  <2>2. CASE step = "run" /\ op.name = "ModelTestOpenAiCodex"
    BY <2>1, <2>2
  <2>3. CASE step = "ask"
    <3>1. op = ParseCommand(args) /\ op.name = "AskOpenAiCodex"
      BY <2>3
    <3>2. ValidPrompt(TextOf(op.argument))
      BY <3>1, ArgumentsAssumption, CommandMeans
    <3>3. answer' # Error("InvalidPrompt")
      BY <1>4, <2>3, <3>2, <1>0, <1>1, CallEnds DEF CallModel, Enter
    <3> QED
      BY <2>1, <2>3, <3>1, <3>3
  <2>4. step = "ask" \/ (step = "run" /\ op.name = "ModelTestOpenAiCodex")
    BY <1>4 DEF CallModel, CallNext, ReadRecord, Acquire, Reread, Refresh, Save, Send, Decode
  <2> QED
    BY <2>2, <2>3, <2>4
<1>5. CASE RunModelTest \/ FinishAsk
  <2>1. /\ step' = "done" /\ phase' = "done" /\ answer' = answer
        /\ UNCHANGED <<args, op, commands>>
        /\ (step = "ask" \/ op.name = "ModelTestOpenAiCodex") /\ step \in {"run", "ask"}
    BY <1>5 DEF RunModelTest, FinishAsk, CallOver, EndWithError, End
  <2> QED
    BY <2>1
<1>6. CASE StartAsk
  <2>1. /\ step = "run" /\ op.name = "AskOpenAiCodex"
        /\ UNCHANGED <<callVars, args, op, commands>>
    BY <1>6 DEF StartAsk
  <2>2. (step' = "ask" /\ result' = result) \/ step' = "done"
    BY <1>6 DEF StartAsk, EndWithError, End, output
  <2> QED
    BY <1>0, <1>1, <2>1, <2>2 DEF callVars
<1>7. CASE Touch
  BY <1>7 DEF Touch, callVars
<1>8. CASE NextCommand
  BY <1>8 DEF NextCommand
<1>9. CASE UNCHANGED cmdVars
  BY <1>9 DEF cmdVars, callVars
<1> QED
  BY <1>2, <1>3, <1>4, <1>5, <1>6, <1>7, <1>8, <1>9 DEF Next

LEMMA FirstSteps ==
    ASSUME StepInv, FirstInv, [Next]_cmdVars
    PROVE  FirstInv'
<1> USE DEF StepInv, FirstInv, Running, Asking
<1>1. CASE \/ Parse \/ Explain \/ Refuse \/ RunLogin \/ RunLocal \/ RunModelTest
           \/ ShowSession \/ ListSessions
  BY <1>1 DEF Parse, Explain, Refuse, RunLogin, RunLocal, RunModelTest, ShowSession,
              ListSessions, store
<1>2. CASE CallModel \/ UNCHANGED cmdVars
  BY <1>2 DEF CallModel, cmdVars, store
<1>3. CASE StartAsk \/ FinishAsk
  <2>1. Asking' /\ step' \in {"ask", "done"} /\ UNCHANGED <<touched, commands>>
    BY <1>3 DEF StartAsk, FinishAsk, EndWithError, End
  <2> QED
    BY <2>1
<1>4. CASE Touch
  BY <1>4 DEF Touch
<1>5. CASE NextCommand
  BY <1>5 DEF NextCommand
<1> QED
  BY <1>1, <1>2, <1>3, <1>4, <1>5 DEF Next

(* An end that says what the operation returned and whether it was heard. *)
LEMMA TrueEnd ==
    ASSUME NEW out, NEW err, NEW status \in {"SUCCESS", "FAILURE"}, End(status, out, err),
           op'.name \notin {"UsageError", "InvalidPrompt"},
           "failed" \notin {out.wrote, err.wrote} =>
               (status = "SUCCESS" <=> result' \in {"none", "ok"}),
           status = "SUCCESS" \/ err.lines # {} \/ {out.wrote, err.wrote} # {"written"}
    PROVE  ExitInv'
BY DEF ExitInv, End, Complete

LEMMA Lines ==
    ASSUME NEW lines, NEW err \in WriteLines(lines)
    PROVE  err.wrote = "written" => err.lines = lines
BY DEF WriteLines

LEMMA WriteGives ==
    ASSUME NEW a, NEW b, NEW out, out \in Write(a, b)
    PROVE  out.text = a /\ out.says = b
<1>1. \E how \in Stream : out = [text |-> a, says |-> b, wrote |-> how]
  BY DEF Write
<1> QED
  BY <1>1

LEMMA ExitSteps ==
    ASSUME CallInv, StepInv, ExitInv, [Next]_cmdVars
    PROVE  ExitInv'
<1> USE DEF StepInv, Running
<1>1. CASE Explain
  BY <1>1, TrueEnd DEF Explain, EndWithText, Silence
<1>2. CASE Refuse
  <2>0. requests = <<>>
    BY <1>2 DEF Refuse, CallInv, SecondBy
  <2>1. step = "run" /\ op.name \in {"UsageError", "InvalidPrompt"} /\ op' = op
        /\ UNCHANGED callVars
    BY <1>2 DEF Refuse
  <2>2. requests' = requests
    BY <2>1 DEF callVars
  <2>3. PICK err \in WriteLines({"usage"}) : End("2", Nothing, err)
    BY <1>2 DEF Refuse, EndWithError
  <2>4. exit' = "2" /\ stderr' = err
    BY <2>3 DEF End, Complete
  <2>5. err.lines # {} \/ err.wrote # "written"
    BY Lines
  <2>6. exit' # "SUCCESS" /\ op'.name \in {"UsageError", "InvalidPrompt"}
    BY <2>1, <2>4
  <2>7. {stdout'.wrote, stderr'.wrote} = {"written"} => stderr'.lines # {}
    BY <2>4, <2>5
  <2>8. requests' = <<>>
    BY <2>0, <2>2
  <2> QED
    BY <2>6, <2>7, <2>8 DEF ExitInv
<1>3. CASE RunLogin
  <2>1. op'.name \notin {"UsageError", "InvalidPrompt"}
    BY <1>3 DEF RunLogin
  <2>2. PICK returned \in {"ok", "BeforeBrowser", "AfterBrowser"}, launched \in BOOLEAN :
           LET progress == Progress(returned, launched)
               status == IF returned = "ok" THEN "SUCCESS" ELSE "FAILURE"
               shown(n) == {progress[k] : k \in 1 .. n}
           IN  /\ result' = returned
               /\ \/ \E n \in 0 .. Len(progress) - 1, how \in {"closed", "failed"} :
                         End(status, Nothing, [lines |-> shown(n), wrote |-> how])
                  \/ /\ returned = "ok"
                     /\ \E out \in Write(<<LineEnd>>, "Connected") :
                            End(status, out,
                                [lines |-> shown(Len(progress)), wrote |-> "written"])
                  \/ /\ returned # "ok"
                     /\ \E err \in WriteLines({"error"}) :
                            End(status, Nothing,
                                [err EXCEPT !.lines = @ \cup shown(Len(progress))])
    BY <1>3 DEF RunLogin
  <2> DEFINE status == IF returned = "ok" THEN "SUCCESS" ELSE "FAILURE"
  <2>3. status \in {"SUCCESS", "FAILURE"} /\ (status = "SUCCESS" <=> result' \in {"none", "ok"})
    BY <2>2
  <2>4. ASSUME NEW out, NEW lines, NEW how, End(status, out, [lines |-> lines, wrote |-> how]),
               status = "SUCCESS" \/ lines # {} \/ how # "written"
        PROVE  ExitInv'
    BY <2>1, <2>3, <2>4, TrueEnd
  <2>5. ASSUME NEW err \in WriteLines({"error"}), NEW shown
        PROVE  /\ [err EXCEPT !.lines = @ \cup shown]
                      = [lines |-> err.lines \cup shown, wrote |-> err.wrote]
               /\ err.lines \cup shown # {} \/ err.wrote # "written"
    BY <2>5 DEF WriteLines
  <2> DEFINE progress == Progress(returned, launched)
             shown(n) == {progress[k] : k \in 1 .. n}
  <2>6. ASSUME NEW n \in 0 .. Len(progress) - 1, NEW how \in {"closed", "failed"},
               End(status, Nothing, [lines |-> shown(n), wrote |-> how])
        PROVE  ExitInv'
    <3> HIDE DEF shown, status
    <3> QED
      BY <2>4, <2>6
  <2>7. ASSUME returned = "ok", NEW out,
               End(status, out, [lines |-> shown(Len(progress)), wrote |-> "written"])
        PROVE  ExitInv'
    <3>1. status = "SUCCESS"
      BY <2>7
    <3> HIDE DEF shown, status
    <3> QED
      BY <2>4, <2>7, <3>1
  <2>8. ASSUME NEW err \in WriteLines({"error"}),
               End(status, Nothing, [err EXCEPT !.lines = @ \cup shown(Len(progress))])
        PROVE  ExitInv'
    <3>1. [err EXCEPT !.lines = @ \cup shown(Len(progress))]
                = [lines |-> err.lines \cup shown(Len(progress)), wrote |-> err.wrote]
      BY <2>5
    <3>2. err.lines \cup shown(Len(progress)) # {} \/ err.wrote # "written"
      BY <2>5
    <3> HIDE DEF shown, status
    <3> QED
      BY <2>4, <2>8, <3>1, <3>2
  <2> HIDE DEF status
  <2> QED
    BY <2>2, <2>6, <2>7, <2>8 DEF status
<1>4. CASE RunLocal
  <2>1. ASSUME result' = "ok", EndWithText("SUCCESS", "done")
        PROVE  ExitInv'
    BY <1>4, <2>1, TrueEnd DEF EndWithText, RunLocal
  <2>2. ASSUME result' = "error", EndWithError("FAILURE", "error")
        PROVE  ExitInv'
    BY <1>4, <2>2, TrueEnd, Lines DEF EndWithError, RunLocal
  <2> QED
    BY <1>4, <2>1, <2>2 DEF RunLocal
<1>5. CASE RunModelTest
  <2>1. op'.name \notin {"UsageError", "InvalidPrompt"}
    BY <1>5 DEF RunModelTest
  <2>2. ASSUME result' = "error", NEW line, EndWithError("FAILURE", line)
        PROVE  ExitInv'
    BY <2>1, <2>2, TrueEnd, Lines DEF EndWithError
  <2>3. ASSUME result' = "ok", NEW out \in Write(Render(answer.text), "none"),
               IF out.wrote = "failed"
               THEN \E err \in WriteLines({"unable to write"}) : End("FAILURE", out, err)
               ELSE End("SUCCESS", out, Silence)
        PROVE  ExitInv'
    BY <2>1, <2>3, TrueEnd, Lines
  <2> QED
    BY <1>5, <2>2, <2>3 DEF RunModelTest
<1>6. CASE StartAsk
  <2>1. op'.name \notin {"UsageError", "InvalidPrompt"}
    BY <1>6 DEF StartAsk
  <2>2. step' = "ask" \/ (result' = "error" /\ EndWithError("FAILURE", "error"))
    BY <1>6 DEF StartAsk
  <2>3. ASSUME result' = "error", EndWithError("FAILURE", "error")
        PROVE  ExitInv'
    BY <2>1, <2>3, TrueEnd, Lines DEF EndWithError
  <2> QED
    BY <2>2, <2>3 DEF ExitInv
<1>7. CASE FinishAsk
  <2>1. op'.name \notin {"UsageError", "InvalidPrompt"} /\ answer # Error("InvalidPrompt")
    BY <1>7 DEF FinishAsk, Asking
  <2> DEFINE failed == IF lost' = "none" THEN {} ELSE {"not recorded"}
             status == IF lost' = "none" THEN "SUCCESS" ELSE "FAILURE"
  <2>2. ASSUME result' = IF lost' = "none" THEN "ok" ELSE "error",
               NEW out \in Write(Render(answer.text), "none"),
               NEW err \in WriteLines({"Session:"} \cup failed \cup
                              (IF out.wrote = "failed" THEN {"unable to write"} ELSE {})),
               End(status, out, err)
        PROVE  ExitInv'
    <3>1. err.lines # {} \/ err.wrote # "written"
      BY <2>2, Lines
    <3>2. /\ status \in {"SUCCESS", "FAILURE"}
          /\ status = "SUCCESS" <=> result' \in {"none", "ok"}
      BY <2>2
    <3> HIDE DEF status
    <3> QED
      BY <2>1, <2>2, <3>1, <3>2, TrueEnd
  <2>3. ASSUME result' = "error",
               NEW err \in WriteLines({answer.error, "Session:"} \cup failed),
               End("FAILURE", Nothing, err)
        PROVE  ExitInv'
    <3>1. err.lines # {} \/ err.wrote # "written"
      BY <2>3, Lines
    <3> QED
      BY <2>1, <2>3, <3>1, TrueEnd
  <2> QED
    BY <1>7, <2>1, <2>2, <2>3 DEF FinishAsk
<1>8. CASE ShowSession
  <2>1. op'.name \notin {"UsageError", "InvalidPrompt"}
    BY <1>8 DEF ShowSession
  <2>2. ASSUME result' = "error", EndWithError("FAILURE", "error")
        PROVE  ExitInv'
    BY <2>1, <2>2, TrueEnd, Lines DEF EndWithError
  <2>3. ASSUME result' = "ok", NEW out, NEW err, End("SUCCESS", out, err)
        PROVE  ExitInv'
    BY <2>1, <2>3, TrueEnd
  <2> QED
    BY <1>8, <2>2, <2>3 DEF ShowSession
<1>9. CASE ListSessions
  <2>1. op'.name \notin {"UsageError", "InvalidPrompt"}
    BY <1>9 DEF ListSessions
  <2>2. ASSUME result' = "error", EndWithError("FAILURE", "error")
        PROVE  ExitInv'
    BY <2>1, <2>2, TrueEnd, Lines DEF EndWithError
  <2>3. ASSUME result' = "ok", NEW out, NEW err, End("SUCCESS", out, err)
        PROVE  ExitInv'
    BY <2>1, <2>3, TrueEnd
  <2> QED
    BY <1>9, <2>2, <2>3 DEF ListSessions
<1>10. CASE Parse \/ Touch \/ NextCommand
  BY <1>10 DEF Parse, Touch, NextCommand, ExitInv
<1>11. CASE CallModel
  <2>1. step # "done"
    BY <1>11 DEF CallModel, CallNext, ReadRecord, Acquire, Reread, Refresh, Save, Send, Decode
  <2> QED
    BY <1>11, <2>1 DEF CallModel, ExitInv
<1>12. CASE UNCHANGED cmdVars
  BY <1>12 DEF cmdVars, callVars, output, ExitInv
<1> QED
  BY <1>1, <1>2, <1>3, <1>4, <1>5, <1>6, <1>7, <1>8, <1>9, <1>10, <1>11, <1>12 DEF Next

-----------------------------------------------------------------------------
(* Lines as the writer of session i makes them: the header, the prompt and, *)
(* once the ask has ended, the answer or the failure.                       *)
WrittenLines(lines, i) ==
    LET user == lines[2].entry_id
        operation == lines[2].operation_id
        entry == lines[3].entry_id
    IN  /\ \/ Len(lines) = 2 /\ lines = <<lines[1], lines[2]>>
           \/ Len(lines) = 3 /\ lines = <<lines[1], lines[2], lines[3]>>
        /\ \A k \in DOMAIN lines : Serializable(lines[k])
        /\ FileBytes(lines) <= MAX_SESSION_BYTES
        /\ lines[1] = Header(i)
        /\ lines[2] = UserEntry(user, operation, lines[2].content.text)
        /\ Cardinality({i, user, operation}) = 3
        /\ Len(lines) = 3 =>
               /\ entry \notin {i, user, operation}
               /\ \/ /\ lines[3].type = "assistant_message"
                     /\ lines[3] = AssistantEntry(entry, user, operation, lines[3].content.text)
                  \/ /\ lines[3].type = "terminal_failure"
                     /\ lines[3] = FailureEntry(entry, user, operation,
                                               lines[3].content.failure_code)

(* A file that nobody has touched holds what its writer made, but perhaps   *)
(* for the last line.                                                       *)
Kept(i) ==
    /\ WrittenLines(file[i].lines, i) /\ wrote[i] # <<>>
    /\ file[i].lines \in {wrote[i], <<wrote[i][1], wrote[i][2]>>}

(* A shown session shows what its writer made. *)
ShownIsWritten(i) ==
    LET shown == Project(file[i], i)
    IN  shown.result = "shown" =>
            /\ wrote[i] # <<>>
            /\ shown.prompt = wrote[i][2].content.text
            /\ shown.terminal \in {[kind |-> "none"], Terminal(wrote[i])}

(* A file that a failed start has left begun, and that shows nothing.       *)
Begun(i) ==
    wrote[i] = file[i].lines /\ (file[i].lines = <<>> \/ file[i].lines = <<Header(i)>>)

FilesInv ==
    /\ file = [i \in Id |-> [lines |-> file[i].lines, torn |-> file[i].torn]]
    /\ wrote = [i \in Id |-> wrote[i]]
    /\ \A i \in Id : file[i] # NoFile =>
           (touched /\ ShownIsWritten(i)) \/ Kept(i) \/ Begun(i)
    /\ step = "ask" =>
           /\ session \in Id /\ file[session] # NoFile /\ Kept(session)
           /\ file[session].lines = wrote[session] /\ Len(wrote[session]) = 2

(* The file of the last ask holds the outcome that was told, unless it was  *)
(* said to be lost.                                                         *)
ToldInv ==
    session # NoId /\ step # "ask" /\ ~touched =>
        /\ session \in Id /\ file[session] # NoFile
        /\ told.kind \in {"text", "error"}
        /\ LET terminal == Terminal(file[session].lines)
           IN  terminal = told \/ (lost # "none" /\ terminal = [kind |-> "none"])

-----------------------------------------------------------------------------
(* What project makes of lines. *)
LEMMA ShownIff ==
    ASSUME NEW f, NEW i
    PROVE  /\ Project(f, i).result = "shown" <=> ~HasOtherVersion(f) /\ ~IsCorrupt(f, i)
           /\ Project(f, i).result = "shown" =>
                  /\ Project(f, i).prompt = f.lines[2].content.text
                  /\ Project(f, i).terminal = Terminal(f.lines)
                  /\ Project(f, i).status = Status(f.lines)
BY DEF Project

(* The shape of lines a writer has made. *)
LEMMA Shape ==
    ASSUME NEW lines, NEW i, WrittenLines(lines, i)
    PROVE  /\ \/ Len(lines) = 2 /\ lines = <<lines[1], lines[2]>>
              \/ Len(lines) = 3 /\ lines = <<lines[1], lines[2], lines[3]>>
           /\ lines[1].type = "session_header" /\ lines[1].session_id = i
           /\ lines[1].format_version = FORMAT_VERSION
           /\ lines[2].type = "user_message"
           /\ Len(lines) = 3 => lines[3].type \in {"assistant_message", "terminal_failure"}
<1>1. lines[1] = Header(i)
  BY DEF WrittenLines
<1>2. lines[2].type = "user_message"
  BY DEF WrittenLines, UserEntry, Entry
<1>3. lines[1].type = "session_header" /\ lines[1].session_id = i
      /\ lines[1].format_version = FORMAT_VERSION
  BY <1>1 DEF Header
<1>4. Len(lines) = 3 => lines[3].type \in {"assistant_message", "terminal_failure"}
  BY DEF WrittenLines
<1>5. \/ Len(lines) = 2 /\ lines = <<lines[1], lines[2]>>
      \/ Len(lines) = 3 /\ lines = <<lines[1], lines[2], lines[3]>>
  BY DEF WrittenLines
<1> QED
  BY <1>2, <1>3, <1>4, <1>5

LEMMA WrittenShown ==
    ASSUME NEW f, NEW i, WrittenLines(f.lines, i)
    PROVE  Project(f, i).result = "shown"
<1> DEFINE lines == f.lines
           user == lines[2].entry_id
           operation == lines[2].operation_id
           entry == lines[3].entry_id
<1>1. Parses(f)
  BY DEF WrittenLines, Parses
<1>2. ~HasOtherVersion(f)
  BY Shape DEF HasOtherVersion
<1>3. IsHeader(lines[1], i)
  BY Shape DEF IsHeader
<1>4. IsUser(lines[2], lines[1])
  <2>1. lines[2] = UserEntry(user, operation, lines[2].content.text)
        /\ Cardinality({i, user, operation}) = 3
    BY DEF WrittenLines
  <2>2. lines[2].parent_entry_id = NoId /\ lines[2].sequence = 1
    BY <2>1 DEF UserEntry, Entry
  <2> QED
    BY <2>1, <2>2, Shape DEF IsUser
<1>5. ASSUME Len(lines) = 3
      PROVE  IsTerminal(lines[3], lines[1], lines[2])
  <2>1. entry \notin {i, user, operation}
    BY <1>5 DEF WrittenLines
  <2>2. \/ lines[3] = AssistantEntry(entry, user, operation, lines[3].content.text)
        \/ lines[3] = FailureEntry(entry, user, operation, lines[3].content.failure_code)
    BY <1>5 DEF WrittenLines
  <2>3. /\ lines[3].parent_entry_id = user /\ lines[3].sequence = 2
        /\ lines[3].operation_id = operation
    BY <2>2 DEF AssistantEntry, FailureEntry, Entry
  <2>4. lines[3].type = "terminal_failure" =>
            lines[3].content.diagnostic = lines[3].content.failure_code
    BY <2>2 DEF AssistantEntry, FailureEntry, Entry
  <2> QED
    BY <1>5, <2>1, <2>3, <2>4, Shape DEF IsTerminal
<1>6. ~(Len(lines) < 2)
  BY Shape
<1> QED
  BY <1>1, <1>2, <1>3, <1>4, <1>5, <1>6, ShownIff DEF IsCorrupt

(* A third line after two, and one of two or three lines taken out. *)
LEMMA AppendKeeps ==
    ASSUME NEW S, NEW x \in Seq(S), NEW c \in S
    PROVE  \A k \in 1 .. Len(x) : Append(x, c)[k] = x[k]
BY AppendProperties

LEMMA Appended ==
    ASSUME NEW S, NEW x \in Seq(S), NEW c \in S, Len(x) = 2
    PROVE  Append(x, c) = <<x[1], x[2], c>>
<1> DEFINE y == Append(x, c)
<1>1. y \in Seq(S)
  OBVIOUS
<1>2. Len(y) = Len(x) + 1
  BY AppendProperties
<1>3. \A k \in 1 .. Len(x) : y[k] = x[k]
  BY AppendKeeps
<1>4. y[Len(x) + 1] = c
  BY AppendProperties
<1> HIDE DEF y
<1>5. Len(y) = 3 /\ y[1] = x[1] /\ y[2] = x[2] /\ y[3] = c
  BY <1>2, <1>3, <1>4
<1>6. y = <<y[1], y[2], y[3]>>
  BY <1>1, <1>5
<1> QED
  BY <1>5, <1>6 DEF y

LEMMA Pairs ==
    ASSUME NEW a, NEW b, NEW c, NEW x, x = <<a, b>>
    PROVE  x \in Seq({a, b, c}) /\ c \in {a, b, c}
OBVIOUS

LEMMA Triples ==
    ASSUME NEW a, NEW b, NEW c, NEW x, x = <<a, b, c>>
    PROVE  x \in Seq({a, b, c})
OBVIOUS

LEMMA Removed ==
    ASSUME NEW S, NEW x \in Seq(S), NEW k \in 1 .. Len(x)
    PROVE  LET y == SubSeq(x, 1, k - 1) \o SubSeq(x, k + 1, Len(x))
           IN  /\ Len(y) = Len(x) - 1
               /\ \A j \in 1 .. Len(x) - 1 : y[j] = IF j < k THEN x[j] ELSE x[j + 1]
<1> DEFINE u == SubSeq(x, 1, k - 1)
           v == SubSeq(x, k + 1, Len(x))
<1>1. /\ u \in Seq(S) /\ Len(u) = k - 1
      /\ \A j \in 1 .. k - 1 : u[j] = x[j]
  BY SubSeqProperties
<1>2. /\ v \in Seq(S) /\ Len(v) = Len(x) - k
      /\ \A j \in 1 .. Len(x) - k : v[j] = x[k + j]
  BY SubSeqProperties
<1> HIDE DEF u, v
<1>3. Len(u \o v) = Len(u) + Len(v)
  BY <1>1, <1>2, ConcatProperties
<1>4. \A j \in 1 .. Len(u) + Len(v) :
          (u \o v)[j] = IF j <= Len(u) THEN u[j] ELSE v[j - Len(u)]
  BY <1>1, <1>2, ConcatProperties
<1>5. Len(u \o v) = Len(x) - 1
  BY <1>1, <1>2, <1>3
<1>6. ASSUME NEW j \in 1 .. Len(x) - 1
      PROVE  (u \o v)[j] = IF j < k THEN x[j] ELSE x[j + 1]
  <2>1. (u \o v)[j] = IF j <= k - 1 THEN u[j] ELSE v[j - (k - 1)]
    BY <1>1, <1>2, <1>4
  <2>2. CASE j < k
    BY <1>1, <2>1, <2>2
  <2>3. CASE ~(j < k)
    <3>1. j - (k - 1) \in 1 .. Len(x) - k /\ k + (j - (k - 1)) = j + 1 /\ ~(j <= k - 1)
      BY <2>3
    <3> QED
      BY <1>2, <2>1, <2>3, <3>1
  <2> QED
    BY <2>2, <2>3
<1> QED
  BY <1>5, <1>6 DEF u, v

(* What start and append write are lines of a writer. *)
LEMMA InitialWritten ==
    ASSUME NEW s, NEW o, NEW u, NEW prompt, InitialRecords(s, o, u, prompt)
    PROVE  LET lines == InitialLines(s, o, u, prompt)
           IN  WrittenLines(lines, s) /\ Len(lines) = 2 /\ lines # <<>>
<1> DEFINE lines == InitialLines(s, o, u, prompt)
<1>1. lines = <<lines[1], lines[2]>> /\ Len(lines) = 2 /\ lines # <<>> /\ DOMAIN lines = 1 .. 2
      /\ lines[1] = Header(s) /\ lines[2] = UserEntry(u, o, prompt)
  BY DEF InitialLines
<1>2. lines[2].entry_id = u /\ lines[2].operation_id = o /\ lines[2].content.text = prompt
  BY <1>1 DEF UserEntry, Entry
<1>3. {s, o, u} = {s, u, o}
  OBVIOUS
<1>4. /\ Serializable(lines[1]) /\ Serializable(lines[2])
      /\ FileBytes(lines) <= MAX_SESSION_BYTES /\ Cardinality({s, u, o}) = 3
  BY <1>3 DEF InitialRecords
<1>5. \A k \in DOMAIN lines : Serializable(lines[k])
  BY <1>1, <1>4
<1> HIDE DEF lines
<1>6. WrittenLines(lines, s)
  BY <1>1, <1>2, <1>4, <1>5 DEF WrittenLines
<1> QED
  BY <1>1, <1>6 DEF lines

LEMMA TerminalWritten ==
    ASSUME NEW lines, NEW i, WrittenLines(lines, i), Len(lines) = 2, NEW entry,
           NewEntryId(entry, lines),
           NEW line, FitsInSession(line, lines),
           \/ \E t : line = AssistantEntry(entry, lines[2].entry_id, lines[2].operation_id, t)
           \/ \E c : line = FailureEntry(entry, lines[2].entry_id, lines[2].operation_id, c)
    PROVE  /\ WrittenLines(Append(lines, line), i)
           /\ Append(lines, line) = <<lines[1], lines[2], line>>
<1> DEFINE more == <<lines[1], lines[2], line>>
<1>1. lines = <<lines[1], lines[2]>>
  BY Shape
<1>2. Append(lines, line) = more
  <2>1. lines \in Seq({lines[1], lines[2], line})
    BY <1>1, Pairs
  <2>2. line \in {lines[1], lines[2], line}
    OBVIOUS
  <2> QED
    BY <2>1, <2>2, Appended
<1>3. /\ Len(more) = 3 /\ DOMAIN more = 1 .. 3
      /\ more[1] = lines[1] /\ more[2] = lines[2] /\ more[3] = line
  OBVIOUS
<1>4. \A k \in DOMAIN more : Serializable(more[k])
  <2>1. Serializable(lines[1]) /\ Serializable(lines[2])
    BY <1>1 DEF WrittenLines
  <2>2. Serializable(line)
    BY DEF FitsInSession
  <2> QED
    BY <1>3, <2>1, <2>2
<1>5. FileBytes(more) <= MAX_SESSION_BYTES
  BY <1>2 DEF FitsInSession
<1>6. /\ lines[1] = Header(i) /\ Cardinality({i, lines[2].entry_id, lines[2].operation_id}) = 3
      /\ lines[2] = UserEntry(lines[2].entry_id, lines[2].operation_id, lines[2].content.text)
  BY DEF WrittenLines
<1>7. line.entry_id = entry /\ entry \notin {i, lines[2].entry_id, lines[2].operation_id}
  <2>1. line.entry_id = entry
    BY DEF AssistantEntry, FailureEntry, Entry
  <2>2. lines[1].session_id = i
    BY Shape
  <2> QED
    BY <2>1, <2>2 DEF NewEntryId
<1>8. \/ /\ line.type = "assistant_message"
         /\ line = AssistantEntry(entry, lines[2].entry_id, lines[2].operation_id,
                                  line.content.text)
      \/ /\ line.type = "terminal_failure"
         /\ line = FailureEntry(entry, lines[2].entry_id, lines[2].operation_id,
                                line.content.failure_code)
  BY DEF AssistantEntry, FailureEntry, Entry
<1> HIDE DEF more
<1>9. WrittenLines(more, i)
  BY <1>3, <1>4, <1>5, <1>6, <1>7, <1>8 DEF WrittenLines, more
<1> QED
  BY <1>2, <1>9 DEF more

LEMMA KeptShows ==
    ASSUME NEW i, Kept(i)
    PROVE  ShownIsWritten(i)
<1>1. Project(file[i], i).result = "shown"
  BY WrittenShown DEF Kept
<1>2. /\ Project(file[i], i).prompt = file[i].lines[2].content.text
      /\ Project(file[i], i).terminal = Terminal(file[i].lines)
  BY <1>1, ShownIff
<1>3. CASE file[i].lines = wrote[i]
  BY <1>2, <1>3 DEF Kept, ShownIsWritten
<1>4. CASE file[i].lines = <<wrote[i][1], wrote[i][2]>>
  <2>1. Terminal(file[i].lines) = [kind |-> "none"] /\ file[i].lines[2] = wrote[i][2]
    BY <1>4 DEF Terminal
  <2> QED
    BY <1>2, <2>1 DEF Kept, ShownIsWritten
<1> QED
  BY <1>3, <1>4 DEF Kept

(* Fewer than two lines show nothing. *)
LEMMA ShortIsRefused ==
    ASSUME NEW f, NEW i, Len(f.lines) < 2
    PROVE  Project(f, i).result # "shown"
BY ShownIff DEF IsCorrupt

LEMMA BegunShows ==
    ASSUME NEW i, Begun(i)
    PROVE  ShownIsWritten(i) /\ Len(file[i].lines) < 2 /\ Len(wrote[i]) < 2
<1> DEFINE lines == file[i].lines
<1>1. Len(lines) < 2 /\ wrote[i] = lines
  <2>1. wrote[i] = lines /\ (lines = <<>> \/ lines = <<Header(i)>>)
    BY DEF Begun
  <2>2. \A h : Len(<<h>>) = 1 /\ Len(<<>>) = 0
    OBVIOUS
  <2> HIDE DEF lines
  <2> QED
    BY <2>1, <2>2
<1> QED
  BY <1>1, ShortIsRefused DEF ShownIsWritten

(* What a touched file may still show: a copy, a file with a line taken out *)
(* or repeated, with another failure code or another version.               *)
LEMMA CopyIsRefused ==
    ASSUME NEW f, NEW i, NEW j, j # i, WrittenLines(f.lines, i)
    PROVE  Project(f, j).result # "shown"
<1>1. ~IsHeader(f.lines[1], j)
  BY Shape DEF IsHeader
<1> QED
  BY <1>1, ShownIff DEF IsCorrupt

LEMMA WrittenIsSequence ==
    ASSUME NEW lines, NEW i, WrittenLines(lines, i)
    PROVE  lines \in Seq({lines[1], lines[2], lines[3]}) /\ DOMAIN lines = 1 .. Len(lines)
<1> DEFINE S == {lines[1], lines[2], lines[3]}
<1>1. ASSUME lines = <<lines[1], lines[2]>>
      PROVE  lines \in Seq(S)
  BY <1>1, Pairs
<1>2. ASSUME lines = <<lines[1], lines[2], lines[3]>>
      PROVE  lines \in Seq(S)
  BY <1>2, Triples
<1>3. lines \in Seq(S)
  BY <1>1, <1>2, Shape
<1> HIDE DEF S
<1>4. DOMAIN lines = 1 .. Len(lines)
  BY <1>3
<1> QED
  BY <1>3, <1>4 DEF S

LEMMA CutShows ==
    ASSUME NEW f, NEW i, NEW lines, WrittenLines(lines, i), NEW k \in DOMAIN lines,
           f.lines = SubSeq(lines, 1, k - 1) \o SubSeq(lines, k + 1, Len(lines))
    PROVE  \/ Project(f, i).result # "shown"
           \/ Len(lines) = 3 /\ Len(f.lines) = 2 /\ f.lines[2] = lines[2]
<1>1. k \in 1 .. Len(lines)
  BY WrittenIsSequence
<1>2. /\ Len(f.lines) = Len(lines) - 1
      /\ \A j \in 1 .. Len(lines) - 1 : f.lines[j] = IF j < k THEN lines[j] ELSE lines[j + 1]
  BY <1>1, WrittenIsSequence, Removed
<1>3. CASE Len(lines) = 2
  <2>1. Len(f.lines) < 2
    BY <1>2, <1>3
  <2> QED
    BY <2>1, ShownIff DEF IsCorrupt
<1>4. CASE Len(lines) = 3
  <2>1. Len(f.lines) = 2
    BY <1>2, <1>4
  <2>2. CASE k = 3
    BY <1>2, <1>4, <2>1, <2>2
  <2>3. CASE k = 2
    <3>1. f.lines[2] = lines[3]
      BY <1>2, <1>4, <2>3
    <3>2. ~IsUser(f.lines[2], f.lines[1])
      BY <1>4, <3>1, Shape DEF IsUser
    <3> QED
      BY <3>2, ShownIff DEF IsCorrupt
  <2>4. CASE k = 1
    <3>1. f.lines[1] = lines[2]
      BY <1>2, <1>4, <2>4
    <3>2. ~IsHeader(f.lines[1], i)
      BY <3>1, Shape DEF IsHeader
    <3> QED
      BY <3>2, ShownIff DEF IsCorrupt
  <2>5. k = 1 \/ k = 2 \/ k = 3
    BY <1>1, <1>4
  <2> QED
    BY <2>2, <2>3, <2>4, <2>5
<1> QED
  BY <1>3, <1>4, Shape

LEMMA RepeatIsRefused ==
    ASSUME NEW f, NEW i, NEW lines, WrittenLines(lines, i), NEW k \in DOMAIN lines,
           f.lines = Append(lines, lines[k])
    PROVE  Project(f, i).result # "shown"
<1>0. k \in 1 .. Len(lines)
  BY WrittenIsSequence
<1>1. CASE Len(lines) = 2
  <2>1. f.lines = <<lines[1], lines[2], lines[k]>>
    <3>1. lines = <<lines[1], lines[2]>> /\ lines[k] \in {lines[1], lines[2], lines[3]}
      BY <1>0, <1>1, Shape
    <3> QED
      BY <1>1, <3>1, WrittenIsSequence, Appended
  <2>2. lines[k].type \in {"session_header", "user_message"}
    BY <1>0, <1>1, Shape
  <2>3. Len(f.lines) = 3 /\ f.lines[3] = lines[k]
    BY <2>1
  <2>4. ~IsTerminal(f.lines[3], f.lines[1], f.lines[2])
    BY <2>2, <2>3 DEF IsTerminal
  <2> QED
    BY <2>3, <2>4, ShownIff DEF IsCorrupt
<1>2. CASE Len(lines) = 3
  <2>1. Len(f.lines) = Len(lines) + 1
    <3>1. lines[k] \in {lines[1], lines[2], lines[3]}
      BY <1>0, <1>2
    <3> QED
      BY <3>1, WrittenIsSequence, AppendProperties
  <2>2. Len(f.lines) = 4
    BY <1>2, <2>1
  <2>3. Len(f.lines) \notin 1 .. 3
    BY <2>2
  <2>4. ~Parses(f)
    BY <2>3 DEF Parses
  <2> QED
    BY <2>4, ShownIff DEF IsCorrupt
<1> QED
  BY <1>1, <1>2, Shape

LEMMA OtherVersionIsRefused ==
    ASSUME NEW f, NEW i, f.lines[1].format_version # FORMAT_VERSION
    PROVE  Project(f, i).result # "shown"
<1>1. CASE ~Parses(f)
  BY <1>1, ShownIff DEF IsCorrupt
<1>2. CASE f.lines[1].type # "session_header"
  BY <1>2, ShownIff DEF IsCorrupt, IsHeader
<1>3. CASE Parses(f) /\ f.lines[1].type = "session_header"
  BY <1>3, ShownIff DEF HasOtherVersion
<1> QED
  BY <1>1, <1>2, <1>3

LEMMA SameLine ==
    ASSUME NEW S, NEW x \in Seq(S), NEW k
    PROVE  [x EXCEPT ![k] = x[k]] = x
OBVIOUS

LEMMA OtherCodeShows ==
    ASSUME NEW f, NEW i, NEW lines, WrittenLines(lines, i), NEW k \in DOMAIN lines,
           lines[k].type = "terminal_failure",
           f.lines = [lines EXCEPT ![k].content.failure_code = "Rejected"]
    PROVE  Project(f, i).result # "shown" \/ f.lines = lines
<1>1. Len(lines) = 3 /\ k = 3
  <2>1. k \in 1 .. Len(lines)
    BY WrittenIsSequence
  <2> QED
    BY <2>1, Shape
<1> DEFINE t == lines[3]
<1>2. t = FailureEntry(t.entry_id, lines[2].entry_id, lines[2].operation_id,
                       t.content.failure_code)
  BY <1>1 DEF WrittenLines
<1>3. f.lines[3] = [t EXCEPT !.content = [t.content EXCEPT !.failure_code = "Rejected"]]
      /\ Len(f.lines) = 3
  BY <1>1, WrittenIsSequence
<1>4. t.content = [failure_code |-> t.content.failure_code,
                   diagnostic |-> t.content.failure_code]
  BY <1>2 DEF FailureEntry, Entry
<1>5. f.lines[3].content = [failure_code |-> "Rejected", diagnostic |-> t.content.failure_code]
      /\ f.lines[3].type = "terminal_failure"
  <2>1. [t.content EXCEPT !.failure_code = "Rejected"]
            = [failure_code |-> "Rejected", diagnostic |-> t.content.failure_code]
    BY <1>4
  <2>2. "content" \in DOMAIN t /\ "type" \in DOMAIN t
    BY <1>2 DEF FailureEntry, Entry
  <2> QED
    BY <1>1, <1>3, <2>1, <2>2
<1>6. CASE t.content.failure_code = "Rejected"
  <2>1. [t.content EXCEPT !.failure_code = "Rejected"] = t.content
    BY <1>4, <1>6
  <2>2. [t EXCEPT !.content = t.content] = t
    <3>1. t = [x \in DOMAIN t |-> t[x]]
      BY <1>2 DEF FailureEntry, Entry
    <3> QED
      BY <3>1
  <2>3. [lines EXCEPT ![3] = lines[3]] = lines
    <3>1. PICK S : lines \in Seq(S)
      BY WrittenIsSequence
    <3> QED
      BY <3>1, SameLine
  <2>4. f.lines = [lines EXCEPT ![3] =
                       [t EXCEPT !.content = [t.content EXCEPT !.failure_code = "Rejected"]]]
    BY <1>1
  <2> QED
    BY <2>1, <2>2, <2>3, <2>4
<1>7. CASE t.content.failure_code # "Rejected"
  <2>1. ~IsTerminal(f.lines[3], f.lines[1], f.lines[2])
    BY <1>5, <1>7 DEF IsTerminal
  <2> QED
    BY <1>3, <2>1, ShownIff DEF IsCorrupt
<1> QED
  BY <1>6, <1>7

-----------------------------------------------------------------------------
(* Every step of a command keeps the files within FilesInv. *)
LEMMA FilesSame ==
    ASSUME FilesInv, UNCHANGED <<file, wrote, session, touched>>,
           step' = "ask" => step = "ask"
    PROVE  FilesInv'
BY DEF FilesInv, Kept, Begun, ShownIsWritten

(* One session is written, the others keep what they have. *)
LEMMA OthersSame ==
    ASSUME FilesInv, NEW s, NEW f, NEW lines,
           file' = [file EXCEPT ![s] = f], wrote' = [wrote EXCEPT ![s] = lines],
           UNCHANGED touched, NEW i \in Id, i # s, file'[i] # NoFile
    PROVE  (touched /\ ShownIsWritten(i))' \/ Kept(i)' \/ Begun(i)'
<1>1. file'[i] = file[i] /\ wrote'[i] = wrote[i] /\ touched' = touched
  BY DEF FilesInv
<1>2. (touched /\ ShownIsWritten(i)) \/ Kept(i) \/ Begun(i)
  BY <1>1 DEF FilesInv
<1> QED
  BY <1>1, <1>2 DEF Kept, Begun, ShownIsWritten

LEMMA FilesBegun ==
    ASSUME FilesInv, NEW s \in Id, NEW lines, NEW torn,
           lines = <<>> \/ lines = <<Header(s)>>,
           file' = [file EXCEPT ![s] = [lines |-> lines, torn |-> torn]],
           wrote' = [wrote EXCEPT ![s] = lines],
           UNCHANGED touched, step' = "done"
    PROVE  FilesInv'
<1> DEFINE f == [lines |-> lines, torn |-> torn]
<1>1. /\ file' = [i \in Id |-> [lines |-> file'[i].lines, torn |-> file'[i].torn]]
      /\ wrote' = [i \in Id |-> wrote'[i]]
  BY DEF FilesInv
<1>2. file'[s] = f /\ wrote'[s] = lines
  BY DEF FilesInv
<1>3. Begun(s)'
  BY <1>2 DEF Begun
<1> HIDE DEF f
<1>4. ASSUME NEW i \in Id, i # s, file'[i] # NoFile
      PROVE  (touched /\ ShownIsWritten(i))' \/ Kept(i)' \/ Begun(i)'
  BY <1>4, OthersSame DEF f
<1> QED
  BY <1>1, <1>3, <1>4 DEF FilesInv

LEMMA FilesWritten ==
    ASSUME FilesInv, NEW s \in Id, NEW f, NEW lines,
           f = [lines |-> f.lines, torn |-> f.torn],
           file' = [file EXCEPT ![s] = f],
           wrote' = [wrote EXCEPT ![s] = lines],
           WrittenLines(f.lines, s), lines # <<>>,
           f.lines \in {lines, <<lines[1], lines[2]>>},
           UNCHANGED touched,
           step' = "ask" => session' = s /\ f.lines = lines /\ Len(lines) = 2
    PROVE  FilesInv'
<1>1. /\ file' = [i \in Id |-> [lines |-> file'[i].lines, torn |-> file'[i].torn]]
      /\ wrote' = [i \in Id |-> wrote'[i]]
  BY DEF FilesInv
<1>2. file'[s] = f /\ wrote'[s] = lines
  BY DEF FilesInv
<1>3. Kept(s)'
  BY <1>2 DEF Kept
<1>4. ASSUME NEW i \in Id, i # s, file'[i] # NoFile
      PROVE  (touched /\ ShownIsWritten(i))' \/ Kept(i)' \/ Begun(i)'
  BY <1>4, OthersSame
<1>5. f # NoFile
  <2>1. Len(f.lines) \in {2, 3}
    BY Shape
  <2>2. Len(NoFile.lines) = 0
    BY DEF NoFile
  <2> QED
    BY <2>1, <2>2
<1> QED
  BY <1>1, <1>2, <1>3, <1>4, <1>5 DEF FilesInv

(* One file is touched, and what it still shows its writer has made. *)
LEMMA FilesTouched ==
    ASSUME FilesInv, ~touched, touched', step' = "start", NEW j \in Id, NEW f,
           f = [lines |-> f.lines, torn |-> f.torn],
           file' = [file EXCEPT ![j] = f], wrote' = wrote,
           Project(f, j).result = "shown" =>
               /\ wrote[j] # <<>>
               /\ f.lines[2].content.text = wrote[j][2].content.text
               /\ Terminal(f.lines) \in {[kind |-> "none"], Terminal(wrote[j])}
    PROVE  FilesInv'
<1>1. /\ file' = [i \in Id |-> [lines |-> file'[i].lines, torn |-> file'[i].torn]]
      /\ wrote' = [i \in Id |-> wrote'[i]]
  BY DEF FilesInv
<1>2. ShownIsWritten(j)'
  <2>1. file'[j] = f /\ wrote'[j] = wrote[j]
    BY DEF FilesInv
  <2> QED
    BY <2>1, ShownIff DEF ShownIsWritten
<1>3. ASSUME NEW i \in Id, i # j, file'[i] # NoFile
      PROVE  ShownIsWritten(i)'
  <2>1. file'[i] = file[i] /\ wrote'[i] = wrote[i]
    BY <1>3 DEF FilesInv
  <2>2. ShownIsWritten(i)
    BY <1>3, <2>1, KeptShows, BegunShows DEF FilesInv
  <2> QED
    BY <2>1, <2>2 DEF ShownIsWritten
<1> QED
  BY <1>1, <1>2, <1>3 DEF FilesInv

LEMMA FileRecords ==
    ASSUME NEW f, NEW l, NEW t, f = [lines |-> l, torn |-> t], NEW x
    PROVE  /\ [f EXCEPT !.lines = x] = [lines |-> x, torn |-> t]
           /\ [f EXCEPT !.torn = TRUE] = [lines |-> l, torn |-> TRUE]
<1>1. [f EXCEPT !.lines = x] = [lines |-> x, torn |-> t]
  OBVIOUS
<1>2. [f EXCEPT !.torn = TRUE] = [lines |-> l, torn |-> TRUE]
  <2>1. \A yes : [f EXCEPT !.torn = yes] = [lines |-> l, torn |-> yes]
    OBVIOUS
  <2> QED
    BY <2>1, Zenon
<1> QED
  BY <1>1, <1>2

LEMMA StartFiles ==
    ASSUME FilesInv, StartAsk
    PROVE  FilesInv'
<1>1. CASE UNCHANGED <<file, wrote, session, touched>> /\ step' = "done"
  BY <1>1, FilesSame
<1>2. CASE ~(UNCHANGED <<file, wrote, session, touched>> /\ step' = "done")
  <2>1. PICK drawn \in Drawn :
            LET lines == InitialLines(drawn[1], drawn[2], drawn[3], TextOf(op.argument))
            IN  /\ InitialRecords(drawn[1], drawn[2], drawn[3], TextOf(op.argument))
                /\ UNCHANGED touched
                /\ \/ /\ file' = [file EXCEPT ![drawn[1]].lines = lines]
                      /\ wrote' = [wrote EXCEPT ![drawn[1]] = lines]
                      /\ session' = drawn[1]
                   \/ Leave(drawn[1], lines) /\ step' = "done"
    BY <1>2 DEF StartAsk, EndWithError, End
  <2> DEFINE s == drawn[1]
             lines == InitialLines(s, drawn[2], drawn[3], TextOf(op.argument))
  <2>2. s \in Id
    BY DEF Drawn
  <2>3. WrittenLines(lines, s) /\ Len(lines) = 2 /\ lines # <<>>
    BY <2>1, InitialWritten
  <2>4. CASE /\ file' = [file EXCEPT ![s].lines = lines]
             /\ wrote' = [wrote EXCEPT ![s] = lines] /\ session' = s
    <3> DEFINE f == [file[s] EXCEPT !.lines = lines]
    <3>1. file[s] = [lines |-> file[s].lines, torn |-> file[s].torn]
      BY <2>2 DEF FilesInv
    <3>2. f = [lines |-> lines, torn |-> file[s].torn]
      <4> HIDE DEF s, lines
      <4> QED
        BY <3>1, FileRecords
    <3>3. file' = [file EXCEPT ![s] = f] /\ UNCHANGED touched
      BY <2>1, <2>4
    <3> HIDE DEF f, s, lines
    <3>4. f = [lines |-> f.lines, torn |-> f.torn] /\ f.lines = lines
      BY <3>2
    <3> QED
      BY <2>2, <2>3, <2>4, <3>3, <3>4, FilesWritten
  <2>5. CASE Leave(s, lines) /\ step' = "done"
    <3>1. PICK whole \in {<<>>, <<lines[1]>>, lines}, torn \in BOOLEAN :
              /\ file' = [file EXCEPT ![s] = [lines |-> whole, torn |-> torn]]
              /\ wrote' = [wrote EXCEPT ![s] = whole]
      BY <2>5 DEF Leave
    <3>2. UNCHANGED touched
      BY <2>1
    <3>3. lines[1] = Header(s)
      BY DEF InitialLines
    <3> HIDE DEF s, lines
    <3>4. CASE whole = <<>> \/ whole = <<Header(s)>>
      BY <2>2, <2>5, <3>1, <3>2, <3>4, FilesBegun
    <3>5. CASE whole = lines
      <4> DEFINE f == [lines |-> lines, torn |-> torn]
      <4>1. f = [lines |-> f.lines, torn |-> f.torn] /\ f.lines = lines
        OBVIOUS
      <4>2. file' = [file EXCEPT ![s] = f] /\ wrote' = [wrote EXCEPT ![s] = lines]
        BY <3>1, <3>5
      <4> HIDE DEF f
      <4> QED
        BY <2>2, <2>3, <2>5, <3>2, <4>1, <4>2, FilesWritten
    <3> QED
      BY <3>1, <3>3, <3>4, <3>5
  <2> QED
    BY <2>1, <2>4, <2>5
<1> QED
  BY <1>1, <1>2

LEMMA FinishFiles ==
    ASSUME CallInv, StepInv, FilesInv, FinishAsk
    PROVE  FilesInv'
<1>1. /\ step = "ask" /\ step' = "done" /\ UNCHANGED <<session, touched>>
      /\ answer # Error("InvalidPrompt")
  BY DEF FinishAsk, StepInv, End, EndWithError
<1>2. PICK entry \in Id : AppendTerminal(entry)
  BY <1>1 DEF FinishAsk
<1>3. CASE UNCHANGED <<file, wrote>>
  BY <1>1, <1>3, FilesSame
<1>4. CASE ~UNCHANGED <<file, wrote>>
  <2> DEFINE old == file[session].lines
             line == TerminalLine(entry, old)
             more == Append(old, line)
  <2>1. /\ session \in Id /\ Kept(session)
        /\ old = wrote[session] /\ Len(old) = 2
    BY <1>1 DEF FilesInv
  <2>2. WrittenLines(old, session)
    BY <2>1 DEF Kept
  <2>3. /\ NewEntryId(entry, old) /\ FitsInSession(line, old)
        /\ wrote' = [wrote EXCEPT ![session] = Append(@, line)]
        /\ \/ file' = [file EXCEPT ![session].lines = Append(@, line)]
           \/ file' = [file EXCEPT ![session].torn = TRUE]
           \/ UNCHANGED file
    BY <1>2, <1>4 DEF AppendTerminal
  <2>4. \/ \E t : line = AssistantEntry(entry, old[2].entry_id, old[2].operation_id, t)
        \/ \E c : line = FailureEntry(entry, old[2].entry_id, old[2].operation_id, c)
    BY DEF TerminalLine
  <2>5. WrittenLines(more, session) /\ more = <<old[1], old[2], line>>
    <3> HIDE DEF old, line
    <3> QED
      BY <2>1, <2>2, <2>3, <2>4, TerminalWritten
  <2>6. old = <<more[1], more[2]>> /\ more # <<>>
    <3>1. old = <<old[1], old[2]>>
      BY <2>1, <2>2, Shape
    <3> HIDE DEF old, line
    <3> QED
      BY <2>5, <3>1
  <2>7. wrote' = [wrote EXCEPT ![session] = more]
    BY <2>1, <2>3 DEF FilesInv
  <2>8. ASSUME NEW f, f = [lines |-> f.lines, torn |-> f.torn], f.lines \in {old, more},
               file' = [file EXCEPT ![session] = f]
        PROVE  FilesInv'
    <3>1. WrittenLines(f.lines, session) /\ f.lines \in {more, <<more[1], more[2]>>}
      BY <2>2, <2>5, <2>6, <2>8
    <3> HIDE DEF old, line, more
    <3> QED
      BY <1>1, <2>1, <2>6, <2>7, <2>8, <3>1, FilesWritten
  <2>9. file[session] = [lines |-> old, torn |-> file[session].torn]
    BY <2>1 DEF FilesInv
  <2>10. CASE file' = [file EXCEPT ![session].lines = Append(@, line)]
    <3> DEFINE f == [lines |-> more, torn |-> file[session].torn]
    <3>1. [file[session] EXCEPT !.lines = more] = f
      BY <2>9, FileRecords
    <3>2. file' = [file EXCEPT ![session] = [file[session] EXCEPT !.lines = more]]
      BY <2>10
    <3> HIDE DEF more
    <3> QED
      BY <2>8, <3>1, <3>2
  <2>11. CASE file' = [file EXCEPT ![session].torn = TRUE]
    <3> DEFINE f == [lines |-> old, torn |-> TRUE]
    <3>1. [file[session] EXCEPT !.torn = TRUE] = f
      <4> HIDE DEF old
      <4> QED
        BY <2>9, FileRecords
    <3>2. file' = [file EXCEPT ![session] = [file[session] EXCEPT !.torn = TRUE]]
      BY <2>11
    <3> HIDE DEF old
    <3> QED
      BY <2>8, <3>1, <3>2
  <2>12. CASE UNCHANGED file
    <3> DEFINE f == [lines |-> old, torn |-> file[session].torn]
    <3>1. file' = [file EXCEPT ![session] = f]
      BY <2>1, <2>9, <2>12 DEF FilesInv
    <3> HIDE DEF old
    <3> QED
      BY <2>8, <3>1
  <2> QED
    BY <2>3, <2>10, <2>11, <2>12
<1> QED
  BY <1>3, <1>4

LEMMA ChangeKept ==
    ASSUME FilesInv, ~touched, touched', step' = "start", wrote' = wrote,
           NEW i \in Id, Kept(i), Change(i)
    PROVE  FilesInv'
<1> DEFINE lines == file[i].lines
<1>1. ~touched /\ touched' /\ step' = "start" /\ wrote' = wrote
  OBVIOUS
<1>3. Kept(i) /\ WrittenLines(lines, i)
  BY DEF Kept
<1>4. file[i] = [lines |-> lines, torn |-> file[i].torn]
  BY DEF FilesInv
<1>5. /\ wrote[i] # <<>>
      /\ lines[2].content.text = wrote[i][2].content.text
      /\ Terminal(lines) \in {[kind |-> "none"], Terminal(wrote[i])}
  <2>1. CASE lines = wrote[i]
    BY <1>3, <2>1 DEF Kept
  <2>2. CASE lines = <<wrote[i][1], wrote[i][2]>>
    <3>1. Terminal(lines) = [kind |-> "none"] /\ lines[2] = wrote[i][2]
      BY <2>2 DEF Terminal
    <3> QED
      BY <1>3, <3>1 DEF Kept
  <2> QED
    BY <1>3, <2>1, <2>2 DEF Kept
<1>6. ASSUME NEW new, file' = [file EXCEPT ![i].lines = new],
             \/ \A t : Project([lines |-> new, torn |-> t], i).result # "shown"
             \/ Len(lines) = 3 /\ Len(new) = 2 /\ new[2] = lines[2]
             \/ new = lines
      PROVE  FilesInv'
  <2> DEFINE f == [lines |-> new, torn |-> file[i].torn]
  <2>1. file' = [file EXCEPT ![i] = f]
    <3>1. [file[i] EXCEPT !.lines = new] = f
      <4> HIDE DEF lines
      <4> QED
        BY <1>4, FileRecords
    <3>2. file' = [file EXCEPT ![i] = [file[i] EXCEPT !.lines = new]]
      BY <1>6
    <3> QED
      BY <3>1, <3>2
  <2>2. f = [lines |-> f.lines, torn |-> f.torn] /\ f.lines = new
    OBVIOUS
  <2>3. Project(f, i).result = "shown" =>
            /\ wrote[i] # <<>>
            /\ f.lines[2].content.text = wrote[i][2].content.text
            /\ Terminal(f.lines) \in {[kind |-> "none"], Terminal(wrote[i])}
    <3>1. CASE \A t : Project([lines |-> new, torn |-> t], i).result # "shown"
      BY <3>1
    <3>2. CASE Len(new) = 2 /\ new[2] = lines[2]
      <4>1. Terminal(new) = [kind |-> "none"]
        BY <3>2 DEF Terminal
      <4> QED
        BY <1>5, <3>2, <4>1
    <3>3. CASE new = lines
      BY <1>5, <3>3
    <3> QED
      BY <1>6, <3>1, <3>2, <3>3
  <2> HIDE DEF f
  <2> QED
    BY <1>1, <2>1, <2>2, <2>3, FilesTouched
<1>7. ASSUME NEW j \in Id \ {i}, file' = [file EXCEPT ![j] = file[i]]
      PROVE  FilesInv'
  <2>1. Project(file[i], j).result # "shown"
    BY <1>3, <1>7, CopyIsRefused
  <2> HIDE DEF lines
  <2> QED
    BY <1>1, <1>4, <1>7, <2>1, FilesTouched
<1>8. ASSUME NEW k \in DOMAIN lines,
             file' = [file EXCEPT ![i].lines = SubSeq(@, 1, k - 1) \o SubSeq(@, k + 1, Len(@))]
      PROVE  FilesInv'
  <2> DEFINE new == SubSeq(lines, 1, k - 1) \o SubSeq(lines, k + 1, Len(lines))
  <2>1. file' = [file EXCEPT ![i].lines = new]
    BY <1>8
  <2>2. ASSUME NEW t
        PROVE  \/ Project([lines |-> new, torn |-> t], i).result # "shown"
               \/ Len(lines) = 3 /\ Len(new) = 2 /\ new[2] = lines[2]
    <3> DEFINE f == [lines |-> new, torn |-> t]
    <3>1. f.lines = new
      OBVIOUS
    <3> HIDE DEF f, lines
    <3> QED
      BY <1>3, <1>8, <3>1, CutShows DEF f
  <2> HIDE DEF new, lines
  <2> QED
    BY <1>6, <2>1, <2>2 DEF lines
<1>9. ASSUME NEW k \in DOMAIN lines, file' = [file EXCEPT ![i].lines = Append(@, @[k])]
      PROVE  FilesInv'
  <2> DEFINE new == Append(lines, lines[k])
  <2>1. file' = [file EXCEPT ![i].lines = new]
    BY <1>9
  <2>2. ASSUME NEW t
        PROVE  Project([lines |-> new, torn |-> t], i).result # "shown"
    <3> DEFINE f == [lines |-> new, torn |-> t]
    <3>1. f.lines = new
      OBVIOUS
    <3> HIDE DEF f, lines
    <3> QED
      BY <1>3, <1>9, <3>1, RepeatIsRefused DEF f
  <2> HIDE DEF new
  <2> QED
    BY <1>6, <2>1, <2>2
<1>10. ASSUME NEW k \in DOMAIN lines, lines[k].type = "terminal_failure",
              file' = [file EXCEPT ![i].lines[k].content.failure_code = "Rejected"]
       PROVE  FilesInv'
  <2> DEFINE new == [lines EXCEPT ![k].content.failure_code = "Rejected"]
  <2>1. file' = [file EXCEPT ![i].lines = new]
    BY <1>10
  <2>2. ASSUME NEW t
        PROVE  Project([lines |-> new, torn |-> t], i).result # "shown" \/ new = lines
    <3> DEFINE f == [lines |-> new, torn |-> t]
    <3>1. f.lines = new
      OBVIOUS
    <3> HIDE DEF f, lines
    <3> QED
      BY <1>3, <1>10, <3>1, OtherCodeShows DEF f
  <2> HIDE DEF new
  <2> QED
    BY <1>6, <2>1, <2>2
<1>11. ASSUME NEW k \in DOMAIN lines, k = 1,
              file' = [file EXCEPT ![i].lines[k].format_version = FORMAT_VERSION + 1]
       PROVE  FilesInv'
  <2> DEFINE new == [lines EXCEPT ![1].format_version = FORMAT_VERSION + 1]
  <2>1. file' = [file EXCEPT ![i].lines = new]
    BY <1>11
  <2>2. new[1].format_version # FORMAT_VERSION
    <3>1. 1 \in DOMAIN lines
      BY <1>3, Shape, WrittenIsSequence
    <3>2. lines[1] = Header(i)
      BY <1>3 DEF WrittenLines
    <3>3. new[1] = [Header(i) EXCEPT !.format_version = FORMAT_VERSION + 1]
      BY <3>1, <3>2
    <3> QED
      BY <3>3 DEF Header, FORMAT_VERSION
  <2>3. ASSUME NEW t
        PROVE  Project([lines |-> new, torn |-> t], i).result # "shown"
    <3> DEFINE f == [lines |-> new, torn |-> t]
    <3>1. f.lines = new
      OBVIOUS
    <3> HIDE DEF f, new
    <3> QED
      BY <2>2, <3>1, OtherVersionIsRefused DEF f
  <2> HIDE DEF new
  <2> QED
    BY <1>6, <2>1, <2>3
<1> QED
  BY <1>7, <1>8, <1>9, <1>10, <1>11 DEF Change

(* Whatever is changed in a file that is only begun, it shows nothing.      *)
LEMMA ChangeBegun ==
    ASSUME FilesInv, ~touched, touched', step' = "start", wrote' = wrote,
           NEW i \in Id, Begun(i), Change(i)
    PROVE  FilesInv'
<1> DEFINE lines == file[i].lines
<1>1. file[i] = [lines |-> lines, torn |-> file[i].torn]
  BY DEF FilesInv
<1>2. lines = <<>> \/ lines = <<Header(i)>>
  BY DEF Begun
<1>3. ASSUME NEW new, file' = [file EXCEPT ![i].lines = new],
             \A t : Project([lines |-> new, torn |-> t], i).result # "shown"
      PROVE  FilesInv'
  <2> DEFINE f == [lines |-> new, torn |-> file[i].torn]
  <2>1. file' = [file EXCEPT ![i] = f]
    <3>1. [file[i] EXCEPT !.lines = new] = f
      <4> HIDE DEF lines
      <4> QED
        BY <1>1, FileRecords
    <3>2. file' = [file EXCEPT ![i] = [file[i] EXCEPT !.lines = new]]
      BY <1>3
    <3> QED
      BY <3>1, <3>2
  <2>2. f = [lines |-> f.lines, torn |-> f.torn] /\ Project(f, i).result # "shown"
    BY <1>3
  <2> HIDE DEF f
  <2> QED
    BY <2>1, <2>2, FilesTouched
<1>4. ASSUME NEW j \in Id \ {i}, file' = [file EXCEPT ![j] = file[i]]
      PROVE  FilesInv'
  <2>1. Project(file[i], j).result # "shown"
    BY BegunShows, ShortIsRefused
  <2> HIDE DEF lines
  <2> QED
    BY <1>1, <1>4, <2>1, FilesTouched DEF lines
<1>5. ASSUME NEW k \in DOMAIN lines
      PROVE  k = 1 /\ lines = <<Header(i)>>
  BY <1>2, <1>5
<1>6. ASSUME NEW k \in DOMAIN lines,
             \/ file' = [file EXCEPT ![i].lines =
                            SubSeq(@, 1, k - 1) \o SubSeq(@, k + 1, Len(@))]
             \/ file' = [file EXCEPT ![i].lines = Append(@, @[k])]
             \/ k = 1 /\ file' = [file EXCEPT ![i].lines[k].format_version =
                                      FORMAT_VERSION + 1]
      PROVE  FilesInv'
  <2> DEFINE cut == SubSeq(lines, 1, k - 1) \o SubSeq(lines, k + 1, Len(lines))
             twice == Append(lines, lines[k])
             other == [lines EXCEPT ![k].format_version = FORMAT_VERSION + 1]
  <2>1. k = 1 /\ lines = <<Header(i)>>
    BY <1>5, <1>6
  <2>2. \/ file' = [file EXCEPT ![i].lines = cut]
        \/ file' = [file EXCEPT ![i].lines = twice]
        \/ file' = [file EXCEPT ![i].lines = other]
    BY <1>6
  <2>3. ASSUME NEW new, NEW t, new \in {cut, twice, other}
        PROVE  Project([lines |-> new, torn |-> t], i).result # "shown"
    <3> DEFINE f == [lines |-> new, torn |-> t]
    <3>1. f.lines = new
      OBVIOUS
    <3>2. cut = <<>> /\ Len(cut) < 2
      BY <2>1
    <3>3. Len(twice) = 2 /\ twice[2] = Header(i)
      BY <2>1
    <3>4. ~IsUser(Header(i), twice[1])
      BY DEF IsUser, Header
    <3>5. Len(other) < 2
      BY <2>1
    <3> HIDE DEF f, lines, cut, twice, other
    <3>6. CASE new = twice
      <4>1. IsCorrupt(f, i)
        BY <3>1, <3>3, <3>4, <3>6 DEF IsCorrupt
      <4> QED
        BY <4>1, ShownIff DEF f
    <3>7. CASE new # twice
      BY <2>3, <3>1, <3>2, <3>5, <3>7, ShortIsRefused DEF f
    <3> QED
      BY <3>6, <3>7
  <2> HIDE DEF cut, twice, other
  <2>4. CASE file' = [file EXCEPT ![i].lines = cut]
    <3>1. \A t : Project([lines |-> cut, torn |-> t], i).result # "shown"
      BY <2>3
    <3> QED
      BY <1>3, <2>4, <3>1
  <2>5. CASE file' = [file EXCEPT ![i].lines = twice]
    <3>1. \A t : Project([lines |-> twice, torn |-> t], i).result # "shown"
      BY <2>3
    <3> QED
      BY <1>3, <2>5, <3>1
  <2>6. CASE file' = [file EXCEPT ![i].lines = other]
    <3>1. \A t : Project([lines |-> other, torn |-> t], i).result # "shown"
      BY <2>3
    <3> QED
      BY <1>3, <2>6, <3>1
  <2> QED
    BY <2>2, <2>4, <2>5, <2>6
<1>7. ASSUME NEW k \in DOMAIN lines
      PROVE  lines[k].type # "terminal_failure"
  BY <1>5, <1>7 DEF Header
<1> QED
  BY <1>4, <1>6, <1>7 DEF Change

LEMMA TouchFiles ==
    ASSUME FilesInv, Touch
    PROVE  FilesInv'
<1>1. ~touched /\ touched' /\ step' = "start" /\ wrote' = wrote
  BY DEF Touch
<1>2. PICK i \in Id : Change(i)
  BY DEF Touch
<1>3. Kept(i) \/ Begun(i)
  BY <1>1, <1>2 DEF FilesInv, Change
<1> QED
  BY <1>1, <1>2, <1>3, ChangeKept, ChangeBegun

LEMMA FilesSteps ==
    ASSUME CallInv, StepInv, FilesInv, [Next]_cmdVars
    PROVE  FilesInv'
<1>1. CASE \/ Parse \/ Explain \/ Refuse \/ RunLogin \/ RunLocal \/ RunModelTest
           \/ ShowSession \/ ListSessions \/ CallModel \/ NextCommand \/ UNCHANGED cmdVars
  <2>1. UNCHANGED <<file, wrote, session, touched>>
    BY <1>1 DEF Parse, Explain, Refuse, RunLogin, RunLocal, RunModelTest, ShowSession,
                ListSessions, CallModel, NextCommand, cmdVars, store
  <2>2. step' = "ask" => step = "ask"
    BY <1>1 DEF Parse, Explain, Refuse, RunLogin, RunLocal, RunModelTest, ShowSession,
                ListSessions, CallModel, NextCommand, cmdVars, End, EndWithText, EndWithError
  <2> QED
    BY <2>1, <2>2, FilesSame
<1> QED
  BY <1>1, StartFiles, FinishFiles, TouchFiles DEF Next

-----------------------------------------------------------------------------
(* Every step of a command keeps what the last ask told, and what a show    *)
(* says of it.                                                              *)
LEMMA FinishTold ==
    ASSUME CallInv, StepInv, FilesInv, FinishAsk
    PROVE  ToldInv'
<1>1. /\ step = "ask" /\ UNCHANGED session /\ told' = answer
      /\ answer # Error("InvalidPrompt") /\ phase = "done"
  BY DEF FinishAsk, CallOver, StepInv
<1>2. \/ answer.kind = "text" /\ answer = Text(answer.text)
      \/ /\ answer.kind = "error" /\ answer = Error(answer.error)
         /\ answer.error \in FailureCode
  BY <1>1 DEF CallInv, FirstBy, SecondBy
<1>3. PICK entry \in Id : AppendTerminal(entry)
  BY <1>1 DEF FinishAsk
<1> DEFINE old == file[session].lines
           line == TerminalLine(entry, old)
           more == Append(old, line)
<1>4. /\ session \in Id /\ file[session] # NoFile /\ WrittenLines(old, session)
      /\ Len(old) = 2
      /\ file[session] = [lines |-> old, torn |-> file[session].torn]
  BY <1>1 DEF FilesInv, Kept
<1>5. Terminal(old) = [kind |-> "none"]
  BY <1>4 DEF Terminal
<1>6. Terminal(more) = answer
  <2>1. Len(more) = 3 /\ more[3] = line
    <3>1. old = <<old[1], old[2]>>
      BY <1>4, Shape
    <3>2. old \in Seq({old[1], old[2], line}) /\ line \in {old[1], old[2], line}
      BY <3>1, Pairs
    <3>3. more = <<old[1], old[2], line>>
      <4> HIDE DEF old, line
      <4> QED
        BY <1>4, <3>2, Appended
    <3> HIDE DEF more
    <3> QED
      BY <3>3
  <2>2. Terminal(more) = IF line.type = "assistant_message"
                         THEN [kind |-> "text", text |-> line.content.text]
                         ELSE [kind |-> "error", error |-> line.content.failure_code]
    BY <2>1 DEF Terminal
  <2> HIDE DEF more
  <2>3. CASE answer.kind = "text" /\ answer = Text(answer.text)
    <3>1. line.type = "assistant_message" /\ line.content.text = answer.text
      BY <2>3 DEF TerminalLine, AssistantEntry, Entry
    <3> QED
      BY <2>2, <2>3, <3>1 DEF Text
  <2>4. CASE /\ answer.kind = "error" /\ answer = Error(answer.error)
             /\ answer.error \in FailureCode
    <3>1. line.type = "terminal_failure" /\ line.content.failure_code = answer.error
      BY <2>4 DEF TerminalLine, FailureEntry, Entry, ModelFailureCode
    <3> QED
      BY <2>2, <2>4, <3>1 DEF Error
  <2> QED
    BY <1>2, <2>3, <2>4
<1>7. \/ file'[session] = file[session] /\ lost' # "none"
      \/ file'[session].lines = old /\ lost' # "none" /\ file'[session] # NoFile
      \/ file'[session].lines = more
  <2>1. CASE UNCHANGED file /\ lost' # "none"
    BY <2>1
  <2>2. CASE file' = [file EXCEPT ![session].torn = TRUE] /\ lost' # "none"
    <3>1. file'[session] = [file[session] EXCEPT !.torn = TRUE]
      BY <1>4, <2>2 DEF FilesInv
    <3>2. file'[session] = [lines |-> old, torn |-> TRUE]
      <4> HIDE DEF old
      <4> QED
        BY <1>4, <3>1, FileRecords
    <3>3. file'[session].lines = old
      BY <3>2
    <3>4. Len(NoFile.lines) = 0
      BY DEF NoFile
    <3> QED
      BY <1>4, <2>2, <3>3, <3>4
  <2>3. CASE file' = [file EXCEPT ![session].lines = Append(@, line)]
    <3>1. file'[session] = [file[session] EXCEPT !.lines = more]
      BY <1>4, <2>3 DEF FilesInv
    <3>2. file'[session] = [lines |-> more, torn |-> file[session].torn]
      <4> HIDE DEF more, old
      <4> QED
        BY <1>4, <3>1, FileRecords
    <3> QED
      BY <3>2
  <2> QED
    BY <1>3, <2>1, <2>2, <2>3 DEF AppendTerminal
<1>8. file'[session] # NoFile
  <2>1. Terminal(NoFile.lines) # Terminal(more) \/ NoFile.lines # more
    <3>1. Len(NoFile.lines) = 0
      BY DEF NoFile
    <3>2. old \in Seq({old[1], old[2], old[3]})
      BY <1>4, WrittenIsSequence
    <3>3. more # <<>>
      BY <3>2
    <3> QED
      BY <3>1, <3>3 DEF NoFile
  <2> QED
    BY <1>4, <1>7, <2>1
<1>9. answer.kind \in {"text", "error"}
  BY <1>2
<1> HIDE DEF old, more
<1> QED
  BY <1>1, <1>4, <1>5, <1>6, <1>7, <1>8, <1>9 DEF ToldInv, old

LEMMA ToldSteps ==
    ASSUME CallInv, StepInv, FilesInv, ToldInv, [Next]_cmdVars
    PROVE  ToldInv'
<1>1. CASE \/ Parse \/ Explain \/ Refuse \/ RunLogin \/ RunLocal \/ RunModelTest
           \/ ShowSession \/ ListSessions \/ CallModel \/ NextCommand \/ UNCHANGED cmdVars
  <2>1. UNCHANGED <<file, session, lost, touched, told>>
    BY <1>1 DEF Parse, Explain, Refuse, RunLogin, RunLocal, RunModelTest, ShowSession,
                ListSessions, CallModel, NextCommand, cmdVars, store
  <2>2. step = "ask" => step' = "ask"
    BY <1>1 DEF Parse, Explain, Refuse, RunLogin, RunLocal, RunModelTest, ShowSession,
                ListSessions, CallModel, NextCommand, cmdVars, Running
  <2> QED
    BY <2>1, <2>2 DEF ToldInv
<1>2. CASE StartAsk
  <2>1. CASE step' = "ask"
    BY <2>1 DEF ToldInv
  <2>2. CASE step' # "ask"
    <3>1. /\ UNCHANGED <<session, touched, told>> /\ step = "run"
          /\ lost' \in {"identifiers", "size", "storage"}
      BY <1>2, <2>2 DEF StartAsk, Running
    <3>2. \/ file' = file
          \/ \E s \in Id : \E f : file[s] = NoFile /\ file' = [file EXCEPT ![s] = f]
      BY <1>2, <2>2 DEF StartAsk, Leave, Drawn
    <3>3. ASSUME session \in Id, file[session] # NoFile
          PROVE  file'[session] = file[session]
      BY <3>2, <3>3 DEF FilesInv
    <3> QED
      BY <3>1, <3>3 DEF ToldInv
  <2> QED
    BY <2>1, <2>2
<1>3. CASE Touch
  BY <1>3 DEF Touch, ToldInv
<1> QED
  BY <1>1, <1>2, <1>3, FinishTold DEF Next

LEMMA ShownSteps ==
    ASSUME CallInv, StepInv, FilesInv, ToldInv, ShownAsTold, [Next]_cmdVars
    PROVE  ShownAsTold'
<1>1. CASE UNCHANGED cmdVars
  BY <1>1 DEF cmdVars, store, output, ShownAsTold
<1>2. CASE \/ Explain \/ Refuse \/ RunLogin \/ RunLocal \/ RunModelTest \/ ListSessions
           \/ StartAsk \/ FinishAsk \/ Parse \/ Touch \/ NextCommand \/ CallModel
  <2>1. step' # "done" \/ op'.name # "SessionShow"
    BY <1>2 DEF Explain, Refuse, RunLogin, RunLocal, RunModelTest, ListSessions,
                StartAsk, FinishAsk, Parse, Touch, NextCommand, CallModel, Running, StepInv,
                Asking, CallNext, ReadRecord, Acquire, Reread, Refresh, Save, Send, Decode
  <2> QED
    BY <2>1 DEF ShownAsTold
<1>3. CASE ShowSession
  <2> SUFFICES ASSUME result' = "ok", ~touched, op.argument = session
               PROVE  ShownAsTold'
    BY <1>3 DEF ShowSession, ShownAsTold, store
  <2> DEFINE lines == file[session].lines
             shown == Project(file[session], session)
             last == shown.terminal
             prompt == Render(wrote[session][2].content.text)
  <2>1. /\ step = "run" /\ op.name = "SessionShow" /\ op = ParseCommand(args)
        /\ UNCHANGED <<file, wrote, session, lost, told>>
    BY <1>3 DEF ShowSession, Running, StepInv, store
  <2>2. session \in Id
    <3>1. \E i \in Id : op.argument = i
      BY <2>1, ArgumentsAssumption, CommandMeans DEF StepInv
    <3> QED
      BY <3>1
  <2>11. shown.result = "shown"
    BY <1>3 DEF ShowSession
  <2>12. ~Begun(session)
    BY <2>11, BegunShows, ShortIsRefused
  <2>3. /\ file[session] # NoFile /\ Kept(session)
        /\ told.kind \in {"text", "error"}
        /\ \/ Terminal(lines) = told
           \/ lost # "none" /\ Terminal(lines) = [kind |-> "none"]
    BY <2>1, <2>2, <2>12, NoIdAssumption DEF ToldInv, FilesInv
  <2>4. /\ shown.result = "shown" /\ last = Terminal(lines) /\ shown.status = Status(lines)
        /\ shown.prompt = lines[2].content.text
    BY <2>3, WrittenShown, ShownIff DEF Kept
  <2>5. lines[2] = wrote[session][2]
    BY <2>3 DEF Kept
  <2> DEFINE text == Render(shown.prompt)
                         \o (IF last.kind = "text" THEN Render(last.text) ELSE <<LineEnd>>)
             says == IF last.kind = "error" THEN last.error ELSE shown.status
  <2>6. stdout' \in Write(text, says)
    BY <1>3, <2>3, <2>4 DEF ShowSession, End, EndWithError
  <2>7. /\ stdout'.text = prompt
            \o (IF last.kind = "text" THEN Render(last.text) ELSE <<LineEnd>>)
        /\ stdout'.says = IF last.kind = "error" THEN last.error ELSE shown.status
    <3>1. stdout'.text = text /\ stdout'.says = says
      <4> HIDE DEF text, says
      <4> QED
        BY <2>6, WriteGives
    <3>2. shown.prompt = wrote[session][2].content.text
      BY <2>4, <2>5
    <3>3. text = prompt \o (IF last.kind = "text" THEN Render(last.text) ELSE <<LineEnd>>)
      <4> HIDE DEF last
      <4> QED
        BY <3>2
    <3> QED
      BY <3>1, <3>3
  <2>8. shown.status =
            [none |-> "Interrupted", text |-> "Completed", error |-> "Failed"][last.kind]
    BY <2>4 DEF Status
  <2>9. CASE last = told
    <3>1. CASE told.kind = "text"
      BY <2>1, <2>7, <2>8, <2>9, <3>1 DEF ShownAsTold
    <3>2. CASE told.kind = "error"
      BY <2>1, <2>7, <2>9, <3>2 DEF ShownAsTold
    <3> QED
      BY <2>3, <3>1, <3>2
  <2>10. CASE lost # "none" /\ last = [kind |-> "none"]
    BY <2>1, <2>7, <2>8, <2>10 DEF ShownAsTold
  <2> QED
    BY <2>3, <2>4, <2>9, <2>10
<1> QED
  BY <1>1, <1>2, <1>3 DEF Next

-----------------------------------------------------------------------------
(* Sizes are sums over the runs of a text and over the lines of a file:     *)
(* functions by recursion, which exist and are bounded by induction.        *)
LEMMA Least ==
    ASSUME NEW T, T \subseteq Nat, T # {}
    PROVE  \E x \in T : \A y \in T : x <= y
<1> DEFINE R == OpToRel(<, Nat)
<1>1. IsWellFoundedOn(R, Nat)
  BY NatLessThanWellFounded
<1>2. \A x, y \in Nat : <<y, x>> \in R <=> y < x
  BY DEF OpToRel
<1> HIDE DEF R
<1>3. PICK x \in T : \A y \in T : ~ (<<y, x>> \in R)
  BY <1>1, WFMin
<1>4. ASSUME NEW y \in T PROVE x <= y
  <2>1. x \in Nat /\ y \in Nat
    OBVIOUS
  <2>2. ~ (y < x)
    BY <1>2, <1>3, <2>1
  <2> QED
    BY <2>1, <2>2
<1> QED
  BY <1>4

LEMMA Induction ==
    ASSUME NEW T, 0 \in T, \A n \in Nat : n \in T => n + 1 \in T
    PROVE  Nat \subseteq T
<1> DEFINE U == Nat \ T
<1> SUFFICES ASSUME U # {} PROVE FALSE
  OBVIOUS
<1>1. PICK m \in U : \A y \in U : m <= y
  BY Least
<1>2. m # 0 /\ m - 1 \in Nat /\ m - 1 \notin U
  BY <1>1
<1> QED
  BY <1>1, <1>2

(* t adds up the first k values of f. *)
Adds(t, f, k) == t = [n \in 0 .. k |-> IF n = 0 THEN 0 ELSE t[n - 1] + f[n]]

LEMMA SumExists ==
    ASSUME NEW f, NEW k \in Nat
    PROVE  \E t : Adds(t, f, k)
<1> DEFINE T == {n \in Nat : \E t : Adds(t, f, n)}
<1>1. 0 \in T
  <2>1. Adds([n \in 0 .. 0 |-> 0], f, 0)
    BY DEF Adds
  <2> QED
    BY <2>1
<1>2. ASSUME NEW n \in Nat, n \in T
      PROVE  n + 1 \in T
  <2>1. PICK t : Adds(t, f, n)
    BY <1>2
  <2> DEFINE u == [i \in 0 .. n + 1 |-> IF i = n + 1 THEN t[n] + f[n + 1] ELSE t[i]]
  <2>2. Adds(u, f, n + 1)
    <3>1. ASSUME NEW i \in 0 .. n + 1
          PROVE  u[i] = IF i = 0 THEN 0 ELSE u[i - 1] + f[i]
      <4>1. CASE i = n + 1
        BY <4>1
      <4>2. CASE i # n + 1
        <5>1. i \in 0 .. n /\ u[i] = t[i]
          BY <4>2
        <5>2. t[i] = IF i = 0 THEN 0 ELSE t[i - 1] + f[i]
          BY <5>1, <2>1 DEF Adds
        <5>3. i # 0 => u[i - 1] = t[i - 1]
          BY <4>2
        <5> QED
          BY <5>1, <5>2, <5>3
      <4> QED
        BY <4>1, <4>2
    <3> QED
      BY <3>1 DEF Adds
  <2> QED
    BY <2>2
<1> HIDE DEF T
<1>3. k \in T
  BY <1>1, <1>2, Induction
<1> QED
  BY <1>3 DEF T

Sizes(t, width, text) ==
    t = [n \in 0 .. Len(text) |->
            IF n = 0 THEN 0 ELSE t[n - 1] + text[n].count * width[text[n].char]]

LEMMA SizeIs ==
    ASSUME NEW width, NEW text, Len(text) \in Nat
    PROVE  \E t : Sizes(t, width, text) /\ SizeBy(width, text) = t[Len(text)]
<1> DEFINE f == [n \in 1 .. Len(text) |-> text[n].count * width[text[n].char]]
           t == CHOOSE t : Sizes(t, width, text)
<1>1. Sizes(t, width, text)
  <2>1. PICK u : Adds(u, f, Len(text))
    BY SumExists
  <2>2. \A n \in 0 .. Len(text) :
            (IF n = 0 THEN 0 ELSE u[n - 1] + f[n])
              = (IF n = 0 THEN 0 ELSE u[n - 1] + text[n].count * width[text[n].char])
    OBVIOUS
  <2>3. Sizes(u, width, text)
    BY <2>1, <2>2 DEF Adds, Sizes
  <2> QED
    BY <2>3, Zenon
<1>2. SizeBy(width, text) = t[Len(text)]
  BY Zenon DEF SizeBy, Sizes
<1> QED
  BY <1>1, <1>2

LEMMA FileBytesIs ==
    ASSUME NEW lines, Len(lines) \in Nat
    PROVE  \E t : /\ t = [n \in 0 .. Len(lines) |->
                             IF n = 0 THEN 0 ELSE t[n - 1] + (lines[n].bytes + 1)]
                  /\ FileBytes(lines) = t[Len(lines)]
<1> DEFINE f == [n \in 1 .. Len(lines) |-> lines[n].bytes + 1]
           Sums(t) == t = [n \in 0 .. Len(lines) |->
                             IF n = 0 THEN 0 ELSE t[n - 1] + (lines[n].bytes + 1)]
           t == CHOOSE t : Sums(t)
<1>1. Sums(t)
  <2>1. PICK u : Adds(u, f, Len(lines))
    BY SumExists
  <2>2. \A n \in 0 .. Len(lines) :
            (IF n = 0 THEN 0 ELSE u[n - 1] + f[n])
              = (IF n = 0 THEN 0 ELSE u[n - 1] + (lines[n].bytes + 1))
    OBVIOUS
  <2>3. Sums(u)
    BY <2>1, <2>2 DEF Adds
  <2> QED
    BY <2>3, Zenon
<1>2. FileBytes(lines) = t[Len(lines)]
  BY Zenon DEF FileBytes
<1> QED
  BY <1>1, <1>2

(* A character takes at most three bytes, and in JSON at most six times as many. *)
LEMMA Widths ==
    ASSUME NEW c \in Char
    PROVE  \/ Bytes[c] = 1 /\ JsonBytes[c] \in {1, 2, 6}
           \/ Bytes[c] = 2 /\ JsonBytes[c] = 2
           \/ Bytes[c] = 3 /\ JsonBytes[c] = 3
<1>1. Char = {"letter", "space", "quote", "CR", "LF", "TAB", "VT", "control", "NEL", "C1",
              "space2", "space3", "bidi2", "bidi3", "wide"}
  BY DEF Char, Bytes
<1>2. JsonBytes[c] = IF c \in {"quote", "CR", "LF", "TAB"} THEN 2
                     ELSE IF c \in {"VT", "control"} THEN 6 ELSE Bytes[c]
  <2>1. ASSUME NEW f, c \in DOMAIN f
        PROVE  [f EXCEPT !.quote = 2, !.CR = 2, !.LF = 2, !.TAB = 2, !.VT = 6,
                         !.control = 6][c]
                   = IF c \in {"quote", "CR", "LF", "TAB"} THEN 2
                     ELSE IF c \in {"VT", "control"} THEN 6 ELSE f[c]
    BY <2>1
  <2>2. c \in DOMAIN Bytes
    BY DEF Char
  <2> QED
    BY <2>1, <2>2 DEF JsonBytes
<1>3. CASE c \in {"letter", "space", "quote", "CR", "LF", "TAB", "VT", "control"}
  BY <1>2, <1>3 DEF Bytes
<1>4. CASE c \in {"NEL", "C1", "space2", "bidi2"}
  BY <1>2, <1>4 DEF Bytes
<1>5. CASE c \in {"space3", "bidi3", "wide"}
  BY <1>2, <1>5 DEF Bytes
<1> QED
  BY <1>1, <1>3, <1>4, <1>5

LEMMA RunAtMostSixfold ==
    ASSUME NEW c \in Char, NEW m \in Nat
    PROVE  /\ m * Bytes[c] \in Nat /\ m * JsonBytes[c] \in Nat
           /\ m * JsonBytes[c] <= 6 * (m * Bytes[c])
<1>1. CASE Bytes[c] = 1 /\ JsonBytes[c] = 1
  BY <1>1
<1>2. CASE Bytes[c] = 1 /\ JsonBytes[c] = 2
  BY <1>2
<1>3. CASE Bytes[c] = 1 /\ JsonBytes[c] = 6
  BY <1>3
<1>4. CASE Bytes[c] = 2 /\ JsonBytes[c] = 2
  BY <1>4
<1>5. CASE Bytes[c] = 3 /\ JsonBytes[c] = 3
  BY <1>5
<1> QED
  BY <1>1, <1>2, <1>3, <1>4, <1>5, Widths

LEMMA JsonAtMostSixfold ==
    ASSUME NEW text \in ModelText
    PROVE  Size(text) \in Nat /\ JsonSize(text) \in Nat /\ JsonSize(text) <= 6 * Size(text)
<1>0. Len(text) \in Nat
  BY DEF ModelText
<1>1. PICK a : Sizes(a, Bytes, text) /\ Size(text) = a[Len(text)]
  BY <1>0, SizeIs DEF Size
<1>2. PICK b : Sizes(b, JsonBytes, text) /\ JsonSize(text) = b[Len(text)]
  BY <1>0, SizeIs DEF JsonSize
<1> DEFINE T == {n \in Nat : n <= Len(text) => a[n] \in Nat /\ b[n] \in Nat /\ b[n] <= 6 * a[n]}
<1>3. 0 \in T
  BY <1>0, <1>1, <1>2 DEF Sizes
<1>4. ASSUME NEW n \in Nat, n \in T
      PROVE  n + 1 \in T
  <2> SUFFICES ASSUME n + 1 <= Len(text)
               PROVE  a[n + 1] \in Nat /\ b[n + 1] \in Nat /\ b[n + 1] <= 6 * a[n + 1]
    OBVIOUS
  <2> DEFINE c == text[n + 1].char
             m == text[n + 1].count
  <2>1. n + 1 \in 1 .. Len(text) /\ n + 1 \in 0 .. Len(text) /\ n + 1 # 0 /\ (n + 1) - 1 = n
    BY <1>0
  <2>2. c \in Char /\ m \in Nat
    <3>1. text[n + 1] \in [char : Char, count : Nat \ {0}]
      BY <2>1, ElementOfSeq DEF ModelText
    <3> QED
      BY <3>1
  <2>3. a[n] \in Nat /\ b[n] \in Nat /\ b[n] <= 6 * a[n]
    BY <1>4, <1>0
  <2>4. a[n + 1] = a[n] + m * Bytes[c] /\ b[n + 1] = b[n] + m * JsonBytes[c]
    BY <1>1, <1>2, <2>1 DEF Sizes
  <2> DEFINE x == m * Bytes[c]
             y == m * JsonBytes[c]
  <2>5. x \in Nat /\ y \in Nat /\ y <= 6 * x
    <3> HIDE DEF c, m
    <3> QED
      BY <2>2, RunAtMostSixfold
  <2>6. a[n + 1] = a[n] + x /\ b[n + 1] = b[n] + y
    BY <2>4
  <2> HIDE DEF x, y
  <2>7. \A p, q \in Nat : q <= 6 * p => /\ p + x \in Nat /\ q + y \in Nat
                                       /\ q + y <= 6 * (p + x)
    <3> HIDE DEF T
    <3> QED
      BY <2>5
  <2> HIDE DEF T
  <2> QED
    BY <2>3, <2>6, <2>7
<1> HIDE DEF T
<1>5. Len(text) \in T
  BY <1>0, <1>3, <1>4, Induction
<1> QED
  BY <1>0, <1>1, <1>2, <1>5 DEF T

LEMMA BytesOfTwo ==
    ASSUME NEW lines, Len(lines) = 2, lines[1].bytes \in Nat, lines[2].bytes \in Nat
    PROVE  FileBytes(lines) = lines[1].bytes + lines[2].bytes + 2
<1>1. PICK t : /\ t = [n \in 0 .. 2 |-> IF n = 0 THEN 0 ELSE t[n - 1] + (lines[n].bytes + 1)]
               /\ FileBytes(lines) = t[2]
  BY FileBytesIs
<1>2. t[0] = 0 /\ t[1] = t[0] + (lines[1].bytes + 1) /\ t[2] = t[1] + (lines[2].bytes + 1)
  BY <1>1
<1> QED
  BY <1>1, <1>2

LEMMA BytesOfThree ==
    ASSUME NEW lines, Len(lines) = 3,
           lines[1].bytes \in Nat, lines[2].bytes \in Nat, lines[3].bytes \in Nat
    PROVE  FileBytes(lines) = lines[1].bytes + lines[2].bytes + lines[3].bytes + 3
<1>1. PICK t : /\ t = [n \in 0 .. 3 |-> IF n = 0 THEN 0 ELSE t[n - 1] + (lines[n].bytes + 1)]
               /\ FileBytes(lines) = t[3]
  BY FileBytesIs
<1>2. /\ t[0] = 0 /\ t[1] = t[0] + (lines[1].bytes + 1) /\ t[2] = t[1] + (lines[2].bytes + 1)
      /\ t[3] = t[2] + (lines[3].bytes + 1)
  BY <1>1
<1> QED
  BY <1>1, <1>2

LEMMA ThreeIds ==
    ASSUME NEW s, NEW o, NEW u
    PROVE  /\ Cardinality({s, o, u}) \in Nat /\ Cardinality({s, o, u}) <= 3
<1>1. IsFiniteSet({s}) /\ Cardinality({s}) = 1
  BY FS_Singleton
<1>2. IsFiniteSet({s, o}) /\ Cardinality({s, o}) \in {1, 2}
  <2>1. {s, o} = {s} \cup {o}
    OBVIOUS
  <2> QED
    BY <1>1, <2>1, FS_AddElement
<1>3. Cardinality({s, o, u}) \in {1, 2, 3}
  <2>1. {s, o, u} = {s, o} \cup {u}
    OBVIOUS
  <2> QED
    BY <1>2, <2>1, FS_AddElement
<1> QED
  BY <1>3

-----------------------------------------------------------------------------
(* A prompt and an answer within their limits fit the session format: no    *)
(* record was lost to its size, and the two lines of a running ask leave    *)
(* room for every answer.                                                   *)
SizeInv ==
    /\ lost # "size"
    /\ answer.kind = "text" => answer.text \in Answers
    /\ step = "ask" =>
           /\ file[session].lines[1].bytes = HEADER_BYTES
           /\ file[session].lines[2].bytes \in 0 .. ENTRY_BYTES + 6 * MAX_PROMPT_BYTES

LEMMA Limits ==
    /\ MAX_PROMPT_BYTES = 32768 /\ MAX_TEXT_BYTES = 262144
    /\ MAX_RECORD_BYTES = 2097152 /\ MAX_SESSION_BYTES = 3145728
BY DEF MAX_PROMPT_BYTES, MAX_TEXT_BYTES, MAX_RECORD_BYTES, MAX_SESSION_BYTES

(* The sum the limits must leave room for. *)
LEMMA RoomForAll ==
    ASSUME NEW user \in 0 .. ENTRY_BYTES + 6 * MAX_PROMPT_BYTES,
           NEW terminal \in 0 .. ENTRY_BYTES + 6 * MAX_TEXT_BYTES
    PROVE  /\ HEADER_BYTES \in Nat /\ HEADER_BYTES <= MAX_RECORD_BYTES
           /\ user \in Nat /\ user <= MAX_RECORD_BYTES
           /\ terminal \in Nat /\ terminal <= MAX_RECORD_BYTES
           /\ HEADER_BYTES + user + 2 <= MAX_SESSION_BYTES
           /\ HEADER_BYTES + user + terminal + 3 <= MAX_SESSION_BYTES
<1>1. HEADER_BYTES \in Nat /\ ENTRY_BYTES \in Nat /\ HEADER_BYTES <= 25000 /\ ENTRY_BYTES <= 5000
  BY LineAssumption
<1>2. user \in 0 .. ENTRY_BYTES + 196608 /\ terminal \in 0 .. ENTRY_BYTES + 1572864
  <2>1. 6 * MAX_PROMPT_BYTES = 196608 /\ 6 * MAX_TEXT_BYTES = 1572864
    BY Limits
  <2> QED
    BY <2>1
<1>3. user \in Nat /\ terminal \in Nat /\ user <= 201608 /\ terminal <= 1577864
  BY <1>1, <1>2
<1> QED
  BY <1>1, <1>3, Limits

LEMMA InitialFits ==
    ASSUME NEW s, NEW o, NEW u, NEW prompt \in ModelText, Size(prompt) <= MAX_PROMPT_BYTES
    PROVE  LET lines == InitialLines(s, o, u, prompt)
           IN  /\ lines[1].bytes = HEADER_BYTES
               /\ lines[2].bytes \in 0 .. ENTRY_BYTES + 6 * MAX_PROMPT_BYTES
               /\ Cardinality({s, o, u}) >= 3 => InitialRecords(s, o, u, prompt)
<1> DEFINE lines == InitialLines(s, o, u, prompt)
<1>1. lines = <<Header(s), UserEntry(u, o, prompt)>>
  BY DEF InitialLines
<1>2. /\ Header(s).bytes = HEADER_BYTES
      /\ UserEntry(u, o, prompt).bytes = ENTRY_BYTES + JsonSize(prompt)
  BY DEF Header, UserEntry, Entry
<1>3. /\ Len(lines) = 2 /\ lines[1].bytes = HEADER_BYTES
      /\ lines[2].bytes = ENTRY_BYTES + JsonSize(prompt)
  <2> HIDE DEF lines
  <2> QED
    BY <1>1, <1>2
<1>4. /\ lines[2].bytes \in 0 .. ENTRY_BYTES + 6 * MAX_PROMPT_BYTES
  <2>1. /\ Size(prompt) \in Nat /\ JsonSize(prompt) \in Nat
        /\ JsonSize(prompt) <= 6 * Size(prompt)
    BY JsonAtMostSixfold
  <2>2. JsonSize(prompt) <= 6 * MAX_PROMPT_BYTES
    BY <2>1, Limits
  <2>3. MAX_PROMPT_BYTES \in Nat /\ ENTRY_BYTES \in Nat
    BY LineAssumption, Limits
  <2> HIDE DEF lines
  <2> QED
    BY <1>3, <2>1, <2>2, <2>3
<1>5. Serializable(lines[1]) /\ Serializable(lines[2]) /\ FileBytes(lines) <= MAX_SESSION_BYTES
  <2> DEFINE user == lines[2].bytes
  <2>1. 0 \in 0 .. ENTRY_BYTES + 6 * MAX_TEXT_BYTES
    BY LineAssumption, Limits
  <2> HIDE DEF lines
  <2>2. /\ HEADER_BYTES \in Nat /\ HEADER_BYTES <= MAX_RECORD_BYTES
        /\ user \in Nat /\ user <= MAX_RECORD_BYTES
        /\ HEADER_BYTES + user + 2 <= MAX_SESSION_BYTES
    <3> HIDE DEF user
    <3>1. user \in 0 .. ENTRY_BYTES + 6 * MAX_PROMPT_BYTES
      BY <1>4 DEF user
    <3> QED
      BY <2>1, <3>1, RoomForAll
  <2>3. FileBytes(lines) = HEADER_BYTES + user + 2
    BY <1>3, <2>2, BytesOfTwo
  <2> QED
    BY <1>3, <2>2, <2>3 DEF Serializable
<1>6. Cardinality({s, o, u}) >= 3 => Cardinality({s, o, u}) = 3
  BY ThreeIds
<1> QED
  BY <1>3, <1>4, <1>5, <1>6 DEF InitialRecords

LEMMA TerminalFits ==
    ASSUME NEW lines, Len(lines) = 2, NEW S, lines \in Seq(S), NEW line \in S,
           lines[1].bytes = HEADER_BYTES,
           lines[2].bytes \in 0 .. ENTRY_BYTES + 6 * MAX_PROMPT_BYTES,
           line.bytes \in 0 .. ENTRY_BYTES + 6 * MAX_TEXT_BYTES
    PROVE  FitsInSession(line, lines)
<1> DEFINE more == Append(lines, line)
<1>1. Len(more) = 3 /\ more[1] = lines[1] /\ more[2] = lines[2] /\ more[3] = line
  <2>1. more = <<lines[1], lines[2], line>>
    BY Appended
  <2> HIDE DEF more
  <2> QED
    BY <2>1
<1>2. /\ HEADER_BYTES \in Nat /\ lines[2].bytes \in Nat /\ line.bytes \in Nat
      /\ line.bytes <= MAX_RECORD_BYTES
      /\ HEADER_BYTES + lines[2].bytes + line.bytes + 3 <= MAX_SESSION_BYTES
  BY RoomForAll
<1>3. FileBytes(more) = HEADER_BYTES + lines[2].bytes + line.bytes + 3
  <2> HIDE DEF more
  <2> QED
    BY <1>1, <1>2, BytesOfThree
<1> QED
  BY <1>2, <1>3 DEF FitsInSession, Serializable

LEMMA StartFits ==
    ASSUME StepInv, FilesInv, SizeInv, StartAsk
    PROVE  SizeInv'
<1> DEFINE prompt == TextOf(op.argument)
<1>1. op = ParseCommand(args) /\ op.name = "AskOpenAiCodex" /\ UNCHANGED answer
  BY DEF StartAsk, StepInv, Running, callVars
<1>2. prompt \in ModelText /\ Size(prompt) <= MAX_PROMPT_BYTES
  <2>1. ValidPrompt(prompt)
    BY <1>1, ArgumentsAssumption, CommandMeans DEF StepInv
  <2>2. <<Run("letter", 4)>> \in ModelText
    <3>1. "letter" \in Char
      BY DEF Char, Bytes
    <3> QED
      BY <3>1 DEF ModelText, Run
  <2> QED
    BY <2>1, <2>2, PromptAssumption DEF ValidPrompt, TextOf
<1>3. PICK drawn \in Drawn :
          \/ /\ file' = [file EXCEPT ![drawn[1]].lines =
                            InitialLines(drawn[1], drawn[2], drawn[3], prompt)]
             /\ session' = drawn[1] /\ UNCHANGED lost
          \/ /\ lost' = IF Cardinality({drawn[1], drawn[2], drawn[3]}) < 3 THEN "identifiers"
                        ELSE IF ~InitialRecords(drawn[1], drawn[2], drawn[3], prompt) THEN "size"
                        ELSE "storage"
             /\ step' = "done"
  BY DEF StartAsk, EndWithError, End
<1> HIDE DEF prompt
<1> DEFINE s == drawn[1]
           lines == InitialLines(s, drawn[2], drawn[3], prompt)
<1>4. Cardinality({s, drawn[2], drawn[3]}) \in Nat
  BY ThreeIds
<1>5. /\ lines[1].bytes = HEADER_BYTES
      /\ lines[2].bytes \in 0 .. ENTRY_BYTES + 6 * MAX_PROMPT_BYTES
      /\ Cardinality({s, drawn[2], drawn[3]}) >= 3
             => InitialRecords(s, drawn[2], drawn[3], prompt)
  BY <1>2, InitialFits
<1>6. CASE file' = [file EXCEPT ![s].lines = lines] /\ session' = s /\ UNCHANGED lost
  <2>1. s \in Id
    BY DEF Drawn
  <2>2. file'[s].lines = lines
    <3>1. file[s] = [lines |-> file[s].lines, torn |-> file[s].torn]
      BY <2>1 DEF FilesInv
    <3>2. file'[s] = [file[s] EXCEPT !.lines = lines]
      BY <1>6, <2>1 DEF FilesInv
    <3>3. file'[s] = [lines |-> lines, torn |-> file[s].torn]
      <4> HIDE DEF s, lines
      <4> QED
        BY <3>1, <3>2, FileRecords
    <3> QED
      BY <3>3
  <2> HIDE DEF lines
  <2> QED
    BY <1>1, <1>5, <1>6, <2>2 DEF SizeInv
<1>7. CASE lost' \in {"identifiers", "storage"} /\ step' = "done"
  BY <1>1, <1>7 DEF SizeInv
<1> QED
  BY <1>3, <1>4, <1>5, <1>6, <1>7

LEMMA FinishFits ==
    ASSUME CallInv, StepInv, FilesInv, SizeInv, FinishAsk
    PROVE  SizeInv'
<1>1. /\ step = "ask" /\ step' = "done" /\ UNCHANGED answer
      /\ answer # Error("InvalidPrompt") /\ phase = "done"
  BY DEF FinishAsk, CallOver, StepInv, End, EndWithError
<1>2. PICK entry \in Id : AppendTerminal(entry)
  BY <1>1 DEF FinishAsk
<1> DEFINE lines == file[session].lines
           line == TerminalLine(entry, lines)
<1>3. /\ Len(lines) = 2 /\ WrittenLines(lines, session)
      /\ lines[1].bytes = HEADER_BYTES
      /\ lines[2].bytes \in 0 .. ENTRY_BYTES + 6 * MAX_PROMPT_BYTES
  BY <1>1 DEF FilesInv, Kept, SizeInv
<1>4. line.bytes \in 0 .. ENTRY_BYTES + 6 * MAX_TEXT_BYTES
  <2>1. CASE answer.kind = "text"
    <3>1. answer.text \in ModelText /\ Size(answer.text) <= MAX_TEXT_BYTES
      BY <2>1, AnswersAssumption DEF SizeInv
    <3>2. line.bytes = ENTRY_BYTES + JsonSize(answer.text)
      BY <2>1 DEF TerminalLine, AssistantEntry, Entry
    <3>3. /\ Size(answer.text) \in Nat /\ JsonSize(answer.text) \in Nat
          /\ JsonSize(answer.text) <= 6 * Size(answer.text)
      BY <3>1, JsonAtMostSixfold
    <3> HIDE DEF line
    <3> QED
      BY <3>1, <3>2, <3>3, LineAssumption DEF MAX_TEXT_BYTES
  <2>2. CASE answer.kind # "text"
    <3>1. line.bytes = ENTRY_BYTES + 0
      BY <2>2 DEF TerminalLine, FailureEntry, Entry
    <3> HIDE DEF line
    <3> QED
      BY <3>1, LineAssumption DEF MAX_TEXT_BYTES
  <2> QED
    BY <2>1, <2>2
<1>5. FitsInSession(line, lines)
  <2>1. lines = <<lines[1], lines[2]>>
    BY <1>3, Shape
  <2>2. lines \in Seq({lines[1], lines[2], line}) /\ line \in {lines[1], lines[2], line}
    BY <2>1, Pairs
  <2> HIDE DEF lines, line
  <2> QED
    BY <1>3, <1>4, <2>2, TerminalFits
<1>6. lost' # "size"
  BY <1>2, <1>5 DEF AppendTerminal
<1> QED
  BY <1>1, <1>6 DEF SizeInv

(* A call that gives a text gives one of the answers. *)
LEMMA AnswerSteps ==
    ASSUME CallInv, SizeInv, CallModel
    PROVE  answer'.kind = "text" => answer'.text \in Answers
<1>1. answer' = answer \/ (\E e : answer' = Error(e)) \/ (\E t \in Answers : answer' = Text(t))
  BY DEF CallModel, CallNext, Enter, ReadRecord, Acquire, Reread, Refresh, Save, Send, Decode,
         Goto, Fail, FailUse
<1>2. \A e : Error(e).kind = "error"
  BY DEF Error
<1>3. \A t : Text(t).text = t
  BY DEF Text
<1> QED
  BY <1>1, <1>2, <1>3 DEF SizeInv

LEMMA SizeSteps ==
    ASSUME CallInv, StepInv, FilesInv, SizeInv, [Next]_cmdVars
    PROVE  SizeInv'
<1>1. CASE \/ Parse \/ Explain \/ Refuse \/ RunLogin \/ RunLocal \/ RunModelTest
           \/ ShowSession \/ ListSessions \/ UNCHANGED cmdVars
  <2>1. UNCHANGED <<file, session, lost, answer>> /\ (step' = "ask" => step = "ask")
    BY <1>1 DEF Parse, Explain, Refuse, RunLogin, RunLocal, RunModelTest, ShowSession,
                ListSessions, cmdVars, callVars, store, CallOver, End, EndWithText, EndWithError
  <2> QED
    BY <2>1 DEF SizeInv
<1>2. CASE CallModel
  <2>1. UNCHANGED <<file, session, lost, step>>
    BY <1>2 DEF CallModel, store
  <2> QED
    BY <1>2, <2>1, AnswerSteps DEF SizeInv
<1>3. CASE Touch
  BY <1>3 DEF Touch, SizeInv, callVars
<1>4. CASE NextCommand
  BY <1>4 DEF NextCommand, SizeInv, store, NoAnswer
<1> QED
  BY <1>1, <1>2, <1>3, <1>4, StartFits, FinishFits DEF Next

-----------------------------------------------------------------------------
(* What is rendered and what of it is visible are sequences joined one      *)
(* after the other, again by induction.                                     *)
Joins(t, f, k) == t = [m \in 0 .. k |-> IF m = 0 THEN <<>> ELSE t[m - 1] \o f[m]]

LEMMA JoinExists ==
    ASSUME NEW f, NEW k \in Nat
    PROVE  \E t : Joins(t, f, k)
<1> DEFINE T == {n \in Nat : \E t : Joins(t, f, n)}
<1>1. 0 \in T
  <2>1. Joins([m \in 0 .. 0 |-> <<>>], f, 0)
    BY DEF Joins
  <2> QED
    BY <2>1
<1>2. ASSUME NEW n \in Nat, n \in T
      PROVE  n + 1 \in T
  <2>1. PICK t : Joins(t, f, n)
    BY <1>2
  <2> DEFINE u == [i \in 0 .. n + 1 |-> IF i = n + 1 THEN t[n] \o f[n + 1] ELSE t[i]]
  <2>2. Joins(u, f, n + 1)
    <3>1. ASSUME NEW i \in 0 .. n + 1
          PROVE  u[i] = IF i = 0 THEN <<>> ELSE u[i - 1] \o f[i]
      <4>1. CASE i = n + 1
        <5>1. i # 0 /\ i - 1 = n /\ n \in 0 .. n + 1 /\ n # n + 1
          BY <4>1
        <5>2. u[n] = t[n] /\ u[i] = t[n] \o f[n + 1]
          BY <4>1, <5>1
        <5> QED
          BY <4>1, <5>1, <5>2
      <4>2. CASE i # n + 1
        <5>1. i \in 0 .. n /\ u[i] = t[i]
          BY <4>2
        <5>2. t[i] = IF i = 0 THEN <<>> ELSE t[i - 1] \o f[i]
          BY <5>1, <2>1 DEF Joins
        <5>3. i # 0 => u[i - 1] = t[i - 1]
          BY <4>2
        <5> QED
          BY <5>1, <5>2, <5>3
      <4> QED
        BY <4>1, <4>2
    <3> QED
      BY <3>1 DEF Joins
  <2> QED
    BY <2>2
<1> HIDE DEF T
<1>3. k \in T
  BY <1>1, <1>2, Induction
<1> QED
  BY <1>3 DEF T

LEMMA JoinedIs ==
    ASSUME NEW f, NEW k \in Nat
    PROVE  \E t : Joins(t, f, k) /\ Joined(f, k) = t[k]
<1> DEFINE t == CHOOSE t : Joins(t, f, k)
<1>1. Joins(t, f, k)
  BY JoinExists, Zenon
<1>2. Joined(f, k) = t[k]
  BY Zenon DEF Joined, Joins
<1> QED
  BY <1>1, <1>2

(* What is joined depends on the pieces that are joined. *)
LEMMA JoinedAgree ==
    ASSUME NEW f, NEW g, NEW k \in Nat, NEW t, NEW u, NEW j \in Nat, k <= j,
           Joins(t, f, k), Joins(u, g, j), \A i \in 1 .. k : f[i] = g[i]
    PROVE  t[k] = u[k]
<1>1. /\ \A n \in 0 .. k : t[n] = IF n = 0 THEN <<>> ELSE t[n - 1] \o f[n]
      /\ \A n \in 0 .. j : u[n] = IF n = 0 THEN <<>> ELSE u[n - 1] \o g[n]
  BY DEF Joins
<1> DEFINE T == {n \in Nat : n <= k => t[n] = u[n]}
<1>2. 0 \in T
  BY <1>1
<1>3. ASSUME NEW n \in Nat, n \in T
      PROVE  n + 1 \in T
  <2> SUFFICES ASSUME n + 1 <= k
               PROVE  t[n + 1] = u[n + 1]
    OBVIOUS
  <2>1. n + 1 \in 0 .. k /\ n + 1 \in 0 .. j /\ n + 1 \in 1 .. k /\ n + 1 # 0
        /\ (n + 1) - 1 = n /\ n <= k
    OBVIOUS
  <2>2. t[n + 1] = t[n] \o f[n + 1] /\ u[n + 1] = u[n] \o g[n + 1]
    BY <1>1, <2>1
  <2> QED
    BY <1>3, <2>1, <2>2
<1>4. k \in T
  <2> HIDE DEF T
  <2> QED
    BY <1>2, <1>3, Induction
<1> QED
  BY <1>4

LEMMA JoinedSame ==
    ASSUME NEW f, NEW g, NEW k \in Nat, \A i \in 1 .. k : f[i] = g[i]
    PROVE  Joined(f, k) = Joined(g, k)
<1>1. PICK t : Joins(t, f, k) /\ Joined(f, k) = t[k]
  BY JoinedIs
<1>2. PICK u : Joins(u, g, k) /\ Joined(g, k) = u[k]
  BY JoinedIs
<1>3. k <= k
  OBVIOUS
<1> QED
  BY <1>1, <1>2, <1>3, JoinedAgree

LEMMA JoinedNone ==
    ASSUME NEW f
    PROVE  Joined(f, 0) = <<>>
<1>1. PICK t : Joins(t, f, 0) /\ Joined(f, 0) = t[0]
  BY JoinedIs
<1> QED
  BY <1>1 DEF Joins

LEMMA JoinedOneMore ==
    ASSUME NEW f, NEW k \in Nat
    PROVE  Joined(f, k + 1) = Joined(f, k) \o f[k + 1]
<1>1. PICK t : Joins(t, f, k) /\ Joined(f, k) = t[k]
  BY JoinedIs
<1>2. PICK u : Joins(u, f, k + 1) /\ Joined(f, k + 1) = u[k + 1]
  <2>1. k + 1 \in Nat
    OBVIOUS
  <2> QED
    BY <2>1, JoinedIs
<1>3. t[k] = u[k]
  <2>1. k + 1 \in Nat /\ k <= k + 1
    OBVIOUS
  <2> QED
    BY <1>1, <1>2, <2>1, JoinedAgree
<1>4. u[k + 1] = u[k] \o f[k + 1]
  <2>1. k + 1 \in 0 .. k + 1 /\ k + 1 # 0 /\ (k + 1) - 1 = k
    OBVIOUS
  <2> QED
    BY <1>2, <2>1 DEF Joins
<1> QED
  BY <1>1, <1>2, <1>3, <1>4

-----------------------------------------------------------------------------
(* A run that the terminal can be given. *)
SafeRun ==
    {r \in [char : Char, escaped : BOOLEAN, count : Nat \ {0}] :
        /\ r.escaped <=> r.char \in {"VT", "control", "NEL", "C1", "bidi2", "bidi3"}
        /\ r.char # "CR"}
VisibleRun == Char \X Nat

LEMMA VisibleOne ==
    ASSUME NEW runs \in Seq(SafeRun), NEW r \in SafeRun
    PROVE  VisibleText(Append(runs, r)) = VisibleText(runs) \o Visible(r)
<1> DEFINE k == Len(runs)
           more == Append(runs, r)
           f == [i \in DOMAIN runs |-> Visible(runs[i])]
           g == [i \in DOMAIN more |-> Visible(more[i])]
<1>1. /\ k \in Nat /\ Len(more) = k + 1 /\ more[k + 1] = r
      /\ \A i \in 1 .. k : more[i] = runs[i]
      /\ DOMAIN runs = 1 .. k /\ DOMAIN more = 1 .. k + 1
  BY LenProperties, AppendProperties
<1>2. \A i \in 1 .. k : f[i] = g[i]
  BY <1>1
<1>3. g[k + 1] = Visible(r)
  BY <1>1
<1>4. VisibleText(runs) = Joined(f, k) /\ VisibleText(more) = Joined(g, k + 1)
  BY <1>1 DEF VisibleText
<1> HIDE DEF f, g, k, more
<1>5. Joined(f, k) = Joined(g, k) /\ Joined(g, k + 1) = Joined(g, k) \o g[k + 1]
  BY <1>1, <1>2, JoinedSame, JoinedOneMore
<1> QED
  BY <1>3, <1>4, <1>5 DEF more

(* A run of the text is written as one safe run with what is visible of it, *)
(* or not at all, and then nothing of it is.                                *)
LEMMA WrittenRun ==
    ASSUME NEW t \in ModelText, NEW i \in 1 .. Len(t)
    PROVE  \/ Written(t, i) = <<>> /\ Visible(t[i]) = <<>>
           \/ \E r \in SafeRun : Written(t, i) = <<r>> /\ Visible(r) = Visible(t[i])
<1> DEFINE c == t[i].char
           n == t[i].count
           taken == IF c = "CR" /\ (i < Len(t) /\ t[i + 1].char = "LF") THEN 1 ELSE 0
           r == [char |-> IF c = "CR" THEN "LF" ELSE c, escaped |-> ShouldEscape(c),
                 count |-> n - taken]
<1>1. c \in Char /\ n \in Nat \ {0}
  <2>1. t[i] \in [char : Char, count : Nat \ {0}]
    BY ElementOfSeq DEF ModelText
  <2> QED
    BY <2>1
<1>2. Written(t, i) = IF n - taken = 0 THEN <<>> ELSE <<r>>
  BY DEF Written
<1>3. "LF" \in Char /\ ShouldEscape(c) \in BOOLEAN
      /\ (ShouldEscape(c) <=> c \in {"VT", "control", "NEL", "C1", "bidi2", "bidi3"})
  BY DEF Char, Bytes, ShouldEscape, IsBidiControl
<1>4. CASE c = "CR"
  <2>1. Visible(t[i]) = <<>>
    BY <1>4 DEF Visible
  <2>2. CASE n - taken = 0
    BY <1>2, <2>1, <2>2
  <2>3. CASE n - taken # 0
    <3>1. n - taken \in Nat \ {0}
      BY <1>1, <2>3
    <3>2. r \in SafeRun
      BY <1>3, <1>4, <3>1 DEF SafeRun
    <3>3. Visible(r) = <<>>
      BY <1>4 DEF Visible
    <3> QED
      BY <1>2, <2>1, <2>3, <3>2, <3>3
  <2> QED
    BY <2>2, <2>3
<1>5. CASE c # "CR"
  <2>1. taken = 0 /\ n - taken = n /\ n # 0
    BY <1>1, <1>5
  <2>2. r.char = c /\ r.count = n
    BY <1>5, <2>1
  <2>3. r \in SafeRun
    BY <1>1, <1>3, <1>5, <2>1 DEF SafeRun
  <2>4. Visible(r) = Visible(t[i])
    <3> HIDE DEF r
    <3> QED
      BY <2>2 DEF Visible
  <2>5. Written(t, i) = <<r>>
    BY <1>2, <2>1
  <2> HIDE DEF r
  <2> QED
    BY <2>3, <2>4, <2>5
<1> QED
  BY <1>4, <1>5

LEMMA VisibleType ==
    ASSUME NEW r \in SafeRun
    PROVE  Visible(r) \in Seq(VisibleRun)
<1>1. r.char \in Char /\ r.count \in Nat
  BY DEF SafeRun
<1>2. Visible(r) \in {<<>>, <<<<r.char, r.count>>>>}
  BY DEF Visible
<1>3. <<r.char, r.count>> \in VisibleRun
  BY <1>1 DEF VisibleRun
<1>4. \A v \in VisibleRun : <<v>> \in Seq(VisibleRun)
  OBVIOUS
<1>5. <<>> \in Seq(VisibleRun)
  OBVIOUS
<1> QED
  BY <1>2, <1>3, <1>4, <1>5

(* The runs written for a text are safe and show what is visible of it. *)
LEMMA WrittenText ==
    ASSUME NEW t \in ModelText
    PROVE  LET runs == Joined([i \in DOMAIN t |-> Written(t, i)], Len(t))
           IN  /\ runs \in Seq(SafeRun)
               /\ VisibleText(runs) = VisibleText(t)
               /\ VisibleText(t) \in Seq(VisibleRun)
<1> DEFINE k == Len(t)
           f == [i \in DOMAIN t |-> Written(t, i)]
           g == [i \in DOMAIN t |-> Visible(t[i])]
           Right(n) == /\ Joined(f, n) \in Seq(SafeRun)
                       /\ Joined(g, n) \in Seq(VisibleRun)
                       /\ VisibleText(Joined(f, n)) = Joined(g, n)
           T == {n \in Nat : n <= k => Right(n)}
<1>1. k \in Nat /\ DOMAIN t = 1 .. k
  BY LenProperties DEF ModelText
<1>2. 0 \in T
  <2>1. Joined(f, 0) = <<>> /\ Joined(g, 0) = <<>>
    BY JoinedNone
  <2>2. VisibleText(<<>>) = <<>>
    <3>1. Len(<<>>) = 0
      BY EmptySeq
    <3> QED
      BY <3>1, JoinedNone DEF VisibleText
  <2> HIDE DEF f, g
  <2>3. Right(0)
    BY <2>1, <2>2, EmptySeq
  <2> QED
    BY <2>3
<1>3. ASSUME NEW n \in Nat, n \in T
      PROVE  n + 1 \in T
  <2> SUFFICES ASSUME n + 1 <= k
               PROVE  Right(n + 1)
    OBVIOUS
  <2>1. Right(n) /\ n + 1 \in 1 .. Len(t)
    BY <1>1, <1>3
  <2>2. f[n + 1] = Written(t, n + 1) /\ g[n + 1] = Visible(t[n + 1])
    BY <1>1, <2>1
  <2>3. /\ Joined(f, n + 1) = Joined(f, n) \o f[n + 1]
        /\ Joined(g, n + 1) = Joined(g, n) \o g[n + 1]
    BY JoinedOneMore
  <2> HIDE DEF f, g, T, k
  <2> DEFINE old == Joined(f, n)
             seen == Joined(g, n)
  <2>4. CASE f[n + 1] = <<>> /\ g[n + 1] = <<>>
    <3>1. Joined(f, n + 1) = old /\ Joined(g, n + 1) = seen
      BY <2>1, <2>3, <2>4, ConcatEmptySeq
    <3> QED
      BY <2>1, <3>1
  <2>5. CASE \E r \in SafeRun : f[n + 1] = <<r>> /\ Visible(r) = g[n + 1]
    <3>1. PICK r \in SafeRun : f[n + 1] = <<r>> /\ Visible(r) = g[n + 1]
      BY <2>5
    <3>2. Joined(f, n + 1) = Append(old, r)
      <4>1. old \in Seq(SafeRun)
        BY <2>1
      <4> HIDE DEF old
      <4>2. old \o <<r>> = Append(old, r)
        BY <4>1, AppendIsConcat
      <4> QED
        BY <2>3, <3>1, <4>2 DEF old
    <3>3. Joined(f, n + 1) \in Seq(SafeRun)
      BY <2>1, <3>2, AppendProperties
    <3>4. Joined(g, n + 1) \in Seq(VisibleRun)
      <4>1. seen \in Seq(VisibleRun) /\ Visible(r) \in Seq(VisibleRun)
        BY <2>1, VisibleType
      <4>2. Joined(g, n + 1) = seen \o Visible(r)
        BY <2>3, <3>1
      <4> HIDE DEF seen
      <4> QED
        BY <4>1, <4>2, ConcatProperties
    <3>5. VisibleText(Joined(f, n + 1)) = Joined(g, n + 1)
      BY <2>1, <2>3, <3>1, <3>2, VisibleOne
    <3> QED
      BY <3>3, <3>4, <3>5
  <2> QED
    BY <2>1, <2>2, <2>4, <2>5, WrittenRun
<1>4. k \in T
  <2> HIDE DEF T, k
  <2> QED
    BY <1>1, <1>2, <1>3, Induction
<1>5. Right(k)
  BY <1>1, <1>4
<1>6. VisibleText(t) = Joined(g, k)
  BY DEF VisibleText
<1> QED
  BY <1>5, <1>6

LEMMA RenderedIsPrinted ==
    ASSUME NEW t \in ModelText
    PROVE  Printed(Render(t), t)
<1> DEFINE runs == Joined([i \in DOMAIN t |-> Written(t, i)], Len(t))
           ended == runs # <<>> /\ runs[Len(runs)].char = "LF"
           all == Render(t)
<1>1. /\ runs \in Seq(SafeRun) /\ VisibleText(runs) = VisibleText(t)
      /\ VisibleText(t) \in Seq(VisibleRun)
  BY WrittenText
<1>2. all = IF ended THEN runs ELSE Append(runs, LineEnd)
  BY DEF Render
<1> HIDE DEF runs, all
<1>3. LineEnd \in SafeRun /\ Visible(LineEnd) = <<>>
  BY DEF LineEnd, SafeRun, Visible, Char, Bytes
<1>4. /\ all \in Seq(SafeRun)
      /\ all[Len(all)].char = "LF"
      /\ VisibleText(all) = VisibleText(t)
  <2>1. CASE ended
    BY <1>1, <1>2, <2>1
  <2>2. CASE ~ended
    <3>1. all = Append(runs, LineEnd)
      BY <1>2, <2>2
    <3>2. all \in Seq(SafeRun) /\ all[Len(all)] = LineEnd
      BY <1>1, <1>3, <3>1, AppendProperties
    <3>3. VisibleText(all) = VisibleText(runs) \o <<>>
      BY <1>1, <1>3, <3>1, VisibleOne
    <3>4. VisibleText(runs) \o <<>> = VisibleText(runs)
      BY <1>1, ConcatEmptySeq
    <3> QED
      BY <1>1, <3>2, <3>3, <3>4 DEF LineEnd
  <2> QED
    BY <2>1, <2>2
<1>5. \A i \in DOMAIN all : all[i] \in SafeRun
  <2>1. DOMAIN all = 1 .. Len(all)
    BY <1>4, LenProperties
  <2> QED
    BY <1>4, <2>1, ElementOfSeq
<1>6. \A r \in SafeRun : /\ r.escaped <=> r.char \in {"VT", "control", "NEL", "C1", "bidi2", "bidi3"}
                         /\ r.char # "CR" /\ r.count > 0
  BY DEF SafeRun
<1> HIDE DEF ended
<1> QED
  BY <1>4, <1>5, <1>6 DEF Printed, all

-----------------------------------------------------------------------------
(* What is on the standard output of a call that answered. *)
OutputInv ==
    (step = "done" /\ answer.kind = "text" /\ op.name \in {"AskOpenAiCodex",
                                                         "ModelTestOpenAiCodex"}) =>
        stdout.text = Render(answer.text)

LEMMA OutputSteps ==
    ASSUME CallInv, StepInv, OutputInv, [Next]_cmdVars
    PROVE  OutputInv'
<1>1. CASE UNCHANGED cmdVars
  BY <1>1 DEF cmdVars, callVars, output, OutputInv
<1>2. CASE Parse \/ Touch \/ NextCommand
  BY <1>2 DEF Parse, Touch, NextCommand, OutputInv
<1>3. CASE \/ Explain \/ Refuse \/ RunLogin \/ RunLocal \/ ShowSession \/ ListSessions
  <2>1. op'.name \notin {"AskOpenAiCodex", "ModelTestOpenAiCodex"}
    BY <1>3 DEF Explain, Refuse, RunLogin, RunLocal, ShowSession, ListSessions, Running
  <2> QED
    BY <2>1 DEF OutputInv
<1>4. CASE CallModel
  <2>1. step' # "done"
    BY <1>4 DEF CallModel, CallNext, ReadRecord, Acquire, Reread, Refresh, Save, Send, Decode,
                Running, StepInv
  <2> QED
    BY <2>1 DEF OutputInv
<1>5. CASE StartAsk
  <2>1. answer' = answer /\ step = "run" /\ op.name = "AskOpenAiCodex"
    BY <1>5 DEF StartAsk, callVars, Running
  <2>2. answer'.kind = "none"
    BY <2>1 DEF StepInv, CallInv, SecondBy, NoAnswer
  <2> QED
    BY <2>2 DEF OutputInv
<1>6. CASE RunModelTest
  <2> SUFFICES ASSUME answer'.kind = "text"
               PROVE  stdout'.text = Render(answer'.text)
    BY DEF OutputInv
  <2>1. answer' = answer
    BY <1>6 DEF RunModelTest, CallOver
  <2>2. \E out \in Write(Render(answer.text), "none") : stdout' = out
    BY <1>6, <2>1 DEF RunModelTest, End
  <2> QED
    BY <2>1, <2>2, WriteGives
<1>7. CASE FinishAsk
  <2> SUFFICES ASSUME answer'.kind = "text"
               PROVE  stdout'.text = Render(answer'.text)
    BY DEF OutputInv
  <2>1. answer' = answer
    BY <1>7 DEF FinishAsk, CallOver
  <2>2. answer # Error("InvalidPrompt")
    BY <2>1 DEF Error
  <2>3. \E out \in Write(Render(answer.text), "none") : stdout' = out
    BY <1>7, <2>1, <2>2 DEF FinishAsk, End
  <2> QED
    BY <2>1, <2>3, WriteGives
<1> QED
  BY <1>1, <1>2, <1>3, <1>4, <1>5, <1>6, <1>7 DEF Next

-----------------------------------------------------------------------------
CommandInv ==
    /\ CallTypeOK /\ CallInv
    /\ StepInv /\ FirstInv /\ ExitInv
    /\ FilesInv /\ ToldInv /\ ShownAsTold
    /\ SizeInv /\ OutputInv

LEMMA CommandStart == CmdInit => CommandInv
<1> SUFFICES ASSUME CmdInit
             PROVE  CommandInv
  OBVIOUS
<1> USE DEF CmdInit, CallInit
<1>1. CallTypeOK
  <2>1. elapsed \in Nat /\ left \in Nat /\ contacted \in BOOLEAN
    OBVIOUS
  <2>2. requests \in Seq(Answered)
    OBVIOUS
  <2> QED
    BY <2>1, <2>2 DEF CallTypeOK
<1>2. CallInv
  BY DEF CallInv, FirstBy
<1>3. StepInv
  BY DEF StepInv, Asking, Do
<1>4. FirstInv /\ ExitInv /\ ToldInv /\ ShownAsTold /\ OutputInv
  BY DEF FirstInv, ExitInv, ToldInv, ShownAsTold, OutputInv
<1>5. FilesInv
  BY DEF FilesInv, NoFile
<1>6. SizeInv
  BY DEF SizeInv, NoAnswer
<1> QED
  BY <1>1, <1>2, <1>3, <1>4, <1>5, <1>6 DEF CommandInv

(* The inductive invariant, for every set of arguments, ids and answers and *)
(* any number of commands.                                                  *)
THEOREM CommandInvariant == Spec => []CommandInv
<1>1. CommandInv /\ [Next]_cmdVars => CommandInv'
  BY CallSteps, StepSteps, FirstSteps, ExitSteps, FilesSteps, ToldSteps, ShownSteps,
     SizeSteps, OutputSteps
     DEF CommandInv
<1> QED
  BY <1>1, CommandStart, PTL DEF Spec

(* A model call sends at most two requests, the second only after a 401,    *)
(* and gives a text only if the last one was accepted.                      *)
THEOREM OneAnswerPerCall == Spec => []OneAnswer
<1>1. CommandInv => OneAnswer
  <2> SUFFICES ASSUME CommandInv
               PROVE  OneAnswer
    OBVIOUS
  <2>1. AtMostTwo
    BY DEF CommandInv, CallInv, AtMostTwo, Refused, Accepted
  <2>2. answer.kind = "text" => Accepted
    BY DEF CommandInv, CallInv, NoAnswer, Error
  <2>3. Len(requests) <= 2
    <3>1. PICK n : n = Len(requests)
      OBVIOUS
    <3>2. n = 0 \/ n = 1 \/ n = 2
      BY <2>1, <3>1 DEF AtMostTwo
    <3>3. n <= 2
      BY <3>2
    <3> QED
      BY <3>1, <3>3
  <2>4. Len(requests) = 2 => requests[1] = "Unauthorized"
    BY <2>1 DEF AtMostTwo
  <2> QED
    BY <2>2, <2>3, <2>4 DEF OneAnswer, Accepted
<1> QED
  BY <1>1, CommandInvariant, PTL

(* A model call ends within the 430 seconds of the README, whichever waits, *)
(* renewals and requests take their time.                                   *)
THEOREM CallsAreBounded == Spec => []WithinBudget
<1>1. CommandInv => WithinBudget
  BY DEF CommandInv, CallTypeOK, CallInv, FirstBy, SecondBy, WithinBudget
<1> QED
  BY <1>1, CommandInvariant, PTL

(* The arguments mean what the help texts say, and a prompt the command     *)
(* line has accepted the model adapter does not refuse.                     *)
THEOREM ArgumentsMean == Spec => []OnlyAsDocumented
<1>1. CommandInv => OnlyAsDocumented
  <2> SUFFICES ASSUME CommandInv, step # "start"
               PROVE  /\ \A name \in DOMAIN Usage : op.name = name <=> args = Usage[name]
                      /\ op.name = "SessionShow" <=>
                             \E i \in Id : args = <<"session", "show", i>> /\ op.argument = i
                      /\ op.name = "AskOpenAiCodex" =>
                             /\ args = <<"ask", "openai-codex", op.argument>>
                             /\ answer # Error("InvalidPrompt")
    BY DEF OnlyAsDocumented
  <2>1. op = ParseCommand(args) /\ args \in FirstArguments \cup LaterArguments
    BY DEF CommandInv, StepInv
  <2>2. op.name = "AskOpenAiCodex" => answer # Error("InvalidPrompt")
    <3>1. phase = "idle" => answer = NoAnswer
      BY DEF CommandInv, CallInv, SecondBy
    <3>2. NoAnswer # Error("InvalidPrompt")
      BY DEF NoAnswer, Error
    <3> QED
      BY <3>1, <3>2 DEF CommandInv, StepInv, Asking
  <2>3. PICK S : args \in Seq(S)
    BY <2>1, ArgumentsAssumption
  <2>4. /\ \A name \in DOMAIN Usage : op.name = name <=> args = Usage[name]
        /\ op.name = "SessionShow" <=>
               \E i \in Id : args = <<"session", "show", i>> /\ op.argument = i
        /\ op.name = "AskOpenAiCodex" => args = <<"ask", "openai-codex", op.argument>>
    BY <2>1, <2>3, CommandMeans
  <2> QED
    BY <2>2, <2>4
<1> QED
  BY <1>1, CommandInvariant, PTL

(* The exit status is 0 exactly for a success that reached its streams, a   *)
(* failure has said why, and with status 2 nobody was contacted and a first *)
(* command left no file.                                                    *)
THEOREM ExitStatusIsTrue == Spec => []ExitStatusTrue
<1>1. CommandInv => ExitStatusTrue
  <2> SUFFICES ASSUME CommandInv, step = "done"
               PROVE  ExitStatusTrue
    BY DEF ExitStatusTrue
  <2>1. ASSUME exit = "2", commands = 1, NEW i \in Id
        PROVE  file[i] = NoFile
    BY <2>1 DEF CommandInv, ExitInv, FirstInv, Asking
  <2>2. ExitInv
    BY DEF CommandInv
  <2> QED
    BY <2>1, <2>2 DEF ExitInv, ExitStatusTrue
<1> QED
  BY <1>1, CommandInvariant, PTL

(* A session file shows nothing its writer did not write, whatever happened *)
(* to it, and everything whole if nothing did.                              *)
THEOREM FilesShowWhatWasWritten == Spec => []ReadsOnlyWritten
<1>1. CommandInv => ReadsOnlyWritten
  <2> SUFFICES ASSUME CommandInv, NEW i \in Id, file[i] # NoFile
               PROVE  /\ ShownIsWritten(i)
                      /\ ~touched /\ Len(wrote[i]) >= 2 => Project(file[i], i).result = "shown"
    BY DEF ReadsOnlyWritten, ShownIsWritten
  <2>1. (touched /\ ShownIsWritten(i)) \/ Kept(i) \/ Begun(i)
    BY DEF CommandInv, FilesInv
  <2>3. CASE Begun(i)
    BY <2>3, BegunShows
  <2>2. CASE Kept(i)
    BY <2>2, KeptShows, WrittenShown DEF Kept
  <2> QED
    BY <2>1, <2>2, <2>3
<1> QED
  BY <1>1, CommandInvariant, PTL

(* What session show says of the last ask is what the ask told.             *)
THEOREM AsksAreShownAsTold == Spec => []ShownAsTold
<1>1. CommandInv => ShownAsTold
  BY DEF CommandInv
<1> QED
  BY <1>1, CommandInvariant, PTL

(* No prompt and no answer within the limits of the command line and of the *)
(* decoder is too large for the session format, whichever characters they   *)
(* are made of and however JSON escapes them.                               *)
THEOREM LimitsAreEnough == Spec => []LimitsSuffice
<1>1. CommandInv => LimitsSuffice
  BY DEF CommandInv, SizeInv, LimitsSuffice
<1> QED
  BY <1>1, CommandInvariant, PTL

(* Model text of any length reaches the terminal without a control or bidi  *)
(* character but LF and TAB, ends its line, and loses nothing but the CR of *)
(* line ends.                                                               *)
THEOREM TextIsSafe == Spec => []TerminalSafe
<1>1. CommandInv => TerminalSafe
  <2> SUFFICES ASSUME CommandInv, step = "done", answer.kind = "text",
                      op.name \in {"AskOpenAiCodex", "ModelTestOpenAiCodex"}
               PROVE  Printed(stdout.text, answer.text)
    BY DEF TerminalSafe
  <2>1. stdout.text = Render(answer.text)
    BY DEF CommandInv, OutputInv
  <2>2. answer.text \in ModelText
    BY AnswersAssumption DEF CommandInv, SizeInv
  <2> QED
    BY <2>1, <2>2, RenderedIsPrinted
<1> QED
  BY <1>1, CommandInvariant, PTL
=============================================================================
