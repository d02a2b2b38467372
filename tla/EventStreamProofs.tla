--------------------------- MODULE EventStreamProofs ---------------------------
(***************************************************************************)
(* What the event decoder promises, for all lines, letters and limits and  *)
(* responses of any length: that the answer is the one the whole response  *)
(* makes, however it is cut into chunks, and that each limit holds to the  *)
(* byte.                                                                   *)
(***************************************************************************)
EXTENDS EventStream, SequenceTheorems, WellFoundedInduction, TLAPS

-----------------------------------------------------------------------------
TypeOK ==
    /\ lines \in Seq(Line) /\ line \in Line
    /\ pending \in Nat /\ unread \in Nat
    /\ response_bytes \in Nat /\ event_bytes \in Nat
    /\ event_data \in Seq(Event) /\ data_bytes \in Nat
    /\ deltas \in Seq(Letter) /\ output_item \in Seq(Letter) /\ done \in Seq(Letter)
    /\ result \in Results /\ text \in Seq(Letter)

(* The buffers hold what the lines received so far make of the event that   *)
(* is not complete, and no byte is counted twice or missed.                 *)
sofar == Whole(lines)
FrameInv ==
    /\ event_data = sofar.data /\ event_bytes = sofar.size
    /\ sofar.bytes + pending + unread = response_bytes

BoundInv ==
    /\ response_bytes <= RESPONSE_BYTES
    /\ event_bytes + pending <= EVENT_BYTES
    /\ data_bytes <= event_bytes
    /\ Len(deltas) <= TEXT_BYTES /\ Len(output_item) <= TEXT_BYTES /\ Len(done) <= TEXT_BYTES

(* The texts kept are those of the events so far. *)
TextInv ==
    /\ deltas = Streamed(sofar.events)
    /\ IsLatest(output_item, sofar.events, Items(sofar.events))
    /\ IsLatest(done, sofar.events, Dones(sofar.events))

(* What each result was returned for. *)
ResultInv ==
    /\ result # "Text" => Ends(sofar.events) = {} /\ text = <<>>
    /\ result = "Text" =>
           /\ Ends(sofar.events) = {Len(sofar.events)}
           /\ sofar.events[Len(sofar.events)].type = "completed"
           /\ text = Answer /\ Answer # <<>>
    /\ result \in {"EmptyText", "ModelFailed"} => line.field = "blank" /\ event_data # <<>>
    /\ result = "EmptyText" => Received.type = "completed" /\ Answer = <<>>
    /\ result = "ModelFailed" => Received.type = "failed"
    /\ LimitJustified

StreamInv == TypeOK /\ FrameInv /\ BoundInv /\ TextInv /\ ResultInv

-----------------------------------------------------------------------------
(* Least numbers, and induction over a set of numbers. *)
LEMMA Least ==
    ASSUME NEW T, T \subseteq Nat, T # {}
    PROVE  \E x \in T : \A y \in T : x <= y
<1> DEFINE R == OpToRel(<, Nat)
<1>1. IsWellFoundedOn(R, Nat)
  BY NatLessThanWellFounded
<1>2. \A x, y \in Nat : <<y, x>> \in R <=> y < x
  BY DEF OpToRel
<1> HIDE DEF R
<1>3. PICK x \in T : \A y \in T : ~ (<<y, x>> \in R)
  BY <1>1, WFMin
<1>4. ASSUME NEW y \in T PROVE x <= y
  <2>1. x \in Nat /\ y \in Nat
    OBVIOUS
  <2>2. ~ (y < x)
    BY <1>2, <1>3, <2>1
  <2> QED
    BY <2>1, <2>2
<1> QED
  BY <1>4

LEMMA Induction ==
    ASSUME NEW T, NEW k \in Nat, 0 \in T,
           \A n \in Nat : n \in T /\ n < k => n + 1 \in T
    PROVE  0 .. k \subseteq T
<1> DEFINE U == {n \in 0 .. k : n \notin T}
<1> SUFFICES ASSUME U # {} PROVE FALSE
  OBVIOUS
<1>0. U \subseteq Nat
  OBVIOUS
<1>1. PICK m \in U : \A y \in U : m <= y
  <2> HIDE DEF U
  <2> QED
    BY <1>0, Least
<1>2. m # 0 /\ m - 1 \in Nat /\ m - 1 < k /\ m - 1 \notin U
  BY <1>1
<1> QED
  BY <1>1, <1>2

-----------------------------------------------------------------------------
(* Whole and Streamed are recursive functions: they exist, and one more     *)
(* line or event takes one more step.                                       *)
Wholes(f, ls, k) ==
    f = [n \in 0 .. k |-> IF n = 0 THEN Nothing ELSE Take(f[n - 1], ls[n])]

LEMMA WholeExists ==
    ASSUME NEW ls, NEW k \in Nat
    PROVE  \E f : Wholes(f, ls, k)
<1> DEFINE T == {n \in Nat : \E f : Wholes(f, ls, n)}
<1>1. 0 \in T
  <2>1. Wholes([n \in 0 .. 0 |-> Nothing], ls, 0)
    BY DEF Wholes
  <2> QED
    BY <2>1
<1>2. ASSUME NEW n \in Nat, n \in T
      PROVE  n + 1 \in T
  <2>1. PICK f : Wholes(f, ls, n)
    BY <1>2
  <2> DEFINE g == [i \in 0 .. n + 1 |-> IF i = n + 1 THEN Take(f[n], ls[n + 1]) ELSE f[i]]
  <2>2. ASSUME NEW i \in 0 .. n + 1
        PROVE  g[i] = IF i = 0 THEN Nothing ELSE Take(g[i - 1], ls[i])
    <3>1. CASE i = n + 1
      BY <3>1
    <3>2. CASE i # n + 1
      <4>1. i \in 0 .. n /\ g[i] = f[i]
        BY <3>2
      <4>2. f[i] = IF i = 0 THEN Nothing ELSE Take(f[i - 1], ls[i])
        BY <4>1, <2>1 DEF Wholes
      <4>3. i # 0 => g[i - 1] = f[i - 1]
        BY <3>2
      <4> QED
        BY <4>1, <4>2, <4>3
    <3> QED
      BY <3>1, <3>2
  <2>3. Wholes(g, ls, n + 1)
    BY <2>2 DEF Wholes
  <2> QED
    BY <2>3
<1> HIDE DEF T
<1>3. k \in T
  BY <1>1, <1>2, Induction
<1> QED
  BY <1>3 DEF T

LEMMA WholeIs ==
    ASSUME NEW ls, Len(ls) \in Nat
    PROVE  \E f : Wholes(f, ls, Len(ls)) /\ Whole(ls) = f[Len(ls)]
<1> DEFINE f == CHOOSE f : Wholes(f, ls, Len(ls))
<1>1. Wholes(f, ls, Len(ls))
  BY WholeExists, Zenon
<1>2. Whole(ls) = f[Len(ls)]
  BY Zenon DEF Whole, Wholes
<1> QED
  BY <1>1, <1>2

LEMMA WholeOfNone == Whole(<<>>) = Nothing
<1>1. Len(<<>>) = 0
  BY EmptySeq
<1>2. PICK f : Wholes(f, <<>>, 0) /\ Whole(<<>>) = f[0]
  BY <1>1, WholeIs
<1> QED
  BY <1>2 DEF Wholes

LEMMA WholeOfOneMore ==
    ASSUME NEW S, NEW ls \in Seq(S), NEW l \in S
    PROVE  Whole(Append(ls, l)) = Take(Whole(ls), l)
<1> DEFINE k == Len(ls)
           ms == Append(ls, l)
<1>1. k \in Nat /\ Len(ms) = k + 1 /\ ms[k + 1] = l /\ \A i \in 1 .. k : ms[i] = ls[i]
  BY LenProperties, AppendProperties
<1>2. PICK f : Wholes(f, ls, k) /\ Whole(ls) = f[k]
  BY <1>1, WholeIs
<1> HIDE DEF k, ms
<1>3. PICK g : Wholes(g, ms, k + 1) /\ Whole(ms) = g[k + 1]
  <2>1. Len(ms) \in Nat
    BY <1>1
  <2>2. PICK g : Wholes(g, ms, Len(ms)) /\ Whole(ms) = g[Len(ms)]
    BY <2>1, WholeIs
  <2> QED
    BY <1>1, <2>2
<1>4. /\ \A n \in 0 .. k : f[n] = IF n = 0 THEN Nothing ELSE Take(f[n - 1], ls[n])
      /\ \A n \in 0 .. k + 1 : g[n] = IF n = 0 THEN Nothing ELSE Take(g[n - 1], ms[n])
  BY <1>2, <1>3 DEF Wholes
<1> DEFINE T == {n \in Nat : f[n] = g[n]}
<1>5. 0 \in T
  BY <1>1, <1>4
<1>6. ASSUME NEW n \in Nat, n \in T, n < k
      PROVE  n + 1 \in T
  <2>1. n + 1 \in 0 .. k /\ n + 1 \in 0 .. k + 1 /\ n + 1 \in 1 .. k /\ n + 1 # 0
        /\ (n + 1) - 1 = n
    BY <1>1, <1>6
  <2>2. f[n + 1] = Take(f[n], ls[n + 1]) /\ g[n + 1] = Take(g[n], ms[n + 1])
    BY <1>4, <2>1
  <2> QED
    BY <1>1, <1>6, <2>1, <2>2
<1>7. f[k] = g[k]
  <2> HIDE DEF T
  <2>1. k \in Nat
    BY <1>1
  <2>2. 0 .. k \subseteq T
    BY <2>1, <1>5, <1>6, Induction
  <2>3. k \in T
    BY <2>1, <2>2
  <2> QED
    BY <2>3 DEF T
<1>8. g[k + 1] = Take(g[k], l)
  <2>1. k + 1 \in 0 .. k + 1 /\ k + 1 # 0 /\ (k + 1) - 1 = k
    BY <1>1
  <2> QED
    BY <1>1, <1>4, <2>1
<1> QED
  BY <1>2, <1>3, <1>7, <1>8 DEF ms

Streams(f, es, k) ==
    f = [n \in 0 .. k |-> IF n = 0 THEN <<>> ELSE Extend(f[n - 1], es[n])]

LEMMA StreamedExists ==
    ASSUME NEW es, NEW k \in Nat
    PROVE  \E f : Streams(f, es, k)
<1> DEFINE T == {n \in Nat : \E f : Streams(f, es, n)}
<1>1. 0 \in T
  <2>1. Streams([n \in 0 .. 0 |-> <<>>], es, 0)
    BY DEF Streams
  <2> QED
    BY <2>1
<1>2. ASSUME NEW n \in Nat, n \in T
      PROVE  n + 1 \in T
  <2>1. PICK f : Streams(f, es, n)
    BY <1>2
  <2> DEFINE g == [i \in 0 .. n + 1 |-> IF i = n + 1 THEN Extend(f[n], es[n + 1]) ELSE f[i]]
  <2>2. ASSUME NEW i \in 0 .. n + 1
        PROVE  g[i] = IF i = 0 THEN <<>> ELSE Extend(g[i - 1], es[i])
    <3>1. CASE i = n + 1
      BY <3>1
    <3>2. CASE i # n + 1
      <4>1. i \in 0 .. n /\ g[i] = f[i]
        BY <3>2
      <4>2. f[i] = IF i = 0 THEN <<>> ELSE Extend(f[i - 1], es[i])
        BY <4>1, <2>1 DEF Streams
      <4>3. i # 0 => g[i - 1] = f[i - 1]
        BY <3>2
      <4> QED
        BY <4>1, <4>2, <4>3
    <3> QED
      BY <3>1, <3>2
  <2>3. Streams(g, es, n + 1)
    BY <2>2 DEF Streams
  <2> QED
    BY <2>3
<1> HIDE DEF T
<1>3. k \in T
  BY <1>1, <1>2, Induction
<1> QED
  BY <1>3 DEF T

LEMMA StreamedIs ==
    ASSUME NEW es, Len(es) \in Nat
    PROVE  \E f : Streams(f, es, Len(es)) /\ Streamed(es) = f[Len(es)]
<1> DEFINE f == CHOOSE f : Streams(f, es, Len(es))
<1>1. Streams(f, es, Len(es))
  BY StreamedExists, Zenon
<1>2. Streamed(es) = f[Len(es)]
  BY Zenon DEF Streamed, Streams
<1> QED
  BY <1>1, <1>2

LEMMA StreamedOfNone == Streamed(<<>>) = <<>>
<1>1. Len(<<>>) = 0
  BY EmptySeq
<1>2. PICK f : Streams(f, <<>>, 0) /\ Streamed(<<>>) = f[0]
  BY <1>1, StreamedIs
<1> QED
  BY <1>2 DEF Streams

LEMMA StreamedOfOneMore ==
    ASSUME NEW S, NEW es \in Seq(S), NEW e \in S
    PROVE  Streamed(Append(es, e)) = Extend(Streamed(es), e)
<1> DEFINE k == Len(es)
           ds == Append(es, e)
<1>1. k \in Nat /\ Len(ds) = k + 1 /\ ds[k + 1] = e /\ \A i \in 1 .. k : ds[i] = es[i]
  BY LenProperties, AppendProperties
<1>2. PICK f : Streams(f, es, k) /\ Streamed(es) = f[k]
  BY <1>1, StreamedIs
<1> HIDE DEF k, ds
<1>3. PICK g : Streams(g, ds, k + 1) /\ Streamed(ds) = g[k + 1]
  <2>1. Len(ds) \in Nat
    BY <1>1
  <2>2. PICK g : Streams(g, ds, Len(ds)) /\ Streamed(ds) = g[Len(ds)]
    BY <2>1, StreamedIs
  <2> QED
    BY <1>1, <2>2
<1>4. /\ \A n \in 0 .. k : f[n] = IF n = 0 THEN <<>> ELSE Extend(f[n - 1], es[n])
      /\ \A n \in 0 .. k + 1 : g[n] = IF n = 0 THEN <<>> ELSE Extend(g[n - 1], ds[n])
  BY <1>2, <1>3 DEF Streams
<1> DEFINE T == {n \in Nat : f[n] = g[n]}
<1>5. 0 \in T
  BY <1>1, <1>4
<1>6. ASSUME NEW n \in Nat, n \in T, n < k
      PROVE  n + 1 \in T
  <2>1. n + 1 \in 0 .. k /\ n + 1 \in 0 .. k + 1 /\ n + 1 \in 1 .. k /\ n + 1 # 0
        /\ (n + 1) - 1 = n
    BY <1>1, <1>6
  <2>2. f[n + 1] = Extend(f[n], es[n + 1]) /\ g[n + 1] = Extend(g[n], ds[n + 1])
    BY <1>4, <2>1
  <2> QED
    BY <1>1, <1>6, <2>1, <2>2
<1>7. f[k] = g[k]
  <2> HIDE DEF T
  <2>1. k \in Nat
    BY <1>1
  <2>2. 0 .. k \subseteq T
    BY <2>1, <1>5, <1>6, Induction
  <2>3. k \in T
    BY <2>1, <2>2
  <2> QED
    BY <2>3 DEF T
<1>8. g[k + 1] = Extend(g[k], e)
  <2>1. k + 1 \in 0 .. k + 1 /\ k + 1 # 0 /\ (k + 1) - 1 = k
    BY <1>1
  <2> QED
    BY <1>1, <1>4, <2>1
<1> QED
  BY <1>2, <1>3, <1>7, <1>8 DEF ds

-----------------------------------------------------------------------------
(* What one more event makes of the texts. *)

LEMMA LatestStays ==
    ASSUME NEW es \in Seq(Event), NEW e \in Event, NEW t, NEW C \in SUBSET (1 .. Len(es))
    PROVE  IsLatest(t, es, C) <=> IsLatest(t, Append(es, e), C)
<1>1. \A i \in C : Append(es, e)[i] = es[i]
  BY AppendProperties
<1> QED
  BY <1>1 DEF IsLatest

LEMMA LatestIsNew ==
    ASSUME NEW es \in Seq(Event), NEW e \in Event, NEW C \in SUBSET (1 .. Len(es))
    PROVE  IsLatest(e.text, Append(es, e), C \cup {Len(es) + 1})
<1>1. Append(es, e)[Len(es) + 1] = e /\ Len(es) \in Nat
  BY AppendProperties, LenProperties
<1>2. \A j \in C \cup {Len(es) + 1} : j <= Len(es) + 1
  BY <1>1
<1> QED
  BY <1>1, <1>2 DEF IsLatest

LEMMA ChosenOfOneMore ==
    ASSUME NEW es \in Seq(Event), NEW e \in Event
    PROVE  /\ Items(es) \subseteq 1 .. Len(es) /\ Dones(es) \subseteq 1 .. Len(es)
           /\ Ends(es) \subseteq 1 .. Len(es)
           /\ Len(es) \in Nat /\ Append(es, e) \in Seq(Event)
           /\ Len(Append(es, e)) = Len(es) + 1 /\ Append(es, e)[Len(es) + 1] = e
           /\ Items(Append(es, e)) = Items(es) \cup
                  IF e.type = "item" /\ e.text # <<>> THEN {Len(es) + 1} ELSE {}
           /\ Dones(Append(es, e)) = Dones(es) \cup
                  IF e.type = "done" THEN {Len(es) + 1} ELSE {}
           /\ Ends(Append(es, e)) = Ends(es) \cup
                  IF e.type \in {"completed", "failed"} THEN {Len(es) + 1} ELSE {}
<1> DEFINE k == Len(es)
           fs == Append(es, e)
<1>1. /\ k \in Nat /\ fs \in Seq(Event) /\ Len(fs) = k + 1 /\ fs[k + 1] = e
      /\ DOMAIN es = 1 .. k /\ DOMAIN fs = 1 .. k + 1
      /\ \A i \in 1 .. k : fs[i] = es[i]
  BY LenProperties, AppendProperties
<1> HIDE DEF k, fs
<1>2. 1 .. k + 1 = (1 .. k) \cup {k + 1}
  BY <1>1
<1>3. Items(es) \subseteq 1 .. k /\ Dones(es) \subseteq 1 .. k /\ Ends(es) \subseteq 1 .. k
  BY <1>1 DEF Items, Dones, Ends
<1>4. Items(fs) = Items(es) \cup IF e.type = "item" /\ e.text # <<>> THEN {k + 1} ELSE {}
  BY <1>1, <1>2 DEF Items
<1>5. Dones(fs) = Dones(es) \cup IF e.type = "done" THEN {k + 1} ELSE {}
  BY <1>1, <1>2 DEF Dones
<1>6. Ends(fs) = Ends(es) \cup IF e.type \in {"completed", "failed"} THEN {k + 1} ELSE {}
  BY <1>1, <1>2 DEF Ends
<1> QED
  BY <1>1, <1>3, <1>4, <1>5, <1>6 DEF k, fs

(* The texts as the decoder keeps them are the texts of the events. *)
Keep(es, d, o, t) ==
    /\ d = Streamed(es)
    /\ IsLatest(o, es, Items(es)) /\ IsLatest(t, es, Dones(es))

LEMMA TextsOfOneMore ==
    ASSUME NEW es \in Seq(Event), NEW e \in Event, NEW d, NEW o, NEW t, Keep(es, d, o, t)
    PROVE  LET fs == Append(es, e) IN
           /\ e.type \notin {"delta", "item", "done"} => Keep(fs, d, o, t)
           /\ e.type = "delta" => Keep(fs, d \o e.text, o, t)
           /\ e.type = "item" => Keep(fs, d, IF e.text = <<>> THEN o ELSE e.text, t)
           /\ e.type = "done" => Keep(fs, d, o, e.text)
<1> DEFINE fs == Append(es, e)
<1>1. Streamed(fs) = Extend(Streamed(es), e)
  BY StreamedOfOneMore
<1>2. /\ \A x : IsLatest(x, es, Items(es)) <=> IsLatest(x, fs, Items(es))
      /\ \A x : IsLatest(x, es, Dones(es)) <=> IsLatest(x, fs, Dones(es))
      /\ IsLatest(e.text, fs, Items(es) \cup {Len(es) + 1})
      /\ IsLatest(e.text, fs, Dones(es) \cup {Len(es) + 1})
  BY ChosenOfOneMore, LatestStays, LatestIsNew
<1>3. /\ Items(fs) = Items(es) \cup
             IF e.type = "item" /\ e.text # <<>> THEN {Len(es) + 1} ELSE {}
      /\ Dones(fs) = Dones(es) \cup IF e.type = "done" THEN {Len(es) + 1} ELSE {}
  BY ChosenOfOneMore
<1> HIDE DEF fs
<1> DEFINE i == Items(fs)
           j == Dones(fs)
<1>4. (e.type = "item" /\ e.text # <<>>) \/ i = Items(es)
  BY <1>3
<1>5. e.type = "item" /\ e.text # <<>> => i = Items(es) \cup {Len(es) + 1}
  BY <1>3
<1>6. e.type = "done" \/ j = Dones(es)
  BY <1>3
<1>7. e.type = "done" => j = Dones(es) \cup {Len(es) + 1}
  BY <1>3
<1> HIDE DEF i, j
<1>8. CASE e.type \notin {"delta", "item", "done"}
  BY <1>1, <1>2, <1>4, <1>6, <1>8 DEF Keep, Extend, i, j, fs
<1>9. CASE e.type = "delta"
  BY <1>1, <1>2, <1>4, <1>6, <1>9 DEF Keep, Extend, i, j, fs
<1>10. CASE e.type = "item"
  BY <1>1, <1>2, <1>4, <1>5, <1>6, <1>10 DEF Keep, Extend, i, j, fs
<1>11. CASE e.type = "done"
  BY <1>1, <1>2, <1>4, <1>6, <1>7, <1>11 DEF Keep, Extend, i, j, fs
<1> QED
  BY <1>8, <1>9, <1>10, <1>11

(* What is kept is what the code answers with. *)
LEMMA KeptIsAnswer ==
    ASSUME NEW es, NEW d, NEW o, NEW t, Keep(es, d, o, t)
    PROVE  IsAnswer(IF o # <<>> THEN o ELSE IF d # <<>> THEN d ELSE t, es)
<1>1. CASE Items(es) = {}
  <2>1. o = <<>>
    BY <1>1 DEF Keep, IsLatest
  <2> QED
    BY <1>1, <2>1 DEF Keep, IsAnswer
<1>2. CASE Items(es) # {}
  <2>1. PICK i \in Items(es) : (\A j \in Items(es) : j <= i) /\ o = es[i].text
    BY <1>2 DEF Keep, IsLatest
  <2>2. o # <<>>
    BY <2>1 DEF Items
  <2> QED
    BY <1>2, <2>2 DEF Keep, IsAnswer
<1> QED
  BY <1>1, <1>2

-----------------------------------------------------------------------------
(* Types. *)
Summed == [data : Seq(Event), size : Nat, bytes : Nat, events : Seq(Event)]

LEMMA LineType ==
    ASSUME NEW l \in Line
    PROVE  /\ l.field \in {"data", "other", "blank", "binary"} /\ l.event \in Event
           /\ l.size \in Nat /\ l.cr \in BOOLEAN
           /\ Width(l) \in Nat /\ l.size <= Width(l) /\ Width(l) <= l.size + 1
           /\ l.field = "blank" <=> l.size = 0
           /\ l.field = "data" => l.size > 1
<1>1. /\ l.field \in {"data", "other", "blank", "binary"} /\ l.event \in Event
      /\ l.size \in Nat /\ l.cr \in BOOLEAN
  BY LineAssumption
<1>2. Width(l) \in Nat /\ l.size <= Width(l) /\ Width(l) <= l.size + 1
  BY <1>1 DEF Width
<1> QED
  BY <1>1, <1>2, LineAssumption

LEMMA ParseType ==
    ASSUME NEW data \in Seq(Event)
    PROVE  Parse(data) \in Event /\ Parse(data).type \in EventType
           /\ Parse(data).text \in Seq(Letter)
           /\ Parse(data).type \notin {"head", "tail"}
<1>1. Malformed \in Event /\ Malformed.type = "malformed"
  BY EmptySeq DEF Malformed, Event, EventType
<1>2. Len(data) = 1 => data[1] \in Event
  BY ElementOfSeq
<1>3. ASSUME Len(data) = 2
      PROVE  data[2] \in Event
  <2>1. 2 \in 1 .. Len(data)
    BY <1>3
  <2> QED
    BY <2>1, ElementOfSeq
<1>4. \A t \in Seq(Letter) : [type |-> "delta", text |-> t] \in Event
  BY DEF Event, EventType
<1>5. \A e \in Event : e.type \in EventType /\ e.text \in Seq(Letter)
  BY DEF Event
<1>6. CASE Len(data) = 1 /\ data[1].type \notin {"head", "tail"}
  BY <1>2, <1>5, <1>6 DEF Parse
<1>7. CASE Len(data) = 2 /\ data[1].type = "head" /\ data[2].type = "tail"
  BY <1>3, <1>4, <1>5, <1>7 DEF Parse
<1>8. CASE ~ (Len(data) = 1 /\ data[1].type \notin {"head", "tail"})
           /\ ~ (Len(data) = 2 /\ data[1].type = "head" /\ data[2].type = "tail")
  <2>1. Parse(data) = Malformed
    BY <1>8 DEF Parse
  <2> QED
    BY <2>1, <1>1, <1>5
<1> QED
  BY <1>6, <1>7, <1>8

LEMMA TakeType ==
    ASSUME NEW w \in Summed, NEW l \in Line
    PROVE  /\ Take(w, l) \in Summed
           /\ Take(w, l).bytes = w.bytes + Width(l) + 1
           /\ l.field = "blank" => Take(w, l).data = <<>> /\ Take(w, l).size = 0
           /\ l.field # "blank" =>
                  Take(w, l).size = w.size + l.size + 1 /\ Take(w, l).events = w.events
           /\ l.field = "data" => Take(w, l).data = Append(w.data, l.event)
           /\ l.field \in {"other", "binary"} => Take(w, l).data = w.data
           /\ l.field = "blank" /\ w.data = <<>> => Take(w, l).events = w.events
           /\ l.field = "blank" /\ w.data # <<>> =>
                  Take(w, l).events = Append(w.events, Parse(w.data))
<1>1. w.data \in Seq(Event) /\ w.size \in Nat /\ w.bytes \in Nat /\ w.events \in Seq(Event)
  BY DEF Summed
<1>2. l.size \in Nat /\ Width(l) \in Nat /\ l.event \in Event
  BY LineType
<1>3. Parse(w.data) \in Event
  BY <1>1, ParseType
<1>4. /\ Append(w.data, l.event) \in Seq(Event)
      /\ Append(w.events, Parse(w.data)) \in Seq(Event)
      /\ <<>> \in Seq(Event)
  BY <1>1, <1>2, <1>3, AppendProperties, EmptySeq
<1>5. /\ w.size + l.size + 1 \in Nat /\ w.bytes + Width(l) + 1 \in Nat
  BY <1>1, <1>2
<1>6. Take(w, l) \in Summed
  BY <1>1, <1>4, <1>5 DEF Take, Summed
<1> QED
  BY <1>6 DEF Take

LEMMA WholeType ==
    ASSUME NEW ls \in Seq(Line)
    PROVE  Whole(ls) \in Summed
<1> DEFINE k == Len(ls)
<1>1. k \in Nat /\ \A i \in 1 .. k : ls[i] \in Line
  BY LenProperties, ElementOfSeq
<1>2. PICK f : Wholes(f, ls, k) /\ Whole(ls) = f[k]
  BY <1>1, WholeIs
<1> HIDE DEF k
<1>3. \A n \in 0 .. k : f[n] = IF n = 0 THEN Nothing ELSE Take(f[n - 1], ls[n])
  BY <1>2 DEF Wholes
<1> DEFINE T == {n \in Nat : f[n] \in Summed}
<1>4. 0 \in T
  <2>1. Nothing \in Summed
    BY EmptySeq DEF Nothing, Summed
  <2>2. f[0] = Nothing
    BY <1>1, <1>3
  <2> QED
    BY <2>1, <2>2
<1>5. ASSUME NEW n \in Nat, n \in T, n < k
      PROVE  n + 1 \in T
  <2>1. n + 1 \in 0 .. k /\ n + 1 \in 1 .. k /\ n + 1 # 0 /\ (n + 1) - 1 = n
    BY <1>1, <1>5
  <2>2. f[n + 1] = Take(f[n], ls[n + 1]) /\ ls[n + 1] \in Line
    BY <1>1, <1>3, <2>1
  <2>3. f[n + 1] \in Summed
    BY <1>5, <2>2, TakeType
  <2> QED
    BY <2>3
<1> HIDE DEF T
<1>6. 0 .. k \subseteq T
  BY <1>1, <1>4, <1>5, Induction
<1> QED
  BY <1>1, <1>2, <1>6 DEF T

-----------------------------------------------------------------------------
(* The steps.  Until a result is returned there is none. *)

LEMMA Sofar ==
    ASSUME TypeOK
    PROVE  /\ sofar \in Summed /\ sofar.data \in Seq(Event) /\ sofar.size \in Nat
           /\ sofar.bytes \in Nat /\ sofar.events \in Seq(Event)
BY WholeType DEF TypeOK, sofar, Summed

LEMMA Ongoing ==
    ASSUME StreamInv, result = "none"
    PROVE  Ends(sofar.events) = {} /\ text = <<>>
BY DEF StreamInv, ResultInv

(* Nothing but the result changes when decode fails. *)
Halts(value) ==
    /\ result = "none" /\ result' = value
    /\ UNCHANGED <<lines, line, pending, unread, counters, texts, text>>

LEMMA HaltInv ==
    ASSUME StreamInv, NEW value \in Results \ {"none", "Text"}, Halts(value),
           value \in {"EmptyText", "ModelFailed"} => line.field = "blank" /\ event_data # <<>>,
           value = "EmptyText" => Received.type = "completed" /\ Answer = <<>>,
           value = "ModelFailed" => Received.type = "failed",
           value = "LimitExceeded" =>
               \/ response_bytes + BUFFER > RESPONSE_BYTES
               \/ Whole(lines).size + line.size + 1 > EVENT_BYTES
               \/ LET events == Whole(Append(lines, line)).events
                  IN  \/ Len(Streamed(events)) > TEXT_BYTES
                      \/ \E i \in DOMAIN events : Len(events[i].text) > TEXT_BYTES
    PROVE  StreamInv'
<1> USE DEF Halts, counters, texts
<1>1. TypeOK'
  BY DEF StreamInv, TypeOK
<1>2. FrameInv' /\ BoundInv' /\ TextInv'
  BY DEF StreamInv, FrameInv, BoundInv, TextInv, sofar
<1>3. LimitJustified'
  BY DEF LimitJustified
<1>4. ResultInv'
  BY <1>3 DEF StreamInv, ResultInv, sofar, Answer, Received
<1> QED
  BY <1>1, <1>2, <1>4 DEF StreamInv

LEMMA ReadInv ==
    ASSUME StreamInv, Read
    PROVE  StreamInv'
<1>1. PICK n \in 1 .. BUFFER : /\ response_bytes + n <= RESPONSE_BYTES
                               /\ response_bytes' = response_bytes + n
                               /\ unread' = n
  BY DEF Read
<1>2. n \in Nat /\ unread = 0 /\ result = "none" /\ response_bytes \in Nat /\ pending \in Nat
  BY LimitsAssumption DEF Read, StreamInv, TypeOK
<1>3. UNCHANGED <<lines, line, pending, event_bytes, event_data, data_bytes,
                  deltas, output_item, done, result, text>>
  BY DEF Read, texts
<1>4. TypeOK'
  BY <1>1, <1>2, <1>3 DEF StreamInv, TypeOK
<1>5. FrameInv'
  <2>1. sofar.bytes \in Nat
    BY Sofar DEF StreamInv
  <2>2. sofar' = sofar
    BY <1>3 DEF sofar
  <2> QED
    BY <1>1, <1>2, <1>3, <2>1, <2>2 DEF StreamInv, FrameInv
<1>6. BoundInv' /\ TextInv'
  BY <1>1, <1>3 DEF StreamInv, BoundInv, TextInv, sofar
<1>7. ResultInv'
  BY <1>2, <1>3 DEF StreamInv, ResultInv, LimitJustified, sofar
<1> QED
  BY <1>4, <1>5, <1>6, <1>7 DEF StreamInv

LEMMA PushInv ==
    ASSUME StreamInv, Push
    PROVE  StreamInv'
<1>1. /\ UNCHANGED <<lines, line, response_bytes, event_bytes, event_data, data_bytes,
                     deltas, output_item, done, result, text>>
      /\ pending' = pending + 1 /\ unread' = unread - 1 /\ unread > 0
      /\ event_bytes + pending + 1 <= EVENT_BYTES /\ result = "none"
  BY DEF Push, counters, texts
<1>2. pending \in Nat /\ unread \in Nat /\ event_bytes \in Nat /\ response_bytes \in Nat
  BY DEF StreamInv, TypeOK
<1>3. TypeOK'
  BY <1>1, <1>2 DEF StreamInv, TypeOK
<1>4. FrameInv'
  <2>1. sofar.bytes \in Nat
    BY Sofar DEF StreamInv
  <2>2. sofar' = sofar
    BY <1>1 DEF sofar
  <2> QED
    BY <1>1, <1>2, <2>1, <2>2 DEF StreamInv, FrameInv
<1>5. BoundInv' /\ TextInv'
  BY <1>1, <1>2, LimitsAssumption DEF StreamInv, BoundInv, TextInv, sofar
<1>6. ResultInv'
  BY <1>1 DEF StreamInv, ResultInv, LimitJustified, sofar
<1> QED
  BY <1>3, <1>4, <1>5, <1>6 DEF StreamInv

(* A whole line was taken: what was counted as pending is counted in it. *)
LEMMA LineTaken ==
    ASSUME StreamInv, AtLineEnd, Fits, NextLine, response_bytes' = response_bytes,
           event_data' = Take(sofar, line).data, event_bytes' = Take(sofar, line).size
    PROVE  /\ sofar' = Take(sofar, line) /\ FrameInv'
           /\ lines' \in Seq(Line) /\ line' \in Line /\ pending' \in Nat /\ unread' \in Nat
           /\ response_bytes' \in Nat /\ event_bytes' \in Nat /\ event_data' \in Seq(Event)
           /\ event_bytes' + pending' <= EVENT_BYTES
<1>1. /\ lines \in Seq(Line) /\ line \in Line /\ pending = Width(line) /\ unread \in Nat \ {0}
      /\ response_bytes \in Nat /\ event_bytes \in Nat /\ event_bytes = sofar.size
      /\ sofar.bytes + pending + unread = response_bytes
  BY DEF StreamInv, TypeOK, FrameInv, AtLineEnd
<1>2. /\ lines' = Append(lines, line) /\ line' \in Line /\ pending' = 0 /\ unread' = unread - 1
  BY DEF NextLine
<1>3. sofar' = Take(sofar, line)
  BY <1>1, <1>2, WholeOfOneMore DEF sofar
<1>4. lines' \in Seq(Line)
  BY <1>1, <1>2, AppendProperties
<1>5. sofar \in Summed /\ sofar.bytes \in Nat /\ Width(line) \in Nat /\ line.size \in Nat
  BY <1>1, Sofar, LineType DEF StreamInv
<1>6. /\ Take(sofar, line) \in Summed
      /\ Take(sofar, line).bytes = sofar.bytes + Width(line) + 1
      /\ Take(sofar, line).size \in {0, sofar.size + line.size + 1}
  BY <1>1, <1>5, TakeType
<1>7. event_bytes' \in Nat /\ event_data' \in Seq(Event)
  BY <1>6 DEF Summed
<1>8. Take(sofar, line).bytes + pending' + unread' = response_bytes
  BY <1>1, <1>2, <1>5, <1>6
<1>9. event_bytes' + pending' <= EVENT_BYTES
  <2>1. event_bytes + line.size + 1 <= EVENT_BYTES
    BY DEF Fits
  <2> QED
    BY <1>1, <1>2, <1>5, <1>6, <1>7, <2>1, LimitsAssumption
<1> QED
  BY <1>1, <1>2, <1>3, <1>4, <1>7, <1>8, <1>9 DEF FrameInv

LEMMA SkipLineInv ==
    ASSUME StreamInv, SkipLine
    PROVE  StreamInv'
<1>1. /\ UNCHANGED <<response_bytes, event_data, data_bytes, deltas, output_item, done,
                     result, text>>
      /\ event_bytes' = event_bytes + line.size + 1
      /\ line.field = "other" /\ AtLineEnd /\ Fits /\ NextLine /\ result = "none"
  BY DEF SkipLine, texts, AtLineEnd
<1>2. line \in Line /\ sofar \in Summed
  BY Sofar DEF StreamInv, TypeOK
<1>3. /\ Take(sofar, line).data = sofar.data /\ Take(sofar, line).events = sofar.events
      /\ Take(sofar, line).size = sofar.size + line.size + 1
  BY <1>1, <1>2, TakeType
<1>4. /\ sofar' = Take(sofar, line) /\ FrameInv'
      /\ lines' \in Seq(Line) /\ line' \in Line /\ pending' \in Nat /\ unread' \in Nat
      /\ response_bytes' \in Nat /\ event_bytes' \in Nat /\ event_data' \in Seq(Event)
      /\ event_bytes' + pending' <= EVENT_BYTES
  BY <1>1, <1>3, LineTaken DEF StreamInv, FrameInv
<1>5. TypeOK'
  BY <1>1, <1>4 DEF StreamInv, TypeOK
<1>6. BoundInv'
  <2>1. line.size \in Nat /\ data_bytes \in Nat /\ event_bytes \in Nat
    BY <1>2, LineType DEF StreamInv, TypeOK
  <2>2. data_bytes' <= event_bytes'
    BY <1>1, <2>1 DEF StreamInv, BoundInv
  <2> QED
    BY <1>1, <1>4, <2>2 DEF StreamInv, BoundInv
<1>7. TextInv'
  BY <1>1, <1>3, <1>4 DEF StreamInv, TextInv
<1>8. ResultInv'
  BY <1>1, <1>3, <1>4, Ongoing DEF ResultInv, LimitJustified
<1> QED
  BY <1>4, <1>5, <1>6, <1>7, <1>8 DEF StreamInv

(* The joined data never has more bytes than the lines of its event. *)
LEMMA JoinedFits ==
    ASSUME StreamInv, line.field = "data"
    PROVE  /\ Joined \in Nat /\ Joined <= event_bytes + line.size
           /\ line.size \in Nat /\ event_bytes \in Nat
<1>1. /\ line.size \in Nat /\ line.size > 1 /\ data_bytes \in Nat /\ event_bytes \in Nat
      /\ data_bytes <= event_bytes
  BY LineType DEF StreamInv, TypeOK, BoundInv
<1>2. \/ Joined = data_bytes + (line.size - 1) + 0
      \/ Joined = data_bytes + (line.size - 1) + 1
  BY DEF Joined
<1> QED
  BY <1>1, <1>2

LEMMA DataLineInv ==
    ASSUME StreamInv, DataLine
    PROVE  StreamInv'
<1>1. /\ UNCHANGED <<response_bytes, deltas, output_item, done, result, text>>
      /\ event_bytes' = event_bytes + line.size + 1
      /\ data_bytes' = Joined /\ event_data' = Append(event_data, line.event)
      /\ line.field = "data" /\ AtLineEnd /\ Fits /\ NextLine /\ result = "none"
  BY DEF DataLine, texts, AtLineEnd
<1>2. line \in Line /\ sofar \in Summed
  BY Sofar DEF StreamInv, TypeOK
<1>3. /\ Take(sofar, line).data = Append(sofar.data, line.event)
      /\ Take(sofar, line).events = sofar.events
      /\ Take(sofar, line).size = sofar.size + line.size + 1
  BY <1>1, <1>2, TakeType
<1>4. /\ sofar' = Take(sofar, line) /\ FrameInv'
      /\ lines' \in Seq(Line) /\ line' \in Line /\ pending' \in Nat /\ unread' \in Nat
      /\ response_bytes' \in Nat /\ event_bytes' \in Nat /\ event_data' \in Seq(Event)
      /\ event_bytes' + pending' <= EVENT_BYTES
  BY <1>1, <1>3, LineTaken DEF StreamInv, FrameInv
<1>5. data_bytes' \in Nat /\ data_bytes' <= event_bytes'
  BY <1>1, JoinedFits
<1>6. TypeOK'
  BY <1>1, <1>4, <1>5 DEF StreamInv, TypeOK
<1>7. BoundInv' /\ TextInv'
  BY <1>1, <1>3, <1>4, <1>5 DEF StreamInv, BoundInv, TextInv
<1>8. ResultInv'
  BY <1>1, <1>3, <1>4, Ongoing DEF ResultInv, LimitJustified
<1> QED
  BY <1>4, <1>6, <1>7, <1>8 DEF StreamInv

-----------------------------------------------------------------------------
(* A blank line ends an event, which joins the events received. *)
LEMMA EventTaken ==
    ASSUME StreamInv, AtEvent, EventDone, NextLine, response_bytes' = response_bytes
    PROVE  /\ FrameInv' /\ result = "none"
           /\ lines' \in Seq(Line) /\ line' \in Line /\ pending' \in Nat /\ unread' \in Nat
           /\ response_bytes' \in Nat /\ event_bytes' \in Nat /\ event_data' \in Seq(Event)
           /\ data_bytes' \in Nat
           /\ event_bytes' + pending' <= EVENT_BYTES /\ data_bytes' <= event_bytes'
           /\ event_data = <<>> => sofar'.events = sofar.events
           /\ event_data # <<>> => sofar'.events = Append(sofar.events, Received)
<1>1. AtLineEnd /\ Fits /\ line.field = "blank" /\ result = "none"
  BY DEF AtEvent, AtLineEnd
<1>2. line \in Line /\ sofar \in Summed /\ event_data = sofar.data
  BY Sofar DEF StreamInv, TypeOK, FrameInv
<1>3. event_data' = <<>> /\ data_bytes' = 0 /\ event_bytes' = 0
  BY DEF EventDone
<1>4. /\ Take(sofar, line).data = <<>> /\ Take(sofar, line).size = 0
      /\ event_data = <<>> => Take(sofar, line).events = sofar.events
      /\ event_data # <<>> => Take(sofar, line).events = Append(sofar.events, Received)
  BY <1>1, <1>2, TakeType DEF Received
<1>5. /\ sofar' = Take(sofar, line) /\ FrameInv'
      /\ lines' \in Seq(Line) /\ line' \in Line /\ pending' \in Nat /\ unread' \in Nat
      /\ response_bytes' \in Nat /\ event_bytes' \in Nat /\ event_data' \in Seq(Event)
      /\ event_bytes' + pending' <= EVENT_BYTES
  BY <1>1, <1>3, <1>4, LineTaken
<1> QED
  BY <1>1, <1>3, <1>4, <1>5

LEMMA ReceivedType ==
    ASSUME StreamInv
    PROVE  /\ Received \in Event /\ Received.text \in Seq(Letter)
           /\ Received.type \in EventType \ {"head", "tail"}
           /\ sofar.events \in Seq(Event)
           /\ Keep(sofar.events, deltas, output_item, done)
BY ParseType, Sofar DEF StreamInv, TypeOK, Received, TextInv, Keep

(* An event that decides nothing: the texts it leaves are those kept. *)
LEMMA DispatchInv ==
    ASSUME StreamInv, AtEvent, EventDone, NextLine,
           UNCHANGED <<response_bytes, result, text>>,
           deltas' \in Seq(Letter) /\ output_item' \in Seq(Letter) /\ done' \in Seq(Letter),
           /\ Len(deltas') <= TEXT_BYTES /\ Len(output_item') <= TEXT_BYTES
           /\ Len(done') <= TEXT_BYTES,
           IF event_data = <<>> THEN UNCHANGED texts
           ELSE /\ Received.type \notin {"completed", "failed"}
                /\ Keep(Append(sofar.events, Received), deltas', output_item', done')
    PROVE  StreamInv'
<1>1. /\ FrameInv' /\ result = "none"
      /\ lines' \in Seq(Line) /\ line' \in Line /\ pending' \in Nat /\ unread' \in Nat
      /\ response_bytes' \in Nat /\ event_bytes' \in Nat /\ event_data' \in Seq(Event)
      /\ data_bytes' \in Nat
      /\ event_bytes' + pending' <= EVENT_BYTES /\ data_bytes' <= event_bytes'
      /\ event_data = <<>> => sofar'.events = sofar.events
      /\ event_data # <<>> => sofar'.events = Append(sofar.events, Received)
  BY EventTaken
<1>2. TypeOK'
  BY <1>1 DEF StreamInv, TypeOK
<1>3. BoundInv'
  BY <1>1 DEF StreamInv, BoundInv
<1>4. Keep(sofar'.events, deltas', output_item', done') /\ Ends(sofar'.events) = {}
  <2>1. CASE event_data = <<>>
    BY <1>1, <2>1, ReceivedType, Ongoing DEF texts
  <2>2. CASE event_data # <<>>
    <3>1. Ends(Append(sofar.events, Received)) = Ends(sofar.events) \cup {}
      BY <2>2, ReceivedType, ChosenOfOneMore
    <3>2. Ends(sofar.events) = {}
      BY <1>1, Ongoing
    <3> QED
      BY <1>1, <2>2, <3>1, <3>2
  <2> QED
    BY <2>1, <2>2
<1>5. TextInv'
  BY <1>4 DEF Keep, TextInv
<1>6. ResultInv'
  BY <1>1, <1>4, Ongoing DEF ResultInv, LimitJustified
<1> QED
  BY <1>1, <1>2, <1>3, <1>5, <1>6 DEF StreamInv

LEMMA EventInv ==
    ASSUME StreamInv, NoData \/ Delta \/ OutputItem \/ TextDone \/ Ignored
    PROVE  StreamInv'
<1>1. /\ deltas \in Seq(Letter) /\ output_item \in Seq(Letter) /\ done \in Seq(Letter)
      /\ Len(deltas) <= TEXT_BYTES /\ Len(output_item) <= TEXT_BYTES /\ Len(done) <= TEXT_BYTES
  BY DEF StreamInv, TypeOK, BoundInv
<1>2. /\ Received \in Event /\ Received.text \in Seq(Letter)
      /\ sofar.events \in Seq(Event)
      /\ Keep(sofar.events, deltas, output_item, done)
  BY ReceivedType
<1> DEFINE fs == Append(sofar.events, Received)
<1>3. /\ Received.type \notin {"delta", "item", "done"} => Keep(fs, deltas, output_item, done)
      /\ Received.type = "delta" => Keep(fs, deltas \o Received.text, output_item, done)
      /\ Received.type = "item" =>
             Keep(fs, deltas, IF Received.text = <<>> THEN output_item ELSE Received.text, done)
      /\ Received.type = "done" => Keep(fs, deltas, output_item, Received.text)
  BY <1>2, TextsOfOneMore
<1> HIDE DEF fs
<1>4. CASE NoData
  BY <1>1, <1>4, DispatchInv DEF NoData, texts
<1>5. CASE Delta
  <2>1. /\ deltas \o Received.text \in Seq(Letter)
        /\ Len(deltas \o Received.text) = Len(deltas) + Len(Received.text)
    BY <1>1, <1>2, ConcatProperties
  <2> QED
    BY <1>1, <1>3, <1>5, <2>1, DispatchInv DEF Delta, fs
<1>6. CASE OutputItem
  BY <1>1, <1>2, <1>3, <1>6, DispatchInv DEF OutputItem, fs
<1>7. CASE TextDone
  BY <1>1, <1>2, <1>3, <1>7, DispatchInv DEF TextDone, fs
<1>8. CASE Ignored
  BY <1>1, <1>3, <1>8, DispatchInv DEF Ignored, texts, fs
<1> QED
  BY <1>4, <1>5, <1>6, <1>7, <1>8

LEMMA CompletedInv ==
    ASSUME StreamInv, Completed
    PROVE  StreamInv'
<1>1. /\ AtEvent /\ event_data # <<>> /\ Received.type = "completed" /\ Answer # <<>>
      /\ result' = "Text" /\ text' = Answer /\ EventDone /\ NextLine
      /\ UNCHANGED <<response_bytes, deltas, output_item, done>>
  BY DEF Completed, texts
<1>2. /\ FrameInv' /\ result = "none"
      /\ lines' \in Seq(Line) /\ line' \in Line /\ pending' \in Nat /\ unread' \in Nat
      /\ response_bytes' \in Nat /\ event_bytes' \in Nat /\ event_data' \in Seq(Event)
      /\ data_bytes' \in Nat
      /\ event_bytes' + pending' <= EVENT_BYTES /\ data_bytes' <= event_bytes'
      /\ sofar'.events = Append(sofar.events, Received)
  BY <1>1, EventTaken
<1>3. /\ Received \in Event /\ sofar.events \in Seq(Event)
      /\ Keep(sofar.events, deltas, output_item, done)
  BY ReceivedType
<1>4. Answer \in Seq(Letter) /\ Answer' = Answer
  BY <1>1 DEF StreamInv, TypeOK, Answer
<1>5. TypeOK'
  BY <1>1, <1>2, <1>4 DEF StreamInv, TypeOK, Results
<1>6. BoundInv'
  BY <1>1, <1>2 DEF StreamInv, BoundInv
<1>7. TextInv'
  <2>1. Keep(Append(sofar.events, Received), deltas, output_item, done)
    BY <1>1, <1>3, TextsOfOneMore
  <2> QED
    BY <1>1, <1>2, <2>1 DEF Keep, TextInv
<1>8. ResultInv'
  <2>1. Ends(sofar.events) = {}
    BY <1>2, Ongoing
  <2>2. /\ Len(sofar'.events) = Len(sofar.events) + 1
        /\ sofar'.events[Len(sofar.events) + 1] = Received
        /\ Ends(sofar'.events) = Ends(sofar.events) \cup {Len(sofar.events) + 1}
    <3> DEFINE fs == Append(sofar.events, Received)
    <3>1. /\ Len(fs) = Len(sofar.events) + 1 /\ fs[Len(sofar.events) + 1] = Received
          /\ Ends(fs) = Ends(sofar.events) \cup {Len(sofar.events) + 1}
      BY <1>1, <1>3, ChosenOfOneMore
    <3> QED
      BY <1>2, <3>1
  <2>3. LimitJustified'
    BY <1>1 DEF LimitJustified
  <2> QED
    BY <1>1, <1>4, <2>1, <2>2, <2>3 DEF ResultInv
<1> QED
  BY <1>2, <1>5, <1>6, <1>7, <1>8 DEF StreamInv

-----------------------------------------------------------------------------
(* The refusals. *)
LEMMA LimitInv ==
    ASSUME StreamInv, ResponseTooLong \/ LineTooLong \/ LineFeedTooLong \/ TextTooLong
    PROVE  StreamInv'
<1>1. Halts("LimitExceeded") /\ "LimitExceeded" \in Results \ {"none", "Text"}
  BY DEF ResponseTooLong, LineTooLong, LineFeedTooLong, TextTooLong, AtEvent, AtLineEnd,
         Halts, Return, Results
<1>2. /\ line \in Line /\ line.size \in Nat /\ Width(line) \in Nat /\ Width(line) <= line.size + 1
      /\ pending \in Nat /\ event_bytes \in Nat /\ event_bytes = Whole(lines).size
      /\ EVENT_BYTES \in Nat
  BY LineType, LimitsAssumption DEF StreamInv, TypeOK, FrameInv, sofar
<1>3. CASE ResponseTooLong
  BY <1>1, <1>3, HaltInv DEF ResponseTooLong
<1>4. CASE LineTooLong
  <2>1. pending < Width(line) /\ event_bytes + pending + 1 > EVENT_BYTES
    BY <1>4 DEF LineTooLong
  <2>2. Whole(lines).size + line.size + 1 > EVENT_BYTES
    BY <1>2, <2>1
  <2> QED
    BY <1>1, <2>2, HaltInv
<1>5. CASE LineFeedTooLong
  <2>1. \/ ~ (event_bytes + line.size + 1 <= EVENT_BYTES)
        \/ line.field = "data" /\ ~ (Joined <= EVENT_BYTES)
    BY <1>5 DEF LineFeedTooLong, Fits
  <2>2. line.field = "data" => Joined \in Nat /\ Joined <= event_bytes + line.size
    BY JoinedFits
  <2>3. event_bytes + line.size + 1 > EVENT_BYTES
    BY <1>2, <2>1, <2>2
  <2> QED
    BY <1>1, <1>2, <2>3, HaltInv
<1>6. CASE TextTooLong
  <2> DEFINE fs == Whole(Append(lines, line)).events
  <2>1. fs = Append(sofar.events, Received)
    <3>1. Whole(Append(lines, line)) = Take(sofar, line)
      BY WholeOfOneMore DEF StreamInv, TypeOK, sofar
    <3>2. /\ line.field = "blank" /\ event_data # <<>> /\ event_data = sofar.data
          /\ sofar \in Summed
      BY <1>6, Sofar DEF TextTooLong, AtEvent, StreamInv, FrameInv
    <3>3. Take(sofar, line).events = Append(sofar.events, Received)
      BY <1>2, <3>2, TakeType DEF Received
    <3> QED
      BY <3>1, <3>3
  <2>2. /\ Received \in Event /\ Received.text \in Seq(Letter) /\ sofar.events \in Seq(Event)
        /\ deltas = Streamed(sofar.events) /\ deltas \in Seq(Letter)
    BY ReceivedType DEF StreamInv, TextInv, TypeOK
  <2>3. /\ Len(sofar.events) + 1 \in DOMAIN fs
        /\ fs[Len(sofar.events) + 1] = Received
    BY <2>1, <2>2, ChosenOfOneMore, LenProperties
  <2>4. Received.type = "delta" => Streamed(fs) = deltas \o Received.text
    BY <2>1, <2>2, StreamedOfOneMore DEF Extend
  <2>5. Len(deltas \o Received.text) = Len(deltas) + Len(Received.text)
    BY <2>2, ConcatProperties
  <2> HIDE DEF fs
  <2>6. \/ Len(Streamed(fs)) > TEXT_BYTES
        \/ \E i \in DOMAIN fs : Len(fs[i].text) > TEXT_BYTES
    BY <1>6, <2>3, <2>4, <2>5 DEF TextTooLong
  <2> QED
    BY <1>1, <2>6, HaltInv DEF fs
<1> QED
  BY <1>3, <1>4, <1>5, <1>6

LEMMA FailureInv ==
    ASSUME StreamInv, ReadFails \/ NotText \/ FailedEvent \/ OutOfTime
    PROVE  StreamInv'
<1>1. \/ Halts("Invalid") \/ Halts("TimedOut")
      \/ Halts("ModelFailed") /\ AtEvent /\ event_data # <<>> /\ Received.type = "failed"
      \/ /\ Halts("EmptyText") /\ AtEvent /\ event_data # <<>>
         /\ Received.type = "completed" /\ Answer = <<>>
  BY DEF ReadFails, NotText, FailedEvent, OutOfTime, AtEvent, AtLineEnd, Halts, Return
<1>2. {"Invalid", "TimedOut", "ModelFailed", "EmptyText"} \subseteq Results \ {"none", "Text"}
  BY DEF Results
<1> QED
  BY <1>1, <1>2, HaltInv DEF AtEvent

LEMMA StreamNextInv ==
    ASSUME StreamInv, [Next]_vars
    PROVE  StreamInv'
<1>1. CASE UNCHANGED vars
  BY <1>1 DEF vars, framing, counters, texts, StreamInv, TypeOK, FrameInv, BoundInv, TextInv,
              ResultInv, LimitJustified, sofar, Answer, Received
<1> QED
  BY <1>1, ReadInv, PushInv, SkipLineInv, DataLineInv, EventInv, CompletedInv, LimitInv,
     FailureInv DEF Next, Decode

LEMMA StreamInitInv == Init => StreamInv
<1> SUFFICES ASSUME Init
             PROVE  StreamInv
  OBVIOUS
<1>1. Len(<<>>) = 0 /\ <<>> \in Seq(Line) /\ <<>> \in Seq(Event) /\ <<>> \in Seq(Letter)
  BY EmptySeq
<1>2. sofar = Nothing
  BY WholeOfNone DEF Init, sofar
<1>3. sofar.data = <<>> /\ sofar.size = 0 /\ sofar.bytes = 0 /\ sofar.events = <<>>
  BY <1>2 DEF Nothing
<1>4. TypeOK
  BY <1>1 DEF Init, TypeOK, Results
<1>5. FrameInv
  BY <1>3 DEF Init, FrameInv
<1>6. BoundInv
  BY <1>1, LimitsAssumption DEF Init, BoundInv
<1>7. Items(<<>>) = {} /\ Dones(<<>>) = {} /\ Ends(<<>>) = {}
  BY DEF Items, Dones, Ends
<1>8. TextInv
  BY <1>3, <1>7, StreamedOfNone DEF Init, TextInv, IsLatest
<1>9. ResultInv
  BY <1>3, <1>7 DEF Init, ResultInv, LimitJustified
<1> QED
  BY <1>4, <1>5, <1>6, <1>8, <1>9 DEF StreamInv

-----------------------------------------------------------------------------
(* The invariant holds in every state of decode (sse.rs). *)
THEOREM StreamInvariant == Spec => []StreamInv
<1>1. Init => StreamInv
  BY StreamInitInv
<1>2. StreamInv /\ [Next]_vars => StreamInv'
  BY StreamNextInv
<1> QED
  BY <1>1, <1>2, PTL DEF Spec

(* Nothing that decode buffers outgrows its limit, every byte it read is    *)
(* charged, and it refuses a response as too long only when it is.          *)
THEOREM LimitsAreExact == Spec => []LimitsExact
<1>1. StreamInv => LimitsExact
  BY DEF StreamInv, FrameInv, BoundInv, ResultInv, LimitsExact, Bounded, sofar
<1> QED
  BY <1>1, StreamInvariant, PTL

(* What decode returns has at most text_bytes bytes, as the size of a       *)
(* session record assumes of an answer.                                     *)
THEOREM AnswersFit == Spec => [](Len(text) <= TEXT_BYTES)
<1>1. StreamInv => Len(text) <= TEXT_BYTES
  <2>1. Len(<<>>) = 0
    BY EmptySeq
  <2> QED
    BY <2>1, LimitsAssumption DEF StreamInv, BoundInv, ResultInv, Answer
<1> QED
  BY <1>1, StreamInvariant, PTL

(* However a response is cut into chunks and its events into lines, decode  *)
(* stops at the first terminal event and returns what the events before it  *)
(* make: the last finished item, else the streamed text, else the done text.*)
THEOREM ResultIsReference == Spec => []ReferenceResult
<1>1. ASSUME StreamInv, result \in {"EmptyText", "ModelFailed"}
      PROVE  ReferenceResult
  <2> DEFINE es == sofar.events
             fs == Whole(Append(lines, line)).events
  <2>1. line.field = "blank" /\ event_data # <<>> /\ event_data = sofar.data
        /\ lines \in Seq(Line) /\ line \in Line
    BY <1>1 DEF StreamInv, ResultInv, FrameInv, TypeOK
  <2>2. fs = Append(es, Received)
    <3>1. Whole(Append(lines, line)) = Take(sofar, line)
      BY <2>1, WholeOfOneMore DEF sofar
    <3>2. sofar \in Summed
      BY <1>1, Sofar DEF StreamInv
    <3> QED
      BY <2>1, <3>1, <3>2, TakeType DEF Received
  <2>3. /\ Received \in Event /\ es \in Seq(Event)
        /\ Keep(es, deltas, output_item, done) /\ Ends(es) = {} /\ text = <<>>
    BY <1>1, ReceivedType DEF StreamInv, ResultInv
  <2>4. /\ Received.type \in {"completed", "failed"}
        /\ result = "EmptyText" => Received.type = "completed" /\ Answer = <<>>
        /\ result = "ModelFailed" => Received.type = "failed"
    BY <1>1 DEF StreamInv, ResultInv
  <2> HIDE DEF es
  <2>5. Len(fs) = Len(es) + 1 /\ fs[Len(fs)] = Received /\ Ends(fs) = {Len(fs)}
    BY <2>2, <2>3, <2>4, ChosenOfOneMore
  <2>6. Keep(fs, deltas, output_item, done)
    BY <2>2, <2>3, <2>4, TextsOfOneMore
  <2> HIDE DEF fs
  <2>7. IsAnswer(Answer, fs)
    BY <2>6, KeptIsAnswer DEF Answer
  <2> QED
    BY <1>1, <2>3, <2>4, <2>5, <2>7 DEF ReferenceResult, fs
<1>2. ASSUME StreamInv, result \notin {"EmptyText", "ModelFailed"}
      PROVE  ReferenceResult
  <2>1. Keep(sofar.events, deltas, output_item, done)
    BY <1>2, ReceivedType
  <2>2. IsAnswer(Answer, sofar.events)
    BY <2>1, KeptIsAnswer DEF Answer
  <2> QED
    BY <1>2, <2>2 DEF StreamInv, ResultInv, ReferenceResult, sofar
<1>3. StreamInv => ReferenceResult
  BY <1>1, <1>2
<1> QED
  BY <1>3, StreamInvariant, PTL
=============================================================================
