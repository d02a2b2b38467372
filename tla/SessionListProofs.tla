--------------------------- MODULE SessionListProofs ---------------------------
(***************************************************************************)
(* What `session list` promises, for every set of writers, ids, times and  *)
(* limits: no session whose result was acknowledged before the list began  *)
(* is missing, what is listed is true and stays true, and the order is the *)
(* documented one, whatever is created, finished, rolled back or removed   *)
(* while the list runs.                                                    *)
(***************************************************************************)
EXTENDS SessionList, SequenceTheorems, FiniteSetTheorems, TLAPS

ToSet(q) == Seqs!ToSet(q)

USE DEF budget, history

-----------------------------------------------------------------------------
(* The store, as far as a list relies on it. *)
StoreTypeOK ==
    /\ entry \in [Id -> Writer \cup {None}]
    /\ id \in [Writer -> Id \cup {None}]
    /\ phase \in [Writer -> {"idle", "created", "open", "closed", "gone"}]
    /\ view \in [Writer -> View]
    /\ size \in [Writer -> Sizes]
    /\ shared \in [Writer -> SUBSET Reader]
    /\ acknowledged \subseteq Writer

(* A file that somebody shares is not being written, a closed one never     *)
(* again; a name leads to the file that has the id, and an acknowledged     *)
(* session keeps its name until that is removed.                            *)
FileInv(w) ==
    /\ w \in locked <=> phase[w] = "open"
    /\ shared[w] # {} => phase[w] \in {"created", "closed", "gone"}
    /\ phase[w] \in {"idle", "created"} => view[w] = "Corrupt"
    /\ phase[w] = "idle" => id[w] = None
    /\ w \in acknowledged => phase[w] = "closed" /\ view[w] \in Terminal
    /\ phase[w] \in {"created", "open"} \/ w \in acknowledged =>
           /\ id[w] \in Id
           /\ w \notin removed => entry[id[w]] = w

StoreInv ==
    /\ \A w \in Writer : FileInv(w)
    /\ \A i \in Id : entry[i] # None => id[entry[i]] = i

-----------------------------------------------------------------------------
(* The list. *)
ListTypeOK ==
    /\ step \in {"open", "opened", "locked", "done"}
    /\ opened \in Writer \cup {None}
    /\ shown \in Status \cup {"none", "Missing"}
    /\ created \in [Writer -> Times]
    /\ lpc \in {"idle", "scan", "inspect", "done"}
    /\ unscanned \subseteq Id
    /\ candidates \in Seq(Id)
    /\ summaries \in Seq(Summary)
    /\ known \subseteq Writer

(* What is empty where, and that a list is returned once. *)
PlaceInv ==
    /\ lpc = "idle" => candidates = <<>> /\ known = {}
    /\ lpc \in {"idle", "scan"} => summaries = <<>> /\ step = "open"
    /\ lpc = "inspect" /\ step # "open" => candidates # <<>>
    /\ lpc # "done" => listed = "none"

(* An id is met once: not scanned yet, a candidate, or in a summary. *)
Distinct(q) == \A i, j \in DOMAIN q : q[i] = q[j] => i = j
DistinctIds(q) == \A i, j \in DOMAIN q : q[i].id = q[j].id => i = j
MetInv ==
    /\ Distinct(candidates) /\ DistinctIds(summaries)
    /\ \A i \in ToSet(candidates) : i \notin unscanned
    /\ \A s \in ToSet(summaries) : s.id \notin ToSet(candidates)

(* The report on the next candidate. *)
Closed(w, i, status) ==
    /\ w \in Writer
    /\ id[w] = i /\ view[w] = status /\ phase[w] \in {"closed", "gone"}
InspectInv ==
    lpc = "inspect" =>
        /\ step \in {"opened", "locked"} =>
               opened \in Writer /\ id[opened] = Head(candidates)
        /\ step = "locked" => Lister \in shared[opened]
        /\ step = "done" => shown # "none"
        /\ step = "done" /\ shown \in Projected => Closed(opened, Head(candidates), shown)

(* A summary shows a status if and only if it has a time; if it shows one,  *)
(* a closed file has it.                                                    *)
True(s) ==
    /\ s.status \in Projected <=> s.created # 0
    /\ s.status \in Projected =>
           \E w \in Writer : Closed(w, s.id, s.status) /\ created[w] = s.created
SummaryInv == \A s \in ToSet(summaries) : True(s)

(* A session known before the list began is on its way into the list. *)
Tells(s, w) ==
    /\ s.id = id[w]
    /\ \/ s.status = view[w] /\ s.created = created[w]
       \/ s.status = "Unavailable"
Told(w) == \E s \in ToSet(summaries) : Tells(s, w)
KnownInv ==
    /\ known \subseteq acknowledged
    /\ \A w \in known \ removed :
           /\ lpc = "scan" => id[w] \in unscanned \cup ToSet(candidates)
           /\ lpc = "inspect" => id[w] \in ToSet(candidates) \/ Told(w)
           /\ listed = "Listed" => Told(w)
           /\ lpc = "inspect" /\ candidates # <<>> /\ id[w] = Head(candidates) =>
                  /\ step \in {"opened", "locked"} => opened = w
                  /\ step = "done" =>
                         shown = "Unavailable" \/ (shown = view[w] /\ opened = w)

OrderInv ==
    listed = "Listed" =>
        \A i, j \in DOMAIN summaries : i < j => Precedes(summaries[i], summaries[j])

ListInv ==
    /\ StoreTypeOK /\ StoreInv
    /\ ListTypeOK /\ PlaceInv /\ MetInv
    /\ InspectInv /\ SummaryInv /\ KnownInv /\ OrderInv

-----------------------------------------------------------------------------
(* Sequences and their sets. *)

LEMMA SetOfSeq ==
    ASSUME NEW S, NEW q \in Seq(S)
    PROVE  /\ ToSet(q) \subseteq S
           /\ \A x : x \in ToSet(q) <=> \E i \in 1 .. Len(q) : x = q[i]
           /\ DOMAIN q = 1 .. Len(q) /\ Len(q) \in Nat
<1>1. DOMAIN q = 1 .. Len(q) /\ Len(q) \in Nat
  BY LenProperties
<1>2. \A i \in 1 .. Len(q) : q[i] \in S
  BY ElementOfSeq
<1> QED
  BY <1>1, <1>2 DEF ToSet, Seqs!ToSet

(* The set of a sequence is finite, so it can be sorted. *)
LEMMA SetIsFinite ==
    ASSUME NEW S, NEW q \in Seq(S)
    PROVE  IsFiniteSet(ToSet(q))
<1>1. DOMAIN q = 1 .. Len(q) /\ Len(q) \in Nat /\ q \in [1 .. Len(q) -> S]
  BY LenProperties
<1>2. q \in Surjection(1 .. Len(q), ToSet(q))
  BY <1>1, SetOfSeq DEF Surjection
<1>3. IsFiniteSet(1 .. Len(q))
  BY <1>1, FS_Interval
<1> QED
  BY <1>2, <1>3, FS_Surjection

LEMMA SetOfTail ==
    ASSUME NEW S, NEW q \in Seq(S), q # <<>>
    PROVE  /\ Head(q) \in S /\ Head(q) \in ToSet(q)
           /\ Tail(q) \in Seq(S)
           /\ ToSet(q) = {Head(q)} \cup ToSet(Tail(q))
           /\ Distinct(q) => Distinct(Tail(q)) /\ Head(q) \notin ToSet(Tail(q))
<1> DEFINE t == Tail(q)
<1>1. Head(q) \in S /\ t \in Seq(S) /\ Len(t) = Len(q) - 1
  BY HeadTailProperties
<1>2. \A i \in 1 .. Len(t) : t[i] = q[i + 1]
  BY HeadTailProperties
<1>3. Len(q) \in Nat \ {0}
  BY EmptySeq
<1>4. Head(q) = q[1]
  OBVIOUS
<1>5. \A x : x \in ToSet(q) <=> \E i \in 1 .. Len(q) : x = q[i]
  BY SetOfSeq
<1>6. \A x : x \in ToSet(t) <=> \E i \in 1 .. Len(t) : x = t[i]
  BY <1>1, SetOfSeq
<1>7. DOMAIN q = 1 .. Len(q) /\ DOMAIN t = 1 .. Len(t) /\ Len(t) \in Nat
  BY <1>1, LenProperties
<1> HIDE DEF t
<1>8. Head(q) \in ToSet(q)
  BY <1>3, <1>4, <1>5
<1>9. \A i \in 1 .. Len(q) : i = 1 \/ (i - 1 \in 1 .. Len(t) /\ q[i] = t[i - 1])
  BY <1>1, <1>2, <1>3
<1>10. \A i \in 1 .. Len(t) : i + 1 \in 1 .. Len(q) /\ t[i] = q[i + 1]
  BY <1>1, <1>2, <1>3
<1>11. ToSet(q) = {Head(q)} \cup ToSet(t)
  <2>1. ASSUME NEW x \in ToSet(q)
        PROVE  x = Head(q) \/ x \in ToSet(t)
    BY <2>1, <1>4, <1>5, <1>6, <1>9
  <2>2. ASSUME NEW x \in ToSet(t)
        PROVE  x \in ToSet(q)
    BY <2>2, <1>5, <1>6, <1>10
  <2> QED
    BY <2>1, <2>2, <1>8
<1>12. ASSUME Distinct(q)
       PROVE  Distinct(t) /\ Head(q) \notin ToSet(t)
  <2>1. Distinct(t)
    <3>1. ASSUME NEW i \in 1 .. Len(t), NEW j \in 1 .. Len(t), t[i] = t[j]
          PROVE  i = j
      <4>1. q[i + 1] = q[j + 1] /\ i + 1 \in 1 .. Len(q) /\ j + 1 \in 1 .. Len(q)
        BY <3>1, <1>10
      <4>2. i + 1 = j + 1
        BY <4>1, <1>12, <1>7 DEF Distinct
      <4> QED
        BY <4>2, <1>7
    <3> QED
      BY <3>1, <1>7 DEF Distinct
  <2>2. ASSUME NEW i \in 1 .. Len(t), t[i] = Head(q)
        PROVE  FALSE
    <3>1. q[i + 1] = q[1] /\ i + 1 \in 1 .. Len(q) /\ 1 \in 1 .. Len(q)
      BY <2>2, <1>10, <1>4, <1>3
    <3>2. i + 1 = 1
      BY <3>1, <1>12, <1>7 DEF Distinct
    <3> QED
      BY <3>2, <1>7
  <2> QED
    BY <2>1, <2>2, <1>6
<1> QED
  BY <1>1, <1>8, <1>11, <1>12 DEF t

LEMMA SetOfAppend ==
    ASSUME NEW S, NEW q \in Seq(S), NEW e \in S
    PROVE  /\ Append(q, e) \in Seq(S)
           /\ ToSet(Append(q, e)) = ToSet(q) \cup {e}
           /\ Distinct(q) /\ e \notin ToSet(q) => Distinct(Append(q, e))
           /\ DistinctIds(q) /\ (\A s \in ToSet(q) : s.id # e.id)
                  => DistinctIds(Append(q, e))
<1> DEFINE a == Append(q, e)
<1>1. a \in Seq(S) /\ Len(a) = Len(q) + 1
  BY AppendProperties
<1>2. (\A i \in 1 .. Len(q) : a[i] = q[i]) /\ a[Len(q) + 1] = e
  BY AppendProperties
<1>3. DOMAIN q = 1 .. Len(q) /\ DOMAIN a = 1 .. Len(a) /\ Len(q) \in Nat
  BY <1>1, LenProperties
<1>4. \A x : x \in ToSet(q) <=> \E i \in 1 .. Len(q) : x = q[i]
  BY SetOfSeq
<1>5. \A x : x \in ToSet(a) <=> \E i \in 1 .. Len(a) : x = a[i]
  BY <1>1, SetOfSeq
<1> HIDE DEF a
<1>6. \A i \in 1 .. Len(a) : (i \in 1 .. Len(q) /\ a[i] = q[i])
                              \/ (i = Len(a) /\ i \notin 1 .. Len(q) /\ a[i] = e)
  BY <1>1, <1>2, <1>3
<1>7. Len(a) \in 1 .. Len(a) /\ a[Len(a)] = e /\ 1 .. Len(q) \subseteq 1 .. Len(a)
  BY <1>1, <1>2, <1>3
<1>8. ToSet(a) = ToSet(q) \cup {e}
  <2>1. ASSUME NEW x \in ToSet(a)
        PROVE  x \in ToSet(q) \/ x = e
    BY <2>1, <1>4, <1>5, <1>6
  <2>2. ToSet(q) \subseteq ToSet(a)
    BY <1>2, <1>4, <1>5, <1>7
  <2>3. e \in ToSet(a)
    BY <1>5, <1>7
  <2> QED
    BY <2>1, <2>2, <2>3
<1>9. ASSUME Distinct(q), e \notin ToSet(q)
      PROVE  Distinct(a)
  <2> SUFFICES ASSUME NEW i \in 1 .. Len(a), NEW j \in 1 .. Len(a), a[i] = a[j]
               PROVE  i = j
    BY <1>3 DEF Distinct
  <2> QED
    BY <1>9, <1>3, <1>4, <1>6 DEF Distinct
<1>10. ASSUME DistinctIds(q), \A s \in ToSet(q) : s.id # e.id
       PROVE  DistinctIds(a)
  <2> SUFFICES ASSUME NEW i \in 1 .. Len(a), NEW j \in 1 .. Len(a), a[i].id = a[j].id
               PROVE  i = j
    BY <1>3 DEF DistinctIds
  <2> QED
    BY <1>10, <1>3, <1>4, <1>6 DEF DistinctIds
<1> QED
  BY <1>1, <1>8, <1>9, <1>10 DEF a

(* What the two sorts return: the same elements, each once. *)
LEMMA Sorted ==
    ASSUME NEW S, NEW c \in Seq(S), NEW q \in Seqs!SetToSeqs(ToSet(c))
    PROVE  /\ q \in Seq(S) /\ ToSet(q) = ToSet(c)
           /\ Distinct(q)
           /\ DistinctIds(c) => DistinctIds(q)
<1> DEFINE T == ToSet(c)
           n == Cardinality(T)
<1>1. IsFiniteSet(T) /\ T \subseteq S
  BY SetIsFinite, SetOfSeq
<1>2. n \in Nat
  BY <1>1, FS_CardinalityType
<1>3. q \in [1 .. n -> T] /\ \A i, j \in 1 .. n : i # j => q[i] # q[j]
  <2>1. Seqs!Cardinality(T) = Cardinality(T)
    BY Zenon DEF Seqs!Cardinality, Cardinality
  <2> QED
    BY <2>1 DEF Seqs!SetToSeqs
<1>4. T = {c[i] : i \in DOMAIN c}
  BY DEF ToSet, Seqs!ToSet
<1> HIDE DEF n, T
<1>5. q \in Seq(S)
  <2>1. q \in [1 .. n -> S]
    BY <1>1, <1>3
  <2> QED
    BY <2>1, <1>2, SeqDef
<1>6. q \in Surjection(1 .. n, T)
  <2>1. q \in Injection(1 .. n, T)
    BY <1>3 DEF Injection, IsInjective
  <2>2. IsFiniteSet(1 .. n) /\ Cardinality(1 .. n) = n
    BY <1>2, FS_Interval
  <2> QED
    BY <2>1, <2>2, <1>1, FS_Injection DEF n
<1>7. ToSet(q) = T
  BY <1>3, <1>6 DEF Surjection, ToSet, Seqs!ToSet
<1>8. Distinct(q)
  BY <1>3 DEF Distinct
<1>9. ASSUME DistinctIds(c)
      PROVE  DistinctIds(q)
  <2>1. ASSUME NEW s \in T, NEW t \in T, s.id = t.id
        PROVE  s = t
    BY <2>1, <1>4, <1>9 DEF DistinctIds
  <2> QED
    BY <2>1, <1>3 DEF DistinctIds
<1> QED
  BY <1>5, <1>7, <1>8, <1>9 DEF T

LEMMA SummaryType ==
    ASSUME NEW s \in Summary
    PROVE  /\ s.id \in Id /\ s.id \in Nat
           /\ s.status \in Status
           /\ s.created \in Times \cup {0} /\ s.created \in Nat
<1>1. s.id \in Id /\ s.status \in Status /\ s.created \in Times \cup {0}
  BY DEF Summary
<1>2. s.id \in Nat
  BY <1>1, ListAssumption
<1>3. s.created \in Nat
  <2>1. \A time \in Times : time \in Nat
    BY ListAssumption
  <2>2. s.created \in Times \/ s.created = 0
    BY <1>1
  <2> QED
    BY <2>1, <2>2
<1> QED
  BY <1>1, <1>2, <1>3

-----------------------------------------------------------------------------
(* The store keeps StoreInv, and tells a list no less than before: what is  *)
(* closed keeps its content, what is acknowledged stays so.                 *)

LEMMA StoreInitInv == StoreInit => StoreTypeOK /\ StoreInv
<1> SUFFICES ASSUME StoreInit
             PROVE  StoreTypeOK /\ StoreInv
  OBVIOUS
<1>1. StoreTypeOK
  BY StoreAssumption DEF StoreInit, StoreTypeOK, View
<1>2. ASSUME NEW w \in Writer
      PROVE  FileInv(w)
  BY DEF StoreInit, FileInv
<1> QED
  BY <1>1, <1>2 DEF StoreInit, StoreInv

LEMMA WriterStep ==
    ASSUME StoreTypeOK, StoreInv, NEW w \in Writer, WriterNext(w)
    PROVE  StoreTypeOK' /\ StoreInv'
<1> USE StoreAssumption
<1>1. CASE Create(w)
  <2>1. StoreTypeOK'
    BY <1>1 DEF StoreTypeOK, Create
  <2>2. StoreInv'
    BY <1>1 DEF StoreTypeOK, StoreInv, FileInv, Create
  <2> QED
    BY <2>1, <2>2
<1>2. CASE Lock(w)
  <2>1. StoreTypeOK'
    BY <1>2 DEF StoreTypeOK, Lock
  <2>2. StoreInv'
    BY <1>2 DEF StoreTypeOK, StoreInv, FileInv, Lock
  <2> QED
    BY <2>1, <2>2
<1>3. CASE Write(w)
  <2>1. StoreTypeOK'
    BY <1>3 DEF StoreTypeOK, Write, View
  <2>2. StoreInv'
    BY <1>3 DEF StoreTypeOK, StoreInv, FileInv, Write
  <2> QED
    BY <2>1, <2>2
<1>4. CASE Acknowledge(w)
  <2>1. StoreTypeOK'
    BY <1>4 DEF StoreTypeOK, Acknowledge
  <2>2. StoreInv'
    BY <1>4 DEF StoreTypeOK, StoreInv, FileInv, Acknowledge
  <2> QED
    BY <2>1, <2>2
<1>5. CASE Close(w)
  <2>1. StoreTypeOK'
    BY <1>5 DEF StoreTypeOK, Close
  <2>2. StoreInv'
    BY <1>5 DEF StoreTypeOK, StoreInv, FileInv, Close
  <2> QED
    BY <2>1, <2>2
<1>6. CASE RollBack(w)
  <2>1. StoreTypeOK'
    BY <1>6 DEF StoreTypeOK, RollBack
  <2>2. StoreInv'
    BY <1>6 DEF StoreTypeOK, StoreInv, FileInv, RollBack
  <2> QED
    BY <2>1, <2>2
<1> QED
  BY <1>1, <1>2, <1>3, <1>4, <1>5, <1>6 DEF WriterNext

LEMMA RemoveStep ==
    ASSUME StoreTypeOK, StoreInv, NEW i \in Id, Remove(i)
    PROVE  StoreTypeOK' /\ StoreInv'
<1> USE StoreAssumption
<1>1. StoreTypeOK'
  BY DEF StoreTypeOK, Remove, files
<1>2. StoreInv'
  BY DEF StoreTypeOK, StoreInv, FileInv, Remove, files
<1> QED
  BY <1>1, <1>2

LEMMA UnshareStep ==
    ASSUME StoreTypeOK, StoreInv, Unshare(Lister)
    PROVE  StoreTypeOK' /\ StoreInv'
<1>1. StoreTypeOK'
  BY DEF StoreTypeOK, Unshare, files
<1>2. StoreInv'
  BY DEF StoreTypeOK, StoreInv, FileInv, Unshare, files
<1> QED
  BY <1>1, <1>2

LEMMA ShareStep ==
    ASSUME StoreTypeOK, StoreInv, NEW w \in Writer, Share(Lister, w)
    PROVE  /\ StoreTypeOK' /\ StoreInv'
           /\ Lister \in shared'[w]
<1> USE ListAssumption
<1>1. StoreTypeOK'
  BY DEF StoreTypeOK, Share, files
<1>2. StoreInv'
  BY DEF StoreTypeOK, StoreInv, FileInv, Share, files
<1>3. Lister \in shared'[w]
  BY DEF StoreTypeOK, Share
<1> QED
  BY <1>1, <1>2, <1>3

-----------------------------------------------------------------------------
(* What neither a writer, the user nor the list takes back. *)
Keeps ==
    /\ \A w \in Writer :
           /\ id[w] # None => id'[w] = id[w]
           /\ phase[w] \in {"closed", "gone"} =>
                  /\ phase'[w] \in {"closed", "gone"} /\ view'[w] = view[w]
                  /\ size'[w] = size[w]
           /\ size'[w] >= size[w]
           /\ id[w] # None /\ entry[id[w]] # w => entry'[id[w]] # w
    /\ acknowledged \subseteq acknowledged'
    /\ removed \subseteq removed'

LEMMA WriterKeeps ==
    ASSUME StoreTypeOK, StoreInv, NEW w \in Writer, WriterNext(w)
    PROVE  Keeps
<1>0. \A v \in Writer : size[v] \in Nat
  BY StoreAssumption DEF StoreTypeOK
<1>1. CASE Create(w)
  BY <1>0, <1>1, StoreAssumption DEF StoreTypeOK, StoreInv, FileInv, Create, Keeps
<1>2. CASE Lock(w)
  BY <1>0, <1>2, StoreAssumption DEF StoreTypeOK, Lock, Keeps
<1>3. CASE Write(w)
  BY <1>0, <1>3, StoreAssumption DEF StoreTypeOK, Write, Keeps
<1>4. CASE Acknowledge(w)
  BY <1>0, <1>4, StoreAssumption DEF StoreTypeOK, Acknowledge, Keeps
<1>5. CASE Close(w)
  BY <1>0, <1>5, StoreAssumption DEF StoreTypeOK, Close, Keeps
<1>6. CASE RollBack(w)
  BY <1>0, <1>6, StoreAssumption DEF StoreTypeOK, RollBack, Keeps
<1> QED
  BY <1>1, <1>2, <1>3, <1>4, <1>5, <1>6 DEF WriterNext

LEMMA RemoveKeeps ==
    ASSUME StoreTypeOK, NEW i \in Id, Remove(i)
    PROVE  Keeps
<1>1. \A w \in Writer : size[w] \in Nat
  BY StoreAssumption DEF StoreTypeOK
<1>2. UNCHANGED <<id, files, acknowledged>> /\ removed \subseteq removed'
  BY DEF Remove
<1>3. \A w \in Writer : id[w] # None /\ entry[id[w]] # w => entry'[id[w]] # w
  BY StoreAssumption DEF StoreTypeOK, Remove
<1> QED
  BY <1>1, <1>2, <1>3 DEF Keeps, files

LEMMA SharingKeeps ==
    ASSUME StoreTypeOK,
           \/ UNCHANGED storeVars \/ Unshare(Lister)
           \/ \E w \in Writer : Share(Lister, w)
    PROVE  Keeps
<1>1. \A w \in Writer : size[w] \in Nat
  BY StoreAssumption DEF StoreTypeOK
<1>2. UNCHANGED <<entry, id, files, acknowledged, removed>>
  BY DEF storeVars, Unshare, Share
<1> QED
  BY <1>1, <1>2 DEF Keeps, files

LEMMA StoreStays ==
    ASSUME StoreTypeOK, StoreInv, UNCHANGED storeVars
    PROVE  StoreTypeOK' /\ StoreInv'
<1>1. StoreTypeOK'
  BY DEF StoreTypeOK, storeVars, files
<1>2. StoreInv'
  BY DEF StoreInv, FileInv, storeVars, files
<1> QED
  BY <1>1, <1>2

(* What Keeps means to the list. *)
LEMMA ClosedStays ==
    ASSUME Keeps, NEW w \in Writer, NEW i \in Id, NEW status, Closed(w, i, status)
    PROVE  Closed(w, i, status)'
BY StoreAssumption DEF Keeps, Closed

LEMMA SummaryStays ==
    ASSUME Keeps, SummaryInv, summaries \in Seq(Summary),
           UNCHANGED <<summaries, created>>
    PROVE  SummaryInv'
<1> SUFFICES ASSUME NEW s \in ToSet(summaries)
             PROVE  True(s)'
  BY DEF SummaryInv
<1>1. s.id \in Id
  BY SetOfSeq, SummaryType
<1>2. True(s)
  BY DEF SummaryInv
<1>3. ASSUME s.status \in Projected
      PROVE  \E w \in Writer : Closed(w, s.id, s.status)' /\ created'[w] = s.created
  <2>1. PICK w \in Writer : Closed(w, s.id, s.status) /\ created[w] = s.created
    BY <1>2, <1>3 DEF True
  <2> QED
    BY <2>1, <1>1, ClosedStays
<1> QED
  BY <1>2, <1>3 DEF True

LEMMA KnownFile ==
    ASSUME StoreInv, KnownInv, known \subseteq Writer, NEW w \in known \ removed
    PROVE  /\ w \in Writer /\ phase[w] = "closed" /\ view[w] \in Terminal
           /\ id[w] \in Id /\ id[w] # None /\ entry[id[w]] = w /\ w \notin locked
BY StoreAssumption DEF StoreInv, FileInv, KnownInv

LEMMA ToldStays ==
    ASSUME Keeps, StoreInv, KnownInv, known \subseteq Writer, NEW w \in known \ removed,
           UNCHANGED <<summaries, created>>, Told(w)
    PROVE  Told(w)'
<1>1. w \in Writer /\ phase[w] = "closed" /\ id[w] # None
  BY KnownFile
<1>2. id'[w] = id[w] /\ view'[w] = view[w]
  BY <1>1 DEF Keeps
<1> QED
  BY <1>2 DEF Told, Tells

-----------------------------------------------------------------------------
(* The steps of the others. *)

LEMMA StoreStepInv ==
    ASSUME ListInv, StoreStep
    PROVE  ListInv'
<1> USE DEF ListInv
<1>1. StoreTypeOK' /\ StoreInv' /\ Keeps
  BY WriterStep, RemoveStep, WriterKeeps, RemoveKeeps DEF StoreStep
<1>2. shared' = shared
  BY DEF StoreStep, WriterNext, Create, Lock, Write, Acknowledge, Close, RollBack, Remove
<1>3. UNCHANGED <<inspection, listing>>
  BY DEF StoreStep
<1>4. ListTypeOK' /\ PlaceInv' /\ MetInv' /\ OrderInv'
  BY <1>3 DEF inspection, listing, scanning, ListTypeOK, PlaceInv, MetInv, OrderInv
<1>5. SummaryInv'
  BY <1>1, <1>3, SummaryStays DEF ListTypeOK, listing
<1>6. InspectInv'
  <2> SUFFICES ASSUME lpc = "inspect"
               PROVE  InspectInv'
    BY <1>3 DEF InspectInv, listing
  <2>1. step # "open" => Head(candidates) \in Id /\ Head(candidates) # None
    BY SetOfTail, StoreAssumption DEF ListTypeOK, PlaceInv
  <2>2. ASSUME step = "done", shown \in Projected
        PROVE  Closed(opened, Head(candidates), shown)'
    <3>1. Closed(opened, Head(candidates), shown)
      BY <2>2 DEF InspectInv
    <3>2. opened' = opened /\ candidates' = candidates /\ shown' = shown
      BY <1>3 DEF inspection, listing
    <3> QED
      BY <1>1, <2>1, <2>2, <3>1, <3>2 DEF Closed, Keeps
  <2>3. ASSUME step \in {"opened", "locked"}
        PROVE  opened \in Writer /\ id'[opened] = Head(candidates)
    BY <1>1, <2>1, <2>3 DEF InspectInv, Keeps
  <2> QED
    BY <1>2, <1>3, <2>2, <2>3 DEF InspectInv, inspection, listing
<1>7. KnownInv'
  <2>1. known' = known /\ known \subseteq acknowledged'
    BY <1>1, <1>3 DEF listing, KnownInv, Keeps
  <2>2. ASSUME NEW w \in known \ removed'
        PROVE  /\ id'[w] = id[w] /\ view'[w] = view[w] /\ w \notin removed
               /\ Told(w) => Told(w)'
    <3>1. w \in known \ removed
      BY <1>1 DEF Keeps
    <3>2. id'[w] = id[w] /\ view'[w] = view[w]
      BY <1>1, <3>1, KnownFile DEF Keeps, ListTypeOK
    <3>3. Told(w) => Told(w)'
      BY <1>1, <1>3, <3>1, ToldStays DEF ListTypeOK, listing
    <3> QED
      BY <3>1, <3>2, <3>3
  <2>3. UNCHANGED <<lpc, unscanned, candidates, listed, step, opened, shown>>
    BY <1>3 DEF inspection, listing, scanning
  <2> QED
    BY <2>1, <2>2, <2>3 DEF KnownInv
<1> QED
  BY <1>1, <1>4, <1>5, <1>6, <1>7

LEMMA StutterInv ==
    ASSUME ListInv, UNCHANGED listVars
    PROVE  ListInv'
<1>1. StoreTypeOK' /\ StoreInv'
  BY StoreStays DEF ListInv, listVars
<1>2. Keeps
  BY SharingKeeps DEF ListInv, listVars
<1>3. SummaryInv'
  BY <1>2, SummaryStays DEF ListInv, ListTypeOK, listVars, listing
<1>4. ListTypeOK' /\ PlaceInv' /\ MetInv' /\ OrderInv' /\ InspectInv' /\ KnownInv'
  BY DEF ListInv, listVars, storeVars, files, inspection, listing, scanning, ListTypeOK,
         PlaceInv, MetInv, OrderInv, InspectInv, Closed, KnownInv, Told, Tells
<1> QED
  BY <1>1, <1>3, <1>4 DEF ListInv

-----------------------------------------------------------------------------
(* The steps of the list.  Where it gives up nothing is promised. *)

LEMMA GivesUp ==
    ASSUME ListInv, lpc # "done", StoreTypeOK', StoreInv', Keeps,
           ListReturn("StoreUnavailable") \/ ListReturn("InventoryTooLarge"),
           UNCHANGED <<inspection, created, unscanned, candidates, summaries, known>>
    PROVE  ListInv'
<1> USE DEF ListInv
<1>1. lpc' = "done" /\ listed' # "Listed"
  BY DEF ListReturn
<1>2. ListTypeOK' /\ PlaceInv' /\ MetInv' /\ OrderInv' /\ InspectInv'
  BY <1>1 DEF inspection, ListTypeOK, PlaceInv, MetInv, OrderInv, InspectInv
<1>3. SummaryInv'
  BY SummaryStays DEF ListTypeOK
<1>4. KnownInv'
  BY <1>1 DEF KnownInv, Keeps
<1> QED
  BY <1>2, <1>3, <1>4

LEMMA GivingUpInv ==
    ASSUME ListInv, ListFails \/ ScanTooLarge \/ ReadTooLarge
    PROVE  ListInv'
<1> USE DEF ListInv
<1>1. CASE ListFails \/ ScanTooLarge
  <2>1. StoreTypeOK' /\ StoreInv' /\ Keeps
    BY <1>1, StoreStays, SharingKeeps DEF ListFails, ScanTooLarge
  <2> QED
    BY <1>1, <2>1, GivesUp DEF ListFails, ScanTooLarge, scanning
<1>2. CASE ReadTooLarge
  <2>1. StoreTypeOK' /\ StoreInv' /\ Keeps
    BY <1>2, UnshareStep, SharingKeeps DEF ReadTooLarge
  <2> QED
    BY <1>2, <2>1, GivesUp DEF ReadTooLarge, scanning
<1> QED
  BY <1>1, <1>2

LEMMA ListStartInv ==
    ASSUME ListInv, ListStart
    PROVE  ListInv'
<1> USE DEF ListInv
<1>1. StoreTypeOK' /\ StoreInv' /\ Keeps
  BY StoreStays, SharingKeeps DEF ListStart
<1>2. candidates = <<>> /\ summaries = <<>> /\ step = "open" /\ listed = "none"
  BY DEF PlaceInv, ListStart
<1>3. ListTypeOK'
  BY DEF ListStart, ListTypeOK, StoreTypeOK, Kept, inspection
<1>4. PlaceInv' /\ InspectInv' /\ OrderInv'
  BY <1>2 DEF ListStart, PlaceInv, InspectInv, OrderInv, inspection
<1>5. MetInv'
  <2>1. \A i : i \notin ToSet(<<>>)
    BY DEF ToSet, Seqs!ToSet
  <2>2. candidates' = <<>> /\ summaries' = <<>>
    BY <1>2 DEF ListStart
  <2> QED
    BY <2>1, <2>2, <1>2 DEF MetInv
<1>6. SummaryInv'
  BY <1>1, SummaryStays DEF ListTypeOK, ListStart
<1>7. KnownInv'
  <2>1. lpc' = "scan" /\ unscanned' = Id /\ listed' = "none" /\ known' = acknowledged \ removed
    BY <1>2 DEF ListStart, Kept
  <2>2. acknowledged' = acknowledged /\ id' = id
    BY DEF ListStart, storeVars
  <2>3. \A w \in acknowledged : id[w] \in Id
    BY DEF StoreTypeOK, StoreInv, FileInv
  <2> QED
    BY <2>1, <2>2, <2>3 DEF KnownInv
<1> QED
  BY <1>1, <1>3, <1>4, <1>5, <1>6, <1>7

LEMMA NoDirectoryInv ==
    ASSUME ListInv, NoDirectory
    PROVE  ListInv'
<1> USE DEF ListInv
<1>1. StoreTypeOK' /\ StoreInv' /\ Keeps
  BY StoreStays, SharingKeeps DEF NoDirectory
<1>2. candidates = <<>> /\ summaries = <<>> /\ known = {} /\ lpc = "idle"
  BY DEF PlaceInv, NoDirectory
<1>3. ListTypeOK' /\ PlaceInv' /\ InspectInv' /\ MetInv'
  BY DEF NoDirectory, ListReturn, ListTypeOK, PlaceInv, InspectInv, MetInv, inspection, scanning
<1>4. OrderInv'
  BY <1>2 DEF NoDirectory, OrderInv
<1>5. SummaryInv'
  BY <1>1, SummaryStays DEF ListTypeOK, NoDirectory
<1>6. KnownInv'
  BY <1>2 DEF NoDirectory, KnownInv
<1> QED
  BY <1>1, <1>3, <1>4, <1>5, <1>6

LEMMA ScanPassesInv ==
    ASSUME ListInv, NEW i \in Id, ScanPasses(i)
    PROVE  ListInv'
<1> USE DEF ListInv
<1>1. StoreTypeOK' /\ StoreInv' /\ Keeps
  BY StoreStays, SharingKeeps DEF ScanPasses
<1>2. ListTypeOK' /\ PlaceInv' /\ InspectInv' /\ OrderInv' /\ MetInv'
  BY DEF ScanPasses, ListTypeOK, PlaceInv, InspectInv, OrderInv, MetInv, inspection
<1>3. SummaryInv'
  BY <1>1, SummaryStays DEF ListTypeOK, ScanPasses
<1>4. KnownInv'
  <2>1. known' = known /\ acknowledged' = acknowledged /\ removed' = removed /\ id' = id
    BY DEF ScanPasses, storeVars
  <2>2. lpc' = "scan" /\ candidates' = candidates /\ listed' = "none"
    BY DEF ScanPasses, PlaceInv
  <2>3. ASSUME NEW w \in known \ removed
        PROVE  id[w] \in unscanned' \cup ToSet(candidates)
    <3>1. id[w] # i
      BY KnownFile, StoreAssumption DEF ScanPasses, ListTypeOK
    <3> QED
      BY <3>1 DEF ScanPasses, KnownInv
  <2> QED
    BY <2>1, <2>2, <2>3 DEF KnownInv
<1> QED
  BY <1>1, <1>2, <1>3, <1>4

LEMMA ScanInv ==
    ASSUME ListInv, NEW i \in Id, Scan(i)
    PROVE  ListInv'
<1> USE DEF ListInv
<1>1. StoreTypeOK' /\ StoreInv' /\ Keeps
  BY StoreStays, SharingKeeps DEF Scan
<1>2. /\ candidates' \in Seq(Id) /\ ToSet(candidates') = ToSet(candidates) \cup {i}
      /\ Distinct(candidates) /\ i \notin ToSet(candidates) => Distinct(candidates')
  BY SetOfAppend DEF Scan, ListTypeOK
<1>3. /\ lpc = "scan" /\ lpc' = "scan" /\ listed' = "none" /\ step' = "open"
      /\ summaries = <<>> /\ summaries' = <<>>
  BY DEF Scan, PlaceInv, inspection
<1>4. ListTypeOK'
  BY <1>2 DEF Scan, ListTypeOK, inspection
<1>5. PlaceInv' /\ InspectInv' /\ OrderInv'
  BY <1>3 DEF PlaceInv, InspectInv, OrderInv
<1>6. MetInv'
  <2>1. i \notin ToSet(candidates) /\ Distinct(candidates) /\ DistinctIds(summaries)
    BY DEF Scan, MetInv
  <2>2. unscanned' = unscanned \ {i} /\ \A s : s \notin ToSet(<<>>)
    BY DEF Scan, ToSet, Seqs!ToSet
  <2>3. \A j \in ToSet(candidates') : j \notin unscanned'
    BY <1>2, <2>2 DEF MetInv
  <2> QED
    BY <1>2, <1>3, <2>1, <2>2, <2>3 DEF MetInv
<1>7. SummaryInv'
  BY <1>1, SummaryStays DEF ListTypeOK, Scan
<1>8. KnownInv'
  <2>1. /\ known' = known /\ acknowledged' = acknowledged /\ removed' = removed
        /\ id' = id /\ unscanned' = unscanned \ {i}
    BY DEF Scan, storeVars
  <2>2. \A w \in known \ removed : id[w] \in unscanned' \cup ToSet(candidates')
    BY <1>2, <1>3, <2>1 DEF KnownInv
  <2> QED
    BY <1>3, <2>1, <2>2 DEF KnownInv
<1> QED
  BY <1>1, <1>4, <1>5, <1>6, <1>7, <1>8

LEMMA ScanOtherInv ==
    ASSUME ListInv, ScanOther
    PROVE  ListInv'
<1> USE DEF ListInv
<1>1. StoreTypeOK' /\ StoreInv' /\ Keeps
  BY StoreStays, SharingKeeps DEF ScanOther
<1>2. ListTypeOK' /\ PlaceInv' /\ InspectInv' /\ OrderInv' /\ MetInv'
  BY DEF ScanOther, ListTypeOK, PlaceInv, InspectInv, OrderInv, MetInv, inspection
<1>3. SummaryInv'
  BY <1>1, SummaryStays DEF ListTypeOK, ScanOther
<1>4. KnownInv'
  BY DEF ScanOther, KnownInv, Told, Tells, storeVars, files, inspection, PlaceInv
<1> QED
  BY <1>1, <1>2, <1>3, <1>4

LEMMA ScanEndsInv ==
    ASSUME ListInv, ScanEnds
    PROVE  ListInv'
<1> USE DEF ListInv
<1>1. StoreTypeOK' /\ StoreInv' /\ Keeps
  BY StoreStays, SharingKeeps DEF ScanEnds
<1>2. candidates \in Seq(Id) /\ candidates' \in Seqs!SetToSeqs(ToSet(candidates))
  BY DEF ScanEnds, ToSet, ListTypeOK
<1>3. /\ candidates' \in Seq(Id) /\ ToSet(candidates') = ToSet(candidates)
      /\ Distinct(candidates')
  BY <1>2, Sorted
<1>4. /\ lpc = "scan" /\ lpc' = "inspect" /\ listed' = "none" /\ step' = "open"
      /\ unscanned = {} /\ summaries' = summaries
  BY DEF ScanEnds, PlaceInv, inspection
<1>5. ListTypeOK'
  BY <1>3, <1>4 DEF ScanEnds, ListTypeOK, inspection, scanning
<1>6. PlaceInv' /\ InspectInv' /\ OrderInv'
  BY <1>4 DEF PlaceInv, InspectInv, OrderInv
<1>7. MetInv'
  BY <1>2, <1>3, <1>4 DEF ScanEnds, scanning, MetInv
<1>8. SummaryInv'
  BY <1>1, SummaryStays DEF ListTypeOK, ScanEnds
<1>9. KnownInv'
  <2>1. known' = known /\ acknowledged' = acknowledged /\ removed' = removed /\ id' = id
    BY DEF ScanEnds, storeVars
  <2>2. \A w \in known \ removed : id[w] \in ToSet(candidates')
    BY <1>3, <1>4 DEF KnownInv
  <2> QED
    BY <1>4, <2>1, <2>2 DEF KnownInv
<1> QED
  BY <1>1, <1>5, <1>6, <1>7, <1>8, <1>9

-----------------------------------------------------------------------------
(* A step of an inspection leaves the rest of the list as it is. *)
LEMMA Inspects ==
    ASSUME ListInv, lpc = "inspect", candidates # <<>>,
           StoreTypeOK', StoreInv',
           UNCHANGED <<entry, id, view, phase, size, acknowledged, removed>>,
           UNCHANGED <<created, lpc, unscanned, candidates, summaries, listed, known>>,
           step' \in {"open", "opened", "locked", "done"},
           opened' \in Writer \cup {None},
           shown' \in Status \cup {"none", "Missing"},
           InspectInv',
           \A w \in known \ removed : id[w] = Head(candidates) =>
               /\ step' \in {"opened", "locked"} => opened' = w
               /\ step' = "done" => shown' = "Unavailable" \/ (shown' = view[w] /\ opened' = w)
    PROVE  ListInv'
<1> USE DEF ListInv
<1>1. Keeps
  <2>1. \A w \in Writer : size[w] \in Nat
    BY StoreAssumption DEF StoreTypeOK
  <2> QED
    BY <2>1 DEF Keeps
<1>2. ListTypeOK' /\ PlaceInv' /\ OrderInv' /\ MetInv'
  BY DEF ListTypeOK, PlaceInv, OrderInv, MetInv
<1>3. SummaryInv'
  BY <1>1, SummaryStays DEF ListTypeOK
<1>4. KnownInv'
  BY DEF KnownInv, Told, Tells
<1> QED
  BY <1>2, <1>3, <1>4

LEMMA ListOpenInv ==
    ASSUME ListInv, ListOpen
    PROVE  ListInv'
<1> USE DEF ListInv
<1>1. StoreTypeOK' /\ StoreInv'
  BY StoreStays DEF ListOpen
<1>2. lpc = "inspect" /\ candidates # <<>>
  BY DEF ListOpen
<1>3. /\ UNCHANGED <<id, entry, view, phase, size, acknowledged, removed>>
      /\ UNCHANGED <<created, lpc, unscanned, candidates, summaries, listed, known>>
  BY DEF ListOpen, storeVars, files, listing, scanning
<1> DEFINE i == Head(candidates)
<1>4. i \in Id /\ entry[i] \in Writer \cup {None} /\ opened' = entry[i]
  BY <1>2, SetOfTail DEF ListOpen, ListTypeOK, StoreTypeOK
<1>5. \A w \in known \ removed : id[w] = i => opened' = w /\ opened' # None
  BY <1>4, KnownFile, StoreAssumption DEF ListTypeOK
<1>6. opened' # None => opened' \in Writer /\ id[opened'] = i
  BY <1>4 DEF StoreInv
<1> HIDE DEF i
<1>7. \/ opened' = None /\ step' = "done" /\ shown' = "Missing"
      \/ opened' # None /\ step' = "opened" /\ shown' = shown
  BY DEF ListOpen, InspectReturns
<1>8. /\ step' \in {"open", "opened", "locked", "done"}
      /\ opened' \in Writer \cup {None}
      /\ shown' \in Status \cup {"none", "Missing"}
  BY <1>4, <1>7 DEF ListTypeOK
<1>9. "Missing" \notin Projected
  BY StoreAssumption DEF Projected
<1>10. InspectInv'
  BY <1>3, <1>6, <1>7, <1>9 DEF InspectInv, i
<1> QED
  BY <1>1, <1>2, <1>3, <1>5, <1>7, <1>8, <1>10, Inspects DEF i

LEMMA ListBusyInv ==
    ASSUME ListInv, ListBusy
    PROVE  ListInv'
<1> USE DEF ListInv
<1>1. StoreTypeOK' /\ StoreInv'
  BY StoreStays DEF ListBusy
<1>2. lpc = "inspect" /\ candidates # <<>>
  BY DEF ListBusy, PlaceInv
<1>3. /\ UNCHANGED <<id, entry, view, phase, size, acknowledged, removed>>
      /\ UNCHANGED <<created, lpc, unscanned, candidates, summaries, listed, known>>
      /\ opened' = opened /\ step' = "done" /\ shown' = "Busy"
  BY DEF ListBusy, storeVars, files, listing, scanning, InspectReturns
<1>4. \A w \in known \ removed : id[w] # Head(candidates)
  <2> SUFFICES ASSUME NEW w \in known \ removed, id[w] = Head(candidates)
               PROVE  FALSE
    OBVIOUS
  <2>1. opened = w
    BY <1>2 DEF ListBusy, KnownInv
  <2> QED
    BY <2>1, KnownFile DEF ListBusy, ListTypeOK
<1>5. "Busy" \notin Projected /\ "Busy" \in Status
  BY StoreAssumption DEF Projected, Status
<1>6. InspectInv'
  BY <1>3, <1>5 DEF InspectInv
<1>7. opened' \in Writer \cup {None} /\ shown' \in Status \cup {"none", "Missing"}
  BY <1>3, <1>5 DEF ListTypeOK
<1> QED
  BY <1>1, <1>2, <1>3, <1>4, <1>6, <1>7, Inspects

LEMMA ListTryLockInv ==
    ASSUME ListInv, ListTryLock
    PROVE  ListInv'
<1> USE DEF ListInv
<1>1. lpc = "inspect" /\ candidates # <<>> /\ step = "opened"
  BY DEF ListTryLock, PlaceInv
<1>2. opened \in Writer /\ id[opened] = Head(candidates)
  BY <1>1 DEF InspectInv
<1>3. StoreTypeOK' /\ StoreInv' /\ Lister \in shared'[opened]
  BY <1>2, ShareStep DEF ListTryLock
<1>4. /\ UNCHANGED <<id, entry, view, phase, size, acknowledged, removed>>
      /\ UNCHANGED <<created, lpc, unscanned, candidates, summaries, listed, known>>
      /\ opened' = opened /\ step' = "locked" /\ shown' = shown
  BY DEF ListTryLock, Share, files, listing, scanning
<1>5. InspectInv'
  BY <1>2, <1>3, <1>4 DEF InspectInv
<1>6. opened' \in Writer \cup {None} /\ shown' \in Status \cup {"none", "Missing"}
  BY <1>4 DEF ListTypeOK
<1>7. \A w \in known \ removed : id[w] = Head(candidates) => opened = w
  BY <1>1 DEF KnownInv
<1> QED
  BY <1>1, <1>3, <1>4, <1>5, <1>6, <1>7, Inspects

LEMMA ListInspectFailsInv ==
    ASSUME ListInv, ListInspectFails \/ ReadFails
    PROVE  ListInv'
<1> USE DEF ListInv
<1>1. StoreTypeOK' /\ StoreInv'
  BY UnshareStep DEF ListInspectFails, ReadFails, Charge
<1>2. lpc = "inspect" /\ candidates # <<>>
  BY DEF ListInspectFails, ReadFails, Charge, PlaceInv
<1>3. /\ UNCHANGED <<id, entry, view, phase, size, acknowledged, removed>>
      /\ UNCHANGED <<created, lpc, unscanned, candidates, summaries, listed, known>>
      /\ opened' = opened /\ step' = "done" /\ shown' = "Unavailable"
  BY DEF ListInspectFails, ReadFails, Charge, Unshare, files, listing, scanning, InspectReturns
<1>4. "Unavailable" \notin Projected /\ "Unavailable" \in Status
  BY StoreAssumption DEF Projected, Status
<1>5. InspectInv'
  BY <1>3, <1>4 DEF InspectInv
<1>6. opened' \in Writer \cup {None} /\ shown' \in Status \cup {"none", "Missing"}
  BY <1>3, <1>4 DEF ListTypeOK
<1> QED
  BY <1>1, <1>2, <1>3, <1>5, <1>6, Inspects

(* The shared lock is what makes the report final: whoever could change the *)
(* file has closed it, or has not written to it yet.                        *)
LEMMA ListInspectInv ==
    ASSUME ListInv, ListInspect
    PROVE  ListInv'
<1> USE DEF ListInv
<1>1. StoreTypeOK' /\ StoreInv'
  BY UnshareStep DEF ListInspect, Charge
<1>2. lpc = "inspect" /\ candidates # <<>> /\ step = "locked"
  BY DEF ListInspect, Charge, PlaceInv
<1>3. /\ UNCHANGED <<id, entry, view, phase, size, acknowledged, removed>>
      /\ UNCHANGED <<created, lpc, unscanned, candidates, summaries, listed, known>>
      /\ opened' = opened /\ step' = "done" /\ shown' = Report
  BY DEF ListInspect, Charge, Unshare, files, scanning, InspectReturns
<1>4. opened \in Writer /\ id[opened] = Head(candidates) /\ Lister \in shared[opened]
  BY <1>2 DEF InspectInv
<1>5. phase[opened] \in {"closed", "gone"} \/ view[opened] = "Corrupt"
  BY <1>4 DEF StoreInv, FileInv
<1>6. "Corrupt" \notin Projected /\ View \subseteq Status
  BY StoreAssumption DEF Projected, Status, View
<1>7. Report \in View
  BY <1>4 DEF Report, StoreTypeOK, View
<1>8. Report \in Projected => Closed(opened, Head(candidates), Report)
  BY <1>4, <1>5, <1>6 DEF Report, Closed
<1>9. InspectInv'
  <2>1. Report # "none"
    BY <1>7, StoreAssumption DEF View
  <2> QED
    BY <1>3, <1>8, <2>1 DEF InspectInv, Closed
<1>10. opened' \in Writer \cup {None} /\ shown' \in Status \cup {"none", "Missing"}
  BY <1>3, <1>4, <1>6, <1>7
<1>11. ASSUME NEW w \in known \ removed, id[w] = Head(candidates)
       PROVE  opened = w /\ Report = view[w]
  <2>1. opened = w
    BY <1>2, <1>11 DEF KnownInv
  <2>2. entry[id[w]] = w
    BY KnownFile DEF ListTypeOK
  <2> QED
    BY <2>1, <2>2, <1>11 DEF Report
<1> QED
  BY <1>1, <1>2, <1>3, <1>9, <1>10, <1>11, Inspects

LEMMA SummarizeInv ==
    ASSUME ListInv, Summarize
    PROVE  ListInv'
<1> USE DEF ListInv
<1> DEFINE h == Head(candidates)
           time == IF shown \in Projected THEN created[opened] ELSE 0
           summary == [id |-> h, status |-> shown, created |-> time]
<1>1. StoreTypeOK' /\ StoreInv' /\ Keeps
  BY StoreStays, SharingKeeps DEF Summarize
<1>2. lpc = "inspect" /\ candidates # <<>> /\ step = "done" /\ shown # "none"
  BY DEF Summarize, PlaceInv, InspectInv
<1>3. /\ h \in Id /\ candidates' \in Seq(Id)
      /\ ToSet(candidates) = {h} \cup ToSet(candidates')
      /\ Distinct(candidates') /\ h \notin ToSet(candidates')
  BY <1>2, SetOfTail DEF Summarize, ListTypeOK, MetInv
<1>4. /\ UNCHANGED <<id, view, phase, acknowledged, removed>>
      /\ UNCHANGED <<opened, shown, created, lpc, unscanned, listed, known>>
      /\ step' = "open" /\ listed = "none"
  BY <1>2 DEF Summarize, storeVars, files, scanning, PlaceInv
<1>5. shown \in Projected => Closed(opened, h, shown) /\ time = created[opened]
  BY <1>2 DEF InspectInv
<1>6. time \in Nat /\ time \in Times \cup {0} /\ (shown \in Projected <=> time # 0)
  <2>1. ASSUME shown \in Projected
        PROVE  time \in Times /\ time \in Nat \ {0}
    <3>1. time \in Times
      BY <2>1, <1>5 DEF Closed, ListTypeOK
    <3>2. Times \subseteq Nat \ {0}
      BY ListAssumption
    <3> QED
      BY <3>1, <3>2
  <2>2. shown \notin Projected => time = 0
    OBVIOUS
  <2> QED
    BY <2>1, <2>2
<1>7. shown # "Missing" => shown \in Status
  BY <1>2 DEF ListTypeOK
<1> HIDE DEF h, time
<1>8. summary.id = h /\ summary.status = shown /\ summary.created = time
  OBVIOUS
<1>9. shown # "Missing" => summary \in Summary
  BY <1>3, <1>6, <1>7 DEF Summary
<1>10. \/ shown = "Missing" /\ summaries' = summaries
       \/ shown # "Missing" /\ summaries' = Append(summaries, summary)
  BY DEF Summarize, h, time
<1>11. "Missing" \notin Projected
  BY StoreAssumption DEF Projected
<1> HIDE DEF summary
<1>12. summaries \in Seq(Summary) /\ DistinctIds(summaries)
       /\ \A s \in ToSet(summaries) : s.id \notin ToSet(candidates)
  BY DEF ListTypeOK, MetInv
<1>13. /\ summaries' \in Seq(Summary) /\ DistinctIds(summaries')
       /\ ToSet(summaries) \subseteq ToSet(summaries')
       /\ \A s \in ToSet(summaries') :
              s \in ToSet(summaries) \/ (s = summary /\ shown # "Missing")
       /\ shown # "Missing" => summary \in ToSet(summaries')
  <2>1. CASE shown = "Missing"
    BY <2>1, <1>10, <1>12
  <2>2. CASE shown # "Missing"
    <3>1. \A s \in ToSet(summaries) : s.id # summary.id
      BY <1>3, <1>8, <1>12
    <3>2. /\ Append(summaries, summary) \in Seq(Summary)
          /\ DistinctIds(Append(summaries, summary))
          /\ ToSet(Append(summaries, summary)) = ToSet(summaries) \cup {summary}
      BY <2>2, <3>1, <1>9, <1>12, SetOfAppend
    <3> QED
      BY <2>2, <3>2, <1>10
  <2> QED
    BY <2>1, <2>2
<1>14. ListTypeOK'
  BY <1>3, <1>4, <1>13 DEF ListTypeOK
<1>15. PlaceInv' /\ InspectInv' /\ OrderInv'
  BY <1>2, <1>4 DEF PlaceInv, InspectInv, OrderInv
<1>16. MetInv'
  <2>1. \A i \in ToSet(candidates') : i \notin unscanned'
    BY <1>3, <1>4 DEF MetInv
  <2>2. \A s \in ToSet(summaries') : s.id \notin ToSet(candidates')
    BY <1>3, <1>8, <1>12, <1>13
  <2> QED
    BY <2>1, <2>2, <1>3, <1>13 DEF MetInv
<1>17. SummaryInv'
  <2> SUFFICES ASSUME NEW s \in ToSet(summaries')
               PROVE  True(s)'
    BY DEF SummaryInv
  <2>1. CASE s \in ToSet(summaries)
    BY <2>1, <1>4 DEF SummaryInv, True, Closed
  <2>2. CASE s = summary
    <3>1. s.status \in Projected <=> s.created # 0
      BY <2>2, <1>6, <1>8
    <3>2. ASSUME s.status \in Projected
          PROVE  Closed(opened, s.id, s.status) /\ created[opened] = s.created
      BY <2>2, <3>2, <1>5, <1>8
    <3> QED
      BY <3>1, <3>2, <1>4 DEF True, Closed
  <2> QED
    BY <2>1, <2>2, <1>13
<1>18. KnownInv'
  <2>1. ASSUME NEW w \in known \ removed
        PROVE  id[w] \in ToSet(candidates') \/ \E s \in ToSet(summaries') : Tells(s, w)
    <3>1. CASE id[w] = h
      <4>1. shown = "Unavailable" \/ (shown = view[w] /\ opened = w)
        BY <3>1, <1>2 DEF KnownInv, h
      <4>2. view[w] \in Projected /\ view[w] # "Missing"
        BY KnownFile, StoreAssumption DEF ListTypeOK, Projected
      <4>3. shown # "Missing"
        BY <4>1, <4>2
      <4>4. Tells(summary, w)
        BY <3>1, <4>1, <4>2, <1>5, <1>8 DEF Tells
      <4> QED
        BY <4>3, <4>4, <1>13
    <3>2. CASE id[w] \in ToSet(candidates')
      BY <3>2
    <3>3. CASE Told(w)
      BY <3>3, <1>13 DEF Told
    <3>4. id[w] \in ToSet(candidates) \/ Told(w)
      BY <1>2 DEF KnownInv
    <3> QED
      BY <3>1, <3>2, <3>3, <3>4, <1>3
  <2> QED
    BY <2>1, <1>2, <1>4 DEF KnownInv, Told, Tells
<1> QED
  BY <1>1, <1>14, <1>15, <1>16, <1>17, <1>18

LEMMA ListedInv ==
    ASSUME ListInv, Listed
    PROVE  ListInv'
<1> USE DEF ListInv
<1>1. StoreTypeOK' /\ StoreInv' /\ Keeps
  BY StoreStays, SharingKeeps DEF Listed
<1>2. /\ summaries \in Seq(Summary) /\ DistinctIds(summaries)
      /\ summaries' \in Seqs!SetToSeqs(ToSet(summaries))
      /\ \A i, j \in DOMAIN summaries' : i < j => Precedes(summaries'[i], summaries'[j])
  BY DEF Listed, ToSet, ListTypeOK, MetInv
<1>3. /\ summaries' \in Seq(Summary) /\ ToSet(summaries') = ToSet(summaries)
      /\ DistinctIds(summaries')
  BY <1>2, Sorted
<1>4. /\ UNCHANGED <<id, view, phase, acknowledged, removed>>
      /\ UNCHANGED <<inspection, created, unscanned, candidates, known>>
      /\ lpc = "inspect" /\ candidates = <<>> /\ lpc' = "done"
  BY DEF Listed, storeVars, files, scanning, ListReturn
<1>5. ListTypeOK'
  BY <1>3, <1>4 DEF ListTypeOK, inspection
<1>6. PlaceInv' /\ InspectInv'
  BY <1>4 DEF PlaceInv, InspectInv
<1>7. OrderInv'
  BY <1>2 DEF OrderInv
<1>8. MetInv'
  BY <1>2, <1>3, <1>4 DEF MetInv
<1>9. SummaryInv'
  BY <1>3, <1>4 DEF SummaryInv, True, Closed
<1>10. KnownInv'
  <2>1. \A i : i \notin ToSet(<<>>)
    BY DEF ToSet, Seqs!ToSet
  <2>2. \A w \in known \ removed : Told(w)
    BY <2>1, <1>4 DEF KnownInv
  <2>3. ASSUME NEW w \in known \ removed
        PROVE  Told(w)'
    BY <2>2, <1>3, <1>4 DEF Told, Tells
  <2> QED
    BY <2>3, <1>4 DEF KnownInv
<1> QED
  BY <1>1, <1>5, <1>6, <1>7, <1>8, <1>9, <1>10

LEMMA ListNextInv ==
    ASSUME ListInv, [ListNext]_listVars
    PROVE  ListInv'
BY ListStartInv, NoDirectoryInv, ScanPassesInv, ScanInv, ScanOtherInv, ScanEndsInv,
   GivingUpInv, ListOpenInv, ListBusyInv, ListTryLockInv, ListInspectInv, SummarizeInv,
   ListedInv, ListInspectFailsInv, StoreStepInv, StutterInv
   DEF ListNext, ListStep

LEMMA ListInitInv == ListInit => ListInv
<1> SUFFICES ASSUME ListInit
             PROVE  ListInv
  OBVIOUS
<1>1. StoreTypeOK /\ StoreInv
  BY StoreInitInv DEF ListInit
<1>2. ListTypeOK
  BY EmptySeq DEF ListInit, ListTypeOK
<1>3. PlaceInv /\ InspectInv /\ OrderInv
  BY DEF ListInit, PlaceInv, InspectInv, OrderInv
<1>4. \A i : i \notin ToSet(<<>>)
  BY DEF ToSet, Seqs!ToSet
<1>5. candidates = <<>> /\ summaries = <<>> /\ DOMAIN <<>> = {}
  BY DEF ListInit
<1>6. MetInv /\ SummaryInv
  BY <1>4, <1>5 DEF MetInv, SummaryInv, Distinct, DistinctIds
<1>7. KnownInv
  BY DEF ListInit, KnownInv
<1> QED
  BY <1>1, <1>2, <1>3, <1>6, <1>7 DEF ListInv

-----------------------------------------------------------------------------
(* The limits.  The files that had a name while the list ran, and their     *)
(* ids; the candidates whose file may still be charged.                     *)
There == Writer \ nameless
Ids == {id[w] : w \in There} \ {None}
Pending == ToSet(IF step = "done" THEN Tail(candidates) ELSE candidates)

(* A name that is gone when the list begins does not return. *)
NamelessInv ==
    /\ nameless \subseteq Writer
    /\ \A w \in nameless : id[w] # None /\ entry[id[w]] # w
    /\ lpc = "inspect" /\ step \in {"opened", "locked"} => opened \notin nameless

(* Every entry met is a candidate or no session file. *)
CountInv ==
    /\ limits \in Limits /\ entries \in Nat
    /\ foreign \in 0 .. Others /\ others \in 0 .. foreign
    /\ lpc = "idle" => entries = 0 /\ others = foreign
    /\ lpc = "scan" => entries = Len(candidates) + (foreign - others)
    /\ Len(candidates) + (foreign - others) <= entries
    /\ entries <= limits.directory_entries
    /\ Len(candidates) <= limits.candidates
    /\ ToSet(candidates) \subseteq Ids

(* What is used was set out to be read, of files with a name and once.      *)
ChargeInv ==
    /\ used \in Nat /\ used <= limits.read_bytes
    /\ read \in [Writer -> Nat]
    /\ used = Cardinality(Bytes(read, Writer))
    /\ \A w \in Writer : read[w] # 0 =>
           /\ lpc \notin {"idle", "scan"}
           /\ read[w] <= size[w]
           /\ w \in There /\ id[w] # None
           /\ lpc = "inspect" => id[w] \notin Pending

LimitInv == NamelessInv /\ CountInv /\ ChargeInv /\ RefusedOnlyAboveLimits

LEMMA ByteCount ==
    ASSUME NEW f \in [Writer -> Nat], NEW ws \in SUBSET Writer
    PROVE  /\ IsFiniteSet(Bytes(f, ws)) /\ Cardinality(Bytes(f, ws)) \in Nat
           /\ \A w \in Writer : /\ IsFiniteSet({w} \X (1 .. f[w]))
                                /\ Cardinality({w} \X (1 .. f[w])) = f[w]
<1> DEFINE part == [w \in ws |-> {w} \X (1 .. f[w])]
<1>1. ASSUME NEW w \in Writer
      PROVE  /\ IsFiniteSet({w} \X (1 .. f[w]))
             /\ Cardinality({w} \X (1 .. f[w])) = f[w]
  <2>1. f[w] \in Nat
    OBVIOUS
  <2>2. IsFiniteSet(1 .. f[w]) /\ Cardinality(1 .. f[w]) = f[w]
    BY <2>1, FS_Interval
  <2>3. IsFiniteSet({w}) /\ Cardinality({w}) = 1
    BY FS_Singleton
  <2>4. /\ IsFiniteSet({w} \X (1 .. f[w]))
        /\ Cardinality({w} \X (1 .. f[w])) = Cardinality({w}) * Cardinality(1 .. f[w])
    BY <2>2, <2>3, FS_Product
  <2> QED
    BY <2>1, <2>2, <2>3, <2>4
<1>2. IsFiniteSet(ws)
  BY FS_Subset, ListAssumption
<1>3. part \in Surjection(ws, {part[w] : w \in ws})
  BY DEF Surjection
<1>4. IsFiniteSet({part[w] : w \in ws})
  BY <1>2, <1>3, FS_Surjection
<1>5. Bytes(f, ws) = UNION {part[w] : w \in ws}
  BY DEF Bytes
<1>6. \A x \in {part[w] : w \in ws} : IsFiniteSet(x)
  BY <1>1
<1>7. IsFiniteSet(Bytes(f, ws))
  BY <1>4, <1>5, <1>6, FS_UNION
<1> QED
  BY <1>1, <1>7, FS_CardinalityType

(* More files, and longer ones, have no fewer bytes. *)
LEMMA MoreBytes ==
    ASSUME NEW f \in [Writer -> Nat], NEW g \in [Writer -> Nat],
           NEW ws \in SUBSET Writer, NEW vs \in SUBSET ws,
           \A w \in vs : f[w] <= g[w]
    PROVE  Cardinality(Bytes(f, vs)) <= Cardinality(Bytes(g, ws))
<1>1. Bytes(f, vs) \subseteq Bytes(g, ws)
  <2>1. \A w \in vs : 1 .. f[w] \subseteq 1 .. g[w]
    OBVIOUS
  <2> QED
    BY <2>1 DEF Bytes
<1> QED
  BY <1>1, ByteCount, FS_Subset

LEMMA OneMoreFile ==
    ASSUME NEW f \in [Writer -> Nat], NEW ws \in SUBSET Writer, NEW w \in Writer \ ws
    PROVE  Cardinality(Bytes(f, ws \cup {w})) = Cardinality(Bytes(f, ws)) + f[w]
<1> DEFINE rest == Bytes(f, ws)
           part == {w} \X (1 .. f[w])
<1>1. Bytes(f, ws \cup {w}) = rest \cup part
  BY DEF Bytes
<1>2. rest \cap part = {}
  BY DEF Bytes
<1>3. /\ IsFiniteSet(rest) /\ Cardinality(rest) \in Nat
      /\ IsFiniteSet(part) /\ Cardinality(part) = f[w]
  BY ByteCount
<1> HIDE DEF rest, part
<1>4. Cardinality(rest \cup part) = Cardinality(rest) + Cardinality(part) - Cardinality({})
  BY <1>2, <1>3, FS_Union
<1>5. Cardinality({}) = 0 /\ f[w] \in Nat
  BY FS_EmptySet
<1>6. Cardinality(rest \cup part) = Cardinality(rest) + f[w]
  BY <1>3, <1>4, <1>5
<1> QED
  BY <1>1, <1>6 DEF rest

LEMMA SizesAreNumbers ==
    /\ None \notin Id
    /\ StoreTypeOK => size \in [Writer -> Nat] /\ id \in [Writer -> Id \cup {None}]
    /\ StoreTypeOK' => size' \in [Writer -> Nat] /\ id' \in [Writer -> Id \cup {None}]
BY StoreAssumption DEF StoreTypeOK

LEMMA FinitelyManyIds ==
    ASSUME NEW f \in [Writer -> Id \cup {None}],
           NEW T \in SUBSET {f[w] : w \in Writer}
    PROVE  IsFiniteSet(T) /\ Cardinality(T) \in Nat
<1>1. f \in Surjection(Writer, {f[w] : w \in Writer})
  BY DEF Surjection
<1> QED
  BY <1>1, FS_Surjection, FS_Subset, FS_CardinalityType, ListAssumption

(* As many candidates as ids. *)
LEMMA CandidateCount ==
    ASSUME NEW q \in Seq(Id), Distinct(q)
    PROVE  Cardinality(ToSet(q)) = Len(q)
<1>1. DOMAIN q = 1 .. Len(q) /\ Len(q) \in Nat /\ q \in [1 .. Len(q) -> Id]
  BY LenProperties
<1>2. q \in Surjection(1 .. Len(q), ToSet(q))
  BY <1>1, SetOfSeq DEF Surjection
<1>3. q \in Injection(1 .. Len(q), ToSet(q))
  <2>1. q \in [1 .. Len(q) -> ToSet(q)]
    BY <1>2 DEF Surjection
  <2>2. \A i, j \in 1 .. Len(q) : q[i] = q[j] => i = j
    BY <1>1 DEF Distinct
  <2> QED
    BY <2>1, <2>2, <1>1 DEF Injection, IsInjective
<1>4. IsFiniteSet(1 .. Len(q)) /\ Cardinality(1 .. Len(q)) = Len(q)
  BY <1>1, FS_Interval
<1> QED
  BY <1>2, <1>3, <1>4, FS_Surjection

(* The bytes of one file more among all of them. *)
LEMMA OneMoreRead ==
    ASSUME NEW f \in [Writer -> Nat], NEW w \in Writer, f[w] = 0, NEW n \in Nat,
           NEW g, g = [f EXCEPT ![w] = n]
    PROVE  /\ g \in [Writer -> Nat]
           /\ Cardinality(Bytes(g, Writer)) = Cardinality(Bytes(f, Writer)) + n
<1> DEFINE rest == Writer \ {w}
<1>1. g \in [Writer -> Nat] /\ g[w] = n /\ \A v \in rest : g[v] = f[v]
  OBVIOUS
<1>2. Bytes(g, rest) = Bytes(f, rest)
  BY <1>1 DEF Bytes
<1>3. rest \in SUBSET Writer /\ w \in Writer \ rest /\ rest \cup {w} = Writer
  OBVIOUS
<1> HIDE DEF rest
<1>4. Cardinality(Bytes(g, Writer)) = Cardinality(Bytes(g, rest)) + g[w]
  BY <1>1, <1>3, OneMoreFile
<1>5. Cardinality(Bytes(f, Writer)) = Cardinality(Bytes(f, rest)) + f[w]
  BY <1>3, OneMoreFile
<1>6. Cardinality(Bytes(f, rest)) \in Nat
  BY <1>3, ByteCount
<1> QED
  BY <1>1, <1>2, <1>4, <1>5, <1>6

-----------------------------------------------------------------------------
(* What the steps of the others, and of an inspection, leave true of them. *)

LEMMA IdsStay ==
    ASSUME Keeps, nameless' = nameless
    PROVE  Ids \subseteq Ids'
BY DEF Keeps, Ids, There

LEMMA IdsAreFinite ==
    ASSUME StoreTypeOK
    PROVE  IsFiniteSet(Ids) /\ Cardinality(Ids) \in Nat
<1>1. Ids \subseteq {id[w] : w \in Writer}
  BY DEF Ids, There
<1> QED
  BY <1>1, SizesAreNumbers, FinitelyManyIds

LEMMA RefusalStays ==
    ASSUME StoreTypeOK, StoreTypeOK', Keeps, RefusedOnlyAboveLimits,
           limits \in Limits, foreign \in Nat, UNCHANGED <<limits, foreign, nameless>>,
           listed' = listed \/ listed' # "InventoryTooLarge"
    PROVE  RefusedOnlyAboveLimits'
<1> SUFFICES ASSUME listed = "InventoryTooLarge"
             PROVE  RefusedOnlyAboveLimits'
  BY DEF RefusedOnlyAboveLimits
<1>1. /\ Cardinality(Ids) <= Cardinality(Ids')
      /\ Cardinality(Ids) \in Nat /\ Cardinality(Ids') \in Nat
  <2>1. IsFiniteSet(Ids') /\ Cardinality(Ids') \in Nat
    <3>1. Ids' \subseteq {id'[w] : w \in Writer}
      BY DEF Ids, There
    <3> QED
      BY <3>1, SizesAreNumbers, FinitelyManyIds
  <2> QED
    BY <2>1, IdsAreFinite, IdsStay, FS_Subset
<1> DEFINE bytes == Cardinality(Bytes(size, There))
<1>2. /\ bytes <= bytes' /\ bytes \in Nat /\ bytes' \in Nat
  <2>1. size \in [Writer -> Nat] /\ size' \in [Writer -> Nat]
    BY SizesAreNumbers
  <2>2. There \subseteq Writer /\ There' = There
    BY DEF There
  <2>3. \A w \in There : size[w] <= size'[w]
    BY <2>1, <2>2 DEF Keeps
  <2> QED
    BY <2>1, <2>2, <2>3, MoreBytes, ByteCount
<1>3. limits.candidates \in Nat /\ limits.directory_entries \in Nat /\ limits.read_bytes \in Nat
  BY ListAssumption
<1>4. \/ Cardinality(Ids) > limits.candidates
      \/ Cardinality(Ids) + foreign > limits.directory_entries
      \/ bytes > limits.read_bytes
  BY DEF RefusedOnlyAboveLimits, Ids, There
<1> HIDE DEF bytes
<1>5. \/ Cardinality(Ids') > limits'.candidates
      \/ Cardinality(Ids') + foreign' > limits'.directory_entries
      \/ bytes' > limits'.read_bytes
  BY <1>1, <1>2, <1>3, <1>4
<1> QED
  BY <1>5 DEF RefusedOnlyAboveLimits, Ids, There, bytes

LEMMA NamelessStays ==
    ASSUME NamelessInv, Keeps, nameless' = nameless,
           lpc' = "inspect" /\ step' \in {"opened", "locked"} => opened' \notin nameless
    PROVE  NamelessInv'
BY DEF NamelessInv, Keeps

LEMMA CountStays ==
    ASSUME CountInv, Keeps, UNCHANGED <<limits, entries, others, foreign, nameless>>,
           candidates \in Seq(Id), candidates' \in Seq(Id),
           Len(candidates') <= Len(candidates),
           ToSet(candidates') \subseteq ToSet(candidates),
           lpc' = "idle" => lpc = "idle",
           lpc' = "scan" => lpc = "scan" /\ candidates' = candidates
    PROVE  CountInv'
<1>1. Ids \subseteq Ids'
  BY IdsStay
<1>2. /\ Len(candidates) \in Nat /\ Len(candidates') \in Nat
      /\ foreign \in Int /\ others \in Int /\ entries \in Nat
      /\ limits.candidates \in Nat
  BY LenProperties, ListAssumption DEF CountInv
<1>3. /\ Len(candidates') + (foreign - others) <= entries
      /\ Len(candidates') <= limits.candidates
  BY <1>2 DEF CountInv
<1> QED
  BY <1>1, <1>3 DEF CountInv

(* A step that charges nothing. *)
LEMMA ChargeStays ==
    ASSUME StoreTypeOK, StoreTypeOK', Keeps, ChargeInv,
           UNCHANGED <<budget, limits, nameless>>,
           lpc' \in {"idle", "scan"} => lpc \in {"idle", "scan"},
           lpc' = "inspect" =>
               lpc = "scan" \/ (lpc = "inspect" /\ Pending' \subseteq Pending)
    PROVE  ChargeInv'
<1>1. size \in [Writer -> Nat] /\ size' \in [Writer -> Nat]
  BY SizesAreNumbers
<1>2. ASSUME NEW w \in Writer, read[w] # 0
      PROVE  /\ lpc' \notin {"idle", "scan"}
             /\ read[w] <= size'[w]
             /\ w \in There' /\ id'[w] # None
             /\ lpc' = "inspect" => id'[w] \notin Pending'
  <2>1. /\ lpc \notin {"idle", "scan"} /\ read[w] <= size[w] /\ read[w] \in Nat
        /\ w \in There /\ id[w] # None
        /\ lpc = "inspect" => id[w] \notin Pending
    BY <1>2 DEF ChargeInv
  <2>2. id'[w] = id[w] /\ size'[w] >= size[w] /\ size[w] \in Nat /\ size'[w] \in Nat
    BY <1>1, <2>1 DEF Keeps
  <2>3. read[w] <= size'[w]
    BY <2>1, <2>2
  <2>4. w \in There' /\ lpc' \notin {"idle", "scan"}
    BY <2>1 DEF There
  <2>5. lpc' = "inspect" => id'[w] \notin Pending'
    BY <2>1, <2>2
  <2> QED
    BY <2>1, <2>2, <2>3, <2>4, <2>5
<1> QED
  BY <1>2 DEF ChargeInv

(* Most steps neither charge nor find anything. *)
LEMMA LimitsStay ==
    ASSUME ListInv, ListInv', LimitInv, Keeps,
           UNCHANGED <<limits, entries, others, foreign, nameless, candidates, budget>>,
           lpc' = lpc \/ lpc' = "done",
           listed' = listed \/ listed' # "InventoryTooLarge",
           lpc' = "inspect" => step' = "done" \/ step # "done",
           lpc' = "inspect" /\ step' \in {"opened", "locked"} => opened' \notin nameless
    PROVE  LimitInv'
<1>1. candidates \in Seq(Id) /\ Len(candidates) \in Nat
  BY LenProperties DEF ListInv, ListTypeOK
<1>2. CountInv'
  <2>1. Len(candidates') <= Len(candidates)
    BY <1>1
  <2> QED
    BY <1>1, <2>1, CountStays DEF LimitInv
<1>3. RefusedOnlyAboveLimits'
  <2>1. limits \in Limits /\ foreign \in Nat
    BY DEF LimitInv, CountInv
  <2> QED
    BY <2>1, RefusalStays DEF LimitInv, ListInv
<1>4. NamelessInv'
  BY NamelessStays DEF LimitInv
<1>5. ASSUME lpc' = "inspect"
      PROVE  Pending' \subseteq Pending
  <2>1. CASE step' = "done" /\ step # "done"
    <3>1. candidates # <<>>
      BY <2>1, <1>5 DEF ListInv, PlaceInv
    <3>2. ToSet(Tail(candidates)) \subseteq ToSet(candidates)
      BY <1>1, <3>1, SetOfTail
    <3> QED
      BY <2>1, <3>2 DEF Pending
  <2>2. CASE ~(step' = "done" /\ step # "done")
    BY <2>2, <1>5 DEF Pending
  <2> QED
    BY <2>1, <2>2
<1>6. ChargeInv'
  BY <1>5, ChargeStays DEF LimitInv, ListInv
<1> QED
  BY <1>2, <1>3, <1>4, <1>6 DEF LimitInv

LEMMA QuietLimits ==
    ASSUME ListInv, ListInv', LimitInv,
           \/ StoreStep \/ NoDirectory \/ ListFails \/ \E i \in Id : ScanPasses(i)
           \/ ListOpen \/ ListBusy \/ ListTryLock \/ ListInspectFails \/ Listed
           \/ UNCHANGED listVars
    PROVE  LimitInv'
<1> USE DEF listing, scanning, inspection
<1>0. StoreTypeOK
  BY DEF ListInv
<1>1. CASE StoreStep
  <2>1. Keeps
    BY <1>1, WriterKeeps, RemoveKeeps DEF StoreStep, ListInv
  <2> QED
    BY <1>1, <2>1, LimitsStay DEF StoreStep, LimitInv, NamelessInv
<1>2. CASE NoDirectory
  BY <1>0, <1>2, SharingKeeps, LimitsStay DEF NoDirectory, ListReturn
<1>3. CASE ListFails
  BY <1>0, <1>3, SharingKeeps, LimitsStay DEF ListFails, ListReturn
<1>4. CASE \E i \in Id : ScanPasses(i)
  <2>1. PICK i \in Id : ScanPasses(i)
    BY <1>4
  <2> QED
    BY <1>0, <2>1, SharingKeeps, LimitsStay DEF ScanPasses
<1>5. CASE ListOpen
  <2>1. /\ UNCHANGED <<storeVars, listing>> /\ lpc = "inspect" /\ step = "open"
        /\ opened' = entry[Head(candidates)] /\ candidates # <<>>
    BY <1>5 DEF ListOpen
  <2>2. Head(candidates) \in Id
    BY <2>1, SetOfTail DEF ListInv, ListTypeOK
  <2>3. step' = "opened" => opened' # None
    BY <1>5 DEF ListOpen, InspectReturns
  <2>4. step' = "opened" => opened' \notin nameless
    BY <2>1, <2>2, <2>3 DEF ListInv, StoreInv, LimitInv, NamelessInv
  <2>5. step' \in {"opened", "done"}
    BY <1>5 DEF ListOpen, InspectReturns
  <2> QED
    BY <1>0, <2>1, <2>4, <2>5, SharingKeeps, LimitsStay
<1>6. CASE ListBusy
  BY <1>0, <1>6, SharingKeeps, LimitsStay DEF ListBusy, InspectReturns
<1>7. CASE ListTryLock
  <2>1. Keeps
    BY <1>0, <1>7, SharingKeeps DEF ListTryLock, InspectInv, ListInv
  <2>2. /\ lpc = "inspect" /\ step = "opened" /\ step' = "locked"
        /\ UNCHANGED <<opened, shown, listing>>
    BY <1>7 DEF ListTryLock
  <2>3. opened' \notin nameless
    BY <2>2 DEF LimitInv, NamelessInv
  <2> QED
    BY <2>1, <2>2, <2>3, LimitsStay
<1>8. CASE ListInspectFails
  BY <1>0, <1>8, SharingKeeps, LimitsStay DEF ListInspectFails, InspectReturns
<1>9. CASE Listed
  BY <1>0, <1>9, SharingKeeps, LimitsStay DEF Listed, ListReturn
<1>10. CASE UNCHANGED listVars
  BY <1>0, <1>10, SharingKeeps, LimitsStay DEF listVars, LimitInv, NamelessInv
<1> QED
  BY <1>1, <1>2, <1>3, <1>4, <1>5, <1>6, <1>7, <1>8, <1>9, <1>10

LEMMA ListStartLimits ==
    ASSUME ListInv, ListInv', LimitInv, ListStart
    PROVE  LimitInv'
<1>1. /\ lpc = "idle" /\ lpc' = "scan" /\ UNCHANGED <<storeVars, limits, entries>>
      /\ UNCHANGED <<candidates, used, read, listed>>
      /\ foreign' \in 0 .. Others /\ others' = foreign'
      /\ nameless' = {w \in Writer : id[w] # None /\ entry[id[w]] # w}
  BY DEF ListStart
<1>2. candidates = <<>> /\ listed = "none"
  BY <1>1 DEF ListInv, PlaceInv
<1>3. NamelessInv'
  BY <1>1 DEF NamelessInv, storeVars
<1>4. CountInv'
  <2>1. Len(candidates') = 0 /\ ToSet(candidates') = {}
    BY <1>1, <1>2, EmptySeq DEF ToSet, Seqs!ToSet
  <2>2. entries' = 0 /\ foreign' - others' = 0 /\ others' \in 0 .. foreign'
    <3>1. \A n \in 0 .. Others : n - n = 0 /\ n \in 0 .. n
      BY ListAssumption
    <3>2. entries' = 0
      BY <1>1 DEF LimitInv, CountInv
    <3> QED
      BY <1>1, <3>1, <3>2
  <2>3. limits' \in Limits /\ limits'.directory_entries \in Nat /\ limits'.candidates \in Nat
    BY <1>1, ListAssumption DEF LimitInv, CountInv
  <2>4. /\ entries' \in Nat /\ entries' = Len(candidates') + (foreign' - others')
        /\ Len(candidates') + (foreign' - others') <= entries'
        /\ entries' <= limits'.directory_entries /\ Len(candidates') <= limits'.candidates
    BY <2>1, <2>2, <2>3
  <2>5. ToSet(candidates') \subseteq Ids'
    BY <2>1
  <2>6. lpc' = "scan" /\ foreign' \in 0 .. Others
    BY <1>1
  <2> QED
    BY <2>2, <2>3, <2>4, <2>5, <2>6 DEF CountInv
<1>5. ChargeInv'
  <2>1. \A w \in Writer : read[w] = 0
    BY <1>1 DEF LimitInv, ChargeInv
  <2> QED
    BY <1>1, <2>1 DEF LimitInv, ChargeInv
<1>6. RefusedOnlyAboveLimits'
  BY <1>1, <1>2 DEF RefusedOnlyAboveLimits
<1> QED
  BY <1>3, <1>4, <1>5, <1>6 DEF LimitInv

LEMMA ScanLimits ==
    ASSUME ListInv, ListInv', LimitInv,
           ScanOther \/ ScanEnds \/ \E i \in Id : Scan(i)
    PROVE  LimitInv'
<1> USE DEF inspection
<1>1. StoreTypeOK /\ StoreTypeOK' /\ UNCHANGED storeVars
  BY DEF ListInv, ScanOther, ScanEnds, Scan
<1>2. Keeps
  BY <1>1, SharingKeeps
<1>3. /\ UNCHANGED <<limits, used, read, foreign, nameless, listed>>
      /\ lpc = "scan" /\ lpc' \in {"scan", "inspect"}
      /\ step = "open" /\ step' = "open"
  BY DEF ScanOther, ScanEnds, Scan, scanning, ListInv, PlaceInv
<1>4. RefusedOnlyAboveLimits'
  <2>1. limits \in Limits /\ foreign \in Nat
    BY DEF LimitInv, CountInv
  <2> QED
    BY <1>1, <1>2, <1>3, <2>1, RefusalStays DEF LimitInv
<1>5. ChargeInv' /\ NamelessInv'
  BY <1>1, <1>2, <1>3, ChargeStays, NamelessStays DEF LimitInv
<1>6. /\ limits \in Limits /\ entries \in Nat /\ foreign \in 0 .. Others
      /\ others \in 0 .. foreign /\ Others \in Nat
      /\ entries = Len(candidates) + (foreign - others)
      /\ candidates \in Seq(Id) /\ Len(candidates) \in Nat /\ ToSet(candidates) \subseteq Ids
      /\ Ids' = Ids
      /\ limits.candidates \in Nat /\ limits.directory_entries \in Nat
      /\ Len(candidates) <= limits.candidates /\ entries <= limits.directory_entries
  BY <1>1, <1>3, ListAssumption, LenProperties
     DEF LimitInv, CountInv, ListInv, ListTypeOK, Ids, There, storeVars
<1>7. CountInv'
  <2>1. CASE ScanOther
    <3>1. /\ entries' = entries + 1 /\ others' = others - 1 /\ others > 0
          /\ entries < limits.directory_entries /\ candidates' = candidates
      BY <2>1 DEF ScanOther
    <3>2. foreign \in Nat /\ others \in Nat
      BY <1>6
    <3>3. /\ entries' \in Nat /\ entries' <= limits.directory_entries
          /\ others' \in 0 .. foreign
          /\ entries' = Len(candidates) + (foreign - others')
      BY <1>6, <3>1, <3>2
    <3>4. Len(candidates) + (foreign - others') <= entries'
      BY <3>3
    <3> QED
      BY <1>3, <1>6, <3>1, <3>3, <3>4 DEF CountInv
  <2>2. CASE ScanEnds
    <3>1. /\ entries' = entries /\ others' = others /\ lpc' = "inspect"
          /\ candidates' \in Seqs!SetToSeqs(ToSet(candidates))
      BY <2>2 DEF ScanEnds, scanning, ToSet
    <3>2. Distinct(candidates)
      BY DEF ListInv, MetInv
    <3>3. /\ candidates' \in Seq(Id) /\ Distinct(candidates')
          /\ ToSet(candidates') = ToSet(candidates)
      BY <1>6, <3>1, Sorted
    <3>4. Len(candidates') = Len(candidates)
      BY <1>6, <3>2, <3>3, CandidateCount
    <3> QED
      BY <1>2, <1>3, <1>6, <3>1, <3>3, <3>4, CountStays DEF LimitInv
  <2>3. CASE \E i \in Id : Scan(i)
    <3>1. PICK i \in Id : Scan(i)
      BY <2>3
    <3>2. /\ entries' = entries + 1 /\ others' = others
          /\ entries < limits.directory_entries /\ Len(candidates) < limits.candidates
          /\ candidates' = Append(candidates, i) /\ entry[i] # None
      BY <3>1 DEF Scan
    <3>3. i \in Ids
      <4>1. entry[i] \in Writer /\ id[entry[i]] = i
        BY <3>2 DEF ListInv, StoreTypeOK, StoreInv
      <4>2. entry[i] \in There
        BY <4>1 DEF There, LimitInv, NamelessInv
      <4> QED
        BY <4>1, <4>2, SizesAreNumbers DEF Ids
    <3>4. ToSet(candidates') = ToSet(candidates) \cup {i}
      BY <1>6, <3>2, SetOfAppend
    <3>5. Len(candidates') = Len(candidates) + 1
      BY <1>6, <3>2, AppendProperties
    <3>6. foreign - others \in Nat
      BY <1>6
    <3>7. /\ entries' \in Nat /\ entries' <= limits.directory_entries
          /\ entries' = Len(candidates') + (foreign - others)
          /\ Len(candidates') + (foreign - others) <= entries'
          /\ Len(candidates') <= limits.candidates
      BY <1>6, <3>2, <3>5, <3>6
    <3>8. ToSet(candidates') \subseteq Ids'
      BY <1>6, <3>3, <3>4
    <3> QED
      BY <1>3, <1>6, <3>2, <3>7, <3>8 DEF CountInv
  <2> QED
    BY <2>1, <2>2, <2>3
<1> QED
  BY <1>4, <1>5, <1>7 DEF LimitInv

(* A scan refuses the store when it holds more than the limits allow. *)
LEMMA ScanTooLargeLimits ==
    ASSUME ListInv, ListInv', LimitInv, ScanTooLarge
    PROVE  LimitInv'
<1>1. StoreTypeOK /\ StoreTypeOK' /\ UNCHANGED storeVars
  BY DEF ListInv, ScanTooLarge
<1>2. Keeps
  BY <1>1, SharingKeeps
<1>3. /\ UNCHANGED <<limits, used, read, entries, others, foreign, nameless, candidates>>
      /\ lpc = "scan" /\ lpc' = "done"
  BY DEF ScanTooLarge, ListReturn, scanning
<1>4. /\ limits \in Limits /\ entries \in Nat /\ foreign \in Nat /\ others \in Nat
      /\ others <= foreign
      /\ entries = Len(candidates) + (foreign - others)
      /\ candidates \in Seq(Id) /\ Len(candidates) \in Nat
      /\ Distinct(candidates) /\ ToSet(candidates) \subseteq Ids
  BY <1>3, LenProperties DEF LimitInv, CountInv, ListInv, ListTypeOK, MetInv
<1>5. NamelessInv' /\ ChargeInv'
  BY <1>1, <1>2, <1>3, NamelessStays, ChargeStays DEF LimitInv
<1>6. CountInv'
  <2>1. Len(candidates') <= Len(candidates)
    BY <1>3, <1>4
  <2> QED
    BY <1>2, <1>3, <1>4, <2>1, CountStays DEF LimitInv
<1>7. limits.candidates \in Nat /\ limits.directory_entries \in Nat
  BY <1>4, ListAssumption
<1>8. IsFiniteSet(Ids) /\ Cardinality(Ids) \in Nat
  BY <1>1, IdsAreFinite
<1>9. Cardinality(ToSet(candidates)) = Len(candidates)
  BY <1>4, CandidateCount
<1>10. Len(candidates) <= Cardinality(Ids)
  BY <1>4, <1>8, <1>9, FS_Subset
<1>11. ASSUME NEW i \in unscanned, entry[i] # None
       PROVE  Len(candidates) < Cardinality(Ids)
  <2>1. i \in Id /\ i \notin ToSet(candidates)
    BY DEF ListInv, ListTypeOK, MetInv
  <2>2. entry[i] \in Writer /\ id[entry[i]] = i
    BY <1>11, <2>1 DEF ListInv, StoreTypeOK, StoreInv
  <2>3. entry[i] \in There
    BY <2>2 DEF There, LimitInv, NamelessInv
  <2>4. i \in Ids
    BY <2>1, <2>2, <2>3, SizesAreNumbers DEF Ids
  <2>5. Cardinality(Ids) # Cardinality(ToSet(candidates))
    BY <1>4, <1>8, <2>1, <2>4, FS_Subset
  <2> QED
    BY <1>4, <1>8, <1>9, <1>10, <2>5
<1>12. \/ others > 0 /\ entries >= limits.directory_entries
       \/ /\ \E i \in unscanned : entry[i] # None
          /\ entries >= limits.directory_entries \/ Len(candidates) >= limits.candidates
  BY DEF ScanTooLarge
<1>13. \/ Cardinality(Ids) > limits.candidates
       \/ Cardinality(Ids) + foreign > limits.directory_entries
  BY <1>4, <1>7, <1>8, <1>10, <1>11, <1>12
<1>14. RefusedOnlyAboveLimits'
  <2>1. {id'[w] : w \in Writer \ nameless'} \ {None} = Ids
        /\ limits' = limits /\ foreign' = foreign
    BY <1>1, <1>3 DEF Ids, There, storeVars
  <2> QED
    BY <1>13, <2>1 DEF RefusedOnlyAboveLimits
<1> QED
  BY <1>5, <1>6, <1>14 DEF LimitInv

(* The file under inspection has not been charged before. *)
LEMMA OpenedIsNew ==
    ASSUME ListInv, LimitInv, lpc = "inspect", step = "locked"
    PROVE  /\ opened \in There /\ There \subseteq Writer /\ opened \in Writer
           /\ id[opened] = Head(candidates) /\ id[opened] # None
           /\ candidates \in Seq(Id) /\ candidates # <<>>
           /\ Head(candidates) \in ToSet(candidates)
           /\ Head(candidates) \notin ToSet(Tail(candidates))
           /\ ToSet(Tail(candidates)) \subseteq ToSet(candidates)
           /\ read \in [Writer -> Nat] /\ read[opened] = 0
           /\ size \in [Writer -> Nat] /\ size[opened] \in Nat
           /\ used \in Nat /\ used = Cardinality(Bytes(read, Writer))
<1>1. opened \in Writer /\ id[opened] = Head(candidates)
  BY DEF ListInv, InspectInv
<1>2. opened \in There /\ There \subseteq Writer
  BY <1>1 DEF There, LimitInv, NamelessInv
<1>3. candidates # <<>> /\ candidates \in Seq(Id) /\ Distinct(candidates)
  BY DEF ListInv, PlaceInv, ListTypeOK, MetInv
<1>4. /\ Head(candidates) \in ToSet(candidates) /\ Head(candidates) \in Id
      /\ Head(candidates) \notin ToSet(Tail(candidates))
      /\ ToSet(Tail(candidates)) \subseteq ToSet(candidates)
  BY <1>3, SetOfTail
<1>5. read[opened] = 0
  BY <1>1, <1>4 DEF LimitInv, ChargeInv, Pending
<1> QED
  BY <1>1, <1>2, <1>3, <1>4, <1>5, SizesAreNumbers DEF ListInv, LimitInv, ChargeInv

(* A file is charged its size, which the budget allows, and read once. *)
LEMMA ChargeLimits ==
    ASSUME ListInv, ListInv', LimitInv, ListInspect \/ ReadFails
    PROVE  LimitInv'
<1>1. /\ lpc = "inspect" /\ step = "locked" /\ lpc' = "inspect" /\ step' = "done"
      /\ UNCHANGED <<entry, id, size, limits, entries, others, foreign, nameless>>
      /\ UNCHANGED <<candidates, opened, listed>>
      /\ used' = used + size[opened] /\ used + size[opened] <= limits.read_bytes
      /\ read' = [read EXCEPT ![opened] = @ + size[opened]]
  BY DEF ListInspect, ReadFails, Charge, Unshare, files, scanning, InspectReturns
<1>2. Keeps
  BY SharingKeeps DEF ListInspect, ReadFails, Charge, ListInv
<1>3. StoreTypeOK /\ StoreTypeOK'
  BY DEF ListInv
<1>4. NamelessInv'
  BY <1>1, <1>2, NamelessStays DEF LimitInv
<1>5. RefusedOnlyAboveLimits'
  <2>1. limits \in Limits /\ foreign \in Nat
    BY DEF LimitInv, CountInv
  <2> QED
    BY <1>1, <1>2, <1>3, <2>1, RefusalStays DEF LimitInv
<1>6. CountInv'
  <2>1. candidates \in Seq(Id) /\ Len(candidates) \in Nat
    BY LenProperties DEF ListInv, ListTypeOK
  <2>2. Len(candidates') <= Len(candidates)
    BY <1>1, <2>1
  <2> QED
    BY <1>1, <1>2, <2>1, <2>2, CountStays DEF LimitInv
<1>7. ChargeInv'
  <2>1. /\ opened \in Writer /\ read \in [Writer -> Nat] /\ read[opened] = 0
        /\ size[opened] \in Nat /\ used \in Nat
        /\ used = Cardinality(Bytes(read, Writer))
    BY <1>1, OpenedIsNew
  <2>2. read' = [read EXCEPT ![opened] = size[opened]]
    <3>1. read[opened] + size[opened] = size[opened]
      BY <2>1
    <3> QED
      BY <1>1, <3>1, Zenon
  <2>3. /\ read' \in [Writer -> Nat]
        /\ Cardinality(Bytes(read', Writer)) = used + size[opened]
    BY <2>1, <2>2, OneMoreRead
  <2>4. used' \in Nat /\ used' <= limits'.read_bytes
    BY <1>1, <2>1
  <2>5. ASSUME NEW w \in Writer, read'[w] # 0
        PROVE  /\ read'[w] <= size[w]
               /\ w \in There /\ id[w] # None
               /\ id[w] \notin ToSet(Tail(candidates))
    <3>1. CASE w = opened
      <4>1. read'[w] = size[w]
        BY <2>1, <2>2, <3>1
      <4> QED
        BY <1>1, <2>1, <3>1, <4>1, OpenedIsNew
    <3>2. CASE w # opened
      <4>1. read'[w] = read[w]
        BY <2>1, <2>2, <3>2
      <4>2. read[w] <= size[w] /\ w \in There /\ id[w] # None /\ id[w] \notin Pending
        BY <1>1, <2>5, <4>1 DEF LimitInv, ChargeInv
      <4>3. ToSet(Tail(candidates)) \subseteq Pending
        BY <1>1, OpenedIsNew DEF Pending
      <4> QED
        BY <4>1, <4>2, <4>3
    <3> QED
      BY <3>1, <3>2
  <2>6. Pending' = ToSet(Tail(candidates)) /\ There' = There
    BY <1>1 DEF Pending, There
  <2> QED
    BY <1>1, <2>3, <2>4, <2>5, <2>6 DEF ChargeInv
<1> QED
  BY <1>4, <1>5, <1>6, <1>7 DEF LimitInv

(* The budget refuses a file when it and those charged before exceed it. *)
LEMMA ReadTooLargeLimits ==
    ASSUME ListInv, ListInv', LimitInv, ReadTooLarge
    PROVE  LimitInv'
<1>1. /\ lpc = "inspect" /\ step = "locked" /\ lpc' = "done"
      /\ used + size[opened] > limits.read_bytes
      /\ UNCHANGED <<entry, id, size, limits, entries, others, foreign, nameless>>
      /\ UNCHANGED <<candidates, used, read>>
  BY DEF ReadTooLarge, Unshare, files, scanning, ListReturn
<1>2. Keeps
  BY SharingKeeps DEF ReadTooLarge, ListInv
<1>3. StoreTypeOK /\ StoreTypeOK'
  BY DEF ListInv
<1>4. NamelessInv' /\ ChargeInv'
  BY <1>1, <1>2, <1>3, NamelessStays, ChargeStays DEF LimitInv
<1>5. CountInv'
  <2>1. candidates \in Seq(Id) /\ Len(candidates) \in Nat
    BY LenProperties DEF ListInv, ListTypeOK
  <2>2. Len(candidates') <= Len(candidates)
    BY <1>1, <2>1
  <2> QED
    BY <1>1, <1>2, <2>1, <2>2, CountStays DEF LimitInv
<1> DEFINE next == [read EXCEPT ![opened] = size[opened]]
           all == Cardinality(Bytes(size, There))
<1>6. /\ opened \in There /\ There \subseteq Writer /\ opened \in Writer
      /\ read \in [Writer -> Nat] /\ read[opened] = 0
      /\ size \in [Writer -> Nat] /\ size[opened] \in Nat
      /\ used = Cardinality(Bytes(read, Writer)) /\ used \in Nat
  BY <1>1, OpenedIsNew
<1>7. /\ next \in [Writer -> Nat]
      /\ Cardinality(Bytes(next, Writer)) = used + size[opened]
  <2>1. PICK g : g = [read EXCEPT ![opened] = size[opened]]
    OBVIOUS
  <2>2. /\ g \in [Writer -> Nat]
        /\ Cardinality(Bytes(g, Writer)) = Cardinality(Bytes(read, Writer)) + size[opened]
    <3>1. /\ read \in [Writer -> Nat] /\ opened \in Writer
          /\ read[opened] = 0 /\ size[opened] \in Nat
      BY <1>6
    <3> HIDE DEF next, all
    <3> QED
      BY <2>1, <3>1, OneMoreRead
  <2> QED
    BY <1>6, <2>1, <2>2
<1>8. \A w \in Writer : next[w] # 0 => w \in There /\ next[w] <= size[w]
  <2>1. \A w \in Writer : w # opened => next[w] = read[w]
    BY <1>6
  <2>2. next[opened] = size[opened] /\ size[opened] <= size[opened]
    BY <1>6
  <2>3. \A w \in Writer : read[w] # 0 => w \in There /\ read[w] <= size[w]
    BY DEF LimitInv, ChargeInv
  <2> HIDE DEF next
  <2> QED
    BY <1>6, <2>1, <2>2, <2>3
<1> HIDE DEF next
<1>9. Bytes(next, Writer) = Bytes(next, There)
  <2>1. \A w \in Writer : w \notin There => 1 .. next[w] = {}
    BY <1>8
  <2> QED
    BY <1>6, <2>1 DEF Bytes
<1>10. Cardinality(Bytes(next, There)) <= all
  <2>1. \A w \in There : next[w] <= size[w]
    <3> SUFFICES ASSUME NEW w \in There
                 PROVE  next[w] <= size[w]
      OBVIOUS
    <3>1. w \in Writer /\ next[w] \in Nat /\ size[w] \in Nat
      BY <1>6, <1>7
    <3>2. CASE next[w] = 0
      BY <3>1, <3>2
    <3>3. CASE next[w] # 0
      BY <1>8, <3>1, <3>3
    <3> QED
      BY <3>2, <3>3
  <2> QED
    BY <1>6, <1>7, <2>1, MoreBytes
<1>11. all \in Nat
  BY <1>6, ByteCount
<1>12. limits.read_bytes \in Nat
  BY ListAssumption DEF LimitInv, CountInv
<1> HIDE DEF all
<1>13. all > limits.read_bytes
  BY <1>1, <1>6, <1>7, <1>9, <1>10, <1>11, <1>12
<1>14. RefusedOnlyAboveLimits'
  BY <1>1, <1>13 DEF RefusedOnlyAboveLimits, all, There
<1> QED
  BY <1>4, <1>5, <1>14 DEF LimitInv

LEMMA SummarizeLimits ==
    ASSUME ListInv, ListInv', LimitInv, Summarize
    PROVE  LimitInv'
<1>1. /\ lpc = "inspect" /\ lpc' = "inspect" /\ step = "done" /\ step' = "open"
      /\ candidates # <<>> /\ candidates \in Seq(Id) /\ candidates' = Tail(candidates)
      /\ UNCHANGED <<storeVars, limits, entries, others, foreign, nameless>>
      /\ UNCHANGED <<used, read, listed>>
  BY DEF Summarize, scanning, ListInv, PlaceInv, ListTypeOK
<1>2. Keeps
  BY <1>1, SharingKeeps DEF ListInv
<1>3. StoreTypeOK /\ StoreTypeOK'
  BY DEF ListInv
<1>4. RefusedOnlyAboveLimits'
  <2>1. limits \in Limits /\ foreign \in Nat
    BY DEF LimitInv, CountInv
  <2> QED
    BY <1>1, <1>2, <1>3, <2>1, RefusalStays DEF LimitInv
<1>5. CountInv'
  <2>1. ToSet(candidates') \subseteq ToSet(candidates) /\ candidates' \in Seq(Id)
    BY <1>1, SetOfTail
  <2>2. Len(candidates') <= Len(candidates)
    BY <1>1, HeadTailProperties, LenProperties, EmptySeq
  <2> QED
    BY <1>1, <1>2, <2>1, <2>2, CountStays DEF LimitInv
<1>6. Pending' = Pending
  BY <1>1 DEF Pending
<1>7. ChargeInv' /\ NamelessInv'
  BY <1>1, <1>2, <1>3, <1>6, ChargeStays, NamelessStays DEF LimitInv
<1> QED
  BY <1>4, <1>5, <1>7 DEF LimitInv

LEMMA LimitNextInv ==
    ASSUME ListInv, ListInv', LimitInv, [ListNext]_listVars
    PROVE  LimitInv'
BY QuietLimits, ListStartLimits, ScanLimits, ScanTooLargeLimits, ChargeLimits,
   ReadTooLargeLimits, SummarizeLimits
   DEF ListNext, ListStep

LEMMA LimitInitInv == ListInit => LimitInv
<1> SUFFICES ASSUME ListInit
             PROVE  LimitInv
  OBVIOUS
<1>1. ToSet(<<>>) = {} /\ Len(<<>>) = 0
  BY EmptySeq DEF ToSet, Seqs!ToSet
<1>2. /\ limits \in Limits /\ limits.read_bytes \in Nat /\ limits.candidates \in Nat
      /\ limits.directory_entries \in Nat /\ Others \in Nat
  BY ListAssumption DEF ListInit
<1>3. CountInv /\ NamelessInv
  BY <1>1, <1>2 DEF ListInit, CountInv, NamelessInv
<1>4. ChargeInv
  <2>1. read \in [Writer -> Nat] /\ \A w \in Writer : read[w] = 0
    BY DEF ListInit
  <2>2. \A w \in Writer : 1 .. read[w] = {}
    <3>1. 1 .. 0 = {}
      OBVIOUS
    <3> QED
      BY <2>1, <3>1, Zenon
  <2>3. Bytes(read, Writer) = {}
    BY <2>2 DEF Bytes
  <2>4. Cardinality(Bytes(read, Writer)) = 0
    BY <2>3, FS_EmptySet
  <2> QED
    BY <1>2, <2>1, <2>4 DEF ListInit, ChargeInv
<1>5. RefusedOnlyAboveLimits
  BY DEF ListInit, RefusedOnlyAboveLimits
<1> QED
  BY <1>3, <1>4, <1>5 DEF LimitInv

-----------------------------------------------------------------------------
(* The invariant holds in every state of the list (list_file of file.rs). *)
THEOREM ListInvariant == ListSpec => []ListInv
<1>1. ListInit => ListInv
  BY ListInitInv
<1>2. ListInv /\ [ListNext]_listVars => ListInv'
  BY ListNextInv
<1> QED
  BY <1>1, <1>2, PTL DEF ListSpec

(* A list is never partial: every session acknowledged before the list      *)
(* began is in it once, as its file is, unless its name is removed or it    *)
(* cannot be read.                                                          *)
THEOREM ListsAreComplete == ListSpec => []ListIsComplete
<1>1. ListInv => ListIsComplete
  BY DEF ListInv, MetInv, DistinctIds, KnownInv, Told, Tells, ListIsComplete, ToSet
<1> QED
  BY <1>1, ListInvariant, PTL

(* What is listed stays true: a session shown with a status of its own is   *)
(* closed, and its file still has that status and creation time.            *)
THEOREM ListsAreTrue == ListSpec => []ListIsTrue
<1>1. ListInv => ListIsTrue
  BY DEF ListInv, SummaryInv, True, Closed, ListIsTrue, ToSet
<1> QED
  BY <1>1, ListInvariant, PTL

(* The list is in the documented order: newest first, entries without a     *)
(* trusted time last, by their ids.                                         *)
THEOREM ListsAreInOrder == ListSpec => []NewestFirst
<1>1. ASSUME ListInv, listed = "Listed",
             NEW i \in DOMAIN summaries, NEW j \in DOMAIN summaries, i < j
      PROVE  LET a == summaries[i]
                 b == summaries[j]
             IN  \/ a.status \in Projected /\ b.status \notin Projected
                 \/ /\ a.status \in Projected <=> b.status \in Projected
                    /\ \/ a.created > b.created
                       \/ a.created = b.created /\ a.id < b.id
  <2> DEFINE a == summaries[i]
             b == summaries[j]
  <2>1. Precedes(a, b)
    BY <1>1 DEF ListInv, OrderInv
  <2>2. a \in ToSet(summaries) /\ b \in ToSet(summaries)
    BY DEF ToSet, Seqs!ToSet
  <2>3. a \in Summary /\ b \in Summary
    BY <1>1, <2>2, SetOfSeq DEF ListInv, ListTypeOK
  <2>4. /\ a.status \in Projected <=> a.created # 0
        /\ b.status \in Projected <=> b.created # 0
    BY <1>1, <2>2 DEF ListInv, SummaryInv, True
  <2> HIDE DEF a, b
  <2>5. a.created \in Nat /\ b.created \in Nat
    BY <2>3, SummaryType
  <2>6. a.created > b.created \/ (a.created = b.created /\ a.id < b.id)
    BY <2>1 DEF Precedes
  <2>7. CASE a.created > b.created
    BY <2>4, <2>5, <2>7 DEF a, b
  <2>8. CASE a.created = b.created /\ a.id < b.id
    BY <2>4, <2>8 DEF a, b
  <2> QED
    BY <2>6, <2>7, <2>8
<1>2. ListInv => NewestFirst
  BY <1>1 DEF NewestFirst
<1> QED
  BY <1>2, ListInvariant, PTL

(* The limits of LIST_LIMITS hold to the unit, whatever is created, written *)
(* or removed meanwhile: a list takes in no more entries and ids than they  *)
(* allow and sets out to read no more bytes, of corrupt and unreadable      *)
(* files too, and a store is refused as too large only when the entries,    *)
(* ids or bytes it holds while it is listed exceed them.                    *)
THEOREM LimitsAreExact == ListSpec => []LimitsExact
<1>1. ListInit => LimitInv
  BY LimitInitInv
<1>2. ListInv /\ ListInv' /\ LimitInv /\ [ListNext]_listVars => LimitInv'
  BY LimitNextInv
<1>3. ListInv /\ LimitInv => LimitsExact
  <2> SUFFICES ASSUME ListInv, LimitInv
               PROVE  LimitsExact
    OBVIOUS
  <2>1. ScanIsBounded
    <3>1. /\ Len(candidates) \in Nat /\ entries \in Nat
          /\ foreign \in Int /\ others \in Int
          /\ limits.directory_entries \in Nat
      BY LenProperties, ListAssumption DEF ListInv, ListTypeOK, LimitInv, CountInv
    <3> QED
      BY <3>1 DEF LimitInv, CountInv, ScanIsBounded
  <2>2. ReadIsBounded
    BY DEF LimitInv, ChargeInv, ReadIsBounded
  <2> QED
    BY <2>1, <2>2 DEF LimitInv, LimitsExact
<1> QED
  BY <1>1, <1>2, <1>3, ListInvariant, PTL DEF ListSpec
=============================================================================
