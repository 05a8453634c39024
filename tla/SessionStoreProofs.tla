------------------------- MODULE SessionStoreProofs -------------------------
(***************************************************************************)
(* Proofs about SessionStore, for every capacity of the queue, every set   *)
(* of submitted events and of storage faults, and all bounds: the types,   *)
(* the order of the lines of the journal, that no score is lost while the  *)
(* session runs and no acknowledged one ever, and the health on display.   *)
(***************************************************************************)
EXTENDS SessionStore, SequenceTheorems, FiniteSetTheorems, WellFoundedInduction, TLAPS

\* Every line of the first sequence was numbered before every line of the
\* second.
Before(s, t) == \A e \in LinesOf(s), f \in LinesOf(t) : e.seq < f.seq
Below(s, n) == \A e \in LinesOf(s) : e.seq < n
-----------------------------------------------------------------------------
(* Sequences of lines.                                                     *)

LEMMA LineTypes ==
    ASSUME NEW s \in Seq(Line)
    PROVE  /\ LinesOf(s) \subseteq Line
           /\ \A e \in LinesOf(s) : e.seq \in Nat
           /\ \A i \in 1 .. Len(s) : s[i] \in Line /\ s[i] \in LinesOf(s)
           /\ DOMAIN s = 1 .. Len(s) /\ Len(s) \in Nat
<1>1. DOMAIN s = 1 .. Len(s) /\ Len(s) \in Nat /\ \A i \in 1 .. Len(s) : s[i] \in Line
      OBVIOUS
<1>2. \A e \in Line : e.seq \in Nat
      BY DEF Line
<1>. QED  BY <1>1, <1>2 DEF LinesOf

LEMMA EmptyLines == <<>> \in Seq(Line) /\ LinesOf(<<>>) = {} /\ Ascending(<<>>)
BY DEF LinesOf, Ascending

LEMMA OneLine ==
    ASSUME NEW e \in Line
    PROVE  <<e>> \in Seq(Line) /\ LinesOf(<<e>>) = {e} /\ Ascending(<<e>>)
BY DEF LinesOf, Ascending

LEMMA ConcatLines ==
    ASSUME NEW s \in Seq(Line), NEW t \in Seq(Line)
    PROVE  /\ s \o t \in Seq(Line)
           /\ Len(s \o t) = Len(s) + Len(t)
           /\ LinesOf(s \o t) = LinesOf(s) \cup LinesOf(t)
           /\ Ascending(s) /\ Ascending(t) /\ Before(s, t) => Ascending(s \o t)
<1>1. /\ s \o t \in Seq(Line) /\ Len(s \o t) = Len(s) + Len(t)
      /\ \A i \in 1 .. Len(s) + Len(t) :
            (s \o t)[i] = IF i <= Len(s) THEN s[i] ELSE t[i - Len(s)]
      BY ConcatProperties
<1>2. /\ DOMAIN s = 1 .. Len(s) /\ DOMAIN t = 1 .. Len(t)
      /\ DOMAIN (s \o t) = 1 .. Len(s) + Len(t)
      /\ Len(s) \in Nat /\ Len(t) \in Nat
      BY <1>1
<1>3. LinesOf(s \o t) \subseteq LinesOf(s) \cup LinesOf(t)
      BY <1>1, <1>2 DEF LinesOf
<1>4. LinesOf(s) \subseteq LinesOf(s \o t)
      BY <1>1, <1>2 DEF LinesOf
<1>5. ASSUME NEW f \in LinesOf(t) PROVE f \in LinesOf(s \o t)
  <2>1. PICK j \in 1 .. Len(t) : f = t[j]
        BY <1>2 DEF LinesOf
  <2>2. (s \o t)[Len(s) + j] = f /\ Len(s) + j \in DOMAIN (s \o t)
        BY <1>1, <1>2, <2>1
  <2>. QED  BY <2>2 DEF LinesOf
<1>6. ASSUME Ascending(s), Ascending(t), Before(s, t),
             NEW i \in DOMAIN (s \o t), NEW j \in DOMAIN (s \o t), i < j
      PROVE  (s \o t)[i].seq < (s \o t)[j].seq
  <2>1. CASE j <= Len(s)
        BY <1>1, <1>2, <1>6, <2>1 DEF Ascending
  <2>2. CASE i <= Len(s) /\ ~(j <= Len(s))
    <3>1. (s \o t)[i] = s[i] /\ s[i] \in LinesOf(s)
          BY <1>1, <1>2, <2>2 DEF LinesOf
    <3>2. j - Len(s) \in DOMAIN t /\ (s \o t)[j] = t[j - Len(s)]
          BY <1>1, <1>2, <2>2
    <3>3. (s \o t)[j] \in LinesOf(t)
          BY <3>2 DEF LinesOf
    <3>. QED  BY <1>6, <3>1, <3>3 DEF Before
  <2>3. CASE ~(i <= Len(s))
        BY <1>1, <1>2, <1>6, <2>3 DEF Ascending
  <2>. QED  BY <1>2, <1>6, <2>1, <2>2, <2>3
<1>. QED  BY <1>1, <1>3, <1>4, <1>5, <1>6 DEF Ascending

LEMMA ThreeLines ==
    ASSUME NEW s \in Seq(Line), NEW t \in Seq(Line), NEW u \in Seq(Line)
    PROVE  (s \o t) \o u = s \o (t \o u)
BY ConcatAssociative

LEMMA AppendLines ==
    ASSUME NEW s \in Seq(Line), NEW e \in Line
    PROVE  /\ Append(s, e) \in Seq(Line)
           /\ Len(Append(s, e)) = Len(s) + 1
           /\ LinesOf(Append(s, e)) = LinesOf(s) \cup {e}
           /\ Ascending(s) /\ Below(s, e.seq) => Ascending(Append(s, e))
<1>1. Append(s, e) = s \o <<e>>
      BY AppendIsConcat
<1>2. <<e>> \in Seq(Line) /\ LinesOf(<<e>>) = {e} /\ Ascending(<<e>>)
      BY OneLine
<1>3. Below(s, e.seq) => Before(s, <<e>>)
      BY <1>2 DEF Below, Before
<1>. QED  BY <1>1, <1>2, <1>3, ConcatLines, AppendProperties

\* A part of a sequence keeps its order.
LEMMA PartOfLines ==
    ASSUME NEW s \in Seq(Line), NEW m \in 1 .. Len(s) + 1, NEW n \in 0 .. Len(s)
    PROVE  /\ SubSeq(s, m, n) \in Seq(Line)
           /\ m = 1 => Len(SubSeq(s, m, n)) = n
           /\ LinesOf(SubSeq(s, m, n)) = {s[i] : i \in m .. n}
           /\ Ascending(s) => Ascending(SubSeq(s, m, n))
<1>. DEFINE p == SubSeq(s, m, n)
<1>0. Len(s) \in Nat /\ m \in Int /\ n \in Int /\ \A i \in m .. n : s[i] \in Line
      OBVIOUS
<1>1. /\ p \in Seq(Line) /\ Len(p) = IF m <= n THEN n - m + 1 ELSE 0
      /\ \A i \in 1 .. n - m + 1 : p[i] = s[m + i - 1]
      BY <1>0, SubSeqProperties
<1>2. DOMAIN p = 1 .. Len(p)
      BY <1>1
<1>. HIDE DEF p
<1>3. LinesOf(p) \subseteq {s[i] : i \in m .. n}
      BY <1>0, <1>1, <1>2 DEF LinesOf
<1>4. ASSUME NEW i \in m .. n PROVE s[i] \in LinesOf(p)
  <2>1. i - m + 1 \in DOMAIN p /\ p[i - m + 1] = s[i]
        BY <1>0, <1>1, <1>2
  <2>. QED  BY <2>1 DEF LinesOf
<1>5. ASSUME Ascending(s), NEW i \in DOMAIN p, NEW j \in DOMAIN p, i < j
      PROVE  p[i].seq < p[j].seq
  <2>1. /\ p[i] = s[m + i - 1] /\ p[j] = s[m + j - 1]
        /\ m + i - 1 \in DOMAIN s /\ m + j - 1 \in DOMAIN s /\ m + i - 1 < m + j - 1
        BY <1>0, <1>1, <1>2, <1>5
  <2>. QED  BY <1>5, <2>1 DEF Ascending
<1>. QED  BY <1>0, <1>1, <1>3, <1>4, <1>5 DEF p, Ascending

-----------------------------------------------------------------------------
(* The retry queue.                                                        *)

LEMMA LeastElement ==
    ASSUME NEW T \in SUBSET Nat, T # {}
    PROVE  \E x \in T : \A y \in T : x <= y
<1>1. PICK x \in T : \A y \in T : ~ (<<y, x>> \in OpToRel(<, Nat))
      BY NatLessThanWellFounded, WFMin
<1>2. \A y \in T : ~ (y < x)
      BY <1>1 DEF OpToRel
<1>. QED  BY <1>2

LEMMA RemoveLine ==
    ASSUME NEW q \in Seq(Line), NEW i \in 1 .. Len(q)
    PROVE  /\ RemoveAt(q, i) \in Seq(Line)
           /\ LinesOf(RemoveAt(q, i)) \subseteq LinesOf(q)
           /\ LinesOf(q) \subseteq LinesOf(RemoveAt(q, i)) \cup {q[i]}
           /\ Ascending(q) => Ascending(RemoveAt(q, i))
<1>. DEFINE a == SubSeq(q, 1, i - 1)
            b == SubSeq(q, i + 1, Len(q))
<1>1. Len(q) \in Nat /\ DOMAIN q = 1 .. Len(q)
      OBVIOUS
<1>2. /\ a \in Seq(Line) /\ LinesOf(a) = {q[k] : k \in 1 .. i - 1}
      /\ Ascending(q) => Ascending(a)
  <2>1. 1 \in 1 .. Len(q) + 1 /\ i - 1 \in 0 .. Len(q)
        BY <1>1
  <2>. QED  BY <2>1, PartOfLines
<1>3. /\ b \in Seq(Line) /\ LinesOf(b) = {q[k] : k \in i + 1 .. Len(q)}
      /\ Ascending(q) => Ascending(b)
  <2>1. i + 1 \in 1 .. Len(q) + 1 /\ Len(q) \in 0 .. Len(q)
        BY <1>1
  <2>. QED  BY <2>1, PartOfLines
<1>4. RemoveAt(q, i) = a \o b
      BY DEF RemoveAt
<1>. HIDE DEF a, b
<1>5. LinesOf(q) = {q[k] : k \in 1 .. Len(q)}
      BY <1>1 DEF LinesOf
<1>6. ASSUME Ascending(q), NEW e \in LinesOf(a), NEW f \in LinesOf(b)
      PROVE  e.seq < f.seq
  <2>1. PICK k \in 1 .. i - 1 : e = q[k]
        BY <1>2
  <2>2. PICK l \in i + 1 .. Len(q) : f = q[l]
        BY <1>3
  <2>3. k \in DOMAIN q /\ l \in DOMAIN q /\ k < l
        BY <1>1
  <2>. QED  BY <1>6, <2>1, <2>2, <2>3 DEF Ascending
<1>7. /\ LinesOf(a) \cup LinesOf(b) \subseteq LinesOf(q)
      /\ LinesOf(q) \subseteq LinesOf(a) \cup LinesOf(b) \cup {q[i]}
      BY <1>1, <1>2, <1>3, <1>5
<1>. QED  BY <1>2, <1>3, <1>4, <1>6, <1>7, ConcatLines DEF Before

\* An overflow makes an auxiliary event give way.
LEMMA OldestIsAux ==
    ASSUME NEW q \in Seq(Line), NEW item \in Line, Overflows(q, item)
    PROVE  OldestAux(q) \in 1 .. Len(q) /\ ~Official(q[OldestAux(q)])
<1>1. AuxIn(q) # {}
  <2>1. SUFFICES ASSUME AuxIn(q) = {} PROVE FALSE
        OBVIOUS
  <2>2. Cardinality(AuxIn(q)) = 0
        BY <2>1, FS_EmptySet
  <2>. QED  BY <2>2, AuxCapAssumption DEF Overflows
<1>2. AuxIn(q) \subseteq 1 .. Len(q) /\ AuxIn(q) \in SUBSET Nat
      BY DEF AuxIn
<1>3. \E i \in AuxIn(q) : \A j \in AuxIn(q) : i <= j
      BY <1>1, <1>2, LeastElement
<1>4. OldestAux(q) \in AuxIn(q)
      BY <1>3 DEF OldestAux
<1>. QED  BY <1>2, <1>4 DEF AuxIn

\* What enqueue does: the item is in, nothing official is out, the order
\* stays, and the number that is remembered is one of the queue's.
LEMMA EnqueuedLines ==
    ASSUME NEW q \in Seq(Line), NEW item \in Line
    PROVE  /\ Enqueued(q, item) \in Seq(Line)
           /\ item \in LinesOf(Enqueued(q, item))
           /\ LinesOf(Enqueued(q, item)) \subseteq LinesOf(q) \cup {item}
           /\ \A e \in LinesOf(q) : Official(e) => e \in LinesOf(Enqueued(q, item))
           /\ Ascending(q) /\ Below(q, item.seq) => Ascending(Enqueued(q, item))
           /\ DroppedBy(q, item) \in SUBSET Nat /\ IsFiniteSet(DroppedBy(q, item))
<1>1. CASE Overflows(q, item)
  <2>. DEFINE i == OldestAux(q)
              r == RemoveAt(q, i)
  <2>1. i \in 1 .. Len(q) /\ ~Official(q[i])
        BY <1>1, OldestIsAux
  <2>2. /\ r \in Seq(Line) /\ LinesOf(r) \subseteq LinesOf(q)
        /\ LinesOf(q) \subseteq LinesOf(r) \cup {q[i]}
        /\ Ascending(q) => Ascending(r)
        BY <2>1, RemoveLine
  <2>3. Enqueued(q, item) = Append(r, item)
        BY <1>1 DEF Enqueued
  <2>4. DroppedBy(q, item) = {q[i].seq} /\ q[i].seq \in Nat
        BY <1>1, <2>1, LineTypes DEF DroppedBy
  <2>. HIDE DEF i, r
  <2>5. Below(q, item.seq) => Below(r, item.seq)
        BY <2>2 DEF Below
  <2>6. IsFiniteSet(DroppedBy(q, item))
        BY <2>4, FS_Singleton
  <2>7. \A e \in LinesOf(q) : Official(e) => e \in LinesOf(r)
        BY <2>1, <2>2
  <2>. QED  BY <2>2, <2>3, <2>4, <2>5, <2>6, <2>7, AppendLines
<1>2. CASE ~Overflows(q, item)
  <2>1. Enqueued(q, item) = Append(q, item) /\ DroppedBy(q, item) = {}
        BY <1>2 DEF Enqueued, DroppedBy
  <2>. QED  BY <2>1, AppendLines, FS_EmptySet
<1>. QED  BY <1>1, <1>2
-----------------------------------------------------------------------------
(* Writes, markers and what the pump leaves.                               *)

LEMMA WrittenLines ==
    ASSUME NEW s \in Seq(Line), NEW w \in Writes(s)
    PROVE  /\ w.lines \in Seq(Line) /\ w.torn \in BOOLEAN
           /\ LinesOf(w.lines) \subseteq LinesOf(s)
           /\ Ascending(s) => Ascending(w.lines)
<1>1. w.lines \in Subsequences(s) /\ w.torn \in BOOLEAN
      BY DEF Writes
<1>a. PICK m \in 0 .. Len(s) :
         w.lines \in {[i \in 1 .. m |-> s[f[i]]] : f \in Increasing(m, Len(s))}
      BY <1>1 DEF Subsequences
<1>2. PICK f \in Increasing(m, Len(s)) : w.lines = [i \in 1 .. m |-> s[f[i]]]
      BY <1>a
<1>3. /\ f \in [1 .. m -> 1 .. Len(s)]
      /\ \A i, j \in 1 .. m : i < j => f[i] < f[j]
      BY DEF Increasing
<1>4. Len(s) \in Nat /\ m \in Nat /\ DOMAIN s = 1 .. Len(s)
      OBVIOUS
<1>5. w.lines \in Seq(Line)
  <2>1. \A i \in 1 .. m : s[f[i]] \in Line
        BY <1>3, <1>4
  <2>. QED  BY <1>2, <1>4, <2>1
<1>6. LinesOf(w.lines) \subseteq LinesOf(s)
      BY <1>2, <1>3, <1>4 DEF LinesOf
<1>7. Ascending(s) => Ascending(w.lines)
      BY <1>2, <1>3, <1>4 DEF Ascending
<1>. QED  BY <1>1, <1>5, <1>6, <1>7

LEMMA RunsAreFinite ==
    ASSUME NEW D \in SUBSET Nat, IsFiniteSet(D)
    PROVE  Cardinality(Runs(D)) \in Nat /\ Runs(D) \subseteq SUBSET Nat
<1>1. Runs(D) \subseteq SUBSET D
      BY DEF Runs
<1>2. IsFiniteSet(SUBSET D)
      BY FS_SUBSET
<1>3. IsFiniteSet(Runs(D))
      BY <1>1, <1>2, FS_Subset
<1>. QED  BY <1>1, <1>3, FS_CardinalityType

\* The numbers of the markers are new, in order, and no marker is a score.
Fresh(s, n) == \A e \in LinesOf(s) : n <= e.seq /\ e.kind \notin ScoreKinds

LEMMA DrainMarkersLines ==
    ASSUME NEW D \in SUBSET Nat, IsFiniteSet(D), nextSeq \in Nat,
           NEW runs \in RunsInOrder(D), NEW m, m = DrainMarkers(runs)
    PROVE  /\ m \in Seq(Line) /\ m # <<>> /\ Len(m) \in Nat
           /\ Ascending(m) /\ Fresh(m, nextSeq) /\ Below(m, nextSeq + Len(m))
<1>. DEFINE c == Cardinality(Runs(D))
<1>1. c \in Nat /\ runs \in [1 .. c -> Runs(D)] /\ Runs(D) \subseteq SUBSET Nat
      BY RunsAreFinite DEF RunsInOrder
<1>2. Len(runs) = c /\ \A i \in 1 .. c : runs[i] \in SUBSET Nat
      BY <1>1
<1>. HIDE DEF c
<1>3. m = [i \in 1 .. c + 1 |->
             IF i <= c THEN Event(nextSeq + i - 1, "AuxEventsDropped", runs[i])
                       ELSE Event(nextSeq + i - 1, "PersistenceRestored", {})]
      BY <1>2 DEF DrainMarkers
<1>4. ASSUME NEW i \in 1 .. c + 1
      PROVE  /\ m[i] \in Line /\ m[i].seq = nextSeq + i - 1
             /\ m[i].kind \in {"AuxEventsDropped", "PersistenceRestored"}
  <2>1. nextSeq + i - 1 \in Nat
        BY <1>1
  <2>2. CASE i <= c
    <3>1. m[i] = Event(nextSeq + i - 1, "AuxEventsDropped", runs[i]) /\ runs[i] \in SUBSET Nat
          BY <1>1, <1>2, <1>3, <2>2
    <3>. QED  BY <2>1, <3>1 DEF Event, Line, Kinds, SyncKinds
  <2>3. CASE ~(i <= c)
    <3>1. m[i] = Event(nextSeq + i - 1, "PersistenceRestored", {})
          BY <1>1, <1>3, <2>3
    <3>. QED  BY <2>1, <3>1 DEF Event, Line, Kinds, FlushKinds
  <2>. QED  BY <2>2, <2>3
<1>5. m \in Seq(Line) /\ Len(m) = c + 1 /\ DOMAIN m = 1 .. c + 1
  <2>1. c + 1 \in Nat
        BY <1>1
  <2>2. \A i \in 1 .. c + 1 : m[i] \in Line
        BY <1>4
  <2>3. m = [i \in 1 .. c + 1 |-> m[i]]
        BY <1>3
  <2>. HIDE DEF c
  <2>4. m \in [1 .. c + 1 -> Line]
        BY <2>2, <2>3
  <2>. QED  BY <2>1, <2>4
<1>6. Ascending(m)
      BY <1>1, <1>4, <1>5 DEF Ascending
<1>7. Below(m, nextSeq + Len(m))
      BY <1>1, <1>4, <1>5 DEF Below, LinesOf
<1>8. Fresh(m, nextSeq)
  <2>1. \A i \in 1 .. c + 1 : nextSeq <= m[i].seq
        BY <1>1, <1>4
  <2>2. \A i \in 1 .. c + 1 : m[i].kind \notin ScoreKinds
        BY <1>4 DEF ScoreKinds
  <2>. QED  BY <1>5, <2>1, <2>2 DEF Fresh, LinesOf
<1>9. m # <<>> /\ Len(m) \in Nat
      BY <1>1, <1>5
<1>. QED  BY <1>5, <1>6, <1>7, <1>8, <1>9

\* What a pump sends and keeps: together all of the queue and nothing but the
\* queue and the markers, in the order of their numbers.
LEMMA PumpLeaves ==
    ASSUME queue \in Seq(Line), dropped \in SUBSET Nat, IsFiniteSet(dropped),
           nextSeq \in Nat, NEW p \in PumpOutcomes
    PROVE  /\ p.sent \in Seq(Line) /\ p.kept \in Seq(Line) /\ p.markers \in Seq(Line)
           /\ p.torn \in BOOLEAN /\ Len(p.markers) \in Nat
           /\ LinesOf(queue) \subseteq LinesOf(p.sent) \cup LinesOf(p.kept)
           /\ LinesOf(p.sent) \subseteq LinesOf(queue) \cup LinesOf(p.markers)
           /\ LinesOf(p.kept) \subseteq LinesOf(queue)
           /\ Fresh(p.markers, nextSeq) /\ Below(p.markers, nextSeq + Len(p.markers))
           /\ Ascending(queue) /\ Below(queue, nextSeq) =>
                 Ascending(p.sent) /\ Ascending(p.kept) /\ Before(p.sent, p.kept)
<1>1. /\ <<>> \in Seq(Line) /\ Len(<<>>) \in Nat /\ LinesOf(<<>>) = {}
      /\ Ascending(<<>>) /\ Fresh(<<>>, nextSeq) /\ Below(<<>>, nextSeq + Len(<<>>))
      BY EmptyLines DEF Fresh, Below
<1>2. CASE p \in PumpIdle
  <2>1. p.sent = <<>> /\ p.kept = queue /\ p.markers = <<>> /\ p.torn = FALSE
        BY <1>2 DEF PumpIdle
  <2>2. Before(p.sent, p.kept)
        BY <1>1, <2>1 DEF Before
  <2>. QED  BY <1>1, <2>1, <2>2
<1>3. CASE p \in PumpStalled
  <2>1. PICK n \in 0 .. Len(queue) - 1, t \in BOOLEAN :
           p = [sent |-> SubSeq(queue, 1, n),
                kept |-> SubSeq(queue, n + 1, Len(queue)),
                markers |-> <<>>, torn |-> t]
        BY <1>3 DEF PumpStalled
  <2>2. /\ p.sent = SubSeq(queue, 1, n) /\ p.kept = SubSeq(queue, n + 1, Len(queue))
        /\ p.markers = <<>> /\ p.torn = t
        BY <2>1
  <2>3. Len(queue) \in Nat /\ DOMAIN queue = 1 .. Len(queue)
        OBVIOUS
  <2>4. /\ p.sent \in Seq(Line) /\ LinesOf(p.sent) = {queue[k] : k \in 1 .. n}
        /\ Ascending(queue) => Ascending(p.sent)
    <3>1. 1 \in 1 .. Len(queue) + 1 /\ n \in 0 .. Len(queue)
          BY <2>3
    <3>. QED  BY <2>2, <3>1, PartOfLines
  <2>5. /\ p.kept \in Seq(Line)
        /\ LinesOf(p.kept) = {queue[k] : k \in n + 1 .. Len(queue)}
        /\ Ascending(queue) => Ascending(p.kept)
    <3>1. n + 1 \in 1 .. Len(queue) + 1 /\ Len(queue) \in 0 .. Len(queue)
          BY <2>3
    <3>. QED  BY <2>2, <3>1, PartOfLines
  <2>6. LinesOf(queue) = {queue[k] : k \in 1 .. Len(queue)}
        BY <2>3 DEF LinesOf
  <2>7. /\ LinesOf(queue) = LinesOf(p.sent) \cup LinesOf(p.kept)
        BY <2>3, <2>4, <2>5, <2>6
  <2>8. ASSUME Ascending(queue), NEW e \in LinesOf(p.sent), NEW f \in LinesOf(p.kept)
        PROVE  e.seq < f.seq
    <3>1. PICK k \in 1 .. n : e = queue[k]
          BY <2>4
    <3>2. PICK l \in n + 1 .. Len(queue) : f = queue[l]
          BY <2>5
    <3>3. k \in DOMAIN queue /\ l \in DOMAIN queue /\ k < l
          BY <2>3
    <3>. QED  BY <2>8, <3>1, <3>2, <3>3 DEF Ascending
  <2>9. Ascending(queue) => Before(p.sent, p.kept)
        BY <2>8 DEF Before
  <2>10. p.torn \in BOOLEAN
        BY <2>2, Zenon
  <2>. QED  BY <1>1, <2>2, <2>4, <2>5, <2>7, <2>9, <2>10
<1>4. CASE p \in PumpDrained
  <2>1. PICK runs \in RunsInOrder(dropped) :
           p \in {[sent |-> queue \o w.lines, kept |-> <<>>,
                   markers |-> DrainMarkers(runs), torn |-> w.torn] :
                      w \in Writes(DrainMarkers(runs))}
        BY <1>4 DEF PumpDrained
  <2>. DEFINE m == DrainMarkers(runs)
  <2>2. PICK w \in Writes(m) :
           p = [sent |-> queue \o w.lines, kept |-> <<>>, markers |-> m, torn |-> w.torn]
        BY <2>1
  <2>3. /\ m \in Seq(Line) /\ Len(m) \in Nat /\ Ascending(m)
        /\ Fresh(m, nextSeq) /\ Below(m, nextSeq + Len(m))
        BY DrainMarkersLines
  <2>. HIDE DEF m
  <2>4. p.sent = queue \o w.lines /\ p.kept = <<>> /\ p.markers = m /\ p.torn = w.torn
        BY <2>2
  <2>5. /\ w.lines \in Seq(Line) /\ w.torn \in BOOLEAN
        /\ LinesOf(w.lines) \subseteq LinesOf(m) /\ Ascending(w.lines)
        BY <2>3, WrittenLines
  <2>6. Below(queue, nextSeq) => Before(queue, w.lines)
    <3>1. \A e \in LinesOf(queue) : e.seq \in Nat
          BY LineTypes
    <3>2. \A f \in LinesOf(w.lines) : f.seq \in Nat /\ nextSeq <= f.seq
          BY <2>3, <2>5, LineTypes DEF Fresh
    <3>. QED  BY <3>1, <3>2 DEF Below, Before
  <2>7. /\ p.sent \in Seq(Line)
        /\ LinesOf(p.sent) = LinesOf(queue) \cup LinesOf(w.lines)
        /\ Ascending(queue) /\ Below(queue, nextSeq) => Ascending(p.sent)
        BY <2>4, <2>5, <2>6, ConcatLines
  <2>8. Before(p.sent, p.kept)
        BY <1>1, <2>4 DEF Before
  <2>. QED  BY <1>1, <2>3, <2>4, <2>5, <2>7, <2>8
<1>. QED  BY <1>2, <1>3, <1>4 DEF PumpOutcomes

LEMMA EventLine ==
    ASSUME NEW n \in Nat, NEW k \in Kinds, NEW d \in SUBSET Nat
    PROVE  /\ Event(n, k, d) \in Line
           /\ Event(n, k, d).seq = n /\ Event(n, k, d).kind = k
BY DEF Event, Line

LEMMA SyncedGrows ==
    ASSUME journal \in Seq(Line), synced \in 0 .. Len(journal),
           NEW file \in Seq(Line), Len(journal) <= Len(file),
           NEW n \in SyncedIn(file)
    PROVE  n \in synced .. Len(file)
<1>1. n \in {synced} \cup (Len(journal) + 1 .. Len(file))
      BY DEF SyncedIn
<1>2. Len(journal) \in Nat /\ Len(file) \in Nat
      OBVIOUS
<1>. QED  BY <1>1, <1>2

LEMMA UntoldNumbers ==
    ASSUME NEW m \in Seq(Line), NEW w
    PROVE  Untold(m, w) \in SUBSET Nat
<1>1. \A e \in LinesOf(m) : e.seq \in Nat /\ e.drops \in SUBSET Nat
      BY LineTypes DEF Line
<1>. QED  BY <1>1 DEF Untold

-----------------------------------------------------------------------------
(* Types.  The drops to declare are finitely many, which their runs need;  *)
(* before a session begins there is nothing.                               *)

TInv ==
    /\ TypeOK
    /\ IsFiniteSet(dropped)
    /\ phase = "idle" => journal = <<>> /\ queue = <<>> /\ ram = {} /\ acked = {}

LEMMA InitTypes == Init => TInv
<1>. SUFFICES ASSUME Init PROVE TInv
     OBVIOUS
<1>1. journal \in Seq(Line) /\ synced \in 0 .. Len(journal) /\ queue \in Seq(Line)
      BY EmptyLines DEF Init
<1>2. torn \in BOOLEAN /\ poisoned \in BOOLEAN /\ pending \in BOOLEAN
      BY Zenon DEF Init
<1>3. /\ phase = "idle" /\ health = "Healthy" /\ nextSeq \in Nat /\ crashes \in Nat
      /\ journal = <<>> /\ queue = <<>>
      /\ dropped = {} /\ ram = {} /\ acked = {} /\ lost = {}
      BY DEF Init
<1>4. IsFiniteSet(dropped)
      BY <1>3, FS_EmptySet
<1>. QED  BY <1>1, <1>2, <1>3, <1>4 DEF TInv, TypeOK

LEMMA SubmittedKinds ==
    ASSUME NEW k \in Submitted
    PROVE  k \in Kinds /\ k \in ProducerKinds
BY SubmittedAssumption DEF ProducerKinds, Kinds, SyncKinds, FlushKinds, AppendKinds

LEMMA SubmitTypes ==
    ASSUME TInv, NEW k \in Submitted, Submit(k)
    PROVE  TInv'
<1>. DEFINE item == Event(nextSeq, k, {})
            marker == Event(nextSeq + 1, "PersistenceDegraded", {})
<1>. USE DEF TInv, TypeOK
<1>1. nextSeq \in Nat /\ nextSeq + 1 \in Nat /\ nextSeq + 2 \in Nat
      OBVIOUS
<1>2. item \in Line /\ item.seq = nextSeq
      BY <1>1, SubmittedKinds, EventLine
<1>3. marker \in Line /\ marker.seq = nextSeq + 1
  <2>1. "PersistenceDegraded" \in Kinds
        BY DEF Kinds, SyncKinds
  <2>. QED  BY <1>1, <2>1, EventLine
<1>. HIDE DEF item, marker
<1>4. /\ Append(journal, item) \in Seq(Line)
      /\ Len(Append(journal, item)) = Len(journal) + 1 /\ Len(journal) \in Nat
      BY <1>2, AppendLines
<1>5. /\ Enqueued(queue, item) \in Seq(Line)
      /\ dropped \cup DroppedBy(queue, item) \in SUBSET Nat
      /\ IsFiniteSet(dropped \cup DroppedBy(queue, item))
      BY <1>2, EnqueuedLines, FS_Union
<1>6. Enqueued(Enqueued(queue, item), marker) \in Seq(Line)
      BY <1>3, <1>5, EnqueuedLines
<1>7. phase' = "active" /\ crashes' \in Nat /\ lost' \in SUBSET Nat
      BY DEF Submit, SubmitBehindQueue, SubmitDurable, SubmitUnsynced,
             SubmitPoisoned, SubmitFailed, Reduce
<1>8. CASE SubmitBehindQueue(k)
      BY <1>1, <1>2, <1>5, <1>7, <1>8 DEF SubmitBehindQueue, item
<1>9. CASE SubmitDurable(k)
  <2>1. /\ journal' = Append(journal, item) /\ acked' = acked \cup {item}
        /\ ram' = ram \cup {item} /\ nextSeq' = nextSeq + 1
        /\ UNCHANGED <<torn, poisoned, queue, dropped, health, pending>>
        BY <1>9 DEF SubmitDurable, item
  <2>2. synced' = Len(journal) + 1 \/ synced' = synced
        BY <1>9 DEF SubmitDurable
  <2>3. synced' \in 0 .. Len(journal')
        BY <1>4, <2>1, <2>2
  <2>. QED  BY <1>1, <1>2, <1>4, <1>7, <2>1, <2>3
<1>10. CASE SubmitUnsynced(k)
  <2>1. /\ journal' = Append(journal, item)
        /\ health' = "Degraded"
        /\ ram' = ram \cup {item} /\ nextSeq' = nextSeq + 1
        /\ UNCHANGED <<torn, synced, poisoned, queue, dropped, pending, acked>>
        BY <1>10 DEF SubmitUnsynced, item
  <2>2. synced' \in 0 .. Len(journal')
        BY <1>4, <2>1
  <2>. QED  BY <1>1, <1>2, <1>4, <1>7, <2>1, <2>2
<1>11. CASE SubmitPoisoned(k)
      BY <1>1, <1>2, <1>5, <1>7, <1>11 DEF SubmitPoisoned, item
<1>12. CASE SubmitFailed(k)
  <2>1. /\ queue' = Enqueued(queue, item)
              \/ queue' = Enqueued(Enqueued(queue, item), marker)
        /\ dropped' = dropped \cup DroppedBy(queue, item)
        /\ ram' = ram \cup {item} \/ ram' = ram \cup {item} \cup {marker}
        /\ nextSeq' = nextSeq + 1 \/ nextSeq' = nextSeq + 2
        /\ health' = "Degraded" /\ pending' = TRUE
        /\ UNCHANGED <<journal, torn, synced, poisoned, acked>>
        BY <1>12 DEF SubmitFailed, item, marker
  <2>2. queue' \in Seq(Line) /\ ram' \in SUBSET Line /\ nextSeq' \in Nat
        BY <1>1, <1>2, <1>3, <1>5, <1>6, <2>1
  <2>. QED  BY <1>5, <1>7, <2>1, <2>2
<1>. QED  BY <1>8, <1>9, <1>10, <1>11, <1>12 DEF Submit

\* The file after a pump and what was written after it.
LEMMA FileGrows ==
    ASSUME TInv, NEW s \in Seq(Line), NEW file, file = journal \o s,
           NEW n \in SyncedIn(file)
    PROVE  file \in Seq(Line) /\ n \in 0 .. Len(file) /\ n \in synced .. Len(file)
<1>1. /\ file \in Seq(Line) /\ Len(file) = Len(journal) + Len(s)
      /\ Len(journal) \in Nat /\ Len(s) \in Nat
      BY ConcatLines DEF TInv, TypeOK
<1>2. synced \in 0 .. Len(journal) /\ journal \in Seq(Line)
      BY DEF TInv, TypeOK
<1>3. Len(journal) <= Len(file)
      BY <1>1
<1>4. n \in synced .. Len(file)
      BY <1>1, <1>2, <1>3, SyncedGrows
<1>. QED  BY <1>1, <1>2, <1>4

LEMMA PumpTypes ==
    ASSUME TInv, PumpRetryQueue
    PROVE  TInv'
<1>1. PICK p \in PumpOutcomes :
         /\ journal' = journal \o p.sent /\ synced' \in SyncedIn(journal')
         /\ torn' = p.torn /\ poisoned' = p.torn /\ queue' = p.kept
         /\ ram' = ram \cup LinesOf(p.markers)
         /\ nextSeq' = nextSeq + Len(p.markers)
         /\ lost' = lost \cup Untold(p.markers, p.sent)
         /\ \/ UNCHANGED <<dropped, health, pending>>
            \/ dropped' = {} /\ health' = "Healthy" /\ pending' = FALSE
      BY DEF PumpRetryQueue
<1>2. phase = "active" /\ UNCHANGED <<phase, acked, crashes>>
      BY DEF PumpRetryQueue
<1>3. /\ p.sent \in Seq(Line) /\ p.kept \in Seq(Line) /\ p.markers \in Seq(Line)
      /\ p.torn \in BOOLEAN /\ Len(p.markers) \in Nat
      BY PumpLeaves DEF TInv, TypeOK
<1>4. journal' \in Seq(Line) /\ synced' \in 0 .. Len(journal')
      BY <1>1, <1>3, FileGrows
<1>5. LinesOf(p.markers) \subseteq Line /\ Untold(p.markers, p.sent) \in SUBSET Nat
      BY <1>3, LineTypes, UntoldNumbers
<1>6. dropped' \in SUBSET Nat /\ IsFiniteSet(dropped')
      BY <1>1, FS_EmptySet DEF TInv, TypeOK
<1>7. torn' \in BOOLEAN /\ poisoned' \in BOOLEAN
      BY <1>1, <1>3, Zenon
<1>8. health' \in {"Healthy", "Degraded", "Failed"} /\ pending' \in BOOLEAN
      BY <1>1, Zenon DEF TInv, TypeOK
<1>9. /\ ram' \in SUBSET Line /\ lost' \in SUBSET Nat
      /\ nextSeq' \in Nat /\ queue' \in Seq(Line)
  <2>1. ram' \in SUBSET Line /\ lost' \in SUBSET Nat
        BY <1>1, <1>5 DEF TInv, TypeOK
  <2>2. nextSeq' \in Nat
        BY <1>1, <1>3 DEF TInv, TypeOK
  <2>3. queue' \in Seq(Line)
        BY <1>1, <1>3
  <2>. QED  BY <2>1, <2>2, <2>3
<1>10. phase' = "active" /\ acked' \in SUBSET Line /\ crashes' \in Nat
      BY <1>2 DEF TInv, TypeOK
<1>. QED  BY <1>4, <1>6, <1>7, <1>8, <1>9, <1>10 DEF TInv, TypeOK

\* A close only adds to the file.
LEMMA CloseAppends ==
    ASSUME TInv, CloseSession
    PROVE  \E s \in Seq(Line) : journal' = journal \o s /\ synced' \in SyncedIn(journal')
<1>. DEFINE closing(n) == <<Event(n, "SessionClosed", {}), Event(n + 1, "CleanShutdown", {})>>
<1>1. PICK p \in PumpOutcomes :
         \E w \in IF poisoned \/ p.torn THEN NoWrites
                  ELSE Writes(closing(nextSeq + Len(p.markers))) :
            journal' = journal \o p.sent \o w.lines /\ synced' \in SyncedIn(journal')
      BY DEF CloseSession
<1>. DEFINE n == nextSeq + Len(p.markers)
            c == closing(n)
<1>2. PICK w \in IF poisoned \/ p.torn THEN NoWrites ELSE Writes(c) :
            journal' = (journal \o p.sent) \o w.lines /\ synced' \in SyncedIn(journal')
      BY <1>1
<1>3. p.sent \in Seq(Line) /\ Len(p.markers) \in Nat /\ journal \in Seq(Line)
      BY PumpLeaves DEF TInv, TypeOK
<1>4. n \in Nat /\ n + 1 \in Nat
      BY <1>3 DEF TInv, TypeOK
<1>5. c \in Seq(Line)
  <2>1. "SessionClosed" \in Kinds /\ "CleanShutdown" \in Kinds
        BY DEF Kinds, SyncKinds
  <2>. HIDE DEF n
  <2>2. Event(n, "SessionClosed", {}) \in Line /\ Event(n + 1, "CleanShutdown", {}) \in Line
        BY <1>4, <2>1, EventLine
  <2>. QED  BY <2>2
<1>. HIDE DEF n, c, closing
<1>6. w.lines \in Seq(Line)
  <2>1. CASE w \in NoWrites
    <3>1. w.lines = <<>>
          BY <2>1 DEF NoWrites
    <3>. QED  BY <3>1, EmptyLines
  <2>2. CASE w \in Writes(c)
        BY <1>5, <2>2, WrittenLines
  <2>. QED  BY <2>1, <2>2
<1>7. p.sent \o w.lines \in Seq(Line)
      BY <1>3, <1>6, ConcatLines
<1>8. journal' = journal \o (p.sent \o w.lines)
      BY <1>2, <1>3, <1>6, ThreeLines
<1>. QED  BY <1>2, <1>7, <1>8

LEMMA CloseTypes ==
    ASSUME TInv, CloseSession
    PROVE  TInv'
<1>. DEFINE closing(n) == <<Event(n, "SessionClosed", {}), Event(n + 1, "CleanShutdown", {})>>
<1>1. PICK p \in PumpOutcomes :
         \E w \in IF poisoned \/ p.torn THEN NoWrites
                  ELSE Writes(closing(nextSeq + Len(p.markers))) :
         /\ journal' = journal \o p.sent \o w.lines /\ synced' \in SyncedIn(journal')
         /\ torn' = (torn \/ p.torn \/ w.torn)
         /\ poisoned' = (poisoned \/ p.torn \/ w.torn) /\ queue' = p.kept
         /\ ram' = ram \cup LinesOf(p.markers)
                       \cup LinesOf(closing(nextSeq + Len(p.markers)))
         /\ nextSeq' = nextSeq + Len(p.markers) + 2
         /\ lost' = lost \cup Untold(p.markers, p.sent)
                         \cup Untold(closing(nextSeq + Len(p.markers)), w.lines)
         /\ \/ UNCHANGED <<dropped, health, pending>>
            \/ dropped' = {} /\ health' = "Healthy" /\ pending' = FALSE
      BY DEF CloseSession
<1>. DEFINE n == nextSeq + Len(p.markers)
            c == closing(n)
<1>2. PICK w \in IF poisoned \/ p.torn THEN NoWrites ELSE Writes(c) :
         /\ journal' = journal \o p.sent \o w.lines /\ synced' \in SyncedIn(journal')
         /\ torn' = (torn \/ p.torn \/ w.torn)
         /\ poisoned' = (poisoned \/ p.torn \/ w.torn) /\ queue' = p.kept
         /\ ram' = ram \cup LinesOf(p.markers) \cup LinesOf(c)
         /\ nextSeq' = n + 2
         /\ lost' = lost \cup Untold(p.markers, p.sent) \cup Untold(c, w.lines)
         /\ \/ UNCHANGED <<dropped, health, pending>>
            \/ dropped' = {} /\ health' = "Healthy" /\ pending' = FALSE
      BY <1>1
<1>3. phase' = "closed" /\ UNCHANGED <<acked, crashes>>
      BY DEF CloseSession
<1>4. /\ p.sent \in Seq(Line) /\ p.kept \in Seq(Line) /\ p.markers \in Seq(Line)
      /\ p.torn \in BOOLEAN /\ Len(p.markers) \in Nat
      BY PumpLeaves DEF TInv, TypeOK
<1>5. n \in Nat /\ n + 1 \in Nat /\ n + 2 \in Nat
      BY <1>4 DEF TInv, TypeOK
<1>6. c \in Seq(Line)
  <2>1. "SessionClosed" \in Kinds /\ "CleanShutdown" \in Kinds
        BY DEF Kinds, SyncKinds
  <2>. HIDE DEF n
  <2>2. Event(n, "SessionClosed", {}) \in Line /\ Event(n + 1, "CleanShutdown", {}) \in Line
        BY <1>5, <2>1, EventLine
  <2>. QED  BY <2>2
<1>. HIDE DEF n, c, closing
<1>9. journal' \in Seq(Line) /\ synced' \in 0 .. Len(journal')
      BY CloseAppends, FileGrows
<1>10. /\ LinesOf(p.markers) \subseteq Line /\ LinesOf(c) \subseteq Line
       /\ Untold(p.markers, p.sent) \in SUBSET Nat /\ Untold(c, w.lines) \in SUBSET Nat
      BY <1>4, <1>6, LineTypes, UntoldNumbers
<1>11. dropped' \in SUBSET Nat /\ IsFiniteSet(dropped')
      BY <1>2, FS_EmptySet DEF TInv, TypeOK
<1>12. torn' \in BOOLEAN /\ poisoned' \in BOOLEAN
      BY <1>2, Zenon
<1>13. ram' \in SUBSET Line /\ lost' \in SUBSET Nat
      BY <1>2, <1>10 DEF TInv, TypeOK
<1>14. health' \in {"Healthy", "Degraded", "Failed"} /\ pending' \in BOOLEAN
      BY <1>2, Zenon DEF TInv, TypeOK
<1>15. queue' \in Seq(Line) /\ nextSeq' \in Nat
      BY <1>2, <1>4, <1>5
<1>16. phase' = "closed" /\ acked' \in SUBSET Line /\ crashes' \in Nat
      BY <1>3 DEF TInv, TypeOK
<1>. QED  BY <1>9, <1>11, <1>12, <1>13, <1>14, <1>15, <1>16 DEF TInv, TypeOK

LEMMA HeaderLine ==
    /\ Event(0, "SessionStarted", {}) \in Line
    /\ Event(0, "SessionStarted", {}).seq = 0
<1>1. "SessionStarted" \in Kinds
      BY DEF Kinds, SyncKinds
<1>. QED  BY <1>1, EventLine

LEMMA BeginTypes ==
    ASSUME TInv, BeginSession
    PROVE  TInv'
<1>. DEFINE header == Event(0, "SessionStarted", {})
<1>1. header \in Line
      BY HeaderLine
<1>2. /\ <<header>> \in Seq(Line) /\ Len(<<header>>) = 1
      /\ <<>> \in Seq(Line) /\ Len(<<>>) = 0
      BY <1>1, OneLine, EmptyLines
<1>3. phase = "idle" /\ journal = <<>> /\ synced = 0
      BY EmptyLines DEF BeginSession, TInv, TypeOK
<1>4. UNCHANGED <<poisoned, queue, dropped, health, pending, acked, lost, crashes>>
      BY DEF BeginSession
<1>5. \/ /\ phase' = "active" /\ journal' = <<header>> /\ synced' = 1
         /\ ram' = {header} /\ nextSeq' = 1 /\ torn' = torn
      \/ /\ phase' = "down" /\ journal' \in {<<>>, <<header>>}
         /\ torn' = TRUE \/ torn' = torn
         /\ UNCHANGED <<synced, ram, nextSeq>>
      BY <1>3 DEF BeginSession
<1>. HIDE DEF header
<1>6. torn' \in BOOLEAN
      BY <1>5, Zenon DEF TInv, TypeOK
<1>7. journal' \in Seq(Line) /\ synced' \in 0 .. Len(journal')
  <2>1. CASE journal' = <<header>> /\ synced' = 1
        BY <1>2, <2>1
  <2>2. CASE journal' \in {<<>>, <<header>>} /\ synced' = 0
    <3>1. journal' = <<>> => journal' \in Seq(Line) /\ Len(journal') = 0
          BY <1>2
    <3>2. journal' = <<header>> => journal' \in Seq(Line) /\ Len(journal') = 1
          BY <1>2
    <3>. QED  BY <2>2, <3>1, <3>2
  <2>. QED  BY <1>3, <1>5, <2>1, <2>2
<1>8. /\ phase' \in {"active", "down"} /\ ram' \in SUBSET Line /\ nextSeq' \in Nat
      BY <1>1, <1>5 DEF TInv, TypeOK
<1>. QED  BY <1>4, <1>6, <1>7, <1>8 DEF TInv, TypeOK

LEMMA CrashTypes ==
    ASSUME TInv, Crash
    PROVE  TInv'
<1>1. PICK n \in synced .. Len(journal) : journal' = SubSeq(journal, 1, n)
      BY DEF Crash
<1>2. /\ phase' = "down" /\ crashes' = crashes + 1 /\ torn' \in BOOLEAN
      /\ lost' = Gapped(journal') \ Declared(journal')
      /\ queue' = <<>> /\ dropped' = {} /\ poisoned' = FALSE /\ nextSeq' = 0
      /\ health' = "Healthy" /\ pending' = FALSE /\ ram' = {}
      /\ UNCHANGED <<synced, acked>>
      BY DEF Crash
<1>3. journal \in Seq(Line) /\ Len(journal) \in Nat /\ synced \in 0 .. Len(journal)
      BY DEF TInv, TypeOK
<1>4. journal' \in Seq(Line) /\ Len(journal') = n
  <2>1. 1 \in 1 .. Len(journal) + 1 /\ n \in 0 .. Len(journal)
        BY <1>3
  <2>. QED  BY <1>1, <1>3, <2>1, PartOfLines
<1>5. synced' \in 0 .. Len(journal')
      BY <1>2, <1>3, <1>4
<1>6. lost' \in SUBSET Nat
  <2>1. Gapped(journal)' \subseteq Nat
        BY <1>4 DEF Gapped
  <2>. QED  BY <1>2, <2>1
<1>7. IsFiniteSet(dropped') /\ <<>> \in Seq(Line)
      BY <1>2, FS_EmptySet, EmptyLines
<1>8. torn' \in BOOLEAN /\ poisoned' \in BOOLEAN /\ pending' \in BOOLEAN
      BY <1>2, Zenon
<1>9. crashes' \in Nat /\ acked' \in SUBSET Line
      BY <1>2 DEF TInv, TypeOK
<1>. QED  BY <1>2, <1>4, <1>5, <1>6, <1>7, <1>8, <1>9 DEF TInv, TypeOK

\* The markers of a resume and the file they leave: they carry the numbers
\* after the last one, and none is a score.
LEMMA ResumeLeaves ==
    ASSUME TInv, Ascending(journal), ResumeSession
    PROVE  \E m, w :
              /\ w.lines \in Seq(Line) /\ LinesOf(w.lines) \subseteq LinesOf(m)
              /\ w.torn \in BOOLEAN /\ Ascending(w.lines)
              /\ m \in Seq(Line) /\ Fresh(m, LastSeq(journal) + 1)
              /\ Below(m, nextSeq')
              /\ LastSeq(journal) \in Nat /\ Below(journal, LastSeq(journal) + 1)
              /\ nextSeq' = LastSeq(journal) + 3
              /\ journal' = journal \o w.lines /\ synced' \in SyncedIn(journal')
              /\ torn' = w.torn /\ poisoned' = w.torn
              /\ ram' = LinesOf(journal) \cup LinesOf(m)
              /\ lost' = lost \cup Untold(m, w.lines)
<1>. DEFINE n == LastSeq(journal) + 1
            started == Event(n, "RecoveryStarted", {})
            completed == Event(n + 1, "RecoveryCompleted", {})
            m == <<started, completed>>
<1>1. PICK w \in Writes(m) :
         /\ journal' = journal \o w.lines /\ synced' \in SyncedIn(journal')
         /\ torn' = w.torn /\ poisoned' = w.torn
         /\ ram' = LinesOf(journal) \cup LinesOf(m) /\ nextSeq' = n + 2
         /\ lost' = lost \cup Untold(m, w.lines)
      BY DEF ResumeSession
<1>2. /\ journal \in Seq(Line) /\ Len(journal) \in Nat /\ Len(journal) > 0
      /\ DOMAIN journal = 1 .. Len(journal)
  <2>1. journal \in Seq(Line) /\ journal # <<>>
        BY DEF ResumeSession, Resumable, RecoveryClass, TInv, TypeOK
  <2>. QED  BY <2>1
<1>3. journal[Len(journal)] \in Line /\ LastSeq(journal) \in Nat
      BY <1>2, LineTypes DEF LastSeq
<1>4. Below(journal, n)
  <2>1. ASSUME NEW i \in DOMAIN journal PROVE journal[i].seq < n
    <3>1. journal[i].seq \in Nat
          BY <1>2, LineTypes
    <3>2. i = Len(journal) \/ i < Len(journal)
          BY <1>2
    <3>3. i < Len(journal) => journal[i].seq < LastSeq(journal)
          BY <1>2 DEF Ascending, LastSeq
    <3>4. i = Len(journal) => journal[i].seq = LastSeq(journal)
          BY DEF LastSeq
    <3>. QED  BY <1>3, <3>1, <3>2, <3>3, <3>4
  <2>. QED  BY <2>1 DEF Below, LinesOf
<1>5. n \in Nat /\ n + 1 \in Nat /\ n + 2 = LastSeq(journal) + 3
      BY <1>3
<1>6. /\ started \in Line /\ started.seq = n /\ started.kind = "RecoveryStarted"
      /\ completed \in Line /\ completed.seq = n + 1
      /\ completed.kind = "RecoveryCompleted"
  <2>1. "RecoveryStarted" \in Kinds /\ "RecoveryCompleted" \in Kinds
        BY DEF Kinds, SyncKinds
  <2>. HIDE DEF n
  <2>. QED  BY <1>5, <2>1, EventLine
<1>. HIDE DEF n, started, completed
<1>7. m \in Seq(Line) /\ DOMAIN m = 1 .. 2 /\ m[1] = started /\ m[2] = completed
      BY <1>6
<1>. HIDE DEF m
<1>8. LinesOf(m) = {started, completed}
      BY <1>7 DEF LinesOf
<1>9. Ascending(m)
      BY <1>5, <1>6, <1>7 DEF Ascending
<1>10. Fresh(m, n)
  <2>1. n <= started.seq /\ n <= completed.seq
        BY <1>5, <1>6
  <2>2. started.kind \notin ScoreKinds /\ completed.kind \notin ScoreKinds
        BY <1>6 DEF ScoreKinds
  <2>. QED  BY <1>8, <2>1, <2>2 DEF Fresh
<1>11. Below(m, n + 2)
      BY <1>5, <1>6, <1>8 DEF Below
<1>12. /\ w.lines \in Seq(Line) /\ LinesOf(w.lines) \subseteq LinesOf(m)
       /\ w.torn \in BOOLEAN /\ Ascending(w.lines)
      BY <1>7, <1>9, WrittenLines
<1>13. /\ Fresh(m, LastSeq(journal) + 1) /\ Below(journal, LastSeq(journal) + 1)
       /\ Below(m, nextSeq') /\ nextSeq' = LastSeq(journal) + 3
      BY <1>1, <1>4, <1>5, <1>10, <1>11 DEF n
<1>. QED  BY <1>1, <1>3, <1>7, <1>12, <1>13

LEMMA ResumeTypes ==
    ASSUME TInv, Ascending(journal), ResumeSession
    PROVE  TInv'
<1>1. PICK m, w :
         /\ w.lines \in Seq(Line) /\ w.torn \in BOOLEAN /\ m \in Seq(Line)
         /\ LastSeq(journal) \in Nat /\ nextSeq' = LastSeq(journal) + 3
         /\ journal' = journal \o w.lines /\ synced' \in SyncedIn(journal')
         /\ torn' = w.torn /\ poisoned' = w.torn
         /\ ram' = LinesOf(journal) \cup LinesOf(m)
         /\ lost' = lost \cup Untold(m, w.lines)
      BY ResumeLeaves
<1>2. /\ phase' = "active" /\ queue' = <<>> /\ dropped' = {} /\ health' = "Healthy"
      /\ pending' = FALSE /\ UNCHANGED <<acked, crashes>>
      BY DEF ResumeSession
<1>3. journal' \in Seq(Line) /\ synced' \in 0 .. Len(journal')
      BY <1>1, FileGrows
<1>4. ram' \in SUBSET Line
      BY <1>1, LineTypes DEF TInv, TypeOK
<1>5. lost' \in SUBSET Nat
  <2>1. Untold(m, w.lines) \in SUBSET Nat
        BY <1>1, UntoldNumbers
  <2>. QED  BY <1>1, <2>1 DEF TInv, TypeOK
<1>6. nextSeq' \in Nat
      BY <1>1
<1>7. torn' \in BOOLEAN /\ poisoned' \in BOOLEAN /\ pending' \in BOOLEAN
      BY <1>1, <1>2, Zenon
<1>8. /\ dropped' \in SUBSET Nat /\ IsFiniteSet(dropped') /\ queue' \in Seq(Line)
      /\ acked' \in SUBSET Line /\ crashes' \in Nat
      BY <1>2, FS_EmptySet, EmptyLines DEF TInv, TypeOK
<1>. QED  BY <1>2, <1>3, <1>4, <1>5, <1>6, <1>7, <1>8 DEF TInv, TypeOK

LEMMA StillTypes ==
    ASSUME TInv, Discard \/ UNCHANGED vars
    PROVE  TInv'
BY DEF TInv, TypeOK, Discard, vars
-----------------------------------------------------------------------------
(* Order.  While the session runs everything written or waiting is         *)
(* numbered below the counter, and the journal before the queue.           *)

Ordered ==
    /\ Ascending(journal)
    /\ phase = "active" =>
          /\ Ascending(queue) /\ Before(journal, queue)
          /\ Below(journal, nextSeq) /\ Below(queue, nextSeq)

LEMMA TypesStep ==
    ASSUME TInv, Ordered, [Next]_vars
    PROVE  TInv'
<1>. Ascending(journal)
     BY DEF Ordered
<1>1. CASE BeginSession  BY <1>1, BeginTypes
<1>2. CASE \E k \in Submitted : Submit(k)  BY <1>2, SubmitTypes
<1>3. CASE PumpRetryQueue  BY <1>3, PumpTypes
<1>4. CASE CloseSession  BY <1>4, CloseTypes
<1>5. CASE Crash  BY <1>5, CrashTypes
<1>6. CASE ResumeSession  BY <1>6, ResumeTypes
<1>7. CASE Discard \/ UNCHANGED vars  BY <1>7, StillTypes
<1>. QED  BY <1>1, <1>2, <1>3, <1>4, <1>5, <1>6, <1>7 DEF Next

LEMMA SubmitOrder ==
    ASSUME TInv, Ordered, NEW k \in Submitted, Submit(k)
    PROVE  Ordered'
<1>. DEFINE item == Event(nextSeq, k, {})
            marker == Event(nextSeq + 1, "PersistenceDegraded", {})
<1>1. /\ nextSeq \in Nat /\ nextSeq + 1 \in Nat
      /\ journal \in Seq(Line) /\ queue \in Seq(Line)
      BY DEF TInv, TypeOK
<1>2. item \in Line /\ item.seq = nextSeq
      BY <1>1, SubmittedKinds, EventLine
<1>3. marker \in Line /\ marker.seq = nextSeq + 1
  <2>1. "PersistenceDegraded" \in Kinds
        BY DEF Kinds, SyncKinds
  <2>. QED  BY <1>1, <2>1, EventLine
<1>. HIDE DEF item, marker
<1>4. /\ phase = "active" /\ phase' = "active"
      BY DEF Submit, SubmitBehindQueue, SubmitDurable, SubmitUnsynced,
             SubmitPoisoned, SubmitFailed, Reduce
<1>5. /\ Ascending(journal) /\ Ascending(queue) /\ Before(journal, queue)
      /\ Below(journal, nextSeq) /\ Below(queue, nextSeq)
      BY <1>4 DEF Ordered
<1>6. /\ \A e \in LinesOf(journal) : e.seq \in Nat
      /\ \A e \in LinesOf(queue) : e.seq \in Nat
      BY <1>1, LineTypes
<1>. DEFINE q == Enqueued(queue, item)
<1>7. /\ q \in Seq(Line) /\ LinesOf(q) \subseteq LinesOf(queue) \cup {item}
      /\ Ascending(q)
      BY <1>1, <1>2, <1>5, EnqueuedLines
<1>. HIDE DEF q
<1>8. Before(journal, q) /\ Below(q, nextSeq + 1) /\ Below(journal, nextSeq + 1)
      BY <1>1, <1>2, <1>5, <1>6, <1>7 DEF Before, Below
<1>9. /\ Ascending(Append(journal, item))
      /\ LinesOf(Append(journal, item)) = LinesOf(journal) \cup {item}
      BY <1>1, <1>2, <1>5, AppendLines
<1>10. Below(Append(journal, item), nextSeq + 1)
      BY <1>1, <1>2, <1>8, <1>9 DEF Below
<1>11. CASE SubmitBehindQueue(k) \/ SubmitPoisoned(k)
  <2>1. queue' = q /\ journal' = journal /\ nextSeq' = nextSeq + 1
        BY <1>11 DEF SubmitBehindQueue, SubmitPoisoned, q, item
  <2>. QED  BY <1>4, <1>5, <1>7, <1>8, <2>1 DEF Ordered
<1>12. CASE SubmitDurable(k) \/ SubmitUnsynced(k)
  <2>1. queue' = <<>> /\ journal' = Append(journal, item) /\ nextSeq' = nextSeq + 1
        BY <1>12 DEF SubmitDurable, SubmitUnsynced, item
  <2>2. /\ Ascending(<<>>) /\ Before(Append(journal, item), <<>>)
        /\ Below(<<>>, nextSeq + 1)
        BY EmptyLines DEF Before, Below
  <2>. QED  BY <1>4, <1>9, <1>10, <2>1, <2>2 DEF Ordered
<1>13. CASE SubmitFailed(k)
  <2>. DEFINE r == Enqueued(q, marker)
  <2>1. /\ LinesOf(r) \subseteq LinesOf(q) \cup {marker} /\ Ascending(r)
        BY <1>3, <1>7, <1>8, EnqueuedLines
  <2>. HIDE DEF r
  <2>2. \A e \in LinesOf(q) : e.seq \in Nat
        BY <1>7, LineTypes
  <2>3. Before(journal, r) /\ Below(r, nextSeq + 2) /\ Below(journal, nextSeq + 2)
        BY <1>1, <1>3, <1>5, <1>6, <1>8, <2>1, <2>2 DEF Before, Below
  <2>4. /\ journal' = journal
        /\ \/ queue' = q /\ nextSeq' = nextSeq + 1
           \/ queue' = r /\ nextSeq' = nextSeq + 2
        BY <1>13 DEF SubmitFailed, q, r, item, marker
  <2>. QED  BY <1>4, <1>5, <1>7, <1>8, <2>1, <2>3, <2>4 DEF Ordered
<1>. QED  BY <1>11, <1>12, <1>13 DEF Submit

\* What a pump leaves is in order, and all of it before the counter.
LEMMA PumpLeavesOrder ==
    ASSUME TInv, Ordered, phase = "active", NEW p \in PumpOutcomes
    PROVE  LET n == nextSeq + Len(p.markers) IN
           /\ Ascending(journal \o p.sent) /\ Ascending(p.kept)
           /\ Before(journal \o p.sent, p.kept)
           /\ Below(journal \o p.sent, n) /\ Below(p.kept, n)
<1>. DEFINE n == nextSeq + Len(p.markers)
<1>1. /\ nextSeq \in Nat /\ journal \in Seq(Line) /\ queue \in Seq(Line)
      /\ dropped \in SUBSET Nat /\ IsFiniteSet(dropped)
      BY DEF TInv, TypeOK
<1>2. /\ Ascending(journal) /\ Ascending(queue) /\ Before(journal, queue)
      /\ Below(journal, nextSeq) /\ Below(queue, nextSeq)
      BY DEF Ordered
<1>3. /\ p.sent \in Seq(Line) /\ p.kept \in Seq(Line) /\ p.markers \in Seq(Line)
      /\ Len(p.markers) \in Nat
      /\ LinesOf(p.sent) \subseteq LinesOf(queue) \cup LinesOf(p.markers)
      /\ LinesOf(p.kept) \subseteq LinesOf(queue)
      /\ Fresh(p.markers, nextSeq) /\ Below(p.markers, n)
      /\ Ascending(p.sent) /\ Ascending(p.kept) /\ Before(p.sent, p.kept)
      BY <1>1, <1>2, PumpLeaves
<1>4. /\ \A e \in LinesOf(journal) : e.seq \in Nat
      /\ \A e \in LinesOf(queue) : e.seq \in Nat
      /\ \A e \in LinesOf(p.markers) : e.seq \in Nat
      BY <1>1, <1>3, LineTypes
<1>5. n \in Nat /\ nextSeq <= n
      BY <1>1, <1>3
<1>. HIDE DEF n
<1>6. Before(journal, p.sent)
  <2>1. ASSUME NEW e \in LinesOf(journal), NEW f \in LinesOf(p.sent)
        PROVE  e.seq < f.seq
    <3>1. CASE f \in LinesOf(queue)
          BY <1>2, <3>1 DEF Before
    <3>2. CASE f \in LinesOf(p.markers)
      <4>1. e.seq < nextSeq /\ nextSeq <= f.seq /\ e.seq \in Nat /\ f.seq \in Nat
            BY <1>2, <1>3, <1>4, <3>2 DEF Below, Fresh
      <4>. QED  BY <1>1, <4>1
    <3>. QED  BY <1>3, <3>1, <3>2
  <2>. QED  BY <2>1 DEF Before
<1>7. /\ LinesOf(journal \o p.sent) = LinesOf(journal) \cup LinesOf(p.sent)
      /\ Ascending(journal \o p.sent)
      BY <1>1, <1>2, <1>3, <1>6, ConcatLines
<1>8. Below(journal, n) /\ Below(queue, n)
      BY <1>1, <1>2, <1>4, <1>5 DEF Below
<1>9. Below(journal \o p.sent, n) /\ Below(p.kept, n)
      BY <1>3, <1>7, <1>8 DEF Below
<1>10. Before(journal \o p.sent, p.kept)
      BY <1>2, <1>3, <1>7 DEF Before
<1>. QED  BY <1>3, <1>7, <1>9, <1>10 DEF n

LEMMA PumpOrder ==
    ASSUME TInv, Ordered, PumpRetryQueue
    PROVE  Ordered'
<1>1. PICK p \in PumpOutcomes :
         /\ journal' = journal \o p.sent /\ queue' = p.kept
         /\ nextSeq' = nextSeq + Len(p.markers)
      BY DEF PumpRetryQueue
<1>2. phase = "active" /\ phase' = "active"
      BY DEF PumpRetryQueue
<1>. QED  BY <1>1, <1>2, PumpLeavesOrder DEF Ordered

LEMMA CloseOrder ==
    ASSUME TInv, Ordered, CloseSession
    PROVE  Ordered'
<1>. DEFINE closing(n) == <<Event(n, "SessionClosed", {}), Event(n + 1, "CleanShutdown", {})>>
<1>1. PICK p \in PumpOutcomes :
         \E w \in IF poisoned \/ p.torn THEN NoWrites
                  ELSE Writes(closing(nextSeq + Len(p.markers))) :
            journal' = journal \o p.sent \o w.lines
      BY DEF CloseSession
<1>. DEFINE n == nextSeq + Len(p.markers)
            c == closing(n)
            j == journal \o p.sent
<1>2. PICK w \in IF poisoned \/ p.torn THEN NoWrites ELSE Writes(c) :
            journal' = j \o w.lines
      BY <1>1
<1>3. phase = "active" /\ phase' = "closed"
      BY DEF CloseSession
<1>4. /\ p.sent \in Seq(Line) /\ Len(p.markers) \in Nat
      BY PumpLeaves DEF TInv, TypeOK
<1>5. j \in Seq(Line) /\ Ascending(j) /\ Below(j, n)
      BY <1>3, <1>4, PumpLeavesOrder, ConcatLines DEF TInv, TypeOK
<1>6. n \in Nat /\ n + 1 \in Nat
      BY <1>4 DEF TInv, TypeOK
<1>. HIDE DEF n, j
<1>7. /\ c \in Seq(Line) /\ Ascending(c)
      /\ \A f \in LinesOf(c) : f.seq \in Nat /\ n <= f.seq
  <2>. DEFINE a == Event(n, "SessionClosed", {})
              b == Event(n + 1, "CleanShutdown", {})
  <2>1. "SessionClosed" \in Kinds /\ "CleanShutdown" \in Kinds
        BY DEF Kinds, SyncKinds
  <2>2. a \in Line /\ a.seq = n /\ b \in Line /\ b.seq = n + 1
        BY <1>6, <2>1, EventLine
  <2>3. c = <<a, b>>
        OBVIOUS
  <2>. HIDE DEF a, b, c
  <2>4. c \in Seq(Line) /\ DOMAIN c = 1 .. 2 /\ c[1] = a /\ c[2] = b
        BY <2>2, <2>3
  <2>5. Ascending(c)
        BY <1>6, <2>2, <2>4 DEF Ascending
  <2>6. LinesOf(c) = {a, b}
        BY <2>4 DEF LinesOf
  <2>. QED  BY <1>6, <2>2, <2>4, <2>5, <2>6
<1>. HIDE DEF c, closing
<1>8. /\ w.lines \in Seq(Line) /\ LinesOf(w.lines) \subseteq LinesOf(c)
      /\ Ascending(w.lines)
  <2>1. CASE w \in NoWrites
    <3>1. w.lines = <<>>
          BY <2>1 DEF NoWrites
    <3>. QED  BY <3>1, EmptyLines
  <2>2. CASE w \in Writes(c)
        BY <1>7, <2>2, WrittenLines
  <2>. QED  BY <2>1, <2>2
<1>9. Before(j, w.lines)
  <2>1. \A e \in LinesOf(j) : e.seq \in Nat /\ e.seq < n
        BY <1>5, LineTypes DEF Below
  <2>. QED  BY <1>6, <1>7, <1>8, <2>1 DEF Before
<1>10. Ascending(journal')
      BY <1>2, <1>5, <1>8, <1>9, ConcatLines
<1>11. Ascending(journal)'
      BY <1>10 DEF Ascending
<1>. QED  BY <1>3, <1>11 DEF Ordered

LEMMA ResumeOrder ==
    ASSUME TInv, Ordered, ResumeSession
    PROVE  Ordered'
<1>1. Ascending(journal) /\ journal \in Seq(Line)
      BY DEF Ordered, TInv, TypeOK
<1>. DEFINE n == LastSeq(journal) + 1
<1>2. PICK m, w :
         /\ w.lines \in Seq(Line) /\ LinesOf(w.lines) \subseteq LinesOf(m)
         /\ Ascending(w.lines) /\ m \in Seq(Line) /\ Fresh(m, n) /\ Below(m, nextSeq')
         /\ LastSeq(journal) \in Nat /\ Below(journal, n)
         /\ nextSeq' = LastSeq(journal) + 3 /\ journal' = journal \o w.lines
      BY <1>1, ResumeLeaves
<1>3. n \in Nat /\ nextSeq' = n + 2
      BY <1>2
<1>. HIDE DEF n
<1>4. /\ \A e \in LinesOf(journal) : e.seq \in Nat
      /\ \A e \in LinesOf(w.lines) : e.seq \in Nat
      BY <1>1, <1>2, LineTypes
<1>5. Before(journal, w.lines)
      BY <1>2, <1>3, <1>4 DEF Before, Below, Fresh
<1>6. /\ Ascending(journal \o w.lines)
      /\ LinesOf(journal \o w.lines) = LinesOf(journal) \cup LinesOf(w.lines)
      BY <1>1, <1>2, <1>5, ConcatLines
<1>7. Below(journal \o w.lines, nextSeq')
      BY <1>2, <1>3, <1>4, <1>6 DEF Below
<1>8. queue' = <<>>
      BY DEF ResumeSession
<1>9. /\ Ascending(<<>>) /\ Before(journal \o w.lines, <<>>) /\ Below(<<>>, nextSeq')
      BY EmptyLines DEF Before, Below
<1>. QED  BY <1>2, <1>6, <1>7, <1>8, <1>9 DEF Ordered

LEMMA OrderStep ==
    ASSUME TInv, Ordered, [Next]_vars
    PROVE  Ordered'
<1>1. CASE BeginSession
  <2>. DEFINE header == Event(0, "SessionStarted", {})
  <2>1. /\ phase = "idle" /\ journal = <<>> /\ queue = <<>> /\ queue' = <<>>
        BY <1>1 DEF BeginSession, TInv
  <2>2. \/ phase' = "active" /\ journal' = <<header>> /\ nextSeq' = 1
        \/ phase' = "down" /\ journal' \in {<<>>, <<header>>}
        BY <1>1, <2>1 DEF BeginSession
  <2>3. header \in Line /\ header.seq = 0
        BY HeaderLine
  <2>. HIDE DEF header
  <2>4. /\ Ascending(<<header>>) /\ Ascending(<<>>)
        /\ LinesOf(<<header>>) = {header} /\ LinesOf(<<>>) = {}
        BY <2>3, OneLine, EmptyLines
  <2>5. /\ Before(<<header>>, <<>>) /\ Below(<<header>>, 1) /\ Below(<<>>, 1)
        BY <2>3, <2>4 DEF Before, Below
  <2>. QED  BY <2>1, <2>2, <2>4, <2>5 DEF Ordered
<1>2. CASE \E k \in Submitted : Submit(k)  BY <1>2, SubmitOrder
<1>3. CASE PumpRetryQueue  BY <1>3, PumpOrder
<1>4. CASE CloseSession  BY <1>4, CloseOrder
<1>5. CASE Crash
  <2>1. PICK n \in synced .. Len(journal) : journal' = SubSeq(journal, 1, n)
        BY <1>5 DEF Crash
  <2>2. /\ journal \in Seq(Line) /\ n \in 0 .. Len(journal)
        /\ 1 \in 1 .. Len(journal) + 1
        BY DEF TInv, TypeOK
  <2>3. Ascending(SubSeq(journal, 1, n))
        BY <2>2, PartOfLines DEF Ordered
  <2>. QED  BY <1>5, <2>1, <2>3 DEF Crash, Ordered
<1>6. CASE ResumeSession  BY <1>6, ResumeOrder
<1>7. CASE Discard \/ UNCHANGED vars
      BY <1>7 DEF Ordered, Ascending, Before, Below, LinesOf, Discard, vars
<1>. QED  BY <1>1, <1>2, <1>3, <1>4, <1>5, <1>6, <1>7 DEF Next

LEMMA InitOrder == Init => Ordered
BY EmptyLines DEF Init, Ordered

\* The inductive invariant that the theorems below rest on: the types, and the
\* order of journal and queue below the counter of SessionStore.
THEOREM Invariant == Spec => [](TInv /\ Ordered)
<1>1. Init => TInv /\ Ordered
      BY InitTypes, InitOrder
<1>2. TInv /\ Ordered /\ [Next]_vars => (TInv /\ Ordered)'
      BY TypesStep, OrderStep
<1>. QED  BY <1>1, <1>2, PTL DEF Spec

\* Every variable keeps its type whatever storage does, whatever the capacity
\* of the queue, and however many crashes there are.
THEOREM TypesHold == Spec => []TypeOK
<1>1. TInv => TypeOK
      BY DEF TInv
<1>. QED  BY <1>1, Invariant, PTL

\* No drain, marker, close or resume ever writes a line the validator would
\* reject as repeated or out of order.
THEOREM JournalInOrder == Spec => []WriteOrder
<1>1. TInv /\ Ordered => WriteOrder
  <2>1. TInv /\ Ordered /\ phase = "active" => Ascending(journal \o queue)
        BY ConcatLines DEF TInv, TypeOK, Ordered
  <2>. QED  BY <2>1 DEF Ordered, WriteOrder
<1>. QED  BY <1>1, Invariant, PTL

-----------------------------------------------------------------------------
(* No score is lost while the session runs.                                *)

LEMMA ScoresAreOfficial ==
    ASSUME NEW e, e.kind \in ScoreKinds
    PROVE  Official(e)
BY DEF ScoreKinds, Official, SyncKinds

LEMMA SubmitHolds ==
    ASSUME TInv, OfficialsHeld, NEW k \in Submitted, Submit(k)
    PROVE  OfficialsHeld'
<1>. DEFINE item == Event(nextSeq, k, {})
            marker == Event(nextSeq + 1, "PersistenceDegraded", {})
            q == Enqueued(queue, item)
            r == Enqueued(q, marker)
            held == LinesOf(journal) \cup LinesOf(queue)
<1>1. /\ nextSeq \in Nat /\ nextSeq + 1 \in Nat
      /\ journal \in Seq(Line) /\ queue \in Seq(Line)
      BY DEF TInv, TypeOK
<1>2. item \in Line /\ marker \in Line /\ marker.kind \notin ScoreKinds
  <2>1. "PersistenceDegraded" \in Kinds
        BY DEF Kinds, SyncKinds
  <2>2. item \in Line
        BY <1>1, SubmittedKinds, EventLine
  <2>3. marker \in Line /\ marker.kind = "PersistenceDegraded"
        BY <1>1, <2>1, EventLine
  <2>. QED  BY <2>2, <2>3 DEF ScoreKinds
<1>3. phase = "active" /\ Scores(ram) \subseteq held /\ held \subseteq ram
      BY DEF OfficialsHeld, Submit, SubmitBehindQueue, SubmitDurable,
             SubmitUnsynced, SubmitPoisoned, SubmitFailed, Reduce
<1>. HIDE DEF item, marker, q, r
<1>4. /\ q \in Seq(Line) /\ item \in LinesOf(q)
      /\ LinesOf(q) \subseteq LinesOf(queue) \cup {item}
      /\ \A e \in LinesOf(queue) : e.kind \in ScoreKinds => e \in LinesOf(q)
      BY <1>1, <1>2, EnqueuedLines, ScoresAreOfficial DEF q
<1>5. /\ LinesOf(r) \subseteq LinesOf(q) \cup {marker}
      /\ \A e \in LinesOf(q) : e.kind \in ScoreKinds => e \in LinesOf(r)
      BY <1>2, <1>4, EnqueuedLines, ScoresAreOfficial DEF r
<1>6. CASE SubmitBehindQueue(k) \/ SubmitPoisoned(k)
  <2>1. queue' = q /\ journal' = journal /\ ram' = ram \cup {item}
        BY <1>6 DEF SubmitBehindQueue, SubmitPoisoned, q, item
  <2>. QED  BY <1>3, <1>4, <2>1 DEF OfficialsHeld, Scores
<1>7. CASE SubmitDurable(k) \/ SubmitUnsynced(k)
  <2>1. queue' = queue /\ journal' = Append(journal, item) /\ ram' = ram \cup {item}
        BY <1>7 DEF SubmitDurable, SubmitUnsynced, item
  <2>2. LinesOf(Append(journal, item)) = LinesOf(journal) \cup {item}
        BY <1>1, <1>2, AppendLines
  <2>. QED  BY <1>3, <2>1, <2>2 DEF OfficialsHeld, Scores
<1>8. CASE SubmitFailed(k)
  <2>1. /\ journal' = journal
        /\ \/ queue' = q /\ ram' = ram \cup {item}
           \/ queue' = r /\ ram' = ram \cup {item} \cup {marker}
        BY <1>8 DEF SubmitFailed, q, r, item, marker
  <2>2. CASE queue' = q /\ ram' = ram \cup {item}
        BY <1>3, <1>4, <2>1, <2>2 DEF OfficialsHeld, Scores
  <2>3. CASE queue' = r /\ ram' = ram \cup {item} \cup {marker}
        BY <1>2, <1>3, <1>4, <1>5, <2>1, <2>3 DEF OfficialsHeld, Scores
  <2>. QED  BY <2>1, <2>2, <2>3
<1>. QED  BY <1>6, <1>7, <1>8 DEF Submit

LEMMA PumpHolds ==
    ASSUME TInv, OfficialsHeld, PumpRetryQueue
    PROVE  OfficialsHeld'
<1>1. PICK p \in PumpOutcomes :
         /\ journal' = journal \o p.sent /\ queue' = p.kept
         /\ ram' = ram \cup LinesOf(p.markers)
      BY DEF PumpRetryQueue
<1>2. /\ p.sent \in Seq(Line)
      /\ LinesOf(queue) \subseteq LinesOf(p.sent) \cup LinesOf(p.kept)
      /\ LinesOf(p.sent) \subseteq LinesOf(queue) \cup LinesOf(p.markers)
      /\ LinesOf(p.kept) \subseteq LinesOf(queue)
      /\ Fresh(p.markers, nextSeq)
      BY PumpLeaves DEF TInv, TypeOK
<1>3. LinesOf(journal \o p.sent) = LinesOf(journal) \cup LinesOf(p.sent)
      BY <1>2, ConcatLines DEF TInv, TypeOK
<1>4. \A e \in LinesOf(p.markers) : e.kind \notin ScoreKinds
      BY <1>2 DEF Fresh
<1>5. /\ Scores(ram) \subseteq LinesOf(journal) \cup LinesOf(queue)
      /\ LinesOf(journal) \cup LinesOf(queue) \subseteq ram
      BY DEF OfficialsHeld, PumpRetryQueue
<1>. QED  BY <1>1, <1>2, <1>3, <1>4, <1>5 DEF OfficialsHeld, Scores

LEMMA ResumeHolds ==
    ASSUME TInv, Ordered, ResumeSession
    PROVE  OfficialsHeld'
<1>1. Ascending(journal) /\ journal \in Seq(Line)
      BY DEF Ordered, TInv, TypeOK
<1>2. PICK m, w :
         /\ w.lines \in Seq(Line) /\ LinesOf(w.lines) \subseteq LinesOf(m)
         /\ Fresh(m, LastSeq(journal) + 1)
         /\ journal' = journal \o w.lines /\ ram' = LinesOf(journal) \cup LinesOf(m)
      BY <1>1, ResumeLeaves
<1>3. LinesOf(journal \o w.lines) = LinesOf(journal) \cup LinesOf(w.lines)
      BY <1>1, <1>2, ConcatLines
<1>4. queue' = <<>> /\ LinesOf(<<>>) = {}
      BY EmptyLines DEF ResumeSession
<1>5. \A e \in LinesOf(m) : e.kind \notin ScoreKinds
      BY <1>2 DEF Fresh
<1>. QED  BY <1>2, <1>3, <1>4, <1>5 DEF OfficialsHeld, Scores

LEMMA HoldsStep ==
    ASSUME TInv, Ordered, OfficialsHeld, [Next]_vars
    PROVE  OfficialsHeld'
<1>1. CASE BeginSession
  <2>. DEFINE header == Event(0, "SessionStarted", {})
  <2>1. /\ queue' = <<>>
        /\ \/ phase' = "down"
           \/ journal' = <<header>> /\ ram' = {header}
        BY <1>1 DEF BeginSession, TInv
  <2>2. LinesOf(<<header>>) = {header} /\ LinesOf(<<>>) = {}
        BY HeaderLine, OneLine, EmptyLines
  <2>. HIDE DEF header
  <2>. QED  BY <2>1, <2>2 DEF OfficialsHeld, Scores
<1>2. CASE \E k \in Submitted : Submit(k)  BY <1>2, SubmitHolds
<1>3. CASE PumpRetryQueue  BY <1>3, PumpHolds
<1>4. CASE CloseSession \/ Crash \/ Discard
      BY <1>4 DEF CloseSession, Crash, Discard, OfficialsHeld
<1>5. CASE ResumeSession  BY <1>5, ResumeHolds
<1>6. CASE UNCHANGED vars
      BY <1>6 DEF vars, OfficialsHeld, LinesOf, Scores
<1>. QED  BY <1>1, <1>2, <1>3, <1>4, <1>5, <1>6 DEF Next

\* Never refuse to score, never lose a score: whatever storage does, every
\* official event the reducer accepted is in the file or in the retry queue
\* while the session runs, and both hold only what was reduced.
THEOREM ScoresHeld == Spec => []OfficialsHeld
<1>1. Init => OfficialsHeld
      BY DEF Init, OfficialsHeld
<1>2. TInv /\ Ordered /\ OfficialsHeld /\ [Next]_vars => OfficialsHeld'
      BY HoldsStep
<1>. QED  BY <1>1, <1>2, Invariant, PTL DEF Spec
-----------------------------------------------------------------------------
(* What was acknowledged is safe.                                          *)

Safe(j, n) == LinesOf(SubSeq(j, 1, n))

\* A file that only grew, and is synced as far as before, is as safe.
LEMMA SafeGrows ==
    ASSUME TInv, NEW s \in Seq(Line), NEW n \in synced .. Len(journal \o s)
    PROVE  Safe(journal, synced) \subseteq Safe(journal \o s, n)
<1>. DEFINE file == journal \o s
<1>1. /\ journal \in Seq(Line) /\ Len(journal) \in Nat /\ synced \in 0 .. Len(journal)
      BY DEF TInv, TypeOK
<1>2. /\ file \in Seq(Line) /\ Len(file) = Len(journal) + Len(s) /\ Len(s) \in Nat
      /\ \A i \in 1 .. Len(journal) : file[i] = journal[i]
      BY <1>1, ConcatLines, ConcatProperties
<1>. HIDE DEF file
<1>3. Safe(journal, synced) = {journal[i] : i \in 1 .. synced}
  <2>1. 1 \in 1 .. Len(journal) + 1
        BY <1>1
  <2>. QED  BY <1>1, <2>1, PartOfLines DEF Safe
<1>4. Safe(file, n) = {file[i] : i \in 1 .. n}
  <2>1. 1 \in 1 .. Len(file) + 1 /\ n \in 0 .. Len(file)
        BY <1>1, <1>2 DEF file
  <2>. QED  BY <1>2, <2>1, PartOfLines DEF Safe
<1>5. \A i \in 1 .. synced : i \in 1 .. n /\ file[i] = journal[i]
      BY <1>1, <1>2 DEF file
<1>. QED  BY <1>3, <1>4, <1>5 DEF file

LEMMA SubmitSafe ==
    ASSUME TInv, AckedSurvive, NEW k \in Submitted, Submit(k)
    PROVE  AckedSurvive'
<1>. DEFINE item == Event(nextSeq, k, {})
            grown == journal \o <<item>>
<1>1. /\ journal \in Seq(Line) /\ Len(journal) \in Nat /\ synced \in 0 .. Len(journal)
      /\ nextSeq \in Nat
      BY DEF TInv, TypeOK
<1>2. item \in Line
      BY <1>1, SubmittedKinds, EventLine
<1>. HIDE DEF item
<1>3. /\ <<item>> \in Seq(Line) /\ Append(journal, item) = grown
      /\ grown \in Seq(Line) /\ Len(grown) = Len(journal) + 1
      /\ LinesOf(grown) = LinesOf(journal) \cup {item}
  <2>1. Append(journal, item) = grown
        BY <1>1, <1>2, AppendIsConcat
  <2>. HIDE DEF grown
  <2>. QED  BY <1>1, <1>2, <2>1, AppendLines, OneLine
<1>. HIDE DEF grown
<1>4. Safe(journal, synced) \subseteq Safe(grown, synced)
  <2>1. synced \in synced .. Len(grown)
        BY <1>1, <1>3
  <2>. QED  BY <1>3, <2>1, SafeGrows DEF grown
<1>5. CASE SubmitBehindQueue(k) \/ SubmitPoisoned(k) \/ SubmitFailed(k)
  <2>1. UNCHANGED <<journal, synced, acked>>
        BY <1>5 DEF SubmitBehindQueue, SubmitPoisoned, SubmitFailed
  <2>. QED  BY <2>1 DEF AckedSurvive
<1>6. CASE SubmitDurable(k)
  <2>1. /\ journal' = grown /\ acked' = acked \cup {item}
        /\ synced' = IF Official(item) THEN Len(journal) + 1 ELSE synced
        BY <1>3, <1>6 DEF SubmitDurable, item
  <2>2. CASE Official(item)
    <3>1. Len(grown) \in synced .. Len(grown)
          BY <1>1, <1>3
    <3>2. Safe(journal, synced) \subseteq Safe(grown, Len(grown))
          BY <1>3, <3>1, SafeGrows DEF grown
    <3>3. LinesOf(grown) = Safe(grown, Len(grown))
      <4>1. /\ 1 \in 1 .. Len(grown) + 1 /\ Len(grown) \in 0 .. Len(grown)
            /\ DOMAIN grown = 1 .. Len(grown)
            BY <1>1, <1>3
      <4>2. Safe(grown, Len(grown)) = {grown[i] : i \in 1 .. Len(grown)}
            BY <1>3, <4>1, PartOfLines DEF Safe
      <4>. QED  BY <4>1, <4>2 DEF LinesOf
    <3>4. item \in Safe(grown, Len(grown))
          BY <1>3, <3>3
    <3>. QED  BY <1>3, <2>1, <2>2, <3>2, <3>4 DEF AckedSurvive, Scores, Safe
  <2>3. CASE ~Official(item)
    <3>1. Scores(acked') = Scores(acked)
          BY <2>1, <2>3, ScoresAreOfficial DEF Scores
    <3>. QED  BY <1>4, <2>1, <2>3, <3>1 DEF AckedSurvive, Safe, Scores
  <2>. QED  BY <2>2, <2>3
<1>7. CASE SubmitUnsynced(k)
  <2>1. journal' = grown /\ UNCHANGED <<acked, synced>>
        BY <1>3, <1>7 DEF SubmitUnsynced, item
  <2>. QED  BY <1>4, <2>1 DEF AckedSurvive, Safe, Scores
<1>. QED  BY <1>5, <1>6, <1>7 DEF Submit

\* Everything else that writes only adds to the file, and syncs it further.
LEMMA AdditionsAreSafe ==
    ASSUME TInv, AckedSurvive, NEW s \in Seq(Line),
           journal' = journal \o s, synced' \in SyncedIn(journal'), acked' = acked
    PROVE  AckedSurvive'
<1>1. synced' \in synced .. Len(journal \o s)
      BY FileGrows
<1>2. Safe(journal, synced) \subseteq Safe(journal \o s, synced')
      BY <1>1, SafeGrows
<1>. QED  BY <1>2 DEF AckedSurvive, Safe, Scores

LEMMA SafeStep ==
    ASSUME TInv, Ordered, AckedSurvive, [Next]_vars
    PROVE  AckedSurvive'
<1>0. journal \in Seq(Line) /\ Len(journal) \in Nat /\ synced \in 0 .. Len(journal)
      BY DEF TInv, TypeOK
<1>1. CASE BeginSession
  <2>1. acked' = {}
        BY <1>1 DEF BeginSession, TInv
  <2>. QED  BY <2>1 DEF AckedSurvive, Scores
<1>2. CASE \E k \in Submitted : Submit(k)  BY <1>2, SubmitSafe
<1>3. CASE PumpRetryQueue
  <2>1. PICK p \in PumpOutcomes : journal' = journal \o p.sent /\ synced' \in SyncedIn(journal')
        BY <1>3 DEF PumpRetryQueue
  <2>2. p.sent \in Seq(Line)
        BY PumpLeaves DEF TInv, TypeOK
  <2>3. acked' = acked
        BY <1>3 DEF PumpRetryQueue
  <2>. QED  BY <2>1, <2>2, <2>3, AdditionsAreSafe
<1>4. CASE CloseSession
  <2>1. PICK s \in Seq(Line) : journal' = journal \o s /\ synced' \in SyncedIn(journal')
        BY <1>4, CloseAppends
  <2>2. acked' = acked
        BY <1>4 DEF CloseSession
  <2>. QED  BY <2>1, <2>2, AdditionsAreSafe
<1>5. CASE Crash
  <2>1. PICK n \in synced .. Len(journal) : journal' = SubSeq(journal, 1, n)
        BY <1>5 DEF Crash
  <2>2. UNCHANGED <<synced, acked>>
        BY <1>5 DEF Crash
  <2>3. n \in 0 .. Len(journal) /\ 1 \in 1 .. Len(journal) + 1
        BY <1>0
  <2>. DEFINE j == SubSeq(journal, 1, n)
  <2>4. j \in Seq(Line) /\ Len(j) = n /\ \A i \in 1 .. n : j[i] = journal[i]
        BY <1>0, <2>3, PartOfLines, SubSeqProperties
  <2>. HIDE DEF j
  <2>5. Safe(j, synced) = {j[i] : i \in 1 .. synced}
    <3>1. synced \in 0 .. Len(j) /\ 1 \in 1 .. Len(j) + 1
          BY <1>0, <2>4
    <3>. QED  BY <2>4, <3>1, PartOfLines DEF Safe
  <2>6. Safe(journal, synced) = {journal[i] : i \in 1 .. synced}
        BY <1>0, <2>3, PartOfLines DEF Safe
  <2>7. Safe(j, synced) = Safe(journal, synced)
        BY <1>0, <2>4, <2>5, <2>6
  <2>. QED  BY <2>1, <2>2, <2>7 DEF AckedSurvive, Safe, Scores, j
<1>6. CASE ResumeSession
  <2>1. PICK m, w : /\ w.lines \in Seq(Line) /\ journal' = journal \o w.lines
                    /\ synced' \in SyncedIn(journal')
        BY <1>6, ResumeLeaves DEF Ordered
  <2>2. acked' = acked
        BY <1>6 DEF ResumeSession
  <2>. QED  BY <2>1, <2>2, AdditionsAreSafe
<1>7. CASE Discard \/ UNCHANGED vars
      BY <1>7 DEF Discard, vars, AckedSurvive, Scores
<1>. QED  BY <1>1, <1>2, <1>3, <1>4, <1>5, <1>6, <1>7 DEF Next

\* An official event that submit reported as durable is in the part of the
\* file no crash can take away, for ever.
THEOREM AcksAreDurable == Spec => []AckedSurvive
<1>1. Init => AckedSurvive
      BY DEF Init, AckedSurvive, Scores
<1>2. TInv /\ Ordered /\ AckedSurvive /\ [Next]_vars => AckedSurvive'
      BY SafeStep
<1>. QED  BY <1>1, <1>2, Invariant, PTL DEF Spec

-----------------------------------------------------------------------------
(* The health on display.                                                  *)

LEMMA MarkersMeanDrained ==
    ASSUME NEW p \in PumpOutcomes, p.markers # <<>>
    PROVE  p.kept = <<>>
<1>1. ~(p \in PumpIdle)
      BY DEF PumpIdle
<1>2. ~(p \in PumpStalled)
      BY DEF PumpStalled
<1>. QED  BY <1>1, <1>2 DEF PumpOutcomes, PumpDrained

LEMMA HealthStep ==
    ASSUME TInv, HealthTellsQueue, [Next]_vars
    PROVE  HealthTellsQueue'
<1>1. CASE BeginSession \/ Discard \/ UNCHANGED vars
  <2>1. CASE BeginSession
        BY <2>1 DEF BeginSession, TInv, HealthTellsQueue
  <2>2. CASE Discard \/ UNCHANGED vars
        BY <2>2 DEF Discard, vars, HealthTellsQueue
  <2>. QED  BY <1>1, <2>1, <2>2
<1>2. CASE \E k \in Submitted : Submit(k)
      BY <1>2 DEF Submit, SubmitBehindQueue, SubmitDurable, SubmitUnsynced,
                  SubmitPoisoned, SubmitFailed, Reduce, HealthTellsQueue
<1>3. CASE PumpRetryQueue
  <2>1. PICK p \in PumpOutcomes :
           /\ queue' = p.kept
           /\ p.markers = <<>> => health' = health
        BY <1>3 DEF PumpRetryQueue
  <2>2. health # "Healthy"
        BY <1>3 DEF PumpRetryQueue, HealthTellsQueue
  <2>. QED  BY <2>1, <2>2, MarkersMeanDrained DEF HealthTellsQueue
<1>4. CASE CloseSession \/ Crash \/ ResumeSession
      BY <1>4 DEF CloseSession, Crash, ResumeSession, HealthTellsQueue
<1>. QED  BY <1>1, <1>2, <1>3, <1>4 DEF Next

\* The operator is never shown Healthy while events wait in memory.
THEOREM HealthIsHonest == Spec => []HealthTellsQueue
<1>1. Init => HealthTellsQueue
      BY DEF Init, HealthTellsQueue
<1>2. TInv /\ HealthTellsQueue /\ [Next]_vars => HealthTellsQueue'
      BY HealthStep
<1>. QED  BY <1>1, <1>2, Invariant, PTL DEF Spec

=============================================================================
