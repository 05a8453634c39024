------------------------ MODULE SessionStoreLossProofs ------------------------
(***************************************************************************)
(* More proofs about SessionStore, again for every capacity of the queue,  *)
(* every set of submitted events and of faults, and all bounds: every      *)
(* sequence number ever given out is accounted for, what is drained        *)
(* without loss is found Clean, and a journal without gaps can be resumed. *)
(***************************************************************************)
EXTENDS SessionStoreProofs

Numbers(S) == {e.seq : e \in S}
Drops(S) == UNION {e.drops : e \in S}
DropsAreOlder(S) == \A e \in S : \A d \in e.drops : d < e.seq
-----------------------------------------------------------------------------
(* Numbers.                                                                *)

LEMMA NumbersOfLines ==
    ASSUME NEW s \in Seq(Line)
    PROVE  /\ SeqsOf(s) = Numbers(LinesOf(s)) /\ Declared(s) = Drops(LinesOf(s))
           /\ Numbers(LinesOf(s)) \in SUBSET Nat /\ Drops(LinesOf(s)) \in SUBSET Nat
<1>1. \A e \in Line : e.seq \in Nat /\ e.drops \in SUBSET Nat
      BY DEF Line
<1>2. LinesOf(s) \subseteq Line
      BY LineTypes
<1>3. SeqsOf(s) = Numbers(LinesOf(s))
      BY DEF SeqsOf, Numbers, LinesOf
<1>4. {s[i].drops : i \in DOMAIN s} = {e.drops : e \in LinesOf(s)}
      BY DEF LinesOf
<1>5. Declared(s) = Drops(LinesOf(s))
      BY <1>4 DEF Declared, Drops
<1>. QED  BY <1>1, <1>2, <1>3, <1>5 DEF Numbers, Drops

LEMMA NumbersUnion ==
    ASSUME NEW S, NEW T
    PROVE  /\ Numbers(S \cup T) = Numbers(S) \cup Numbers(T)
           /\ Drops(S \cup T) = Drops(S) \cup Drops(T)
           /\ Numbers({}) = {} /\ Drops({}) = {}
           /\ DropsAreOlder(S \cup T) <=> DropsAreOlder(S) /\ DropsAreOlder(T)
BY DEF Numbers, Drops, DropsAreOlder

\* In an ascending file the number tells the line, and no line carries the
\* number of one that comes after all of them.
LEMMA NumberTellsLine ==
    ASSUME NEW s \in Seq(Line), Ascending(s),
           NEW e \in LinesOf(s), NEW f \in LinesOf(s), e.seq = f.seq
    PROVE  e = f
<1>1. PICK i \in DOMAIN s, j \in DOMAIN s : e = s[i] /\ f = s[j]
      BY DEF LinesOf
<1>2. i \in Nat /\ j \in Nat /\ s[i].seq \in Nat /\ s[j].seq \in Nat
      BY LineTypes
<1>3. i < j \/ j < i \/ i = j
      BY <1>2
<1>. QED  BY <1>1, <1>2, <1>3 DEF Ascending
-----------------------------------------------------------------------------
(* takeDroppedRuns: every dropped number is in one of the runs, and every  *)
(* run becomes a marker.                                                   *)

LEMMA RunOfNumber ==
    ASSUME NEW n \in Nat, NEW D \in SUBSET (0 .. n - 1), NEW s \in D
    PROVE  \E r \in Runs(D) : s \in r
<1>. DEFINE Above == {y \in Nat : s < y /\ y \notin D}
            Under == {x \in Nat : x <= s /\ x .. s \subseteq D}
<1>1. s \in Nat /\ n \in Above /\ s \in Under
      OBVIOUS
<1>2. PICK y \in Above : \A z \in Above : y <= z
  <2>1. Above \in SUBSET Nat /\ Above # {}
        BY <1>1
  <2>. HIDE DEF Above
  <2>. QED  BY <2>1, LeastElement
<1>3. PICK x \in Under : \A z \in Under : x <= z
  <2>1. Under \in SUBSET Nat /\ Under # {}
        BY <1>1
  <2>. HIDE DEF Under
  <2>. QED  BY <2>1, LeastElement
<1>. DEFINE r == x .. y - 1
<1>4. s \in r /\ r \subseteq D
  <2>1. ASSUME NEW t \in r PROVE t \in D
    <3>1. CASE t <= s
          BY <1>3, <3>1
    <3>2. CASE ~(t <= s)
      <4>1. t \in Nat /\ s < t /\ t < y
            BY <1>1, <1>2, <1>3, <3>2
      <4>. QED  BY <1>2, <4>1
    <3>. QED  BY <3>1, <3>2
  <2>. QED  BY <1>1, <1>2, <1>3, <2>1
<1>5. x \in D /\ y - 1 \in D
  <2>1. x \in r /\ y - 1 \in r
        BY <1>1, <1>2, <1>3
  <2>. QED  BY <1>4, <2>1
<1>6. ASSUME NEW t \in r
      PROVE  (t + 1 \in D => t + 1 \in r) /\ (t - 1 \in D => t - 1 \in r)
  <2>1. y \notin D
        BY <1>2
  <2>2. x - 1 \notin D
    <3>1. SUFFICES ASSUME x - 1 \in D PROVE FALSE
          OBVIOUS
    <3>2. x - 1 \in Nat /\ x - 1 <= s
          BY <1>1, <1>3, <3>1
    <3>3. \A z \in x - 1 .. s : z = x - 1 \/ z \in x .. s
          BY <1>1, <1>3
    <3>4. x - 1 .. s \subseteq D
          BY <1>3, <3>1, <3>3
    <3>5. x - 1 \in Under
          BY <3>2, <3>4
    <3>. QED  BY <1>3, <3>5
  <2>. QED  BY <1>1, <1>2, <1>3, <2>1, <2>2
<1>. HIDE DEF Above, Under
<1>7. \E a \in D, b \in D : r = a .. b
      BY <1>5
<1>8. r \in Runs(D)
      BY <1>4, <1>6, <1>7 DEF Runs
<1>. QED  BY <1>4, <1>8

LEMMA RunsCover ==
    ASSUME NEW n \in Nat, NEW D \in SUBSET (0 .. n - 1), IsFiniteSet(D),
           NEW runs \in RunsInOrder(D)
    PROVE  UNION {runs[i] : i \in 1 .. Cardinality(Runs(D))} = D
<1>. DEFINE c == Cardinality(Runs(D))
<1>1. c \in Nat /\ runs \in [1 .. c -> Runs(D)]
      BY RunsAreFinite DEF RunsInOrder
<1>2. IsFiniteSet(Runs(D))
  <2>1. Runs(D) \subseteq SUBSET D
        BY DEF Runs
  <2>2. IsFiniteSet(SUBSET D)
        BY FS_SUBSET
  <2>. QED  BY <2>1, <2>2, FS_Subset
<1>3. \A r \in Runs(D) : r # {} /\ r \subseteq D
      BY DEF Runs
<1>4. runs \in Injection(1 .. c, Runs(D))
  <2>1. ASSUME NEW i \in 1 .. c, NEW j \in 1 .. c, runs[i] = runs[j], i < j
        PROVE  FALSE
    <3>1. PICK s \in runs[i] : s \in D
          BY <1>1, <1>3
    <3>2. s < s
          BY <1>1, <2>1, <3>1 DEF RunsInOrder
    <3>. QED  BY <3>1, <3>2
  <2>2. \A i, j \in 1 .. c : runs[i] = runs[j] => i = j
    <3>. SUFFICES ASSUME NEW i \in 1 .. c, NEW j \in 1 .. c, runs[i] = runs[j]
                  PROVE  i = j
         OBVIOUS
    <3>1. i < j \/ j < i \/ i = j
          BY <1>1
    <3>. QED  BY <2>1, <3>1
  <2>. QED  BY <1>1, <2>2 DEF Injection, IsInjective
<1>5. runs \in Surjection(1 .. c, Runs(D))
  <2>1. Cardinality(1 .. c) = c
    <3>. HIDE DEF c
    <3>. QED  BY <1>1, FS_Interval
  <2>. QED  BY <1>2, <1>4, <2>1, FS_Injection
<1>6. \A r \in Runs(D) : \E i \in 1 .. c : runs[i] = r
      BY <1>5 DEF Surjection
<1>7. ASSUME NEW s \in D PROVE \E i \in 1 .. c : s \in runs[i]
  <2>1. PICK r \in Runs(D) : s \in r
        BY RunOfNumber
  <2>. QED  BY <1>6, <2>1
<1>8. \A i \in 1 .. c : runs[i] \subseteq D
      BY <1>1, <1>3
<1>. QED  BY <1>7, <1>8
-----------------------------------------------------------------------------
(* Bookkeeping.  told are the numbers that the file and the queue hold,    *)
(* left those that are otherwise explained.                                *)

\* The numbers that go with the lines of M which are not in W.
GoneWith(M, W) == UNION {{e.seq} \cup e.drops : e \in M \ W}

\* Each number below n is in one of the two, and none in both.
Splits(now, gap, n) == now \cup gap = 0 .. n - 1 /\ now \cap gap = {}

\* A batch M of new lines, of which only W was written, leaves every number
\* explained if the numbers below n were, even where M declares drops.
LEMMA BatchIsTold ==
    ASSUME NEW n \in Nat, NEW m \in Nat, NEW M \in SUBSET Line, NEW W \in SUBSET M,
           Numbers(M) = n .. m - 1, n <= m,
           \A e, f \in M : e.seq = f.seq => e = f,
           NEW told, NEW left, Splits(told, left \cup Drops(M), n)
    PROVE  Splits(told \cup Numbers(W), left \cup Drops(W) \cup GoneWith(M, W), m)
<1>. DEFINE gone == GoneWith(M, W)
            now == told \cup Numbers(W)
            gap == left \cup Drops(W) \cup gone
<1>0. /\ told \cup left \cup Drops(M) = 0 .. n - 1
      /\ told \cap left = {} /\ Drops(M) \cap told = {}
  <2>1. told \cup (left \cup Drops(M)) = 0 .. n - 1 /\ told \cap (left \cup Drops(M)) = {}
        BY DEF Splits
  <2>. QED  BY <2>1
<1>1. \A e \in M : e.seq \in Nat /\ e.drops \subseteq Drops(M)
      BY DEF Line, Drops
<1>2. \A x : x \in Numbers(W) <=> \E e \in W : x = e.seq
      BY DEF Numbers
<1>3. \A x : x \in gone <=> \E e \in M \ W : x = e.seq \/ x \in e.drops
      BY DEF GoneWith
<1>4. \A x : x \in Drops(W) <=> \E e \in W : x \in e.drops
      BY DEF Drops
<1>5. \A x : x \in Drops(M) <=> \E e \in M : x \in e.drops
      BY DEF Drops
<1>6. \A x : x \in n .. m - 1 <=> \E e \in M : x = e.seq
      BY DEF Numbers
<1>. HIDE DEF gone
<1>7. Drops(W) \subseteq Drops(M)
      BY <1>4, <1>5
<1>8. gone \subseteq (n .. m - 1) \cup Drops(M)
      BY <1>3, <1>5, <1>6
<1>9. Numbers(W) \subseteq n .. m - 1
      BY <1>2, <1>6
<1>10. now \cup gap \subseteq 0 .. m - 1
  <2>1. told \cup left \cup Drops(M) \subseteq 0 .. m - 1
        BY <1>0
  <2>2. n .. m - 1 \subseteq 0 .. m - 1
        OBVIOUS
  <2>. QED  BY <1>7, <1>8, <1>9, <2>1, <2>2
<1>11. ASSUME NEW x \in 0 .. m - 1 PROVE x \in now \cup gap
  <2>1. CASE x \in n .. m - 1
        BY <1>2, <1>3, <1>6, <2>1
  <2>2. CASE x \in Drops(M)
        BY <1>3, <1>4, <1>5, <2>2
  <2>3. CASE x \in told \cup left
        BY <2>3
  <2>4. x \in 0 .. n - 1 \/ x \in n .. m - 1
        OBVIOUS
  <2>. QED  BY <1>0, <2>1, <2>2, <2>3, <2>4
<1>12. ASSUME NEW x \in now, x \in gap PROVE FALSE
  <2>1. CASE x \in told
    <3>1. x \in 0 .. n - 1 /\ x \notin left /\ x \notin Drops(M)
          BY <1>0, <2>1
    <3>2. x \in gone
          BY <1>7, <1>12, <3>1
    <3>3. x \in n .. m - 1
          BY <1>8, <3>1, <3>2
    <3>. QED  BY <3>1, <3>3
  <2>2. CASE x \in Numbers(W)
    <3>1. x \in n .. m - 1 /\ x \notin left /\ x \notin Drops(M)
          BY <1>0, <1>9, <2>2
    <3>2. x \in gone
          BY <1>7, <1>12, <3>1
    <3>3. PICK e \in M \ W : x = e.seq \/ x \in e.drops
          BY <1>3, <3>2
    <3>4. x = e.seq
          BY <1>5, <3>1, <3>3
    <3>5. PICK f \in W : x = f.seq
          BY <1>2, <2>2
    <3>. QED  BY <3>3, <3>4, <3>5
  <2>. QED  BY <1>12, <2>1, <2>2
<1>13. now \cup gap = 0 .. m - 1 /\ now \cap gap = {}
       BY <1>10, <1>11, <1>12
<1>. QED  BY <1>13 DEF gone, Splits

\* The markers of a drain: one number after the other from the counter on,
\* and together they declare exactly what was dropped.
LEMMA DrainMarkersTell ==
    ASSUME NEW n \in Nat, NEW D \in SUBSET (0 .. n - 1), IsFiniteSet(D), nextSeq = n,
           NEW runs \in RunsInOrder(D), NEW m, m = DrainMarkers(runs)
    PROVE  /\ Numbers(LinesOf(m)) = n .. n + Len(m) - 1
           /\ Drops(LinesOf(m)) = D
<1>. DEFINE c == Cardinality(Runs(D))
<1>1. c \in Nat /\ runs \in [1 .. c -> Runs(D)]
      BY RunsAreFinite DEF RunsInOrder
<1>2. Len(runs) = c
      BY <1>1
<1>3. UNION {runs[i] : i \in 1 .. c} = D
      BY RunsCover
<1>. HIDE DEF c
<1>4. m = [i \in 1 .. c + 1 |->
             IF i <= c THEN Event(n + i - 1, "AuxEventsDropped", runs[i])
                       ELSE Event(n + i - 1, "PersistenceRestored", {})]
      BY <1>2 DEF DrainMarkers
<1>5. DOMAIN m = 1 .. c + 1 /\ Len(m) = c + 1
      BY <1>1, <1>4
<1>6. \A i \in 1 .. c + 1 : m[i].seq = n + i - 1
      BY <1>4 DEF Event
<1>7. /\ \A i \in 1 .. c : m[i].drops = runs[i]
      /\ m[c + 1].drops = {}
      BY <1>1, <1>4 DEF Event
<1>8. Numbers(LinesOf(m)) = {n + i - 1 : i \in 1 .. c + 1}
      BY <1>5, <1>6 DEF Numbers, LinesOf
<1>9. ASSUME NEW x \in n .. n + c PROVE \E i \in 1 .. c + 1 : x = n + i - 1
  <2>1. x - n + 1 \in 1 .. c + 1 /\ x = n + (x - n + 1) - 1
        BY <1>1
  <2>. QED  BY <2>1
<1>10. {n + i - 1 : i \in 1 .. c + 1} = n .. n + c
  <2>1. ASSUME NEW i \in 1 .. c + 1 PROVE n + i - 1 \in n .. n + c
        BY <1>1
  <2>. QED  BY <1>9, <2>1
<1>11. Drops(LinesOf(m)) = UNION {m[i].drops : i \in 1 .. c + 1}
  <2>1. {e.drops : e \in LinesOf(m)} = {m[i].drops : i \in 1 .. c + 1}
        BY <1>5 DEF LinesOf
  <2>. QED  BY <2>1 DEF Drops
<1>12. UNION {m[i].drops : i \in 1 .. c + 1} = UNION {runs[i] : i \in 1 .. c}
  <2>1. \A i \in 1 .. c + 1 : i \in 1 .. c \/ i = c + 1
        BY <1>1
  <2>2. \A i \in 1 .. c : i \in 1 .. c + 1
        BY <1>1
  <2>. QED  BY <1>7, <2>1, <2>2
<1>13. n + Len(m) - 1 = n + c
      BY <1>1, <1>5
<1>. QED  BY <1>3, <1>8, <1>10, <1>11, <1>12, <1>13
-----------------------------------------------------------------------------
(* The retry queue.                                                        *)

LEMMA RemovedIsGone ==
    ASSUME NEW q \in Seq(Line), NEW i \in 1 .. Len(q), Ascending(q)
    PROVE  \A e \in LinesOf(RemoveAt(q, i)) : e.seq # q[i].seq
<1>. DEFINE a == SubSeq(q, 1, i - 1)
            b == SubSeq(q, i + 1, Len(q))
<1>1. Len(q) \in Nat /\ DOMAIN q = 1 .. Len(q) /\ \A j \in 1 .. Len(q) : q[j].seq \in Nat
      BY LineTypes
<1>2. a \in Seq(Line) /\ LinesOf(a) = {q[k] : k \in 1 .. i - 1}
  <2>1. 1 \in 1 .. Len(q) + 1 /\ i - 1 \in 0 .. Len(q)
        BY <1>1
  <2>. QED  BY <2>1, PartOfLines
<1>3. b \in Seq(Line) /\ LinesOf(b) = {q[k] : k \in i + 1 .. Len(q)}
  <2>1. i + 1 \in 1 .. Len(q) + 1 /\ Len(q) \in 0 .. Len(q)
        BY <1>1
  <2>. QED  BY <2>1, PartOfLines
<1>4. RemoveAt(q, i) = a \o b
      BY DEF RemoveAt
<1>. HIDE DEF a, b
<1>5. ASSUME NEW e \in LinesOf(RemoveAt(q, i)) PROVE e.seq # q[i].seq
  <2>0. e \in LinesOf(a) \/ e \in LinesOf(b)
        BY <1>2, <1>3, <1>4, ConcatLines
  <2>1. PICK k \in 1 .. Len(q) : e = q[k] /\ k # i
    <3>1. CASE e \in LinesOf(a)
      <4>1. PICK k \in 1 .. i - 1 : e = q[k]
            BY <1>2, <3>1
      <4>. QED  BY <1>1, <4>1
    <3>2. CASE e \in LinesOf(b)
      <4>1. PICK k \in i + 1 .. Len(q) : e = q[k]
            BY <1>3, <3>2
      <4>. QED  BY <1>1, <4>1
    <3>. QED  BY <2>0, <3>1, <3>2
  <2>2. k < i \/ i < k
        BY <1>1, <2>1
  <2>. QED  BY <1>1, <2>1, <2>2 DEF Ascending
<1>. QED  BY <1>5

\* What enqueue does to the numbers: the item's is in, and what gives way is
\* exactly what is remembered.
LEMMA EnqueuedNumbers ==
    ASSUME NEW q \in Seq(Line), NEW item \in Line, Ascending(q), Below(q, item.seq)
    PROVE  LET r == Enqueued(q, item)
               d == DroppedBy(q, item)
           IN  /\ r \in Seq(Line) /\ r # <<>> /\ Ascending(r)
               /\ Numbers(LinesOf(r)) \cup d = Numbers(LinesOf(q)) \cup {item.seq}
               /\ Numbers(LinesOf(r)) \cap d = {} /\ d \subseteq Numbers(LinesOf(q))
               /\ Drops(LinesOf(r)) \subseteq Drops(LinesOf(q)) \cup item.drops
<1>1. \A e \in LinesOf(q) : e.seq \in Nat /\ e.seq < item.seq
      BY LineTypes DEF Below
<1>2. CASE Overflows(q, item)
  <2>. DEFINE i == OldestAux(q)
              r == RemoveAt(q, i)
  <2>1. i \in 1 .. Len(q)
        BY <1>2, OldestIsAux
  <2>2. /\ r \in Seq(Line) /\ LinesOf(r) \subseteq LinesOf(q) /\ Ascending(r)
        /\ LinesOf(q) \subseteq LinesOf(r) \cup {q[i]}
        BY <2>1, RemoveLine
  <2>3. \A e \in LinesOf(r) : e.seq # q[i].seq
        BY <2>1, RemovedIsGone
  <2>4. Enqueued(q, item) = Append(r, item) /\ DroppedBy(q, item) = {q[i].seq}
        BY <1>2 DEF Enqueued, DroppedBy
  <2>5. q[i] \in LinesOf(q)
        BY <2>1, LineTypes
  <2>. HIDE DEF i, r
  <2>6. Below(r, item.seq)
        BY <1>1, <2>2 DEF Below
  <2>7. /\ Append(r, item) \in Seq(Line) /\ Append(r, item) # <<>>
        /\ LinesOf(Append(r, item)) = LinesOf(r) \cup {item} /\ Ascending(Append(r, item))
        BY <2>2, <2>6, AppendLines, AppendProperties
  <2>8. q[i].seq < item.seq /\ q[i].seq \in Nat
        BY <1>1, <2>5
  <2>9. Numbers(LinesOf(Append(r, item))) \cap {q[i].seq} = {}
        BY <2>3, <2>7, <2>8 DEF Numbers
  <2>10. Numbers(LinesOf(Append(r, item))) \cup {q[i].seq} =
            Numbers(LinesOf(q)) \cup {item.seq}
        BY <2>2, <2>5, <2>7 DEF Numbers
  <2>11. Drops(LinesOf(Append(r, item))) \subseteq Drops(LinesOf(q)) \cup item.drops
        BY <2>2, <2>7 DEF Drops
  <2>12. {q[i].seq} \subseteq Numbers(LinesOf(q))
        BY <2>5 DEF Numbers
  <2>. QED  BY <2>4, <2>7, <2>9, <2>10, <2>11, <2>12
<1>3. CASE ~Overflows(q, item)
  <2>1. Enqueued(q, item) = Append(q, item) /\ DroppedBy(q, item) = {}
        BY <1>3 DEF Enqueued, DroppedBy
  <2>2. /\ Append(q, item) \in Seq(Line) /\ Append(q, item) # <<>>
        /\ LinesOf(Append(q, item)) = LinesOf(q) \cup {item} /\ Ascending(Append(q, item))
        BY AppendLines, AppendProperties
  <2>3. /\ Numbers(LinesOf(q) \cup {item}) = Numbers(LinesOf(q)) \cup {item.seq}
        /\ Drops(LinesOf(q) \cup {item}) = Drops(LinesOf(q)) \cup item.drops
        BY DEF Numbers, Drops
  <2>. QED  BY <2>1, <2>2, <2>3
<1>. QED  BY <1>2, <1>3
-----------------------------------------------------------------------------
(* The inductive invariant behind Accounted.  A number is told by a line,  *)
(* or explained; drops are declared by a later line, and only the drain    *)
(* declares them; after a crash the file alone has to account for itself.  *)

Told == SeqsOf(journal) \cup SeqsOf(queue)
Explained == dropped \cup Declared(journal) \cup lost

Balanced ==
    /\ phase = "idle" => nextSeq = 0 /\ dropped = {} /\ lost = {}
    /\ phase = "active" =>
          /\ Told \cup Explained = 0 .. nextSeq - 1 /\ Told \cap Explained = {}
          /\ journal # <<>> /\ (dropped # {} => queue # <<>>)
          /\ DropsAreOlder(LinesOf(journal)) /\ Drops(LinesOf(queue)) = {}
    /\ phase = "closed" =>
          /\ Told \cup Explained = 0 .. nextSeq - 1 /\ Told \cap Explained = {}
          /\ journal # <<>> /\ (dropped # {} => queue # <<>>)
          /\ DropsAreOlder(LinesOf(journal))
          /\ SeqsOf(journal) \cap SeqsOf(queue) = {}
    /\ phase = "down" /\ journal # <<>> =>
          LET explained == Declared(journal) \cup lost IN
          /\ SeqsOf(journal) \cup explained = 0 .. LastSeq(journal)
          /\ SeqsOf(journal) \cap explained = {}
          /\ DropsAreOlder(LinesOf(journal))

LEMMA InitBalanced == Init => Balanced
BY DEF Init, Balanced

LEMMA BeginBalances ==
    ASSUME TInv, Balanced, BeginSession
    PROVE  Balanced'
<1>. DEFINE header == Event(0, "SessionStarted", {})
<1>1. /\ journal = <<>> /\ queue' = <<>> /\ dropped' = {} /\ lost' = {}
      BY DEF BeginSession, TInv, Balanced
<1>2. \/ phase' = "active" /\ journal' = <<header>> /\ nextSeq' = 1
      \/ phase' = "down" /\ journal' \in {<<>>, <<header>>}
      BY <1>1 DEF BeginSession
<1>3. header \in Line /\ header.seq = 0 /\ header.drops = {}
      BY HeaderLine DEF Event
<1>. HIDE DEF header
<1>4. /\ <<header>> \in Seq(Line) /\ LinesOf(<<header>>) = {header} /\ <<header>> # <<>>
      /\ <<>> \in Seq(Line) /\ LinesOf(<<>>) = {} /\ LastSeq(<<header>>) = 0
      BY <1>3, OneLine, EmptyLines DEF LastSeq
<1>5. /\ SeqsOf(<<header>>) = {0} /\ Declared(<<header>>) = {}
      /\ SeqsOf(<<>>) = {} /\ Drops(LinesOf(<<>>)) = {}
      /\ DropsAreOlder(LinesOf(<<header>>))
  <2>1. Numbers({header}) = {0} /\ Drops({header}) = {} /\ DropsAreOlder({header})
        BY <1>3 DEF Numbers, Drops, DropsAreOlder
  <2>2. Numbers({}) = {} /\ Drops({}) = {}
        BY DEF Numbers, Drops
  <2>. QED  BY <1>4, <2>1, <2>2, NumbersOfLines
<1>6. 0 .. 1 - 1 = {0} /\ 0 .. 0 = {0}
      OBVIOUS
<1>. QED  BY <1>1, <1>2, <1>4, <1>5, <1>6 DEF Balanced, Told, Explained

\* The accounts of a running session, in terms of the lines it holds.
LEMMA RunningAccounts ==
    ASSUME TInv, Ordered, Balanced, phase = "active"
    PROVE  /\ nextSeq \in Nat /\ journal \in Seq(Line) /\ queue \in Seq(Line)
           /\ SeqsOf(journal) = Numbers(LinesOf(journal))
           /\ SeqsOf(queue) = Numbers(LinesOf(queue))
           /\ Declared(journal) = Drops(LinesOf(journal))
           /\ SeqsOf(journal) \cap SeqsOf(queue) = {}
           /\ Told \cup Explained = 0 .. nextSeq - 1 /\ Told \cap Explained = {}
           /\ journal # <<>> /\ DropsAreOlder(LinesOf(journal))
           /\ Drops(LinesOf(queue)) = {} /\ (dropped # {} => queue # <<>>)
<1>1. nextSeq \in Nat /\ journal \in Seq(Line) /\ queue \in Seq(Line)
      BY DEF TInv, TypeOK
<1>2. /\ SeqsOf(journal) = Numbers(LinesOf(journal))
      /\ SeqsOf(queue) = Numbers(LinesOf(queue))
      /\ Declared(journal) = Drops(LinesOf(journal))
      BY <1>1, NumbersOfLines
<1>3. SeqsOf(journal) \cap SeqsOf(queue) = {}
  <2>1. SUFFICES ASSUME NEW e \in LinesOf(journal), NEW f \in LinesOf(queue), e.seq = f.seq
                 PROVE  FALSE
        BY <1>2 DEF Numbers
  <2>2. e.seq \in Nat /\ e.seq < f.seq
        BY <1>1, LineTypes DEF Ordered, Before
  <2>. QED  BY <2>1, <2>2
<1>. QED  BY <1>1, <1>2, <1>3 DEF Balanced

LEMMA SubmitBalances ==
    ASSUME TInv, Ordered, Balanced, NEW k \in Submitted, Submit(k)
    PROVE  Balanced'
<1>. DEFINE item == Event(nextSeq, k, {})
            marker == Event(nextSeq + 1, "PersistenceDegraded", {})
            q == Enqueued(queue, item)
            r == Enqueued(q, marker)
            d == DroppedBy(queue, item)
            grown == Append(journal, item)
            J == SeqsOf(journal)
            Q == SeqsOf(queue)
<1>0. phase = "active" /\ phase' = "active" /\ lost' = lost
      BY DEF Submit, SubmitBehindQueue, SubmitDurable, SubmitUnsynced,
             SubmitPoisoned, SubmitFailed, Reduce
<1>1. /\ nextSeq \in Nat /\ journal \in Seq(Line) /\ queue \in Seq(Line)
      /\ J = Numbers(LinesOf(journal)) /\ Q = Numbers(LinesOf(queue))
      /\ J \cap Q = {}
      /\ Told \cup Explained = 0 .. nextSeq - 1 /\ Told \cap Explained = {}
      /\ journal # <<>> /\ DropsAreOlder(LinesOf(journal)) /\ Drops(LinesOf(queue)) = {}
      /\ (dropped # {} => queue # <<>>)
      BY <1>0, RunningAccounts
<1>2. /\ item \in Line /\ item.seq = nextSeq /\ item.drops = {}
      /\ marker \in Line /\ marker.seq = nextSeq + 1 /\ marker.drops = {}
      /\ marker.kind = "PersistenceDegraded"
  <2>1. "PersistenceDegraded" \in Kinds /\ nextSeq + 1 \in Nat
        BY <1>1 DEF Kinds, SyncKinds
  <2>. QED  BY <1>1, <2>1, SubmittedKinds, EventLine DEF Event
<1>3. Ascending(queue) /\ Below(queue, nextSeq)
      BY <1>0 DEF Ordered
<1>4. /\ Told = J \cup Q /\ Explained = dropped \cup Declared(journal) \cup lost
      BY DEF Told, Explained
<1>. HIDE DEF item, marker, J, Q
<1>5. /\ q \in Seq(Line) /\ q # <<>> /\ Ascending(q)
      /\ Numbers(LinesOf(q)) \cup d = Q \cup {nextSeq}
      /\ Numbers(LinesOf(q)) \cap d = {} /\ d \subseteq Q /\ Drops(LinesOf(q)) = {}
      BY <1>1, <1>2, <1>3, EnqueuedNumbers
<1>6. /\ grown \in Seq(Line) /\ grown # <<>> /\ LinesOf(grown) = LinesOf(journal) \cup {item}
      BY <1>1, <1>2, AppendLines, AppendProperties
<1>. HIDE DEF q, d, grown
<1>7. /\ SeqsOf(q) = Numbers(LinesOf(q))
      /\ SeqsOf(grown) = J \cup {nextSeq} /\ Declared(grown) = Declared(journal)
      /\ DropsAreOlder(LinesOf(grown))
  <2>1. /\ Numbers(LinesOf(grown)) = Numbers(LinesOf(journal)) \cup {nextSeq}
        /\ Drops(LinesOf(grown)) = Drops(LinesOf(journal))
        BY <1>2, <1>6 DEF Numbers, Drops
  <2>2. DropsAreOlder(LinesOf(grown))
        BY <1>1, <1>2, <1>6 DEF DropsAreOlder
  <2>. QED  BY <1>1, <1>5, <1>6, <2>1, <2>2, NumbersOfLines
<1>8. nextSeq \notin Told \cup Explained /\ nextSeq + 1 \notin Told \cup Explained
      BY <1>1
<1>9. /\ 0 .. (nextSeq + 1) - 1 = (0 .. nextSeq - 1) \cup {nextSeq}
      /\ 0 .. (nextSeq + 2) - 1 = (0 .. nextSeq - 1) \cup {nextSeq, nextSeq + 1}
      BY <1>1
\* The event waits, and what it pushed out of the queue is remembered.
<1>10. LET told == J \cup SeqsOf(q)
           expl == (dropped \cup d) \cup Declared(journal) \cup lost
       IN  told \cup expl = (0 .. nextSeq - 1) \cup {nextSeq} /\ told \cap expl = {}
  <2>1. d \subseteq Told /\ d \cap J = {} /\ SeqsOf(q) \subseteq Q \cup {nextSeq}
        BY <1>1, <1>4, <1>5, <1>7
  <2>. QED  BY <1>1, <1>4, <1>5, <1>7, <1>8, <2>1
<1>11. CASE SubmitBehindQueue(k) \/ SubmitPoisoned(k)
  <2>1. /\ queue' = q /\ journal' = journal /\ nextSeq' = nextSeq + 1
        /\ dropped' = dropped \cup d
        BY <1>11 DEF SubmitBehindQueue, SubmitPoisoned, q, d, item
  <2>2. SeqsOf(journal') = J
        BY <2>1 DEF J
  <2>. QED  BY <1>0, <1>1, <1>5, <1>9, <1>10, <2>1, <2>2 DEF Balanced, Told, Explained
<1>12. CASE SubmitDurable(k) \/ SubmitUnsynced(k)
  <2>1. /\ queue = <<>> /\ queue' = queue /\ journal' = grown /\ nextSeq' = nextSeq + 1
        /\ dropped' = dropped
        BY <1>12 DEF SubmitDurable, SubmitUnsynced, grown, item
  <2>2. Told' = Told \cup {nextSeq} /\ Explained' = Explained
        BY <1>0, <1>4, <1>7, <2>1 DEF Told, Explained, Q
  <2>3. Told' \cup Explained' = 0 .. nextSeq' - 1 /\ Told' \cap Explained' = {}
        BY <1>1, <1>8, <1>9, <2>1, <2>2
  <2>. QED  BY <1>0, <1>1, <1>6, <1>7, <2>1, <2>3 DEF Balanced
\* Nothing was dropped from an empty queue, and the marker waits as well.
<1>13. CASE SubmitFailed(k)
  <2>1. /\ journal' = journal /\ dropped' = dropped \cup d
        /\ \/ queue' = q /\ nextSeq' = nextSeq + 1
           \/ queue' = r /\ nextSeq' = nextSeq + 2
        BY <1>13 DEF SubmitFailed, q, r, d, item, marker
  <2>2. r = Append(q, marker)
    <3>1. Official(marker)
          BY <1>2 DEF Official, SyncKinds
    <3>. QED  BY <3>1 DEF Enqueued, Overflows
  <2>3. /\ Append(q, marker) \in Seq(Line) /\ Append(q, marker) # <<>>
        /\ LinesOf(Append(q, marker)) = LinesOf(q) \cup {marker}
        BY <1>2, <1>5, AppendLines, AppendProperties
  <2>4. r \in Seq(Line) /\ r # <<>> /\ SeqsOf(r) = SeqsOf(q) \cup {nextSeq + 1}
        /\ Drops(LinesOf(r)) = {}
    <3>1. /\ Numbers(LinesOf(q) \cup {marker}) = Numbers(LinesOf(q)) \cup {nextSeq + 1}
          /\ Drops(LinesOf(q) \cup {marker}) = Drops(LinesOf(q))
          BY <1>2 DEF Numbers, Drops
    <3>. QED  BY <1>5, <1>7, <2>2, <2>3, <3>1, NumbersOfLines
  <2>. HIDE DEF r
  <2>5. SeqsOf(journal') = J
        BY <2>1 DEF J
  <2>6. CASE queue' = q /\ nextSeq' = nextSeq + 1
        BY <1>0, <1>1, <1>5, <1>9, <1>10, <2>1, <2>5, <2>6 DEF Balanced, Told, Explained
  <2>7. CASE queue' = r /\ nextSeq' = nextSeq + 2
    <3>1. d \subseteq Told /\ SeqsOf(q) \subseteq Told \cup {nextSeq}
          BY <1>4, <1>5, <1>7
    <3>2. LET told == J \cup SeqsOf(r)
              expl == (dropped \cup d) \cup Declared(journal) \cup lost
          IN  /\ told \cup expl = (0 .. nextSeq - 1) \cup {nextSeq, nextSeq + 1}
              /\ told \cap expl = {}
      <4>1. nextSeq + 1 # nextSeq
            BY <1>1
      <4>. QED  BY <1>4, <1>8, <1>10, <2>4, <3>1, <4>1
    <3>3. Told' \cup Explained' = 0 .. nextSeq' - 1 /\ Told' \cap Explained' = {}
          BY <1>0, <1>9, <2>1, <2>5, <2>7, <3>2 DEF Told, Explained
    <3>. QED  BY <1>0, <1>1, <2>1, <2>4, <2>7, <3>3 DEF Balanced
  <2>. QED  BY <2>1, <2>6, <2>7
<1>. QED  BY <1>11, <1>12, <1>13 DEF Submit

\* What is told of the lines of a batch that were not written.
LEMMA UntoldLines ==
    ASSUME NEW m \in Seq(Line), NEW s, NEW W \in SUBSET LinesOf(m),
           LinesOf(m) \ LinesOf(s) = LinesOf(m) \ W
    PROVE  Untold(m, s) = GoneWith(LinesOf(m), W)
BY DEF Untold, GoneWith

\* Whatever a pump comes to, what it leaves accounts for every number.
LEMMA PumpLeavesBalance ==
    ASSUME TInv, Ordered, Balanced, phase = "active", NEW p \in PumpOutcomes
    PROVE  LET grown == journal \o p.sent
               noted == IF p.markers = <<>> THEN dropped ELSE {}
               left  == noted \cup Declared(grown) \cup lost \cup Untold(p.markers, p.sent)
           IN  /\ Splits(SeqsOf(grown) \cup SeqsOf(p.kept), left, nextSeq + Len(p.markers))
               /\ grown \in Seq(Line) /\ grown # <<>> /\ (noted # {} => p.kept # <<>>)
               /\ DropsAreOlder(LinesOf(grown)) /\ Drops(LinesOf(p.kept)) = {}
<1>. DEFINE J == SeqsOf(journal)
            Q == SeqsOf(queue)
            grown == journal \o p.sent
            noted == IF p.markers = <<>> THEN dropped ELSE {}
            left == noted \cup Declared(grown) \cup lost \cup Untold(p.markers, p.sent)
            now == SeqsOf(grown) \cup SeqsOf(p.kept)
            end == nextSeq + Len(p.markers)
<1>. SUFFICES /\ Splits(now, left, end)
              /\ grown \in Seq(Line) /\ grown # <<>> /\ (noted # {} => p.kept # <<>>)
              /\ DropsAreOlder(LinesOf(grown)) /\ Drops(LinesOf(p.kept)) = {}
     OBVIOUS
<1>1. /\ nextSeq \in Nat /\ journal \in Seq(Line) /\ queue \in Seq(Line)
      /\ J = Numbers(LinesOf(journal)) /\ Q = Numbers(LinesOf(queue))
      /\ Declared(journal) = Drops(LinesOf(journal))
      /\ Told \cup Explained = 0 .. nextSeq - 1 /\ Told \cap Explained = {}
      /\ journal # <<>> /\ DropsAreOlder(LinesOf(journal)) /\ Drops(LinesOf(queue)) = {}
      /\ (dropped # {} => queue # <<>>)
      BY RunningAccounts
<1>2. Told = J \cup Q /\ Explained = dropped \cup Declared(journal) \cup lost
      BY DEF Told, Explained
<1>3. dropped \in SUBSET Nat /\ IsFiniteSet(dropped) /\ dropped \in SUBSET (0 .. nextSeq - 1)
      BY <1>1, <1>2 DEF TInv, TypeOK
<1>4. /\ \A e \in LinesOf(queue) : e.drops = {} /\ e.seq \in Nat /\ e.seq < nextSeq
      /\ DropsAreOlder(LinesOf(queue))
  <2>1. \A e \in LinesOf(queue) : e.drops = {}
        BY <1>1, LineTypes DEF Drops, Line
  <2>. QED  BY <1>1, <2>1, LineTypes DEF Ordered, Below, DropsAreOlder
<1>. HIDE DEF J, Q
<1>5. CASE p \in PumpIdle
  <2>1. p.sent = <<>> /\ p.kept = queue /\ p.markers = <<>>
        BY <1>5 DEF PumpIdle
  <2>2. grown = journal /\ Untold(p.markers, p.sent) = {} /\ Len(p.markers) = 0
        BY <1>1, <2>1, EmptyLines DEF Untold
  <2>. HIDE DEF grown
  <2>3. left = Explained /\ now = Told /\ end = nextSeq
        BY <1>1, <1>2, <2>1, <2>2 DEF J, Q
  <2>4. noted = dropped
        BY <2>1
  <2>. HIDE DEF left, now, end, noted
  <2>. QED  BY <1>1, <2>1, <2>2, <2>3, <2>4 DEF Splits
<1>6. CASE p \in PumpStalled
  <2>1. PICK n \in 0 .. Len(queue) - 1 :
           /\ p.sent = SubSeq(queue, 1, n) /\ p.kept = SubSeq(queue, n + 1, Len(queue))
           /\ p.markers = <<>>
        BY <1>6 DEF PumpStalled
  <2>2. /\ Len(queue) \in Nat /\ DOMAIN queue = 1 .. Len(queue)
        /\ 1 \in 1 .. Len(queue) + 1 /\ n \in 0 .. Len(queue)
        /\ n + 1 \in 1 .. Len(queue) + 1 /\ Len(queue) \in 0 .. Len(queue)
        BY <1>1
  <2>3. /\ p.sent \in Seq(Line) /\ LinesOf(p.sent) = {queue[i] : i \in 1 .. n}
        /\ p.kept \in Seq(Line) /\ LinesOf(p.kept) = {queue[i] : i \in n + 1 .. Len(queue)}
    <3>1. /\ p.sent \in Seq(Line) /\ LinesOf(p.sent) = {queue[i] : i \in 1 .. n}
          BY <1>1, <2>1, <2>2, PartOfLines
    <3>2. /\ p.kept \in Seq(Line)
          /\ LinesOf(p.kept) = {queue[i] : i \in n + 1 .. Len(queue)}
      <4>1. queue \in Seq(Line)
            BY <1>1
      <4>. QED  BY <2>1, <2>2, <4>1, PartOfLines
    <3>. QED  BY <3>1, <3>2
  <2>4. p.kept # <<>>
    <3>1. queue[Len(queue)] \in LinesOf(p.kept)
          BY <2>2, <2>3
    <3>. QED  BY <3>1, EmptyLines
  <2>5. LinesOf(queue) = LinesOf(p.sent) \cup LinesOf(p.kept)
    <3>1. LinesOf(queue) = {queue[i] : i \in 1 .. Len(queue)}
          BY <2>2 DEF LinesOf
    <3>. QED  BY <2>2, <2>3, <3>1
  <2>6. /\ grown \in Seq(Line) /\ LinesOf(grown) = LinesOf(journal) \cup LinesOf(p.sent)
        /\ grown # <<>>
        BY <1>1, <2>3, ConcatLines, ConcatEqualIffEmpty
  <2>. HIDE DEF grown
  <2>7. /\ SeqsOf(grown) \cup SeqsOf(p.kept) = J \cup Q
        /\ Declared(grown) = Declared(journal) /\ Drops(LinesOf(p.kept)) = {}
        /\ DropsAreOlder(LinesOf(grown))
    <3>1. /\ Numbers(LinesOf(grown)) \cup Numbers(LinesOf(p.kept)) = J \cup Q
          BY <1>1, <2>5, <2>6 DEF Numbers
    <3>2. Drops(LinesOf(p.sent)) = {} /\ Drops(LinesOf(p.kept)) = {}
          BY <1>4, <2>5 DEF Drops
    <3>3. Drops(LinesOf(grown)) = Drops(LinesOf(journal))
          BY <2>6, <3>2 DEF Drops
    <3>4. DropsAreOlder(LinesOf(p.sent))
          BY <1>4, <2>5 DEF DropsAreOlder
    <3>. QED  BY <1>1, <2>3, <2>6, <3>1, <3>2, <3>3, <3>4, NumbersOfLines, NumbersUnion
  <2>8. Untold(p.markers, p.sent) = {} /\ Len(p.markers) = 0
        BY <2>1, EmptyLines DEF Untold
  <2>9. left = Explained /\ now = Told /\ end = nextSeq
        BY <1>1, <1>2, <2>1, <2>7, <2>8
  <2>. HIDE DEF left, now, end, noted
  <2>. QED  BY <1>1, <2>4, <2>6, <2>7, <2>9 DEF Splits
<1>7. CASE p \in PumpDrained
  <2>1. PICK runs \in RunsInOrder(dropped) :
           p \in {[sent |-> queue \o w.lines, kept |-> <<>>,
                   markers |-> DrainMarkers(runs), torn |-> w.torn] :
                      w \in Writes(DrainMarkers(runs))}
        BY <1>7 DEF PumpDrained
  <2>. DEFINE m == DrainMarkers(runs)
              M == LinesOf(m)
              last == nextSeq + Len(m)
  <2>2. PICK w \in Writes(m) :
           p = [sent |-> queue \o w.lines, kept |-> <<>>, markers |-> m, torn |-> w.torn]
        BY <2>1
  <2>. DEFINE W == LinesOf(w.lines)
  <2>3. /\ m \in Seq(Line) /\ m # <<>> /\ Len(m) \in Nat /\ Ascending(m)
        /\ Fresh(m, nextSeq)
        BY <1>1, <1>3, DrainMarkersLines
  <2>4. Numbers(M) = nextSeq .. last - 1 /\ Drops(M) = dropped
        BY <1>1, <1>3, DrainMarkersTell
  <2>. HIDE DEF m
  <2>5. p.sent = queue \o w.lines /\ p.kept = <<>> /\ p.markers = m
        BY <2>2
  <2>6. w.lines \in Seq(Line) /\ W \subseteq M
        BY <2>3, WrittenLines
  <2>7. /\ \A e, f \in M : e.seq = f.seq => e = f
        /\ M \in SUBSET Line /\ W \in SUBSET M
        /\ \A e \in M : nextSeq <= e.seq /\ e.seq \in Nat /\ e.drops \subseteq dropped
        BY <2>3, <2>4, <2>6, NumberTellsLine, LineTypes DEF Fresh, Drops
  <2>8. last \in Nat /\ nextSeq <= last
        BY <1>1, <2>3
  <2>9. /\ LinesOf(p.sent) = LinesOf(queue) \cup W /\ p.sent \in Seq(Line)
        BY <1>1, <2>5, <2>6, ConcatLines
  <2>10. M \cap LinesOf(queue) = {}
        BY <1>1, <1>4, <2>7
  <2>11. M \ LinesOf(p.sent) = M \ W
        BY <2>9, <2>10
  <2>. HIDE DEF M, W, last
  <2>12. Untold(m, p.sent) = GoneWith(M, W)
        BY <2>3, <2>7, <2>11, UntoldLines DEF M
  <2>. DEFINE gone == GoneWith(M, W)
              rest == Declared(journal) \cup lost
  <2>13. Splits(Told \cup Numbers(W), rest \cup Drops(W) \cup gone, last)
    <3>1. Splits(Told, rest \cup Drops(M), nextSeq)
          BY <1>1, <1>2, <2>4 DEF Splits
    <3>. HIDE DEF rest
    <3>2. nextSeq \in Nat /\ last \in Nat /\ nextSeq <= last
          BY <1>1, <2>8
    <3>3. \A e, f \in M : e.seq = f.seq => e = f
          BY <2>7
    <3>4. M \in SUBSET Line /\ W \in SUBSET M /\ Numbers(M) = nextSeq .. last - 1
          BY <2>4, <2>7
    <3>. QED  BY <3>1, <3>2, <3>3, <3>4, BatchIsTold
  <2>. HIDE DEF gone
  <2>14. /\ grown \in Seq(Line) /\ grown # <<>>
         /\ LinesOf(grown) = LinesOf(journal) \cup LinesOf(queue) \cup W
        BY <1>1, <2>9, ConcatLines, ConcatEqualIffEmpty
  <2>. HIDE DEF grown
  <2>15. /\ SeqsOf(grown) = J \cup Q \cup Numbers(W)
         /\ Declared(grown) = Declared(journal) \cup Drops(W)
    <3>1. /\ Numbers(LinesOf(grown)) = J \cup Q \cup Numbers(W)
          /\ Drops(LinesOf(grown)) = Declared(journal) \cup Drops(W)
      <4>1. Numbers(LinesOf(grown)) = J \cup Q \cup Numbers(W)
            BY <1>1, <2>14 DEF Numbers
      <4>2. Drops(LinesOf(grown)) = Drops(LinesOf(journal)) \cup Drops(LinesOf(queue)) \cup Drops(W)
            BY <2>14 DEF Drops
      <4>. QED  BY <1>1, <4>1, <4>2
    <3>. QED  BY <2>14, <3>1, NumbersOfLines
  <2>16. DropsAreOlder(LinesOf(grown))
    <3>1. DropsAreOlder(W)
      <4>1. SUFFICES ASSUME NEW e \in W, NEW d \in e.drops PROVE d < e.seq
            BY DEF DropsAreOlder
      <4>2. nextSeq \in Nat /\ nextSeq <= e.seq /\ e.seq \in Nat /\ d \in dropped
            BY <1>1, <2>7
      <4>3. d \in 0 .. nextSeq - 1
            BY <1>3, <4>2
      <4>. QED  BY <4>2, <4>3
    <3>. QED  BY <1>1, <1>4, <2>14, <3>1, NumbersUnion
  <2>17. SeqsOf(p.kept) = {} /\ Drops(LinesOf(p.kept)) = {}
        BY <2>5, EmptyLines DEF SeqsOf, Drops
  <2>18. noted = {} /\ end = last /\ Untold(p.markers, p.sent) = gone
        BY <2>3, <2>5, <2>12 DEF last, gone
  <2>. HIDE DEF noted, end
  <2>19. left = rest \cup Drops(W) \cup gone
        BY <2>15, <2>18
  <2>20. now = Told \cup Numbers(W)
        BY <1>2, <2>15, <2>17
  <2>. HIDE DEF left, now, rest
  <2>. QED  BY <2>13, <2>14, <2>16, <2>17, <2>18, <2>19, <2>20
<1>. QED  BY <1>5, <1>6, <1>7 DEF PumpOutcomes

LEMMA PumpBalances ==
    ASSUME TInv, Ordered, Balanced, PumpRetryQueue
    PROVE  Balanced'
<1>1. phase = "active" /\ phase' = "active"
      BY DEF PumpRetryQueue
<1>2. PICK p \in PumpOutcomes :
         /\ journal' = journal \o p.sent /\ queue' = p.kept
         /\ nextSeq' = nextSeq + Len(p.markers)
         /\ lost' = lost \cup Untold(p.markers, p.sent)
         /\ dropped' = IF p.markers = <<>> THEN dropped ELSE {}
      BY DEF PumpRetryQueue
<1>3. /\ Splits(SeqsOf(journal') \cup SeqsOf(queue'),
                dropped' \cup Declared(journal') \cup lost', nextSeq')
      /\ journal' # <<>> /\ (dropped' # {} => queue' # <<>>)
      /\ DropsAreOlder(LinesOf(journal')) /\ Drops(LinesOf(queue')) = {}
      BY <1>1, <1>2, PumpLeavesBalance
<1>4. Told' = SeqsOf(journal') \cup SeqsOf(queue')
      /\ Explained' = dropped' \cup Declared(journal') \cup lost'
      BY DEF Told, Explained
<1>. QED  BY <1>1, <1>3, <1>4 DEF Balanced, Splits

LEMMA LastIsLargest ==
    ASSUME NEW s \in Seq(Line), Ascending(s), s # <<>>
    PROVE  /\ LastSeq(s) \in Nat /\ LastSeq(s) \in SeqsOf(s)
           /\ SeqsOf(s) \subseteq 0 .. LastSeq(s)
<1>. DEFINE n == Len(s)
<1>1. DOMAIN s = 1 .. n /\ n \in Nat /\ n > 0
      BY EmptySeq
<1>2. \A i \in 1 .. n : s[i].seq \in Nat
      BY LineTypes
<1>. HIDE DEF n
<1>3. ASSUME NEW i \in 1 .. n PROVE s[i].seq \in 0 .. s[n].seq
  <2>1. CASE i = n
        BY <1>1, <1>2, <2>1
  <2>2. CASE i < n
    <3>1. s[i].seq < s[n].seq
          BY <1>1, <2>2 DEF Ascending
    <3>2. s[i].seq \in Nat /\ s[n].seq \in Nat
          BY <1>1, <1>2
    <3>. QED  BY <3>1, <3>2
  <2>. QED  BY <1>1, <2>1, <2>2
<1>4. n \in DOMAIN s /\ s[n].seq \in Nat /\ LastSeq(s) = s[n].seq
      BY <1>1, <1>2 DEF LastSeq, n
<1>. QED  BY <1>1, <1>3, <1>4 DEF SeqsOf

\* Drops are declared after what was dropped, so a file declares no number
\* above its last one.
LEMMA DropsBelowLast ==
    ASSUME NEW s \in Seq(Line), Ascending(s), s # <<>>, DropsAreOlder(LinesOf(s))
    PROVE  Declared(s) \subseteq 0 .. LastSeq(s) /\ LastSeq(s) \notin Declared(s)
<1>1. ASSUME NEW d \in Declared(s) PROVE d \in Nat /\ d < LastSeq(s)
  <2>1. PICK e \in LinesOf(s) : d \in e.drops
        BY NumbersOfLines DEF Drops
  <2>2. d \in Nat /\ d < e.seq /\ e.seq \in Nat
        BY <2>1, LineTypes DEF DropsAreOlder, Line
  <2>3. e.seq \in SeqsOf(s)
        BY NumbersOfLines DEF Numbers
  <2>4. e.seq \in 0 .. LastSeq(s) /\ LastSeq(s) \in Nat
        BY <2>3, LastIsLargest
  <2>. QED  BY <2>2, <2>4
<1>2. LastSeq(s) \in Nat
      BY LastIsLargest
<1>. QED  BY <1>1, <1>2

LEMMA CrashBalances ==
    ASSUME TInv, Ordered, Balanced, Crash
    PROVE  Balanced'
<1>1. PICK n \in synced .. Len(journal) : journal' = SubSeq(journal, 1, n)
      BY DEF Crash
<1>2. /\ phase = "active" /\ phase' = "down"
      /\ lost' = Gapped(journal') \ Declared(journal')
      BY DEF Crash
<1>3. /\ journal \in Seq(Line) /\ Len(journal) \in Nat /\ DOMAIN journal = 1 .. Len(journal)
      /\ n \in 0 .. Len(journal) /\ 1 \in 1 .. Len(journal) + 1 /\ Ascending(journal)
      BY DEF TInv, TypeOK, Ordered
<1>. DEFINE j == SubSeq(journal, 1, n)
<1>4. /\ j \in Seq(Line) /\ Ascending(j)
      /\ LinesOf(j) = {journal[i] : i \in 1 .. n}
      BY <1>3, PartOfLines
<1>. HIDE DEF j
<1>5. LinesOf(j) \subseteq LinesOf(journal)
  <2>1. \A i \in 1 .. n : i \in DOMAIN journal
        BY <1>3
  <2>2. \A i \in DOMAIN journal : journal[i] \in LinesOf(journal)
        BY DEF LinesOf
  <2>. QED  BY <1>4, <2>1, <2>2
<1>6. /\ SeqsOf(journal) = Numbers(LinesOf(journal))
      /\ Declared(journal) = Drops(LinesOf(journal))
      /\ Told \cap Explained = {} /\ DropsAreOlder(LinesOf(journal))
      BY <1>2, RunningAccounts
<1>7. /\ SeqsOf(j) \subseteq SeqsOf(journal) /\ Declared(j) \subseteq Declared(journal)
      /\ DropsAreOlder(LinesOf(j))
  <2>1. /\ Numbers(LinesOf(j)) \subseteq Numbers(LinesOf(journal))
        /\ Drops(LinesOf(j)) \subseteq Drops(LinesOf(journal))
        /\ DropsAreOlder(LinesOf(j))
        BY <1>5, <1>6 DEF Numbers, Drops, DropsAreOlder
  <2>. QED  BY <1>4, <1>6, <2>1, NumbersOfLines
<1>8. SeqsOf(j) \cap Declared(j) = {}
      BY <1>6, <1>7 DEF Told, Explained
<1>9. ASSUME j # <<>>
      PROVE  LET explained == Declared(j) \cup (Gapped(j) \ Declared(j))
             IN  /\ SeqsOf(j) \cup explained = 0 .. LastSeq(j)
                 /\ SeqsOf(j) \cap explained = {}
  <2>1. SeqsOf(j) \subseteq 0 .. LastSeq(j) /\ Declared(j) \subseteq 0 .. LastSeq(j)
        BY <1>4, <1>7, <1>9, LastIsLargest, DropsBelowLast
  <2>2. Gapped(j) = (0 .. LastSeq(j)) \ SeqsOf(j)
        BY <1>9 DEF Gapped
  <2>. QED  BY <1>8, <2>1, <2>2
<1>10. journal' = j /\ lost' = Gapped(j) \ Declared(j)
       BY <1>1, <1>2 DEF j
<1>. QED  BY <1>2, <1>7, <1>9, <1>10 DEF Balanced

LEMMA ResumeBalances ==
    ASSUME TInv, Ordered, Balanced, ResumeSession
    PROVE  Balanced'
<1>. DEFINE n == LastSeq(journal) + 1
            started == Event(n, "RecoveryStarted", {})
            completed == Event(n + 1, "RecoveryCompleted", {})
            m == <<started, completed>>
            M == {started, completed}
<1>1. PICK w \in Writes(m) :
         /\ journal' = journal \o w.lines /\ nextSeq' = n + 2
         /\ lost' = lost \cup Untold(m, w.lines)
      BY DEF ResumeSession
<1>2. /\ phase = "down" /\ phase' = "active" /\ queue' = <<>> /\ dropped' = {}
      BY DEF ResumeSession
<1>3. /\ journal \in Seq(Line) /\ journal # <<>> /\ Ascending(journal)
      BY DEF ResumeSession, Resumable, RecoveryClass, TInv, TypeOK, Ordered
<1>4. /\ SeqsOf(journal) \cup Declared(journal) \cup lost = 0 .. LastSeq(journal)
      /\ SeqsOf(journal) \cap (Declared(journal) \cup lost) = {}
      /\ DropsAreOlder(LinesOf(journal))
      BY <1>2, <1>3 DEF Balanced
<1>5. n \in Nat /\ n + 1 \in Nat /\ 0 .. LastSeq(journal) = 0 .. n - 1
      BY <1>3, LastIsLargest
<1>. HIDE DEF n
<1>6. /\ started \in Line /\ started.seq = n /\ started.drops = {}
      /\ completed \in Line /\ completed.seq = n + 1 /\ completed.drops = {}
  <2>1. "RecoveryStarted" \in Kinds /\ "RecoveryCompleted" \in Kinds
        BY DEF Kinds, SyncKinds
  <2>. QED  BY <1>5, <2>1, EventLine DEF Event
<1>. HIDE DEF started, completed
<1>7. m \in Seq(Line) /\ LinesOf(m) = M
  <2>1. m \in Seq(Line) /\ DOMAIN m = 1 .. 2 /\ m[1] = started /\ m[2] = completed
        BY <1>6
  <2>. HIDE DEF m
  <2>. QED  BY <2>1 DEF LinesOf
<1>8. w.lines \in Seq(Line) /\ LinesOf(w.lines) \subseteq M
      BY <1>7, WrittenLines
<1>9. /\ Numbers(M) = n .. (n + 2) - 1 /\ Drops(M) = {} /\ M \in SUBSET Line
      /\ \A e, f \in M : e.seq = f.seq => e = f
  <2>1. n .. (n + 2) - 1 = {n, n + 1} /\ n # n + 1
        BY <1>5
  <2>. QED  BY <1>6, <2>1 DEF Numbers, Drops
<1>. HIDE DEF m, M
<1>. DEFINE W == LinesOf(w.lines)
            told == SeqsOf(journal)
            left == Declared(journal) \cup lost
<1>10. Untold(m, w.lines) = GoneWith(M, W)
       BY <1>7, <1>8, UntoldLines
<1>11. /\ (told \cup Numbers(W)) \cup (left \cup Drops(W) \cup GoneWith(M, W)) = 0 .. (n + 2) - 1
       /\ (told \cup Numbers(W)) \cap (left \cup Drops(W) \cup GoneWith(M, W)) = {}
  <2>1. Splits(told, left \cup Drops(M), n)
        BY <1>4, <1>5, <1>9 DEF Splits
  <2>2. n \in Nat /\ n + 2 \in Nat /\ n <= n + 2 /\ W \in SUBSET M
        BY <1>5, <1>8
  <2>3. M \in SUBSET Line /\ Numbers(M) = n .. (n + 2) - 1
        BY <1>9
  <2>4. \A e, f \in M : e.seq = f.seq => e = f
        BY <1>9
  <2>. HIDE DEF W, told, left
  <2>5. Splits(told \cup Numbers(W), left \cup Drops(W) \cup GoneWith(M, W), n + 2)
        BY <2>1, <2>2, <2>3, <2>4, BatchIsTold
  <2>. QED  BY <2>5 DEF Splits
<1>12. /\ journal' \in Seq(Line) /\ journal' # <<>>
       /\ LinesOf(journal') = LinesOf(journal) \cup W
       BY <1>1, <1>3, <1>8, ConcatLines, ConcatEqualIffEmpty
<1>13. /\ SeqsOf(journal') = told \cup Numbers(W)
       /\ Declared(journal') = Declared(journal) \cup Drops(W)
  <2>1. /\ Numbers(LinesOf(journal')) = Numbers(LinesOf(journal)) \cup Numbers(W)
        /\ Drops(LinesOf(journal')) = Drops(LinesOf(journal)) \cup Drops(W)
        BY <1>12 DEF Numbers, Drops
  <2>. QED  BY <1>3, <1>12, <2>1, NumbersOfLines
<1>14. DropsAreOlder(LinesOf(journal'))
  <2>1. DropsAreOlder(W)
        BY <1>6, <1>8 DEF DropsAreOlder, M
  <2>. QED  BY <1>4, <1>12, <2>1 DEF DropsAreOlder
<1>15. SeqsOf(queue') = {} /\ Drops(LinesOf(queue')) = {}
       BY <1>2, EmptyLines DEF SeqsOf, Drops
<1>16. Told' = told \cup Numbers(W) /\ Explained' = left \cup Drops(W) \cup GoneWith(M, W)
       BY <1>1, <1>2, <1>10, <1>13, <1>15 DEF Told, Explained
<1>. QED  BY <1>1, <1>2, <1>11, <1>12, <1>14, <1>15, <1>16 DEF Balanced

\* The closing events follow whatever the pump left, also a queue that did not
\* drain; what is not written of them is explained by their failure.
LEMMA CloseBalances ==
    ASSUME TInv, Ordered, Balanced, CloseSession
    PROVE  Balanced'
<1>. DEFINE closing(n) == <<Event(n, "SessionClosed", {}), Event(n + 1, "CleanShutdown", {})>>
<1>1. PICK p \in PumpOutcomes :
         \E w \in IF poisoned \/ p.torn THEN NoWrites
                  ELSE Writes(closing(nextSeq + Len(p.markers))) :
         /\ journal' = journal \o p.sent \o w.lines /\ queue' = p.kept
         /\ nextSeq' = nextSeq + Len(p.markers) + 2
         /\ lost' = lost \cup Untold(p.markers, p.sent)
                         \cup Untold(closing(nextSeq + Len(p.markers)), w.lines)
         /\ dropped' = IF p.markers = <<>> THEN dropped ELSE {}
      BY DEF CloseSession
<1>. DEFINE n == nextSeq + Len(p.markers)
            c == closing(n)
            j == journal \o p.sent
            noted == IF p.markers = <<>> THEN dropped ELSE {}
            rest == noted \cup Declared(j) \cup lost \cup Untold(p.markers, p.sent)
<1>2. PICK w \in IF poisoned \/ p.torn THEN NoWrites ELSE Writes(c) :
         /\ journal' = j \o w.lines /\ queue' = p.kept /\ nextSeq' = n + 2
         /\ lost' = lost \cup Untold(p.markers, p.sent) \cup Untold(c, w.lines)
         /\ dropped' = noted
      BY <1>1
<1>3. phase = "active" /\ phase' = "closed"
      BY DEF CloseSession
<1>4. /\ Splits(SeqsOf(j) \cup SeqsOf(p.kept), rest, n)
      /\ j \in Seq(Line) /\ j # <<>> /\ (noted # {} => p.kept # <<>>)
      /\ DropsAreOlder(LinesOf(j))
      BY <1>3, PumpLeavesBalance
<1>5. /\ p.kept \in Seq(Line) /\ Len(p.markers) \in Nat
      /\ Before(j, p.kept) /\ Below(p.kept, n)
      BY <1>3, PumpLeaves, PumpLeavesOrder DEF TInv, TypeOK
<1>6. n \in Nat /\ n + 1 \in Nat /\ n + 2 \in Nat
      BY <1>5 DEF TInv, TypeOK
<1>. HIDE DEF n, j, noted, rest
<1>. DEFINE a == Event(n, "SessionClosed", {})
            b == Event(n + 1, "CleanShutdown", {})
            M == {a, b}
            W == LinesOf(w.lines)
<1>7. a \in Line /\ a.seq = n /\ a.drops = {} /\ b \in Line /\ b.seq = n + 1 /\ b.drops = {}
  <2>1. "SessionClosed" \in Kinds /\ "CleanShutdown" \in Kinds
        BY DEF Kinds, SyncKinds
  <2>. QED  BY <1>6, <2>1, EventLine DEF Event
<1>8. c = <<a, b>>
      OBVIOUS
<1>. HIDE DEF a, b, c, closing
<1>9. c \in Seq(Line) /\ LinesOf(c) = M
  <2>1. c \in Seq(Line) /\ DOMAIN c = 1 .. 2 /\ c[1] = a /\ c[2] = b
        BY <1>7, <1>8
  <2>. QED  BY <2>1 DEF LinesOf
<1>10. w.lines \in Seq(Line) /\ W \subseteq M
  <2>1. CASE w \in NoWrites
    <3>1. w.lines = <<>>
          BY <2>1 DEF NoWrites
    <3>. QED  BY <3>1, EmptyLines
  <2>2. CASE w \in Writes(c)
        BY <1>9, <2>2, WrittenLines
  <2>. QED  BY <2>1, <2>2
<1>11. /\ Numbers(M) = n .. (n + 2) - 1 /\ Drops(M) = {} /\ M \in SUBSET Line
       /\ \A e, f \in M : e.seq = f.seq => e = f
  <2>1. n .. (n + 2) - 1 = {n, n + 1} /\ n # n + 1
        BY <1>6
  <2>. QED  BY <1>7, <2>1 DEF Numbers, Drops
<1>12. DropsAreOlder(W) /\ Drops(W) = {}
  <2>1. \A e \in W : e.drops = {}
        BY <1>7, <1>10
  <2>. QED  BY <2>1 DEF DropsAreOlder, Drops
<1>. HIDE DEF M, W
<1>13. Untold(c, w.lines) = GoneWith(M, W)
       BY <1>9, <1>10, UntoldLines DEF W
<1>. DEFINE told == SeqsOf(j) \cup SeqsOf(p.kept)
<1>14. Splits(told \cup Numbers(W), rest \cup Drops(W) \cup GoneWith(M, W), n + 2)
  <2>1. Splits(told, rest \cup Drops(M), n)
        BY <1>4, <1>11
  <2>2. n \in Nat /\ n + 2 \in Nat /\ n <= n + 2 /\ W \in SUBSET M
        BY <1>6, <1>10
  <2>3. M \in SUBSET Line /\ Numbers(M) = n .. (n + 2) - 1
        BY <1>11
  <2>4. \A e, f \in M : e.seq = f.seq => e = f
        BY <1>11
  <2>. HIDE DEF told
  <2>. QED  BY <2>1, <2>2, <2>3, <2>4, BatchIsTold
<1>15. /\ journal' \in Seq(Line) /\ journal' # <<>>
       /\ LinesOf(journal') = LinesOf(j) \cup W
       BY <1>2, <1>4, <1>10, ConcatLines, ConcatEqualIffEmpty DEF W
<1>16. /\ SeqsOf(journal') = SeqsOf(j) \cup Numbers(W)
       /\ Declared(journal') = Declared(j)
  <2>1. /\ Numbers(LinesOf(journal')) = Numbers(LinesOf(j)) \cup Numbers(W)
        /\ Drops(LinesOf(journal')) = Drops(LinesOf(j)) \cup Drops(W)
        BY <1>15 DEF Numbers, Drops
  <2>. QED  BY <1>4, <1>12, <1>15, <2>1, NumbersOfLines
<1>17. DropsAreOlder(LinesOf(journal'))
       BY <1>4, <1>12, <1>15 DEF DropsAreOlder
<1>18. SeqsOf(journal') \cap SeqsOf(queue') = {}
  <2>1. SeqsOf(j) = Numbers(LinesOf(j)) /\ SeqsOf(p.kept) = Numbers(LinesOf(p.kept))
        BY <1>4, <1>5, NumbersOfLines
  <2>2. SUFFICES ASSUME NEW f \in LinesOf(p.kept), f.seq \in SeqsOf(j) \cup Numbers(W)
                 PROVE  FALSE
        BY <1>2, <1>16, <2>1 DEF Numbers
  <2>3. f.seq \in Nat /\ f.seq < n
        BY <1>5, LineTypes DEF Below
  <2>4. f.seq \notin Numbers(W)
    <3>1. \A x \in Numbers(W) : x \in n .. (n + 2) - 1
          BY <1>10, <1>11 DEF Numbers, W
    <3>. QED  BY <1>6, <2>3, <3>1
  <2>5. PICK e \in LinesOf(j) : e.seq = f.seq
        BY <2>1, <2>2, <2>4 DEF Numbers
  <2>6. e.seq < f.seq
        BY <1>5 DEF Before
  <2>. QED  BY <2>3, <2>5, <2>6
<1>19. /\ Told' = told \cup Numbers(W)
       /\ Explained' = rest \cup Drops(W) \cup GoneWith(M, W)
       BY <1>2, <1>12, <1>13, <1>16 DEF Told, Explained, rest
<1>. HIDE DEF told
<1>20. Told' \cup Explained' = 0 .. nextSeq' - 1 /\ Told' \cap Explained' = {}
       BY <1>2, <1>14, <1>19 DEF Splits
<1>. QED  BY <1>2, <1>3, <1>4, <1>15, <1>17, <1>18, <1>20 DEF Balanced

LEMMA BalancedStep ==
    ASSUME TInv, Ordered, Balanced, [Next]_vars
    PROVE  Balanced'
<1>1. CASE BeginSession  BY <1>1, BeginBalances
<1>2. CASE \E k \in Submitted : Submit(k)  BY <1>2, SubmitBalances
<1>3. CASE PumpRetryQueue  BY <1>3, PumpBalances
<1>4. CASE CloseSession  BY <1>4, CloseBalances
<1>5. CASE Crash  BY <1>5, CrashBalances
<1>6. CASE ResumeSession  BY <1>6, ResumeBalances
<1>7. CASE Discard
  <2>1. phase' = "discarded"
        BY <1>7 DEF Discard
  <2>. QED  BY <2>1 DEF Balanced
<1>8. CASE UNCHANGED vars
      BY <1>8 DEF vars, Balanced, Told, Explained
<1>. QED  BY <1>1, <1>2, <1>3, <1>4, <1>5, <1>6, <1>7, <1>8 DEF Next

\* The accounts balance for ever: a number is told by the file or the queue,
\* or explained by a drop, a declaration or a marker that failed, never both.
THEOREM AccountsBalance == Spec => []Balanced
<1>1. TInv /\ Ordered /\ Balanced /\ [Next]_vars => Balanced'
      BY BalancedStep
<1>. QED  BY <1>1, InitBalanced, Invariant, PTL DEF Spec

\* Loss is recorded: every number given out is in the file, in the queue, on
\* the list of drops to declare, declared, or that of a marker that failed.
THEOREM LossIsRecorded == Spec => []Accounted
<1>1. Balanced => Accounted
      BY DEF Balanced, Told, Explained, Accounted
<1>. QED  BY <1>1, AccountsBalance, PTL

\* Accounts that balance over a file alone are what the validator asks for.
LEMMA WholeFileIsClean ==
    ASSUME TInv, Ordered, Balanced, phase \in {"active", "closed"},
           queue = <<>>, lost = {}, ~torn
    PROVE  RecoveryClass(journal, torn) = "Clean"
<1>1. /\ nextSeq \in Nat /\ journal \in Seq(Line) /\ journal # <<>> /\ Ascending(journal)
      /\ Told \cup Explained = 0 .. nextSeq - 1 /\ Told \cap Explained = {}
      /\ DropsAreOlder(LinesOf(journal)) /\ dropped = {}
      BY DEF TInv, TypeOK, Ordered, Balanced
<1>2. Told = SeqsOf(journal) /\ Explained = Declared(journal)
  <2>1. SeqsOf(<<>>) = {}
        BY EmptyLines DEF SeqsOf
  <2>. QED  BY <1>1, <2>1 DEF Told, Explained
<1>3. /\ LastSeq(journal) \in Nat /\ LastSeq(journal) \in SeqsOf(journal)
      /\ SeqsOf(journal) \subseteq 0 .. LastSeq(journal)
      /\ Declared(journal) \subseteq 0 .. LastSeq(journal)
      BY <1>1, LastIsLargest, DropsBelowLast
<1>4. 0 .. nextSeq - 1 = 0 .. LastSeq(journal)
  <2>1. LastSeq(journal) \in 0 .. nextSeq - 1
        BY <1>1, <1>2, <1>3
  <2>2. nextSeq - 1 \in 0 .. nextSeq - 1
        BY <1>1, <2>1
  <2>3. nextSeq - 1 \in 0 .. LastSeq(journal)
        BY <1>1, <1>2, <1>3, <2>2
  <2>. QED  BY <1>1, <1>3, <2>1, <2>3
<1>5. Gapped(journal) = Declared(journal)
      BY <1>1, <1>2, <1>4 DEF Gapped
<1>. QED  BY <1>1, <1>5 DEF RecoveryClass, Reconciled

\* What still waits when a session is closed is a gap below its last line, and
\* no line declares it.
LEMMA ForgottenIsNotClean ==
    ASSUME TInv, Balanced, phase = "closed", LastSeq(journal) = nextSeq - 1,
           RecoveryClass(journal, torn) = "Clean"
    PROVE  queue = <<>>
<1>1. SUFFICES ASSUME queue # <<>> PROVE FALSE
      OBVIOUS
<1>2. /\ journal # <<>> /\ queue \in Seq(Line)
      /\ Told \cup Explained = 0 .. nextSeq - 1 /\ Told \cap Explained = {}
      /\ SeqsOf(journal) \cap SeqsOf(queue) = {}
      BY DEF TInv, TypeOK, Balanced
<1>3. PICK s : s \in SeqsOf(queue)
  <2>1. 1 \in DOMAIN queue
        BY <1>1, <1>2, EmptySeq
  <2>. QED  BY <2>1 DEF SeqsOf
<1>4. s \in 0 .. LastSeq(journal) /\ s \notin SeqsOf(journal)
      BY <1>2, <1>3 DEF Told
<1>5. s \in Declared(journal)
      BY <1>2, <1>4 DEF RecoveryClass, Reconciled, Gapped
<1>. QED  BY <1>2, <1>3, <1>5 DEF Told, Explained

\* The live side and the validator agree on what a gap may be: a session that
\* holds nothing back and has lost no marker would be found Clean, and one that
\* was closed over a queue that did not drain would not.
THEOREM DrainsToClean == Spec => []CleanOnceDrained
<1>1. TInv /\ Ordered /\ Balanced => CleanOnceDrained
      BY WholeFileIsClean, ForgottenIsNotClean DEF CleanOnceDrained
<1>. QED  BY <1>1, Invariant, AccountsBalance, PTL
-----------------------------------------------------------------------------
(* What replay needs.  Every event was legal when it was reduced, given    *)
(* all the events before it; what a crash leaves without a gap holds the   *)
(* same events before each of its lines.                                   *)

Earlier(S, n) == {e \in S : e.seq < n}
LawfulLines(S) == \A e \in S : Legal(e.kind, Earlier(S, e.seq))
Numbered(S, n) == /\ \A e \in S : e.seq < n
                  /\ \A e, f \in S : e.seq = f.seq => e = f

Lawful ==
    /\ phase = "active" => Started(ram) /\ LawfulLines(ram) /\ Numbered(ram, nextSeq)
    /\ phase = "down" /\ journal # <<>> /\ Gapped(journal) = {} => Replays(journal)

MarkerKinds == {"PersistenceDegraded", "AuxEventsDropped", "PersistenceRestored",
                "RecoveryStarted", "RecoveryCompleted"}

\* New lines change nothing for the older ones.
LEMMA OlderStayLawful ==
    ASSUME NEW S \in SUBSET Line, NEW M \in SUBSET Line, NEW n \in Nat,
           LawfulLines(S), \A e \in S : e.seq < n, \A e \in M : n <= e.seq,
           NEW e \in S
    PROVE  Legal(e.kind, Earlier(S \cup M, e.seq))
<1>1. e.seq \in Nat /\ e.seq < n /\ \A f \in M : f.seq \in Nat /\ n <= f.seq
      BY DEF Line
<1>2. \A f \in M : ~(f.seq < e.seq)
      BY <1>1
<1>3. Earlier(S \cup M, e.seq) = Earlier(S, e.seq)
      BY <1>2 DEF Earlier
<1>. QED  BY <1>3 DEF LawfulLines

LEMMA MarkersAreLawful ==
    ASSUME NEW S \in SUBSET Line, NEW M \in SUBSET Line, NEW n \in Nat, NEW m \in Nat,
           LawfulLines(S), Started(S), Numbered(S, n), n <= m,
           \A e \in M : n <= e.seq /\ e.seq < m /\ e.kind \in MarkerKinds,
           \A e, f \in M : e.seq = f.seq => e = f
    PROVE  Started(S \cup M) /\ LawfulLines(S \cup M) /\ Numbered(S \cup M, m)
<1>1. \A e \in S \cup M : e.seq \in Nat
      BY DEF Line
<1>2. \A e \in S : e.seq < n
      BY DEF Numbered
<1>3. ASSUME NEW e \in M PROVE Legal(e.kind, Earlier(S \cup M, e.seq))
  <2>1. \A f \in S : f.seq < e.seq
        BY <1>1, <1>2
  <2>2. Started(Earlier(S \cup M, e.seq))
        BY <2>1 DEF Started, Earlier
  <2>. QED  BY <2>2 DEF Legal, MarkerKinds, ProducerKinds
<1>4. \A e \in S : Legal(e.kind, Earlier(S \cup M, e.seq))
      BY <1>2, OlderStayLawful
<1>5. Numbered(S \cup M, m)
  <2>1. \A e \in S, f \in M : e.seq < f.seq
        BY <1>1, <1>2
  <2>2. \A e \in S : e.seq < m
        BY <1>1, <1>2
  <2>3. \A e \in S, f \in M : e.seq # f.seq
        BY <1>1, <2>1
  <2>. QED  BY <2>2, <2>3 DEF Numbered
<1>. QED  BY <1>3, <1>4, <1>5 DEF LawfulLines, Started

LEMMA ItemIsLawful ==
    ASSUME NEW S \in SUBSET Line, NEW item \in Line, NEW n \in Nat, item.seq = n,
           LawfulLines(S), Started(S), Numbered(S, n), Legal(item.kind, S)
    PROVE  /\ Started(S \cup {item}) /\ LawfulLines(S \cup {item})
           /\ Numbered(S \cup {item}, n + 1)
<1>1. \A e \in S : e.seq \in Nat /\ e.seq < n
      BY DEF Line, Numbered
<1>2. Earlier(S \cup {item}, n) = S
      BY <1>1 DEF Earlier
<1>3. \A e \in S : Legal(e.kind, Earlier(S \cup {item}, e.seq))
  <2>. DEFINE M == {item}
  <2>1. M \in SUBSET Line /\ \A e \in M : n <= e.seq
        OBVIOUS
  <2>2. \A e \in S : e.seq < n
        BY <1>1
  <2>. HIDE DEF M
  <2>3. \A e \in S : Legal(e.kind, Earlier(S \cup M, e.seq))
        BY <2>1, <2>2, OlderStayLawful
  <2>. QED  BY <2>3 DEF M
<1>4. Numbered(S \cup {item}, n + 1)
      BY <1>1 DEF Numbered
<1>. QED  BY <1>2, <1>3, <1>4 DEF LawfulLines, Started

\* The lines before one of an ascending file are those with smaller numbers.
LEMMA EarlierIsPrefix ==
    ASSUME NEW s \in Seq(Line), Ascending(s), NEW i \in 1 .. Len(s)
    PROVE  Earlier(LinesOf(s), s[i].seq) = LinesOf(SubSeq(s, 1, i - 1))
<1>. DEFINE n == Len(s)
<1>1. DOMAIN s = 1 .. n /\ n \in Nat /\ i \in 1 .. n
      OBVIOUS
<1>2. \A j \in 1 .. n : s[j].seq \in Nat
      BY LineTypes
<1>3. LinesOf(SubSeq(s, 1, i - 1)) = {s[j] : j \in 1 .. i - 1}
  <2>1. 1 \in 1 .. Len(s) + 1 /\ i - 1 \in 0 .. Len(s)
        BY <1>1
  <2>. QED  BY <2>1, PartOfLines
<1>. HIDE DEF n
<1>4. ASSUME NEW j \in 1 .. n PROVE s[j].seq < s[i].seq <=> j \in 1 .. i - 1
  <2>1. CASE j < i
        BY <1>1, <2>1 DEF Ascending
  <2>2. CASE i < j
    <3>1. s[i].seq < s[j].seq
          BY <1>1, <2>2 DEF Ascending
    <3>. QED  BY <1>1, <1>2, <2>2, <3>1
  <2>3. CASE i = j
        BY <1>1, <1>2, <2>3
  <2>. QED  BY <1>1, <2>1, <2>2, <2>3
<1>5. LinesOf(s) = {s[j] : j \in 1 .. n}
      BY <1>1 DEF LinesOf
<1>6. \A j \in 1 .. i - 1 : j \in 1 .. n
      BY <1>1
<1>. QED  BY <1>3, <1>4, <1>5, <1>6 DEF Earlier

\* A file that replays begins with the header, and each of its lines is legal
\* after the ones with smaller numbers.
LEMMA ReplayedIsLawful ==
    ASSUME NEW s \in Seq(Line), Ascending(s), s # <<>>, Replays(s)
    PROVE  /\ Started(LinesOf(s)) /\ LawfulLines(LinesOf(s))
           /\ Numbered(LinesOf(s), LastSeq(s) + 1)
<1>1. DOMAIN s = 1 .. Len(s) /\ Len(s) \in Nat /\ 1 \in DOMAIN s
      BY EmptySeq
<1>2. \A i \in DOMAIN s : Legal(s[i].kind, Earlier(LinesOf(s), s[i].seq))
      BY <1>1, EarlierIsPrefix DEF Replays
<1>3. LawfulLines(LinesOf(s))
      BY <1>2 DEF LawfulLines, LinesOf
<1>4. Started(LinesOf(s))
  <2>1. LinesOf(SubSeq(s, 1, 1 - 1)) = {}
    <3>1. SubSeq(s, 1, 1 - 1) = <<>>
          BY SubSeqEmpty
    <3>. QED  BY <3>1, EmptyLines
  <2>2. Legal(s[1].kind, {})
        BY <1>1, <2>1 DEF Replays
  <2>3. s[1].kind = "SessionStarted"
        BY <2>2 DEF Legal, Started
  <2>. QED  BY <1>1, <2>3 DEF Started, LinesOf
<1>5. Numbered(LinesOf(s), LastSeq(s) + 1)
  <2>1. \A e \in LinesOf(s) : e.seq \in 0 .. LastSeq(s)
        BY LastIsLargest, NumbersOfLines DEF Numbers
  <2>2. LastSeq(s) \in Nat
        BY LastIsLargest
  <2>3. \A e, f \in LinesOf(s) : e.seq = f.seq => e = f
        BY NumberTellsLine
  <2>. QED  BY <2>1, <2>2, <2>3 DEF Numbered
<1>. QED  BY <1>3, <1>4, <1>5

\* The other way round: a gapless part of what was reduced replays.
LEMMA GaplessReplays ==
    ASSUME NEW s \in Seq(Line), Ascending(s), s # <<>>, Gapped(s) = {},
           NEW S \in SUBSET Line, LinesOf(s) \subseteq S, LawfulLines(S),
           NEW n, Numbered(S, n)
    PROVE  Replays(s)
<1>. SUFFICES ASSUME NEW i \in DOMAIN s
              PROVE  Legal(s[i].kind, LinesOf(SubSeq(s, 1, i - 1)))
     BY DEF Replays
<1>1. i \in 1 .. Len(s) /\ s[i] \in LinesOf(s)
      BY DEF LinesOf
<1>2. LinesOf(SubSeq(s, 1, i - 1)) = Earlier(LinesOf(s), s[i].seq)
      BY <1>1, EarlierIsPrefix
<1>3. 0 .. LastSeq(s) \subseteq SeqsOf(s) /\ LastSeq(s) \in Nat
      BY LastIsLargest DEF Gapped
<1>4. ASSUME NEW e \in S, e.seq < s[i].seq PROVE e \in LinesOf(s)
  <2>1. s[i].seq \in 0 .. LastSeq(s) /\ e.seq \in Nat
    <3>1. s[i].seq \in SeqsOf(s)
          BY DEF SeqsOf
    <3>. QED  BY <3>1, LastIsLargest DEF Line
  <2>2. e.seq \in SeqsOf(s)
    <3>1. e.seq \in 0 .. LastSeq(s)
          BY <1>3, <1>4, <2>1
    <3>. QED  BY <1>3, <3>1
  <2>3. PICK f \in LinesOf(s) : f.seq = e.seq
        BY <2>2, NumbersOfLines DEF Numbers
  <2>. QED  BY <2>3 DEF Numbered
<1>5. Earlier(LinesOf(s), s[i].seq) = Earlier(S, s[i].seq)
      BY <1>4 DEF Earlier
<1>. QED  BY <1>1, <1>2, <1>5 DEF LawfulLines

LEMMA InitLawful == Init => Lawful
BY DEF Init, Lawful

LEMMA BeginLawful ==
    ASSUME TInv, BeginSession
    PROVE  Lawful'
<1>. DEFINE header == Event(0, "SessionStarted", {})
<1>1. \/ phase' = "active" /\ ram' = {header} /\ nextSeq' = 1
      \/ phase' = "down" /\ journal' \in {<<>>, <<header>>}
      BY DEF BeginSession, TInv
<1>2. header \in Line /\ header.seq = 0 /\ header.kind = "SessionStarted"
      BY HeaderLine DEF Event
<1>. HIDE DEF header
<1>3. Earlier({header}, 0) = {} /\ Legal("SessionStarted", {})
      BY <1>2 DEF Earlier, Legal, Started, ProducerKinds
<1>4. Started({header}) /\ LawfulLines({header}) /\ Numbered({header}, 1)
      BY <1>2, <1>3 DEF Started, LawfulLines, Numbered
<1>5. Replays(<<header>>)
  <2>1. SubSeq(<<header>>, 1, 1 - 1) = <<>>
        BY SubSeqEmpty
  <2>2. DOMAIN <<header>> = {1} /\ <<header>>[1] = header
        OBVIOUS
  <2>. QED  BY <1>2, <1>3, <2>1, <2>2, EmptyLines DEF Replays
<1>. QED  BY <1>1, <1>4, <1>5 DEF Lawful

LEMMA SubmitLawful ==
    ASSUME TInv, Lawful, NEW k \in Submitted, Submit(k)
    PROVE  Lawful'
<1>. DEFINE item == Event(nextSeq, k, {})
            marker == Event(nextSeq + 1, "PersistenceDegraded", {})
            more == ram \cup {item}
<1>1. nextSeq \in Nat /\ nextSeq + 1 \in Nat /\ nextSeq + 2 \in Nat /\ ram \in SUBSET Line
      BY DEF TInv, TypeOK
<1>2. /\ item \in Line /\ item.seq = nextSeq /\ item.kind = k
      /\ marker \in Line /\ marker.seq = nextSeq + 1
      /\ marker.kind = "PersistenceDegraded"
  <2>1. "PersistenceDegraded" \in Kinds
        BY DEF Kinds, SyncKinds
  <2>. QED  BY <1>1, <2>1, SubmittedKinds, EventLine
<1>3. phase = "active" /\ phase' = "active" /\ Legal(k, ram)
      BY DEF Submit, SubmitBehindQueue, SubmitDurable, SubmitUnsynced,
             SubmitPoisoned, SubmitFailed, Reduce
<1>4. \/ ram' = more /\ nextSeq' = nextSeq + 1
      \/ ram' = more \cup {marker} /\ nextSeq' = nextSeq + 2
  <2>1. SubmitFailed(k) => \/ ram' = more /\ nextSeq' = nextSeq + 1
                           \/ ram' = more \cup {marker} /\ nextSeq' = nextSeq + 2
        BY DEF SubmitFailed
  <2>2. ~SubmitFailed(k) => ram' = more /\ nextSeq' = nextSeq + 1
        BY DEF Submit, SubmitBehindQueue, SubmitDurable, SubmitUnsynced, SubmitPoisoned
  <2>. QED  BY <2>1, <2>2
<1>. HIDE DEF item, marker
<1>5. Started(ram) /\ LawfulLines(ram) /\ Numbered(ram, nextSeq)
      BY <1>3 DEF Lawful
<1>6. Started(more) /\ LawfulLines(more) /\ Numbered(more, nextSeq + 1)
      BY <1>1, <1>2, <1>3, <1>5, ItemIsLawful
<1>7. more \in SUBSET Line
      BY <1>1, <1>2
<1>. HIDE DEF more
<1>8. /\ Started(more \cup {marker}) /\ LawfulLines(more \cup {marker})
      /\ Numbered(more \cup {marker}, nextSeq + 2)
  <2>. DEFINE M == {marker}
  <2>1. /\ \A e \in M : nextSeq + 1 <= e.seq /\ e.seq < nextSeq + 2 /\ e.kind \in MarkerKinds
        /\ \A e, f \in M : e.seq = f.seq => e = f
        /\ M \in SUBSET Line /\ nextSeq + 1 <= nextSeq + 2
        BY <1>1, <1>2 DEF MarkerKinds
  <2>. HIDE DEF M
  <2>2. Started(more \cup M) /\ LawfulLines(more \cup M) /\ Numbered(more \cup M, nextSeq + 2)
        BY <1>1, <1>6, <1>7, <2>1, MarkersAreLawful
  <2>. QED  BY <2>2 DEF M
<1>9. phase' # "down"
      BY <1>3
<1>. QED  BY <1>4, <1>6, <1>8, <1>9 DEF Lawful

LEMMA PumpLawful ==
    ASSUME TInv, Ordered, Lawful, PumpRetryQueue
    PROVE  Lawful'
<1>1. PICK p \in PumpOutcomes :
         ram' = ram \cup LinesOf(p.markers) /\ nextSeq' = nextSeq + Len(p.markers)
      BY DEF PumpRetryQueue
<1>2. phase = "active" /\ phase' = "active" /\ queue # <<>> /\ ~poisoned
      BY DEF PumpRetryQueue
<1>3. /\ nextSeq \in Nat /\ ram \in SUBSET Line /\ dropped \in SUBSET Nat /\ IsFiniteSet(dropped)
      /\ Started(ram) /\ LawfulLines(ram) /\ Numbered(ram, nextSeq)
      BY <1>2 DEF TInv, TypeOK, Lawful
<1>. DEFINE m == p.markers
            M == LinesOf(m)
<1>4. \/ m = <<>>
      \/ \E runs \in RunsInOrder(dropped) : m = DrainMarkers(runs)
  <2>1. CASE p \in PumpStalled
        BY <2>1 DEF PumpStalled
  <2>2. CASE p \in PumpDrained
    <3>1. PICK runs \in RunsInOrder(dropped) :
             p \in {[sent |-> queue \o w.lines, kept |-> <<>>,
                     markers |-> DrainMarkers(runs), torn |-> w.torn] :
                        w \in Writes(DrainMarkers(runs))}
          BY <2>2 DEF PumpDrained
    <3>2. p.markers = DrainMarkers(runs)
          BY <3>1
    <3>. QED  BY <3>2
  <2>. QED  BY <1>2, <2>1, <2>2 DEF PumpOutcomes
<1>5. CASE m = <<>>
  <2>1. ram' = ram /\ nextSeq' = nextSeq
        BY <1>1, <1>3, <1>5, EmptyLines
  <2>. QED  BY <1>2, <1>3, <2>1 DEF Lawful
<1>6. CASE \E runs \in RunsInOrder(dropped) : m = DrainMarkers(runs)
  <2>1. PICK runs \in RunsInOrder(dropped) : m = DrainMarkers(runs)
        BY <1>6
  <2>2. /\ m \in Seq(Line) /\ Len(m) \in Nat /\ Ascending(m)
        /\ Fresh(m, nextSeq) /\ Below(m, nextSeq + Len(m))
        BY <1>3, <2>1, DrainMarkersLines
  <2>3. \A i \in DOMAIN m : m[i].kind \in MarkerKinds
    <3>1. /\ DOMAIN m = 1 .. Len(runs) + 1
          /\ \A i \in 1 .. Len(runs) + 1 :
                m[i] = IF i <= Len(runs)
                       THEN Event(nextSeq + i - 1, "AuxEventsDropped", runs[i])
                       ELSE Event(nextSeq + i - 1, "PersistenceRestored", {})
          BY <2>1 DEF DrainMarkers
    <3>. HIDE DEF m
    <3>. QED  BY <3>1 DEF Event, MarkerKinds
  <2>. HIDE DEF m
  <2>4. /\ \A e \in M : /\ nextSeq <= e.seq /\ e.seq < nextSeq + Len(m)
                        /\ e.kind \in MarkerKinds
        /\ \A e, f \in M : e.seq = f.seq => e = f
        /\ M \in SUBSET Line
    <3>1. \A e \in M : e.kind \in MarkerKinds
          BY <2>3 DEF LinesOf
    <3>. QED  BY <2>2, <3>1, NumberTellsLine, LineTypes DEF Fresh, Below
  <2>5. nextSeq + Len(m) \in Nat /\ nextSeq <= nextSeq + Len(m)
        BY <1>3, <2>2
  <2>. HIDE DEF M
  <2>6. /\ Started(ram \cup M) /\ LawfulLines(ram \cup M)
        /\ Numbered(ram \cup M, nextSeq + Len(m))
        BY <1>3, <2>4, <2>5, MarkersAreLawful
  <2>7. ram' = ram \cup M /\ nextSeq' = nextSeq + Len(m)
        BY <1>1 DEF m, M
  <2>. QED  BY <1>2, <2>6, <2>7 DEF Lawful
<1>. QED  BY <1>4, <1>5, <1>6

LEMMA CrashLawful ==
    ASSUME TInv, Ordered, OfficialsHeld, Lawful, Crash
    PROVE  Lawful'
<1>1. PICK n \in synced .. Len(journal) : journal' = SubSeq(journal, 1, n)
      BY DEF Crash
<1>2. phase = "active" /\ phase' = "down"
      BY DEF Crash
<1>3. /\ journal \in Seq(Line) /\ DOMAIN journal = 1 .. Len(journal) /\ Len(journal) \in Nat
      /\ n \in 0 .. Len(journal) /\ 1 \in 1 .. Len(journal) + 1 /\ Ascending(journal)
      BY DEF TInv, TypeOK, Ordered
<1>4. ram \in SUBSET Line /\ LinesOf(journal) \subseteq ram
      BY <1>2 DEF TInv, TypeOK, OfficialsHeld
<1>5. LawfulLines(ram) /\ Numbered(ram, nextSeq)
      BY <1>2 DEF Lawful
<1>. DEFINE j == SubSeq(journal, 1, n)
<1>6. j \in Seq(Line) /\ Ascending(j) /\ LinesOf(j) = {journal[i] : i \in 1 .. n}
      BY <1>3, PartOfLines
<1>. HIDE DEF j
<1>7. LinesOf(j) \subseteq ram
  <2>1. \A i \in 1 .. n : i \in DOMAIN journal
        BY <1>3
  <2>2. \A i \in DOMAIN journal : journal[i] \in LinesOf(journal)
        BY DEF LinesOf
  <2>. QED  BY <1>4, <1>6, <2>1, <2>2
<1>8. j # <<>> /\ Gapped(j) = {} => Replays(j)
      BY <1>4, <1>5, <1>6, <1>7, GaplessReplays
<1>9. journal' = j
      BY <1>1 DEF j
<1>. QED  BY <1>2, <1>8, <1>9 DEF Lawful

LEMMA ResumeLawful ==
    ASSUME TInv, Ordered, Lawful, ResumeSession
    PROVE  Lawful'
<1>. DEFINE n == LastSeq(journal) + 1
            started == Event(n, "RecoveryStarted", {})
            completed == Event(n + 1, "RecoveryCompleted", {})
            m == <<started, completed>>
            M == {started, completed}
            S == LinesOf(journal)
<1>1. phase' = "active" /\ nextSeq' = n + 2 /\ ram' = S \cup LinesOf(m)
      BY DEF ResumeSession
<1>2. /\ journal \in Seq(Line) /\ journal # <<>> /\ Ascending(journal) /\ Replays(journal)
      BY DEF ResumeSession, Resumable, RecoveryClass, TInv, TypeOK, Ordered
<1>3. /\ Started(S) /\ LawfulLines(S) /\ Numbered(S, n) /\ S \in SUBSET Line
      BY <1>2, ReplayedIsLawful, LineTypes
<1>4. n \in Nat /\ n + 1 \in Nat /\ n + 2 \in Nat
      BY <1>2, LastIsLargest
<1>. HIDE DEF n, S
<1>5. /\ started \in Line /\ started.seq = n /\ started.kind = "RecoveryStarted"
      /\ completed \in Line /\ completed.seq = n + 1
      /\ completed.kind = "RecoveryCompleted"
  <2>1. "RecoveryStarted" \in Kinds /\ "RecoveryCompleted" \in Kinds
        BY DEF Kinds, SyncKinds
  <2>. QED  BY <1>4, <2>1, EventLine
<1>. HIDE DEF started, completed
<1>6. LinesOf(m) = M
  <2>1. m \in Seq(Line) /\ DOMAIN m = 1 .. 2 /\ m[1] = started /\ m[2] = completed
        BY <1>5
  <2>. HIDE DEF m
  <2>. QED  BY <2>1 DEF LinesOf
<1>7. /\ \A e \in M : n <= e.seq /\ e.seq < n + 2 /\ e.kind \in MarkerKinds
      /\ \A e, f \in M : e.seq = f.seq => e = f
      /\ M \in SUBSET Line /\ n <= n + 2
      BY <1>4, <1>5 DEF MarkerKinds
<1>. HIDE DEF M, m
<1>8. Started(S \cup M) /\ LawfulLines(S \cup M) /\ Numbered(S \cup M, n + 2)
      BY <1>3, <1>4, <1>7, MarkersAreLawful
<1>. QED  BY <1>1, <1>6, <1>8 DEF Lawful

LEMMA LawfulStep ==
    ASSUME TInv, Ordered, OfficialsHeld, Lawful, [Next]_vars
    PROVE  Lawful'
<1>1. CASE BeginSession  BY <1>1, BeginLawful
<1>2. CASE \E k \in Submitted : Submit(k)  BY <1>2, SubmitLawful
<1>3. CASE PumpRetryQueue  BY <1>3, PumpLawful
<1>4. CASE CloseSession \/ Discard
  <2>1. phase' \in {"closed", "discarded"}
        BY <1>4 DEF CloseSession, Discard
  <2>. QED  BY <2>1 DEF Lawful
<1>5. CASE Crash  BY <1>5, CrashLawful
<1>6. CASE ResumeSession  BY <1>6, ResumeLawful
<1>7. CASE UNCHANGED vars
      BY <1>7 DEF vars, Lawful
<1>. QED  BY <1>1, <1>2, <1>3, <1>4, <1>5, <1>6, <1>7 DEF Next

\* Every event was legal where it stands: the journal of a crash that has no
\* gap replays, and what a session reduced in memory is lawful in itself.
THEOREM HistoryIsLawful == Spec => []Lawful
<1>1. TInv /\ Ordered /\ OfficialsHeld /\ Lawful /\ [Next]_vars => Lawful'
      BY LawfulStep
<1>. QED  BY <1>1, InitLawful, Invariant, ScoresHeld, PTL DEF Spec

LEMMA DenseResumes ==
    ASSUME TInv, Ordered, Balanced, Lawful
    PROVE  DenseJournalResumes
<1>. SUFFICES ASSUME phase = "down", journal # <<>>, Gapped(journal) = {}
              PROVE  Resumable(journal, torn) /\ Replays(journal)
     BY DEF DenseJournalResumes
<1>1. /\ journal \in Seq(Line) /\ Ascending(journal)
      /\ SeqsOf(journal) \cap Declared(journal) = {} /\ DropsAreOlder(LinesOf(journal))
      BY DEF TInv, TypeOK, Ordered, Balanced
<1>2. Declared(journal) = {}
  <2>1. Declared(journal) \subseteq 0 .. LastSeq(journal)
        BY <1>1, DropsBelowLast
  <2>. QED  BY <1>1, <2>1 DEF Gapped
<1>3. Resumable(journal, torn)
      BY <1>1, <1>2 DEF Resumable, RecoveryClass, Reconciled
<1>. QED  BY <1>3 DEF Lawful

\* Whatever a crash cuts off, a journal without gaps is classified Clean or
\* Recoverable, and the reducer accepts all of it again.
THEOREM DenseJournalsResume == Spec => []DenseJournalResumes
<1>1. TInv /\ Ordered /\ Balanced /\ Lawful => DenseJournalResumes
      BY DenseResumes
<1>. QED  BY <1>1, Invariant, AccountsBalance, HistoryIsLawful, PTL
=============================================================================
