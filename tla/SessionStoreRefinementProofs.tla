-------------------- MODULE SessionStoreRefinementProofs --------------------
(***************************************************************************)
(* SessionStore implements ScoreLog, step by step: begin, submit, pump,    *)
(* close, crash and resume are each a step of the abstract log or leave it *)
(* alone.  What a stop forgets is the part of the file that was cut off    *)
(* and the queue, and both hold only later shots, by the order of the      *)
(* journal and the queue that SessionStoreProofs establishes.              *)
(***************************************************************************)
EXTENDS SessionStoreRefinement, SessionStoreProofs

\* The three variables of the log as the mapping reads them.
Live == phase = "active"
Known == IF phase = "active" THEN ShotSeqs(ram) ELSE ShotSeqs(LinesOf(journal))
Kept == ShotSeqs(Safe(journal, synced))
-----------------------------------------------------------------------------
(* Numbers of shots.                                                       *)

LEMMA ShotsOfTwo ==
    ASSUME NEW S, NEW T
    PROVE  ShotSeqs(S \cup T) = ShotSeqs(S) \cup ShotSeqs(T)
BY DEF ShotSeqs

LEMMA FewerShots ==
    ASSUME NEW S, NEW T, S \subseteq T
    PROVE  ShotSeqs(S) \subseteq ShotSeqs(T)
BY DEF ShotSeqs

LEMMA NoShots ==
    ASSUME NEW S, \A e \in S : e.kind # "ShotAccepted"
    PROVE  ShotSeqs(S) = {}
BY DEF ShotSeqs

LEMMA FreshHasNoShots ==
    ASSUME NEW s, NEW n, Fresh(s, n)
    PROVE  ShotSeqs(LinesOf(s)) = {}
BY NoShots DEF Fresh, ScoreKinds

\* Between two sets that hold the same official events nothing is known in
\* one that is not in the other.
LEMMA SameShots ==
    ASSUME NEW S, NEW T, Scores(S) \subseteq T, T \subseteq S
    PROVE  ShotSeqs(S) = ShotSeqs(T)
BY DEF ShotSeqs, Scores, ScoreKinds

LEMMA SafeLines ==
    ASSUME NEW file \in Seq(Line), NEW n \in 0 .. Len(file)
    PROVE  Safe(file, n) = {file[i] : i \in 1 .. n}
<1>1. 1 \in 1 .. Len(file) + 1
      OBVIOUS
<1>. QED  BY <1>1, PartOfLines DEF Safe

\* The first lines of an ordered file hold its oldest shots, and whatever
\* waits behind the file is later still.
LEMMA FirstLinesAreOldest ==
    ASSUME NEW file \in Seq(Line), Ascending(file), NEW n \in 0 .. Len(file),
           NEW rest \in Seq(Line), Before(file, rest)
    PROVE  Log!IsOlderPart(ShotSeqs(Safe(file, n)),
                           ShotSeqs(LinesOf(file) \cup LinesOf(rest)))
<1>. DEFINE all == LinesOf(file) \cup LinesOf(rest)
<1>1. Len(file) \in Nat /\ DOMAIN file = 1 .. Len(file)
      BY LineTypes
<1>2. Safe(file, n) = {file[i] : i \in 1 .. n} /\ LinesOf(file) = {file[i] : i \in 1 .. Len(file)}
      BY <1>1, SafeLines DEF LinesOf
<1>3. ASSUME NEW e \in Safe(file, n), NEW f \in all, f \notin Safe(file, n)
      PROVE  e.seq < f.seq
  <2>1. PICK i \in 1 .. n : e = file[i]
        BY <1>2
  <2>2. CASE f \in LinesOf(file)
    <3>1. PICK j \in 1 .. Len(file) : f = file[j]
          BY <1>2, <2>2
    <3>2. i < j /\ i \in DOMAIN file /\ j \in DOMAIN file
          BY <1>1, <1>2, <1>3, <2>1, <3>1
    <3>. QED  BY <2>1, <3>1, <3>2 DEF Ascending
  <2>3. CASE f \in LinesOf(rest)
    <3>1. e \in LinesOf(file)
          BY <1>1, <1>2, <2>1
    <3>. QED  BY <2>3, <3>1 DEF Before
  <2>. QED  BY <2>2, <2>3
<1>4. Safe(file, n) \subseteq all
      BY <1>1, <1>2
<1>5. ShotSeqs(Safe(file, n)) \subseteq ShotSeqs(all)
      BY <1>4, FewerShots
<1>6. ASSUME NEW s \in ShotSeqs(Safe(file, n)),
             NEW t \in ShotSeqs(all) \ ShotSeqs(Safe(file, n))
      PROVE  s < t
  <2>1. PICK e \in Safe(file, n) : e.kind = "ShotAccepted" /\ s = e.seq
        BY DEF ShotSeqs
  <2>2. PICK f \in all : f.kind = "ShotAccepted" /\ t = f.seq
        BY DEF ShotSeqs
  <2>3. f \notin Safe(file, n)
        BY <1>6, <2>2 DEF ShotSeqs
  <2>. QED  BY <1>3, <2>1, <2>2, <2>3
<1>. QED  BY <1>5, <1>6 DEF Log!IsOlderPart

LEMMA SafeIsInFile ==
    ASSUME NEW file \in Seq(Line), NEW n \in 0 .. Len(file)
    PROVE  /\ Safe(file, n) \subseteq LinesOf(file)
           /\ n = Len(file) => Safe(file, n) = LinesOf(file)
<1>1. Len(file) \in Nat /\ DOMAIN file = 1 .. Len(file)
      BY LineTypes
<1>2. Safe(file, n) = {file[i] : i \in 1 .. n} /\ LinesOf(file) = {file[i] : i \in 1 .. Len(file)}
      BY <1>1, SafeLines DEF LinesOf
<1>3. \A i \in 1 .. n : i \in 1 .. Len(file)
      BY <1>1
<1>. QED  BY <1>2, <1>3

\* The same with nothing behind the file.
LEMMA FirstLinesOfFile ==
    ASSUME NEW file \in Seq(Line), Ascending(file), NEW n \in 0 .. Len(file)
    PROVE  Log!IsOlderPart(ShotSeqs(Safe(file, n)), ShotSeqs(LinesOf(file)))
<1>1. <<>> \in Seq(Line) /\ LinesOf(<<>>) = {} /\ Before(file, <<>>)
      BY EmptyLines DEF Before
<1>2. LinesOf(file) \cup LinesOf(<<>>) = LinesOf(file)
      BY <1>1
<1>. QED  BY <1>1, <1>2, FirstLinesAreOldest
-----------------------------------------------------------------------------
(* What the store knows while it runs, and where it is.                    *)

RInv == TInv /\ Ordered /\ OfficialsHeld

LEMMA KnownIsHeld ==
    ASSUME RInv, phase = "active"
    PROVE  ShotSeqs(ram) = ShotSeqs(LinesOf(journal) \cup LinesOf(queue))
BY SameShots DEF RInv, OfficialsHeld

LEMMA FileFacts ==
    ASSUME RInv
    PROVE  /\ journal \in Seq(Line) /\ Len(journal) \in Nat
           /\ synced \in 0 .. Len(journal) /\ Ascending(journal)
           /\ queue \in Seq(Line) /\ nextSeq \in Nat
BY DEF RInv, TInv, TypeOK, Ordered

\* A file that grew by lines of which none is a shot, and was synced at most
\* to its end: what is safe grew, and is the oldest part of what is known.
LEMMA AdditionsSecure ==
    ASSUME RInv, NEW s \in Seq(Line), NEW n \in synced .. Len(journal \o s),
           NEW rest \in Seq(Line), Ascending(journal \o s), Before(journal \o s, rest)
    PROVE  /\ Kept \subseteq ShotSeqs(Safe(journal \o s, n))
           /\ Log!IsOlderPart(ShotSeqs(Safe(journal \o s, n)),
                              ShotSeqs(LinesOf(journal \o s) \cup LinesOf(rest)))
<1>1. Safe(journal, synced) \subseteq Safe(journal \o s, n)
      BY SafeGrows DEF RInv
<1>2. journal \o s \in Seq(Line) /\ n \in 0 .. Len(journal \o s)
      BY FileFacts, ConcatLines
<1>. QED  BY <1>1, <1>2, FewerShots, FirstLinesAreOldest DEF Kept

LEMMA BeginMaps ==
    ASSUME RInv, BeginSession
    PROVE  [Log!Next]_(Log!logVars)
<1>. DEFINE header == Event(0, "SessionStarted", {})
<1>1. /\ phase = "idle" /\ journal = <<>> /\ synced = 0
      BY EmptyLines DEF RInv, BeginSession, TInv, TypeOK
<1>2. \/ /\ phase' = "active" /\ journal' = <<header>> /\ synced' = 1 /\ ram' = {header}
      \/ /\ phase' = "down" /\ journal' \in {<<>>, <<header>>} /\ synced' = 0
      BY <1>1 DEF BeginSession
<1>3. header \in Line /\ header.kind = "SessionStarted"
      BY HeaderLine DEF Event
<1>. HIDE DEF header
<1>4. /\ LinesOf(<<header>>) = {header} /\ LinesOf(<<>>) = {}
      /\ <<header>> \in Seq(Line) /\ <<>> \in Seq(Line)
      /\ Len(<<header>>) = 1 /\ Len(<<>>) = 0
      BY <1>3, OneLine, EmptyLines
<1>5. ShotSeqs({header}) = {} /\ ShotSeqs({}) = {}
      BY <1>3 DEF ShotSeqs
<1>6. /\ Safe(<<>>, 0) = {} /\ Safe(<<header>>, 0) \subseteq {header}
      /\ Safe(<<header>>, 1) \subseteq {header}
  <2>1. 0 \in 0 .. Len(<<>>) /\ 0 \in 0 .. Len(<<header>>) /\ 1 \in 0 .. Len(<<header>>)
        BY <1>4
  <2>2. Safe(<<>>, 0) \subseteq {}
        BY <1>4, <2>1, SafeIsInFile
  <2>. QED  BY <1>4, <2>1, <2>2, SafeIsInFile
<1>7. /\ ShotSeqs(Safe(<<>>, 0)) = {} /\ ShotSeqs(Safe(<<header>>, 0)) = {}
      /\ ShotSeqs(Safe(<<header>>, 1)) = {}
      BY <1>5, <1>6, FewerShots
<1>8. Known = {} /\ Kept = {}
      BY <1>1, <1>4, <1>5, <1>7 DEF Known, Kept
<1>9. Known' = {} /\ Kept' = {}
  <2>1. CASE phase' = "active"
    <3>1. ram' = {header} /\ journal' = <<header>> /\ synced' = 1
          BY <1>2, <2>1
    <3>2. Known' = ShotSeqs(ram') /\ Kept' = ShotSeqs(Safe(journal', synced'))
          BY <2>1 DEF Known, Kept, ShotSeqs, Safe, LinesOf
    <3>. QED  BY <1>5, <1>7, <3>1, <3>2
  <2>2. CASE phase' # "active"
    <3>1. journal' \in {<<>>, <<header>>} /\ synced' = 0
          BY <1>2, <2>2
    <3>2. Known' = ShotSeqs(LinesOf(journal')) /\ Kept' = ShotSeqs(Safe(journal', synced'))
          BY <2>2 DEF Known, Kept, ShotSeqs, Safe, LinesOf
    <3>. QED  BY <1>4, <1>5, <1>7, <3>1, <3>2
  <2>. QED  BY <2>1, <2>2
<1>. QED  BY <1>1, <1>2, <1>8, <1>9
          DEF Known, Kept, Safe, Log!Next, Log!Begin, Log!logVars

\* In a running session the mapping reads the reduced state and the file.
LEMMA RunningMap ==
    ASSUME phase = "active", phase' = "active"
    PROVE  /\ Known = ShotSeqs(ram) /\ Known' = ShotSeqs(ram')
           /\ Kept = ShotSeqs(Safe(journal, synced))
           /\ Kept' = ShotSeqs(Safe(journal', synced'))
BY DEF Known, Kept, ShotSeqs, Safe, LinesOf

\* What submit may do to what is known and what is safe.
LEMMA SubmitMaps ==
    ASSUME RInv, NEW k \in Submitted, Submit(k)
    PROVE  [Log!Next]_(Log!logVars)
<1>. DEFINE item == Event(nextSeq, k, {})
            marker == Event(nextSeq + 1, "PersistenceDegraded", {})
            grown == journal \o <<item>>
<1>1. phase = "active" /\ phase' = "active"
      BY DEF Submit, SubmitBehindQueue, SubmitDurable, SubmitUnsynced,
             SubmitPoisoned, SubmitFailed, Reduce
<1>2. /\ item \in Line /\ item.seq = nextSeq /\ item.kind = k
      /\ marker.kind = "PersistenceDegraded"
      BY FileFacts, SubmittedKinds, EventLine DEF Event
<1>3. \/ ram' = ram \cup {item}
      \/ ram' = ram \cup {item} \cup {marker}
      BY DEF Submit, SubmitBehindQueue, SubmitDurable, SubmitUnsynced,
             SubmitPoisoned, SubmitFailed, item, marker
<1>4. \/ UNCHANGED <<journal, synced>>
      \/ /\ journal' = Append(journal, item) /\ synced' = synced
      \/ /\ journal' = Append(journal, item) /\ synced' = Len(journal) + 1
         /\ queue = <<>> /\ ram' = ram \cup {item}
      BY DEF Submit, SubmitBehindQueue, SubmitDurable, SubmitUnsynced,
             SubmitPoisoned, SubmitFailed, item
<1>. HIDE DEF item, marker
<1>5. /\ <<item>> \in Seq(Line) /\ Append(journal, item) = grown
      /\ grown \in Seq(Line) /\ Len(grown) = Len(journal) + 1
      /\ LinesOf(grown) = LinesOf(journal) \cup {item}
  <2>1. Append(journal, item) = grown
        BY <1>2, FileFacts, AppendIsConcat
  <2>. HIDE DEF grown
  <2>. QED  BY <1>2, <2>1, FileFacts, AppendLines, OneLine
<1>6. Known' = Known \cup ShotSeqs({item})
  <2>1. ShotSeqs({marker}) = {}
        BY <1>2, NoShots
  <2>2. /\ ShotSeqs(ram \cup {item}) = ShotSeqs(ram) \cup ShotSeqs({item})
        /\ ShotSeqs((ram \cup {item}) \cup {marker})
              = ShotSeqs(ram \cup {item}) \cup ShotSeqs({marker})
        BY ShotsOfTwo
  <2>3. Known = ShotSeqs(ram) /\ Known' = ShotSeqs(ram')
        BY <1>1, RunningMap
  <2>4. ShotSeqs(ram') = ShotSeqs(ram) \cup ShotSeqs({item})
        BY <1>3, <2>1, <2>2
  <2>. QED  BY <2>3, <2>4
<1>7. \/ Kept' = Kept
      \/ Kept' = Known'
  <2>1. CASE UNCHANGED <<journal, synced>>
        BY <1>1, <2>1, RunningMap
  <2>2. CASE journal' = Append(journal, item) /\ synced' = synced
    <3>1. Safe(grown, synced) = Safe(journal, synced)
      <4>1. \A i \in 1 .. synced : grown[i] = journal[i]
            BY <1>5, FileFacts, ConcatProperties
      <4>2. synced \in 0 .. Len(grown)
            BY <1>5, FileFacts
      <4>. HIDE DEF grown
      <4>3. /\ Safe(grown, synced) = {grown[i] : i \in 1 .. synced}
            /\ Safe(journal, synced) = {journal[i] : i \in 1 .. synced}
            BY <1>5, <4>2, FileFacts, SafeLines
      <4>. QED  BY <4>1, <4>3
    <3>. QED  BY <1>1, <1>5, <2>2, <3>1, RunningMap
  <2>3. CASE /\ journal' = Append(journal, item) /\ synced' = Len(journal) + 1
             /\ queue = <<>> /\ ram' = ram \cup {item}
    <3>1. Safe(grown, Len(grown)) = LinesOf(journal) \cup {item}
      <4>. HIDE DEF grown
      <4>1. Len(grown) \in 0 .. Len(grown)
            BY <1>5, FileFacts
      <4>. QED  BY <1>5, <4>1, SafeIsInFile
    <3>2. Kept' = ShotSeqs(LinesOf(journal) \cup {item})
          BY <1>1, <1>5, <2>3, <3>1, RunningMap
    <3>3. ShotSeqs(ram) = ShotSeqs(LinesOf(journal))
      <4>1. LinesOf(journal) \cup LinesOf(queue) = LinesOf(journal)
            BY <2>3, EmptyLines
      <4>. QED  BY <1>1, <4>1, KnownIsHeld
    <3>4. Known' = ShotSeqs(ram \cup {item})
          BY <1>1, <2>3, RunningMap
    <3>5. /\ ShotSeqs(ram \cup {item}) = ShotSeqs(ram) \cup ShotSeqs({item})
          /\ ShotSeqs(LinesOf(journal) \cup {item})
                = ShotSeqs(LinesOf(journal)) \cup ShotSeqs({item})
          BY ShotsOfTwo
    <3>. QED  BY <3>2, <3>3, <3>4, <3>5
  <2>. QED  BY <1>4, <2>1, <2>2, <2>3
<1>8. \A n \in Known : n < nextSeq
  <2>1. Known = ShotSeqs(LinesOf(journal) \cup LinesOf(queue))
        BY <1>1, KnownIsHeld, RunningMap
  <2>2. \A e \in LinesOf(journal) \cup LinesOf(queue) : e.seq < nextSeq
        BY <1>1 DEF RInv, Ordered, Below
  <2>. QED  BY <2>1, <2>2 DEF ShotSeqs
<1>9. CASE k = "ShotAccepted"
  <2>1. ShotSeqs({item}) = {nextSeq}
        BY <1>2, <1>9 DEF ShotSeqs
  <2>2. \E n \in Known' : (\A s \in Known : s < n) /\ Known' = Known \cup {n}
        BY <1>6, <1>8, <2>1
  <2>. QED  BY <1>1, <1>7, <2>2 DEF Known, Kept, Safe, Log!Next, Log!Score
<1>10. CASE k # "ShotAccepted"
  <2>1. Known' = Known
        BY <1>2, <1>6, <1>10, NoShots
  <2>2. CASE Kept' = Kept
        BY <1>1, <2>1, <2>2 DEF Known, Kept, Safe, Log!logVars
  <2>3. CASE Kept' = Known'
    <3>1. Kept \subseteq Known
      <4>1. Kept \subseteq ShotSeqs(LinesOf(journal))
            BY FileFacts, SafeIsInFile, FewerShots DEF Kept
      <4>2. ShotSeqs(LinesOf(journal)) \subseteq Known
            BY <1>1, KnownIsHeld, RunningMap, ShotsOfTwo
      <4>. QED  BY <4>1, <4>2
    <3>2. Log!IsOlderPart(Kept', Known)
          BY <2>1, <2>3 DEF Log!IsOlderPart
    <3>. QED  BY <1>1, <2>1, <2>3, <3>1, <3>2
              DEF Known, Kept, Safe, Log!Next, Log!Secure
  <2>. QED  BY <1>7, <2>2, <2>3
<1>. QED  BY <1>9, <1>10

LEMMA PumpMaps ==
    ASSUME RInv, PumpRetryQueue
    PROVE  [Log!Next]_(Log!logVars)
<1>1. PICK p \in PumpOutcomes :
         /\ journal' = journal \o p.sent /\ queue' = p.kept
         /\ synced' \in SyncedIn(journal') /\ ram' = ram \cup LinesOf(p.markers)
      BY DEF PumpRetryQueue
<1>2. phase = "active" /\ phase' = "active"
      BY DEF PumpRetryQueue
<1>3. /\ p.sent \in Seq(Line) /\ p.kept \in Seq(Line) /\ Fresh(p.markers, nextSeq)
      BY PumpLeaves DEF RInv, TInv, TypeOK
<1>4. Ascending(journal \o p.sent) /\ Before(journal \o p.sent, p.kept)
      BY <1>2, PumpLeavesOrder DEF RInv
<1>5. synced' \in synced .. Len(journal \o p.sent)
      BY <1>1, <1>3, FileGrows DEF RInv
<1>6. /\ Kept \subseteq ShotSeqs(Safe(journal \o p.sent, synced'))
      /\ Log!IsOlderPart(ShotSeqs(Safe(journal \o p.sent, synced')),
                         ShotSeqs(LinesOf(journal \o p.sent) \cup LinesOf(p.kept)))
      BY <1>3, <1>4, <1>5, AdditionsSecure
<1>7. Known' = ShotSeqs(LinesOf(journal \o p.sent) \cup LinesOf(p.kept))
  <2>1. OfficialsHeld'
        BY PumpHolds DEF RInv
  <2>. DEFINE held == LinesOf(journal \o p.sent) \cup LinesOf(p.kept)
  <2>2. Scores(ram') \subseteq held /\ held \subseteq ram'
        BY <1>1, <1>2, <2>1 DEF OfficialsHeld, Scores
  <2>. HIDE DEF held
  <2>3. ShotSeqs(ram') = ShotSeqs(held)
        BY <2>2, SameShots
  <2>. QED  BY <1>2, <2>3, RunningMap DEF held
<1>8. Known' = Known
  <2>1. ShotSeqs(LinesOf(p.markers)) = {}
        BY <1>3, FreshHasNoShots
  <2>2. ShotSeqs(ram \cup LinesOf(p.markers)) = ShotSeqs(ram) \cup ShotSeqs(LinesOf(p.markers))
        BY ShotsOfTwo
  <2>. QED  BY <1>1, <1>2, <2>1, <2>2, RunningMap
<1>9. Kept' = ShotSeqs(Safe(journal \o p.sent, synced'))
      BY <1>1, <1>2, RunningMap
<1>10. Kept \subseteq Kept' /\ Log!IsOlderPart(Kept', Known)
      BY <1>6, <1>7, <1>8, <1>9
<1>. QED  BY <1>2, <1>8, <1>10 DEF Known, Kept, Safe, Log!Next, Log!Secure

LEMMA CrashMaps ==
    ASSUME RInv, Crash
    PROVE  [Log!Next]_(Log!logVars)
<1>1. PICK n \in synced .. Len(journal) : journal' = SubSeq(journal, 1, n)
      BY DEF Crash
<1>2. phase = "active" /\ phase' = "down" /\ synced' = synced
      BY DEF Crash
<1>3. n \in 0 .. Len(journal) /\ 1 \in 1 .. Len(journal) + 1
      BY <1>1, FileFacts
<1>4. /\ journal' \in Seq(Line) /\ Len(journal') = n /\ Ascending(journal')
      /\ LinesOf(journal') = Safe(journal, n)
      BY <1>1, <1>3, FileFacts, PartOfLines DEF Safe
<1>5. Safe(journal', synced) = Safe(journal, synced)
  <2>1. \A i \in 1 .. n : journal'[i] = journal[i]
        BY <1>1, <1>3, FileFacts, SubSeqProperties
  <2>2. synced \in 0 .. Len(journal') /\ \A i \in 1 .. synced : i \in 1 .. n
        BY <1>1, <1>3, <1>4, FileFacts
  <2>3. /\ Safe(journal', synced) = {journal'[i] : i \in 1 .. synced}
        /\ Safe(journal, synced) = {journal[i] : i \in 1 .. synced}
        BY <1>4, <2>2, FileFacts, SafeLines
  <2>. QED  BY <2>1, <2>2, <2>3
<1>6. /\ Known = ShotSeqs(LinesOf(journal) \cup LinesOf(queue))
      /\ Known' = ShotSeqs(Safe(journal, n))
  <2>1. Known = ShotSeqs(ram) /\ Known' = ShotSeqs(LinesOf(journal'))
        BY <1>2 DEF Known, ShotSeqs, LinesOf
  <2>. QED  BY <1>2, <1>4, <2>1, KnownIsHeld
<1>7. Kept' = Kept /\ Kept = ShotSeqs(Safe(journal', synced))
      BY <1>2, <1>5 DEF Kept, ShotSeqs, Safe, LinesOf
<1>8. Log!IsOlderPart(Known', Known)
  <2>1. queue \in Seq(Line) /\ Before(journal, queue)
        BY <1>2, FileFacts DEF RInv, Ordered
  <2>. QED  BY <1>3, <1>6, <2>1, FileFacts, FirstLinesAreOldest
<1>9. Log!IsOlderPart(Kept', Known')
  <2>1. synced \in 0 .. Len(journal')
        BY <1>1, <1>3, <1>4, FileFacts
  <2>2. Log!IsOlderPart(ShotSeqs(Safe(journal', synced)), ShotSeqs(LinesOf(journal')))
        BY <1>4, <2>1, FirstLinesOfFile
  <2>. QED  BY <1>4, <1>6, <1>7, <2>2
<1>10. Kept \subseteq Kept' /\ Kept' \subseteq Known'
      BY <1>7, <1>9 DEF Log!IsOlderPart
<1>11. (phase' = "active") = FALSE
      BY <1>2
<1>. QED  BY <1>2, <1>8, <1>9, <1>10, <1>11 DEF Known, Kept, Safe, Log!Next, Log!Stop

LEMMA ResumeMaps ==
    ASSUME RInv, ResumeSession
    PROVE  [Log!Next]_(Log!logVars)
<1>1. Ascending(journal)
      BY FileFacts
<1>2. PICK m, w :
         /\ w.lines \in Seq(Line) /\ LinesOf(w.lines) \subseteq LinesOf(m)
         /\ m \in Seq(Line) /\ Fresh(m, LastSeq(journal) + 1)
         /\ journal' = journal \o w.lines /\ synced' \in SyncedIn(journal')
         /\ ram' = LinesOf(journal) \cup LinesOf(m)
      BY <1>1, ResumeLeaves DEF RInv
<1>3. phase = "down" /\ phase' = "active"
      BY DEF ResumeSession
<1>4. Ascending(journal \o w.lines)
  <2>1. Ordered'
        BY ResumeOrder DEF RInv
  <2>. QED  BY <1>2, <2>1 DEF Ordered, Ascending
<1>5. synced' \in synced .. Len(journal \o w.lines)
      BY <1>2, FileGrows DEF RInv
<1>6. /\ Kept \subseteq ShotSeqs(Safe(journal \o w.lines, synced'))
      /\ Log!IsOlderPart(ShotSeqs(Safe(journal \o w.lines, synced')),
                         ShotSeqs(LinesOf(journal \o w.lines) \cup LinesOf(<<>>)))
  <2>1. <<>> \in Seq(Line) /\ Before(journal \o w.lines, <<>>)
        BY EmptyLines DEF Before
  <2>. QED  BY <1>2, <1>4, <1>5, <2>1, AdditionsSecure
<1>7. ShotSeqs(LinesOf(m)) = {} /\ ShotSeqs(LinesOf(w.lines)) = {}
  <2>1. ShotSeqs(LinesOf(m)) = {}
        BY <1>2, FreshHasNoShots
  <2>. QED  BY <1>2, <2>1, FewerShots
<1>8. LinesOf(journal \o w.lines) \cup LinesOf(<<>>) = LinesOf(journal) \cup LinesOf(w.lines)
      BY <1>2, FileFacts, ConcatLines, EmptyLines
<1>9. /\ ShotSeqs(LinesOf(journal) \cup LinesOf(w.lines))
            = ShotSeqs(LinesOf(journal)) \cup ShotSeqs(LinesOf(w.lines))
      /\ ShotSeqs(LinesOf(journal) \cup LinesOf(m))
            = ShotSeqs(LinesOf(journal)) \cup ShotSeqs(LinesOf(m))
      BY ShotsOfTwo
<1>10. Known = ShotSeqs(LinesOf(journal)) /\ Known' = ShotSeqs(ram')
      BY <1>3 DEF Known, ShotSeqs
<1>11. /\ Known' = Known
       /\ Known = ShotSeqs(LinesOf(journal \o w.lines) \cup LinesOf(<<>>))
      BY <1>2, <1>7, <1>8, <1>9, <1>10
<1>12. Kept' = ShotSeqs(Safe(journal \o w.lines, synced'))
      BY <1>2 DEF Kept, ShotSeqs, Safe, LinesOf
<1>13. Kept \subseteq Kept' /\ Log!IsOlderPart(Kept', Known)
      BY <1>6, <1>11, <1>12
<1>. QED  BY <1>3, <1>11, <1>13 DEF Known, Kept, Safe, Log!Next, Log!Restart

LEMMA CloseMaps ==
    ASSUME RInv, CloseSession
    PROVE  [Log!Next]_(Log!logVars)
<1>. DEFINE closing(n) == <<Event(n, "SessionClosed", {}), Event(n + 1, "CleanShutdown", {})>>
<1>1. PICK p \in PumpOutcomes :
         \E w \in IF poisoned \/ p.torn THEN NoWrites
                  ELSE Writes(closing(nextSeq + Len(p.markers))) :
            journal' = journal \o p.sent \o w.lines /\ synced' \in SyncedIn(journal')
      BY DEF CloseSession
<1>. DEFINE n == nextSeq + Len(p.markers)
            c == closing(n)
            j == journal \o p.sent
<1>2. PICK w \in IF poisoned \/ p.torn THEN NoWrites ELSE Writes(c) :
            journal' = j \o w.lines /\ synced' \in SyncedIn(journal')
      BY <1>1
<1>3. phase = "active" /\ phase' = "closed"
      BY DEF CloseSession
<1>4. /\ p.sent \in Seq(Line) /\ p.kept \in Seq(Line) /\ Len(p.markers) \in Nat
      /\ LinesOf(queue) \subseteq LinesOf(p.sent) \cup LinesOf(p.kept)
      /\ LinesOf(p.sent) \subseteq LinesOf(queue) \cup LinesOf(p.markers)
      /\ LinesOf(p.kept) \subseteq LinesOf(queue)
      /\ Fresh(p.markers, nextSeq)
      BY PumpLeaves DEF RInv, TInv, TypeOK
<1>5. /\ j \in Seq(Line) /\ Ascending(j) /\ Before(j, p.kept)
      /\ LinesOf(j) = LinesOf(journal) \cup LinesOf(p.sent)
      BY <1>3, <1>4, FileFacts, PumpLeavesOrder, ConcatLines DEF RInv
<1>6. n \in Nat /\ n + 1 \in Nat
      BY <1>4, FileFacts
<1>. HIDE DEF n
<1>7. /\ w.lines \in Seq(Line)
      /\ \A e \in LinesOf(w.lines) : e.kind # "ShotAccepted"
  <2>1. CASE w \in NoWrites
    <3>1. w.lines = <<>>
          BY <2>1 DEF NoWrites
    <3>. QED  BY <3>1, EmptyLines
  <2>2. CASE w \in Writes(c)
    <3>. DEFINE a == Event(n, "SessionClosed", {})
                b == Event(n + 1, "CleanShutdown", {})
    <3>1. "SessionClosed" \in Kinds /\ "CleanShutdown" \in Kinds
          BY DEF Kinds, SyncKinds
    <3>2. /\ a \in Line /\ a.kind = "SessionClosed"
          /\ b \in Line /\ b.kind = "CleanShutdown"
          BY <1>6, <3>1, EventLine
    <3>3. c = <<a, b>>
          OBVIOUS
    <3>. HIDE DEF a, b, c
    <3>4. c \in Seq(Line) /\ DOMAIN c = 1 .. 2 /\ c[1] = a /\ c[2] = b
          BY <3>2, <3>3
    <3>5. LinesOf(c) = {a, b}
          BY <3>4 DEF LinesOf
    <3>6. w.lines \in Seq(Line) /\ LinesOf(w.lines) \subseteq LinesOf(c)
          BY <2>2, <3>4, WrittenLines
    <3>. QED  BY <3>2, <3>5, <3>6
  <2>. QED  BY <1>2, <2>1, <2>2
<1>. HIDE DEF c, closing, j
<1>8. /\ LinesOf(journal') = LinesOf(j) \cup LinesOf(w.lines)
      /\ journal' \in Seq(Line)
      BY <1>2, <1>5, <1>7, ConcatLines
<1>9. Known' = ShotSeqs(LinesOf(j))
  <2>1. Known' = ShotSeqs(LinesOf(journal'))
        BY <1>3 DEF Known, ShotSeqs, LinesOf
  <2>2. ShotSeqs(LinesOf(w.lines)) = {}
        BY <1>7, NoShots
  <2>3. ShotSeqs(LinesOf(j) \cup LinesOf(w.lines))
           = ShotSeqs(LinesOf(j)) \cup ShotSeqs(LinesOf(w.lines))
        BY ShotsOfTwo
  <2>. QED  BY <1>8, <2>1, <2>2, <2>3
<1>10. Known = ShotSeqs(LinesOf(j) \cup LinesOf(p.kept))
  <2>. DEFINE all == LinesOf(journal) \cup LinesOf(queue)
              now == LinesOf(j) \cup LinesOf(p.kept)
              more == LinesOf(p.markers)
  <2>1. Known = ShotSeqs(all)
        BY <1>3, KnownIsHeld DEF Known
  <2>2. all \subseteq now /\ now \subseteq all \cup more
        BY <1>4, <1>5
  <2>3. ShotSeqs(more) = {}
        BY <1>4, FreshHasNoShots
  <2>. HIDE DEF all, now, more
  <2>4. ShotSeqs(all) \subseteq ShotSeqs(now) /\ ShotSeqs(now) \subseteq ShotSeqs(all \cup more)
        BY <2>2, FewerShots
  <2>5. ShotSeqs(all \cup more) = ShotSeqs(all) \cup ShotSeqs(more)
        BY ShotsOfTwo
  <2>. QED  BY <2>1, <2>3, <2>4, <2>5 DEF now
<1>11. Log!IsOlderPart(Known', Known)
  <2>1. Len(j) \in 0 .. Len(j)
        BY <1>5
  <2>2. Safe(j, Len(j)) = LinesOf(j)
        BY <1>5, <2>1, SafeIsInFile
  <2>. QED  BY <1>4, <1>5, <1>9, <1>10, <2>1, <2>2, FirstLinesAreOldest
<1>12. PICK s \in Seq(Line) : journal' = journal \o s /\ synced' \in SyncedIn(journal')
      BY CloseAppends DEF RInv
<1>13. synced' \in synced .. Len(journal') /\ synced' \in 0 .. Len(journal')
      BY <1>12, FileGrows DEF RInv
<1>14. Kept' = ShotSeqs(Safe(journal', synced'))
      BY DEF Kept, ShotSeqs, Safe, LinesOf
<1>15. Kept \subseteq Kept'
  <2>1. Safe(journal, synced) \subseteq Safe(journal', synced')
        BY <1>12, <1>13, SafeGrows DEF RInv
  <2>. QED  BY <1>14, <2>1, FewerShots DEF Kept
<1>16. Log!IsOlderPart(Kept', Known')
  <2>1. Ascending(journal')
    <3>1. Ordered'
          BY CloseOrder DEF RInv
    <3>. QED  BY <3>1 DEF Ordered, Ascending
  <2>2. Log!IsOlderPart(ShotSeqs(Safe(journal', synced')), ShotSeqs(LinesOf(journal')))
        BY <1>8, <1>13, <2>1, FirstLinesOfFile
  <2>3. Known' = ShotSeqs(LinesOf(journal'))
        BY <1>3 DEF Known, ShotSeqs, LinesOf
  <2>. QED  BY <1>14, <2>2, <2>3
<1>17. Kept' \subseteq Known'
      BY <1>16 DEF Log!IsOlderPart
<1>18. (phase' = "active") = FALSE
      BY <1>3
<1>. QED  BY <1>3, <1>11, <1>15, <1>16, <1>17, <1>18
          DEF Known, Kept, Safe, Log!Next, Log!Stop

LEMMA StillMaps ==
    ASSUME Discard \/ UNCHANGED vars
    PROVE  UNCHANGED Log!logVars
<1>1. /\ journal' = journal /\ synced' = synced /\ ram' = ram
      /\ phase = "active" <=> phase' = "active"
      BY DEF Discard, vars
<1>. QED  BY <1>1 DEF Log!logVars, ShotSeqs, LinesOf

LEMMA LogInit == Init => Log!Init
<1>. SUFFICES ASSUME Init PROVE Log!Init
     OBVIOUS
<1>1. phase = "idle" /\ journal = <<>> /\ synced = 0
      BY DEF Init
<1>2. LinesOf(<<>>) = {} /\ <<>> \in Seq(Line) /\ 0 \in 0 .. Len(<<>>)
      BY EmptyLines
<1>3. ShotSeqs(LinesOf(<<>>)) = {}
      BY <1>2, NoShots
<1>4. Safe(<<>>, 0) \subseteq LinesOf(<<>>)
      BY <1>2, SafeIsInFile
<1>5. ShotSeqs(Safe(<<>>, 0)) = {}
      BY <1>3, <1>4, FewerShots
<1>. QED  BY <1>1, <1>3, <1>5 DEF Log!Init, Safe

LEMMA LogStep ==
    ASSUME RInv, [Next]_vars
    PROVE  [Log!Next]_(Log!logVars)
<1>1. CASE BeginSession  BY <1>1, BeginMaps
<1>2. CASE \E k \in Submitted : Submit(k)  BY <1>2, SubmitMaps
<1>3. CASE PumpRetryQueue  BY <1>3, PumpMaps
<1>4. CASE CloseSession  BY <1>4, CloseMaps
<1>5. CASE Crash  BY <1>5, CrashMaps
<1>6. CASE ResumeSession  BY <1>6, ResumeMaps
<1>7. CASE Discard \/ UNCHANGED vars  BY <1>7, StillMaps
<1>. QED  BY <1>1, <1>2, <1>3, <1>4, <1>5, <1>6, <1>7 DEF Next

\* The store implements the abstract log of shots: a live session accepts the
\* next shot whatever storage does and forgets none, and a stop or a crash
\* takes away only the latest shots, and none that was safe.
THEOREM StoreImplementsLog == Spec => ImplementsScoreLog
<1>1. Init => Log!Init
      BY LogInit
<1>2. RInv /\ [Next]_vars => [Log!Next]_(Log!logVars)
      BY LogStep
<1>3. Spec => []RInv
      BY Invariant, ScoresHeld, PTL DEF RInv
<1>. QED  BY <1>1, <1>2, <1>3, PTL DEF Spec, ImplementsScoreLog, Log!Spec
=============================================================================
