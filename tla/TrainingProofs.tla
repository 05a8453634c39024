--------------------------- MODULE TrainingProofs ---------------------------
(***************************************************************************)
(* What the proofs about the Training Lab share, and the two programmes    *)
(* whose shots are a list: Wind Map and Call & Diagnose.  Each programme   *)
(* has an inductive invariant that says where its controller stands with   *)
(* respect to the journal, which is what a resume gives back.              *)
(***************************************************************************)
EXTENDS Courses, FiniteSets, FiniteSetTheorems, SequenceTheorems,
        WellFoundedInduction, TLAPS

\* What is common to the programmes.
Winds == Conditions \cup {"noReading"}
CommonType ==
    /\ up \in {"none", "live", "down"} /\ fired \in Nat
    /\ hist \in [cut : BOOLEAN, resumes : Nat, told : Winds]

\* The external ids of a journal are those of shots the page has numbered, and
\* a running controller has seen all of them.
IdsSeen(ids) ==
    /\ ids \in SUBSET (1 .. fired)
    /\ up = "live" => ctl.last \in 0 .. fired /\ \A x \in ids : x <= ctl.last

\* The last id that the controller accepted is the last in the journal.
LastIsRecorded(ids) == ctl.last \in ids \cup {0}

\* A handler that submits what leaves the journal as r runs to its end, or
\* dies after an event that leaves it so.
Goes(h, c, r) == ctl' = c /\ up' = "live" /\ hist' = h /\ rec' = r
Dies(h, r) ==
    ctl' = ctl /\ up' = "down" /\ hist' = [h EXCEPT !.cut = TRUE] /\ rec' = r

FreshHist == [cut |-> FALSE, resumes |-> 0, told |-> "noReading"]
-----------------------------------------------------------------------------
(* Numbers and finite sets.                                                *)

LEMMA LeastOf ==
    ASSUME NEW T \in SUBSET Nat, T # {}
    PROVE  \E x \in T : \A y \in T : x <= y
<1>1. PICK x \in T : \A y \in T : ~ (<<y, x>> \in OpToRel(<, Nat))
      BY NatLessThanWellFounded, WFMin
<1>2. \A y \in T : ~ (y < x)
      BY <1>1 DEF OpToRel
<1>. QED  BY <1>2

\* Ids that the page has numbered have a greatest one.
LEMMA GreatestOf ==
    ASSUME NEW n \in Nat, NEW T \in SUBSET (1 .. n)
    PROVE  \E x \in T \cup {0} : \A y \in T \cup {0} : y <= x
<1>. DEFINE above == {k \in Nat : \A y \in T \cup {0} : y <= k}
<1>1. n \in above
      OBVIOUS
<1>2. PICK x \in above : \A k \in above : x <= k
      BY <1>1, LeastOf
<1>3. ASSUME x \notin T \cup {0}
      PROVE  FALSE
  <2>1. x \in Nat /\ x # 0 /\ \A y \in T \cup {0} : y \in Nat /\ y <= x /\ y # x
        BY <1>2, <1>3
  <2>2. x - 1 \in above
        BY <2>1
  <2>. QED  BY <1>2, <2>1, <2>2
<1>. QED  BY <1>2, <1>3

LEMMA GreatestIs ==
    ASSUME NEW T \in SUBSET Nat, NEW m \in T, \A y \in T : y <= m
    PROVE  (CHOOSE x \in T : \A y \in T : x >= y) = m
<1>1. \E x \in T : \A y \in T : x >= y
      OBVIOUS
<1>2. \A x \in T : (\A y \in T : x >= y) => x = m
      OBVIOUS
<1>. QED  BY <1>1, <1>2

LEMMA LeastIs ==
    ASSUME NEW T \in SUBSET Nat, NEW m \in T, \A y \in T : m <= y
    PROVE  (CHOOSE x \in T : \A y \in T : x =< y) = m
<1>1. \E x \in T : \A y \in T : x =< y
      OBVIOUS
<1>2. \A x \in T : (\A y \in T : x =< y) => x = m
      OBVIOUS
<1>. QED  BY <1>1, <1>2

\* The greatest of the ids in a journal, or 0.
Greatest(ids) == CHOOSE x \in ids \cup {0} : \A y \in ids \cup {0} : x >= y

LEMMA GreatestId ==
    ASSUME NEW n \in Nat, NEW T \in SUBSET (1 .. n)
    PROVE  /\ Greatest(T) \in T \cup {0} /\ Greatest(T) \in Nat
           /\ \A x \in T : x <= Greatest(T)
<1>1. PICK x \in T \cup {0} : \A y \in T \cup {0} : y <= x
      BY GreatestOf
<1>2. T \cup {0} \in SUBSET Nat
      OBVIOUS
<1>3. (CHOOSE z \in T \cup {0} : \A y \in T \cup {0} : z >= y) = x
      BY <1>1, <1>2, GreatestIs
<1>4. Greatest(T) = x
      BY <1>3 DEF Greatest
<1>. QED  BY <1>1, <1>2, <1>4

\* A controller that has recorded every shot it accepted has accepted the
\* shots up to the greatest id of its journal.
LEMMA LastIsGreatest ==
    ASSUME CommonType, NEW ids, IdsSeen(ids), LastIsRecorded(ids), up = "live"
    PROVE  ctl.last = Greatest(ids)
<1>1. /\ ids \in SUBSET (1 .. fired) /\ fired \in Nat /\ ctl.last \in 0 .. fired
      /\ \A x \in ids : x <= ctl.last
      /\ ctl.last \in ids \cup {0}
      BY DEF CommonType, IdsSeen, LastIsRecorded
<1>2. ids \cup {0} \in SUBSET Nat /\ \A y \in ids \cup {0} : y <= ctl.last
      BY <1>1
<1>3. (CHOOSE z \in ids \cup {0} : \A y \in ids \cup {0} : z >= y) = ctl.last
      BY <1>1, <1>2, GreatestIs
<1>. QED  BY <1>3 DEF Greatest

\* A resume that goes on from the greatest id has seen all of them.
LEMMA ResumeSees ==
    ASSUME CommonType, NEW ids, IdsSeen(ids), up' = "live",
           fired' = Greatest(ids), ctl'.last = Greatest(ids),
           hist' = [hist EXCEPT !.resumes = @ + 1], NEW seen, seen = ids
    PROVE  /\ CommonType' /\ Greatest(ids) \in Nat
           /\ seen \in SUBSET (1 .. fired') /\ ctl'.last \in 0 .. fired'
           /\ \A x \in seen : x <= ctl'.last
           /\ ctl'.last \in seen \cup {0}
<1>1. ids \in SUBSET (1 .. fired) /\ fired \in Nat
      BY DEF CommonType, IdsSeen
<1>2. /\ Greatest(ids) \in ids \cup {0} /\ Greatest(ids) \in Nat
      /\ \A x \in ids : x <= Greatest(ids)
      BY <1>1, GreatestId
<1>3. CommonType'
      BY <1>2 DEF CommonType
<1>. QED  BY <1>1, <1>2, <1>3
-----------------------------------------------------------------------------
(* Wind Map.                                                               *)

\* The operators of the library, under the names that the instance has.
LEMMA WindLibrary ==
    /\ \A S : Lab!WM!Cardinality(S) = Cardinality(S)
    /\ \A S : Lab!WM!MaxId(S) = Greatest(S)
<1>1. \A S : Lab!WM!Cardinality(S) = Cardinality(S)
      BY DEF Lab!WM!Cardinality, Cardinality
<1>2. \A S : Lab!WM!MaxId(S) = Greatest(S)
      BY DEF Lab!WM!MaxId, Lab!WM!Max, Greatest
<1>. QED  BY <1>1, <1>2

LEMMA WindSubmits ==
    ASSUME NEW h, NEW c, NEW a, NEW b
    PROVE  /\ Lab!WM!SubmitsFrom(h, c, <<>>) => Goes(h, c, rec)
           /\ Lab!WM!SubmitsFrom(h, c, <<a>>) => Goes(h, c, a)
           /\ Lab!WM!SubmitsFrom(h, c, <<a, b>>) => Goes(h, c, b) \/ Dies(h, a)
<1>1. Lab!WM!SubmitsFrom(h, c, <<>>) => Goes(h, c, rec)
      BY DEF Lab!WM!SubmitsFrom, Goes
<1>2. Lab!WM!SubmitsFrom(h, c, <<a>>) => Goes(h, c, a)
      BY DEF Lab!WM!SubmitsFrom, Lab!WM!Last, Goes
<1>3. Lab!WM!SubmitsFrom(h, c, <<a, b>>) => Goes(h, c, b) \/ Dies(h, a)
      BY DEF Lab!WM!SubmitsFrom, Lab!WM!Last, Goes, Dies
<1>. QED  BY <1>1, <1>2, <1>3

WindShot == [n : Nat, id : Nat, pos : 0 .. 3, sighter : BOOLEAN, wind : Winds]
WindCtl == [phase : 0 .. 6, wind : Winds, last : Nat, sighters : BOOLEAN]
WindRec == [on : BOOLEAN, done : BOOLEAN, threeP : BOOLEAN, pos : 0 .. 3,
            phase : 0 .. 6, wind : Winds, nextId : Nat, shots : SUBSET WindShot]
WindType == ctl \in WindCtl /\ rec \in WindRec /\ IsFiniteSet(rec.shots)
WindNumbers ==
    /\ Cardinality(Lab!WM!RecordedIds) = Cardinality(rec.shots)
    /\ {s.n : s \in rec.shots} = 1 .. Cardinality(rec.shots)
    /\ rec.nextId = Cardinality(rec.shots) + 1
WindInv ==
    /\ CommonType /\ WindType /\ WindNumbers /\ IdsSeen(Lab!WM!RecordedIds)
    /\ up = "live" => LastIsRecorded(Lab!WM!RecordedIds)

LEMMA WindFields ==
    ASSUME WindInv
    PROVE  /\ fired \in Nat /\ fired + 1 \in Nat /\ IsFiniteSet(rec.shots)
           /\ rec.shots \in SUBSET WindShot /\ rec.pos \in 0 .. 3 /\ rec.nextId \in Nat
           /\ rec.phase \in 0 .. 6 /\ rec.wind \in Winds
           /\ ctl.wind \in Winds /\ ctl.phase \in 0 .. 6
BY DEF WindInv, CommonType, WindType, WindCtl, WindRec

\* A journal with no shots, at the start of a session or without one.
LEMMA WindStart ==
    ASSUME CommonType', ctl' \in WindCtl, rec' \in WindRec, rec'.shots = {},
           rec'.nextId = 1, fired' = 0, up' = "live" => ctl'.last = 0
    PROVE  WindInv'
<1>1. Lab!WM!RecordedIds' = {}
      BY DEF Lab!WM!RecordedIds
<1>2. IsFiniteSet({}) /\ Cardinality({}) = 0
      BY FS_EmptySet
<1>3. WindType'
      BY <1>2 DEF WindType
<1>4. WindNumbers'
      BY <1>1, <1>2 DEF WindNumbers
<1>5. IdsSeen(Lab!WM!RecordedIds)' /\ (up' = "live" => LastIsRecorded(Lab!WM!RecordedIds)')
      BY <1>1 DEF IdsSeen, LastIsRecorded
<1>. QED  BY <1>3, <1>4, <1>5 DEF WindInv

\* A handler that records no shot.
LEMMA WindKeeps ==
    ASSUME WindInv, CommonType', ctl' \in WindCtl, rec' \in WindRec,
           rec'.shots = rec.shots, rec'.nextId = rec.nextId, fired' \in {fired, fired + 1},
           up' = "live" => up = "live" /\ ctl'.last = ctl.last
    PROVE  WindInv'
<1>1. Lab!WM!RecordedIds' = Lab!WM!RecordedIds
      BY DEF Lab!WM!RecordedIds
<1>2. WindType' /\ WindNumbers'
      BY <1>1 DEF WindInv, WindType, WindNumbers
<1>3. fired \in Nat /\ fired' \in Nat
      BY DEF WindInv, CommonType
<1>4. IdsSeen(Lab!WM!RecordedIds)' /\ (up' = "live" => LastIsRecorded(Lab!WM!RecordedIds)')
      BY <1>1, <1>3 DEF WindInv, IdsSeen, LastIsRecorded
<1>. QED  BY <1>2, <1>4 DEF WindInv

LEMMA WindRecords ==
    ASSUME WindInv, up = "live", fired' = fired + 1,
           NEW s \in WindShot, s.n = rec.nextId, s.id = fired + 1,
           Goes(hist, [ctl EXCEPT !.last = fired + 1],
                [rec EXCEPT !.shots = @ \cup {s}, !.nextId = s.n + 1])
    PROVE  WindInv'
<1>. DEFINE ids == Lab!WM!RecordedIds
            n == Cardinality(rec.shots)
<1>1. /\ ctl \in WindCtl /\ rec \in WindRec /\ IsFiniteSet(rec.shots) /\ fired \in Nat
      /\ Cardinality(ids) = n /\ {x.n : x \in rec.shots} = 1 .. n
      /\ rec.nextId = n + 1 /\ ids \in SUBSET (1 .. fired)
      BY DEF WindInv, CommonType, WindType, WindNumbers, IdsSeen
<1>2. /\ ctl' = [ctl EXCEPT !.last = fired + 1] /\ up' = "live" /\ hist' = hist
      /\ rec' = [rec EXCEPT !.shots = @ \cup {s}, !.nextId = s.n + 1]
      BY DEF Goes
<1>3. /\ ctl' \in WindCtl /\ ctl'.last = fired + 1 /\ rec' \in WindRec
      /\ rec'.shots = rec.shots \cup {s} /\ rec'.nextId = n + 2
  <2>1. n \in Nat
        BY <1>1, FS_CardinalityType
  <2>a. s.n + 1 = n + 2 /\ n + 2 \in Nat
        BY <1>1, <2>1
  <2>b. rec.shots \cup {s} \in SUBSET WindShot
        BY <1>1 DEF WindRec
  <2>2. rec' = [rec EXCEPT !.shots = @ \cup {s}, !.nextId = n + 2]
        BY <1>2, <2>a
  <2>3. rec' \in WindRec /\ rec'.shots = rec.shots \cup {s} /\ rec'.nextId = n + 2
        BY <1>1, <2>2, <2>a, <2>b DEF WindRec
  <2>4. ctl' \in WindCtl /\ ctl'.last = fired + 1
        BY <1>1, <1>2 DEF WindCtl
  <2>. QED  BY <2>3, <2>4
<1>4. ids' = ids \cup {fired + 1}
      BY <1>3 DEF Lab!WM!RecordedIds
<1>5. fired + 1 \notin ids /\ s \notin rec.shots
  <2>1. fired + 1 \notin ids
        BY <1>1
  <2>. QED  BY <2>1 DEF Lab!WM!RecordedIds
<1>6. /\ IsFiniteSet(rec.shots \cup {s}) /\ n \in Nat
      /\ Cardinality(rec.shots \cup {s}) = n + 1
      BY <1>1, <1>5, FS_AddElement, FS_CardinalityType
<1>7. Cardinality(ids \cup {fired + 1}) = n + 1
  <2>1. IsFiniteSet(1 .. fired)
        BY <1>1, 1 \in Int, fired \in Int, FS_Interval
  <2>2. IsFiniteSet(ids)
        BY <1>1, <2>1, FS_Subset
  <2>3. Cardinality(ids) = n /\ fired + 1 \notin ids
        BY <1>1, <1>5
  <2>. HIDE DEF ids, n
  <2>. QED  BY <2>2, <2>3, FS_AddElement
<1>8. {x.n : x \in rec.shots \cup {s}} = 1 .. n + 1
  <2>1. {x.n : x \in rec.shots \cup {s}} = {x.n : x \in rec.shots} \cup {n + 1}
        BY <1>1
  <2>. QED  BY <1>1, <1>6, <2>1
<1>. HIDE DEF ids, n
<1>9. WindType'
      BY <1>3, <1>6 DEF WindType
<1>10. WindNumbers'
  <2>1. Cardinality(ids') = n + 1 /\ Cardinality(rec'.shots) = n + 1
        BY <1>3, <1>4, <1>6, <1>7
  <2>2. {x.n : x \in rec'.shots} = 1 .. n + 1 /\ rec'.nextId = (n + 1) + 1
        BY <1>3, <1>6, <1>8
  <2>. QED  BY <2>1, <2>2 DEF WindNumbers, ids
<1>11. IdsSeen(ids)' /\ LastIsRecorded(ids)'
      BY <1>1, <1>2, <1>3, <1>4 DEF IdsSeen, LastIsRecorded
<1>12. CommonType'
      BY <1>1, <1>2 DEF WindInv, CommonType
<1>. QED  BY <1>9, <1>10, <1>11, <1>12 DEF WindInv, ids

LEMMA WindStep ==
    ASSUME WindInv, [Lab!WM!Next]_labVars
    PROVE  WindInv'
<1>. USE DEF Lab!WM!Setup, Lab!WM!Sighters, Lab!WM!CountedShots, Lab!WM!PositionReview,
             Lab!WM!SessionReview, Lab!WM!Completed
<1>1. /\ CommonType /\ ctl \in WindCtl /\ rec \in WindRec /\ IsFiniteSet(rec.shots)
      /\ "noReading" \in Winds
      BY DEF WindInv, WindType, Winds
<1>2. CASE Lab!WM!StartWindMap
  <2>1. PICK c \in WindCtl, r \in WindRec :
           /\ c.last = 0 /\ r.shots = {} /\ r.nextId = 1
           /\ Lab!WM!SubmitsFrom(FreshHist, c, <<Lab!WM!NoRec, r>>) /\ fired' = 0
    <3>1. PICK threeP, sighters \in BOOLEAN :
             Lab!WM!Starts([Lab!WM!Idle EXCEPT !.phase = 1, !.sighters = sighters],
                           <<Lab!WM!NoRec, Lab!WM!WindMapSessionStarted(Lab!WM!NoRec, threeP)>>)
          BY <1>2 DEF Lab!WM!StartWindMap
    <3>a. /\ 0 \in Nat /\ 1 \in Nat /\ 0 \in 0 .. 6 /\ 1 \in 0 .. 6
          /\ 0 \in 0 .. 3 /\ 1 \in 0 .. 3
          OBVIOUS
    <3>2. [Lab!WM!Idle EXCEPT !.phase = 1, !.sighters = sighters] \in WindCtl
          BY <1>1, <3>a, Zenon DEF Lab!WM!Idle, WindCtl
    <3>b. Lab!WM!NoRec \in WindRec
      <4>1. {} \in SUBSET WindShot
            OBVIOUS
      <4>. QED  BY <1>1, <3>a, <4>1, Zenon DEF Lab!WM!NoRec, WindRec
    <3>3. Lab!WM!WindMapSessionStarted(Lab!WM!NoRec, threeP) \in WindRec
      <4>1. \A r \in WindRec, p \in 0 .. 3 :
               [r EXCEPT !.on = TRUE, !.threeP = threeP, !.pos = p, !.phase = 1] \in WindRec
            BY <3>a, Zenon DEF WindRec
      <4>. QED  BY <3>a, <3>b, <4>1 DEF Lab!WM!WindMapSessionStarted
    <3>. DEFINE c == [Lab!WM!Idle EXCEPT !.phase = 1, !.sighters = sighters]
                r == Lab!WM!WindMapSessionStarted(Lab!WM!NoRec, threeP)
    <3>4. c.last = 0
          BY DEF Lab!WM!Idle
    <3>5. r.shots = {} /\ r.nextId = 1
          BY DEF Lab!WM!NoRec, Lab!WM!WindMapSessionStarted
    <3>6. Lab!WM!SubmitsFrom(FreshHist, c, <<Lab!WM!NoRec, r>>) /\ fired' = 0
          BY <3>1 DEF Lab!WM!Starts, Lab!WM!NewHist, FreshHist
    <3>. HIDE DEF c, r
    <3>7. c \in WindCtl /\ r \in WindRec
          BY <3>2, <3>3 DEF c, r
    <3>. QED  BY <3>4, <3>5, <3>6, <3>7
  <2>2. Goes(FreshHist, c, r) \/ Dies(FreshHist, Lab!WM!NoRec)
        BY <2>1, WindSubmits
  <2>3. Lab!WM!NoRec \in WindRec /\ Lab!WM!NoRec.shots = {} /\ Lab!WM!NoRec.nextId = 1
        BY <1>1 DEF Lab!WM!NoRec, WindRec
  <2>4. CommonType'
    <3>1. /\ FreshHist \in [cut : BOOLEAN, resumes : Nat, told : Winds]
          /\ [FreshHist EXCEPT !.cut = TRUE] \in [cut : BOOLEAN, resumes : Nat, told : Winds]
          BY <1>1 DEF FreshHist
    <3>. QED  BY <2>1, <2>2, <3>1 DEF CommonType, Goes, Dies
  <2>. QED  BY <1>1, <2>1, <2>2, <2>3, <2>4, WindStart DEF Goes, Dies
<1>3. CASE Lab!WM!ApplyCondition
  <2>1. PICK w \in Winds :
           /\ up = "live" /\ fired' = fired
           /\ Goes([hist EXCEPT !.told = w], [ctl EXCEPT !.wind = w],
                   Lab!WM!WindConditionChanged(rec, w))
        BY <1>3, WindSubmits DEF Lab!WM!ApplyCondition, Winds
  <2>2. CommonType' /\ ctl' \in WindCtl /\ ctl'.last = ctl.last
        BY <1>1, <2>1 DEF CommonType, Goes, WindCtl
  <2>3. rec' \in WindRec /\ rec'.shots = rec.shots /\ rec'.nextId = rec.nextId
        BY <1>1, <2>1 DEF Goes, WindRec, Lab!WM!WindConditionChanged
  <2>. QED  BY <2>1, <2>2, <2>3, WindKeeps
<1>4. CASE Lab!WM!GoToPhase
  <2>1. PICK to \in 2 .. 5 :
           /\ up = "live" /\ fired' = fired
           /\ Goes(hist, [ctl EXCEPT !.phase = to],
                   Lab!WM!WindMapPhaseChanged(rec, ctl.phase, to))
        BY <1>4, WindSubmits DEF Lab!WM!GoToPhase, Lab!WM!Does, Lab!WM!Submits
  <2>2. CommonType' /\ ctl' \in WindCtl /\ ctl'.last = ctl.last
        BY <1>1, <2>1 DEF CommonType, Goes, WindCtl
  <2>3. rec' \in WindRec /\ rec'.shots = rec.shots /\ rec'.nextId = rec.nextId
        BY <1>1, <2>1 DEF Goes, WindRec, Lab!WM!WindMapPhaseChanged
  <2>. QED  BY <2>1, <2>2, <2>3, WindKeeps
<1>5. CASE Lab!WM!ChangePosition
  <2>1. PICK to \in {1, 2, 3} :
           /\ up = "live" /\ fired' = fired
           /\ Goes(hist, ctl, Lab!WM!WindMapPositionChanged(rec, to))
        BY <1>5, WindSubmits DEF Lab!WM!ChangePosition, Lab!WM!Does, Lab!WM!Submits
  <2>2. CommonType' /\ ctl' \in WindCtl /\ ctl'.last = ctl.last
        BY <1>1, <2>1 DEF CommonType, Goes
  <2>3. rec' \in WindRec /\ rec'.shots = rec.shots /\ rec'.nextId = rec.nextId
    <3>1. to \in 0 .. 3
          OBVIOUS
    <3>2. rec' = [rec EXCEPT !.pos = to]
          BY <2>1 DEF Goes, Lab!WM!WindMapPositionChanged
    <3>. QED  BY <1>1, <3>1, <3>2 DEF WindRec
  <2>. QED  BY <2>1, <2>2, <2>3, WindKeeps
<1>6. CASE Lab!WM!RegisterShot
  <2>1. up = "live" /\ fired' = fired + 1
        BY <1>6 DEF Lab!WM!RegisterShot, Lab!WM!Detected
  <2>2. CASE Lab!WM!AcceptShot(fired + 1)
    <3>. DEFINE s == [n |-> rec.nextId, id |-> fired + 1, pos |-> rec.pos,
                      sighter |-> ctl.phase = 2, wind |-> ctl.wind]
    <3>1. Goes(hist, [ctl EXCEPT !.last = fired + 1],
               [rec EXCEPT !.shots = @ \cup {s}, !.nextId = s.n + 1])
          BY <2>2, WindSubmits
             DEF Lab!WM!AcceptShot, Lab!WM!Submits, Lab!WM!WindMapAccepted
    <3>2. s \in WindShot /\ s.n = rec.nextId /\ s.id = fired + 1
          BY WindFields DEF WindShot
    <3>. HIDE DEF s
    <3>. QED  BY <2>1, <3>1, <3>2, WindRecords
  <2>3. CASE Lab!WM!RefuseShot(fired + 1)
    <3>1. Goes(hist, ctl, rec)
          BY <2>3, WindSubmits DEF Lab!WM!RefuseShot, Lab!WM!Submits
    <3>2. CommonType'
          BY <1>1, <2>1, <3>1 DEF CommonType, Goes
    <3>. QED  BY <1>1, <2>1, <3>1, <3>2, WindKeeps DEF Goes
  <2>. QED  BY <1>6, <2>2, <2>3 DEF Lab!WM!RegisterShot
<1>7. CASE Lab!WM!CompleteSession
  <2>1. /\ up = "live" /\ fired' = fired
        /\ Goes(hist, [ctl EXCEPT !.phase = 6], Lab!WM!WindMapSessionCompleted(rec))
        BY <1>7, WindSubmits DEF Lab!WM!CompleteSession, Lab!WM!Does, Lab!WM!Submits
  <2>2. CommonType' /\ ctl' \in WindCtl /\ ctl'.last = ctl.last
        BY <1>1, <2>1 DEF CommonType, Goes, WindCtl
  <2>3. rec' \in WindRec /\ rec'.shots = rec.shots /\ rec'.nextId = rec.nextId
    <3>1. rec' = [rec EXCEPT !.done = TRUE, !.phase = 6]
          BY <2>1 DEF Goes, Lab!WM!WindMapSessionCompleted
    <3>2. rec' \in WindRec
      <4>1. 6 \in 0 .. 6
            OBVIOUS
      <4>. QED  BY <1>1, <3>1, <4>1, Zenon DEF WindRec
    <3>. QED  BY <1>1, <3>1, <3>2 DEF WindRec
  <2>. QED  BY <2>1, <2>2, <2>3, WindKeeps
<1>8. CASE Lab!WM!CloseSessionCleanly
  <2>1. /\ up' = "none" /\ rec' = Lab!WM!NoRec /\ ctl' = Lab!WM!Idle /\ fired' = 0
        /\ hist' = FreshHist
        BY <1>8 DEF Lab!WM!CloseSessionCleanly, Lab!WM!Closes, Lab!WM!NewHist, FreshHist
  <2>2. /\ rec' \in WindRec /\ rec'.shots = {} /\ rec'.nextId = 1
        /\ ctl' \in WindCtl /\ CommonType'
        BY <1>1, <2>1 DEF Lab!WM!NoRec, Lab!WM!Idle, WindRec, WindCtl, CommonType, FreshHist
  <2>. QED  BY <2>1, <2>2, WindStart
<1>9. CASE Lab!WM!Resume
  <2>. DEFINE ids == Lab!WM!RecordedIds
  <2>1. /\ up' = "live" /\ rec' = rec /\ hist' = [hist EXCEPT !.resumes = @ + 1]
        /\ ctl' = [Lab!WM!Recovered(rec) EXCEPT !.last = Greatest(ids)]
        /\ fired' = Greatest(ids)
        BY <1>9, WindLibrary DEF Lab!WM!Resume, Lab!WM!Resumes, Lab!WM!NumbersOn
  <2>2. IdsSeen(ids)
        BY DEF WindInv
  <2>3. ids' = ids
        BY <2>1 DEF Lab!WM!RecordedIds
  <2>. HIDE DEF ids
  <2>4. Lab!WM!Recovered(rec) \in WindCtl
        BY <1>1 DEF Lab!WM!Recovered, Lab!WM!Idle, WindCtl, WindRec
  <2>5. ctl'.last = Greatest(ids)
        BY <2>1, <2>4 DEF WindCtl
  <2>6. /\ CommonType' /\ Greatest(ids) \in Nat
        /\ IdsSeen(ids)' /\ LastIsRecorded(ids)'
        BY <1>1, <2>1, <2>2, <2>3, <2>5, ResumeSees DEF IdsSeen, LastIsRecorded
  <2>7. ctl' \in WindCtl
        BY <2>1, <2>4, <2>6 DEF WindCtl
  <2>8. WindType' /\ WindNumbers'
        BY <1>1, <2>1, <2>3, <2>7 DEF WindInv, WindType, WindNumbers, ids
  <2>. QED  BY <2>6, <2>8 DEF WindInv, ids
<1>10. CASE Lab!WM!Crash
  <2>1. /\ up' = "down" /\ UNCHANGED <<ctl, rec, fired, hist>>
        BY <1>10 DEF Lab!WM!Crash
  <2>2. CommonType'
        BY <1>1, <2>1 DEF CommonType
  <2>. QED  BY <1>1, <2>1, <2>2, WindKeeps
<1>11. CASE UNCHANGED labVars
  <2>1. UNCHANGED <<up, ctl, rec, fired, hist>>
        BY <1>11 DEF labVars
  <2>2. CommonType'
        BY <1>1, <2>1 DEF CommonType
  <2>. QED  BY <1>1, <2>1, <2>2, WindKeeps
<1>. QED  BY <1>2, <1>3, <1>4, <1>5, <1>6, <1>7, <1>8, <1>9, <1>10, <1>11 DEF Lab!WM!Next

LEMMA WindInvImplies ==
    ASSUME WindInv
    PROVE  Lab!WM!ShotsRecordedOnce /\ (up = "live" => ctl.last <= fired)
<1>1. up = "live" => ctl.last = Lab!WM!MaxId(Lab!WM!RecordedIds)
      BY LastIsGreatest, WindLibrary DEF WindInv
<1>2. /\ Cardinality(Lab!WM!RecordedIds) = Cardinality(rec.shots)
      /\ {s.n : s \in rec.shots} = 1 .. Cardinality(rec.shots)
      BY DEF WindInv, WindNumbers
<1>3. up = "live" => ctl.last <= fired
      BY DEF WindInv, CommonType, IdsSeen
<1>. QED  BY <1>1, <1>2, <1>3, WindLibrary DEF Lab!WM!ShotsRecordedOnce
-----------------------------------------------------------------------------
(* Call & Diagnose.                                                        *)

LEMMA CallsLibrary ==
    /\ \A S : Lab!CD!Cardinality(S) = Cardinality(S)
    /\ \A S : Lab!CD!MaxId(S) = Greatest(S)
    /\ \A S : Lab!CD!Max(S) = CHOOSE x \in S : \A y \in S : x >= y
    /\ \A S : Lab!CD!Min(S) = CHOOSE x \in S : \A y \in S : x =< y
<1>1. \A S : Lab!CD!Cardinality(S) = Cardinality(S)
      BY DEF Lab!CD!Cardinality, Cardinality
<1>2. \A S : Lab!CD!MaxId(S) = Greatest(S)
      BY DEF Lab!CD!MaxId, Lab!CD!Max, Greatest
<1>3. /\ \A S : Lab!CD!Max(S) = CHOOSE x \in S : \A y \in S : x >= y
      /\ \A S : Lab!CD!Min(S) = CHOOSE x \in S : \A y \in S : x =< y
      BY DEF Lab!CD!Max, Lab!CD!Min
<1>. QED  BY <1>1, <1>2, <1>3

LEMMA CallsSubmits ==
    ASSUME NEW h, NEW c, NEW a, NEW b
    PROVE  /\ Lab!CD!SubmitsFrom(h, c, <<>>) => Goes(h, c, rec)
           /\ Lab!CD!SubmitsFrom(h, c, <<a>>) => Goes(h, c, a)
           /\ Lab!CD!SubmitsFrom(h, c, <<a, b>>) => Goes(h, c, b) \/ Dies(h, a)
<1>1. Lab!CD!SubmitsFrom(h, c, <<>>) => Goes(h, c, rec)
      BY DEF Lab!CD!SubmitsFrom, Goes
<1>2. Lab!CD!SubmitsFrom(h, c, <<a>>) => Goes(h, c, a)
      BY DEF Lab!CD!SubmitsFrom, Lab!CD!Last, Goes
<1>3. Lab!CD!SubmitsFrom(h, c, <<a, b>>) => Goes(h, c, b) \/ Dies(h, a)
      BY DEF Lab!CD!SubmitsFrom, Lab!CD!Last, Goes, Dies
<1>. QED  BY <1>1, <1>2, <1>3

CallsShot == [pos : 0 .. 2, n : Nat, id : Nat, called : BOOLEAN, noted : BOOLEAN]
CallsCtl == [phase : 0 .. 5, pos : 0 .. 2, last : Nat, placed : BOOLEAN, shot : Nat]
CallsRec == [on : BOOLEAN, done : BOOLEAN, threeP : BOOLEAN, sighting : BOOLEAN,
             calling : BOOLEAN, pos : 0 .. 2, sighters : SUBSET Nat, shots : Seq(CallsShot)]
CallsType == ctl \in CallsCtl /\ rec \in CallsRec

\* The shots of a position, those of them with a call, those without one.
At(s, p) == {i \in DOMAIN s : s[i].pos = p}
CalledAt(s, p) == {i \in DOMAIN s : s[i].pos = p /\ s[i].called}
Waiting(s) == {i \in DOMAIN s : ~s[i].called}
IdsOf(s) == {s[i].id : i \in DOMAIN s}

\* Number n of a position is the n-th shot recorded in it.
Numbered(s) ==
    \A i \in DOMAIN s : s[i].n = Cardinality({j \in 1 .. i : s[j].pos = s[i].pos})
IdsDiffer(s, sighters) ==
    \A i \in DOMAIN s : s[i].id \notin sighters /\ \A j \in 1 .. i - 1 : s[j].id # s[i].id

\* Only the last shot may wait, and it is in the position last called in.
OnlyLastWaits ==
    \A i \in DOMAIN rec.shots :
        /\ i < Len(rec.shots) => rec.shots[i].called
        /\ rec.shots[i].pos <= rec.pos
        /\ ~rec.shots[i].called => rec.shots[i].pos = rec.pos

PositionsInOrder ==
    /\ \A q \in 0 .. 2 : q < rec.pos => Cardinality(CalledAt(rec.shots, q)) >= ShotCount
    /\ up = "live" =>
          \A q \in 0 .. 2 : q < ctl.pos => Cardinality(CalledAt(rec.shots, q)) >= ShotCount
    /\ \A i \in DOMAIN rec.shots : rec.shots[i].noted => rec.shots[i].called

\* A position that may still take a shot has room for it.
Quota ==
    /\ \A p \in 0 .. 2 : Cardinality(At(rec.shots, p)) <= ShotCount + hist.resumes
    /\ up = "live" /\ ctl.phase \in {1, 2} =>
          Cardinality(At(rec.shots, ctl.pos)) < ShotCount + hist.resumes

\* Where the controller stands with respect to the journal.
CallsPlace ==
    up = "live" =>
        /\ rec.pos <= ctl.pos
        /\ ctl.phase \in 2 .. 4 => ctl.pos = rec.pos
        /\ ctl.phase = 3 <=> Waiting(rec.shots) # {}
        /\ \A i \in Waiting(rec.shots) : rec.shots[i].n = ctl.shot

CallsInv ==
    /\ CommonType /\ CallsType
    /\ Numbered(rec.shots) /\ IdsDiffer(rec.shots, rec.sighters)
    /\ OnlyLastWaits /\ PositionsInOrder /\ Quota /\ CallsPlace
    /\ IdsSeen(rec.sighters \cup IdsOf(rec.shots))
    /\ up = "live" => LastIsRecorded(rec.sighters \cup IdsOf(rec.shots))

LEMMA CallsNumbers ==
    ShotCount \in Nat \ {0}
BY LabAssumption DEF Lab!TrainingAssumption, Lab!CD!CallsAssumption

LEMMA CountsAreNumbers ==
    ASSUME NEW s \in Seq(CallsShot), NEW p
    PROVE  /\ IsFiniteSet(At(s, p)) /\ IsFiniteSet(CalledAt(s, p))
           /\ Cardinality(At(s, p)) \in Nat /\ Cardinality(CalledAt(s, p)) \in Nat
           /\ Waiting(s) = {} => CalledAt(s, p) = At(s, p)
<1>1. Len(s) \in Nat /\ DOMAIN s = 1 .. Len(s)
      OBVIOUS
<1>2. IsFiniteSet(1 .. Len(s))
      BY <1>1, 1 \in Int, Len(s) \in Int, FS_Interval
<1>3. At(s, p) \in SUBSET (1 .. Len(s)) /\ CalledAt(s, p) \in SUBSET (1 .. Len(s))
      BY <1>1 DEF At, CalledAt
<1>4. IsFiniteSet(At(s, p)) /\ IsFiniteSet(CalledAt(s, p))
      BY <1>2, <1>3, FS_Subset
<1>5. Waiting(s) = {} => CalledAt(s, p) = At(s, p)
      BY DEF Waiting, CalledAt, At
<1>. QED  BY <1>4, <1>5, FS_CardinalityType

\* Calls and notes change neither numbers nor ids, and calls only add up.
LEMMA TouchedShots ==
    ASSUME NEW s \in Seq(CallsShot), NEW t \in Seq(CallsShot), DOMAIN t = DOMAIN s,
           \A i \in DOMAIN s : /\ t[i].pos = s[i].pos /\ t[i].n = s[i].n
                               /\ t[i].id = s[i].id /\ (s[i].called => t[i].called)
    PROVE  /\ Numbered(s) => Numbered(t)
           /\ \A S : IdsDiffer(s, S) => IdsDiffer(t, S)
           /\ IdsOf(t) = IdsOf(s)
           /\ \A p : At(t, p) = At(s, p)
           /\ \A p : Cardinality(CalledAt(s, p)) <= Cardinality(CalledAt(t, p))
<1>1. Len(s) \in Nat /\ DOMAIN s = 1 .. Len(s)
      OBVIOUS
<1>2. Numbered(s) => Numbered(t)
  <2>1. \A i \in DOMAIN s :
           {j \in 1 .. i : t[j].pos = t[i].pos} = {j \in 1 .. i : s[j].pos = s[i].pos}
        BY <1>1
  <2>. QED  BY <2>1 DEF Numbered
<1>3. \A S : IdsDiffer(s, S) => IdsDiffer(t, S)
      BY <1>1 DEF IdsDiffer
<1>4. IdsOf(t) = IdsOf(s)
      BY DEF IdsOf
<1>5. \A p : At(t, p) = At(s, p)
      BY DEF At
<1>6. ASSUME NEW p
      PROVE  Cardinality(CalledAt(s, p)) <= Cardinality(CalledAt(t, p))
  <2>1. CalledAt(s, p) \in SUBSET CalledAt(t, p)
        BY DEF CalledAt
  <2>. QED  BY <2>1, CountsAreNumbers, FS_Subset
<1>. QED  BY <1>2, <1>3, <1>4, <1>5, <1>6

\* t is s with one more shot e, which waits for its call.
GrownBy(s, e, S, t) ==
    /\ t \in Seq(CallsShot) /\ Len(t) = Len(s) + 1 /\ DOMAIN t = 1 .. Len(s) + 1
    /\ \A i \in DOMAIN s : t[i] = s[i]
    /\ t[Len(s) + 1] = e
    /\ Numbered(t) /\ IdsDiffer(t, S)
    /\ IdsOf(t) = IdsOf(s) \cup {e.id}
    /\ \A p : CalledAt(t, p) = CalledAt(s, p)
    /\ \A p : p # e.pos => At(t, p) = At(s, p)
    /\ Cardinality(At(t, e.pos)) = Cardinality(At(s, e.pos)) + 1
    /\ Waiting(t) = Waiting(s) \cup {Len(s) + 1}

\* So it is when the shot has the next number of its position and a new id.
LEMMA AppendedShot ==
    ASSUME NEW s \in Seq(CallsShot), NEW e \in CallsShot, ~e.called,
           NEW S, \A x \in S \cup IdsOf(s) : x < e.id,
           Numbered(s), IdsDiffer(s, S), e.n = Cardinality(At(s, e.pos)) + 1,
           NEW t, t = Append(s, e)
    PROVE  GrownBy(s, e, S, t)
<1>. DEFINE k == Len(s) + 1
<1>1. /\ Len(s) \in Nat /\ DOMAIN s = 1 .. Len(s)
      /\ t \in Seq(CallsShot) /\ Len(t) = k /\ DOMAIN t = 1 .. k
      /\ \A i \in 1 .. Len(s) : t[i] = s[i]
      /\ t[k] = e
      BY AppendProperties
<1>2. /\ DOMAIN t = DOMAIN s \cup {k} /\ k \notin DOMAIN s /\ k \in Nat
      /\ \A i \in DOMAIN s : t[i] = s[i]
      BY <1>1
<1>. HIDE DEF k
<1>3. At(t, e.pos) = At(s, e.pos) \cup {k} /\ k \notin At(s, e.pos)
      BY <1>1, <1>2 DEF At
<1>4. Cardinality(At(t, e.pos)) = Cardinality(At(s, e.pos)) + 1
      BY <1>3, CountsAreNumbers, FS_AddElement
<1>5. /\ \A p : CalledAt(t, p) = CalledAt(s, p)
      /\ \A p : p # e.pos => At(t, p) = At(s, p)
      /\ Waiting(t) = Waiting(s) \cup {k}
      /\ IdsOf(t) = IdsOf(s) \cup {e.id}
  <2>1. \A p : CalledAt(t, p) = CalledAt(s, p)
        BY <1>1, <1>2 DEF CalledAt
  <2>2. \A p : p # e.pos => At(t, p) = At(s, p)
        BY <1>1, <1>2 DEF At
  <2>3. Waiting(t) = Waiting(s) \cup {k}
        BY <1>1, <1>2 DEF Waiting
  <2>4. IdsOf(t) = IdsOf(s) \cup {e.id}
        BY <1>1, <1>2 DEF IdsOf
  <2>. QED  BY <2>1, <2>2, <2>3, <2>4
<1>6. Numbered(t)
  <2>1. ASSUME NEW i \in DOMAIN s
        PROVE  t[i].n = Cardinality({j \in 1 .. i : t[j].pos = t[i].pos})
    <3>1. {j \in 1 .. i : t[j].pos = t[i].pos} = {j \in 1 .. i : s[j].pos = s[i].pos}
          BY <1>1
    <3>. QED  BY <1>2, <3>1 DEF Numbered
  <2>2. t[k].n = Cardinality({j \in 1 .. k : t[j].pos = t[k].pos})
    <3>1. {j \in 1 .. k : t[j].pos = t[k].pos} = At(t, e.pos)
          BY <1>1 DEF At
    <3>. QED  BY <1>1, <1>4, <3>1
  <2>. QED  BY <1>2, <2>1, <2>2 DEF Numbered
<1>7. IdsDiffer(t, S)
  <2>1. e.id \notin S /\ \A j \in DOMAIN s : s[j].id # e.id
    <3>1. e.id \in Nat
          BY DEF CallsShot
    <3>. QED  BY <3>1 DEF IdsOf
  <2>2. ASSUME NEW i \in DOMAIN s
        PROVE  t[i].id \notin S /\ \A j \in 1 .. i - 1 : t[j].id # t[i].id
    <3>1. \A j \in 1 .. i - 1 : j \in DOMAIN s
          BY <1>1
    <3>. QED  BY <1>2, <3>1 DEF IdsDiffer
  <2>3. \A j \in 1 .. k - 1 : j \in DOMAIN s
        BY <1>1 DEF k
  <2>4. t[k].id \notin S /\ \A j \in 1 .. k - 1 : t[j].id # t[k].id
        BY <1>1, <1>2, <2>1, <2>3
  <2>. QED  BY <1>2, <2>2, <2>4 DEF IdsDiffer
<1>. QED  BY <1>1, <1>2, <1>4, <1>5, <1>6, <1>7 DEF k, GrownBy

\* Position and number tell a shot from all others.
LEMMA NumberTellsShot ==
    ASSUME NEW s \in Seq(CallsShot), Numbered(s), NEW i \in DOMAIN s, NEW j \in DOMAIN s,
           s[i].pos = s[j].pos, s[i].n = s[j].n
    PROVE  i = j
<1>1. ASSUME NEW a \in DOMAIN s, NEW b \in DOMAIN s, a < b, s[a].pos = s[b].pos
      PROVE  s[a].n < s[b].n
  <2>. DEFINE A == {l \in 1 .. a : s[l].pos = s[a].pos}
              B == {l \in 1 .. b : s[l].pos = s[b].pos}
  <2>1. Len(s) \in Nat /\ DOMAIN s = 1 .. Len(s) /\ a \in Nat /\ b \in Nat
        OBVIOUS
  <2>2. /\ A \cup {b} \in SUBSET B /\ b \notin A
        /\ A \in SUBSET (1 .. a) /\ B \in SUBSET (1 .. b)
        BY <1>1, <2>1
  <2>3. IsFiniteSet(A) /\ IsFiniteSet(B)
    <3>1. IsFiniteSet(1 .. a) /\ IsFiniteSet(1 .. b)
          BY <2>1, 1 \in Int, a \in Int, b \in Int, FS_Interval
    <3>. QED  BY <2>2, <3>1, FS_Subset
  <2>. HIDE DEF A, B
  <2>4. Cardinality(A \cup {b}) = Cardinality(A) + 1 /\ Cardinality(A) \in Nat
        BY <2>2, <2>3, FS_AddElement, FS_CardinalityType
  <2>5. Cardinality(A \cup {b}) <= Cardinality(B) /\ Cardinality(B) \in Nat
        BY <2>2, <2>3, FS_Subset, FS_CardinalityType
  <2>6. s[a].n = Cardinality(A) /\ s[b].n = Cardinality(B)
        BY DEF Numbered, A, B
  <2>. QED  BY <2>4, <2>5, <2>6
<1>2. i \in Nat /\ j \in Nat /\ s[i].n \in Nat
  <2>1. DOMAIN s = 1 .. Len(s) /\ Len(s) \in Nat /\ s[i] \in CallsShot
        OBVIOUS
  <2>. QED  BY <2>1 DEF CallsShot
<1>3. CASE i < j  BY <1>1, <1>2, <1>3
<1>4. CASE j < i  BY <1>1, <1>2, <1>4
<1>. QED  BY <1>2, <1>3, <1>4

\* The events about a shot, and the search from the end, without the library.
ShotIndex(s, p, m) ==
    LET I == {i \in 1 .. Len(s) : s[i].pos = p /\ s[i].n = m}
    IN  IF I # {} THEN Lab!CD!Min(I) ELSE 0

CalledTo(r, k) == [r EXCEPT !.shots[k].called = TRUE]
NotedTo(r, k) == [r EXCEPT !.shots[k].noted = TRUE]

LEMMA FirstWhere ==
    ASSUME NEW r, NEW p, NEW m
    PROVE  /\ Lab!CD!CallDiagnoseCallRecorded(r, p, m) = CalledTo(r, ShotIndex(r.shots, p, m))
           /\ Lab!CD!CallDiagnoseNoteSaved(r, p, m) = NotedTo(r, ShotIndex(r.shots, p, m))
BY DEF Lab!CD!CallDiagnoseCallRecorded, Lab!CD!CallDiagnoseNoteSaved, Lab!CD!SelectInSeq,
       ShotIndex, CalledTo, NotedTo

LEMMA LastWhereIs ==
    ASSUME NEW r, NEW b
    PROVE  Lab!CD!LastWhere(r, b) =
               LET I == {i \in 1 .. Len(r.shots) : r.shots[i].called = b}
               IN  IF I # {} THEN Lab!CD!Max(I) ELSE 0
BY DEF Lab!CD!LastWhere, Lab!CD!SelectLastInSeq

\* The calls and the notes go to the shot they are for.
LEMMA EventFindsShot ==
    ASSUME NEW r, r.shots \in Seq(CallsShot), Numbered(r.shots), NEW i \in DOMAIN r.shots
    PROVE  LET e == r.shots[i]
           IN  /\ Lab!CD!CallDiagnoseCallRecorded(r, e.pos, e.n) = CalledTo(r, i)
               /\ Lab!CD!CallDiagnoseNoteSaved(r, e.pos, e.n) = NotedTo(r, i)
<1>. DEFINE I == {j \in 1 .. Len(r.shots) :
                     r.shots[j].pos = r.shots[i].pos /\ r.shots[j].n = r.shots[i].n}
<1>1. DOMAIN r.shots = 1 .. Len(r.shots) /\ Len(r.shots) \in Nat /\ i \in Nat
      OBVIOUS
<1>2. \A j \in I : j = i
      BY <1>1, NumberTellsShot
<1>3. I = {i}
      BY <1>1, <1>2
<1>4. Lab!CD!Min({i}) = i
  <2>1. {i} \in SUBSET Nat /\ i \in {i} /\ \A y \in {i} : i <= y
        BY <1>1
  <2>2. (CHOOSE x \in {i} : \A y \in {i} : x =< y) = i
        BY <2>1, LeastIs
  <2>. QED  BY <2>2, CallsLibrary
<1>5. I # {} /\ Lab!CD!Min(I) = i
      BY <1>3, <1>4
<1>6. ShotIndex(r.shots, r.shots[i].pos, r.shots[i].n) = i
      BY <1>5 DEF ShotIndex
<1>. HIDE DEF I
<1>. QED  BY <1>6, FirstWhere

\* The last shot with a call, or without one.
LEMMA LastWhereFinds ==
    ASSUME NEW r, r.shots \in Seq(CallsShot), NEW b, Lab!CD!LastWhere(r, b) # 0
    PROVE  /\ Lab!CD!LastWhere(r, b) \in DOMAIN r.shots
           /\ r.shots[Lab!CD!LastWhere(r, b)].called = b
<1>. DEFINE I == {j \in 1 .. Len(r.shots) : r.shots[j].called = b}
<1>1. DOMAIN r.shots = 1 .. Len(r.shots) /\ Len(r.shots) \in Nat
      OBVIOUS
<1>2. I # {} /\ Lab!CD!LastWhere(r, b) = Lab!CD!Max(I)
      BY LastWhereIs
<1>3. I \in SUBSET (1 .. Len(r.shots))
      OBVIOUS
<1>. HIDE DEF I
<1>4. PICK x \in I \cup {0} : \A y \in I \cup {0} : y <= x
      BY <1>1, <1>3, GreatestOf
<1>5. x \in I /\ x # 0 /\ I \in SUBSET Nat
  <2>1. PICK y \in I : TRUE
        BY <1>2
  <2>2. \A z \in I : z \in Nat /\ z >= 1
        BY <1>1, <1>3
  <2>3. y >= 1 /\ y <= x /\ y \in Nat
        BY <2>2, <1>4
  <2>. QED  BY <2>2, <2>3, <1>4
<1>6. Lab!CD!Max(I) = x
      BY <1>4, <1>5, GreatestIs, CallsLibrary
<1>. QED  BY <1>1, <1>2, <1>5, <1>6 DEF I

LEMMA NoneWhere ==
    ASSUME NEW r, r.shots \in Seq(CallsShot), Lab!CD!LastWhere(r, FALSE) = 0
    PROVE  Waiting(r.shots) = {}
<1>. DEFINE I == {j \in 1 .. Len(r.shots) : r.shots[j].called = FALSE}
<1>1. DOMAIN r.shots = 1 .. Len(r.shots) /\ Len(r.shots) \in Nat
      OBVIOUS
<1>2. CASE I # {}
  <2>1. Lab!CD!LastWhere(r, FALSE) = Lab!CD!Max(I)
        BY <1>2, LastWhereIs
  <2>2. I \in SUBSET (1 .. Len(r.shots))
        OBVIOUS
  <2>. HIDE DEF I
  <2>3. PICK x \in I \cup {0} : \A y \in I \cup {0} : y <= x
        BY <1>1, <2>2, GreatestOf
  <2>4. x \in I /\ x # 0 /\ I \in SUBSET Nat
    <3>1. PICK y \in I : TRUE
          BY <1>2
    <3>2. \A z \in I : z \in Nat /\ z >= 1
          BY <1>1, <2>2
    <3>3. y >= 1 /\ y <= x /\ y \in Nat
          BY <3>2, <2>3
    <3>. QED  BY <3>2, <3>3, <2>3
  <2>5. Lab!CD!Max(I) = x
        BY <2>3, <2>4, GreatestIs, CallsLibrary
  <2>. QED  BY <2>1, <2>2, <2>4, <2>5
<1>3. CASE I = {}
  <2>1. \A j \in DOMAIN r.shots : r.shots[j] \in CallsShot
        BY <1>1, ElementOfSeq
  <2>. QED  BY <1>1, <1>3, <2>1 DEF Waiting, CallsShot
<1>. QED  BY <1>2, <1>3

LEMMA CallsFields ==
    ASSUME CallsInv
    PROVE  /\ ctl \in CallsCtl /\ ctl.phase \in 0 .. 5 /\ ctl.pos \in 0 .. 2
           /\ ctl.last \in Nat /\ ctl.shot \in Nat
           /\ rec \in CallsRec /\ rec.pos \in 0 .. 2 /\ rec.sighters \in SUBSET Nat
           /\ rec.shots \in Seq(CallsShot) /\ Len(rec.shots) \in Nat
           /\ DOMAIN rec.shots = 1 .. Len(rec.shots)
           /\ \A i \in DOMAIN rec.shots : rec.shots[i] \in CallsShot
           /\ fired \in Nat /\ hist.resumes \in Nat /\ ShotCount \in Nat \ {0}
           /\ \A i \in Waiting(rec.shots) : i = Len(rec.shots) /\ rec.shots[i].pos = rec.pos
<1>1. /\ ctl \in CallsCtl /\ ctl.phase \in 0 .. 5 /\ ctl.pos \in 0 .. 2
      /\ ctl.last \in Nat /\ ctl.shot \in Nat
      BY DEF CallsInv, CallsType, CallsCtl
<1>2. /\ rec \in CallsRec /\ rec.pos \in 0 .. 2 /\ rec.sighters \in SUBSET Nat
      /\ rec.shots \in Seq(CallsShot)
      BY DEF CallsInv, CallsType, CallsRec
<1>3. /\ Len(rec.shots) \in Nat /\ DOMAIN rec.shots = 1 .. Len(rec.shots)
      /\ \A i \in DOMAIN rec.shots : rec.shots[i] \in CallsShot
      BY <1>2, LenProperties, ElementOfSeq
<1>4. fired \in Nat /\ hist.resumes \in Nat /\ ShotCount \in Nat \ {0}
      BY CallsNumbers DEF CallsInv, CommonType
<1>5. \A i \in Waiting(rec.shots) : i = Len(rec.shots) /\ rec.shots[i].pos = rec.pos
      BY <1>3 DEF CallsInv, OnlyLastWaits, Waiting
<1>. QED  BY <1>1, <1>2, <1>3, <1>4, <1>5

\* A journal with no shots, at the start of a session or without one.
LEMMA CallsStart ==
    ASSUME CommonType', ctl' \in CallsCtl, rec' \in CallsRec, rec'.shots = <<>>,
           rec'.sighters = {}, rec'.pos = 0, fired' = 0,
           up' = "live" => ctl'.last = 0 /\ ctl'.pos = 0 /\ ctl'.phase = 1
    PROVE  CallsInv'
<1>1. /\ DOMAIN rec'.shots = {} /\ \A p : At(rec'.shots, p) = {}
      /\ Waiting(rec'.shots) = {} /\ IdsOf(rec'.shots) = {}
  <2>1. DOMAIN rec'.shots = {}
        OBVIOUS
  <2>. QED  BY <2>1 DEF At, Waiting, IdsOf
<1>2. Cardinality({}) = 0
      BY FS_EmptySet
<1>3. hist'.resumes \in Nat /\ ShotCount \in Nat \ {0}
      BY CallsNumbers DEF CommonType
<1>4. /\ Numbered(rec'.shots) /\ IdsDiffer(rec'.shots, rec'.sighters)
      /\ OnlyLastWaits' /\ CallsPlace'
      BY <1>1 DEF Numbered, IdsDiffer, OnlyLastWaits, CallsPlace
<1>5. PositionsInOrder'
      BY <1>1 DEF PositionsInOrder
<1>6. Quota'
  <2>1. \A p : Cardinality(At(rec'.shots, p)) = 0
        BY <1>1, <1>2
  <2>. QED  BY <1>3, <2>1 DEF Quota
<1>7. IdsSeen(rec.sighters \cup IdsOf(rec.shots))'
      BY <1>1 DEF IdsSeen
<1>8. (up = "live" => LastIsRecorded(rec.sighters \cup IdsOf(rec.shots)))'
      BY DEF LastIsRecorded
<1>. QED  BY <1>4, <1>5, <1>6, <1>7, <1>8 DEF CallsInv, CallsType

\* A controller c stands right with the shots of the journal, position p of it,
\* and k resumes.
Stands(c, p, k) ==
    /\ p <= c.pos /\ (c.phase \in 2 .. 4 => c.pos = p)
    /\ c.phase = 3 <=> Waiting(rec.shots) # {}
    /\ \A i \in Waiting(rec.shots) : rec.shots[i].n = c.shot
    /\ \A q \in 0 .. 2 : q < c.pos => Cardinality(CalledAt(rec.shots, q)) >= ShotCount
    /\ c.phase \in {1, 2} => Cardinality(At(rec.shots, c.pos)) < ShotCount + k

LEMMA CallsStand ==
    ASSUME CallsInv, up = "live"
    PROVE  Stands(ctl, rec.pos, hist.resumes)
BY DEF CallsInv, CallsPlace, PositionsInOrder, Quota, Stands

\* A handler that leaves the shots alone; only the start of the programme
\* changes the position of the journal.
LEMMA CallsStays ==
    ASSUME CallsInv, rec'.shots = rec.shots,
           hist'.resumes \in Nat, hist.resumes <= hist'.resumes,
           \/ rec'.pos = rec.pos
           \/ up = "live" /\ ctl.phase = 1 /\ rec'.pos = ctl.pos,
           up' = "live" => Stands(ctl', rec'.pos, hist'.resumes)
    PROVE  OnlyLastWaits' /\ PositionsInOrder' /\ Quota' /\ CallsPlace'
<1>. DEFINE s == rec.shots
            k == hist.resumes
            l == hist'.resumes
<1>1. /\ rec.pos \in 0 .. 2 /\ ctl.pos \in 0 .. 2 /\ s \in Seq(CallsShot)
      /\ \A i \in DOMAIN s : s[i].pos \in 0 .. 2
      /\ \A p : Cardinality(At(s, p)) \in Nat
      /\ k \in Nat /\ l \in Nat /\ k <= l /\ ShotCount \in Nat
      BY CallsFields, CountsAreNumbers DEF CallsShot
<1>2. /\ up = "live" => rec.pos <= ctl.pos
      /\ up = "live" /\ ctl.phase = 1 => Waiting(s) = {}
      BY DEF CallsInv, CallsPlace
<1>3. OnlyLastWaits'
  <2>1. ASSUME NEW i \in DOMAIN s
        PROVE  /\ i < Len(s) => s[i].called
               /\ s[i].pos <= rec'.pos
               /\ ~s[i].called => s[i].pos = rec'.pos
    <3>1. /\ i < Len(s) => s[i].called
          /\ s[i].pos <= rec.pos
          /\ ~s[i].called => s[i].pos = rec.pos
          BY DEF CallsInv, OnlyLastWaits
    <3>2. CASE rec'.pos = rec.pos
          BY <3>1, <3>2
    <3>3. CASE up = "live" /\ ctl.phase = 1 /\ rec'.pos = ctl.pos
      <4>1. s[i].called /\ rec.pos <= ctl.pos
            BY <1>2, <3>3 DEF Waiting
      <4>2. s[i].pos \in 0 .. 2
            BY <1>1
      <4>. QED  BY <1>1, <3>1, <3>3, <4>1, <4>2
    <3>. QED  BY <3>2, <3>3
  <2>. QED  BY <2>1 DEF OnlyLastWaits
<1>4. PositionsInOrder'
  <2>1. /\ \A q \in 0 .. 2 : q < rec.pos => Cardinality(CalledAt(s, q)) >= ShotCount
        /\ up = "live" =>
              \A q \in 0 .. 2 : q < ctl.pos => Cardinality(CalledAt(s, q)) >= ShotCount
        /\ \A i \in DOMAIN s : s[i].noted => s[i].called
        BY DEF CallsInv, PositionsInOrder
  <2>2. \A q \in 0 .. 2 : q < rec'.pos => Cardinality(CalledAt(s, q)) >= ShotCount
        BY <2>1
  <2>3. up' = "live" =>
           \A q \in 0 .. 2 : q < ctl'.pos => Cardinality(CalledAt(s, q)) >= ShotCount
        BY DEF Stands
  <2>. QED  BY <2>1, <2>2, <2>3 DEF PositionsInOrder
<1>5. Quota'
  <2>1. \A p \in 0 .. 2 : Cardinality(At(s, p)) <= ShotCount + k
        BY DEF CallsInv, Quota
  <2>2. \A p \in 0 .. 2 : Cardinality(At(s, p)) <= ShotCount + l
        BY <1>1, <2>1
  <2>3. up' = "live" /\ ctl'.phase \in {1, 2} => Cardinality(At(s, ctl'.pos)) < ShotCount + l
        BY DEF Stands
  <2>. QED  BY <2>2, <2>3 DEF Quota
<1>6. CallsPlace'
      BY DEF Stands, CallsPlace
<1>. QED  BY <1>3, <1>4, <1>5, <1>6

\* The same, when no shot is accepted either.
LEMMA CallsKeeps ==
    ASSUME CallsInv, CommonType', ctl' \in CallsCtl, rec' \in CallsRec,
           rec'.shots = rec.shots, rec'.sighters = rec.sighters,
           hist'.resumes = hist.resumes, fired' \in {fired, fired + 1},
           \/ rec'.pos = rec.pos
           \/ up = "live" /\ ctl.phase = 1 /\ rec'.pos = ctl.pos,
           up' = "live" =>
               /\ up = "live" /\ ctl'.last = ctl.last
               /\ Stands(ctl', rec'.pos, hist.resumes)
    PROVE  CallsInv'
<1>1. hist'.resumes \in Nat /\ hist.resumes <= hist'.resumes /\ fired \in Nat
      BY CallsFields
<1>2. OnlyLastWaits' /\ PositionsInOrder' /\ Quota' /\ CallsPlace'
      BY <1>1, CallsStays
<1>3. Numbered(rec'.shots) /\ IdsDiffer(rec'.shots, rec'.sighters)
      BY DEF CallsInv
<1>4. IdsSeen(rec.sighters \cup IdsOf(rec.shots))'
      BY <1>1 DEF CallsInv, IdsSeen
<1>5. (up = "live" => LastIsRecorded(rec.sighters \cup IdsOf(rec.shots)))'
      BY DEF CallsInv, LastIsRecorded
<1>. QED  BY <1>2, <1>3, <1>4, <1>5 DEF CallsInv, CallsType

\* A shot that is to be called.
LEMMA CallsRecords ==
    ASSUME CallsInv, up = "live", fired' = fired + 1, ctl.phase = 2,
           Goes(hist, [ctl EXCEPT !.phase = 3, !.last = fired + 1, !.placed = FALSE,
                                  !.shot = Lab!CD!Received(rec, ctl.pos) + 1],
                Lab!CD!CallDiagnoseShotReceived(rec, ctl.pos,
                    Lab!CD!Received(rec, ctl.pos) + 1, fired + 1))
    PROVE  CallsInv'
<1>. DEFINE s == rec.shots
            n == Cardinality(At(s, ctl.pos)) + 1
            e == [pos |-> ctl.pos, n |-> n, id |-> fired + 1,
                  called |-> FALSE, noted |-> FALSE]
            t == Append(s, e)
            S == rec.sighters
<1>1. /\ Lab!CD!Received(rec, ctl.pos) + 1 = n
      /\ n \in Nat
  <2>1. Lab!CD!Received(rec, ctl.pos) = Cardinality(At(s, ctl.pos))
        BY CallsLibrary DEF Lab!CD!Received, At
  <2>2. Cardinality(At(s, ctl.pos)) \in Nat
        BY CountsAreNumbers, CallsFields
  <2>. QED  BY <2>1, <2>2
<1>2. /\ ctl' = [ctl EXCEPT !.phase = 3, !.last = fired + 1, !.placed = FALSE, !.shot = n]
      /\ up' = "live" /\ hist' = hist /\ rec' = [rec EXCEPT !.shots = t]
      BY <1>1 DEF Goes, Lab!CD!CallDiagnoseShotReceived
<1>3. e \in CallsShot
      BY <1>1, CallsFields DEF CallsShot
<1>4. /\ Stands(ctl, rec.pos, hist.resumes) /\ ctl.pos = rec.pos
      /\ Waiting(s) = {} /\ n - 1 < ShotCount + hist.resumes
      BY CallsStand, CallsFields, CountsAreNumbers DEF Stands
<1>5. /\ Numbered(s) /\ IdsDiffer(s, S)
      /\ S \cup IdsOf(s) \in SUBSET (1 .. fired)
      /\ \A q \in 0 .. 2 : q < rec.pos => Cardinality(CalledAt(s, q)) >= ShotCount
      /\ \A i \in DOMAIN s : s[i].noted => s[i].called
      /\ \A p \in 0 .. 2 : Cardinality(At(s, p)) <= ShotCount + hist.resumes
      BY DEF CallsInv, IdsSeen, PositionsInOrder, Quota
<1>6. \A x \in S \cup IdsOf(s) : x < fired + 1
      BY <1>5, CallsFields
<1>7. /\ ~e.called /\ e.id = fired + 1 /\ e.pos = ctl.pos /\ e.n = n /\ ~e.noted
      /\ s \in Seq(CallsShot) /\ fired + 1 \in Nat
      BY CallsFields
<1>. HIDE DEF e, n
<1>8. e.n = Cardinality(At(s, e.pos)) + 1
      BY <1>7 DEF n
<1>9. /\ t \in Seq(CallsShot) /\ Len(t) = Len(s) + 1 /\ DOMAIN t = 1 .. Len(s) + 1
      /\ \A i \in DOMAIN s : t[i] = s[i]
      /\ t[Len(s) + 1] = e
      /\ Numbered(t) /\ IdsDiffer(t, S)
      /\ IdsOf(t) = IdsOf(s) \cup {fired + 1}
      /\ \A p : CalledAt(t, p) = CalledAt(s, p)
      /\ \A p : p # e.pos => At(t, p) = At(s, p)
      /\ Cardinality(At(t, e.pos)) = Cardinality(At(s, e.pos)) + 1
      /\ Waiting(t) = Waiting(s) \cup {Len(s) + 1}
  <2>1. t = Append(s, e)
        OBVIOUS
  <2>2. \A x \in S \cup IdsOf(s) : x < e.id
        BY <1>6, <1>7
  <2>. HIDE DEF t, s, S
  <2>3. GrownBy(s, e, S, t)
        BY <1>3, <1>5, <1>7, <1>8, <2>1, <2>2, AppendedShot
  <2>. QED  BY <1>7, <2>3 DEF GrownBy
<1>. HIDE DEF t, s, S
<1>10. /\ ctl' \in CallsCtl /\ ctl'.phase = 3 /\ ctl'.last = fired + 1
       /\ ctl'.pos = ctl.pos /\ ctl'.shot = n
  <2>1. 3 \in 0 .. 5 /\ fired + 1 \in Nat /\ ctl \in CallsCtl
        BY CallsFields
  <2>2. ctl' \in CallsCtl
        BY <1>1, <1>2, <2>1, Zenon DEF CallsCtl
  <2>. QED  BY <1>2, <2>1, <2>2 DEF CallsCtl
<1>11. rec' \in CallsRec /\ rec'.shots = t /\ rec'.sighters = S /\ rec'.pos = rec.pos
       BY <1>2, <1>9, CallsFields DEF CallsRec, S
<1>12. OnlyLastWaits'
  <2>1. Len(s) \in Nat /\ DOMAIN s = 1 .. Len(s) /\ rec.pos \in 0 .. 2
        BY CallsFields DEF s
  <2>2. ASSUME NEW i \in DOMAIN t
        PROVE  /\ i < Len(t) => t[i].called
               /\ t[i].pos <= rec.pos
               /\ ~t[i].called => t[i].pos = rec.pos
    <3>1. CASE i \in DOMAIN s
      <4>1. s[i].called /\ s[i].pos <= rec.pos
            BY <1>4, <3>1 DEF Waiting, CallsInv, OnlyLastWaits, s
      <4>. QED  BY <1>9, <3>1, <4>1
    <3>2. CASE i = Len(s) + 1
      <4>1. t[i].pos = rec.pos
            BY <1>4, <1>7, <1>9, <3>2
      <4>. QED  BY <1>9, <2>1, <3>2, <4>1
    <3>. QED  BY <1>9, <2>1, <3>1, <3>2
  <2>. QED  BY <1>11, <2>2 DEF OnlyLastWaits
<1>13. PositionsInOrder'
  <2>1. \A i \in DOMAIN t : t[i].noted => t[i].called
    <3>1. Len(s) \in Nat /\ DOMAIN s = 1 .. Len(s)
          BY CallsFields DEF s
    <3>2. \A i \in DOMAIN t : i \in DOMAIN s \/ i = Len(s) + 1
          BY <1>9, <3>1
    <3>. QED  BY <1>5, <1>7, <1>9, <3>2
  <2>2. \A q \in 0 .. 2 : q < rec.pos => Cardinality(CalledAt(t, q)) >= ShotCount
        BY <1>5, <1>9
  <2>. QED  BY <1>4, <1>10, <1>11, <2>1, <2>2 DEF PositionsInOrder
<1>14. Quota'
  <2>1. ASSUME NEW p \in 0 .. 2
        PROVE  Cardinality(At(t, p)) <= ShotCount + hist.resumes
    <3>1. CASE p = e.pos
      <4>1. Cardinality(At(t, p)) = n
            BY <1>8, <1>9, <1>7, <3>1
      <4>. QED  BY <1>1, <1>4, <4>1, CallsFields
    <3>2. CASE p # e.pos
          BY <1>5, <1>9, <3>2
    <3>. QED  BY <3>1, <3>2
  <2>. QED  BY <1>2, <1>10, <1>11, <2>1 DEF Quota
<1>15. CallsPlace'
  <2>1. Waiting(t) = {Len(s) + 1}
        BY <1>4, <1>9
  <2>2. t[Len(s) + 1].n = n
        BY <1>7, <1>9
  <2>3. rec.pos <= ctl.pos
        BY <1>4, CallsFields
  <2>. QED  BY <1>4, <1>10, <1>11, <2>1, <2>2, <2>3 DEF CallsPlace
<1>16. IdsSeen(rec.sighters \cup IdsOf(rec.shots))'
  <2>1. S \cup IdsOf(t) \in SUBSET (1 .. fired + 1)
        BY <1>5, <1>9, CallsFields
  <2>2. \A x \in S \cup IdsOf(t) : x <= fired + 1
        BY <2>1, CallsFields
  <2>. QED  BY <1>10, <1>11, <2>1, <2>2, CallsFields DEF IdsSeen
<1>17. LastIsRecorded(rec.sighters \cup IdsOf(rec.shots))'
       BY <1>9, <1>10, <1>11 DEF LastIsRecorded
<1>18. CommonType'
       BY <1>2, CallsFields DEF CallsInv, CommonType
<1>. QED  BY <1>9, <1>10, <1>11, <1>12, <1>13, <1>14, <1>15, <1>16, <1>17, <1>18
          DEF CallsInv, CallsType

LEMMA CallsSights ==
    ASSUME CallsInv, up = "live", fired' = fired + 1, ctl.phase = 1,
           Goes(hist, [ctl EXCEPT !.last = fired + 1],
                Lab!CD!TrainingSighterAccepted(rec, fired + 1))
    PROVE  CallsInv'
<1>. DEFINE s == rec.shots
            S == rec.sighters
<1>1. /\ ctl' = [ctl EXCEPT !.last = fired + 1] /\ up' = "live" /\ hist' = hist
      /\ rec' = [rec EXCEPT !.sighters = @ \cup {fired + 1}]
      BY DEF Goes, Lab!CD!TrainingSighterAccepted
<1>2. /\ ctl' \in CallsCtl /\ ctl'.last = fired + 1
      /\ ctl'.phase = ctl.phase /\ ctl'.pos = ctl.pos /\ ctl'.shot = ctl.shot
      BY <1>1, CallsFields DEF CallsCtl
<1>3. /\ rec' \in CallsRec /\ rec'.shots = s /\ rec'.pos = rec.pos
      /\ rec'.sighters = S \cup {fired + 1}
  <2>1. S \cup {fired + 1} \in SUBSET Nat
        BY CallsFields
  <2>. QED  BY <1>1, <2>1, CallsFields DEF CallsRec
<1>4. OnlyLastWaits' /\ PositionsInOrder' /\ Quota' /\ CallsPlace'
  <2>1. Stands(ctl', rec'.pos, hist'.resumes)
        BY <1>1, <1>2, <1>3, CallsStand DEF Stands
  <2>. QED  BY <1>1, <1>3, <2>1, CallsStays, CallsFields
<1>5. Numbered(s) /\ IdsDiffer(s, S) /\ S \cup IdsOf(s) \in SUBSET (1 .. fired)
      BY DEF CallsInv, IdsSeen
<1>6. IdsDiffer(s, S \cup {fired + 1})
  <2>1. \A i \in DOMAIN s : s[i].id # fired + 1
    <3>1. \A i \in DOMAIN s : s[i].id \in IdsOf(s)
          BY DEF IdsOf
    <3>. QED  BY <1>5, <3>1, CallsFields
  <2>. QED  BY <1>5, <2>1 DEF IdsDiffer
<1>7. IdsSeen(rec.sighters \cup IdsOf(rec.shots))'
  <2>1. (S \cup {fired + 1}) \cup IdsOf(s) \in SUBSET (1 .. fired + 1)
        BY <1>5, CallsFields
  <2>2. \A x \in (S \cup {fired + 1}) \cup IdsOf(s) : x <= fired + 1
        BY <2>1, CallsFields
  <2>. QED  BY <1>2, <1>3, <2>1, <2>2, CallsFields DEF IdsSeen
<1>8. LastIsRecorded(rec.sighters \cup IdsOf(rec.shots))'
      BY <1>2, <1>3 DEF LastIsRecorded
<1>9. CommonType'
      BY <1>1, CallsFields DEF CallsInv, CommonType
<1>. QED  BY <1>2, <1>3, <1>4, <1>5, <1>6, <1>7, <1>8, <1>9 DEF CallsInv, CallsType

\* The call of the shot that waits.
LEMMA CallsConfirms ==
    ASSUME CallsInv, up = "live", fired' = fired, ctl.phase = 3,
           Goes(hist, [ctl EXCEPT !.phase = 4, !.placed = FALSE],
                Lab!CD!CallDiagnoseCallRecorded(rec, ctl.pos, ctl.shot))
    PROVE  CallsInv'
<1>. DEFINE s == rec.shots
            w == Len(s)
            t == [s EXCEPT ![w].called = TRUE]
<1>1. /\ w \in DOMAIN s /\ Waiting(s) = {w} /\ s[w].pos = ctl.pos /\ s[w].n = ctl.shot
      /\ ctl.pos = rec.pos
      BY CallsStand, CallsFields DEF Stands, Waiting
<1>2. /\ ctl' = [ctl EXCEPT !.phase = 4, !.placed = FALSE] /\ up' = "live" /\ hist' = hist
      /\ rec' = [rec EXCEPT !.shots = t]
  <2>1. Lab!CD!CallDiagnoseCallRecorded(rec, ctl.pos, ctl.shot) = CalledTo(rec, w)
        BY <1>1, EventFindsShot, CallsFields DEF CallsInv
  <2>. QED  BY <2>1 DEF Goes, CalledTo
<1>3. /\ t \in Seq(CallsShot) /\ DOMAIN t = DOMAIN s /\ Len(t) = Len(s)
      /\ \A i \in DOMAIN s : /\ t[i].pos = s[i].pos /\ t[i].n = s[i].n
                             /\ t[i].id = s[i].id /\ t[i].noted = s[i].noted
                             /\ t[i].called
  <2>1. [s[w] EXCEPT !.called = TRUE] \in CallsShot
        BY <1>1, CallsFields DEF CallsShot
  <2>2. /\ t \in Seq(CallsShot) /\ Len(t) = Len(s)
        /\ \A i \in 1 .. Len(s) : t[i] = IF i = w THEN [s[w] EXCEPT !.called = TRUE] ELSE s[i]
        BY <1>1, <2>1, CallsFields, ExceptSeq
  <2>3. \A i \in DOMAIN s : i # w => s[i].called
        BY <1>1 DEF Waiting
  <2>4. DOMAIN t = DOMAIN s
        BY <2>2, CallsFields, LenProperties
  <2>. QED  BY <1>1, <2>2, <2>3, <2>4, CallsFields DEF CallsShot
<1>. HIDE DEF t, s, w
<1>4. /\ ctl' \in CallsCtl /\ ctl'.phase = 4 /\ ctl'.last = ctl.last
      /\ ctl'.pos = ctl.pos
  <2>1. 4 \in 0 .. 5 /\ ctl \in CallsCtl
        BY CallsFields
  <2>2. ctl' \in CallsCtl
        BY <1>2, <2>1, Zenon DEF CallsCtl
  <2>. QED  BY <1>2, <2>1, <2>2 DEF CallsCtl
<1>5. /\ rec' \in CallsRec /\ rec'.shots = t /\ rec'.pos = rec.pos
      /\ rec'.sighters = rec.sighters
      BY <1>2, <1>3, CallsFields DEF CallsRec, s
<1>6. /\ s \in Seq(CallsShot) /\ Numbered(s) /\ IdsDiffer(s, rec.sighters)
      BY CallsFields DEF CallsInv, s
<1>7. /\ Numbered(t) /\ IdsDiffer(t, rec.sighters) /\ IdsOf(t) = IdsOf(s)
      /\ \A p : At(t, p) = At(s, p)
      /\ \A p : Cardinality(CalledAt(s, p)) <= Cardinality(CalledAt(t, p))
      BY <1>3, <1>6, TouchedShots
<1>8. Waiting(t) = {}
      BY <1>3 DEF Waiting
<1>9. OnlyLastWaits'
  <2>1. \A i \in DOMAIN s : s[i].pos <= rec.pos
        BY DEF CallsInv, OnlyLastWaits, s
  <2>. QED  BY <1>3, <1>5, <2>1 DEF OnlyLastWaits
<1>10. PositionsInOrder'
  <2>1. \A q \in 0 .. 2 : q < rec.pos => Cardinality(CalledAt(s, q)) >= ShotCount
        BY DEF CallsInv, PositionsInOrder, s
  <2>2. \A q \in 0 .. 2 : q < rec.pos => Cardinality(CalledAt(t, q)) >= ShotCount
    <3>1. \A q : Cardinality(CalledAt(s, q)) \in Nat /\ Cardinality(CalledAt(t, q)) \in Nat
          BY <1>3, <1>6, CountsAreNumbers
    <3>. QED  BY <1>7, <2>1, <3>1, CallsFields
  <2>. QED  BY <1>1, <1>3, <1>4, <1>5, <2>2 DEF PositionsInOrder
<1>11. Quota'
       BY <1>2, <1>4, <1>5, <1>7 DEF CallsInv, Quota, s
<1>12. CallsPlace'
  <2>1. rec.pos <= ctl.pos
        BY <1>1, CallsFields
  <2>. QED  BY <1>1, <1>4, <1>5, <1>8, <2>1 DEF CallsPlace
<1>13. IdsSeen(rec.sighters \cup IdsOf(rec.shots))'
       BY <1>2, <1>4, <1>5, <1>7 DEF CallsInv, IdsSeen, s
<1>14. LastIsRecorded(rec.sighters \cup IdsOf(rec.shots))'
       BY <1>4, <1>5, <1>7 DEF CallsInv, LastIsRecorded, s
<1>15. CommonType'
       BY <1>2, CallsFields DEF CallsInv, CommonType
<1>. QED  BY <1>3, <1>4, <1>5, <1>7, <1>9, <1>10, <1>11, <1>12, <1>13, <1>14, <1>15
          DEF CallsInv, CallsType

LEMMA CallsNotes ==
    ASSUME CallsInv, up = "live", fired' = fired, NEW i \in DOMAIN rec.shots,
           rec.shots[i].called, Goes(hist, ctl, NotedTo(rec, i))
    PROVE  CallsInv'
<1>. DEFINE s == rec.shots
            t == [s EXCEPT ![i].noted = TRUE]
<1>1. ctl' = ctl /\ up' = "live" /\ hist' = hist /\ rec' = [rec EXCEPT !.shots = t]
      BY DEF Goes, NotedTo
<1>2. /\ t \in Seq(CallsShot) /\ DOMAIN t = DOMAIN s /\ Len(t) = Len(s)
      /\ \A j \in DOMAIN s : /\ t[j].pos = s[j].pos /\ t[j].n = s[j].n
                             /\ t[j].id = s[j].id /\ t[j].called = s[j].called
                             /\ t[j].noted => s[j].called
  <2>1. [s[i] EXCEPT !.noted = TRUE] \in CallsShot
        BY CallsFields DEF CallsShot
  <2>2. /\ t \in Seq(CallsShot) /\ Len(t) = Len(s)
        /\ \A j \in 1 .. Len(s) : t[j] = IF j = i THEN [s[i] EXCEPT !.noted = TRUE] ELSE s[j]
        BY <2>1, CallsFields, ExceptSeq
  <2>3. \A j \in DOMAIN s : s[j].noted => s[j].called
        BY DEF CallsInv, PositionsInOrder
  <2>4. DOMAIN t = DOMAIN s
        BY <2>2, CallsFields, LenProperties
  <2>. QED  BY <2>2, <2>3, <2>4, CallsFields DEF CallsShot
<1>3. s[i].called /\ s = rec.shots
      OBVIOUS
<1>. HIDE DEF t, s
<1>4. /\ rec' \in CallsRec /\ rec'.shots = t /\ rec'.pos = rec.pos
      /\ rec'.sighters = rec.sighters
      BY <1>1, <1>2, CallsFields DEF CallsRec
<1>5. /\ s \in Seq(CallsShot) /\ Numbered(s) /\ IdsDiffer(s, rec.sighters)
      BY <1>3, CallsFields DEF CallsInv
<1>6. /\ Numbered(t) /\ IdsDiffer(t, rec.sighters) /\ IdsOf(t) = IdsOf(s)
      /\ \A p : At(t, p) = At(s, p)
      BY <1>2, <1>5, TouchedShots
<1>7. Waiting(t) = Waiting(s) /\ \A p : CalledAt(t, p) = CalledAt(s, p)
      BY <1>2 DEF Waiting, CalledAt
<1>8. OnlyLastWaits'
      BY <1>2, <1>3, <1>4 DEF CallsInv, OnlyLastWaits
<1>9. PositionsInOrder'
      BY <1>1, <1>2, <1>3, <1>4, <1>7 DEF CallsInv, PositionsInOrder
<1>10. Quota'
       BY <1>1, <1>3, <1>4, <1>6 DEF CallsInv, Quota
<1>11. CallsPlace'
  <2>1. \A j \in Waiting(s) : j \in DOMAIN s
        BY DEF Waiting
  <2>. QED  BY <1>1, <1>2, <1>3, <1>4, <1>7, <2>1 DEF CallsInv, CallsPlace
<1>12. IdsSeen(rec.sighters \cup IdsOf(rec.shots))'
       BY <1>1, <1>3, <1>4, <1>6 DEF CallsInv, IdsSeen
<1>13. LastIsRecorded(rec.sighters \cup IdsOf(rec.shots))'
       BY <1>1, <1>3, <1>4, <1>6 DEF CallsInv, LastIsRecorded
<1>14. CommonType'
       BY <1>1, CallsFields DEF CallsInv, CommonType
<1>. QED  BY <1>1, <1>4, <1>6, <1>8, <1>9, <1>10, <1>11, <1>12, <1>13, <1>14, CallsFields
          DEF CallsInv, CallsType

\* A command that only changes the controller, and perhaps marks the journal.
LEMMA CallsCommands ==
    ASSUME CallsInv, up = "live", fired' = fired, NEW c \in CallsCtl, NEW r \in CallsRec,
           Goes(hist, c, r), r.shots = rec.shots, r.sighters = rec.sighters,
           c.last = ctl.last,
           \/ r.pos = rec.pos
           \/ ctl.phase = 1 /\ r.pos = ctl.pos,
           Stands(c, r.pos, hist.resumes)
    PROVE  CallsInv'
<1>1. ctl' = c /\ up' = "live" /\ hist' = hist /\ rec' = r
      BY DEF Goes
<1>2. CommonType'
      BY <1>1 DEF CallsInv, CommonType
<1>. QED  BY <1>1, <1>2, CallsKeeps

LEMMA CallsContinues ==
    ASSUME CallsInv, up = "live", Lab!CD!ContinueToNext
    PROVE  CallsInv'
<1>. USE DEF Lab!CD!Sighters, Lab!CD!AwaitingShot, Lab!CD!Reveal, Lab!CD!Complete
<1>. DEFINE done == Cardinality(CalledAt(rec.shots, ctl.pos))
<1>1. /\ Stands(ctl, rec.pos, hist.resumes) /\ ctl.phase = 4 /\ fired' = fired
      /\ ctl.pos = rec.pos /\ Waiting(rec.shots) = {}
  <2>1. ctl.phase = 4 /\ fired' = fired
        BY DEF Lab!CD!ContinueToNext, Lab!CD!Does
  <2>. QED  BY <2>1, CallsStand DEF Stands
<1>2. /\ Lab!CD!Completed(rec, ctl.pos) = done
      /\ \A p : CalledAt(rec.shots, p) = At(rec.shots, p)
      /\ \A p : Cardinality(At(rec.shots, p)) \in Nat
      BY <1>1, CallsLibrary, CountsAreNumbers, CallsFields DEF Lab!CD!Completed, CalledAt
<1>3. /\ ctl \in CallsCtl /\ ctl.pos \in 0 .. 2 /\ rec.pos \in 0 .. 2 /\ rec \in CallsRec
      /\ ShotCount \in Nat \ {0} /\ hist.resumes \in Nat /\ 2 \in 0 .. 5 /\ 1 \in 0 .. 5
      /\ 5 \in 0 .. 5
      BY CallsFields
<1>. HIDE DEF done
<1>4. CASE done < ShotCount
  <2>. DEFINE c == [ctl EXCEPT !.phase = 2]
  <2>1. Goes(hist, c, rec)
        BY <1>2, <1>4, CallsSubmits DEF Lab!CD!ContinueToNext, Lab!CD!Does, Lab!CD!Submits
  <2>2. c \in CallsCtl /\ c.phase = 2 /\ c.pos = ctl.pos /\ c.last = ctl.last
        BY <1>3 DEF CallsCtl
  <2>. HIDE DEF c
  <2>3. Stands(c, rec.pos, hist.resumes)
    <3>1. Cardinality(At(rec.shots, ctl.pos)) < ShotCount + hist.resumes
          BY <1>2, <1>3, <1>4 DEF done
    <3>. QED  BY <1>1, <1>3, <2>2, <3>1 DEF Stands
  <2>. QED  BY <1>1, <1>3, <2>1, <2>2, <2>3, CallsCommands
<1>5. CASE ~(done < ShotCount) /\ rec.threeP /\ ctl.pos < 2
  <2>. DEFINE c == [ctl EXCEPT !.phase = 1, !.pos = @ + 1]
              r == [rec EXCEPT !.sighting = TRUE]
  <2>1. Goes(hist, c, r)
        BY <1>2, <1>5, CallsSubmits
           DEF Lab!CD!ContinueToNext, Lab!CD!Does, Lab!CD!Submits,
               Lab!CD!TrainingSighterPhaseStarted
  <2>2. ctl.pos + 1 \in 0 .. 2
        BY <1>3, <1>5
  <2>3. c \in CallsCtl /\ c.phase = 1 /\ c.pos = ctl.pos + 1 /\ c.last = ctl.last
        BY <1>3, <2>2 DEF CallsCtl
  <2>4. /\ r \in CallsRec /\ r.shots = rec.shots /\ r.sighters = rec.sighters
        /\ r.pos = rec.pos
        BY <1>3 DEF CallsRec
  <2>. HIDE DEF c, r
  <2>5. Stands(c, rec.pos, hist.resumes)
    <3>1. done \in Nat /\ done >= ShotCount
          BY <1>2, <1>3, <1>5 DEF done
    <3>2. \A q \in 0 .. 2 : q < ctl.pos + 1 => Cardinality(CalledAt(rec.shots, q)) >= ShotCount
      <4>1. \A q \in 0 .. 2 : q < ctl.pos + 1 => q < ctl.pos \/ q = ctl.pos
            BY <1>3
      <4>. QED  BY <1>1, <3>1, <4>1 DEF Stands, done
    <3>3. At(rec.shots, ctl.pos + 1) = {}
      <4>1. \A i \in DOMAIN rec.shots : rec.shots[i].pos <= rec.pos
            BY DEF CallsInv, OnlyLastWaits
      <4>. QED  BY <1>1, <1>3, <4>1 DEF At
    <3>4. Cardinality(At(rec.shots, ctl.pos + 1)) < ShotCount + hist.resumes
          BY <1>3, <3>3, FS_EmptySet
    <3>5. rec.pos <= ctl.pos + 1
          BY <1>1, <1>3
    <3>. QED  BY <1>1, <2>3, <3>2, <3>4, <3>5 DEF Stands
  <2>. QED  BY <1>1, <2>1, <2>3, <2>4, <2>5, CallsCommands
<1>6. CASE ~(done < ShotCount) /\ ~(rec.threeP /\ ctl.pos < 2)
  <2>. DEFINE c == [ctl EXCEPT !.phase = 5]
              r == [rec EXCEPT !.done = TRUE]
  <2>1. Goes(hist, c, r)
        BY <1>2, <1>6, CallsSubmits
           DEF Lab!CD!ContinueToNext, Lab!CD!Does, Lab!CD!Submits,
               Lab!CD!CallDiagnoseCompleted
  <2>2. c \in CallsCtl /\ c.phase = 5 /\ c.pos = ctl.pos /\ c.last = ctl.last
        BY <1>3 DEF CallsCtl
  <2>3. /\ r \in CallsRec /\ r.shots = rec.shots /\ r.sighters = rec.sighters
        /\ r.pos = rec.pos
        BY <1>3 DEF CallsRec
  <2>. HIDE DEF c, r
  <2>4. Stands(c, rec.pos, hist.resumes)
        BY <1>1, <1>3, <2>2 DEF Stands
  <2>. QED  BY <1>1, <2>1, <2>2, <2>3, <2>4, CallsCommands
<1>. QED  BY <1>4, <1>5, <1>6

\* The controller that a resume puts together from the journal.
LEMMA CallsRecovers ==
    ASSUME CallsInv
    PROVE  LET c == Lab!CD!Recovered(rec)
           IN  /\ c \in CallsCtl /\ c.pos = rec.pos
               /\ IF Waiting(rec.shots) # {}
                  THEN c.phase = 3 /\ \E i \in Waiting(rec.shots) : rec.shots[i].n = c.shot
                  ELSE c.phase = IF rec.sighting \/ ~rec.calling THEN 1 ELSE 2
<1>. USE DEF Lab!CD!Sighters, Lab!CD!AwaitingShot, Lab!CD!AwaitingCall
<1>. DEFINE c == Lab!CD!Recovered(rec)
<1>0. /\ rec.shots \in Seq(CallsShot) /\ rec.pos \in 0 .. 2
      /\ \A i \in DOMAIN rec.shots : rec.shots[i] \in CallsShot
      BY CallsFields
<1>. DEFINE i == Lab!CD!LastWhere(rec, FALSE)
<1>1. CASE i = 0
  <2>1. Waiting(rec.shots) = {}
        BY <1>0, <1>1, NoneWhere
  <2>2. c = [Lab!CD!Idle EXCEPT !.pos = rec.pos,
                 !.phase = IF rec.sighting \/ ~rec.calling THEN 1 ELSE 2]
        BY <1>1 DEF Lab!CD!Recovered, Lab!CD!RecoveredResolved
  <2>3. \A q \in {1, 2} : [Lab!CD!Idle EXCEPT !.pos = rec.pos, !.phase = q] \in CallsCtl
    <3>1. 0 \in Nat /\ \A q \in {1, 2} : q \in 0 .. 5
          OBVIOUS
    <3>. QED  BY <1>0, <3>1, Zenon DEF Lab!CD!Idle, CallsCtl
  <2>4. \A q \in {1, 2} : /\ [Lab!CD!Idle EXCEPT !.pos = rec.pos, !.phase = q].phase = q
                          /\ [Lab!CD!Idle EXCEPT !.pos = rec.pos, !.phase = q].pos = rec.pos
        BY DEF Lab!CD!Idle
  <2>. DEFINE p == IF rec.sighting \/ ~rec.calling THEN 1 ELSE 2
  <2>5. p \in {1, 2} /\ c = [Lab!CD!Idle EXCEPT !.pos = rec.pos, !.phase = p]
        BY <2>2
  <2>6. c \in CallsCtl /\ c.pos = rec.pos /\ c.phase = p
        BY <2>3, <2>4, <2>5
  <2>. QED  BY <2>1, <2>6
<1>2. CASE i # 0
  <2>1. i \in DOMAIN rec.shots /\ rec.shots[i].called = FALSE
        BY <1>0, <1>2, LastWhereFinds
  <2>. DEFINE e == rec.shots[i]
  <2>2. c = [Lab!CD!Idle EXCEPT !.phase = 3, !.pos = e.pos, !.shot = e.n]
        BY <1>2 DEF Lab!CD!Recovered
  <2>3. i \in Waiting(rec.shots)
        BY <2>1 DEF Waiting
  <2>4. e.pos = rec.pos /\ e.n \in Nat
        BY <1>0, <2>1, <2>3, CallsFields DEF CallsShot
  <2>. HIDE DEF i
  <2>5. c \in CallsCtl /\ c.pos = rec.pos /\ c.phase = 3 /\ c.shot = e.n
    <3>1. 0 \in Nat /\ 3 \in 0 .. 5
          OBVIOUS
    <3>2. c \in CallsCtl
          BY <1>0, <2>2, <2>4, <3>1, Zenon DEF Lab!CD!Idle, CallsCtl
    <3>3. c.pos = e.pos /\ c.phase = 3 /\ c.shot = e.n
          BY <2>2 DEF Lab!CD!Idle
    <3>. QED  BY <2>4, <3>2, <3>3
  <2>. QED  BY <2>3, <2>5
<1>. QED  BY <1>1, <1>2

LEMMA CallsResumes ==
    ASSUME CallsInv, Lab!CD!Resume
    PROVE  CallsInv'
<1>. USE DEF Lab!CD!Sighters, Lab!CD!AwaitingShot, Lab!CD!AwaitingCall
<1>. DEFINE ids == rec.sighters \cup IdsOf(rec.shots)
            c == Lab!CD!Recovered(rec)
            k == hist.resumes
<1>1. ids = Lab!CD!RecordedIds
      BY DEF Lab!CD!RecordedIds, IdsOf
<1>2. /\ up' = "live" /\ rec' = rec /\ hist' = [hist EXCEPT !.resumes = @ + 1]
      /\ ctl' = [c EXCEPT !.last = Greatest(ids)]
      /\ fired' = Greatest(ids)
      BY <1>1, CallsLibrary DEF Lab!CD!Resume, Lab!CD!Resumes, Lab!CD!NumbersOn
<1>3. /\ rec.shots \in Seq(CallsShot) /\ rec.pos \in 0 .. 2 /\ k \in Nat
      /\ ShotCount \in Nat
      /\ \A i \in DOMAIN rec.shots : rec.shots[i] \in CallsShot
      BY CallsFields
<1>4. /\ c \in CallsCtl /\ c.pos = rec.pos
      /\ \/ c.phase = 3 /\ \E i \in Waiting(rec.shots) : rec.shots[i].n = c.shot
         \/ c.phase \in {1, 2} /\ Waiting(rec.shots) = {}
      BY CallsRecovers
<1>5. IdsSeen(ids) /\ ids' = ids
      BY <1>2 DEF CallsInv
<1>. HIDE DEF ids, c
<1>6. ctl'.last = Greatest(ids)
      BY <1>2, <1>4 DEF CallsCtl
<1>7. /\ CommonType' /\ Greatest(ids) \in Nat /\ IdsSeen(ids)' /\ LastIsRecorded(ids)'
  <2>1. /\ CommonType' /\ Greatest(ids) \in Nat
        /\ ids' \in SUBSET (1 .. fired') /\ ctl'.last \in 0 .. fired'
        /\ \A x \in ids' : x <= ctl'.last
        /\ ctl'.last \in ids' \cup {0}
        BY <1>2, <1>5, <1>6, ResumeSees DEF CallsInv
  <2>. QED  BY <2>1 DEF IdsSeen, LastIsRecorded
<1>8. /\ ctl' \in CallsCtl /\ ctl'.pos = c.pos /\ ctl'.phase = c.phase
      /\ ctl'.shot = c.shot
      BY <1>2, <1>4, <1>7 DEF CallsCtl
<1>9. Stands(ctl', rec.pos, k + 1)
  <2>1. \A q \in 0 .. 2 : q < rec.pos => Cardinality(CalledAt(rec.shots, q)) >= ShotCount
        BY DEF CallsInv, PositionsInOrder
  <2>2. Cardinality(At(rec.shots, rec.pos)) < ShotCount + (k + 1)
    <3>1. Cardinality(At(rec.shots, rec.pos)) <= ShotCount + k
          BY <1>3 DEF CallsInv, Quota
    <3>. QED  BY <1>3, <3>1, CountsAreNumbers
  <2>3. \A i, j \in Waiting(rec.shots) : i = j
        BY CallsFields
  <2>4. rec.pos <= rec.pos
        BY <1>3
  <2>. QED  BY <1>4, <1>8, <2>1, <2>2, <2>3, <2>4 DEF Stands
<1>10. hist'.resumes = k + 1 /\ rec'.pos = rec.pos /\ k <= k + 1
       BY <1>2, <1>3 DEF CallsInv, CommonType
<1>11. OnlyLastWaits' /\ PositionsInOrder' /\ Quota' /\ CallsPlace'
       BY <1>2, <1>3, <1>9, <1>10, CallsStays
<1>12. Numbered(rec'.shots) /\ IdsDiffer(rec'.shots, rec'.sighters) /\ rec' \in CallsRec
       BY <1>2, CallsFields DEF CallsInv
<1>. QED  BY <1>7, <1>8, <1>11, <1>12 DEF CallsInv, CallsType, ids

LEMMA CallsStep ==
    ASSUME CallsInv, [Lab!CD!Next]_labVars
    PROVE  CallsInv'
<1>. USE DEF Lab!CD!Sighters, Lab!CD!AwaitingShot, Lab!CD!AwaitingCall, Lab!CD!Reveal,
             Lab!CD!Complete
<1>. DEFINE Here(c) == Stands(c, rec.pos, hist.resumes)
<1>1. /\ CommonType /\ ctl \in CallsCtl /\ rec \in CallsRec /\ rec.pos \in 0 .. 2
      /\ "noReading" \in Winds
      /\ 0 \in 0 .. 5 /\ 1 \in 0 .. 5 /\ 2 \in 0 .. 5 /\ 5 \in 0 .. 5 /\ 0 \in 0 .. 2
      /\ 0 \in Nat
      BY CallsFields DEF CallsInv, Winds
<1>2. up = "live" => Here(ctl)
      BY CallsStand
<1>3. Lab!CD!NoRec \in CallsRec /\ Lab!CD!Idle \in CallsCtl
  <2>1. <<>> \in Seq(CallsShot) /\ {} \in SUBSET Nat
        BY EmptySeq
  <2>. QED  BY <1>1, <2>1, Zenon DEF Lab!CD!NoRec, Lab!CD!Idle, CallsRec, CallsCtl
<1>4. CASE Lab!CD!StartCallDiagnose
  <2>. DEFINE c == [Lab!CD!Idle EXCEPT !.phase = 1]
  <2>1. PICK threeP \in BOOLEAN :
           Lab!CD!Starts(c, <<Lab!CD!NoRec,
                              Lab!CD!CallDiagnoseSessionStarted(Lab!CD!NoRec, threeP)>>)
        BY <1>4 DEF Lab!CD!StartCallDiagnose
  <2>. DEFINE r == Lab!CD!CallDiagnoseSessionStarted(Lab!CD!NoRec, threeP)
  <2>2. (Goes(FreshHist, c, r) \/ Dies(FreshHist, Lab!CD!NoRec)) /\ fired' = 0
        BY <2>1, CallsSubmits DEF Lab!CD!Starts, Lab!CD!NewHist, FreshHist
  <2>3. c \in CallsCtl /\ c.last = 0 /\ c.pos = 0 /\ c.phase = 1
        BY <1>1 DEF Lab!CD!Idle, CallsCtl
  <2>4. r \in CallsRec
    <3>1. r = [Lab!CD!NoRec EXCEPT !.on = TRUE, !.threeP = threeP, !.pos = 0,
                                   !.calling = FALSE, !.sighting = TRUE]
          BY DEF Lab!CD!CallDiagnoseSessionStarted
    <3>2. \A x \in CallsRec :
             [x EXCEPT !.on = TRUE, !.threeP = threeP, !.pos = 0,
                       !.calling = FALSE, !.sighting = TRUE] \in CallsRec
          BY <1>1, Zenon DEF CallsRec
    <3>. QED  BY <1>3, <3>1, <3>2
  <2>5. r.shots = <<>> /\ r.sighters = {} /\ r.pos = 0
        BY DEF Lab!CD!CallDiagnoseSessionStarted, Lab!CD!NoRec
  <2>6. Lab!CD!NoRec.shots = <<>> /\ Lab!CD!NoRec.sighters = {} /\ Lab!CD!NoRec.pos = 0
        BY DEF Lab!CD!NoRec
  <2>. HIDE DEF c, r
  <2>7. CommonType'
    <3>1. /\ FreshHist \in [cut : BOOLEAN, resumes : Nat, told : Winds]
          /\ [FreshHist EXCEPT !.cut = TRUE] \in [cut : BOOLEAN, resumes : Nat, told : Winds]
          BY <1>1 DEF FreshHist
    <3>. QED  BY <2>2, <3>1 DEF CommonType, Goes, Dies
  <2>. QED  BY <1>1, <1>3, <2>2, <2>3, <2>4, <2>5, <2>6, <2>7, CallsStart DEF Goes, Dies
<1>5. CASE Lab!CD!StartProgramme
  <2>. DEFINE c == [ctl EXCEPT !.phase = 2]
              r == [rec EXCEPT !.calling = TRUE, !.pos = ctl.pos, !.sighting = FALSE]
  <2>1. /\ up = "live" /\ fired' = fired /\ ctl.phase = 1 /\ Goes(hist, c, r)
        BY <1>5, CallsSubmits
           DEF Lab!CD!StartProgramme, Lab!CD!Does, Lab!CD!Submits, Lab!CD!CallDiagnoseStarted
  <2>2. c \in CallsCtl /\ c.phase = 2 /\ c.last = ctl.last /\ c.pos = ctl.pos
        BY <1>1 DEF CallsCtl
  <2>3. r \in CallsRec
        BY <1>1, CallsFields, Zenon DEF CallsRec
  <2>4. r.shots = rec.shots /\ r.sighters = rec.sighters /\ r.pos = ctl.pos
        BY <1>1 DEF CallsRec
  <2>. HIDE DEF c, r
  <2>5. Stands(c, r.pos, hist.resumes)
    <3>1. ctl.pos <= ctl.pos
          BY CallsFields
    <3>. QED  BY <1>2, <2>1, <2>2, <2>4, <3>1 DEF Stands
  <2>. QED  BY <2>1, <2>2, <2>3, <2>4, <2>5, CallsCommands
<1>6. CASE Lab!CD!RegisterShot
  <2>1. up = "live" /\ fired' = fired + 1
        BY <1>6 DEF Lab!CD!RegisterShot, Lab!CD!Detected
  <2>2. CASE Lab!CD!AcceptSighter(fired + 1)
        BY <2>1, <2>2, CallsSubmits, CallsSights DEF Lab!CD!AcceptSighter, Lab!CD!Submits
  <2>3. CASE Lab!CD!AcceptActualShot(fired + 1)
        BY <2>1, <2>3, CallsSubmits, CallsRecords
           DEF Lab!CD!AcceptActualShot, Lab!CD!Submits
  <2>4. CASE Lab!CD!RefuseShot(fired + 1)
    <3>1. Goes(hist, ctl, rec)
          BY <2>4, CallsSubmits DEF Lab!CD!RefuseShot, Lab!CD!Submits
    <3>2. CommonType'
          BY <1>1, <2>1, <3>1 DEF CommonType, Goes
    <3>. QED  BY <1>1, <1>2, <2>1, <3>1, <3>2, CallsKeeps DEF Goes
  <2>. QED  BY <1>6, <2>2, <2>3, <2>4 DEF Lab!CD!RegisterShot
<1>7. ASSUME NEW b \in BOOLEAN, ctl.phase = 3 \/ ctl.placed,
             Lab!CD!Does([ctl EXCEPT !.placed = b], <<>>)
      PROVE  CallsInv'
  <2>. DEFINE c == [ctl EXCEPT !.placed = b]
  <2>1. up = "live" /\ fired' = fired /\ Goes(hist, c, rec)
        BY <1>7, CallsSubmits DEF Lab!CD!Does, Lab!CD!Submits
  <2>2. /\ c \in CallsCtl /\ c.phase = ctl.phase /\ c.last = ctl.last /\ c.pos = ctl.pos
        /\ c.shot = ctl.shot
        BY <1>1 DEF CallsCtl
  <2>. HIDE DEF c
  <2>3. Stands(c, rec.pos, hist.resumes)
        BY <1>2, <2>1, <2>2 DEF Stands
  <2>. QED  BY <1>1, <2>1, <2>2, <2>3, CallsCommands
<1>8. CASE Lab!CD!SubmitCall
      BY <1>7, <1>8 DEF Lab!CD!SubmitCall
<1>9. CASE Lab!CD!ClearCall
      BY <1>7, <1>9 DEF Lab!CD!ClearCall
<1>10. CASE Lab!CD!ConfirmCall
       BY <1>10, CallsSubmits, CallsConfirms
          DEF Lab!CD!ConfirmCall, Lab!CD!Does, Lab!CD!Submits
<1>11. CASE Lab!CD!SaveShotNote
  <2>. DEFINE i == Lab!CD!LastWhere(rec, TRUE)
  <2>1. /\ up = "live" /\ fired' = fired /\ i # 0
        /\ Goes(hist, ctl, Lab!CD!CallDiagnoseNoteSaved(rec, rec.shots[i].pos, rec.shots[i].n))
        BY <1>11, CallsSubmits DEF Lab!CD!SaveShotNote, Lab!CD!Does, Lab!CD!Submits
  <2>2. i \in DOMAIN rec.shots /\ rec.shots[i].called = TRUE
        BY <2>1, LastWhereFinds, CallsFields
  <2>. HIDE DEF i
  <2>3. Lab!CD!CallDiagnoseNoteSaved(rec, rec.shots[i].pos, rec.shots[i].n) = NotedTo(rec, i)
        BY <2>2, EventFindsShot, CallsFields DEF CallsInv
  <2>. QED  BY <2>1, <2>2, <2>3, CallsNotes
<1>12. CASE Lab!CD!ContinueToNext
       BY <1>12, CallsContinues DEF Lab!CD!ContinueToNext, Lab!CD!Does, Lab!CD!Submits
<1>13. CASE Lab!CD!EndEarly
  <2>. DEFINE c == [ctl EXCEPT !.phase = 5]
              r == [rec EXCEPT !.done = TRUE]
  <2>1. /\ up = "live" /\ fired' = fired /\ ctl.phase # 3 /\ Goes(hist, c, r)
    <3>1. ctl.phase \in {1, 2, 4} /\ Lab!CD!Submits(c, <<r>>) /\ fired' = fired
          BY <1>13 DEF Lab!CD!EndEarly, Lab!CD!Does, Lab!CD!CallDiagnoseCompleted
    <3>2. up = "live" /\ Goes(hist, c, r)
          BY <3>1, CallsSubmits DEF Lab!CD!Submits
    <3>. QED  BY <3>1, <3>2
  <2>2. c \in CallsCtl /\ c.phase = 5 /\ c.last = ctl.last /\ c.pos = ctl.pos
        BY <1>1 DEF CallsCtl
  <2>3. /\ r \in CallsRec /\ r.shots = rec.shots /\ r.sighters = rec.sighters
        /\ r.pos = rec.pos
        BY <1>1 DEF CallsRec
  <2>. HIDE DEF c, r
  <2>4. Stands(c, rec.pos, hist.resumes)
        BY <1>2, <2>1, <2>2 DEF Stands
  <2>. QED  BY <2>1, <2>2, <2>3, <2>4, CallsCommands
<1>14. CASE Lab!CD!CloseCleanly
  <2>1. /\ up' = "none" /\ rec' = Lab!CD!NoRec /\ ctl' = Lab!CD!Idle /\ fired' = 0
        /\ hist' = FreshHist
        BY <1>14 DEF Lab!CD!CloseCleanly, Lab!CD!Closes, Lab!CD!NewHist, FreshHist
  <2>2. CommonType'
        BY <1>1, <2>1 DEF CommonType, FreshHist
  <2>3. Lab!CD!NoRec.shots = <<>> /\ Lab!CD!NoRec.sighters = {} /\ Lab!CD!NoRec.pos = 0
        BY DEF Lab!CD!NoRec
  <2>. QED  BY <1>3, <2>1, <2>2, <2>3, CallsStart
<1>15. CASE Lab!CD!Resume
       BY <1>15, CallsResumes
<1>16. CASE Lab!CD!Crash
  <2>1. /\ up' = "down" /\ UNCHANGED <<ctl, rec, fired, hist>>
        BY <1>16 DEF Lab!CD!Crash
  <2>2. CommonType'
        BY <1>1, <2>1 DEF CommonType
  <2>. QED  BY <1>1, <2>1, <2>2, CallsKeeps
<1>17. CASE UNCHANGED labVars
  <2>1. UNCHANGED <<up, ctl, rec, fired, hist>>
        BY <1>17 DEF labVars
  <2>2. CommonType'
        BY <1>1, <2>1 DEF CommonType
  <2>. QED  BY <1>1, <1>2, <2>1, <2>2, CallsKeeps
<1>. QED  BY <1>4, <1>5, <1>6, <1>8, <1>9, <1>10, <1>11, <1>12, <1>13, <1>14, <1>15,
             <1>16, <1>17 DEF Lab!CD!Next

LEMMA CallsInvImplies ==
    ASSUME CallsInv
    PROVE  /\ Lab!CD!OneUnresolvedShot /\ Lab!CD!ShotsRecordedOnce /\ Lab!CD!WithinPlan
           /\ Lab!CD!InOrder /\ (up = "live" => ctl.last <= fired)
<1>. DEFINE s == rec.shots
<1>1. \A p : /\ Lab!CD!Received(rec, p) = Cardinality(At(s, p))
             /\ Lab!CD!Completed(rec, p) = Cardinality(CalledAt(s, p))
      BY CallsLibrary DEF Lab!CD!Received, Lab!CD!Completed, At, CalledAt
<1>2. Lab!CD!OneUnresolvedShot
  <2>1. Cardinality(Waiting(s)) <= 1
    <3>1. CASE Waiting(s) = {}
          BY <3>1, FS_EmptySet
    <3>2. CASE Waiting(s) # {}
      <4>1. Waiting(s) = {Len(s)}
            BY <3>2, CallsFields
      <4>2. Cardinality({Len(s)}) = 1
            BY FS_Singleton
      <4>. QED  BY <4>1, <4>2
    <3>. QED  BY <3>1, <3>2
  <2>2. up = "live" => (ctl.phase = 3 <=> Waiting(s) # {})
        BY DEF CallsInv, CallsPlace
  <2>3. up = "live" => \A i \in Waiting(s) : s[i].pos = ctl.pos /\ s[i].n = ctl.shot
        BY CallsFields DEF CallsInv, CallsPlace
  <2>4. Lab!CD!Cardinality(Waiting(s)) = Cardinality(Waiting(s))
        BY CallsLibrary
  <2>. QED  BY <2>1, <2>2, <2>3, <2>4
            DEF Lab!CD!OneUnresolvedShot, Lab!CD!AwaitingCall, Waiting
<1>3. Lab!CD!ShotsRecordedOnce
  <2>. DEFINE ids == rec.sighters \cup IdsOf(s)
  <2>1. ids = Lab!CD!RecordedIds
        BY DEF Lab!CD!RecordedIds, IdsOf
  <2>2. up = "live" => ctl.last = Greatest(ids)
    <3>1. CommonType /\ IdsSeen(ids) /\ (up = "live" => LastIsRecorded(ids))
          BY DEF CallsInv
    <3>. HIDE DEF ids
    <3>. QED  BY <3>1, LastIsGreatest
  <2>3. Lab!CD!MaxId(ids) = Greatest(ids)
        BY CallsLibrary
  <2>4. IdsDiffer(s, rec.sighters)
        BY DEF CallsInv
  <2>. QED  BY <2>1, <2>2, <2>3, <2>4 DEF Lab!CD!ShotsRecordedOnce, IdsDiffer
<1>4. Lab!CD!WithinPlan
      BY <1>1 DEF CallsInv, Quota, Lab!CD!WithinPlan
<1>5. Lab!CD!InOrder
  <2>1. \A i \in DOMAIN s : s[i].n = Lab!CD!Cardinality({j \in 1 .. i : s[j].pos = s[i].pos})
        BY CallsLibrary DEF CallsInv, Numbered
  <2>2. ASSUME NEW i \in DOMAIN s, s[i].pos > 0
        PROVE  Lab!CD!Completed(rec, s[i].pos - 1) >= ShotCount
    <3>1. s[i].pos \in 0 .. 2 /\ s[i].pos <= rec.pos /\ rec.pos \in 0 .. 2
          BY CallsFields DEF CallsShot, CallsInv, OnlyLastWaits
    <3>2. s[i].pos - 1 \in 0 .. 2 /\ s[i].pos - 1 < rec.pos
          BY <2>2, <3>1
    <3>3. Cardinality(CalledAt(s, s[i].pos - 1)) >= ShotCount
          BY <3>2 DEF CallsInv, PositionsInOrder
    <3>. QED  BY <1>1, <3>3
  <2>3. \A i \in DOMAIN s : s[i].noted => s[i].called
        BY DEF CallsInv, PositionsInOrder
  <2>. QED  BY <2>1, <2>2, <2>3 DEF Lab!CD!InOrder
<1>6. up = "live" => ctl.last <= fired
      BY DEF CallsInv, CommonType, IdsSeen
<1>. QED  BY <1>2, <1>3, <1>4, <1>5, <1>6
-----------------------------------------------------------------------------
(* Resumes.                                                                *)

\* Wind Map: phase and condition are in the journal as they stand, and the
\* condition is the one noted last.
WindTold ==
    /\ up = "live" => rec.on
    /\ rec.on /\ up # "none" =>
          ctl.phase = rec.phase /\ ctl.wind = rec.wind /\ hist.told = rec.wind

LEMMA WindGoes ==
    ASSUME NEW h, NEW c, NEW r, Goes(h, c, r), r.on,
           c.phase = r.phase, c.wind = r.wind, h.told = r.wind
    PROVE  WindTold'
BY DEF Goes, WindTold

LEMMA WindTells ==
    ASSUME WindInv, WindTold, [Lab!WM!Next]_labVars
    PROVE  WindTold' /\ Lab!WM!ConditionSticks
<1>. USE DEF Lab!WM!Setup, Lab!WM!Sighters, Lab!WM!CountedShots, Lab!WM!PositionReview,
             Lab!WM!SessionReview, Lab!WM!Completed
<1>1. /\ ctl \in WindCtl /\ rec \in WindRec
      /\ hist \in [cut : BOOLEAN, resumes : Nat, told : Winds]
      BY DEF WindInv, WindType, CommonType
<1>2. up = "live" => /\ rec.on /\ ctl.phase = rec.phase /\ ctl.wind = rec.wind
                     /\ hist.told = rec.wind
      BY DEF WindTold
<1>3. ASSUME rec.shots \subseteq rec'.shots, \A s \in rec'.shots \ rec.shots : s.wind = hist.told
      PROVE  Lab!WM!ConditionSticks
      BY <1>3 DEF Lab!WM!ConditionSticks
<1>4. ASSUME rec'.shots = rec.shots
      PROVE  Lab!WM!ConditionSticks
      BY <1>3, <1>4
<1>5. CASE Lab!WM!StartWindMap
  <2>1. PICK threeP, sighters \in BOOLEAN :
           Lab!WM!Starts([Lab!WM!Idle EXCEPT !.phase = 1, !.sighters = sighters],
                         <<Lab!WM!NoRec, Lab!WM!WindMapSessionStarted(Lab!WM!NoRec, threeP)>>)
        BY <1>5 DEF Lab!WM!StartWindMap
  <2>. DEFINE c == [Lab!WM!Idle EXCEPT !.phase = 1, !.sighters = sighters]
              r == Lab!WM!WindMapSessionStarted(Lab!WM!NoRec, threeP)
  <2>2. /\ c.phase = 1 /\ c.wind = "noReading"
        /\ r.on /\ r.phase = 1 /\ r.wind = "noReading" /\ r.shots = {}
        /\ FreshHist.told = "noReading" /\ ~Lab!WM!NoRec.on /\ Lab!WM!NoRec.shots = {}
        BY DEF Lab!WM!Idle, Lab!WM!NoRec, Lab!WM!WindMapSessionStarted, FreshHist
  <2>3. Lab!WM!SubmitsFrom(FreshHist, c, <<Lab!WM!NoRec, r>>)
        BY <2>1 DEF Lab!WM!Starts, Lab!WM!NewHist, FreshHist
  <2>. HIDE DEF c, r
  <2>4. Goes(FreshHist, c, r) \/ Dies(FreshHist, Lab!WM!NoRec)
        BY <2>3, WindSubmits
  <2>5. rec'.shots = {}
        BY <2>2, <2>4 DEF Goes, Dies
  <2>6. Lab!WM!ConditionSticks
        BY <1>5, <2>5 DEF Lab!WM!ConditionSticks
  <2>7. CASE Goes(FreshHist, c, r)
        BY <2>2, <2>6, <2>7, WindGoes
  <2>8. CASE Dies(FreshHist, Lab!WM!NoRec)
        BY <2>2, <2>6, <2>8 DEF Dies, WindTold
  <2>. QED  BY <2>4, <2>7, <2>8
<1>6. CASE Lab!WM!ApplyCondition
  <2>1. PICK w \in Winds :
           /\ up = "live"
           /\ Goes([hist EXCEPT !.told = w], [ctl EXCEPT !.wind = w],
                   Lab!WM!WindConditionChanged(rec, w))
        BY <1>6, WindSubmits DEF Lab!WM!ApplyCondition, Winds
  <2>. DEFINE h == [hist EXCEPT !.told = w]
              c == [ctl EXCEPT !.wind = w]
              r == Lab!WM!WindConditionChanged(rec, w)
  <2>2. /\ h.told = w /\ c.wind = w /\ c.phase = ctl.phase
        /\ r.on = rec.on /\ r.phase = rec.phase /\ r.wind = w /\ r.shots = rec.shots
        BY <1>1 DEF WindCtl, WindRec, Lab!WM!WindConditionChanged
  <2>. HIDE DEF h, c, r
  <2>3. Goes(h, c, r)
        BY <2>1 DEF h, c, r
  <2>4. rec'.shots = rec.shots
        BY <2>2, <2>3 DEF Goes
  <2>. QED  BY <1>2, <1>4, <2>1, <2>2, <2>3, <2>4, WindGoes
<1>7. CASE Lab!WM!GoToPhase
  <2>1. PICK to \in 2 .. 5 :
           /\ up = "live"
           /\ Goes(hist, [ctl EXCEPT !.phase = to],
                   Lab!WM!WindMapPhaseChanged(rec, ctl.phase, to))
        BY <1>7, WindSubmits DEF Lab!WM!GoToPhase, Lab!WM!Does, Lab!WM!Submits
  <2>. DEFINE c == [ctl EXCEPT !.phase = to]
              r == Lab!WM!WindMapPhaseChanged(rec, ctl.phase, to)
  <2>2. c.wind = ctl.wind /\ c.phase = to
        BY <1>1 DEF WindCtl
  <2>3. /\ r.on = rec.on /\ r.wind = rec.wind /\ r.shots = rec.shots
        /\ r.phase = to
        BY <1>1, <1>2, <2>1 DEF WindRec, Lab!WM!WindMapPhaseChanged
  <2>. HIDE DEF c, r
  <2>4. Goes(hist, c, r)
        BY <2>1 DEF c, r
  <2>5. rec'.shots = rec.shots
        BY <2>3, <2>4 DEF Goes
  <2>. QED  BY <1>2, <1>4, <2>1, <2>2, <2>3, <2>4, <2>5, WindGoes
<1>8. CASE Lab!WM!ChangePosition
  <2>1. PICK to \in {1, 2, 3} :
           /\ up = "live"
           /\ Goes(hist, ctl, Lab!WM!WindMapPositionChanged(rec, to))
        BY <1>8, WindSubmits DEF Lab!WM!ChangePosition, Lab!WM!Does, Lab!WM!Submits
  <2>. DEFINE r == Lab!WM!WindMapPositionChanged(rec, to)
  <2>2. /\ r.on = rec.on /\ r.wind = rec.wind /\ r.shots = rec.shots
        /\ r.phase = rec.phase
        BY <1>1 DEF WindRec, Lab!WM!WindMapPositionChanged
  <2>. HIDE DEF r
  <2>3. Goes(hist, ctl, r)
        BY <2>1 DEF r
  <2>4. rec'.shots = rec.shots
        BY <2>2, <2>3 DEF Goes
  <2>. QED  BY <1>2, <1>4, <2>1, <2>2, <2>3, <2>4, WindGoes
<1>9. CASE Lab!WM!RegisterShot
  <2>1. up = "live"
        BY <1>9 DEF Lab!WM!RegisterShot, Lab!WM!Detected
  <2>2. CASE Lab!WM!AcceptShot(fired + 1)
    <3>. DEFINE s == [n |-> rec.nextId, id |-> fired + 1, pos |-> rec.pos,
                      sighter |-> ctl.phase = 2, wind |-> ctl.wind]
                c == [ctl EXCEPT !.last = fired + 1]
                shots == rec.shots \cup {s}
                next == s.n + 1
                r == [rec EXCEPT !.shots = shots, !.nextId = next]
    <3>1. Goes(hist, c, r)
          BY <2>2, WindSubmits
             DEF Lab!WM!AcceptShot, Lab!WM!Submits, Lab!WM!WindMapAccepted
    <3>2. s.wind = ctl.wind
          OBVIOUS
    <3>. HIDE DEF s, next
    <3>3. c.wind = ctl.wind /\ c.phase = ctl.phase
          BY <1>1 DEF WindCtl
    <3>4. /\ r.on = rec.on /\ r.wind = rec.wind /\ r.phase = rec.phase
          /\ r.shots = shots
          BY <1>1 DEF WindRec
    <3>. HIDE DEF c, r
    <3>5. rec'.shots = rec.shots \cup {s}
          BY <3>1, <3>4 DEF Goes
    <3>6. Lab!WM!ConditionSticks
          BY <1>2, <1>3, <2>1, <3>2, <3>5
    <3>. QED  BY <1>2, <2>1, <3>1, <3>3, <3>4, <3>6, WindGoes
  <2>3. CASE Lab!WM!RefuseShot(fired + 1)
    <3>1. Goes(hist, ctl, rec)
          BY <2>3, WindSubmits DEF Lab!WM!RefuseShot, Lab!WM!Submits
    <3>2. rec' = rec
          BY <3>1 DEF Goes
    <3>. QED  BY <1>2, <1>4, <2>1, <3>1, <3>2, WindGoes
  <2>. QED  BY <1>9, <2>2, <2>3 DEF Lab!WM!RegisterShot
<1>10. CASE Lab!WM!CompleteSession
  <2>1. /\ up = "live"
        /\ Goes(hist, [ctl EXCEPT !.phase = 6], Lab!WM!WindMapSessionCompleted(rec))
        BY <1>10, WindSubmits DEF Lab!WM!CompleteSession, Lab!WM!Does, Lab!WM!Submits
  <2>. DEFINE c == [ctl EXCEPT !.phase = 6]
              r == Lab!WM!WindMapSessionCompleted(rec)
  <2>2. c.wind = ctl.wind /\ c.phase = 6
        BY <1>1 DEF WindCtl
  <2>3. r.on = rec.on /\ r.wind = rec.wind /\ r.shots = rec.shots /\ r.phase = 6
        BY <1>1 DEF WindRec, Lab!WM!WindMapSessionCompleted
  <2>. HIDE DEF c, r
  <2>4. Goes(hist, c, r)
        BY <2>1 DEF c, r
  <2>5. rec'.shots = rec.shots
        BY <2>3, <2>4 DEF Goes
  <2>. QED  BY <1>2, <1>4, <2>1, <2>2, <2>3, <2>4, <2>5, WindGoes
<1>11. CASE Lab!WM!CloseSessionCleanly
  <2>1. up' = "none" /\ rec'.shots = {}
        BY <1>11 DEF Lab!WM!CloseSessionCleanly, Lab!WM!Closes, Lab!WM!NoRec
  <2>. QED  BY <1>11, <2>1 DEF WindTold, Lab!WM!ConditionSticks
<1>12. CASE Lab!WM!Resume
  <2>. DEFINE c == Lab!WM!Recovered(rec)
              last == Lab!WM!MaxId(Lab!WM!RecordedIds)
  <2>1. /\ up = "down" /\ rec.on /\ up' = "live" /\ rec' = rec
        /\ ctl' = [c EXCEPT !.last = last]
        /\ hist' = [hist EXCEPT !.resumes = @ + 1]
        BY <1>12 DEF Lab!WM!Resume, Lab!WM!Resumes
  <2>2. c \in WindCtl /\ c.phase = rec.phase /\ c.wind = rec.wind
        BY <1>1 DEF WindRec, WindCtl, Winds, Lab!WM!Recovered, Lab!WM!Idle
  <2>. HIDE DEF c, last
  <2>3. ctl'.phase = rec.phase /\ ctl'.wind = rec.wind
        BY <2>1, <2>2 DEF WindCtl
  <2>4. hist'.told = rec.wind
        BY <1>1, <2>1 DEF WindTold
  <2>5. /\ rec'.shots = rec.shots /\ up' = "live" /\ rec'.on
        /\ rec'.phase = rec.phase /\ rec'.wind = rec.wind
        BY <2>1
  <2>6. WindTold'
        BY ONLY <2>3, <2>4, <2>5 DEF WindTold
  <2>. QED  BY <1>4, <2>5, <2>6
<1>13. CASE Lab!WM!Crash
  <2>1. /\ up = "live" /\ up' = "down" /\ UNCHANGED <<ctl, rec, hist>>
        BY <1>13 DEF Lab!WM!Crash
  <2>. QED  BY <1>2, <1>4, <2>1 DEF WindTold
<1>14. CASE UNCHANGED labVars
  <2>1. UNCHANGED <<up, ctl, rec, hist>>
        BY <1>14 DEF labVars
  <2>. QED  BY <1>4, <2>1 DEF WindTold
<1>. QED  BY <1>5, <1>6, <1>7, <1>8, <1>9, <1>10, <1>11, <1>12, <1>13, <1>14
          DEF Lab!WM!Next

LEMMA WindInPlace ==
    ASSUME WindInv, WindTold
    PROVE  Lab!WM!ResumesInPlace
<1>. SUFFICES ASSUME Lab!WM!Resume
              PROVE  ctl'.phase = ctl.phase /\ ctl'.wind = ctl.wind
     BY DEF Lab!WM!ResumesInPlace
<1>. DEFINE c == Lab!WM!Recovered(rec)
            last == Lab!WM!MaxId(Lab!WM!RecordedIds)
<1>1. up = "down" /\ rec.on /\ ctl' = [c EXCEPT !.last = last]
      BY DEF Lab!WM!Resume, Lab!WM!Resumes
<1>2. ctl \in WindCtl /\ rec \in WindRec
      BY DEF WindInv, WindType
<1>3. c \in WindCtl /\ c.phase = rec.phase /\ c.wind = rec.wind
      BY <1>2 DEF WindRec, WindCtl, Winds, Lab!WM!Recovered, Lab!WM!Idle
<1>. HIDE DEF c, last
<1>5. ctl'.phase = rec.phase /\ ctl'.wind = rec.wind
      BY <1>1, <1>3 DEF WindCtl
<1>6. ctl.phase = rec.phase /\ ctl.wind = rec.wind
      BY <1>1 DEF WindTold
<1>. QED  BY <1>5, <1>6

\* Call & Diagnose: what the phase says of the journal.
CallsTold ==
    rec.on /\ ~rec.done /\ up # "none" =>
        /\ ctl.phase \in 1 .. 4
        /\ ctl.phase = 1 <=> rec.sighting \/ ~rec.calling
        /\ ctl.phase = 3 <=> Waiting(rec.shots) # {}
        /\ ctl.phase # 1 => ctl.pos = rec.pos

LEMMA CallsGoes ==
    ASSUME CallsInv', NEW h, NEW c, NEW r, Goes(h, c, r),
           r.on /\ ~r.done => /\ c.phase \in 1 .. 4
                              /\ c.phase = 1 <=> r.sighting \/ ~r.calling
    PROVE  CallsTold'
<1>1. ctl' = c /\ rec' = r /\ up' = "live"
      BY DEF Goes
<1>2. /\ ctl'.phase \in 2 .. 4 => ctl'.pos = rec'.pos
      /\ ctl'.phase = 3 <=> Waiting(rec'.shots) # {}
      BY <1>1 DEF CallsInv, CallsPlace
<1>3. \A p \in 1 .. 4 : p # 1 => p \in 2 .. 4
      OBVIOUS
<1>. QED  BY <1>1, <1>2, <1>3 DEF CallsTold

\* The programme as the journal has it.
CallsKept(r) ==
    r.on = rec.on /\ r.done = rec.done /\ r.sighting = rec.sighting /\ r.calling = rec.calling

LEMMA CallsTells ==
    ASSUME CallsInv, CallsInv', CallsTold, [Lab!CD!Next]_labVars
    PROVE  CallsTold'
<1>. USE DEF Lab!CD!Sighters, Lab!CD!AwaitingShot, Lab!CD!AwaitingCall, Lab!CD!Reveal,
             Lab!CD!Complete
<1>1. ctl \in CallsCtl /\ rec \in CallsRec
      BY CallsFields
<1>2. up = "live" /\ rec.on /\ ~rec.done =>
         ctl.phase \in 1 .. 4 /\ (ctl.phase = 1 <=> rec.sighting \/ ~rec.calling)
      BY DEF CallsTold
<1>3. ASSUME up = "live", NEW c, NEW r, Goes(hist, c, r), CallsKept(r),
             c.phase = ctl.phase \/ (ctl.phase \in 2 .. 4 /\ c.phase \in 2 .. 4)
      PROVE  CallsTold'
  <2>1. \A p \in 2 .. 4 : p \in 1 .. 4 /\ p # 1
        OBVIOUS
  <2>. QED  BY <1>2, <1>3, <2>1, CallsGoes DEF CallsKept
<1>4. CASE Lab!CD!StartCallDiagnose
  <2>. DEFINE c == [Lab!CD!Idle EXCEPT !.phase = 1]
  <2>1. PICK threeP \in BOOLEAN :
           Lab!CD!Starts(c, <<Lab!CD!NoRec,
                              Lab!CD!CallDiagnoseSessionStarted(Lab!CD!NoRec, threeP)>>)
        BY <1>4 DEF Lab!CD!StartCallDiagnose
  <2>. DEFINE r == Lab!CD!CallDiagnoseSessionStarted(Lab!CD!NoRec, threeP)
  <2>2. Goes(FreshHist, c, r) \/ Dies(FreshHist, Lab!CD!NoRec)
        BY <2>1, CallsSubmits DEF Lab!CD!Starts, Lab!CD!NewHist, FreshHist
  <2>3. c.phase = 1 /\ r.sighting /\ ~Lab!CD!NoRec.on
        BY DEF Lab!CD!Idle, Lab!CD!CallDiagnoseSessionStarted, Lab!CD!NoRec
  <2>. HIDE DEF c, r
  <2>4. 1 \in 1 .. 4
        OBVIOUS
  <2>5. CASE Goes(FreshHist, c, r)
        BY <2>3, <2>4, <2>5, CallsGoes
  <2>6. CASE Dies(FreshHist, Lab!CD!NoRec)
        BY <2>3, <2>6 DEF Dies, CallsTold
  <2>. QED  BY <2>2, <2>5, <2>6
<1>5. CASE Lab!CD!StartProgramme
  <2>. DEFINE c == [ctl EXCEPT !.phase = 2]
              r == [rec EXCEPT !.calling = TRUE, !.pos = ctl.pos, !.sighting = FALSE]
  <2>1. Goes(hist, c, r)
        BY <1>5, CallsSubmits
           DEF Lab!CD!StartProgramme, Lab!CD!Does, Lab!CD!Submits, Lab!CD!CallDiagnoseStarted
  <2>2. c.phase = 2 /\ r.calling /\ ~r.sighting
        BY <1>1 DEF CallsCtl, CallsRec
  <2>. HIDE DEF c, r
  <2>3. 2 \in 1 .. 4 /\ 2 # 1
        OBVIOUS
  <2>. QED  BY <2>1, <2>2, <2>3, CallsGoes
<1>6. CASE Lab!CD!RegisterShot
  <2>1. up = "live"
        BY <1>6 DEF Lab!CD!RegisterShot, Lab!CD!Detected
  <2>2. CASE Lab!CD!AcceptSighter(fired + 1)
    <3>. DEFINE c == [ctl EXCEPT !.last = fired + 1]
                r == Lab!CD!TrainingSighterAccepted(rec, fired + 1)
    <3>1. Goes(hist, c, r)
          BY <2>2, CallsSubmits DEF Lab!CD!AcceptSighter, Lab!CD!Submits
    <3>2. c.phase = ctl.phase /\ CallsKept(r)
          BY <1>1 DEF CallsCtl, CallsRec, CallsKept, Lab!CD!TrainingSighterAccepted
    <3>. HIDE DEF c, r
    <3>. QED  BY <1>3, <2>1, <3>1, <3>2
  <2>3. CASE Lab!CD!AcceptActualShot(fired + 1)
    <3>. DEFINE n == Lab!CD!Received(rec, ctl.pos) + 1
                c == [ctl EXCEPT !.phase = 3, !.last = fired + 1, !.placed = FALSE,
                                 !.shot = n]
                r == Lab!CD!CallDiagnoseShotReceived(rec, ctl.pos, n, fired + 1)
    <3>1. Goes(hist, c, r) /\ ctl.phase = 2
          BY <2>3, CallsSubmits DEF Lab!CD!AcceptActualShot, Lab!CD!Submits
    <3>. HIDE DEF n
    <3>2. c.phase = 3 /\ CallsKept(r)
          BY <1>1 DEF CallsCtl, CallsRec, CallsKept, Lab!CD!CallDiagnoseShotReceived
    <3>. HIDE DEF c, r
    <3>3. 2 \in 2 .. 4 /\ 3 \in 2 .. 4
          OBVIOUS
    <3>. QED  BY <1>3, <2>1, <3>1, <3>2, <3>3
  <2>4. CASE Lab!CD!RefuseShot(fired + 1)
    <3>1. Goes(hist, ctl, rec)
          BY <2>4, CallsSubmits DEF Lab!CD!RefuseShot, Lab!CD!Submits
    <3>. QED  BY <1>3, <2>1, <3>1 DEF CallsKept
  <2>. QED  BY <1>6, <2>2, <2>3, <2>4 DEF Lab!CD!RegisterShot
<1>7. ASSUME NEW b \in BOOLEAN, Lab!CD!Does([ctl EXCEPT !.placed = b], <<>>)
      PROVE  CallsTold'
  <2>. DEFINE c == [ctl EXCEPT !.placed = b]
  <2>1. up = "live" /\ Goes(hist, c, rec)
        BY <1>7, CallsSubmits DEF Lab!CD!Does, Lab!CD!Submits
  <2>2. c.phase = ctl.phase
        BY <1>1 DEF CallsCtl
  <2>. HIDE DEF c
  <2>. QED  BY <1>3, <2>1, <2>2 DEF CallsKept
<1>8. CASE Lab!CD!SubmitCall \/ Lab!CD!ClearCall
      BY <1>7, <1>8 DEF Lab!CD!SubmitCall, Lab!CD!ClearCall
<1>9. CASE Lab!CD!ConfirmCall
  <2>. DEFINE c == [ctl EXCEPT !.phase = 4, !.placed = FALSE]
              r == Lab!CD!CallDiagnoseCallRecorded(rec, ctl.pos, ctl.shot)
  <2>1. up = "live" /\ Goes(hist, c, r) /\ ctl.phase = 3
        BY <1>9, CallsSubmits DEF Lab!CD!ConfirmCall, Lab!CD!Does, Lab!CD!Submits
  <2>2. c.phase = 4 /\ CallsKept(r)
        BY <1>1 DEF CallsCtl, CallsRec, CallsKept, Lab!CD!CallDiagnoseCallRecorded
  <2>. HIDE DEF c, r
  <2>3. 3 \in 2 .. 4 /\ 4 \in 2 .. 4
        OBVIOUS
  <2>. QED  BY <1>3, <2>1, <2>2, <2>3
<1>10. CASE Lab!CD!SaveShotNote
  <2>. DEFINE i == Lab!CD!LastWhere(rec, TRUE)
              r == Lab!CD!CallDiagnoseNoteSaved(rec, rec.shots[i].pos, rec.shots[i].n)
  <2>1. up = "live" /\ Goes(hist, ctl, r)
        BY <1>10, CallsSubmits DEF Lab!CD!SaveShotNote, Lab!CD!Does, Lab!CD!Submits
  <2>. HIDE DEF i
  <2>2. CallsKept(r)
        BY <1>1 DEF CallsRec, CallsKept, Lab!CD!CallDiagnoseNoteSaved
  <2>. HIDE DEF r
  <2>. QED  BY <1>3, <2>1, <2>2
<1>11. CASE Lab!CD!ContinueToNext
  <2>. DEFINE next == [ctl EXCEPT !.phase = 2]
              sights == [ctl EXCEPT !.phase = 1, !.pos = @ + 1]
              sighting == Lab!CD!TrainingSighterPhaseStarted(rec)
              over == [ctl EXCEPT !.phase = 5]
              done == Lab!CD!CallDiagnoseCompleted(rec)
  <2>1. /\ up = "live" /\ ctl.phase = 4
        /\ Goes(hist, next, rec) \/ Goes(hist, sights, sighting) \/ Goes(hist, over, done)
        BY <1>11, CallsSubmits DEF Lab!CD!ContinueToNext, Lab!CD!Does, Lab!CD!Submits
  <2>2. /\ next.phase = 2 /\ sights.phase = 1 /\ sighting.sighting /\ done.done
        BY <1>1 DEF CallsCtl, CallsRec, Lab!CD!TrainingSighterPhaseStarted,
                    Lab!CD!CallDiagnoseCompleted
  <2>. HIDE DEF next, sights, sighting, over, done
  <2>3. 2 \in 2 .. 4 /\ 4 \in 2 .. 4 /\ 1 \in 1 .. 4
        OBVIOUS
  <2>4. CASE Goes(hist, next, rec)
        BY <1>3, <2>1, <2>2, <2>3, <2>4 DEF CallsKept
  <2>5. CASE Goes(hist, sights, sighting)
        BY <2>2, <2>3, <2>5, CallsGoes
  <2>6. CASE Goes(hist, over, done)
        BY <2>2, <2>6, CallsGoes
  <2>. QED  BY <2>1, <2>4, <2>5, <2>6
<1>12. CASE Lab!CD!EndEarly
  <2>. DEFINE c == [ctl EXCEPT !.phase = 5]
              r == Lab!CD!CallDiagnoseCompleted(rec)
  <2>1. Goes(hist, c, r)
        BY <1>12, CallsSubmits DEF Lab!CD!EndEarly, Lab!CD!Does, Lab!CD!Submits
  <2>2. r.done
        BY <1>1 DEF CallsRec, Lab!CD!CallDiagnoseCompleted
  <2>. HIDE DEF c, r
  <2>. QED  BY <2>1, <2>2, CallsGoes
<1>13. CASE Lab!CD!CloseCleanly
       BY <1>13 DEF Lab!CD!CloseCleanly, Lab!CD!Closes, CallsTold
<1>14. CASE Lab!CD!Resume
  <2>. DEFINE c == Lab!CD!Recovered(rec)
              last == Lab!CD!MaxId(Lab!CD!RecordedIds)
              back == [c EXCEPT !.last = last]
  <2>1. /\ up = "down" /\ rec.on /\ ~rec.done
        /\ Goes([hist EXCEPT !.resumes = @ + 1], back, rec)
        BY <1>14 DEF Lab!CD!Resume, Lab!CD!Resumes, Goes
  <2>2. /\ ctl.phase \in 1 .. 4 /\ (ctl.phase = 1 <=> rec.sighting \/ ~rec.calling)
        /\ (ctl.phase = 3 <=> Waiting(rec.shots) # {})
        BY <2>1 DEF CallsTold
  <2>3. /\ c \in CallsCtl
        /\ IF Waiting(rec.shots) # {} THEN c.phase = 3
           ELSE c.phase = IF rec.sighting \/ ~rec.calling THEN 1 ELSE 2
        BY CallsRecovers
  <2>. HIDE DEF c, last
  <2>4. back.phase = c.phase
        BY <2>3 DEF CallsCtl
  <2>. HIDE DEF back
  <2>5. c.phase \in 1 .. 4 /\ (c.phase = 1 <=> rec.sighting \/ ~rec.calling)
        BY <2>2, <2>3
  <2>. QED  BY <2>1, <2>4, <2>5, CallsGoes
<1>15. CASE Lab!CD!Crash
  <2>1. up = "live" /\ UNCHANGED <<ctl, rec>>
        BY <1>15 DEF Lab!CD!Crash
  <2>. QED  BY <2>1 DEF CallsTold
<1>16. CASE UNCHANGED labVars
  <2>1. UNCHANGED <<up, ctl, rec>>
        BY <1>16 DEF labVars
  <2>. QED  BY <2>1 DEF CallsTold
<1>. QED  BY <1>4, <1>5, <1>6, <1>8, <1>9, <1>10, <1>11, <1>12, <1>13, <1>14, <1>15, <1>16
          DEF Lab!CD!Next

LEMMA CallsInPlace ==
    ASSUME CallsInv, CallsTold
    PROVE  Lab!CD!ResumesInPlace
<1>. USE DEF Lab!CD!Sighters, Lab!CD!AwaitingShot, Lab!CD!AwaitingCall, Lab!CD!Reveal
<1>. SUFFICES ASSUME Lab!CD!Resume
              PROVE  /\ ctl'.phase = IF ctl.phase = 4 THEN 2 ELSE ctl.phase
                     /\ ctl.phase # 1 => ctl'.pos = ctl.pos
     BY DEF Lab!CD!ResumesInPlace
<1>. DEFINE c == Lab!CD!Recovered(rec)
            last == Lab!CD!MaxId(Lab!CD!RecordedIds)
<1>1. up = "down" /\ rec.on /\ ~rec.done /\ ctl' = [c EXCEPT !.last = last]
      BY DEF Lab!CD!Resume, Lab!CD!Resumes
<1>2. /\ ctl.phase \in 1 .. 4 /\ (ctl.phase = 1 <=> rec.sighting \/ ~rec.calling)
      /\ (ctl.phase = 3 <=> Waiting(rec.shots) # {})
      /\ ctl.phase # 1 => ctl.pos = rec.pos
      BY <1>1 DEF CallsTold
<1>3. /\ c \in CallsCtl /\ c.pos = rec.pos
      /\ IF Waiting(rec.shots) # {} THEN c.phase = 3
         ELSE c.phase = IF rec.sighting \/ ~rec.calling THEN 1 ELSE 2
      BY CallsRecovers
<1>. HIDE DEF c, last
<1>4. ctl'.phase = c.phase /\ ctl'.pos = c.pos
      BY <1>1, <1>3 DEF CallsCtl
<1>. QED  BY <1>2, <1>3, <1>4
=============================================================================
