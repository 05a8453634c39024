---------------------------- MODULE CoursesProofs ----------------------------
(***************************************************************************)
(* Proofs about the Training Lab as Courses instances it, for every plan,  *)
(* every number of shots and of crashes: no shot is recorded twice, Call & *)
(* Diagnose has at most one shot that waits for its call, blocks,          *)
(* positions and verifications keep to their plan, and a session resumed   *)
(* after a crash goes on where it stood.                                   *)
(***************************************************************************)
EXTENDS TrainingProofs
-----------------------------------------------------------------------------
(* Technical Blocks.                                                       *)

LEMMA BlocksLibrary ==
    /\ \A S : Lab!TB!Cardinality(S) = Cardinality(S)
    /\ \A S : Lab!TB!MaxId(S) = Greatest(S)
    /\ \A S : Lab!TB!Max(S) = CHOOSE x \in S : \A y \in S : x >= y
<1>1. \A S : Lab!TB!Cardinality(S) = Cardinality(S)
      BY DEF Lab!TB!Cardinality, Cardinality
<1>2. \A S : Lab!TB!MaxId(S) = Greatest(S)
      BY DEF Lab!TB!MaxId, Lab!TB!Max, Greatest
<1>3. \A S : Lab!TB!Max(S) = CHOOSE x \in S : \A y \in S : x >= y
      BY DEF Lab!TB!Max
<1>. QED  BY <1>1, <1>2, <1>3

LEMMA BlocksSubmits ==
    ASSUME NEW h, NEW c, NEW a, NEW b
    PROVE  /\ Lab!TB!SubmitsFrom(h, c, <<>>) => Goes(h, c, rec)
           /\ Lab!TB!SubmitsFrom(h, c, <<a>>) => Goes(h, c, a)
           /\ Lab!TB!SubmitsFrom(h, c, <<a, b>>) => Goes(h, c, b) \/ Dies(h, a)
<1>1. Lab!TB!SubmitsFrom(h, c, <<>>) => Goes(h, c, rec)
      BY DEF Lab!TB!SubmitsFrom, Goes
<1>2. Lab!TB!SubmitsFrom(h, c, <<a>>) => Goes(h, c, a)
      BY DEF Lab!TB!SubmitsFrom, Lab!TB!Last, Goes
<1>3. Lab!TB!SubmitsFrom(h, c, <<a, b>>) => Goes(h, c, b) \/ Dies(h, a)
      BY DEF Lab!TB!SubmitsFrom, Lab!TB!Last, Goes, Dies
<1>. QED  BY <1>1, <1>2, <1>3

BlockIds == 1 .. BlockCount
BlocksCtl == [phase : 0 .. 4, block : 0 .. BlockCount, last : Nat]
BlocksRec ==
    [on : BOOLEAN, done : BOOLEAN, threeP : BOOLEAN, sighting : BOOLEAN,
     before : Nat, block : 0 .. BlockCount, begun : SUBSET BlockIds, full : SUBSET BlockIds,
     noted : SUBSET BlockIds, sighters : SUBSET Nat, shots : [BlockIds -> SUBSET Nat]]
BlocksType ==
    /\ ctl \in BlocksCtl /\ rec \in BlocksRec
    /\ \A b \in BlockIds : IsFiniteSet(rec.shots[b])

\* The blocks begun are the first ones, and all of them but the current one
\* are complete.
BlocksOrder(r) ==
    /\ r.begun = 1 .. r.block /\ r.noted \subseteq r.full
    /\ r.full = 1 .. r.block \/ r.full = 1 .. r.block - 1
    /\ r.on /\ r.sighting => /\ r.before = r.block + 1 /\ r.block < BlockCount
                             /\ r.full = 1 .. r.block
    /\ r.on /\ ~r.sighting => r.block > 0

BlocksQuota(r, h) ==
    /\ \A b \in BlockIds :
          /\ Cardinality(r.shots[b]) <= ShotsPerBlock
          /\ b \in r.full => Cardinality(r.shots[b]) = ShotsPerBlock
          /\ b > r.block => r.shots[b] = {}
    /\ r.block \in BlockIds \ r.full /\ ~h.cut => Cardinality(r.shots[r.block]) < ShotsPerBlock

BlocksIds(r) ==
    \A b \in BlockIds : /\ r.shots[b] \cap r.sighters = {}
                        /\ \A a \in 1 .. b - 1 : r.shots[a] \cap r.shots[b] = {}

\* Where the controller stands with respect to the journal.
BlocksPlace(c, r) ==
    /\ r.on /\ c.phase \in 1 .. 4 /\ c.block = r.block
    /\ c.phase = 1 <=> r.sighting
    /\ c.phase = 2 <=> ~r.sighting /\ r.block \notin r.full

BlocksIdsOf(r) == r.sighters \cup UNION {r.shots[b] : b \in BlockIds}

BlocksInv ==
    /\ CommonType /\ BlocksType /\ BlocksOrder(rec) /\ BlocksQuota(rec, hist) /\ BlocksIds(rec)
    /\ up = "live" => BlocksPlace(ctl, rec)
    /\ IdsSeen(BlocksIdsOf(rec))
    /\ up = "live" => LastIsRecorded(BlocksIdsOf(rec))

LEMMA BlocksNumbers ==
    /\ BlockCount \in Nat \ {0} /\ ShotsPerBlock \in Nat \ {0}
    /\ BlockIds = Lab!TB!BlockIds
BY LabAssumption
   DEF Lab!TrainingAssumption, Lab!TB!BlocksAssumption, BlockIds, Lab!TB!BlockIds

LEMMA BlocksFields ==
    ASSUME BlocksInv
    PROVE  /\ ctl \in BlocksCtl /\ ctl.phase \in 0 .. 4 /\ ctl.block \in 0 .. BlockCount
           /\ ctl.last \in Nat
           /\ rec \in BlocksRec /\ rec.block \in 0 .. BlockCount /\ rec.sighters \in SUBSET Nat
           /\ rec.begun \in SUBSET BlockIds /\ rec.full \in SUBSET BlockIds
           /\ rec.noted \in SUBSET BlockIds /\ rec.before \in Nat
           /\ rec.shots \in [BlockIds -> SUBSET Nat]
           /\ \A b \in BlockIds : /\ IsFiniteSet(rec.shots[b])
                                  /\ Cardinality(rec.shots[b]) \in Nat
           /\ BlockCount \in Nat \ {0} /\ ShotsPerBlock \in Nat \ {0}
           /\ fired \in Nat /\ fired + 1 \in Nat
<1>1. /\ ctl \in BlocksCtl /\ ctl.phase \in 0 .. 4 /\ ctl.block \in 0 .. BlockCount
      /\ ctl.last \in Nat
      BY DEF BlocksInv, BlocksType, BlocksCtl
<1>2. /\ rec \in BlocksRec /\ rec.block \in 0 .. BlockCount /\ rec.sighters \in SUBSET Nat
      /\ rec.begun \in SUBSET BlockIds /\ rec.full \in SUBSET BlockIds
      /\ rec.noted \in SUBSET BlockIds /\ rec.before \in Nat
      /\ rec.shots \in [BlockIds -> SUBSET Nat]
      BY DEF BlocksInv, BlocksType, BlocksRec
<1>3. \A b \in BlockIds : IsFiniteSet(rec.shots[b]) /\ Cardinality(rec.shots[b]) \in Nat
      BY FS_CardinalityType DEF BlocksInv, BlocksType
<1>. QED  BY <1>1, <1>2, <1>3, BlocksNumbers DEF BlocksInv, CommonType

\* A journal with no shots, at the start of a session or without one.
LEMMA BlocksStart ==
    ASSUME CommonType', ctl' \in BlocksCtl, rec' \in BlocksRec,
           rec'.shots = [b \in BlockIds |-> {}], rec'.sighters = {},
           rec'.block = 0, rec'.begun = {}, rec'.full = {}, rec'.noted = {},
           rec'.on => rec'.sighting /\ rec'.before = 1, fired' = 0,
           up' = "live" => /\ ctl'.last = 0 /\ ctl'.block = 0 /\ ctl'.phase = 1
                           /\ rec'.on
    PROVE  BlocksInv'
<1>1. \A b \in BlockIds : rec'.shots[b] = {}
      OBVIOUS
<1>2. IsFiniteSet({}) /\ Cardinality({}) = 0
      BY FS_EmptySet
<1>3. BlocksType'
      BY <1>1, <1>2 DEF BlocksType
<1>4. BlocksOrder(rec')
      BY BlocksNumbers DEF BlocksOrder
<1>5. BlocksQuota(rec', hist')
  <2>1. 0 \notin BlockIds
        BY BlocksNumbers DEF BlockIds
  <2>. QED  BY <1>1, <1>2, <2>1, BlocksNumbers DEF BlocksQuota
<1>6. BlocksIds(rec')
  <2>1. \A b \in BlockIds : \A a \in 1 .. b - 1 : rec'.shots[a] \cap rec'.shots[b] = {}
        BY <1>1
  <2>. QED  BY <1>1, <2>1 DEF BlocksIds
<1>7. BlocksIdsOf(rec') = {}
      BY <1>1 DEF BlocksIdsOf
<1>8. (up = "live" => BlocksPlace(ctl, rec))'
      BY DEF BlocksPlace
<1>9. IdsSeen(BlocksIdsOf(rec))' /\ (up = "live" => LastIsRecorded(BlocksIdsOf(rec)))'
      BY <1>7 DEF IdsSeen, LastIsRecorded
<1>. QED  BY <1>3, <1>4, <1>5, <1>6, <1>8, <1>9 DEF BlocksInv

\* A handler that accepts no shot.
LEMMA BlocksKeeps ==
    ASSUME BlocksInv, CommonType', ctl' \in BlocksCtl, rec' \in BlocksRec,
           rec'.shots = rec.shots, rec'.sighters = rec.sighters,
           fired' \in {fired, fired + 1}, BlocksOrder(rec'), BlocksQuota(rec', hist'),
           up' = "live" =>
               up = "live" /\ ctl'.last = ctl.last /\ BlocksPlace(ctl', rec')
    PROVE  BlocksInv'
<1>1. BlocksIdsOf(rec') = BlocksIdsOf(rec)
      BY DEF BlocksIdsOf
<1>2. BlocksIds(rec') /\ BlocksType'
      BY DEF BlocksInv, BlocksIds, BlocksType
<1>3. IdsSeen(BlocksIdsOf(rec))'
      BY <1>1, BlocksFields DEF BlocksInv, IdsSeen
<1>4. (up = "live" => LastIsRecorded(BlocksIdsOf(rec)))'
      BY <1>1 DEF BlocksInv, LastIsRecorded
<1>. QED  BY <1>2, <1>3, <1>4 DEF BlocksInv

\* A handler that accepts the shot that was detected.
LEMMA BlocksAdds ==
    ASSUME BlocksInv, CommonType', ctl' \in BlocksCtl, rec' \in BlocksRec,
           fired' = fired + 1, BlocksIdsOf(rec') = BlocksIdsOf(rec) \cup {fired + 1},
           \A b \in BlockIds : IsFiniteSet(rec'.shots[b]),
           BlocksOrder(rec'), BlocksQuota(rec', hist'), BlocksIds(rec'),
           up' = "live" => ctl'.last = fired + 1 /\ BlocksPlace(ctl', rec')
    PROVE  BlocksInv'
<1>. DEFINE ids == BlocksIdsOf(rec)
<1>1. ids \in SUBSET (1 .. fired) /\ fired \in Nat
      BY BlocksFields DEF BlocksInv, IdsSeen
<1>2. /\ ids \cup {fired + 1} \in SUBSET (1 .. fired + 1)
      /\ \A x \in ids \cup {fired + 1} : x <= fired + 1
      BY <1>1
<1>3. IdsSeen(BlocksIdsOf(rec))'
      BY <1>1, <1>2 DEF IdsSeen
<1>4. (up = "live" => LastIsRecorded(BlocksIdsOf(rec)))'
      BY DEF LastIsRecorded
<1>. QED  BY <1>3, <1>4 DEF BlocksInv, BlocksType

\* A command changes the controller, and marks or opens a block.
LEMMA BlocksCommands ==
    ASSUME BlocksInv, up = "live", fired' = fired, NEW c \in BlocksCtl, NEW r \in BlocksRec,
           Goes(hist, c, r), r.shots = rec.shots, r.sighters = rec.sighters,
           c.last = ctl.last, BlocksOrder(r), BlocksQuota(r, hist), BlocksPlace(c, r)
    PROVE  BlocksInv'
<1>1. ctl' = c /\ up' = "live" /\ hist' = hist /\ rec' = r
      BY DEF Goes
<1>2. CommonType'
      BY <1>1 DEF BlocksInv, CommonType
<1>. QED  BY <1>1, <1>2, BlocksKeeps

\* The next block begins, from the sighters or from the review.
LEMMA BlockBegins ==
    ASSUME BlocksInv, up = "live", fired' = fired, rec.full = 1 .. rec.block, rec.on,
           rec.block < BlockCount, ctl.block = rec.block,
           Goes(hist, [ctl EXCEPT !.phase = 2, !.block = ctl.block + 1],
                Lab!TB!TrainingBlockStarted(rec, ctl.block + 1))
    PROVE  BlocksInv'
<1>. DEFINE b == rec.block + 1
            c == [ctl EXCEPT !.phase = 2, !.block = b]
            r == [rec EXCEPT !.block = b, !.sighting = FALSE, !.begun = @ \cup {b}]
<1>1. Goes(hist, c, r)
      BY DEF Lab!TB!TrainingBlockStarted
<1>2. b \in BlockIds /\ b \in 1 .. BlockCount /\ b \in 0 .. BlockCount /\ b \in Nat
      BY BlocksFields DEF BlockIds
<1>3. c \in BlocksCtl /\ c.phase = 2 /\ c.block = b /\ c.last = ctl.last
  <2>1. 2 \in 0 .. 4 /\ ctl \in BlocksCtl
        BY BlocksFields
  <2>. HIDE DEF b
  <2>2. c \in BlocksCtl
        BY <1>2, <2>1, Zenon DEF BlocksCtl
  <2>. QED  BY <2>1, <2>2 DEF BlocksCtl
<1>4. /\ r.block = b /\ r.sighting = FALSE /\ r.begun = rec.begun \cup {b}
      /\ r.full = rec.full /\ r.noted = rec.noted /\ r.on = rec.on
      /\ r.shots = rec.shots /\ r.sighters = rec.sighters
  <2>. HIDE DEF b
  <2>. QED  BY BlocksFields DEF BlocksRec
<1>5. r \in BlocksRec
  <2>1. rec.begun \cup {b} \in SUBSET BlockIds
        BY <1>2, BlocksFields
  <2>. HIDE DEF b
  <2>. QED  BY <1>2, <2>1, BlocksFields, Zenon DEF BlocksRec
<1>6. BlocksOrder(r)
  <2>1. rec.begun = 1 .. rec.block /\ rec.noted \subseteq rec.full
        BY DEF BlocksInv, BlocksOrder
  <2>2. (1 .. rec.block) \cup {b} = 1 .. b /\ b - 1 = rec.block /\ b > 0
        BY BlocksFields
  <2>. HIDE DEF b, r
  <2>. QED  BY <1>4, <2>1, <2>2 DEF BlocksOrder
<1>7. rec.shots[b] = {} /\ b \notin rec.full
      BY <1>2, BlocksFields DEF BlocksInv, BlocksQuota
<1>8. BlocksQuota(r, hist)
  <2>1. \A x \in BlockIds : x > b => x > rec.block
        BY BlocksFields DEF BlockIds
  <2>2. Cardinality(rec.shots[b]) < ShotsPerBlock
        BY <1>7, FS_EmptySet, BlocksFields
  <2>3. \A x \in BlockIds :
           /\ Cardinality(rec.shots[x]) <= ShotsPerBlock
           /\ x \in rec.full => Cardinality(rec.shots[x]) = ShotsPerBlock
           /\ x > rec.block => rec.shots[x] = {}
        BY DEF BlocksInv, BlocksQuota
  <2>. HIDE DEF b, r
  <2>. QED  BY <1>4, <2>1, <2>2, <2>3 DEF BlocksQuota
<1>. HIDE DEF b, c, r
<1>9. BlocksPlace(c, r)
      BY <1>3, <1>4, <1>7 DEF BlocksPlace
<1>. QED  BY <1>1, <1>3, <1>4, <1>5, <1>6, <1>8, <1>9, BlocksCommands

\* A shot of a block, the last of which completes it.
LEMMA BlocksRecords ==
    ASSUME BlocksInv, up = "live", fired' = fired + 1, Lab!TB!AcceptShot(fired + 1)
    PROVE  BlocksInv'
<1>. DEFINE b == rec.block
            id == fired + 1
            old == rec.shots[b]
            s == [rec EXCEPT !.shots[b] = @ \cup {id}, !.begun = @ \cup {b}]
            taken == [ctl EXCEPT !.last = id]
            full == [s EXCEPT !.full = @ \cup ({b} \cap s.begun)]
            review == [taken EXCEPT !.phase = 3]
<1>1. /\ ctl.phase = 2 /\ ctl.block = b /\ rec.on /\ ~rec.sighting /\ b \notin rec.full
      /\ Cardinality(old) < ShotsPerBlock
  <2>1. BlocksPlace(ctl, rec) /\ ctl.phase = 2 /\ Lab!TB!RoomInBlock
        BY DEF BlocksInv, Lab!TB!AcceptShot
  <2>. QED  BY <2>1, BlocksLibrary
            DEF BlocksPlace, Lab!TB!RoomInBlock, Lab!TB!ShotsInBlock
<1>2. /\ b \in BlockIds /\ b \in 1 .. BlockCount /\ b \in rec.begun
      /\ rec.begun = 1 .. b /\ rec.full = 1 .. b - 1 /\ rec.noted \subseteq rec.full
  <2>1. BlocksOrder(rec) /\ b > 0
        BY <1>1, BlocksFields DEF BlocksInv, BlocksOrder
  <2>. QED  BY <1>1, <2>1, BlocksFields DEF BlocksOrder, BlockIds
<1>3. /\ IsFiniteSet(old \cup {id}) /\ old \cup {id} \in SUBSET Nat
      /\ Cardinality(old \cup {id}) = Cardinality(old) + 1 /\ Cardinality(old) \in Nat
  <2>1. id \notin old
    <3>1. old \in SUBSET (1 .. fired)
          BY <1>2 DEF BlocksInv, IdsSeen, BlocksIdsOf
    <3>. QED  BY <3>1, BlocksFields
  <2>2. IsFiniteSet(old) /\ old \in SUBSET Nat
        BY <1>2, BlocksFields
  <2>3. id \in Nat
        BY BlocksFields
  <2>. HIDE DEF id, old
  <2>. QED  BY <2>1, <2>2, <2>3, FS_AddElement, FS_CardinalityType
<1>4. \/ Cardinality(old) + 1 < ShotsPerBlock /\ Goes(hist, taken, s)
      \/ /\ Cardinality(old) + 1 = ShotsPerBlock
         /\ Goes(hist, review, full) \/ Dies(hist, s)
  <2>1. Lab!TB!ShotsInBlock = Cardinality(old)
        BY <1>1, BlocksLibrary DEF Lab!TB!ShotsInBlock
  <2>2. Lab!TB!TrainingShotAccepted(rec, ctl.block, id) = s
        BY <1>1 DEF Lab!TB!TrainingShotAccepted
  <2>3. Lab!TB!TrainingBlockCompleted(s, ctl.block) = full
        BY <1>1 DEF Lab!TB!TrainingBlockCompleted
  <2>4. IF Cardinality(old) + 1 < ShotsPerBlock
        THEN Lab!TB!SubmitsFrom(hist, taken, <<s>>)
        ELSE Lab!TB!SubmitsFrom(hist, review, <<s, full>>)
        BY <2>1, <2>2, <2>3 DEF Lab!TB!AcceptShot, Lab!TB!Submits
  <2>. HIDE DEF old, s, full, taken, review
  <2>5. CASE Cardinality(old) + 1 < ShotsPerBlock
        BY <2>4, <2>5, BlocksSubmits
  <2>6. CASE ~(Cardinality(old) + 1 < ShotsPerBlock)
    <3>1. Cardinality(old) + 1 = ShotsPerBlock
          BY <1>1, <1>3, <2>6, BlocksFields
    <3>. QED  BY <2>4, <2>6, <3>1, BlocksSubmits
  <2>. QED  BY <2>5, <2>6
<1>5. /\ s \in BlocksRec /\ s.shots = [rec.shots EXCEPT ![b] = old \cup {id}]
      /\ s.begun = rec.begun /\ s.full = rec.full /\ s.noted = rec.noted
      /\ s.block = b /\ s.on = rec.on /\ s.sighting = rec.sighting
      /\ s.before = rec.before /\ s.sighters = rec.sighters
  <2>. DEFINE sh == [rec.shots EXCEPT ![b] = old \cup {id}]
  <2>1. sh \in [BlockIds -> SUBSET Nat] /\ rec.begun \cup {b} = rec.begun
        BY <1>2, <1>3, BlocksFields
  <2>2. s = [rec EXCEPT !.shots = sh, !.begun = rec.begun]
        BY <2>1
  <2>3. rec \in BlocksRec /\ rec.begun \in SUBSET BlockIds /\ rec.block = b
        BY BlocksFields
  <2>. HIDE DEF s, sh, b
  <2>4. s \in BlocksRec
        BY <2>1, <2>2, <2>3, Zenon DEF BlocksRec
  <2>5. s.shots = sh
        BY <2>2, <2>3 DEF BlocksRec
  <2>6. /\ s.begun = rec.begun /\ s.full = rec.full /\ s.noted = rec.noted
        /\ s.block = rec.block /\ s.on = rec.on /\ s.sighting = rec.sighting
        /\ s.before = rec.before /\ s.sighters = rec.sighters
        BY <2>2, <2>3 DEF BlocksRec
  <2>. QED  BY <2>3, <2>4, <2>5, <2>6 DEF sh
<1>6. /\ full \in BlocksRec /\ full.shots = s.shots /\ full.begun = rec.begun
      /\ full.full = 1 .. b /\ full.noted = rec.noted /\ full.block = b
      /\ full.on = rec.on /\ full.sighting = rec.sighting /\ full.before = rec.before
      /\ full.sighters = rec.sighters
  <2>1. s.full \cup ({b} \cap s.begun) = 1 .. b
        BY <1>2, <1>5
  <2>2. 1 .. b \in SUBSET BlockIds
        BY <1>2, BlocksFields
  <2>3. full = [s EXCEPT !.full = 1 .. b]
        BY <2>1
  <2>. HIDE DEF s, full, b
  <2>4. full \in BlocksRec
        BY <1>5, <2>2, <2>3, Zenon DEF BlocksRec
  <2>. QED  BY <1>5, <2>3, <2>4 DEF BlocksRec
<1>7. /\ taken \in BlocksCtl /\ taken.last = id /\ taken.phase = 2 /\ taken.block = b
      /\ review \in BlocksCtl /\ review.last = id /\ review.phase = 3 /\ review.block = b
  <2>1. id \in Nat /\ 3 \in 0 .. 4 /\ ctl \in BlocksCtl
        BY BlocksFields
  <2>. HIDE DEF id, b
  <2>2. taken \in BlocksCtl /\ taken.last = id /\ taken.phase = 2 /\ taken.block = b
        BY <1>1, <2>1 DEF BlocksCtl
  <2>. HIDE DEF taken
  <2>3. review \in BlocksCtl
        BY <2>1, <2>2, Zenon DEF BlocksCtl
  <2>. QED  BY <2>1, <2>2, <2>3 DEF BlocksCtl
<1>. DEFINE sh == [rec.shots EXCEPT ![b] = old \cup {id}]
<1>8. /\ sh[b] = old \cup {id}
      /\ \A a \in BlockIds : a # b => sh[a] = rec.shots[a]
      /\ \A a \in BlockIds : IsFiniteSet(sh[a])
      BY <1>2, <1>3, BlocksFields
<1>9. s.shots = sh /\ full.shots = sh
      BY <1>5, <1>6
<1>10. /\ old \in SUBSET Nat /\ b \in Nat /\ fired \in Nat /\ ShotsPerBlock \in Nat
       /\ \A a \in BlockIds : a \in Nat
       /\ BlocksIdsOf(rec) \in SUBSET (1 .. fired)
       BY <1>2, BlocksFields DEF BlocksInv, IdsSeen, BlockIds
<1>11. /\ \A a \in BlockIds : rec.shots[a] \cap rec.sighters = {}
       /\ \A a \in BlockIds : \A c \in 1 .. a - 1 : rec.shots[c] \cap rec.shots[a] = {}
       /\ \A a \in BlockIds : id \notin rec.shots[a]
       /\ id \notin rec.sighters
  <2>1. id \notin BlocksIdsOf(rec)
        BY <1>10
  <2>. HIDE DEF id
  <2>. QED  BY <2>1 DEF BlocksInv, BlocksIds, BlocksIdsOf
<1>. HIDE DEF s, full, taken, review, sh, old, id
<1>12. ASSUME NEW r, r.shots = sh, r.sighters = rec.sighters
       PROVE  /\ BlocksIds(r) /\ BlocksIdsOf(r) = BlocksIdsOf(rec) \cup {id}
  <2>1. \A a \in BlockIds : sh[a] \cap rec.sighters = {}
        BY <1>8, <1>11 DEF old
  <2>2. ASSUME NEW a \in BlockIds, NEW c \in 1 .. a - 1
        PROVE  sh[c] \cap sh[a] = {}
    <3>1. c \in BlockIds /\ c # a
          BY <1>10, BlocksNumbers DEF BlockIds
    <3>2. rec.shots[c] \cap rec.shots[a] = {} /\ id \notin rec.shots[c] /\ id \notin rec.shots[a]
          BY <1>11, <3>1
    <3>. QED  BY <1>8, <3>1, <3>2 DEF old
  <2>3. ASSUME NEW x
        PROVE  x \in BlocksIdsOf(r) <=> x \in BlocksIdsOf(rec) \cup {id}
    <3>1. x \in BlocksIdsOf(r) <=> x \in rec.sighters \/ \E a \in BlockIds : x \in sh[a]
          BY <1>12 DEF BlocksIdsOf
    <3>2. x \in BlocksIdsOf(rec) <=>
              x \in rec.sighters \/ \E a \in BlockIds : x \in rec.shots[a]
          BY DEF BlocksIdsOf
    <3>3. (\E a \in BlockIds : x \in sh[a]) <=>
              (\E a \in BlockIds : x \in rec.shots[a]) \/ x = id
          BY <1>2, <1>8 DEF old
    <3>. QED  BY <3>1, <3>2, <3>3
  <2>4. BlocksIdsOf(r) = BlocksIdsOf(rec) \cup {id}
        BY <2>3
  <2>. QED  BY <1>12, <2>1, <2>2, <2>4 DEF BlocksIds
<1>13. \A a \in BlockIds :
          /\ Cardinality(sh[a]) <= ShotsPerBlock
          /\ a \in 1 .. b - 1 => Cardinality(sh[a]) = ShotsPerBlock
          /\ a > b => sh[a] = {}
  <2>1. \A a \in BlockIds :
           /\ Cardinality(rec.shots[a]) <= ShotsPerBlock
           /\ a \in rec.full => Cardinality(rec.shots[a]) = ShotsPerBlock
           /\ a > b => rec.shots[a] = {}
        BY DEF BlocksInv, BlocksQuota
  <2>2. Cardinality(sh[b]) <= ShotsPerBlock /\ ~ (b > b) /\ b \notin 1 .. b - 1
        BY <1>1, <1>3, <1>8, <1>10
  <2>. HIDE DEF b
  <2>. QED  BY <1>2, <1>8, <2>1, <2>2
<1>14. Cardinality(sh[b]) = Cardinality(old) + 1
       BY <1>3, <1>8
<1>15. BlocksOrder(s) /\ BlocksOrder(full)
  <2>1. b > 0
        BY <1>2
  <2>2. 1 .. b - 1 \subseteq 1 .. b
        BY <1>2
  <2>. HIDE DEF b
  <2>. QED  BY <1>1, <1>2, <1>5, <1>6, <2>1, <2>2 DEF BlocksOrder
<1>16. CASE Cardinality(old) + 1 < ShotsPerBlock /\ Goes(hist, taken, s)
  <2>1. ctl' = taken /\ up' = "live" /\ hist' = hist /\ rec' = s
        BY <1>16 DEF Goes
  <2>2. BlocksQuota(s, hist)
        BY <1>2, <1>5, <1>9, <1>13, <1>14, <1>16 DEF BlocksQuota
  <2>3. BlocksPlace(taken, s)
        BY <1>1, <1>5, <1>7 DEF BlocksPlace
  <2>4. BlocksIds(s) /\ BlocksIdsOf(s) = BlocksIdsOf(rec) \cup {id}
        BY <1>5, <1>9, <1>12
  <2>5. CommonType'
        BY <2>1, <1>10 DEF BlocksInv, CommonType
  <2>. QED  BY <1>5, <1>7, <1>8, <1>9, <1>15, <2>1, <2>2, <2>3, <2>4, <2>5, BlocksAdds
            DEF id
<1>17. CASE Cardinality(old) + 1 = ShotsPerBlock /\ Goes(hist, review, full)
  <2>1. ctl' = review /\ up' = "live" /\ hist' = hist /\ rec' = full
        BY <1>17 DEF Goes
  <2>2. BlocksQuota(full, hist)
    <3>1. \A a \in BlockIds : a \in 1 .. b => a \in 1 .. b - 1 \/ a = b
          BY <1>10
    <3>2. b \in 1 .. b
          BY <1>2
    <3>. HIDE DEF b
    <3>. QED  BY <1>2, <1>6, <1>9, <1>13, <1>14, <1>17, <3>1, <3>2 DEF BlocksQuota
  <2>3. BlocksPlace(review, full)
    <3>1. b \in 1 .. b
          BY <1>2
    <3>. QED  BY <1>1, <1>6, <1>7, <3>1 DEF BlocksPlace
  <2>4. BlocksIds(full) /\ BlocksIdsOf(full) = BlocksIdsOf(rec) \cup {id}
        BY <1>6, <1>9, <1>12
  <2>5. CommonType'
        BY <2>1, <1>10 DEF BlocksInv, CommonType
  <2>. QED  BY <1>6, <1>7, <1>8, <1>9, <1>15, <2>1, <2>2, <2>3, <2>4, <2>5, BlocksAdds
            DEF id
<1>18. CASE Cardinality(old) + 1 = ShotsPerBlock /\ Dies(hist, s)
  <2>1. ctl' = ctl /\ up' = "down" /\ hist' = [hist EXCEPT !.cut = TRUE] /\ rec' = s
        BY <1>18 DEF Dies
  <2>2. hist'.cut = TRUE /\ CommonType'
    <3>1. hist \in [cut : BOOLEAN, resumes : Nat, told : Winds] /\ fired + 1 \in Nat
          BY BlocksFields DEF BlocksInv, CommonType
    <3>2. /\ [hist EXCEPT !.cut = TRUE] \in [cut : BOOLEAN, resumes : Nat, told : Winds]
          /\ [hist EXCEPT !.cut = TRUE].cut = TRUE
          BY <3>1
    <3>. QED  BY <2>1, <3>1, <3>2 DEF CommonType
  <2>3. BlocksQuota(s, hist')
    <3>1. \A a \in BlockIds :
             /\ Cardinality(s.shots[a]) <= ShotsPerBlock
             /\ a \in s.full => Cardinality(s.shots[a]) = ShotsPerBlock
             /\ a > s.block => s.shots[a] = {}
          BY <1>2, <1>5, <1>9, <1>13
    <3>2. ~hist'.cut => Cardinality(s.shots[s.block]) < ShotsPerBlock
          BY <2>2
    <3>. QED  BY <3>1, <3>2 DEF BlocksQuota
  <2>4. BlocksIds(s) /\ BlocksIdsOf(s) = BlocksIdsOf(rec) \cup {id}
        BY <1>5, <1>9, <1>12
  <2>. QED  BY <1>5, <1>8, <1>9, <1>15, <2>1, <2>2, <2>3, <2>4, BlocksAdds, BlocksFields
            DEF id
<1>. QED  BY <1>4, <1>16, <1>17, <1>18

LEMMA BlocksSights ==
    ASSUME BlocksInv, up = "live", fired' = fired + 1, ctl.phase = 1,
           Goes(hist, [ctl EXCEPT !.last = fired + 1],
                Lab!TB!TrainingSighterAccepted(rec, fired + 1))
    PROVE  BlocksInv'
<1>. DEFINE id == fired + 1
            r == [rec EXCEPT !.sighters = @ \cup {id}]
            c == [ctl EXCEPT !.last = id]
<1>1. ctl' = c /\ up' = "live" /\ hist' = hist /\ rec' = r
      BY DEF Goes, Lab!TB!TrainingSighterAccepted
<1>2. /\ c \in BlocksCtl /\ c.last = id /\ c.phase = ctl.phase /\ c.block = ctl.block
  <2>1. id \in Nat /\ ctl \in BlocksCtl
        BY BlocksFields
  <2>. QED  BY <2>1 DEF BlocksCtl
<1>3. /\ r \in BlocksRec /\ r.shots = rec.shots /\ r.sighters = rec.sighters \cup {id}
      /\ r.begun = rec.begun /\ r.full = rec.full /\ r.noted = rec.noted
      /\ r.block = rec.block /\ r.on = rec.on /\ r.sighting = rec.sighting
      /\ r.before = rec.before
  <2>1. rec.sighters \cup {id} \in SUBSET Nat /\ rec \in BlocksRec
        BY BlocksFields
  <2>. HIDE DEF id
  <2>. QED  BY <2>1 DEF BlocksRec
<1>4. BlocksIdsOf(rec) \in SUBSET (1 .. fired) /\ fired \in Nat
      BY BlocksFields DEF BlocksInv, IdsSeen
<1>5. \A b \in BlockIds : id \notin rec.shots[b]
  <2>1. id \notin BlocksIdsOf(rec)
        BY <1>4
  <2>. QED  BY <2>1 DEF BlocksIdsOf
<1>. HIDE DEF id, r, c
<1>6. BlocksIds(r)
      BY <1>3, <1>5 DEF BlocksInv, BlocksIds
<1>7. BlocksIdsOf(r) = BlocksIdsOf(rec) \cup {id}
  <2>1. \A x : x \in BlocksIdsOf(r) <=> x \in BlocksIdsOf(rec) \cup {id}
        BY <1>3 DEF BlocksIdsOf
  <2>. QED  BY <2>1
<1>8. BlocksOrder(r) /\ BlocksQuota(r, hist)
      BY <1>3 DEF BlocksInv, BlocksOrder, BlocksQuota
<1>9. BlocksPlace(c, r)
      BY <1>2, <1>3 DEF BlocksInv, BlocksPlace
<1>10. CommonType' /\ \A b \in BlockIds : IsFiniteSet(r.shots[b])
       BY <1>1, <1>3, BlocksFields DEF BlocksInv, CommonType
<1>. QED  BY <1>1, <1>2, <1>3, <1>6, <1>7, <1>8, <1>9, <1>10, BlocksAdds DEF id

LEMMA BlocksContinues ==
    ASSUME BlocksInv, Lab!TB!ContinueToNextBlock
    PROVE  BlocksInv'
<1>. DEFINE b == rec.block
<1>1. /\ up = "live" /\ fired' = fired /\ ctl.phase = 3 /\ ctl.block = b
      /\ rec.on /\ ~rec.sighting /\ b \in rec.full
  <2>1. up = "live" /\ fired' = fired /\ ctl.phase = 3
        BY DEF Lab!TB!ContinueToNextBlock, Lab!TB!Does, Lab!TB!Submits
  <2>. QED  BY <2>1 DEF BlocksInv, BlocksPlace
<1>2. rec.full = 1 .. b /\ rec.begun = 1 .. b /\ b > 0 /\ rec.noted \subseteq rec.full
  <2>1. b \notin 1 .. b - 1 /\ BlocksOrder(rec)
        BY BlocksFields DEF BlocksInv
  <2>. QED  BY <1>1, <2>1 DEF BlocksOrder
<1>3. CASE ctl.block >= BlockCount
  <2>. DEFINE c == [ctl EXCEPT !.phase = 4]
              r == [rec EXCEPT !.done = TRUE]
  <2>1. Goes(hist, c, r)
        BY <1>3, BlocksSubmits
           DEF Lab!TB!ContinueToNextBlock, Lab!TB!Does, Lab!TB!Submits, Lab!TB!TrainingCompleted
  <2>2. c \in BlocksCtl /\ c.phase = 4 /\ c.block = b /\ c.last = ctl.last
        BY <1>1, BlocksFields DEF BlocksCtl
  <2>3. /\ r \in BlocksRec /\ r.shots = rec.shots /\ r.sighters = rec.sighters
        /\ r.begun = rec.begun /\ r.full = rec.full /\ r.noted = rec.noted
        /\ r.block = b /\ r.on = rec.on /\ r.sighting = rec.sighting /\ r.before = rec.before
        BY BlocksFields DEF BlocksRec
  <2>. HIDE DEF c, r
  <2>4. BlocksOrder(r) /\ BlocksQuota(r, hist)
        BY <2>3 DEF BlocksInv, BlocksOrder, BlocksQuota
  <2>5. BlocksPlace(c, r)
        BY <1>1, <2>2, <2>3 DEF BlocksPlace
  <2>. QED  BY <1>1, <2>1, <2>2, <2>3, <2>4, <2>5, BlocksCommands
<1>4. ASSUME ~(ctl.block >= BlockCount),
             Lab!TB!PositionForBlock(ctl.block + 1) # Lab!TB!PositionForBlock(ctl.block)
      PROVE  BlocksInv'
  <2>. DEFINE c == [ctl EXCEPT !.phase = 1]
              r == [rec EXCEPT !.sighting = TRUE, !.before = b + 1]
  <2>1. Goes(hist, c, r)
    <3>1. Lab!TB!SubmitsFrom(hist, c, <<r>>)
          BY <1>1, <1>4
             DEF Lab!TB!ContinueToNextBlock, Lab!TB!Does, Lab!TB!Submits,
                 Lab!TB!TrainingSighterPhaseStarted
    <3>. QED  BY <3>1, BlocksSubmits
  <2>2. c \in BlocksCtl /\ c.phase = 1 /\ c.block = b /\ c.last = ctl.last
        BY <1>1, BlocksFields DEF BlocksCtl
  <2>3. b + 1 \in Nat /\ b < BlockCount
        BY <1>1, <1>4, BlocksFields
  <2>4. /\ r \in BlocksRec /\ r.shots = rec.shots /\ r.sighters = rec.sighters
        /\ r.begun = rec.begun /\ r.full = rec.full /\ r.noted = rec.noted
        /\ r.block = b /\ r.on = rec.on /\ r.sighting = TRUE /\ r.before = b + 1
        BY <2>3, BlocksFields DEF BlocksRec
  <2>. HIDE DEF c, r
  <2>5. BlocksOrder(r)
        BY <1>1, <1>2, <2>3, <2>4 DEF BlocksOrder
  <2>6. BlocksQuota(r, hist)
        BY <2>4 DEF BlocksInv, BlocksQuota
  <2>7. BlocksPlace(c, r)
        BY <1>1, <2>2, <2>4 DEF BlocksPlace
  <2>. QED  BY <1>1, <2>1, <2>2, <2>4, <2>5, <2>6, <2>7, BlocksCommands
<1>5. ASSUME ~(ctl.block >= BlockCount),
             ~ (Lab!TB!PositionForBlock(ctl.block + 1) # Lab!TB!PositionForBlock(ctl.block))
      PROVE  BlocksInv'
  <2>. DEFINE c == [ctl EXCEPT !.phase = 2, !.block = ctl.block + 1]
              r == Lab!TB!TrainingBlockStarted(rec, ctl.block + 1)
  <2>1. Lab!TB!SubmitsFrom(hist, c, <<r>>)
        BY <1>5 DEF Lab!TB!ContinueToNextBlock, Lab!TB!Does, Lab!TB!Submits
  <2>2. Goes(hist, c, r)
        BY <2>1, BlocksSubmits
  <2>3. rec.block < BlockCount
        BY <1>1, <1>5, BlocksFields
  <2>. QED  BY <1>1, <1>2, <2>2, <2>3, BlockBegins
<1>. QED  BY <1>3, <1>4, <1>5

\* The controller that a resume puts together from the journal.
LEMMA BlocksRecovers ==
    ASSUME BlocksInv, rec.on
    PROVE  LET c == Lab!TB!Recovered(rec)
           IN  c \in BlocksCtl /\ BlocksPlace(c, rec) /\ c.phase # 4
<1>. DEFINE c == Lab!TB!Recovered(rec)
            p == Lab!TB!PhaseRecovered(rec)
<1>1. Lab!TB!BlockRecovered(rec) = rec.block
  <2>1. CASE rec.sighting
    <3>1. rec.before = rec.block + 1
          BY <2>1 DEF BlocksInv, BlocksOrder
    <3>. QED  BY <2>1, <3>1, BlocksFields DEF Lab!TB!BlockRecovered
  <2>2. CASE ~rec.sighting
    <3>1. rec.block > 0 /\ rec.block \in Nat
          BY <2>2, BlocksFields DEF BlocksInv, BlocksOrder
    <3>2. {1, rec.block} \in SUBSET Nat /\ \A y \in {1, rec.block} : y <= rec.block
          BY <3>1
    <3>3. (CHOOSE x \in {1, rec.block} : \A y \in {1, rec.block} : x >= y) = rec.block
          BY <3>2, GreatestIs
    <3>. QED  BY <2>2, <3>3, BlocksLibrary DEF Lab!TB!BlockRecovered
  <2>. QED  BY <2>1, <2>2
<1>2. /\ p \in 1 .. 3 /\ (p = 1 <=> rec.sighting)
      /\ p = 2 <=> ~rec.sighting /\ rec.block \notin rec.full
      BY <1>1 DEF Lab!TB!PhaseRecovered
<1>3. c = [Lab!TB!Idle EXCEPT !.block = rec.block, !.phase = p]
      BY <1>1 DEF Lab!TB!Recovered
<1>. HIDE DEF p, c
<1>4. c.phase = p /\ c.block = rec.block
      BY <1>3 DEF Lab!TB!Idle
<1>5. c \in BlocksCtl
  <2>1. p \in 0 .. 4 /\ 0 \in Nat /\ rec.block \in 0 .. BlockCount
        BY <1>2, BlocksFields
  <2>. QED  BY <1>3, <2>1, Zenon DEF Lab!TB!Idle, BlocksCtl
<1>6. p \in 1 .. 4 /\ p # 4
      BY <1>2
<1>. QED  BY <1>2, <1>4, <1>5, <1>6 DEF BlocksPlace, c

LEMMA BlocksResumes ==
    ASSUME BlocksInv, Lab!TB!Resume
    PROVE  BlocksInv'
<1>. DEFINE ids == BlocksIdsOf(rec)
            c == Lab!TB!Recovered(rec)
<1>1. ids = Lab!TB!RecordedIds
      BY BlocksNumbers DEF Lab!TB!RecordedIds, BlocksIdsOf
<1>2. /\ up' = "live" /\ rec' = rec /\ hist' = [hist EXCEPT !.resumes = @ + 1]
      /\ ctl' = [c EXCEPT !.last = Greatest(ids)] /\ rec.on
      /\ fired' = Greatest(ids)
      BY <1>1, BlocksLibrary DEF Lab!TB!Resume, Lab!TB!Resumes, Lab!TB!NumbersOn
<1>4. /\ c \in BlocksCtl /\ BlocksPlace(c, rec)
      BY <1>2, BlocksRecovers
<1>5. IdsSeen(ids) /\ ids' = ids
      BY <1>2 DEF BlocksInv
<1>. HIDE DEF ids, c
<1>6. ctl'.last = Greatest(ids)
      BY <1>2, <1>4 DEF BlocksCtl
<1>7. /\ CommonType' /\ Greatest(ids) \in Nat /\ IdsSeen(ids)' /\ LastIsRecorded(ids)'
  <2>1. /\ CommonType' /\ Greatest(ids) \in Nat
        /\ ids' \in SUBSET (1 .. fired') /\ ctl'.last \in 0 .. fired'
        /\ \A x \in ids' : x <= ctl'.last
        /\ ctl'.last \in ids' \cup {0}
        BY <1>2, <1>5, <1>6, ResumeSees DEF BlocksInv
  <2>. QED  BY <2>1 DEF IdsSeen, LastIsRecorded
<1>8. ctl' \in BlocksCtl /\ ctl'.phase = c.phase /\ ctl'.block = c.block
      BY <1>2, <1>4, <1>7 DEF BlocksCtl
<1>9. BlocksPlace(ctl', rec')
      BY <1>2, <1>4, <1>8 DEF BlocksPlace
<1>10. hist'.cut = hist.cut
       BY <1>2 DEF BlocksInv, CommonType
<1>11. /\ BlocksType' /\ BlocksOrder(rec') /\ BlocksQuota(rec', hist') /\ BlocksIds(rec')
       BY <1>2, <1>8, <1>10 DEF BlocksInv, BlocksType, BlocksQuota
<1>. QED  BY <1>7, <1>9, <1>11 DEF BlocksInv, ids

LEMMA BlocksStep ==
    ASSUME BlocksInv, [Lab!TB!Next]_labVars
    PROVE  BlocksInv'
<1>1. /\ CommonType /\ ctl \in BlocksCtl /\ rec \in BlocksRec /\ "noReading" \in Winds
      /\ BlocksOrder(rec) /\ BlocksQuota(rec, hist) /\ (up = "live" => BlocksPlace(ctl, rec))
      BY DEF BlocksInv, BlocksType, Winds
<1>2. /\ 0 \in Nat /\ 1 \in Nat /\ 0 \in 0 .. BlockCount /\ 0 \in 0 .. 4 /\ 1 \in 0 .. 4
      /\ {} \in SUBSET BlockIds /\ {} \in SUBSET Nat
      /\ [b \in BlockIds |-> {}] \in [BlockIds -> SUBSET Nat]
      BY BlocksNumbers
<1>3. /\ Lab!TB!NoRec \in BlocksRec /\ Lab!TB!Idle \in BlocksCtl
      /\ Lab!TB!NoRec.shots = [b \in BlockIds |-> {}]
  <2>1. Lab!TB!NoRec = [on |-> FALSE, done |-> FALSE, threeP |-> FALSE, sighting |-> FALSE,
                        before |-> 1, block |-> 0, begun |-> {}, full |-> {}, noted |-> {},
                        sighters |-> {}, shots |-> [b \in BlockIds |-> {}]]
        BY BlocksNumbers DEF Lab!TB!NoRec
  <2>2. Lab!TB!NoRec \in BlocksRec
        BY <1>2, <2>1, Zenon DEF BlocksRec
  <2>3. Lab!TB!Idle \in BlocksCtl
        BY <1>2, Zenon DEF Lab!TB!Idle, BlocksCtl
  <2>. QED  BY <2>1, <2>2, <2>3
<1>4. CASE Lab!TB!StartTraining
  <2>. DEFINE c == [Lab!TB!Idle EXCEPT !.phase = 1]
  <2>1. PICK threeP \in BOOLEAN :
           Lab!TB!Starts(c, <<Lab!TB!NoRec,
                              Lab!TB!TrainingSessionStarted(Lab!TB!NoRec, threeP)>>)
        BY <1>4 DEF Lab!TB!StartTraining
  <2>. DEFINE r == Lab!TB!TrainingSessionStarted(Lab!TB!NoRec, threeP)
  <2>2. (Goes(FreshHist, c, r) \/ Dies(FreshHist, Lab!TB!NoRec)) /\ fired' = 0
        BY <2>1, BlocksSubmits DEF Lab!TB!Starts, Lab!TB!NewHist, FreshHist
  <2>3. c \in BlocksCtl /\ c.last = 0 /\ c.block = 0 /\ c.phase = 1
    <3>1. c \in BlocksCtl
          BY <1>2, <1>3, Zenon DEF BlocksCtl
    <3>. QED  BY <3>1 DEF Lab!TB!Idle
  <2>4. r = [Lab!TB!NoRec EXCEPT !.on = TRUE, !.threeP = threeP, !.sighting = TRUE,
                                 !.before = 1]
        BY DEF Lab!TB!TrainingSessionStarted
  <2>5. r \in BlocksRec
    <3>1. \A x \in BlocksRec :
             [x EXCEPT !.on = TRUE, !.threeP = threeP, !.sighting = TRUE, !.before = 1]
                \in BlocksRec
          BY <1>2, Zenon DEF BlocksRec
    <3>. QED  BY <1>3, <2>4, <3>1
  <2>6. /\ r.shots = [b \in BlockIds |-> {}] /\ r.sighters = {} /\ r.block = 0
        /\ r.begun = {} /\ r.full = {} /\ r.noted = {} /\ r.sighting /\ r.before = 1 /\ r.on
        BY <1>3, <2>4 DEF Lab!TB!NoRec
  <2>7. /\ Lab!TB!NoRec.sighters = {} /\ Lab!TB!NoRec.block = 0
        /\ Lab!TB!NoRec.begun = {} /\ Lab!TB!NoRec.full = {} /\ Lab!TB!NoRec.noted = {}
        /\ ~Lab!TB!NoRec.on
        BY DEF Lab!TB!NoRec
  <2>. HIDE DEF c, r
  <2>8. CommonType'
    <3>1. /\ FreshHist \in [cut : BOOLEAN, resumes : Nat, told : Winds]
          /\ [FreshHist EXCEPT !.cut = TRUE] \in [cut : BOOLEAN, resumes : Nat, told : Winds]
          BY <1>1 DEF FreshHist
    <3>. QED  BY <2>2, <3>1 DEF CommonType, Goes, Dies
  <2>9. CASE Goes(FreshHist, c, r)
        BY <2>2, <2>3, <2>5, <2>6, <2>8, <2>9, BlocksStart DEF Goes
  <2>10. CASE Dies(FreshHist, Lab!TB!NoRec)
         BY <1>1, <1>3, <2>2, <2>7, <2>8, <2>10, BlocksStart DEF Dies
  <2>. QED  BY <2>2, <2>9, <2>10
<1>5. CASE Lab!TB!StartBlock
  <2>1. up = "live" /\ fired' = fired /\ ctl.phase = 1
        BY <1>5 DEF Lab!TB!StartBlock, Lab!TB!Does, Lab!TB!Submits
  <2>2. /\ rec.on /\ rec.sighting /\ ctl.block = rec.block
        /\ rec.block < BlockCount /\ rec.full = 1 .. rec.block
        BY <1>1, <2>1 DEF BlocksPlace, BlocksOrder
  <2>3. Lab!TB!PendingBlock = ctl.block + 1
        BY <2>2 DEF Lab!TB!PendingBlock
  <2>4. Lab!TB!SubmitsFrom(hist, [ctl EXCEPT !.phase = 2, !.block = ctl.block + 1],
                           <<Lab!TB!TrainingBlockStarted(rec, ctl.block + 1)>>)
        BY <1>5, <2>3 DEF Lab!TB!StartBlock, Lab!TB!Does, Lab!TB!Submits
  <2>5. Goes(hist, [ctl EXCEPT !.phase = 2, !.block = ctl.block + 1],
             Lab!TB!TrainingBlockStarted(rec, ctl.block + 1))
        BY <2>4, BlocksSubmits
  <2>. QED  BY <2>1, <2>2, <2>5, BlockBegins
<1>6. CASE Lab!TB!RegisterShot
  <2>1. up = "live" /\ fired' = fired + 1
        BY <1>6 DEF Lab!TB!RegisterShot, Lab!TB!Detected
  <2>2. CASE Lab!TB!AcceptSighter(fired + 1)
        BY <2>1, <2>2, BlocksSubmits, BlocksSights DEF Lab!TB!AcceptSighter, Lab!TB!Submits
  <2>3. CASE Lab!TB!AcceptShot(fired + 1)
        BY <2>1, <2>3, BlocksRecords
  <2>4. CASE Lab!TB!RefuseShot(fired + 1)
    <3>1. Goes(hist, ctl, rec)
          BY <2>4, BlocksSubmits DEF Lab!TB!RefuseShot, Lab!TB!Submits
    <3>2. CommonType'
          BY <1>1, <2>1, <3>1 DEF CommonType, Goes
    <3>. QED  BY <1>1, <2>1, <3>1, <3>2, BlocksKeeps DEF Goes
  <2>. QED  BY <1>6, <2>2, <2>3, <2>4 DEF Lab!TB!RegisterShot
<1>7. CASE Lab!TB!SaveNote
  <2>. DEFINE r == [rec EXCEPT !.noted = @ \cup ({rec.block} \cap rec.begun)]
  <2>1. /\ up = "live" /\ fired' = fired /\ ctl.phase \in {3, 4} /\ ctl.block = rec.block
        /\ Goes(hist, ctl, r)
    <3>1. up = "live" /\ fired' = fired /\ ctl.phase \in {3, 4}
          BY <1>7 DEF Lab!TB!SaveNote, Lab!TB!Does, Lab!TB!Submits
    <3>2. ctl.block = rec.block
          BY <1>1, <3>1 DEF BlocksPlace
    <3>3. Lab!TB!SubmitsFrom(hist, ctl, <<r>>)
          BY <1>7, <3>2
             DEF Lab!TB!SaveNote, Lab!TB!Does, Lab!TB!Submits, Lab!TB!TrainingNoteSaved
    <3>. QED  BY <3>1, <3>2, <3>3, BlocksSubmits
  <2>2. rec.block \in rec.full
        BY <1>1, <2>1 DEF BlocksPlace
  <2>3. /\ rec.noted \cup ({rec.block} \cap rec.begun) \in SUBSET BlockIds
        /\ rec.noted \cup ({rec.block} \cap rec.begun) \subseteq rec.full
        BY <1>1, <2>2, BlocksFields DEF BlocksOrder
  <2>4. /\ r \in BlocksRec /\ r.shots = rec.shots /\ r.sighters = rec.sighters
        /\ r.begun = rec.begun /\ r.full = rec.full
        /\ r.noted = rec.noted \cup ({rec.block} \cap rec.begun)
        /\ r.block = rec.block /\ r.on = rec.on /\ r.sighting = rec.sighting
        /\ r.before = rec.before
    <3>. DEFINE noted == rec.noted \cup ({rec.block} \cap rec.begun)
    <3>1. r = [rec EXCEPT !.noted = noted] /\ noted \in SUBSET BlockIds
          BY <2>3
    <3>. HIDE DEF r, noted
    <3>2. r \in BlocksRec /\ r.noted = noted /\ r.shots = rec.shots
          BY <1>1, <3>1 DEF BlocksRec
    <3>3. /\ r.sighters = rec.sighters /\ r.begun = rec.begun /\ r.full = rec.full
          /\ r.block = rec.block /\ r.on = rec.on /\ r.sighting = rec.sighting
          /\ r.before = rec.before
          BY <1>1, <3>1 DEF BlocksRec
    <3>. QED  BY <3>2, <3>3 DEF noted
  <2>. HIDE DEF r
  <2>5. BlocksOrder(r) /\ BlocksQuota(r, hist)
        BY <1>1, <2>3, <2>4 DEF BlocksOrder, BlocksQuota
  <2>6. BlocksPlace(ctl, r)
        BY <1>1, <2>1, <2>4 DEF BlocksPlace
  <2>. QED  BY <1>1, <2>1, <2>4, <2>5, <2>6, BlocksCommands
<1>8. CASE Lab!TB!ContinueToNextBlock
      BY <1>8, BlocksContinues
<1>9. CASE Lab!TB!EndTrainingEarly
  <2>. DEFINE c == [ctl EXCEPT !.phase = 4]
              r == [rec EXCEPT !.done = TRUE]
  <2>1. up = "live" /\ fired' = fired /\ ctl.phase = 3 /\ Goes(hist, c, r)
    <3>1. ctl.phase = 3 /\ Lab!TB!Submits(c, <<r>>) /\ fired' = fired
          BY <1>9 DEF Lab!TB!EndTrainingEarly, Lab!TB!Does, Lab!TB!TrainingCompleted
    <3>. QED  BY <3>1, BlocksSubmits DEF Lab!TB!Submits
  <2>2. c \in BlocksCtl /\ c.phase = 4 /\ c.block = ctl.block /\ c.last = ctl.last
        BY <1>1 DEF BlocksCtl
  <2>3. /\ r \in BlocksRec /\ r.shots = rec.shots /\ r.sighters = rec.sighters
        /\ r.begun = rec.begun /\ r.full = rec.full /\ r.noted = rec.noted
        /\ r.block = rec.block /\ r.on = rec.on /\ r.sighting = rec.sighting
        /\ r.before = rec.before
        BY <1>1 DEF BlocksRec
  <2>. HIDE DEF c, r
  <2>4. BlocksOrder(r) /\ BlocksQuota(r, hist)
        BY <1>1, <2>3 DEF BlocksOrder, BlocksQuota
  <2>5. BlocksPlace(c, r)
        BY <1>1, <2>1, <2>2, <2>3 DEF BlocksPlace
  <2>. QED  BY <2>1, <2>2, <2>3, <2>4, <2>5, BlocksCommands
<1>10. CASE Lab!TB!CloseCleanly
  <2>1. /\ up' = "none" /\ rec' = Lab!TB!NoRec /\ ctl' = Lab!TB!Idle /\ fired' = 0
        /\ hist' = FreshHist
        BY <1>10 DEF Lab!TB!CloseCleanly, Lab!TB!Closes, Lab!TB!NewHist, FreshHist
  <2>2. CommonType'
        BY <1>1, <2>1 DEF CommonType, FreshHist
  <2>3. /\ Lab!TB!NoRec.sighters = {} /\ Lab!TB!NoRec.block = 0
        /\ Lab!TB!NoRec.begun = {} /\ Lab!TB!NoRec.full = {} /\ Lab!TB!NoRec.noted = {}
        /\ ~Lab!TB!NoRec.on
        BY DEF Lab!TB!NoRec
  <2>. QED  BY <1>3, <2>1, <2>2, <2>3, BlocksStart
<1>11. CASE Lab!TB!Resume
       BY <1>11, BlocksResumes
<1>12. CASE Lab!TB!Crash
  <2>1. /\ up' = "down" /\ UNCHANGED <<ctl, rec, fired, hist>>
        BY <1>12 DEF Lab!TB!Crash
  <2>2. CommonType'
        BY <1>1, <2>1 DEF CommonType
  <2>. QED  BY <1>1, <2>1, <2>2, BlocksKeeps
<1>13. CASE UNCHANGED labVars
  <2>1. UNCHANGED <<up, ctl, rec, fired, hist>>
        BY <1>13 DEF labVars
  <2>2. CommonType'
        BY <1>1, <2>1 DEF CommonType
  <2>. QED  BY <1>1, <2>1, <2>2, BlocksKeeps
<1>. QED  BY <1>4, <1>5, <1>6, <1>7, <1>8, <1>9, <1>10, <1>11, <1>12, <1>13
          DEF Lab!TB!Next

LEMMA BlocksInvImplies ==
    ASSUME BlocksInv
    PROVE  /\ Lab!TB!ShotsRecordedOnce /\ Lab!TB!WithinPlan /\ Lab!TB!RoomForShots
           /\ Lab!TB!InOrder /\ (up = "live" => ctl.last <= fired)
<1>1. Lab!TB!ShotsRecordedOnce
  <2>. DEFINE ids == BlocksIdsOf(rec)
  <2>1. ids = Lab!TB!RecordedIds
        BY BlocksNumbers DEF Lab!TB!RecordedIds, BlocksIdsOf
  <2>2. up = "live" => ctl.last = Greatest(ids)
    <3>1. CommonType /\ IdsSeen(ids) /\ (up = "live" => LastIsRecorded(ids))
          BY DEF BlocksInv
    <3>. HIDE DEF ids
    <3>. QED  BY <3>1, LastIsGreatest
  <2>3. Lab!TB!MaxId(ids) = Greatest(ids)
        BY BlocksLibrary
  <2>4. BlocksIds(rec)
        BY DEF BlocksInv
  <2>. HIDE DEF ids
  <2>. QED  BY <2>1, <2>2, <2>3, <2>4, BlocksNumbers DEF Lab!TB!ShotsRecordedOnce, BlocksIds
<1>2. BlocksQuota(rec, hist) /\ BlocksOrder(rec) /\ (up = "live" => BlocksPlace(ctl, rec))
      BY DEF BlocksInv
<1>3. Lab!TB!WithinPlan
      BY <1>2, BlocksLibrary, BlocksNumbers DEF BlocksQuota, Lab!TB!WithinPlan
<1>4. Lab!TB!RoomForShots
  <2>. SUFFICES ASSUME up = "live", ctl.phase = 2, ~hist.cut
                PROVE  Lab!TB!ShotsInBlock < ShotsPerBlock
       BY DEF Lab!TB!RoomForShots
  <2>1. /\ ctl.block = rec.block /\ rec.on /\ ~rec.sighting /\ rec.block \notin rec.full
        /\ rec.block > 0
        BY <1>2 DEF BlocksPlace, BlocksOrder
  <2>2. rec.block \in BlockIds
        BY <2>1, BlocksFields DEF BlockIds
  <2>. QED  BY <1>2, <2>1, <2>2, BlocksLibrary DEF BlocksQuota, Lab!TB!ShotsInBlock
<1>5. Lab!TB!InOrder
  <2>1. \A b \in rec.begun : 1 .. b - 1 \subseteq rec.full
        BY <1>2, BlocksFields DEF BlocksOrder
  <2>. QED  BY <1>2, <2>1 DEF BlocksOrder, Lab!TB!InOrder
<1>6. up = "live" => ctl.last <= fired
      BY DEF BlocksInv, CommonType, IdsSeen
<1>. QED  BY <1>1, <1>3, <1>4, <1>5, <1>6
-----------------------------------------------------------------------------
(* Position Transition.                                                    *)

LEMMA TransitionLibrary ==
    /\ \A S : Lab!PT!Cardinality(S) = Cardinality(S)
    /\ \A S : Lab!PT!MaxId(S) = Greatest(S)
    /\ \A S : Lab!PT!Min(S) = CHOOSE x \in S : \A y \in S : x =< y
<1>1. \A S : Lab!PT!Cardinality(S) = Cardinality(S)
      BY DEF Lab!PT!Cardinality, Cardinality
<1>2. \A S : Lab!PT!MaxId(S) = Greatest(S)
      BY DEF Lab!PT!MaxId, Lab!PT!Max, Greatest
<1>3. \A S : Lab!PT!Min(S) = CHOOSE x \in S : \A y \in S : x =< y
      BY DEF Lab!PT!Min
<1>. QED  BY <1>1, <1>2, <1>3

LEMMA TransitionSubmits ==
    ASSUME NEW h, NEW c, NEW a, NEW b, NEW d
    PROVE  /\ Lab!PT!SubmitsFrom(h, c, <<>>) => Goes(h, c, rec)
           /\ Lab!PT!SubmitsFrom(h, c, <<a>>) => Goes(h, c, a)
           /\ Lab!PT!SubmitsFrom(h, c, <<a, b>>) => Goes(h, c, b) \/ Dies(h, a)
           /\ Lab!PT!SubmitsFrom(h, c, <<a, b, d>>) =>
                  Goes(h, c, d) \/ Dies(h, a) \/ Dies(h, b)
<1>1. Lab!PT!SubmitsFrom(h, c, <<>>) => Goes(h, c, rec)
      BY DEF Lab!PT!SubmitsFrom, Goes
<1>2. Lab!PT!SubmitsFrom(h, c, <<a>>) => Goes(h, c, a)
      BY DEF Lab!PT!SubmitsFrom, Lab!PT!Last, Goes
<1>3. Lab!PT!SubmitsFrom(h, c, <<a, b>>) => Goes(h, c, b) \/ Dies(h, a)
      BY DEF Lab!PT!SubmitsFrom, Lab!PT!Last, Goes, Dies
<1>4. Lab!PT!SubmitsFrom(h, c, <<a, b, d>>) => Goes(h, c, d) \/ Dies(h, a) \/ Dies(h, b)
      BY DEF Lab!PT!SubmitsFrom, Lab!PT!Last, Goes, Dies
<1>. QED  BY <1>1, <1>2, <1>3, <1>4

Stations == Lab!PT!Stations
Places == Lab!PT!Places
StationAt(i) == Lab!PT!Station(i)
StationRecord == [made : BOOLEAN, sighters : SUBSET Nat, shots : SUBSET Nat,
                  ready : BOOLEAN, full : BOOLEAN]
TransitionCtl == [phase : 0 .. 5, index : Stations, last : Nat]
TransitionRec ==
    [on : BOOLEAN, done : BOOLEAN, at : Places, setup : BOOLEAN, verifying : BOOLEAN,
     records : [Places -> StationRecord]]
TransitionType ==
    /\ ctl \in TransitionCtl /\ rec \in TransitionRec
    /\ \A p \in Places : IsFiniteSet(rec.records[p].shots)

\* A session that was cut at its start has no record at all; in another the
\* stations up to one have a record, and are complete before it.
NoneMade(m) == \A p \in Places : ~m[p].made
StationsUpTo(m, a) == /\ \A i \in Stations : m[StationAt(i)].made <=> i <= a
                      /\ \A j \in Stations : j < a => m[StationAt(j)].full

TransitionOrder(r) ==
    /\ \/ NoneMade(r.records)
       \/ \E a \in Stations : r.at = StationAt(a) /\ StationsUpTo(r.records, a)
    /\ \A p \in Places : ~r.records[p].made => /\ r.records[p].sighters = {}
                                               /\ r.records[p].shots = {}
                                               /\ ~r.records[p].full

TransitionQuota(m, h) ==
    \A p \in Places :
        /\ Cardinality(m[p].shots) <= VerificationShots
        /\ m[p].full => Cardinality(m[p].shots) = VerificationShots
        /\ ~m[p].full /\ ~h.cut => Cardinality(m[p].shots) < VerificationShots

TransitionIds(m) ==
    \A p, q \in Places : /\ m[p].shots \cap m[q].sighters = {}
                         /\ p # q => m[p].shots \cap m[q].shots = {}

\* Where the controller stands with respect to the journal.
TransitionPlace(c, r, h) ==
    /\ r.on /\ c.phase \in 1 .. 5
    /\ \/ NoneMade(r.records) /\ h.cut
       \/ r.at = StationAt(c.index) /\ StationsUpTo(r.records, c.index)
    /\ c.phase \in 1 .. 3 => ~r.records[StationAt(c.index)].full
    /\ c.phase = 4 => r.records[StationAt(c.index)].full

TransitionIdsOf(m) == UNION {m[p].sighters \cup m[p].shots : p \in Places}

TransitionInv ==
    /\ CommonType /\ TransitionType /\ TransitionOrder(rec)
    /\ rec.on /\ NoneMade(rec.records) => hist.cut
    /\ TransitionQuota(rec.records, hist) /\ TransitionIds(rec.records)
    /\ up = "live" => TransitionPlace(ctl, rec, hist)
    /\ IdsSeen(TransitionIdsOf(rec.records))
    /\ up = "live" /\ ~hist.cut => LastIsRecorded(TransitionIdsOf(rec.records))

\* The sequence has no position twice, so a place is that of one station.
LEMMA TransitionNumbers ==
    /\ Len(Sequence) \in Nat \ {0} /\ Repeats \in Nat \ {0} /\ VerificationShots \in Nat \ {0}
    /\ Sequence \in Seq(0 .. 2) /\ DOMAIN Sequence = 1 .. Len(Sequence)
    /\ \A a, b \in DOMAIN Sequence : Sequence[a] = Sequence[b] => a = b
<1>1. /\ Sequence \in Seq(0 .. 2) /\ Sequence # <<>> /\ Lab!PT!IsInjective(Sequence)
      /\ Repeats \in Nat \ {0} /\ VerificationShots \in Nat \ {0}
      BY LabAssumption DEF Lab!TrainingAssumption, Lab!PT!TransitionAssumption
<1>. QED  BY <1>1 DEF Lab!PT!IsInjective

LEMMA Quotient ==
    ASSUME NEW n \in Nat \ {0}, NEW a \in Nat
    PROVE  a = n * (a \div n) + (a % n)
OBVIOUS

LEMMA Division ==
    ASSUME NEW n \in Nat \ {0}, NEW a \in Nat, NEW b \in Nat,
           a \div n = b \div n, a % n = b % n
    PROVE  a = b
BY Quotient

LEMMA StationTells ==
    /\ Stations \in SUBSET Nat /\ 0 \in Stations
    /\ \A i \in Stations : StationAt(i) \in Places
    /\ \A i, j \in Stations : StationAt(i) = StationAt(j) => i = j
    /\ [pos |-> 0, repeat |-> 1] \in Places
<1>. DEFINE n == Len(Sequence)
<1>1. Stations = 0 .. n * Repeats - 1
      BY DEF Stations, Lab!PT!Stations
<1>2. n \in Nat \ {0} /\ Repeats \in Nat \ {0}
      BY TransitionNumbers
<1>. HIDE DEF n
<1>3. n * Repeats - 1 \in Nat /\ 0 \in 0 .. n * Repeats - 1
      BY <1>2
<1>4. Stations \in SUBSET Nat /\ 0 \in Stations
      BY <1>1, <1>3
<1>5. ASSUME NEW i \in Stations, NEW j \in Stations, StationAt(i) = StationAt(j)
      PROVE  i = j
  <2>1. /\ Sequence[(i % n) + 1] = Sequence[(j % n) + 1]
        /\ (i \div n) + 1 = (j \div n) + 1
        BY <1>5 DEF StationAt, Lab!PT!Station, n
  <2>2. i \in Nat /\ j \in Nat
        BY <1>4
  <2>3. i \div n \in Nat /\ j \div n \in Nat /\ i % n \in 0 .. n - 1 /\ j % n \in 0 .. n - 1
        BY <1>2, <2>2
  <2>4. (i % n) + 1 \in 1 .. n /\ (j % n) + 1 \in 1 .. n
        BY <1>2, <2>3
  <2>5. (i % n) + 1 = (j % n) + 1
        BY <2>1, <2>4, TransitionNumbers DEF n
  <2>6. i % n = j % n /\ i \div n = j \div n
        BY <2>1, <2>3, <2>5
  <2>. QED  BY <1>2, <2>2, <2>6, Division
<1>6. \A i \in Stations : StationAt(i) \in Places
      BY DEF StationAt, Stations, Places, Lab!PT!Places
<1>7. [pos |-> 0, repeat |-> 1] \in Places
  <2>1. 0 \in {0} /\ 1 \in {1}
        OBVIOUS
  <2>2. [pos |-> 0, repeat |-> 1] \in [pos : {0}, repeat : {1}]
        BY <2>1
  <2>. QED  BY <2>2 DEF Places, Lab!PT!Places
<1>. QED  BY <1>4, <1>5, <1>6, <1>7

LEMMA TransitionFields ==
    ASSUME TransitionInv
    PROVE  /\ ctl \in TransitionCtl /\ ctl.phase \in 0 .. 5 /\ ctl.index \in Stations
           /\ ctl.index \in Nat /\ ctl.last \in Nat
           /\ rec \in TransitionRec /\ rec.at \in Places
           /\ rec.records \in [Places -> StationRecord]
           /\ StationAt(ctl.index) \in Places
           /\ \A p \in Places : /\ rec.records[p] \in StationRecord
                                /\ IsFiniteSet(rec.records[p].shots)
                                /\ Cardinality(rec.records[p].shots) \in Nat
           /\ VerificationShots \in Nat \ {0} /\ fired \in Nat /\ fired + 1 \in Nat
<1>1. ctl \in TransitionCtl /\ ctl.phase \in 0 .. 5 /\ ctl.index \in Stations /\ ctl.last \in Nat
      BY DEF TransitionInv, TransitionType, TransitionCtl
<1>2. rec \in TransitionRec /\ rec.at \in Places /\ rec.records \in [Places -> StationRecord]
      BY DEF TransitionInv, TransitionType, TransitionRec
<1>3. \A p \in Places : /\ rec.records[p] \in StationRecord
                        /\ IsFiniteSet(rec.records[p].shots)
                        /\ Cardinality(rec.records[p].shots) \in Nat
      BY <1>2, FS_CardinalityType DEF TransitionInv, TransitionType
<1>4. StationAt(ctl.index) \in Places /\ ctl.index \in Nat
      BY <1>1, StationTells
<1>5. fired \in Nat /\ fired + 1 \in Nat
      BY DEF TransitionInv, CommonType
<1>. QED  BY <1>1, <1>2, <1>3, <1>4, <1>5, TransitionNumbers

\* A journal with no shots, at the start of a session or without one.
LEMMA TransitionStart ==
    ASSUME CommonType', ctl' \in TransitionCtl, rec' \in TransitionRec, fired' = 0,
           \A p \in Places : /\ rec'.records[p].shots = {} /\ rec'.records[p].sighters = {}
                             /\ ~rec'.records[p].full,
           NoneMade(rec'.records) \/
               (rec'.at = StationAt(0) /\ StationsUpTo(rec'.records, 0)),
           rec'.on /\ NoneMade(rec'.records) => hist'.cut = TRUE,
           up' = "live" => /\ ctl'.last = 0 /\ ctl'.index = 0 /\ ctl'.phase = 1 /\ rec'.on
                           /\ rec'.at = StationAt(0) /\ StationsUpTo(rec'.records, 0)
    PROVE  TransitionInv'
<1>1. IsFiniteSet({}) /\ Cardinality({}) = 0
      BY FS_EmptySet
<1>2. TransitionType'
      BY <1>1 DEF TransitionType
<1>3. TransitionOrder(rec')
      BY StationTells DEF TransitionOrder
<1>4. TransitionQuota(rec'.records, hist') /\ TransitionIds(rec'.records)
  <2>1. \A p \in Places : Cardinality(rec'.records[p].shots) = 0
        BY <1>1
  <2>2. 0 <= VerificationShots /\ 0 < VerificationShots
        BY TransitionNumbers
  <2>3. TransitionQuota(rec'.records, hist')
        BY <2>1, <2>2 DEF TransitionQuota
  <2>. QED  BY <2>3 DEF TransitionIds
<1>5. TransitionIdsOf(rec'.records) = {}
      BY DEF TransitionIdsOf
<1>6. (up = "live" => TransitionPlace(ctl, rec, hist))'
      BY StationTells DEF TransitionPlace
<1>7. /\ IdsSeen(TransitionIdsOf(rec.records))'
      /\ (up = "live" => LastIsRecorded(TransitionIdsOf(rec.records)))'
      BY <1>5 DEF IdsSeen, LastIsRecorded
<1>. QED  BY <1>2, <1>3, <1>4, <1>6, <1>7 DEF TransitionInv

\* A handler that records no shot.  After a cut start, a shot is accepted
\* though it is in no record.
LEMMA TransitionKeeps ==
    ASSUME TransitionInv, CommonType', ctl' \in TransitionCtl, rec' \in TransitionRec,
           \A p \in Places : /\ rec'.records[p].shots = rec.records[p].shots
                             /\ rec'.records[p].sighters = rec.records[p].sighters,
           fired' \in {fired, fired + 1}, TransitionOrder(rec'),
           TransitionQuota(rec'.records, hist'), hist.cut => hist'.cut,
           rec'.on /\ NoneMade(rec'.records) => hist'.cut,
           up' = "live" => /\ up = "live" /\ TransitionPlace(ctl', rec', hist')
                           /\ ctl'.last = ctl.last \/ (hist'.cut /\ ctl'.last = fired')
    PROVE  TransitionInv'
<1>1. TransitionIdsOf(rec'.records) = TransitionIdsOf(rec.records)
      BY DEF TransitionIdsOf
<1>2. TransitionIds(rec'.records) /\ TransitionType'
      BY DEF TransitionInv, TransitionIds, TransitionType
<1>3. IdsSeen(TransitionIdsOf(rec.records))'
      BY <1>1, TransitionFields DEF TransitionInv, IdsSeen
<1>4. (up = "live" /\ ~hist.cut => LastIsRecorded(TransitionIdsOf(rec.records)))'
      BY <1>1 DEF TransitionInv, LastIsRecorded
<1>. QED  BY <1>2, <1>3, <1>4 DEF TransitionInv

\* Records that differ in nothing but the time of READY.
SameRecords(m, k) ==
    \A p \in Places : /\ k[p].made = m[p].made /\ k[p].full = m[p].full
                      /\ k[p].shots = m[p].shots /\ k[p].sighters = m[p].sighters

LEMMA TransitionSame ==
    ASSUME TransitionInv, NEW r \in TransitionRec, SameRecords(rec.records, r.records),
           r.at = rec.at, r.on = rec.on, NEW h, hist.cut => h.cut
    PROVE  /\ TransitionOrder(r) /\ TransitionQuota(r.records, h)
           /\ r.on /\ NoneMade(r.records) => h.cut
           /\ \A p \in Places : /\ r.records[p].shots = rec.records[p].shots
                                /\ r.records[p].sighters = rec.records[p].sighters
                                /\ r.records[p].full = rec.records[p].full
           /\ NoneMade(r.records) <=> NoneMade(rec.records)
           /\ \A a \in Stations : StationsUpTo(r.records, a) <=> StationsUpTo(rec.records, a)
<1>1. NoneMade(r.records) <=> NoneMade(rec.records)
      BY DEF NoneMade, SameRecords
<1>2. \A a \in Stations : StationsUpTo(r.records, a) <=> StationsUpTo(rec.records, a)
      BY StationTells DEF StationsUpTo, SameRecords
<1>3. TransitionOrder(r)
      BY <1>1, <1>2 DEF TransitionInv, TransitionOrder, SameRecords
<1>4. TransitionQuota(r.records, h)
      BY DEF TransitionInv, TransitionQuota, SameRecords
<1>. QED  BY <1>1, <1>2, <1>3, <1>4 DEF TransitionInv, SameRecords

\* A command that leaves the shots, the records made and those complete.
LEMMA TransitionCommands ==
    ASSUME TransitionInv, up = "live", fired' \in {fired, fired + 1}, NEW c \in TransitionCtl,
           NEW r \in TransitionRec, Goes(hist, c, r), SameRecords(rec.records, r.records),
           r.at = rec.at, r.on = rec.on, c.index = ctl.index,
           c.last = ctl.last \/ (hist.cut /\ c.last = fired'),
           c.phase = 5 \/ (c.phase \in 1 .. 3 /\ ctl.phase \in 1 .. 3) \/ c.phase = ctl.phase
    PROVE  TransitionInv'
<1>1. ctl' = c /\ up' = "live" /\ hist' = hist /\ rec' = r
      BY DEF Goes
<1>2. CommonType'
      BY <1>1, TransitionFields DEF TransitionInv, CommonType
<1>3. TransitionPlace(ctl, rec, hist)
      BY DEF TransitionInv
<1>4. /\ TransitionOrder(r) /\ TransitionQuota(r.records, hist)
      /\ r.on /\ NoneMade(r.records) => hist.cut
      /\ \A p \in Places : /\ r.records[p].shots = rec.records[p].shots
                           /\ r.records[p].sighters = rec.records[p].sighters
                           /\ r.records[p].full = rec.records[p].full
      /\ NoneMade(r.records) <=> NoneMade(rec.records)
      /\ \A a \in Stations : StationsUpTo(r.records, a) <=> StationsUpTo(rec.records, a)
      BY TransitionSame
<1>5. TransitionPlace(c, r, hist)
      BY <1>3, <1>4, TransitionFields DEF TransitionPlace
<1>. QED  BY <1>1, <1>2, <1>4, <1>5, TransitionKeeps

\* An event about a station changes the record of it, if there is one.
LEMMA TransitionUpdates ==
    ASSUME NEW r \in TransitionRec, NEW p \in Places, NEW q \in StationRecord
    PROVE  /\ Lab!PT!Updated(r, p, q) \in TransitionRec
           /\ Lab!PT!Updated(r, p, q).on = r.on /\ Lab!PT!Updated(r, p, q).at = r.at
           /\ Lab!PT!Updated(r, p, q).done = r.done
           /\ Lab!PT!Updated(r, p, q).setup = r.setup
           /\ Lab!PT!Updated(r, p, q).verifying = r.verifying
           /\ \A x \in Places \ {p} : Lab!PT!Updated(r, p, q).records[x] = r.records[x]
           /\ r.records[p].made => Lab!PT!Updated(r, p, q).records[p] = q
           /\ ~r.records[p].made => Lab!PT!Updated(r, p, q).records[p] = r.records[p]
<1>. DEFINE k == IF r.records[p].made THEN q ELSE r.records[p]
            u == Lab!PT!Updated(r, p, q)
<1>1. u = [r EXCEPT !.records[p] = k]
      BY DEF Lab!PT!Updated
<1>2. r.records \in [Places -> StationRecord] /\ k \in StationRecord
      BY DEF TransitionRec
<1>3. u = [r EXCEPT !.records = [r.records EXCEPT ![p] = k]]
      BY <1>1
<1>. HIDE DEF u, k
<1>4. [r.records EXCEPT ![p] = k] \in [Places -> StationRecord]
      BY <1>2
<1>5. /\ u \in TransitionRec /\ u.records = [r.records EXCEPT ![p] = k]
      /\ u.on = r.on /\ u.at = r.at
      BY <1>3, <1>4 DEF TransitionRec
<1>6. u.done = r.done /\ u.setup = r.setup /\ u.verifying = r.verifying
      BY <1>3, <1>4 DEF TransitionRec
<1>7. u.records[p] = k /\ \A x \in Places \ {p} : u.records[x] = r.records[x]
      BY <1>2, <1>5
<1>. QED  BY <1>5, <1>6, <1>7 DEF u, k

\* A controller whose station has no record is one of a session that was cut
\* at its start.
LEMMA TransitionHere ==
    ASSUME TransitionInv, up = "live"
    PROVE  \/ /\ rec.records[StationAt(ctl.index)].made /\ ~NoneMade(rec.records)
              /\ rec.at = StationAt(ctl.index) /\ StationsUpTo(rec.records, ctl.index)
           \/ /\ ~rec.records[StationAt(ctl.index)].made
              /\ ~rec.records[StationAt(ctl.index)].full
              /\ NoneMade(rec.records) /\ hist.cut = TRUE
<1>1. TransitionPlace(ctl, rec, hist) /\ TransitionOrder(rec)
      BY DEF TransitionInv
<1>2. ctl.index <= ctl.index /\ StationAt(ctl.index) \in Places /\ ctl.index \in Stations
      BY TransitionFields
<1>3. hist.cut \in BOOLEAN
      BY DEF TransitionInv, CommonType
<1>4. CASE NoneMade(rec.records) /\ hist.cut
      BY <1>1, <1>2, <1>3, <1>4 DEF TransitionOrder, NoneMade
<1>5. CASE rec.at = StationAt(ctl.index) /\ StationsUpTo(rec.records, ctl.index)
      BY <1>2, <1>5 DEF StationsUpTo, NoneMade
<1>. QED  BY <1>1, <1>4, <1>5 DEF TransitionPlace

\* A handler that records the shot that was detected at station p.
LEMMA TransitionAdds ==
    ASSUME TransitionInv, fired' = fired + 1, CommonType', ctl' \in TransitionCtl,
           rec' \in TransitionRec, NEW p \in Places, rec.records[p].made,
           \A x \in Places \ {p} : rec'.records[x] = rec.records[x],
           rec'.records[p].made, rec.records[p].full => rec'.records[p].full,
           \/ /\ rec'.records[p].shots = rec.records[p].shots \cup {fired + 1}
              /\ rec'.records[p].sighters = rec.records[p].sighters
           \/ /\ rec'.records[p].shots = rec.records[p].shots
              /\ rec'.records[p].sighters = rec.records[p].sighters \cup {fired + 1},
           rec'.at = rec.at, TransitionQuota(rec'.records, hist'),
           up' = "live" =>
               /\ ctl'.last = fired + 1 /\ rec'.on /\ ctl'.phase \in 1 .. 5
               /\ ctl'.index = ctl.index /\ p = StationAt(ctl.index)
               /\ rec.at = StationAt(ctl.index) /\ StationsUpTo(rec.records, ctl.index)
               /\ ctl'.phase \in 1 .. 3 => ~rec'.records[p].full
               /\ ctl'.phase = 4 => rec'.records[p].full
    PROVE  TransitionInv'
<1>. DEFINE ids == TransitionIdsOf(rec.records)
            m == rec.records
            k == rec'.records
            id == fired + 1
<1>1. ids \in SUBSET (1 .. fired) /\ fired \in Nat
      BY TransitionFields DEF TransitionInv, IdsSeen
<1>2. \A x \in Places : id \notin m[x].shots /\ id \notin m[x].sighters
  <2>1. id \notin ids
        BY <1>1
  <2>. QED  BY <2>1 DEF TransitionIdsOf
<1>3. TransitionIdsOf(k) = ids \cup {id}
  <2>1. k[p].sighters \cup k[p].shots = (m[p].sighters \cup m[p].shots) \cup {id}
        OBVIOUS
  <2>2. \A x \in Places \ {p} : k[x].sighters \cup k[x].shots = m[x].sighters \cup m[x].shots
        OBVIOUS
  <2>. HIDE DEF m, k, id
  <2>3. \A y : y \in TransitionIdsOf(k) <=> y \in TransitionIdsOf(m) \cup {id}
        BY <2>1, <2>2 DEF TransitionIdsOf
  <2>4. TransitionIdsOf(k) = TransitionIdsOf(m) \cup {id}
        BY <2>3
  <2>. QED  BY <2>4 DEF ids, m
<1>4. /\ ids \cup {id} \in SUBSET (1 .. id)
      /\ \A x \in ids \cup {id} : x <= id
      BY <1>1
<1>5. IdsSeen(TransitionIdsOf(rec.records))'
      BY <1>1, <1>3, <1>4 DEF IdsSeen
<1>6. (up = "live" => LastIsRecorded(TransitionIdsOf(rec.records)))'
      BY <1>3 DEF LastIsRecorded
<1>7. TransitionType'
  <2>1. \A x \in Places : IsFiniteSet(m[x].shots)
        BY TransitionFields
  <2>2. IsFiniteSet(m[p].shots \cup {id})
        BY <2>1, FS_AddElement
  <2>3. \A x \in Places : IsFiniteSet(k[x].shots)
        BY <2>1, <2>2
  <2>. QED  BY <2>3 DEF TransitionType
<1>8. TransitionIds(k)
  <2>1. TransitionIds(m)
        BY DEF TransitionInv
  <2>. HIDE DEF m, k, id
  <2>2. \A x, y \in Places : k[x].shots \cap k[y].sighters = {}
        BY <1>2, <2>1 DEF TransitionIds, m, k, id
  <2>3. \A x, y \in Places : x # y => k[x].shots \cap k[y].shots = {}
        BY <1>2, <2>1 DEF TransitionIds, m, k, id
  <2>. QED  BY <2>2, <2>3 DEF TransitionIds
<1>9. ~NoneMade(m) /\ ~NoneMade(k)
      BY DEF NoneMade
<1>10. \A a \in Stations : StationsUpTo(m, a) => StationsUpTo(k, a)
  <2>1. \A x \in Places : k[x].made <=> m[x].made
        OBVIOUS
  <2>2. \A x \in Places : m[x].full => k[x].full
        OBVIOUS
  <2>. HIDE DEF m, k
  <2>. QED  BY <2>1, <2>2, StationTells DEF StationsUpTo
<1>11. TransitionOrder(rec')
  <2>1. \A x \in Places : ~m[x].made => m[x].sighters = {} /\ m[x].shots = {} /\ ~m[x].full
        BY DEF TransitionInv, TransitionOrder
  <2>2. \A x \in Places : ~k[x].made => k[x].sighters = {} /\ k[x].shots = {} /\ ~k[x].full
        BY <2>1
  <2>3. \E a \in Stations : rec'.at = StationAt(a) /\ StationsUpTo(k, a)
        BY <1>9, <1>10 DEF TransitionInv, TransitionOrder
  <2>. QED  BY <2>2, <2>3 DEF TransitionOrder
<1>12. (up = "live" => TransitionPlace(ctl, rec, hist))'
       BY <1>10, TransitionFields DEF TransitionPlace
<1>. QED  BY <1>5, <1>6, <1>7, <1>8, <1>9, <1>11, <1>12 DEF TransitionInv

\* A sighter is recorded at the station, if that has a record.
LEMMA TransitionSights ==
    ASSUME TransitionInv, up = "live", fired' = fired + 1, ctl.phase = 2,
           Goes(hist, [ctl EXCEPT !.last = fired + 1],
                Lab!PT!PositionSighterAccepted(rec, Lab!PT!Here, fired + 1))
    PROVE  TransitionInv'
<1>. DEFINE p == StationAt(ctl.index)
            id == fired + 1
            c == [ctl EXCEPT !.last = id]
            q == [rec.records[p] EXCEPT !.sighters = @ \cup {id}]
            r == Lab!PT!Updated(rec, p, q)
<1>1. ctl' = c /\ up' = "live" /\ hist' = hist /\ rec' = r
      BY DEF Goes, Lab!PT!PositionSighterAccepted, Lab!PT!Here, StationAt
<1>2. p \in Places /\ rec.records[p] \in StationRecord /\ id \in Nat /\ ctl \in TransitionCtl
      BY TransitionFields
<1>3. rec \in TransitionRec
      BY TransitionFields
<1>. HIDE DEF id
<1>4. c \in TransitionCtl /\ c.last = id /\ c.phase = ctl.phase /\ c.index = ctl.index
      BY <1>2 DEF TransitionCtl
<1>5. /\ q \in StationRecord /\ q.made = rec.records[p].made /\ q.full = rec.records[p].full
      /\ q.shots = rec.records[p].shots /\ q.sighters = rec.records[p].sighters \cup {id}
      BY <1>2 DEF StationRecord
<1>. HIDE DEF q, c, p
<1>6. /\ r \in TransitionRec /\ r.on = rec.on /\ r.at = rec.at
      /\ \A x \in Places \ {p} : r.records[x] = rec.records[x]
      /\ rec.records[p].made => r.records[p] = q
      /\ ~rec.records[p].made => r.records[p] = rec.records[p]
      BY <1>2, <1>3, <1>5, TransitionUpdates
<1>. HIDE DEF r
<1>7. CASE ~rec.records[p].made
  <2>1. hist.cut
        BY <1>7, TransitionHere DEF p
  <2>2. SameRecords(rec.records, r.records)
        BY <1>6, <1>7 DEF SameRecords
  <2>3. Goes(hist, c, r)
        BY <1>1 DEF Goes
  <2>4. c.last = fired'
        BY <1>4 DEF id
  <2>. QED  BY <1>4, <1>6, <2>1, <2>2, <2>3, <2>4, TransitionCommands
<1>8. CASE rec.records[p].made
  <2>1. /\ rec.at = StationAt(ctl.index) /\ StationsUpTo(rec.records, ctl.index)
        BY <1>8, TransitionHere DEF p
  <2>2. CommonType'
        BY <1>1, TransitionFields DEF TransitionInv, CommonType
  <2>3. rec.on /\ ~rec.records[p].full
        BY <2>1 DEF TransitionInv, TransitionPlace, p
  <2>4. r.records[p] = q /\ q.made /\ ~q.full
        BY <1>5, <1>6, <1>8, <2>3
  <2>5. TransitionQuota(r.records, hist)
    <3>1. TransitionQuota(rec.records, hist)
          BY DEF TransitionInv
    <3>2. \A x \in Places : /\ r.records[x].shots = rec.records[x].shots
                            /\ r.records[x].full = rec.records[x].full
          BY <1>5, <1>6, <2>4
    <3>. QED  BY <3>1, <3>2 DEF TransitionQuota
  <2>6. ctl'.phase = 2 /\ ctl'.last = fired + 1 /\ ctl'.index = ctl.index
        BY <1>1, <1>4 DEF id
  <2>7. /\ rec'.records[p].shots = rec.records[p].shots
        /\ rec'.records[p].sighters = rec.records[p].sighters \cup {fired + 1}
        BY <1>1, <1>5, <2>4 DEF id
  <2>8. /\ rec'.records[p].made /\ ~rec'.records[p].full /\ ~rec.records[p].full
        /\ \A x \in Places \ {p} : rec'.records[x] = rec.records[x]
        /\ rec'.at = rec.at /\ rec'.on /\ rec' \in TransitionRec /\ ctl' \in TransitionCtl
        /\ TransitionQuota(rec'.records, hist')
        BY <1>1, <1>4, <1>6, <2>3, <2>4, <2>5
  <2>. QED  BY <1>2, <1>8, <2>1, <2>2, <2>6, <2>7, <2>8, TransitionAdds DEF p
<1>. QED  BY <1>7, <1>8

\* A verification shot, the last of which completes the verification.
LEMMA TransitionVerifies ==
    ASSUME TransitionInv, up = "live", fired' = fired + 1, Lab!PT!AcceptVerifShot(fired + 1)
    PROVE  TransitionInv'
<1>. DEFINE p == StationAt(ctl.index)
            id == fired + 1
            c == [ctl EXCEPT !.last = id]
            d == [c EXCEPT !.phase = 4]
            q == [rec.records[p] EXCEPT !.shots = @ \cup {id}]
            r == Lab!PT!Updated(rec, p, q)
            f == [r.records[p] EXCEPT !.full = TRUE]
            s == Lab!PT!Updated([r EXCEPT !.verifying = FALSE], p, f)
            n == Cardinality(rec.records[p].shots)
<1>1. /\ ctl.phase = 3 /\ n < VerificationShots
      /\ IF Cardinality(r.records[p].shots) < VerificationShots
         THEN Lab!PT!SubmitsFrom(hist, c, <<r>>)
         ELSE Lab!PT!SubmitsFrom(hist, d, <<r, s>>)
  <2>1. r = Lab!PT!PositionVerificationShotAccepted(rec, Lab!PT!Here, id)
        BY DEF Lab!PT!PositionVerificationShotAccepted, Lab!PT!Here, StationAt
  <2>2. s = Lab!PT!PositionVerificationCompleted(r, Lab!PT!Here)
        BY DEF Lab!PT!PositionVerificationCompleted, Lab!PT!Here, StationAt
  <2>3. p = Lab!PT!Here
        BY DEF Lab!PT!Here, StationAt
  <2>. HIDE DEF r, s, p
  <2>. QED  BY <2>1, <2>2, <2>3, TransitionLibrary
            DEF Lab!PT!AcceptVerifShot, Lab!PT!Submits, Lab!PT!ShotsCompleted,
                Lab!PT!Verification, Lab!PT!Review
<1>2. p \in Places /\ rec.records[p] \in StationRecord /\ id \in Nat /\ ctl \in TransitionCtl
      BY TransitionFields
<1>3. rec \in TransitionRec /\ IsFiniteSet(rec.records[p].shots) /\ n \in Nat
      BY <1>2, TransitionFields
<1>4. id \notin rec.records[p].shots
  <2>1. TransitionIdsOf(rec.records) \in SUBSET (1 .. fired) /\ fired \in Nat
        BY TransitionFields DEF TransitionInv, IdsSeen
  <2>2. id \notin TransitionIdsOf(rec.records)
        BY <2>1
  <2>. HIDE DEF id
  <2>. QED  BY <1>2, <2>2 DEF TransitionIdsOf
<1>. HIDE DEF id
<1>5. /\ c \in TransitionCtl /\ c.last = id /\ c.phase = ctl.phase /\ c.index = ctl.index
      /\ d \in TransitionCtl /\ d.last = id /\ d.phase = 4 /\ d.index = ctl.index
  <2>1. c \in TransitionCtl /\ c.last = id /\ c.phase = ctl.phase /\ c.index = ctl.index
        BY <1>2 DEF TransitionCtl
  <2>2. 4 \in 0 .. 5
        OBVIOUS
  <2>. HIDE DEF c
  <2>3. d \in TransitionCtl /\ d.last = id /\ d.phase = 4 /\ d.index = ctl.index
        BY <2>1, <2>2 DEF TransitionCtl
  <2>. QED  BY <2>1, <2>3
<1>6. /\ q \in StationRecord /\ q.made = rec.records[p].made /\ q.full = rec.records[p].full
      /\ q.shots = rec.records[p].shots \cup {id}
      /\ q.sighters = rec.records[p].sighters
      BY <1>2 DEF StationRecord
<1>. HIDE DEF q, c, d, p
<1>7. /\ r \in TransitionRec /\ r.on = rec.on /\ r.at = rec.at
      /\ \A x \in Places \ {p} : r.records[x] = rec.records[x]
      /\ rec.records[p].made => r.records[p] = q
      /\ ~rec.records[p].made => r.records[p] = rec.records[p]
      BY <1>2, <1>3, <1>6, TransitionUpdates
<1>. HIDE DEF r, s
<1>8. CASE ~rec.records[p].made
  <2>1. hist.cut
        BY <1>8, TransitionHere DEF p
  <2>2. SameRecords(rec.records, r.records)
        BY <1>7, <1>8 DEF SameRecords
  <2>3. Cardinality(r.records[p].shots) < VerificationShots
        BY <1>1, <1>7, <1>8
  <2>4. Goes(hist, c, r)
        BY <1>1, <2>3, TransitionSubmits
  <2>5. c.last = fired'
        BY <1>5 DEF id
  <2>. QED  BY <1>5, <1>7, <2>1, <2>2, <2>4, <2>5, TransitionCommands
<1>9. CASE rec.records[p].made
  <2>1. rec.at = StationAt(ctl.index) /\ StationsUpTo(rec.records, ctl.index)
        BY <1>9, TransitionHere DEF p
  <2>2. rec.on /\ ~rec.records[p].full
        BY <1>1, <2>1 DEF TransitionInv, TransitionPlace, p
  <2>3. r.records[p] = q /\ q.made /\ ~q.full
        BY <1>6, <1>7, <1>9, <2>2
  <2>4. Cardinality(q.shots) = n + 1 /\ IsFiniteSet(q.shots)
        BY <1>3, <1>4, <1>6, FS_AddElement
  <2>5. \A x \in Places : /\ Cardinality(rec.records[x].shots) <= VerificationShots
                          /\ rec.records[x].full =>
                                 Cardinality(rec.records[x].shots) = VerificationShots
                          /\ ~rec.records[x].full /\ ~hist.cut =>
                                 Cardinality(rec.records[x].shots) < VerificationShots
        BY DEF TransitionInv, TransitionQuota
  <2>6. n + 1 <= VerificationShots /\ VerificationShots \in Nat
        BY <1>1, <1>3, TransitionFields
  <2>7. ASSUME n + 1 < VerificationShots, Goes(hist, c, r)
        PROVE  TransitionInv'
    <3>1. ctl' = c /\ up' = "live" /\ hist' = hist /\ rec' = r
          BY <2>7 DEF Goes
    <3>2. CommonType'
          BY <3>1, TransitionFields DEF TransitionInv, CommonType
    <3>3. TransitionQuota(r.records, hist)
          BY <1>7, <2>3, <2>4, <2>5, <2>6, <2>7 DEF TransitionQuota
    <3>4. ctl'.phase = 3 /\ ctl'.last = fired + 1 /\ ctl'.index = ctl.index
          BY <1>1, <1>5, <3>1 DEF id
    <3>5. /\ rec'.records[p].shots = rec.records[p].shots \cup {fired + 1}
          /\ rec'.records[p].sighters = rec.records[p].sighters
          BY <1>6, <2>3, <3>1 DEF id
    <3>6. /\ rec'.records[p].made /\ ~rec'.records[p].full /\ ~rec.records[p].full
          /\ \A x \in Places \ {p} : rec'.records[x] = rec.records[x]
          /\ rec'.at = rec.at /\ rec'.on /\ rec' \in TransitionRec /\ ctl' \in TransitionCtl
          /\ TransitionQuota(rec'.records, hist')
          BY <1>5, <1>7, <2>2, <2>3, <3>1, <3>3
    <3>. QED  BY <1>2, <1>9, <2>1, <3>2, <3>4, <3>5, <3>6, TransitionAdds DEF p
  <2>8. ASSUME Dies(hist, r)
        PROVE  TransitionInv'
    <3>1. ctl' = ctl /\ up' = "down" /\ hist' = [hist EXCEPT !.cut = TRUE] /\ rec' = r
          BY <2>8 DEF Dies
    <3>2. hist \in [cut : BOOLEAN, resumes : Nat, told : Winds]
          BY DEF TransitionInv, CommonType
    <3>3. CommonType' /\ hist'.cut = TRUE
          BY <3>1, <3>2, TransitionFields DEF CommonType
    <3>4. TransitionQuota(rec'.records, hist')
          BY <1>7, <2>3, <2>4, <2>5, <2>6, <3>1, <3>3 DEF TransitionQuota
    <3>5. /\ rec'.records[p].shots = rec.records[p].shots \cup {fired + 1}
          /\ rec'.records[p].sighters = rec.records[p].sighters
          BY <1>6, <2>3, <3>1 DEF id
    <3>6. /\ rec'.records[p].made /\ ~rec.records[p].full
          /\ \A x \in Places \ {p} : rec'.records[x] = rec.records[x]
          /\ rec'.at = rec.at /\ rec' \in TransitionRec /\ ctl' \in TransitionCtl
          /\ up' # "live"
          BY <1>2, <1>7, <2>2, <2>3, <3>1
    <3>. QED  BY <1>2, <1>9, <3>3, <3>4, <3>5, <3>6, TransitionAdds
  <2>9. ASSUME n + 1 = VerificationShots, Goes(hist, d, s)
        PROVE  TransitionInv'
    <3>1. ctl' = d /\ up' = "live" /\ hist' = hist /\ rec' = s
          BY <2>9 DEF Goes
    <3>2. CommonType'
          BY <3>1, TransitionFields DEF TransitionInv, CommonType
    <3>. DEFINE v == [r EXCEPT !.verifying = FALSE]
    <3>3. v \in TransitionRec /\ v.records = r.records /\ v.on = r.on /\ v.at = r.at
          BY <1>7 DEF TransitionRec
    <3>4. /\ f \in StationRecord /\ f.made /\ f.full /\ f.shots = q.shots
          /\ f.sighters = q.sighters
          BY <1>6, <2>3 DEF StationRecord
    <3>. HIDE DEF v, f
    <3>5. s = Lab!PT!Updated(v, p, f)
          BY DEF s, v
    <3>6. v.records[p].made
          BY <2>3, <3>3
    <3>7. /\ s \in TransitionRec /\ s.on = rec.on /\ s.at = rec.at /\ s.records[p] = f
          /\ \A x \in Places \ {p} : s.records[x] = rec.records[x]
      <4>1. /\ s \in TransitionRec /\ s.on = v.on /\ s.at = v.at /\ s.records[p] = f
            /\ \A x \in Places \ {p} : s.records[x] = v.records[x]
            BY <1>2, <3>3, <3>4, <3>5, <3>6, TransitionUpdates
      <4>. QED  BY <1>7, <3>3, <4>1
    <3>8. TransitionQuota(s.records, hist)
          BY <2>4, <2>5, <2>6, <2>9, <3>4, <3>7 DEF TransitionQuota
    <3>9. ctl'.phase = 4 /\ ctl'.last = fired + 1 /\ ctl'.index = ctl.index
          BY <1>5, <3>1 DEF id
    <3>10. /\ rec'.records[p].shots = rec.records[p].shots \cup {fired + 1}
           /\ rec'.records[p].sighters = rec.records[p].sighters
           BY <1>6, <3>1, <3>4, <3>7 DEF id
    <3>11. /\ rec'.records[p].made /\ rec'.records[p].full
           /\ \A x \in Places \ {p} : rec'.records[x] = rec.records[x]
           /\ rec'.at = rec.at /\ rec'.on /\ rec' \in TransitionRec /\ ctl' \in TransitionCtl
           /\ TransitionQuota(rec'.records, hist')
           BY <1>5, <2>2, <3>1, <3>4, <3>7, <3>8
    <3>. QED  BY <1>2, <1>9, <2>1, <3>2, <3>9, <3>10, <3>11, TransitionAdds DEF p
  <2>10. CASE n + 1 < VerificationShots
    <3>1. Lab!PT!SubmitsFrom(hist, c, <<r>>)
          BY <1>1, <2>3, <2>4, <2>10
    <3>. QED  BY <2>7, <2>10, <3>1, TransitionSubmits
  <2>11. CASE ~ (n + 1 < VerificationShots)
    <3>1. n + 1 = VerificationShots
          BY <1>3, <2>6, <2>11
    <3>2. Lab!PT!SubmitsFrom(hist, d, <<r, s>>)
          BY <1>1, <2>3, <2>4, <2>11
    <3>3. Goes(hist, d, s) \/ Dies(hist, r)
          BY <3>2, TransitionSubmits
    <3>. QED  BY <2>8, <2>9, <3>1, <3>3
  <2>. QED  BY <2>10, <2>11
<1>. QED  BY <1>8, <1>9

\* A process that dies before a record changes.
LEMMA TransitionDies ==
    ASSUME TransitionInv, fired' \in {fired, fired + 1}, up' = "down", ctl' = ctl, rec' = rec,
           hist' = hist \/ hist' = [hist EXCEPT !.cut = TRUE]
    PROVE  TransitionInv'
<1>1. hist \in [cut : BOOLEAN, resumes : Nat, told : Winds]
      BY DEF TransitionInv, CommonType
<1>2. CommonType' /\ (hist.cut => hist'.cut)
      BY <1>1, TransitionFields DEF CommonType
<1>3. SameRecords(rec.records, rec'.records)
      BY DEF SameRecords
<1>4. rec \in TransitionRec /\ ctl \in TransitionCtl
      BY TransitionFields
<1>5. /\ TransitionOrder(rec') /\ TransitionQuota(rec'.records, hist')
      /\ rec'.on /\ NoneMade(rec'.records) => hist'.cut
      BY <1>2, <1>3, <1>4, TransitionSame
<1>. QED  BY <1>2, <1>4, <1>5, TransitionKeeps

\* The setup of a station makes its record.
LEMMA TransitionSetup ==
    ASSUME NEW r \in TransitionRec, NEW p \in Places
    PROVE  LET u == Lab!PT!PositionSetupStarted(r, p)
           IN  /\ u \in TransitionRec /\ u.at = p /\ u.on = r.on
               /\ \A x \in Places \ {p} : u.records[x] = r.records[x]
               /\ u.records[p].made /\ u.records[p].full = r.records[p].full
               /\ u.records[p].shots = r.records[p].shots
               /\ u.records[p].sighters = r.records[p].sighters
               /\ u.records[p].ready = r.records[p].ready /\ ~u.verifying
<1>. DEFINE u == Lab!PT!PositionSetupStarted(r, p)
            q == [r.records[p] EXCEPT !.made = TRUE]
            k == [r.records EXCEPT ![p] = q]
<1>1. r.records \in [Places -> StationRecord] /\ r.records[p] \in StationRecord
      BY DEF TransitionRec
<1>2. /\ q \in StationRecord /\ q.made /\ q.full = r.records[p].full
      /\ q.shots = r.records[p].shots /\ q.sighters = r.records[p].sighters
      /\ q.ready = r.records[p].ready
      BY <1>1 DEF StationRecord
<1>3. u = [r EXCEPT !.at = p, !.setup = TRUE, !.verifying = FALSE, !.records = k]
      BY DEF Lab!PT!PositionSetupStarted
<1>. HIDE DEF q
<1>4. /\ k \in [Places -> StationRecord] /\ k[p] = q
      /\ \A x \in Places \ {p} : k[x] = r.records[x]
      BY <1>1, <1>2
<1>. HIDE DEF k, u
<1>5. u \in TransitionRec
      BY <1>3, <1>4, Zenon DEF TransitionRec
<1>6. u.at = p /\ u.on = r.on /\ u.records = k /\ u.verifying = FALSE
      BY <1>3, <1>4 DEF TransitionRec
<1>. QED  BY <1>2, <1>4, <1>5, <1>6 DEF u

LEMMA TransitionContinues ==
    ASSUME TransitionInv, Lab!PT!ContinueToNext
    PROVE  TransitionInv'
<1>. DEFINE a == ctl.index
            m == rec.records
<1>1. up = "live" /\ fired' = fired /\ ctl.phase = 4
      BY DEF Lab!PT!ContinueToNext, Lab!PT!Does, Lab!PT!Submits, Lab!PT!Review
<1>2. /\ a \in Stations /\ a \in Nat /\ ctl \in TransitionCtl /\ rec \in TransitionRec
      /\ StationAt(a) \in Places
      BY TransitionFields
<1>3. /\ rec.on /\ m[StationAt(a)].full /\ StationsUpTo(m, a) /\ m[StationAt(a)].made
  <2>1. rec.on /\ m[StationAt(a)].full
        BY <1>1 DEF TransitionInv, TransitionPlace
  <2>. QED  BY <1>1, <2>1, TransitionHere
<1>4. CASE a + 1 \notin Stations
  <2>. DEFINE c == [ctl EXCEPT !.phase = 5]
              r == [rec EXCEPT !.done = TRUE]
  <2>1. Goes(hist, c, r)
    <3>1. Lab!PT!SubmitsFrom(hist, c, <<r>>)
          BY <1>4 DEF Lab!PT!ContinueToNext, Lab!PT!Does, Lab!PT!Submits, Lab!PT!Complete,
                      Lab!PT!PositionTransitionCompleted, Stations
    <3>. QED  BY <3>1, TransitionSubmits
  <2>2. c \in TransitionCtl /\ c.phase = 5 /\ c.index = ctl.index /\ c.last = ctl.last
    <3>1. 5 \in 0 .. 5
          OBVIOUS
    <3>. QED  BY <1>2, <3>1 DEF TransitionCtl
  <2>3. r \in TransitionRec /\ r.records = m /\ r.at = rec.at /\ r.on = rec.on
        BY <1>2 DEF TransitionRec
  <2>. HIDE DEF c, r
  <2>4. SameRecords(m, r.records)
        BY <2>3 DEF SameRecords
  <2>. QED  BY <1>1, <2>1, <2>2, <2>3, <2>4, TransitionCommands
<1>5. CASE a + 1 \in Stations
  <2>. DEFINE b == a + 1
              c == [[ctl EXCEPT !.phase = 1] EXCEPT !.index = b]
              r == Lab!PT!PositionSetupStarted(rec, StationAt(b))
  <2>1. Goes(hist, c, r) \/ Dies(hist, rec)
    <3>1. Lab!PT!SubmitsFrom(hist, c, <<rec, r>>)
          BY <1>5 DEF Lab!PT!ContinueToNext, Lab!PT!Does, Lab!PT!Submits, Lab!PT!Setup,
                      Lab!PT!NextPositionTransitionStarted, Stations, StationAt
    <3>. QED  BY <3>1, TransitionSubmits
  <2>2. b \in Stations /\ b \in Nat /\ StationAt(b) \in Places
        BY <1>2, <1>5, StationTells
  <2>3. c \in TransitionCtl /\ c.phase = 1 /\ c.index = b /\ c.last = ctl.last
    <3>. DEFINE d == [ctl EXCEPT !.phase = 1]
    <3>1. 1 \in 0 .. 5
          OBVIOUS
    <3>2. d \in TransitionCtl /\ d.last = ctl.last /\ d.phase = 1
          BY <1>2, <3>1 DEF TransitionCtl
    <3>. HIDE DEF b, d
    <3>3. [d EXCEPT !.index = b] \in TransitionCtl
          BY <2>2, <3>2 DEF TransitionCtl
    <3>4. /\ [d EXCEPT !.index = b].phase = 1 /\ [d EXCEPT !.index = b].index = b
          /\ [d EXCEPT !.index = b].last = ctl.last
          BY <2>2, <3>2 DEF TransitionCtl
    <3>. QED  BY <3>3, <3>4 DEF d
  <2>4. /\ r \in TransitionRec /\ r.at = StationAt(b) /\ r.on = rec.on
        /\ \A x \in Places \ {StationAt(b)} : r.records[x] = m[x]
        /\ r.records[StationAt(b)].made
        /\ r.records[StationAt(b)].full = m[StationAt(b)].full
        /\ r.records[StationAt(b)].shots = m[StationAt(b)].shots
        /\ r.records[StationAt(b)].sighters = m[StationAt(b)].sighters
        BY <1>2, <2>2, TransitionSetup
  <2>. HIDE DEF c, r
  <2>5. \A x \in Places : /\ r.records[x].shots = m[x].shots
                          /\ r.records[x].sighters = m[x].sighters
                          /\ r.records[x].full = m[x].full
        BY <2>4
  <2>6. \A i \in Stations : /\ r.records[StationAt(i)].made <=>
                                   m[StationAt(i)].made \/ i = b
                            /\ StationAt(i) \in Places
        BY <2>2, <2>4, StationTells
  <2>7. StationsUpTo(r.records, b)
    <3>1. \A i \in Stations : (i <= b <=> i <= a \/ i = b) /\ (i < b => i < a \/ i = a)
          BY <1>2, StationTells
    <3>2. \A i \in Stations : r.records[StationAt(i)].made <=> i <= b
          BY <1>3, <2>6, <3>1 DEF StationsUpTo
    <3>3. \A i \in Stations : i < b => r.records[StationAt(i)].full
          BY <1>3, <2>5, <2>6, <3>1 DEF StationsUpTo
    <3>. QED  BY <3>2, <3>3 DEF StationsUpTo
  <2>8. /\ \A x \in Places : ~m[x].made => /\ m[x].sighters = {} /\ m[x].shots = {}
                                           /\ ~m[x].full
        /\ TransitionQuota(m, hist)
        BY DEF TransitionInv, TransitionOrder
  <2>9. TransitionOrder(r)
    <3>1. \A x \in Places : ~r.records[x].made => ~m[x].made
          BY <2>4
    <3>2. \A x \in Places : ~r.records[x].made => /\ r.records[x].sighters = {}
                                                  /\ r.records[x].shots = {}
                                                  /\ ~r.records[x].full
          BY <2>5, <2>8, <3>1
    <3>. QED  BY <2>2, <2>4, <2>7, <3>2 DEF TransitionOrder
  <2>10. TransitionQuota(r.records, hist)
         BY <2>5, <2>8 DEF TransitionQuota
  <2>11. ~NoneMade(r.records)
         BY <2>2, <2>4 DEF NoneMade
  <2>12. ~m[StationAt(b)].made
    <3>1. ~ (b <= a)
          BY <1>2
    <3>. QED  BY <1>3, <2>2, <3>1 DEF StationsUpTo
  <2>13. ~r.records[StationAt(b)].full
         BY <2>2, <2>5, <2>8, <2>12
  <2>14. TransitionPlace(c, r, hist)
         BY <1>3, <2>3, <2>4, <2>7, <2>13 DEF TransitionPlace
  <2>15. CASE Goes(hist, c, r)
    <3>1. ctl' = c /\ up' = "live" /\ hist' = hist /\ rec' = r
          BY <2>15 DEF Goes
    <3>2. CommonType'
          BY <1>1, <3>1, TransitionFields DEF TransitionInv, CommonType
    <3>. QED  BY <1>1, <2>3, <2>4, <2>5, <2>9, <2>10, <2>11, <2>14, <3>1, <3>2,
                 TransitionKeeps
  <2>16. CASE Dies(hist, rec)
         BY <1>1, <2>16, TransitionDies DEF Dies
  <2>. QED  BY <2>1, <2>15, <2>16
<1>. QED  BY <1>4, <1>5

LEMMA TransitionResumes ==
    ASSUME TransitionInv, Lab!PT!Resume
    PROVE  TransitionInv'
<1>. DEFINE m == rec.records
            ids == TransitionIdsOf(m)
            c == Lab!PT!Recovered(rec)
            places == {i \in Stations : StationAt(i) = rec.at}
<1>1. ids = Lab!PT!RecordedIds
      BY DEF Lab!PT!RecordedIds, TransitionIdsOf, Places
<1>2. /\ up' = "live" /\ rec' = rec /\ hist' = [hist EXCEPT !.resumes = @ + 1]
      /\ ctl' = [c EXCEPT !.last = Greatest(ids)] /\ rec.on
      /\ fired' = Greatest(ids)
      BY <1>1, TransitionLibrary DEF Lab!PT!Resume, Lab!PT!Resumes, Lab!PT!NumbersOn
<1>3. /\ rec.at \in Places /\ TransitionOrder(rec) /\ Stations \in SUBSET Nat
      /\ NoneMade(m) => hist.cut
  <2>1. rec.at \in Places /\ Stations \in SUBSET Nat
        BY TransitionFields, StationTells
  <2>. QED  BY <1>2, <2>1 DEF TransitionInv
<1>4. PICK i \in Stations, phase \in 1 .. 4 :
         /\ c = [Lab!PT!Idle EXCEPT !.index = i, !.phase = phase]
         /\ i = IF places = {} THEN 0 ELSE (CHOOSE x \in places : \A y \in places : x =< y)
         /\ phase = 4 <=> m[rec.at].full
  <2>. DEFINE i == IF places = {} THEN 0 ELSE Lab!PT!Min(places)
              phase == CASE m[rec.at].full -> 4
                         [] ~m[rec.at].full /\ rec.verifying -> 3
                         [] ~m[rec.at].full /\ ~rec.verifying /\ ~rec.setup
                            /\ m[rec.at].ready -> 2
                         [] OTHER -> 1
  <2>1. c = [Lab!PT!Idle EXCEPT !.index = i, !.phase = phase]
        BY DEF Lab!PT!Recovered, Lab!PT!Review, Lab!PT!Verification, Lab!PT!Sighters,
               Lab!PT!Setup, Stations, StationAt
  <2>2. phase \in 1 .. 4 /\ (phase = 4 <=> m[rec.at].full)
    <3>. HIDE DEF phase
    <3>1. CASE m[rec.at].full
          BY <3>1 DEF phase
    <3>2. CASE ~m[rec.at].full
      <4>1. phase \in {1, 2, 3}
            BY <3>2 DEF phase
      <4>. QED  BY <3>2, <4>1
    <3>. QED  BY <3>1, <3>2
  <2>3. i = IF places = {} THEN 0 ELSE (CHOOSE x \in places : \A y \in places : x =< y)
    <3>. HIDE DEF places
    <3>1. Lab!PT!Min(places) = CHOOSE x \in places : \A y \in places : x =< y
          BY TransitionLibrary
    <3>. QED  BY <3>1
  <2>4. i \in Stations
    <3>1. CASE places = {}
          BY <2>3, <3>1, StationTells
    <3>2. CASE places # {}
      <4>1. places \in SUBSET Nat /\ places \in SUBSET Stations
            BY <1>3
      <4>. HIDE DEF places, i
      <4>2. \E x \in places : \A y \in places : x <= y
            BY <3>2, <4>1, LeastOf
      <4>3. (CHOOSE x \in places : \A y \in places : x =< y) \in places
            BY <4>2
      <4>4. i \in places
            BY <2>3, <3>2, <4>3
      <4>. QED  BY <4>1, <4>4
    <3>. QED  BY <3>1, <3>2
  <2>. HIDE DEF i, phase, c
  <2>. QED  BY <2>1, <2>2, <2>3, <2>4
<1>. HIDE DEF c
<1>5. c \in TransitionCtl /\ c.index = i /\ c.phase = phase
  <2>1. 0 \in 0 .. 5 /\ 0 \in Nat /\ phase \in 0 .. 5 /\ 0 \in Stations
        BY StationTells
  <2>2. c \in TransitionCtl
        BY <1>4, <2>1, Zenon DEF Lab!PT!Idle, TransitionCtl
  <2>. QED  BY <1>4, <2>2 DEF Lab!PT!Idle
<1>6. TransitionPlace(c, rec, hist)
  <2>1. phase \in 1 .. 5 /\ (phase \in 1 .. 3 => phase # 4)
        OBVIOUS
  <2>2. CASE NoneMade(m)
    <3>1. \A x \in Places : ~m[x].full
          BY <1>3, <2>2 DEF TransitionOrder, NoneMade
    <3>2. StationAt(i) \in Places
          BY StationTells
    <3>. QED  BY <1>2, <1>3, <1>4, <1>5, <2>1, <2>2, <3>1, <3>2 DEF TransitionPlace
  <2>3. CASE ~NoneMade(m)
    <3>1. PICK a \in Stations : rec.at = StationAt(a) /\ StationsUpTo(m, a)
          BY <1>3, <2>3 DEF TransitionOrder
    <3>2. places = {a}
          BY <3>1, StationTells
    <3>3. i = a
      <4>1. {a} \in SUBSET Nat /\ a \in {a} /\ \A y \in {a} : a <= y
            BY <1>3
      <4>2. (CHOOSE x \in {a} : \A y \in {a} : x =< y) = a
            BY <4>1, LeastIs
      <4>3. places # {}
            BY <3>2
      <4>. HIDE DEF places
      <4>. QED  BY <1>4, <3>2, <4>2, <4>3
    <3>. QED  BY <1>2, <1>4, <1>5, <2>1, <3>1, <3>3 DEF TransitionPlace
  <2>. QED  BY <2>2, <2>3
<1>7. IdsSeen(ids) /\ ids' = ids
      BY <1>2 DEF TransitionInv
<1>. HIDE DEF ids
<1>8. ctl'.last = Greatest(ids)
      BY <1>2, <1>5 DEF TransitionCtl
<1>9. /\ CommonType' /\ Greatest(ids) \in Nat /\ IdsSeen(ids)' /\ LastIsRecorded(ids)'
  <2>1. /\ CommonType' /\ Greatest(ids) \in Nat
        /\ ids' \in SUBSET (1 .. fired') /\ ctl'.last \in 0 .. fired'
        /\ \A x \in ids' : x <= ctl'.last
        /\ ctl'.last \in ids' \cup {0}
        BY <1>2, <1>7, <1>8, ResumeSees DEF TransitionInv
  <2>. QED  BY <2>1 DEF IdsSeen, LastIsRecorded
<1>10. ctl' \in TransitionCtl /\ ctl'.phase = c.phase /\ ctl'.index = c.index
       BY <1>2, <1>5, <1>9 DEF TransitionCtl
<1>11. hist'.cut = hist.cut
       BY <1>2 DEF TransitionInv, CommonType
<1>12. TransitionPlace(ctl', rec', hist')
       BY <1>2, <1>6, <1>10, <1>11 DEF TransitionPlace
<1>13. /\ TransitionType' /\ TransitionOrder(rec') /\ TransitionQuota(rec'.records, hist')
       /\ TransitionIds(rec'.records) /\ (rec'.on /\ NoneMade(rec'.records) => hist'.cut)
       BY <1>2, <1>10, <1>11 DEF TransitionInv, TransitionType, TransitionQuota
<1>. QED  BY <1>9, <1>12, <1>13 DEF TransitionInv, ids

\* What a journal has before its first event.
LEMMA TransitionNone ==
    /\ Lab!PT!NoRec \in TransitionRec /\ ~Lab!PT!NoRec.on
    /\ \A p \in Places : Lab!PT!NoRec.records[p] = Lab!PT!NewRecord
<1>. DEFINE none == [p \in Places |-> Lab!PT!NewRecord]
<1>1. {} \in SUBSET Nat
      OBVIOUS
<1>2. none \in [Places -> StationRecord]
  <2>1. Lab!PT!NewRecord \in StationRecord
        BY <1>1, Zenon DEF Lab!PT!NewRecord, StationRecord
  <2>. QED  BY <2>1
<1>3. Lab!PT!NoRec = [on |-> FALSE, done |-> FALSE, at |-> [pos |-> 0, repeat |-> 1],
                      setup |-> FALSE, verifying |-> FALSE, records |-> none]
      BY DEF Lab!PT!NoRec, Places
<1>. HIDE DEF none
<1>4. Lab!PT!NoRec \in TransitionRec
      BY <1>2, <1>3, StationTells, Zenon DEF TransitionRec
<1>5. ~Lab!PT!NoRec.on /\ Lab!PT!NoRec.records = none
      BY <1>3
<1>. QED  BY <1>4, <1>5 DEF none

LEMMA TransitionStep ==
    ASSUME TransitionInv, [Lab!PT!Next]_labVars
    PROVE  TransitionInv'
<1>1. /\ CommonType /\ ctl \in TransitionCtl /\ rec \in TransitionRec /\ "noReading" \in Winds
      /\ fired \in Nat
      BY TransitionFields DEF TransitionInv, Winds
<1>2. /\ Lab!PT!NoRec \in TransitionRec /\ Lab!PT!Idle \in TransitionCtl
      /\ ~Lab!PT!NoRec.on
      /\ \A p \in Places : Lab!PT!NoRec.records[p] = Lab!PT!NewRecord
  <2>1. 0 \in 0 .. 5 /\ 0 \in Nat /\ 0 \in Stations
        BY StationTells
  <2>2. Lab!PT!Idle \in TransitionCtl
        BY <2>1, Zenon DEF Lab!PT!Idle, TransitionCtl
  <2>. QED  BY <2>2, TransitionNone
<1>3. /\ Lab!PT!NewRecord.shots = {} /\ Lab!PT!NewRecord.sighters = {}
      /\ ~Lab!PT!NewRecord.full /\ ~Lab!PT!NewRecord.made
      BY DEF Lab!PT!NewRecord
<1>4. CASE Lab!PT!StartPositionTransition
  <2>. DEFINE c == [Lab!PT!Idle EXCEPT !.phase = 1]
              begun == Lab!PT!PositionTransitionSessionStarted(Lab!PT!NoRec)
              r == Lab!PT!PositionSetupStarted(begun, StationAt(0))
  <2>1. /\ Goes(FreshHist, c, r) \/ Dies(FreshHist, Lab!PT!NoRec) \/ Dies(FreshHist, begun)
        /\ fired' = 0
    <3>1. Lab!PT!SubmitsFrom(FreshHist, c, <<Lab!PT!NoRec, begun, r>>) /\ fired' = 0
          BY <1>4 DEF Lab!PT!StartPositionTransition, Lab!PT!Starts, Lab!PT!NewHist, FreshHist,
                      Lab!PT!Setup, StationAt
    <3>. QED  BY <3>1, TransitionSubmits
  <2>2. c \in TransitionCtl /\ c.last = 0 /\ c.index = 0 /\ c.phase = 1
    <3>1. 1 \in 0 .. 5
          OBVIOUS
    <3>2. c \in TransitionCtl
          BY <1>2, <3>1 DEF TransitionCtl
    <3>. QED  BY <3>2 DEF Lab!PT!Idle
  <2>3. begun \in TransitionRec /\ begun.on /\ begun.records = Lab!PT!NoRec.records
    <3>1. begun = [Lab!PT!NoRec EXCEPT !.on = TRUE]
          BY DEF Lab!PT!PositionTransitionSessionStarted
    <3>. QED  BY <1>2, <3>1 DEF TransitionRec
  <2>. HIDE DEF begun, c
  <2>4. 0 \in Stations /\ StationAt(0) \in Places
        BY StationTells
  <2>5. /\ r \in TransitionRec /\ r.at = StationAt(0) /\ r.on
        /\ \A x \in Places \ {StationAt(0)} : r.records[x] = Lab!PT!NewRecord
        /\ r.records[StationAt(0)].made /\ ~r.records[StationAt(0)].full
        /\ r.records[StationAt(0)].shots = {} /\ r.records[StationAt(0)].sighters = {}
    <3>1. /\ r \in TransitionRec /\ r.at = StationAt(0) /\ r.on = begun.on
          /\ \A x \in Places \ {StationAt(0)} : r.records[x] = begun.records[x]
          /\ r.records[StationAt(0)].made
          /\ r.records[StationAt(0)].full = begun.records[StationAt(0)].full
          /\ r.records[StationAt(0)].shots = begun.records[StationAt(0)].shots
          /\ r.records[StationAt(0)].sighters = begun.records[StationAt(0)].sighters
          BY <2>3, <2>4, TransitionSetup
    <3>. QED  BY <1>2, <1>3, <2>3, <2>4, <3>1
  <2>. HIDE DEF r
  <2>6. StationsUpTo(r.records, 0)
    <3>1. \A i \in Stations : i <= 0 <=> i = 0
          BY StationTells
    <3>2. \A i \in Stations : ~ (i < 0)
          BY StationTells
    <3>3. \A i \in Stations : r.records[StationAt(i)].made <=> i = 0
          BY <1>3, <2>5, StationTells
    <3>. QED  BY <3>1, <3>2, <3>3 DEF StationsUpTo
  <2>7. CommonType'
    <3>1. /\ FreshHist \in [cut : BOOLEAN, resumes : Nat, told : Winds]
          /\ [FreshHist EXCEPT !.cut = TRUE] \in [cut : BOOLEAN, resumes : Nat, told : Winds]
          BY <1>1 DEF FreshHist
    <3>. QED  BY <2>1, <3>1 DEF CommonType, Goes, Dies
  <2>8. ASSUME NEW x \in {Lab!PT!NoRec, begun}
        PROVE  /\ x \in TransitionRec /\ NoneMade(x.records)
               /\ \A p \in Places : /\ x.records[p].shots = {} /\ x.records[p].sighters = {}
                                    /\ ~x.records[p].full
        BY <1>2, <1>3, <2>3 DEF NoneMade
  <2>9. CASE Goes(FreshHist, c, r)
    <3>1. ctl' = c /\ rec' = r
          BY <2>9 DEF Goes
    <3>2. \A p \in Places : /\ r.records[p].shots = {} /\ r.records[p].sighters = {}
                            /\ ~r.records[p].full
          BY <1>3, <2>5
    <3>3. ~NoneMade(r.records)
          BY <2>4, <2>5 DEF NoneMade
    <3>. QED  BY <2>1, <2>2, <2>5, <2>6, <2>7, <3>1, <3>2, <3>3, TransitionStart
  <2>10. ASSUME NEW x \in {Lab!PT!NoRec, begun}, Dies(FreshHist, x)
         PROVE  TransitionInv'
    <3>1. /\ ctl' = ctl /\ rec' = x /\ up' = "down"
          /\ hist' = [FreshHist EXCEPT !.cut = TRUE]
          BY <2>10 DEF Dies
    <3>2. hist'.cut = TRUE /\ up' # "live"
          BY <3>1 DEF FreshHist
    <3>. QED  BY <1>1, <2>1, <2>7, <2>8, <3>1, <3>2, TransitionStart
  <2>. QED  BY <2>1, <2>9, <2>10
<1>5. CASE Lab!PT!ReadyForSighters
  <2>. DEFINE c == [ctl EXCEPT !.phase = 2]
              r == [rec EXCEPT !.setup = FALSE]
  <2>1. up = "live" /\ fired' = fired /\ ctl.phase = 1 /\ Lab!PT!SubmitsFrom(hist, c, <<r>>)
        BY <1>5 DEF Lab!PT!ReadyForSighters, Lab!PT!Does, Lab!PT!Submits, Lab!PT!PositionReady,
                    Lab!PT!Setup, Lab!PT!Sighters
  <2>2. c \in TransitionCtl /\ c.phase = 2 /\ c.index = ctl.index /\ c.last = ctl.last
        BY <1>1 DEF TransitionCtl
  <2>3. r \in TransitionRec /\ r.records = rec.records /\ r.at = rec.at /\ r.on = rec.on
        BY <1>1 DEF TransitionRec
  <2>. HIDE DEF c, r
  <2>4. SameRecords(rec.records, r.records)
        BY <2>3 DEF SameRecords
  <2>5. Goes(hist, c, r)
        BY <2>1, TransitionSubmits
  <2>6. c.phase \in 1 .. 3 /\ ctl.phase \in 1 .. 3
        BY <2>1, <2>2
  <2>. QED  BY <2>1, <2>2, <2>3, <2>4, <2>5, <2>6, TransitionCommands
<1>6. CASE Lab!PT!StartVerification
  <2>. DEFINE c == [ctl EXCEPT !.phase = 3]
              p == StationAt(ctl.index)
              v == [rec EXCEPT !.verifying = TRUE]
              q == [rec.records[p] EXCEPT !.ready = TRUE]
              r == Lab!PT!Updated(v, p, q)
  <2>1. up = "live" /\ fired' = fired /\ ctl.phase = 2 /\ Lab!PT!SubmitsFrom(hist, c, <<r>>)
        BY <1>6 DEF Lab!PT!StartVerification, Lab!PT!Does, Lab!PT!Submits, Lab!PT!Here,
                    Lab!PT!PositionVerificationStarted, Lab!PT!Verification, Lab!PT!Sighters,
                    StationAt
  <2>2. c \in TransitionCtl /\ c.phase = 3 /\ c.index = ctl.index /\ c.last = ctl.last
        BY <1>1 DEF TransitionCtl
  <2>3. v \in TransitionRec /\ v.records = rec.records /\ v.at = rec.at /\ v.on = rec.on
        BY <1>1 DEF TransitionRec
  <2>4. p \in Places /\ rec.records[p] \in StationRecord
        BY TransitionFields
  <2>5. /\ q \in StationRecord /\ q.made = rec.records[p].made
        /\ q.full = rec.records[p].full /\ q.shots = rec.records[p].shots
        /\ q.sighters = rec.records[p].sighters
        BY <2>4 DEF StationRecord
  <2>. HIDE DEF c, v, p, q
  <2>6. /\ r \in TransitionRec /\ r.at = rec.at /\ r.on = rec.on
        /\ \A x \in Places \ {p} : r.records[x] = rec.records[x]
        /\ r.records[p] \in {q, rec.records[p]}
        BY <2>3, <2>4, <2>5, TransitionUpdates
  <2>. HIDE DEF r
  <2>7. SameRecords(rec.records, r.records)
        BY <2>5, <2>6 DEF SameRecords
  <2>8. Goes(hist, c, r)
        BY <2>1, TransitionSubmits
  <2>9. c.phase \in 1 .. 3 /\ ctl.phase \in 1 .. 3
        BY <2>1, <2>2
  <2>. QED  BY <2>1, <2>2, <2>6, <2>7, <2>8, <2>9, TransitionCommands
<1>7. CASE Lab!PT!RegisterShot
  <2>1. up = "live" /\ fired' = fired + 1
        BY <1>7 DEF Lab!PT!RegisterShot, Lab!PT!Detected
  <2>2. CASE Lab!PT!AcceptSighter(fired + 1)
    <3>1. ctl.phase = 2
          BY <2>2 DEF Lab!PT!AcceptSighter, Lab!PT!Sighters
    <3>2. Goes(hist, [ctl EXCEPT !.last = fired + 1],
               Lab!PT!PositionSighterAccepted(rec, Lab!PT!Here, fired + 1))
          BY <2>2, TransitionSubmits DEF Lab!PT!AcceptSighter, Lab!PT!Submits
    <3>. QED  BY <2>1, <3>1, <3>2, TransitionSights
  <2>3. CASE Lab!PT!AcceptVerifShot(fired + 1)
        BY <2>1, <2>3, TransitionVerifies
  <2>4. CASE Lab!PT!RefuseShot(fired + 1)
    <3>1. Goes(hist, ctl, rec)
          BY <2>4, TransitionSubmits DEF Lab!PT!RefuseShot, Lab!PT!Submits
    <3>2. SameRecords(rec.records, rec.records)
          BY DEF SameRecords
    <3>. QED  BY <1>1, <2>1, <3>1, <3>2, TransitionCommands
  <2>. QED  BY <1>7, <2>2, <2>3, <2>4 DEF Lab!PT!RegisterShot
<1>8. CASE Lab!PT!ContinueToNext
      BY <1>8, TransitionContinues
<1>9. CASE Lab!PT!EndEarly
  <2>. DEFINE c == [ctl EXCEPT !.phase = 5]
              r == [rec EXCEPT !.done = TRUE]
  <2>1. up = "live" /\ fired' = fired /\ Lab!PT!SubmitsFrom(hist, c, <<r>>)
        BY <1>9 DEF Lab!PT!EndEarly, Lab!PT!Does, Lab!PT!Submits, Lab!PT!Complete,
                    Lab!PT!PositionTransitionCompleted
  <2>2. c \in TransitionCtl /\ c.phase = 5 /\ c.index = ctl.index /\ c.last = ctl.last
        BY <1>1 DEF TransitionCtl
  <2>3. r \in TransitionRec /\ r.records = rec.records /\ r.at = rec.at /\ r.on = rec.on
        BY <1>1 DEF TransitionRec
  <2>. HIDE DEF c, r
  <2>4. SameRecords(rec.records, r.records)
        BY <2>3 DEF SameRecords
  <2>5. Goes(hist, c, r)
        BY <2>1, TransitionSubmits
  <2>. QED  BY <2>1, <2>2, <2>3, <2>4, <2>5, TransitionCommands
<1>10. CASE Lab!PT!CloseCleanly
  <2>1. /\ up' = "none" /\ rec' = Lab!PT!NoRec /\ ctl' = Lab!PT!Idle /\ fired' = 0
        /\ hist' = FreshHist
        BY <1>10 DEF Lab!PT!CloseCleanly, Lab!PT!Closes, Lab!PT!NewHist, FreshHist
  <2>2. CommonType'
        BY <1>1, <2>1 DEF CommonType, FreshHist
  <2>3. NoneMade(Lab!PT!NoRec.records)
        BY <1>2, <1>3 DEF NoneMade
  <2>4. up' # "live" /\ ~rec'.on
        BY <1>2, <2>1
  <2>. QED  BY <1>2, <1>3, <2>1, <2>2, <2>3, <2>4, TransitionStart
<1>11. CASE Lab!PT!Resume
       BY <1>11, TransitionResumes
<1>12. CASE Lab!PT!Crash
  <2>1. up' = "down" /\ ctl' = ctl /\ rec' = rec /\ fired' = fired /\ hist' = hist
        BY <1>12 DEF Lab!PT!Crash
  <2>. QED  BY <2>1, TransitionDies
<1>13. CASE UNCHANGED labVars
  <2>1. up' = up /\ ctl' = ctl /\ rec' = rec /\ fired' = fired /\ hist' = hist
        BY <1>13 DEF labVars
  <2>2. CASE up = "live"
    <3>1. SameRecords(rec.records, rec.records) /\ Goes(hist, ctl, rec)
          BY <2>1, <2>2 DEF SameRecords, Goes
    <3>. QED  BY <1>1, <2>1, <2>2, <3>1, TransitionCommands
  <2>3. CASE up # "live"
    <3>1. CommonType'
          BY <1>1, <2>1 DEF CommonType
    <3>2. /\ TransitionOrder(rec') /\ TransitionQuota(rec'.records, hist')
          /\ rec'.on /\ NoneMade(rec'.records) => hist'.cut
          BY <2>1 DEF TransitionInv
    <3>. QED  BY <1>1, <2>1, <2>3, <3>1, <3>2, TransitionKeeps
  <2>. QED  BY <2>2, <2>3
<1>. QED  BY <1>4, <1>5, <1>6, <1>7, <1>8, <1>9, <1>10, <1>11, <1>12, <1>13
          DEF Lab!PT!Next

LEMMA TransitionInvImplies ==
    ASSUME TransitionInv
    PROVE  /\ Lab!PT!ShotsRecordedOnce /\ Lab!PT!WithinPlan /\ Lab!PT!RoomForShots
           /\ Lab!PT!InOrder /\ (up = "live" => ctl.last <= fired)
<1>. DEFINE m == rec.records
<1>1. Lab!PT!ShotsRecordedOnce
  <2>. DEFINE ids == TransitionIdsOf(m)
  <2>1. ids = Lab!PT!RecordedIds
        BY DEF Lab!PT!RecordedIds, TransitionIdsOf, Places
  <2>2. up = "live" /\ ~hist.cut => ctl.last = Greatest(ids)
    <3>1. /\ CommonType /\ IdsSeen(ids)
          /\ up = "live" /\ ~hist.cut => LastIsRecorded(ids)
          BY DEF TransitionInv
    <3>. HIDE DEF ids
    <3>. QED  BY <3>1, LastIsGreatest
  <2>3. Lab!PT!MaxId(ids) = Greatest(ids)
        BY TransitionLibrary
  <2>4. TransitionIds(m)
        BY DEF TransitionInv
  <2>. HIDE DEF ids
  <2>. QED  BY <2>1, <2>2, <2>3, <2>4 DEF Lab!PT!ShotsRecordedOnce, TransitionIds, Places
<1>2. /\ TransitionQuota(m, hist) /\ TransitionOrder(rec)
      /\ up = "live" => TransitionPlace(ctl, rec, hist)
      BY DEF TransitionInv
<1>3. Lab!PT!WithinPlan
      BY <1>2, TransitionLibrary DEF TransitionQuota, Lab!PT!WithinPlan, Places
<1>4. Lab!PT!RoomForShots
  <2>. SUFFICES ASSUME up = "live", ctl.phase = 3, ~hist.cut
                PROVE  Lab!PT!ShotsCompleted < VerificationShots
       BY DEF Lab!PT!RoomForShots, Lab!PT!Verification
  <2>1. ~m[StationAt(ctl.index)].full /\ StationAt(ctl.index) \in Places
        BY <1>2, TransitionFields DEF TransitionPlace
  <2>2. Cardinality(m[StationAt(ctl.index)].shots) < VerificationShots
        BY <1>2, <2>1 DEF TransitionQuota
  <2>. QED  BY <2>2, TransitionLibrary DEF Lab!PT!ShotsCompleted, Lab!PT!Here, StationAt
<1>5. Lab!PT!InOrder
  <2>. SUFFICES ASSUME NEW i \in Stations, m[StationAt(i)].made, NEW j \in 0 .. i - 1
                PROVE  m[StationAt(j)].full
       BY DEF Lab!PT!InOrder, Stations, StationAt
  <2>1. ~NoneMade(m)
        BY StationTells DEF NoneMade
  <2>2. PICK a \in Stations : StationsUpTo(m, a)
        BY <1>2, <2>1 DEF TransitionOrder
  <2>3. i <= a
        BY <2>2 DEF StationsUpTo
  <2>4. j \in Stations /\ j < a
    <3>1. i \in Nat /\ a \in Nat
          BY StationTells
    <3>2. j < a /\ j \in 0 .. i
          BY <2>3, <3>1
    <3>3. i \in 0 .. Len(Sequence) * Repeats - 1 /\ Len(Sequence) * Repeats - 1 \in Int
          BY TransitionNumbers DEF Stations, Lab!PT!Stations
    <3>4. \A z \in Int : i \in 0 .. z => j \in 0 .. z
          BY <3>1, <3>2
    <3>5. j \in 0 .. Len(Sequence) * Repeats - 1
          BY <3>3, <3>4, Zenon
    <3>. QED  BY <3>2, <3>5 DEF Stations, Lab!PT!Stations
  <2>. QED  BY <2>2, <2>4 DEF StationsUpTo
<1>6. up = "live" => ctl.last <= fired
      BY DEF TransitionInv, CommonType, IdsSeen
<1>. QED  BY <1>1, <1>3, <1>4, <1>5, <1>6
-----------------------------------------------------------------------------
(* The Training Lab.                                                       *)

LabInv ==
    /\ which \in {"blocks", "calls", "transition", "wind"}
    /\ which = "blocks" => BlocksInv
    /\ which = "calls" => CallsInv
    /\ which = "transition" => TransitionInv
    /\ which = "wind" => WindInv

\* The four programmes begin without a session.
LEMMA NoSession ==
    ASSUME up = "none", fired = 0, hist = FreshHist
    PROVE  /\ CommonType /\ IdsSeen({}) /\ FreshHist.cut = FALSE
           /\ IsFiniteSet({}) /\ Cardinality({}) = 0
BY FS_EmptySet DEF CommonType, FreshHist, Winds, IdsSeen

LEMMA WindInit ==
    ASSUME Lab!WM!Init
    PROVE  WindInv
<1>1. /\ up = "none" /\ fired = 0 /\ hist = FreshHist
      /\ ctl = Lab!WM!Idle /\ rec = Lab!WM!NoRec
      BY DEF Lab!WM!Init, Lab!WM!NewHist, FreshHist
<1>2. rec.shots = {} /\ rec.nextId = 1
      BY <1>1 DEF Lab!WM!NoRec
<1>3. ctl \in WindCtl /\ rec \in WindRec
  <2>1. /\ 0 \in 0 .. 6 /\ 0 \in 0 .. 3 /\ 0 \in Nat /\ 1 \in Nat /\ "noReading" \in Winds
        /\ {} \in SUBSET WindShot
        BY DEF Winds
  <2>. QED  BY <1>1, <2>1 DEF Lab!WM!NoRec, Lab!WM!Idle, WindCtl, WindRec
<1>4. Lab!WM!RecordedIds = {} /\ {s.n : s \in rec.shots} = {}
      BY <1>2 DEF Lab!WM!RecordedIds
<1>5. WindType /\ WindNumbers
      BY <1>1, <1>2, <1>3, <1>4, NoSession DEF WindType, WindNumbers
<1>. QED  BY <1>1, <1>4, <1>5, NoSession DEF WindInv

LEMMA CallsInit ==
    ASSUME Lab!CD!Init
    PROVE  CallsInv
<1>1. /\ up = "none" /\ fired = 0 /\ hist = FreshHist
      /\ ctl = Lab!CD!Idle /\ rec = Lab!CD!NoRec
      BY DEF Lab!CD!Init, Lab!CD!NewHist, FreshHist
<1>2. rec.shots = <<>> /\ rec.sighters = {} /\ rec.pos = 0 /\ ctl.pos = 0
      BY <1>1 DEF Lab!CD!NoRec, Lab!CD!Idle
<1>3. CallsType
  <2>1. /\ 0 \in 0 .. 5 /\ 0 \in 0 .. 2 /\ 0 \in Nat /\ {} \in SUBSET Nat
        /\ <<>> \in Seq(CallsShot)
        OBVIOUS
  <2>. QED  BY <1>1, <2>1 DEF Lab!CD!NoRec, Lab!CD!Idle, CallsCtl, CallsRec, CallsType
<1>4. /\ DOMAIN rec.shots = {} /\ IdsOf(rec.shots) = {} /\ \A p : At(rec.shots, p) = {}
  <2>1. DOMAIN rec.shots = {}
        BY <1>2
  <2>. QED  BY <2>1 DEF IdsOf, At
<1>5. Numbered(rec.shots) /\ IdsDiffer(rec.shots, rec.sighters) /\ OnlyLastWaits
      BY <1>4 DEF Numbered, IdsDiffer, OnlyLastWaits
<1>6. PositionsInOrder /\ CallsPlace
      BY <1>1, <1>2, <1>4 DEF PositionsInOrder, CallsPlace
<1>7. Quota
  <2>1. hist.resumes = 0 /\ ShotCount \in Nat
        BY <1>1, CallsNumbers DEF FreshHist
  <2>2. \A p : Cardinality(At(rec.shots, p)) = 0
        BY <1>4, FS_EmptySet
  <2>. QED  BY <1>1, <2>1, <2>2 DEF Quota
<1>. QED  BY <1>1, <1>2, <1>3, <1>4, <1>5, <1>6, <1>7, NoSession DEF CallsInv

LEMMA BlocksInit ==
    ASSUME Lab!TB!Init
    PROVE  BlocksInv
<1>1. /\ up = "none" /\ fired = 0 /\ hist = FreshHist
      /\ ctl = Lab!TB!Idle /\ rec = Lab!TB!NoRec
      BY DEF Lab!TB!Init, Lab!TB!NewHist, FreshHist
<1>2. rec = [on |-> FALSE, done |-> FALSE, threeP |-> FALSE, sighting |-> FALSE,
             before |-> 1, block |-> 0, begun |-> {}, full |-> {}, noted |-> {},
             sighters |-> {}, shots |-> [b \in BlockIds |-> {}]]
      BY <1>1, BlocksNumbers DEF Lab!TB!NoRec
<1>3. /\ rec.on = FALSE /\ rec.block = 0 /\ rec.begun = {} /\ rec.full = {} /\ rec.noted = {}
      /\ rec.sighters = {} /\ \A b \in BlockIds : rec.shots[b] = {}
      BY <1>2
<1>4. BlocksType
  <2>1. /\ 0 \in Nat /\ 1 \in Nat /\ 0 \in 0 .. BlockCount /\ 0 \in 0 .. 4
        /\ {} \in SUBSET BlockIds /\ {} \in SUBSET Nat
        /\ [b \in BlockIds |-> {}] \in [BlockIds -> SUBSET Nat]
        BY BlocksNumbers
  <2>2. rec \in BlocksRec
        BY <1>2, <2>1, Zenon DEF BlocksRec
  <2>3. ctl \in BlocksCtl
        BY <1>1, <2>1, Zenon DEF Lab!TB!Idle, BlocksCtl
  <2>. QED  BY <1>1, <1>3, <2>2, <2>3, NoSession DEF BlocksType
<1>5. BlocksOrder(rec)
      BY <1>3 DEF BlocksOrder
<1>6. BlocksQuota(rec, hist) /\ BlocksIds(rec)
  <2>1. 0 \notin BlockIds /\ 0 <= ShotsPerBlock
        BY BlocksNumbers DEF BlockIds
  <2>2. \A b \in BlockIds : Cardinality(rec.shots[b]) = 0
        BY <1>3, FS_EmptySet
  <2>3. BlocksQuota(rec, hist)
        BY <1>3, <2>1, <2>2 DEF BlocksQuota
  <2>4. \A b \in BlockIds : \A a \in 1 .. b - 1 : rec.shots[a] \cap rec.shots[b] = {}
        BY <1>3
  <2>. QED  BY <1>3, <2>3, <2>4 DEF BlocksIds
<1>7. BlocksIdsOf(rec) = {}
      BY <1>3 DEF BlocksIdsOf
<1>. QED  BY <1>1, <1>4, <1>5, <1>6, <1>7, NoSession DEF BlocksInv

LEMMA TransitionInit ==
    ASSUME Lab!PT!Init
    PROVE  TransitionInv
<1>1. /\ up = "none" /\ fired = 0 /\ hist = FreshHist
      /\ ctl = Lab!PT!Idle /\ rec = Lab!PT!NoRec
      BY DEF Lab!PT!Init, Lab!PT!NewHist, FreshHist
<1>. DEFINE none == [p \in Places |-> Lab!PT!NewRecord]
<1>2. rec = [on |-> FALSE, done |-> FALSE, at |-> [pos |-> 0, repeat |-> 1],
             setup |-> FALSE, verifying |-> FALSE, records |-> none]
      BY <1>1 DEF Lab!PT!NoRec, Places
<1>3. /\ rec.on = FALSE
      /\ \A p \in Places : /\ rec.records[p].shots = {} /\ rec.records[p].sighters = {}
                           /\ rec.records[p].full = FALSE /\ rec.records[p].made = FALSE
  <2>1. rec.on = FALSE /\ rec.records = none
        BY <1>2
  <2>2. \A p \in Places : none[p] = Lab!PT!NewRecord
        OBVIOUS
  <2>. QED  BY <2>1, <2>2 DEF Lab!PT!NewRecord
<1>4. TransitionType
  <2>1. {} \in SUBSET Nat /\ 0 \in 0 .. 5 /\ 0 \in Nat /\ 0 \in Stations
        BY StationTells
  <2>2. none \in [Places -> StationRecord]
    <3>1. Lab!PT!NewRecord \in StationRecord
          BY <2>1, Zenon DEF Lab!PT!NewRecord, StationRecord
    <3>. QED  BY <3>1
  <2>. HIDE DEF none
  <2>3. rec \in TransitionRec
        BY <1>2, <2>2, StationTells, Zenon DEF TransitionRec
  <2>4. ctl \in TransitionCtl
        BY <1>1, <2>1, Zenon DEF Lab!PT!Idle, TransitionCtl
  <2>. QED  BY <1>1, <1>3, <2>3, <2>4, NoSession DEF TransitionType
<1>5. TransitionOrder(rec)
      BY <1>3 DEF TransitionOrder, NoneMade
<1>6. TransitionQuota(rec.records, hist) /\ TransitionIds(rec.records)
  <2>1. \A p \in Places : Cardinality(rec.records[p].shots) = 0
        BY <1>3, FS_EmptySet
  <2>2. 0 <= VerificationShots /\ 0 < VerificationShots
        BY TransitionNumbers
  <2>3. TransitionQuota(rec.records, hist)
        BY <1>3, <2>1, <2>2 DEF TransitionQuota
  <2>4. TransitionIds(rec.records)
        BY <1>3 DEF TransitionIds
  <2>. QED  BY <2>3, <2>4
<1>7. TransitionIdsOf(rec.records) = {}
      BY <1>3 DEF TransitionIdsOf
<1>. QED  BY <1>1, <1>3, <1>4, <1>5, <1>6, <1>7, NoSession DEF TransitionInv

LEMMA LabInitial ==
    ASSUME CourseInit
    PROVE  LabInv
<1>1. Lab!Init
      BY DEF CourseInit
<1>2. CASE which = "blocks" /\ Lab!TB!Init
      BY <1>2, BlocksInit DEF LabInv
<1>3. CASE which = "calls" /\ Lab!CD!Init
      BY <1>3, CallsInit DEF LabInv
<1>4. CASE which = "transition" /\ Lab!PT!Init
      BY <1>4, TransitionInit DEF LabInv
<1>5. CASE which = "wind" /\ Lab!WM!Init
      BY <1>5, WindInit DEF LabInv
<1>. QED  BY <1>1, <1>2, <1>3, <1>4, <1>5 DEF Lab!Init

LEMMA LabStep ==
    ASSUME LabInv, [CourseNext]_<<course, vars, labVars>>
    PROVE  LabInv'
<1>1. /\ which' = which
      /\ \/ UNCHANGED labVars
         \/ which = "blocks" /\ Lab!TB!Next
         \/ which = "calls" /\ Lab!CD!Next
         \/ which = "transition" /\ Lab!PT!Next
         \/ which = "wind" /\ Lab!WM!Next
  <2>1. CASE CourseNext
        BY <2>1 DEF CourseNext, Lab!Next, labVars
  <2>2. CASE UNCHANGED <<course, vars, labVars>>
        BY <2>2 DEF labVars
  <2>. QED  BY <2>1, <2>2
<1>2. CASE which = "blocks"
  <2>1. [Lab!TB!Next]_labVars
        BY <1>1, <1>2
  <2>2. BlocksInv'
        BY <1>2, <2>1, BlocksStep DEF LabInv
  <2>. QED  BY <1>1, <1>2, <2>2 DEF LabInv
<1>3. CASE which = "calls"
  <2>1. [Lab!CD!Next]_labVars
        BY <1>1, <1>3
  <2>2. CallsInv'
        BY <1>3, <2>1, CallsStep DEF LabInv
  <2>. QED  BY <1>1, <1>3, <2>2 DEF LabInv
<1>4. CASE which = "transition"
  <2>1. [Lab!PT!Next]_labVars
        BY <1>1, <1>4
  <2>2. TransitionInv'
        BY <1>4, <2>1, TransitionStep DEF LabInv
  <2>. QED  BY <1>1, <1>4, <2>2 DEF LabInv
<1>5. CASE which = "wind"
  <2>1. [Lab!WM!Next]_labVars
        BY <1>1, <1>5
  <2>2. WindInv'
        BY <1>5, <2>1, WindStep DEF LabInv
  <2>. QED  BY <1>1, <1>5, <2>2 DEF LabInv
<1>. QED  BY <1>2, <1>3, <1>4, <1>5 DEF LabInv

\* In every reachable state the controller of the programme stands where the
\* journal says, as far as a resume has to tell.
THEOREM TrainingStands == CourseSpec => []LabInv
<1>1. CourseInit => LabInv
      BY LabInitial
<1>2. LabInv /\ [CourseNext]_<<course, vars, labVars>> => LabInv'
      BY LabStep
<1>. QED  BY <1>1, <1>2, PTL DEF CourseSpec

\* No shot of a training session is recorded twice, and none is taken for one
\* that came before: the page numbers on after a resume, with every plan and
\* any number of crashes.
THEOREM TrainingShotsAreRecordedOnce == CourseSpec => []ShotsRecordedOnce
<1>1. LabInv => ShotsRecordedOnce
  <2>. SUFFICES ASSUME LabInv
                PROVE  ShotsRecordedOnce
       OBVIOUS
  <2>. USE DEF ShotsRecordedOnce, Lab!ShotsRecordedOnce
  <2>1. CASE which = "blocks"
        BY <2>1, BlocksInvImplies DEF LabInv
  <2>2. CASE which = "calls"
        BY <2>2, CallsInvImplies DEF LabInv
  <2>3. CASE which = "transition"
        BY <2>3, TransitionInvImplies DEF LabInv
  <2>4. CASE which = "wind"
        BY <2>4, WindInvImplies DEF LabInv
  <2>. QED  BY <2>1, <2>2, <2>3, <2>4 DEF LabInv
<1>. QED  BY <1>1, TrainingStands, PTL

\* Call & Diagnose never has two shots that wait for a call, and the one that
\* waits is the one the controller asks for: a crash between a shot and its
\* call resumes with that shot.
THEOREM OneShotWaits == CourseSpec => []OneUnresolvedShot
<1>1. LabInv => OneUnresolvedShot
      BY CallsInvImplies DEF LabInv, OneUnresolvedShot, Lab!OneUnresolvedShot
<1>. QED  BY <1>1, TrainingStands, PTL

\* Blocks, positions and verifications take the shots of their plan and are
\* gone through in order; what waits for a shot has room for it, unless a crash
\* has cut a handler.
THEOREM TrainingKeepsToPlan == CourseSpec => []WithinPlan
<1>1. LabInv => WithinPlan
  <2>. SUFFICES ASSUME LabInv
                PROVE  WithinPlan
       OBVIOUS
  <2>1. which = "blocks" => Lab!TB!WithinPlan /\ Lab!TB!RoomForShots /\ Lab!TB!InOrder
        BY BlocksInvImplies DEF LabInv
  <2>2. which = "calls" => Lab!CD!WithinPlan /\ Lab!CD!InOrder
        BY CallsInvImplies DEF LabInv
  <2>3. which = "transition" => Lab!PT!WithinPlan /\ Lab!PT!RoomForShots /\ Lab!PT!InOrder
        BY TransitionInvImplies DEF LabInv
  <2>. QED  BY <2>1, <2>2, <2>3
            DEF WithinPlan, Lab!WithinPlan, Lab!RoomForShots, Lab!InOrder
<1>. QED  BY <1>1, TrainingStands, PTL
-----------------------------------------------------------------------------
(* Resumes.                                                                *)

\* Blocks: where the controller stands or, when no handler has been cut, stood.
BlocksTold ==
    rec.on /\ ~rec.done /\ (up = "live" \/ (up = "down" /\ ~hist.cut)) =>
        BlocksPlace(ctl, rec) /\ ctl.phase # 4

LEMMA BlocksGoes ==
    ASSUME BlocksInv', NEW h, NEW c, NEW r, Goes(h, c, r),
           r.on /\ ~r.done => c.phase # 4
    PROVE  BlocksTold'
BY DEF Goes, BlocksTold, BlocksInv

LEMMA BlocksTells ==
    ASSUME BlocksInv, BlocksInv', BlocksTold, [Lab!TB!Next]_labVars
    PROVE  BlocksTold'
<1>1. ctl \in BlocksCtl /\ rec \in BlocksRec
      BY BlocksFields
<1>2. up = "live" /\ rec.on /\ ~rec.done => ctl.phase # 4
      BY DEF BlocksTold
<1>3. hist \in [cut : BOOLEAN, resumes : Nat, told : Winds]
      BY DEF BlocksInv, CommonType
<1>4. CASE Lab!TB!StartTraining
  <2>. DEFINE c == [Lab!TB!Idle EXCEPT !.phase = 1]
  <2>1. PICK threeP \in BOOLEAN :
           Lab!TB!Starts(c, <<Lab!TB!NoRec,
                              Lab!TB!TrainingSessionStarted(Lab!TB!NoRec, threeP)>>)
        BY <1>4 DEF Lab!TB!StartTraining
  <2>. DEFINE r == Lab!TB!TrainingSessionStarted(Lab!TB!NoRec, threeP)
  <2>2. Goes(FreshHist, c, r) \/ Dies(FreshHist, Lab!TB!NoRec)
        BY <2>1, BlocksSubmits DEF Lab!TB!Starts, Lab!TB!NewHist, FreshHist
  <2>3. c.phase = 1 /\ ~Lab!TB!NoRec.on
        BY DEF Lab!TB!Idle, Lab!TB!NoRec
  <2>. HIDE DEF c, r
  <2>4. CASE Goes(FreshHist, c, r)
        BY <2>3, <2>4, BlocksGoes
  <2>5. CASE Dies(FreshHist, Lab!TB!NoRec)
        BY <2>3, <2>5 DEF Dies, BlocksTold
  <2>. QED  BY <2>2, <2>4, <2>5
<1>5. CASE Lab!TB!StartBlock
  <2>. DEFINE b == Lab!TB!PendingBlock
              c == [ctl EXCEPT !.phase = 2, !.block = b]
              r == Lab!TB!TrainingBlockStarted(rec, b)
  <2>1. Goes(hist, c, r)
        BY <1>5, BlocksSubmits DEF Lab!TB!StartBlock, Lab!TB!Does, Lab!TB!Submits
  <2>. HIDE DEF b
  <2>2. c.phase = 2
        BY <1>1 DEF BlocksCtl
  <2>. HIDE DEF c, r
  <2>. QED  BY <2>1, <2>2, BlocksGoes
<1>6. CASE Lab!TB!RegisterShot
  <2>1. CASE Lab!TB!AcceptSighter(fired + 1)
    <3>. DEFINE c == [ctl EXCEPT !.last = fired + 1]
                r == Lab!TB!TrainingSighterAccepted(rec, fired + 1)
    <3>1. Goes(hist, c, r) /\ ctl.phase = 1
          BY <2>1, BlocksSubmits DEF Lab!TB!AcceptSighter, Lab!TB!Submits
    <3>2. c.phase = ctl.phase
          BY <1>1 DEF BlocksCtl
    <3>. HIDE DEF c, r
    <3>. QED  BY <3>1, <3>2, BlocksGoes
  <2>2. CASE Lab!TB!AcceptShot(fired + 1)
    <3>. DEFINE taken == [ctl EXCEPT !.last = fired + 1]
                review == [taken EXCEPT !.phase = 3]
                s == Lab!TB!TrainingShotAccepted(rec, ctl.block, fired + 1)
                full == Lab!TB!TrainingBlockCompleted(s, ctl.block)
    <3>1. ctl.phase = 2 /\ \/ Lab!TB!SubmitsFrom(hist, taken, <<s>>)
                           \/ Lab!TB!SubmitsFrom(hist, review, <<s, full>>)
          BY <2>2 DEF Lab!TB!AcceptShot, Lab!TB!Submits
    <3>2. taken \in BlocksCtl /\ taken.phase = ctl.phase
          BY <1>1, BlocksFields DEF BlocksCtl
    <3>. HIDE DEF taken
    <3>3. review.phase = 3
          BY <3>2 DEF BlocksCtl
    <3>. HIDE DEF review, s, full
    <3>4. Goes(hist, taken, s) \/ Goes(hist, review, full) \/ Dies(hist, s)
          BY <3>1, BlocksSubmits
    <3>5. CASE Goes(hist, taken, s)
          BY <3>1, <3>2, <3>5, BlocksGoes
    <3>6. CASE Goes(hist, review, full)
          BY <3>3, <3>6, BlocksGoes
    <3>7. CASE Dies(hist, s)
      <4>1. up' = "down" /\ hist' = [hist EXCEPT !.cut = TRUE]
            BY <3>7 DEF Dies
      <4>2. hist'.cut
            BY <1>3, <4>1
      <4>. QED  BY <4>1, <4>2 DEF BlocksTold
    <3>. QED  BY <3>4, <3>5, <3>6, <3>7
  <2>3. CASE Lab!TB!RefuseShot(fired + 1)
    <3>1. up = "live" /\ Goes(hist, ctl, rec)
          BY <2>3, BlocksSubmits DEF Lab!TB!RefuseShot, Lab!TB!Submits
    <3>. QED  BY <1>2, <3>1, BlocksGoes
  <2>. QED  BY <1>6, <2>1, <2>2, <2>3 DEF Lab!TB!RegisterShot
<1>7. CASE Lab!TB!SaveNote
  <2>. DEFINE r == Lab!TB!TrainingNoteSaved(rec, ctl.block)
  <2>1. up = "live" /\ Goes(hist, ctl, r)
        BY <1>7, BlocksSubmits DEF Lab!TB!SaveNote, Lab!TB!Does, Lab!TB!Submits
  <2>2. r.on = rec.on /\ r.done = rec.done
        BY <1>1 DEF BlocksRec, Lab!TB!TrainingNoteSaved
  <2>. HIDE DEF r
  <2>. QED  BY <1>2, <2>1, <2>2, BlocksGoes
<1>8. CASE Lab!TB!ContinueToNextBlock \/ Lab!TB!EndTrainingEarly
  <2>. DEFINE b == ctl.block + 1
              over == [ctl EXCEPT !.phase = 4]
              done == Lab!TB!TrainingCompleted(rec)
              sights == [ctl EXCEPT !.phase = 1]
              sighting == Lab!TB!TrainingSighterPhaseStarted(rec, b)
              next == [ctl EXCEPT !.phase = 2, !.block = b]
              begun == Lab!TB!TrainingBlockStarted(rec, b)
  <2>1. \/ Lab!TB!SubmitsFrom(hist, over, <<done>>)
        \/ Lab!TB!SubmitsFrom(hist, sights, <<sighting>>)
        \/ Lab!TB!SubmitsFrom(hist, next, <<begun>>)
        BY <1>8 DEF Lab!TB!ContinueToNextBlock, Lab!TB!EndTrainingEarly, Lab!TB!Does,
                    Lab!TB!Submits
  <2>2. done.done /\ sights.phase = 1
        BY <1>1 DEF BlocksCtl, BlocksRec, Lab!TB!TrainingCompleted
  <2>. HIDE DEF b
  <2>3. next.phase = 2
        BY <1>1 DEF BlocksCtl
  <2>. HIDE DEF over, done, sights, sighting, next, begun
  <2>4. Goes(hist, over, done) \/ Goes(hist, sights, sighting) \/ Goes(hist, next, begun)
        BY <2>1, BlocksSubmits
  <2>. QED  BY <2>2, <2>3, <2>4, BlocksGoes
<1>9. CASE Lab!TB!CloseCleanly
      BY <1>9 DEF Lab!TB!CloseCleanly, Lab!TB!Closes, BlocksTold
<1>10. CASE Lab!TB!Resume
  <2>. DEFINE c == Lab!TB!Recovered(rec)
              last == Lab!TB!MaxId(Lab!TB!RecordedIds)
              back == [c EXCEPT !.last = last]
  <2>1. rec.on /\ Goes([hist EXCEPT !.resumes = @ + 1], back, rec)
        BY <1>10 DEF Lab!TB!Resume, Lab!TB!Resumes, Goes
  <2>2. c \in BlocksCtl /\ c.phase # 4
        BY <2>1, BlocksRecovers
  <2>. HIDE DEF c, last
  <2>3. back.phase = c.phase
        BY <2>2 DEF BlocksCtl
  <2>. HIDE DEF back
  <2>. QED  BY <2>1, <2>2, <2>3, BlocksGoes
<1>11. CASE Lab!TB!Crash
  <2>1. up = "live" /\ UNCHANGED <<ctl, rec>>
        BY <1>11 DEF Lab!TB!Crash
  <2>. QED  BY <2>1 DEF BlocksTold
<1>12. CASE UNCHANGED labVars
  <2>1. UNCHANGED <<up, ctl, rec, hist>>
        BY <1>12 DEF labVars
  <2>. QED  BY <2>1 DEF BlocksTold
<1>. QED  BY <1>4, <1>5, <1>6, <1>7, <1>8, <1>9, <1>10, <1>11, <1>12 DEF Lab!TB!Next

LEMMA BlocksInPlace ==
    ASSUME BlocksInv, BlocksTold
    PROVE  Lab!TB!ResumesInPlace
<1>. SUFFICES ASSUME Lab!TB!Resume, ~hist.cut
              PROVE  ctl'.phase = ctl.phase /\ ctl'.block = ctl.block
     BY DEF Lab!TB!ResumesInPlace
<1>. DEFINE c == Lab!TB!Recovered(rec)
            last == Lab!TB!MaxId(Lab!TB!RecordedIds)
<1>1. up = "down" /\ rec.on /\ ~rec.done /\ ctl' = [c EXCEPT !.last = last]
      BY DEF Lab!TB!Resume, Lab!TB!Resumes
<1>2. BlocksPlace(ctl, rec) /\ ctl.phase # 4
      BY <1>1 DEF BlocksTold
<1>3. c \in BlocksCtl /\ BlocksPlace(c, rec) /\ c.phase # 4
      BY <1>1, BlocksRecovers
<1>. HIDE DEF c, last
<1>4. ctl'.phase = c.phase /\ ctl'.block = c.block
      BY <1>1, <1>3 DEF BlocksCtl
<1>5. \A p \in 1 .. 4 : p # 4 => p = 1 \/ p = 2 \/ p = 3
      OBVIOUS
<1>. QED  BY <1>2, <1>3, <1>4, <1>5 DEF BlocksPlace

\* Position Transition: the time of READY is in records that are made, and the
\* phase of a session with no handler cut is told by the record of its station.
UnmadeNotReady(r) == \A p \in Places : ~r.records[p].made => ~r.records[p].ready
TransitionKnows(c, r) ==
    /\ r.at = StationAt(c.index) /\ c.phase \in 1 .. 4
    /\ c.phase = 4 <=> r.records[r.at].full
    /\ c.phase = 3 <=> r.verifying
    /\ c.phase \in 1 .. 2 => ~r.records[r.at].ready
TransitionTold ==
    /\ UnmadeNotReady(rec)
    /\ rec.on /\ ~rec.done /\ up # "none" /\ ~hist.cut => TransitionKnows(ctl, rec)

LEMMA TransitionGoes ==
    ASSUME TransitionInv', NEW h, NEW c, NEW r, Goes(h, c, r), UnmadeNotReady(r),
           r.on /\ ~r.done /\ ~h.cut =>
               /\ c.phase # 5 /\ (c.phase = 3 <=> r.verifying)
               /\ c.phase \in 1 .. 2 => ~r.records[StationAt(c.index)].ready
    PROVE  TransitionTold'
<1>1. ctl' = c /\ rec' = r /\ up' = "live" /\ hist' = h
      BY DEF Goes
<1>2. TransitionPlace(c, r, h) /\ (r.on /\ NoneMade(r.records) => h.cut)
      BY <1>1 DEF TransitionInv
<1>3. ASSUME r.on, ~r.done, ~h.cut
      PROVE  TransitionKnows(c, r)
  <2>1. /\ r.at = StationAt(c.index) /\ c.phase \in 1 .. 5
        /\ c.phase \in 1 .. 3 => ~r.records[r.at].full
        /\ c.phase = 4 => r.records[r.at].full
        BY <1>2, <1>3 DEF TransitionPlace
  <2>2. c.phase \in 1 .. 4 /\ (c.phase \in 1 .. 3 \/ c.phase = 4)
        BY <1>3, <2>1
  <2>. QED  BY <1>3, <2>1, <2>2 DEF TransitionKnows
<1>. QED  BY <1>1, <1>3 DEF TransitionTold

LEMMA TransitionCut ==
    ASSUME NEW h \in [cut : BOOLEAN, resumes : Nat, told : Winds], NEW r, Dies(h, r),
           UnmadeNotReady(r)
    PROVE  TransitionTold'
<1>1. rec' = r /\ hist' = [h EXCEPT !.cut = TRUE]
      BY DEF Dies
<1>2. hist'.cut = TRUE
      BY <1>1
<1>. QED  BY <1>1, <1>2 DEF TransitionTold

LEMMA UnmadeUpdates ==
    ASSUME NEW r \in TransitionRec, NEW p \in Places, NEW q \in StationRecord,
           q.made = r.records[p].made, UnmadeNotReady(r)
    PROVE  UnmadeNotReady(Lab!PT!Updated(r, p, q))
<1>. DEFINE u == Lab!PT!Updated(r, p, q)
<1>1. /\ \A x \in Places \ {p} : u.records[x] = r.records[x]
      /\ r.records[p].made => u.records[p] = q
      /\ ~r.records[p].made => u.records[p] = r.records[p]
      BY TransitionUpdates
<1>. HIDE DEF u
<1>2. UnmadeNotReady(u)
      BY <1>1 DEF UnmadeNotReady
<1>. QED  BY <1>2 DEF u

\* The controller that a resume puts together from the journal.
LEMMA TransitionRecovers ==
    ASSUME TransitionInv, NEW i \in Stations, rec.at = StationAt(i)
    PROVE  LET c == Lab!PT!Recovered(rec)
               here == rec.records[rec.at]
           IN  /\ c \in TransitionCtl /\ c.index = i
               /\ here.full => c.phase = 4
               /\ ~here.full /\ rec.verifying => c.phase = 3
               /\ ~here.full /\ ~rec.verifying /\ ~here.ready => c.phase = 1
<1>. DEFINE c == Lab!PT!Recovered(rec)
            here == rec.records[rec.at]
            places == {k \in Stations : StationAt(k) = rec.at}
            index == IF places = {} THEN 0 ELSE Lab!PT!Min(places)
            phase == CASE here.full -> 4
                       [] ~here.full /\ rec.verifying -> 3
                       [] ~here.full /\ ~rec.verifying /\ ~rec.setup /\ here.ready -> 2
                       [] OTHER -> 1
<1>1. c = [Lab!PT!Idle EXCEPT !.index = index, !.phase = phase]
      BY DEF Lab!PT!Recovered, Lab!PT!Review, Lab!PT!Verification, Lab!PT!Sighters,
             Lab!PT!Setup, Stations, StationAt
<1>2. /\ phase \in 1 .. 4
      /\ here.full => phase = 4
      /\ ~here.full /\ rec.verifying => phase = 3
      /\ ~here.full /\ ~rec.verifying /\ ~here.ready => phase = 1
  <2>. HIDE DEF here
  <2>1. CASE here.full
        BY <2>1
  <2>2. CASE ~here.full /\ rec.verifying
        BY <2>2
  <2>3. CASE ~here.full /\ ~rec.verifying /\ ~rec.setup /\ here.ready
        BY <2>3
  <2>4. CASE ~here.full /\ ~rec.verifying /\ ~(~rec.setup /\ here.ready)
        BY <2>4
  <2>. QED  BY <2>1, <2>2, <2>3, <2>4
<1>3. index = i
  <2>1. places = {i} /\ Stations \in SUBSET Nat
        BY StationTells
  <2>2. i \in {i} /\ {i} \in SUBSET Nat /\ \A y \in {i} : i <= y
        BY <2>1
  <2>3. (CHOOSE x \in {i} : \A y \in {i} : x =< y) = i
        BY <2>2, LeastIs
  <2>4. Lab!PT!Min({i}) = i
        BY <2>3, TransitionLibrary
  <2>. HIDE DEF places
  <2>. QED  BY <2>1, <2>4
<1>. HIDE DEF c, index, phase, here
<1>4. c \in TransitionCtl
  <2>1. 0 \in 0 .. 5 /\ 0 \in Nat /\ phase \in 0 .. 5 /\ 0 \in Stations
        BY <1>2, StationTells
  <2>. QED  BY <1>1, <1>3, <2>1, Zenon DEF Lab!PT!Idle, TransitionCtl
<1>5. c.index = i /\ c.phase = phase
      BY <1>1, <1>3 DEF Lab!PT!Idle
<1>. QED  BY <1>2, <1>4, <1>5 DEF c, here

LEMMA TransitionTells ==
    ASSUME TransitionInv, TransitionInv', TransitionTold, [Lab!PT!Next]_labVars
    PROVE  TransitionTold'
<1>. USE DEF Lab!PT!Setup, Lab!PT!Sighters, Lab!PT!Verification, Lab!PT!Review,
             Lab!PT!Complete
<1>. DEFINE p == StationAt(ctl.index)
<1>1. /\ ctl \in TransitionCtl /\ rec \in TransitionRec /\ p \in Places
      /\ rec.records[p] \in StationRecord
      BY TransitionFields
<1>2. hist \in [cut : BOOLEAN, resumes : Nat, told : Winds]
      BY DEF TransitionInv, CommonType
<1>3. UnmadeNotReady(rec)
      BY DEF TransitionTold
<1>4. up = "live" /\ rec.on /\ ~rec.done /\ ~hist.cut =>
         /\ ctl.phase \in 1 .. 4 /\ (ctl.phase = 3 <=> rec.verifying)
         /\ ctl.phase \in 1 .. 2 => ~rec.records[p].ready
      BY DEF TransitionTold, TransitionKnows
<1>5. ASSUME up = "live", NEW c, NEW r, Goes(hist, c, r), UnmadeNotReady(r),
             r.on = rec.on, r.done = rec.done, r.verifying = rec.verifying,
             r.records[p].ready = rec.records[p].ready,
             c.index = ctl.index,
             c.phase = ctl.phase \/ (ctl.phase \in 1 .. 2 /\ c.phase \in 1 .. 2)
      PROVE  TransitionTold'
  <2>1. \A n \in 1 .. 2 : n # 3 /\ n # 5
        OBVIOUS
  <2>2. \A n \in 1 .. 4 : n # 5
        OBVIOUS
  <2>. QED  BY <1>4, <1>5, <2>1, <2>2, TransitionGoes
<1>6. UnmadeNotReady(Lab!PT!NoRec)
      BY TransitionNone DEF UnmadeNotReady, Lab!PT!NewRecord
<1>7. CASE Lab!PT!StartPositionTransition
  <2>. DEFINE c == [Lab!PT!Idle EXCEPT !.phase = 1]
              begun == Lab!PT!PositionTransitionSessionStarted(Lab!PT!NoRec)
              r == Lab!PT!PositionSetupStarted(begun, StationAt(0))
  <2>1. Goes(FreshHist, c, r) \/ Dies(FreshHist, Lab!PT!NoRec) \/ Dies(FreshHist, begun)
    <3>1. Lab!PT!SubmitsFrom(FreshHist, c, <<Lab!PT!NoRec, begun, r>>)
          BY <1>7 DEF Lab!PT!StartPositionTransition, Lab!PT!Starts, Lab!PT!NewHist, FreshHist,
                      StationAt
    <3>. QED  BY <3>1, TransitionSubmits
  <2>2. c.phase = 1 /\ c.index = 0
        BY DEF Lab!PT!Idle
  <2>3. begun \in TransitionRec /\ begun.records = Lab!PT!NoRec.records
        BY TransitionNone DEF TransitionRec, Lab!PT!PositionTransitionSessionStarted
  <2>4. UnmadeNotReady(begun)
        BY <1>6, <2>3 DEF UnmadeNotReady
  <2>. HIDE DEF begun, c
  <2>5. 0 \in Stations /\ StationAt(0) \in Places
        BY StationTells
  <2>6. /\ \A x \in Places \ {StationAt(0)} : r.records[x] = begun.records[x]
        /\ r.records[StationAt(0)].made /\ ~r.verifying
        /\ r.records[StationAt(0)].ready = begun.records[StationAt(0)].ready
        BY <2>3, <2>5, TransitionSetup
  <2>. HIDE DEF r
  <2>7. UnmadeNotReady(r)
        BY <2>4, <2>6 DEF UnmadeNotReady
  <2>8. ~r.records[StationAt(0)].ready
        BY <2>3, <2>5, <2>6, TransitionNone DEF Lab!PT!NewRecord
  <2>9. CASE Goes(FreshHist, c, r)
        BY <2>2, <2>6, <2>7, <2>8, <2>9, TransitionGoes
  <2>10. FreshHist \in [cut : BOOLEAN, resumes : Nat, told : Winds]
         BY DEF FreshHist, Winds
  <2>. QED  BY <1>6, <2>1, <2>4, <2>9, <2>10, TransitionCut
<1>8. CASE Lab!PT!ReadyForSighters
  <2>. DEFINE c == [ctl EXCEPT !.phase = 2]
              r == Lab!PT!PositionReady(rec)
  <2>1. up = "live" /\ ctl.phase = 1 /\ Goes(hist, c, r)
        BY <1>8, TransitionSubmits
           DEF Lab!PT!ReadyForSighters, Lab!PT!Does, Lab!PT!Submits
  <2>2. c.phase = 2 /\ c.index = ctl.index
        BY <1>1 DEF TransitionCtl
  <2>3. /\ r.on = rec.on /\ r.done = rec.done /\ r.verifying = rec.verifying
        /\ r.records = rec.records
        BY <1>1 DEF TransitionRec, Lab!PT!PositionReady
  <2>. HIDE DEF c, r
  <2>4. UnmadeNotReady(r)
        BY <1>3, <2>3 DEF UnmadeNotReady
  <2>5. 1 \in 1 .. 2 /\ 2 \in 1 .. 2
        OBVIOUS
  <2>. QED  BY <1>5, <2>1, <2>2, <2>3, <2>4, <2>5
<1>9. CASE Lab!PT!StartVerification
  <2>. DEFINE c == [ctl EXCEPT !.phase = 3]
              v == [rec EXCEPT !.verifying = TRUE]
              q == [rec.records[p] EXCEPT !.ready = TRUE]
              r == Lab!PT!Updated(v, p, q)
  <2>1. Lab!PT!SubmitsFrom(hist, c, <<r>>)
        BY <1>9 DEF Lab!PT!StartVerification, Lab!PT!Does, Lab!PT!Submits, Lab!PT!Here,
                    Lab!PT!PositionVerificationStarted, StationAt
  <2>2. c.phase = 3
        BY <1>1 DEF TransitionCtl
  <2>3. v \in TransitionRec /\ v.records = rec.records /\ v.verifying
        BY <1>1 DEF TransitionRec
  <2>4. q \in StationRecord /\ q.made = rec.records[p].made
        BY <1>1 DEF StationRecord
  <2>. HIDE DEF c, v, p, q
  <2>5. UnmadeNotReady(v)
        BY <1>3, <2>3 DEF UnmadeNotReady
  <2>6. UnmadeNotReady(r) /\ r.verifying
        BY <1>1, <2>3, <2>4, <2>5, UnmadeUpdates, TransitionUpdates
  <2>. HIDE DEF r
  <2>7. Goes(hist, c, r)
        BY <2>1, TransitionSubmits
  <2>8. 3 # 5 /\ 3 \notin 1 .. 2
        OBVIOUS
  <2>. QED  BY <2>2, <2>6, <2>7, <2>8, TransitionGoes
<1>10. CASE Lab!PT!AcceptSighter(fired + 1)
  <2>. DEFINE c == [ctl EXCEPT !.last = fired + 1]
              q == [rec.records[p] EXCEPT !.sighters = @ \cup {fired + 1}]
              r == Lab!PT!Updated(rec, p, q)
  <2>1. up = "live" /\ Goes(hist, c, r)
        BY <1>10, TransitionSubmits
           DEF Lab!PT!AcceptSighter, Lab!PT!Submits, Lab!PT!PositionSighterAccepted, Lab!PT!Here,
               StationAt
  <2>2. c.phase = ctl.phase /\ c.index = ctl.index
        BY <1>1 DEF TransitionCtl
  <2>3. /\ q \in StationRecord /\ q.made = rec.records[p].made
        /\ q.ready = rec.records[p].ready
        BY <1>1, TransitionFields DEF StationRecord
  <2>. HIDE DEF c, p, q
  <2>4. /\ UnmadeNotReady(r) /\ r.on = rec.on /\ r.done = rec.done
        /\ r.verifying = rec.verifying /\ r.records[p] \in {q, rec.records[p]}
        BY <1>1, <1>3, <2>3, UnmadeUpdates, TransitionUpdates
  <2>. HIDE DEF r
  <2>5. r.records[p].ready = rec.records[p].ready
        BY <2>3, <2>4
  <2>. QED  BY <1>5, <2>1, <2>2, <2>4, <2>5
<1>11. CASE Lab!PT!AcceptVerifShot(fired + 1)
  <2>. DEFINE c == [ctl EXCEPT !.last = fired + 1]
              d == [c EXCEPT !.phase = 4]
              q == [rec.records[p] EXCEPT !.shots = @ \cup {fired + 1}]
              r == Lab!PT!Updated(rec, p, q)
              w == [r EXCEPT !.verifying = FALSE]
              f == [r.records[p] EXCEPT !.full = TRUE]
              s == Lab!PT!Updated(w, p, f)
  <2>1. /\ up = "live" /\ ctl.phase = 3
        /\ Lab!PT!SubmitsFrom(hist, c, <<r>>) \/ Lab!PT!SubmitsFrom(hist, d, <<r, s>>)
        BY <1>11
           DEF Lab!PT!AcceptVerifShot, Lab!PT!Submits, Lab!PT!PositionVerificationShotAccepted,
               Lab!PT!PositionVerificationCompleted, Lab!PT!Here, StationAt
  <2>2. c \in TransitionCtl /\ c.phase = ctl.phase /\ c.index = ctl.index
        BY <1>1, TransitionFields DEF TransitionCtl
  <2>. HIDE DEF c
  <2>3. d.phase = 4
        BY <2>2 DEF TransitionCtl
  <2>4. /\ q \in StationRecord /\ q.made = rec.records[p].made
        /\ q.ready = rec.records[p].ready
        BY <1>1, TransitionFields DEF StationRecord
  <2>. HIDE DEF d, p, q
  <2>5. /\ UnmadeNotReady(r) /\ r.on = rec.on /\ r.done = rec.done /\ r \in TransitionRec
        /\ r.verifying = rec.verifying /\ r.records[p] \in {q, rec.records[p]}
        BY <1>1, <1>3, <2>4, UnmadeUpdates, TransitionUpdates
  <2>. HIDE DEF r
  <2>6. r.records[p].ready = rec.records[p].ready
        BY <2>4, <2>5
  <2>7. w \in TransitionRec /\ w.records = r.records /\ ~w.verifying
        BY <2>5 DEF TransitionRec
  <2>8. f \in StationRecord /\ f.made = r.records[p].made
        BY <1>1, <2>4, <2>5 DEF StationRecord
  <2>9. UnmadeNotReady(w)
        BY <2>5, <2>7 DEF UnmadeNotReady
  <2>. HIDE DEF w, f
  <2>10. UnmadeNotReady(s) /\ ~s.verifying
         BY <1>1, <2>7, <2>8, <2>9, UnmadeUpdates, TransitionUpdates
  <2>. HIDE DEF s
  <2>11. Goes(hist, c, r) \/ Goes(hist, d, s) \/ Dies(hist, r)
         BY <2>1, TransitionSubmits
  <2>12. CASE Goes(hist, c, r)
         BY <1>5, <2>1, <2>2, <2>5, <2>6, <2>12
  <2>13. CASE Goes(hist, d, s)
    <3>1. 4 # 5 /\ 4 # 3 /\ 4 \notin 1 .. 2
          OBVIOUS
    <3>. QED  BY <2>3, <2>10, <2>13, <3>1, TransitionGoes
  <2>14. CASE Dies(hist, r)
         BY <1>2, <2>5, <2>14, TransitionCut
  <2>. QED  BY <2>11, <2>12, <2>13, <2>14
<1>12. CASE Lab!PT!RefuseShot(fired + 1)
  <2>1. up = "live" /\ Goes(hist, ctl, rec)
        BY <1>12, TransitionSubmits DEF Lab!PT!RefuseShot, Lab!PT!Submits
  <2>. QED  BY <1>3, <1>5, <2>1
<1>13. CASE Lab!PT!ContinueToNext /\ ctl.index + 1 \in Stations
  <2>. DEFINE b == ctl.index + 1
              c == [[ctl EXCEPT !.phase = 1] EXCEPT !.index = b]
              r == Lab!PT!PositionSetupStarted(rec, StationAt(b))
  <2>1. up = "live" /\ (Goes(hist, c, r) \/ Dies(hist, rec))
    <3>1. up = "live" /\ Lab!PT!SubmitsFrom(hist, c, <<rec, r>>)
          BY <1>13 DEF Lab!PT!ContinueToNext, Lab!PT!Does, Lab!PT!Submits,
                       Lab!PT!NextPositionTransitionStarted, Stations, StationAt
    <3>. QED  BY <3>1, TransitionSubmits
  <2>2. b \in Stations /\ StationAt(b) \in Places /\ ctl.index \in Nat /\ b \in Nat
        /\ ~(b <= ctl.index)
        BY <1>13, TransitionFields, StationTells
  <2>3. c.phase = 1 /\ c.index = b
    <3>. HIDE DEF b
    <3>. QED  BY <1>1 DEF TransitionCtl
  <2>. HIDE DEF b, c
  <2>4. /\ \A x \in Places \ {StationAt(b)} : r.records[x] = rec.records[x]
        /\ r.records[StationAt(b)].made /\ ~r.verifying
        /\ r.records[StationAt(b)].ready = rec.records[StationAt(b)].ready
        BY <1>1, <2>2, TransitionSetup
  <2>. HIDE DEF r
  <2>5. UnmadeNotReady(r)
        BY <1>3, <2>4 DEF UnmadeNotReady
  <2>6. ~hist.cut => ~r.records[StationAt(b)].ready
    <3>1. ~hist.cut => ~rec.records[StationAt(b)].made
          BY <2>1, <2>2, TransitionHere DEF StationsUpTo
    <3>. QED  BY <1>3, <2>2, <2>4, <3>1 DEF UnmadeNotReady
  <2>7. CASE Goes(hist, c, r)
        BY <2>3, <2>4, <2>5, <2>6, <2>7, TransitionGoes
  <2>8. CASE Dies(hist, rec)
        BY <1>2, <1>3, <2>8, TransitionCut
  <2>. QED  BY <2>1, <2>7, <2>8
<1>14. CASE (Lab!PT!ContinueToNext /\ ctl.index + 1 \notin Stations) \/ Lab!PT!EndEarly
  <2>. DEFINE c == [ctl EXCEPT !.phase = 5]
              r == Lab!PT!PositionTransitionCompleted(rec)
  <2>1. Goes(hist, c, r)
    <3>1. Lab!PT!SubmitsFrom(hist, c, <<r>>)
          BY <1>14 DEF Lab!PT!ContinueToNext, Lab!PT!EndEarly, Lab!PT!Does, Lab!PT!Submits,
                       Stations
    <3>. QED  BY <3>1, TransitionSubmits
  <2>2. r.done /\ r.records = rec.records
        BY <1>1 DEF TransitionRec, Lab!PT!PositionTransitionCompleted
  <2>. HIDE DEF c, r
  <2>3. UnmadeNotReady(r)
        BY <1>3, <2>2 DEF UnmadeNotReady
  <2>. QED  BY <2>1, <2>2, <2>3, TransitionGoes
<1>15. CASE Lab!PT!CloseCleanly
  <2>1. up' = "none" /\ rec' = Lab!PT!NoRec
        BY <1>15 DEF Lab!PT!CloseCleanly, Lab!PT!Closes
  <2>. QED  BY <1>6, <2>1 DEF TransitionTold
<1>16. CASE Lab!PT!Resume
  <2>. DEFINE c == Lab!PT!Recovered(rec)
              last == Lab!PT!MaxId(Lab!PT!RecordedIds)
              back == [c EXCEPT !.last = last]
              h == [hist EXCEPT !.resumes = @ + 1]
  <2>1. up = "down" /\ rec.on /\ ~rec.done /\ Goes(h, back, rec)
        BY <1>16 DEF Lab!PT!Resume, Lab!PT!Resumes, Goes
  <2>2. h.cut = hist.cut
        BY <1>2
  <2>3. ASSUME ~h.cut
        PROVE  /\ back.phase # 5 /\ (back.phase = 3 <=> rec.verifying)
               /\ back.phase \in 1 .. 2 => ~rec.records[StationAt(back.index)].ready
    <3>1. TransitionKnows(ctl, rec)
          BY <2>1, <2>2, <2>3 DEF TransitionTold
    <3>2. /\ rec.at = StationAt(ctl.index) /\ ctl.index \in Stations
          BY <3>1, TransitionFields DEF TransitionKnows
    <3>3. /\ c \in TransitionCtl /\ c.index = ctl.index
          /\ rec.records[rec.at].full => c.phase = 4
          /\ ~rec.records[rec.at].full /\ rec.verifying => c.phase = 3
          /\ ~rec.records[rec.at].full /\ ~rec.verifying /\ ~rec.records[rec.at].ready
                => c.phase = 1
          BY <3>2, TransitionRecovers
    <3>. HIDE DEF c, last
    <3>4. back.phase = c.phase /\ back.index = c.index
          BY <3>3 DEF TransitionCtl
    <3>. HIDE DEF back
    <3>5. \A n \in 1 .. 4 : n = 4 \/ n = 3 \/ n \in 1 .. 2
          OBVIOUS
    <3>6. 4 \notin 1 .. 2 /\ 3 \notin 1 .. 2
          OBVIOUS
    <3>. QED  BY <3>1, <3>2, <3>3, <3>4, <3>5, <3>6 DEF TransitionKnows
  <2>. HIDE DEF back, h
  <2>. QED  BY <1>3, <2>1, <2>3, TransitionGoes
<1>17. CASE Lab!PT!Crash
  <2>1. up = "live" /\ UNCHANGED <<ctl, rec, hist>>
        BY <1>17 DEF Lab!PT!Crash
  <2>. QED  BY <2>1 DEF TransitionTold
<1>18. CASE UNCHANGED labVars
  <2>1. UNCHANGED <<up, ctl, rec, hist>>
        BY <1>18 DEF labVars
  <2>. QED  BY <2>1 DEF TransitionTold
<1>. QED  BY <1>7, <1>8, <1>9, <1>10, <1>11, <1>12, <1>13, <1>14, <1>15, <1>16, <1>17, <1>18
          DEF Lab!PT!Next, Lab!PT!RegisterShot

LEMMA TransitionInPlace ==
    ASSUME TransitionInv, TransitionTold
    PROVE  Lab!PT!ResumesInPlace
<1>. USE DEF Lab!PT!Setup, Lab!PT!Sighters
<1>. SUFFICES ASSUME Lab!PT!Resume, ~hist.cut
              PROVE  /\ ctl'.phase = IF ctl.phase = 2 THEN 1 ELSE ctl.phase
                     /\ ctl'.index = ctl.index
     BY DEF Lab!PT!ResumesInPlace
<1>. DEFINE c == Lab!PT!Recovered(rec)
            last == Lab!PT!MaxId(Lab!PT!RecordedIds)
<1>1. up = "down" /\ rec.on /\ ~rec.done /\ ctl' = [c EXCEPT !.last = last]
      BY DEF Lab!PT!Resume, Lab!PT!Resumes
<1>2. TransitionKnows(ctl, rec)
      BY <1>1 DEF TransitionTold
<1>3. rec.at = StationAt(ctl.index) /\ ctl.index \in Stations
      BY <1>2, TransitionFields DEF TransitionKnows
<1>4. /\ c \in TransitionCtl /\ c.index = ctl.index
      /\ rec.records[rec.at].full => c.phase = 4
      /\ ~rec.records[rec.at].full /\ rec.verifying => c.phase = 3
      /\ ~rec.records[rec.at].full /\ ~rec.verifying /\ ~rec.records[rec.at].ready
            => c.phase = 1
      BY <1>3, TransitionRecovers
<1>. HIDE DEF c, last
<1>5. ctl'.phase = c.phase /\ ctl'.index = c.index
      BY <1>1, <1>4 DEF TransitionCtl
<1>6. \A n \in 1 .. 4 : n = 4 \/ n = 3 \/ (n \in 1 .. 2 /\ (n = 1 \/ n = 2))
      OBVIOUS
<1>. QED  BY <1>2, <1>4, <1>5, <1>6 DEF TransitionKnows

LabTold ==
    /\ which = "blocks" => BlocksTold
    /\ which = "calls" => CallsTold
    /\ which = "transition" => TransitionTold
    /\ which = "wind" => WindTold

LEMMA LabTells ==
    ASSUME LabInv, LabInv', LabTold, [CourseNext]_<<course, vars, labVars>>
    PROVE  LabTold' /\ (which = "wind" => Lab!WM!ConditionSticks)
<1>1. /\ which' = which
      /\ \/ UNCHANGED labVars
         \/ which = "blocks" /\ Lab!TB!Next
         \/ which = "calls" /\ Lab!CD!Next
         \/ which = "transition" /\ Lab!PT!Next
         \/ which = "wind" /\ Lab!WM!Next
  <2>1. CASE CourseNext
        BY <2>1 DEF CourseNext, Lab!Next, labVars
  <2>2. CASE UNCHANGED <<course, vars, labVars>>
        BY <2>2 DEF labVars
  <2>. QED  BY <2>1, <2>2
<1>2. CASE which = "blocks"
  <2>1. [Lab!TB!Next]_labVars
        BY <1>1, <1>2
  <2>2. BlocksTold'
        BY <1>1, <1>2, <2>1, BlocksTells DEF LabInv, LabTold
  <2>. QED  BY <1>1, <1>2, <2>2 DEF LabTold
<1>3. CASE which = "calls"
  <2>1. [Lab!CD!Next]_labVars
        BY <1>1, <1>3
  <2>2. CallsTold'
        BY <1>1, <1>3, <2>1, CallsTells DEF LabInv, LabTold
  <2>. QED  BY <1>1, <1>3, <2>2 DEF LabTold
<1>4. CASE which = "transition"
  <2>1. [Lab!PT!Next]_labVars
        BY <1>1, <1>4
  <2>2. TransitionTold'
        BY <1>1, <1>4, <2>1, TransitionTells DEF LabInv, LabTold
  <2>. QED  BY <1>1, <1>4, <2>2 DEF LabTold
<1>5. CASE which = "wind"
  <2>1. [Lab!WM!Next]_labVars
        BY <1>1, <1>5
  <2>2. WindTold' /\ Lab!WM!ConditionSticks
        BY <1>5, <2>1, WindTells DEF LabInv, LabTold
  <2>. QED  BY <1>1, <1>5, <2>2 DEF LabTold
<1>. QED  BY <1>2, <1>3, <1>4, <1>5 DEF LabInv

LEMMA LabUntold ==
    ASSUME CourseInit
    PROVE  LabTold
<1>1. Lab!Init
      BY DEF CourseInit
<1>2. CASE which = "blocks" /\ Lab!TB!Init
      BY <1>2 DEF Lab!TB!Init, LabTold, BlocksTold
<1>3. CASE which = "calls" /\ Lab!CD!Init
      BY <1>3 DEF Lab!CD!Init, LabTold, CallsTold
<1>4. CASE which = "transition" /\ Lab!PT!Init
  <2>1. UnmadeNotReady(Lab!PT!NoRec)
        BY TransitionNone DEF UnmadeNotReady, Lab!PT!NewRecord
  <2>. QED  BY <1>4, <2>1 DEF Lab!PT!Init, LabTold, TransitionTold
<1>5. CASE which = "wind" /\ Lab!WM!Init
      BY <1>5 DEF Lab!WM!Init, LabTold, WindTold
<1>. QED  BY <1>1, <1>2, <1>3, <1>4, <1>5 DEF Lab!Init

\* A session of the Training Lab that a crash has ended goes on where it stood:
\* in its phase, and in its block, position or station, with the exceptions
\* that the programmes state; and a shot of the Wind Map keeps the condition
\* that was noted when it was fired.
THEOREM TrainingResumesInPlace == CourseSpec => ResumesInPlace
<1>1. CourseInit => LabTold
      BY LabUntold
<1>2. LabInv /\ LabInv' /\ LabTold /\ [CourseNext]_<<course, vars, labVars>> => LabTold'
      BY LabTells
<1>3. ASSUME LabInv, LabInv', LabTold, [CourseNext]_<<course, vars, labVars>>
      PROVE  /\ [ /\ which = "blocks" => Lab!TB!ResumesInPlace
                  /\ which = "calls" => Lab!CD!ResumesInPlace
                  /\ which = "transition" => Lab!PT!ResumesInPlace
                  /\ which = "wind" => Lab!WM!ResumesInPlace ]_(Lab!lvars)
             /\ [which = "wind" => Lab!WM!ConditionSticks]_(Lab!lvars)
      BY <1>3, BlocksInPlace, CallsInPlace, TransitionInPlace, WindInPlace, LabTells
         DEF LabInv, LabTold
<1>. QED  BY <1>1, <1>2, <1>3, TrainingStands, PTL
          DEF CourseSpec, ResumesInPlace, Lab!ResumesInPlace, Lab!ConditionSticks
=============================================================================
