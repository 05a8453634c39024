---------------------------- MODULE PartsProofs ----------------------------
(***************************************************************************)
(* Proofs about parts of the system that share no state: the display of    *)
(* the range, the scan for sessions to recover, what the range management  *)
(* prepares, what it observes of a station, what its pages show, the link  *)
(* to the target, and the operating mode.                                  *)
(***************************************************************************)
EXTENDS Parts, FiniteSetTheorems, SequenceTheorems, WellFoundedInduction, TLAPS

-----------------------------------------------------------------------------
(* Numbers.                                                                *)

LEMMA LeastOf ==
    ASSUME NEW T \in SUBSET Nat, T # {}
    PROVE  \E x \in T : \A y \in T : x =< y
<1>1. PICK x \in T : \A y \in T : ~ (<<y, x>> \in OpToRel(<, Nat))
      BY NatLessThanWellFounded, WFMin
<1>2. \A y \in T : ~ (y < x)
      BY <1>1 DEF OpToRel
<1>. QED  BY <1>2

\* A set of lanes that is not empty has a lane of the least and one of the
\* greatest number.
LEMMA GreatestOf ==
    ASSUME NEW T \in SUBSET Nat, IsFiniteSet(T), T # {}
    PROVE  \E x \in T : \A y \in T : x >= y
<1>. DEFINE above(x) == {y \in T : y > x}
<1>. DEFINE sizes == {Cardinality(above(x)) : x \in T}
<1>1. \A x \in T : IsFiniteSet(above(x)) /\ Cardinality(above(x)) \in Nat
      BY FS_Subset, FS_CardinalityType
<1>2. sizes \in SUBSET Nat /\ sizes # {}
      BY <1>1
<1>3. PICK k \in sizes : \A m \in sizes : k =< m
  <2>. HIDE DEF sizes
  <2>. QED  BY <1>2, LeastOf
<1>4. PICK x \in T : k = Cardinality(above(x))
      OBVIOUS
<1>5. ASSUME NEW y \in T, ~ (x >= y)
      PROVE  FALSE
  <2>0. x \in Nat /\ y \in Nat /\ y > x /\ ~ (y > y) /\ \A z \in Nat : z > y => z > x
        BY <1>5
  <2>1. y \in above(x) /\ y \notin above(y) /\ above(y) \subseteq above(x)
        BY <2>0
  <2>2. Cardinality(above(y)) <= Cardinality(above(x))
           /\ (Cardinality(above(y)) = Cardinality(above(x)) => above(y) = above(x))
        BY <1>1, <2>1, FS_Subset
  <2>3. Cardinality(above(y)) \in sizes
        OBVIOUS
  <2>4. k =< Cardinality(above(y))
        BY <1>3, <2>3
  <2>5. Cardinality(above(y)) \in Nat /\ Cardinality(above(x)) \in Nat
        BY <1>1
  <2>. HIDE DEF above, sizes
  <2>. QED  BY <1>4, <2>1, <2>2, <2>4, <2>5
<1>. QED  BY <1>5
-----------------------------------------------------------------------------
(* The display of the range.                                               *)

DisplayType ==
    /\ range \in SUBSET DisplayLanes /\ plan \in SUBSET DisplayLanes
    /\ display \in [mode : {"All", "Single", "Rotate"}, filter : {"All", "Participating"},
                    chosen : BOOLEAN, lane : DisplayLanes \cup {-1}, rotating : BOOLEAN]
DisplayInv == DisplayType /\ Display!DisplayFollows

LEMMA LanesInOrder ==
    ASSUME NEW lanes \in SUBSET DisplayLanes, lanes # {}
    PROVE  Display!Min(lanes) \in lanes /\ Display!Max(lanes) \in lanes
<1>1. IsFiniteSet(DisplayLanes) /\ DisplayLanes \subseteq Nat
      BY PartsAssumption
      DEF Display!DisplayAssumption, Display!IsFiniteSet, IsFiniteSet
<1>2. IsFiniteSet(lanes) /\ lanes \in SUBSET Nat
      BY <1>1, FS_Subset
<1>3. \E x \in lanes : \A y \in lanes : x =< y
      BY <1>2, LeastOf
<1>4. \E x \in lanes : \A y \in lanes : x >= y
      BY <1>2, GreatestOf
<1>5. Display!Min(lanes) \in lanes
      BY <1>3 DEF Display!Min
<1>6. Display!Max(lanes) \in lanes
      BY <1>4 DEF Display!Max
<1>. QED  BY <1>5, <1>6

\* The operator's steps: the display stands on a lane of its order, or on none.
LEMMA DisplayAdvances ==
    ASSUME DisplayInv, NEW d, d \in {display, Display!Stopped(display)},
           NEW e, e \in {Display!AdvancedNext(d), Display!AdvancedBack(d)}
    PROVE  \E lane \in DisplayLanes \cup {-1} :
              /\ e = [d EXCEPT !.lane = lane]
              /\ IF Display!OrderNow = {} THEN lane = -1 ELSE lane \in Display!OrderNow
<1>. DEFINE order == Display!OrderNow
<1>1. /\ order \in SUBSET DisplayLanes
      /\ display.lane = d.lane
      /\ display.lane \in DisplayLanes \cup {-1}
      /\ IF order = {} THEN display.lane = -1 ELSE display.lane \in order
      BY DEF DisplayInv, DisplayType, Display!DisplayFollows, Display!NoLane,
             Display!OrderNow, Display!Order, Display!Stopped
<1>2. DisplayLanes \subseteq Nat
      BY PartsAssumption DEF Display!DisplayAssumption
<1>. DEFINE above == {l \in order : l > d.lane}
            below == {l \in order : l < d.lane}
<1>3. ASSUME order # {}
      PROVE  /\ Display!After(d.lane, order) \in order
             /\ Display!Before(d.lane, order) \in order
  <2>1. above \in SUBSET DisplayLanes /\ above \subseteq order
           /\ below \in SUBSET DisplayLanes /\ below \subseteq order
        BY <1>1
  <2>2. Display!Min(IF above = {} THEN order ELSE above) \in order
        BY <1>1, <1>3, <2>1, LanesInOrder
  <2>3. Display!Max(IF below = {} THEN order ELSE below) \in order
        BY <1>1, <1>3, <2>1, LanesInOrder
  <2>. QED  BY <2>2, <2>3 DEF Display!After, Display!Before
<1>4. PICK following : e = Display!Advanced(d, following)
                         /\ (order # {} => following \in order)
      BY <1>3 DEF Display!AdvancedNext, Display!AdvancedBack
<1>. DEFINE lane == IF order = {} THEN -1 ELSE following
<1>5. e = [d EXCEPT !.lane = lane]
  <2>1. d \in [mode : {"All", "Single", "Rotate"}, filter : {"All", "Participating"},
               chosen : BOOLEAN, lane : DisplayLanes \cup {-1}, rotating : BOOLEAN]
        BY DEF DisplayInv, DisplayType, Display!Stopped
  <2>. QED  BY <1>1, <1>4, <2>1 DEF Display!Advanced
<1>. QED  BY <1>1, <1>4, <1>5

\* A selection that is clamped to an order stands in it.
LEMMA DisplayClamps ==
    ASSUME NEW d \in [mode : {"All", "Single", "Rotate"}, filter : {"All", "Participating"},
                      chosen : BOOLEAN, lane : DisplayLanes \cup {-1}, rotating : BOOLEAN],
           NEW lanes \in SUBSET DisplayLanes
    PROVE  \E lane \in DisplayLanes \cup {-1} :
              /\ Display!ClampSelection(d, lanes) = [d EXCEPT !.lane = lane]
              /\ IF lanes = {} THEN lane = -1 ELSE lane \in lanes
<1>1. lanes # {} => Display!Min(lanes) \in lanes
      BY LanesInOrder
<1>. QED  BY <1>1 DEF Display!ClampSelection, Display!NoLane

LEMMA DisplayStep ==
    ASSUME DisplayInv, Display!Next
    PROVE  DisplayInv'
<1>. DEFINE Displays == [mode : {"All", "Single", "Rotate"}, filter : {"All", "Participating"},
                         chosen : BOOLEAN, lane : DisplayLanes \cup {-1}, rotating : BOOLEAN]
            InOrder(lane, lanes) == IF lanes = {} THEN lane = -1 ELSE lane \in lanes
<1>. USE DEF DisplayInv, DisplayType, Display!DisplayFollows, Display!EmptyReason,
             Display!NoLane, Display!OrderNow, Display!Order
<1>1. ASSUME Display!RangeChanged \/ Display!PlanChanged
      PROVE  DisplayInv'
  <2>. DEFINE d == [display EXCEPT !.filter =
                       CASE display.chosen -> @
                         [] ~display.chosen /\ plan' # {} -> "Participating"
                         [] OTHER -> "All"]
  <2>1. /\ display' = Display!ClampSelection(d, Display!Order(d, range', plan'))
        /\ range' \in SUBSET DisplayLanes /\ plan' \in SUBSET DisplayLanes
        BY <1>1 DEF Display!RangeChanged, Display!PlanChanged, Display!OnRangeOrPlanChanged,
                    Display!ParticipatingAvailable
  <2>2. /\ d \in Displays
        /\ d.rotating = display.rotating /\ d.mode = display.mode /\ d.chosen = display.chosen
        /\ ~d.chosen => (d.filter = "Participating" <=> plan' # {})
        OBVIOUS
  <2>3. Display!Order(d, range', plan') \in SUBSET DisplayLanes
        BY <2>1
  <2>4. PICK lane \in DisplayLanes \cup {-1} :
           /\ display' = [d EXCEPT !.lane = lane]
           /\ InOrder(lane, Display!Order(d, range', plan'))
    <3>. HIDE DEF d
    <3>. QED  BY <2>1, <2>2, <2>3, DisplayClamps
  <2>. HIDE DEF d
  <2>5. /\ display' \in Displays /\ display'.lane = lane /\ display'.filter = d.filter
        /\ display'.rotating = d.rotating /\ display'.mode = d.mode /\ display'.chosen = d.chosen
        BY <2>2, <2>4
  <2>6. InOrder(display'.lane, Display!OrderNow')
        BY <2>4, <2>5
  <2>. QED  BY <2>1, <2>2, <2>5, <2>6
<1>2. ASSUME Display!ShowAllTargets, UNCHANGED <<range, plan>>
      PROVE  DisplayInv'
      BY <1>2 DEF Display!ShowAllTargets, Display!Stopped
<1>3. ASSUME Display!SelectLane, UNCHANGED <<range, plan>>
      PROVE  DisplayInv'
      BY <1>3 DEF Display!SelectLane, Display!Stopped
<1>4. ASSUME Display!NextLane \/ Display!PreviousLane, UNCHANGED <<range, plan>>
      PROVE  DisplayInv'
  <2>. DEFINE d == Display!Stopped(display)
  <2>1. PICK lane \in DisplayLanes \cup {-1} :
           /\ display' = Display!Single([d EXCEPT !.lane = lane])
           /\ InOrder(lane, Display!OrderNow)
        BY <1>4, DisplayAdvances DEF Display!NextLane, Display!PreviousLane
  <2>. QED  BY <1>4, <2>1 DEF Display!Single, Display!Stopped
<1>5. ASSUME Display!SetLaneFilter, UNCHANGED <<range, plan>>
      PROVE  DisplayInv'
  <2>1. PICK filter \in {"All", "Participating"} :
           LET d == [display EXCEPT !.chosen = TRUE, !.filter = filter]
           IN  display' = IF filter = display.filter THEN d
                          ELSE Display!ClampSelection(d, Display!Order(d, range, plan))
        BY <1>5 DEF Display!SetLaneFilter
  <2>. DEFINE d == [display EXCEPT !.chosen = TRUE, !.filter = filter]
              lanes == Display!Order(d, range, plan)
  <2>2. d \in Displays /\ lanes \in SUBSET DisplayLanes
        OBVIOUS
  <2>3. PICK lane \in DisplayLanes \cup {-1} :
           /\ display' = [d EXCEPT !.lane = lane]
           /\ InOrder(lane, lanes)
    <3>1. CASE filter = display.filter
          BY <2>1, <3>1
    <3>2. CASE filter # display.filter
      <4>1. display' = Display!ClampSelection(d, lanes)
            BY <2>1, <3>2
      <4>. HIDE DEF d, lanes
      <4>. QED  BY <2>2, <4>1, DisplayClamps
    <3>. QED  BY <3>1, <3>2
  <2>. QED  BY <1>5, <2>3
<1>6. ASSUME Display!SetRotating, UNCHANGED <<range, plan>>
      PROVE  DisplayInv'
  <2>. DEFINE d == [display EXCEPT !.rotating = TRUE, !.mode = "Rotate"]
  <2>1. d \in Displays /\ Display!OrderNow \in SUBSET DisplayLanes
        OBVIOUS
  <2>2. PICK lane \in DisplayLanes \cup {-1} :
           /\ display' = [d EXCEPT !.lane = lane]
           /\ InOrder(lane, Display!OrderNow)
    <3>. HIDE DEF d
    <3>1. display' = Display!ClampSelection(d, Display!OrderNow)
          BY <1>6 DEF Display!SetRotating, d
    <3>. QED  BY <2>1, <3>1, DisplayClamps
  <2>. QED  BY <1>6, <2>2
<1>7. ASSUME Display!StopRotating, UNCHANGED <<range, plan>>
      PROVE  DisplayInv'
      BY <1>7 DEF Display!StopRotating, Display!Stopped
<1>8. ASSUME Display!TickRotation, UNCHANGED <<range, plan>>
      PROVE  DisplayInv'
  <2>1. PICK lane \in DisplayLanes \cup {-1} :
           display' = [display EXCEPT !.lane = lane] /\ InOrder(lane, Display!OrderNow)
        BY <1>8, DisplayAdvances DEF Display!TickRotation
  <2>. QED  BY <1>8, <2>1
<1>. QED  BY <1>1, <1>2, <1>3, <1>4, <1>5, <1>6, <1>7, <1>8
          DEF Display!Next, Display!Operator

LEMMA DisplayInitial ==
    ASSUME Display!Init
    PROVE  DisplayInv
<1>. DEFINE d == [mode |-> "All", filter |-> "All", chosen |-> FALSE, lane |-> -1,
                  rotating |-> FALSE]
<1>1. PICK lane \in DisplayLanes \cup {-1} :
         /\ display = [d EXCEPT !.lane = lane]
         /\ IF range = {} THEN lane = -1 ELSE lane \in range
  <2>1. /\ d \in [mode : {"All", "Single", "Rotate"}, filter : {"All", "Participating"},
                  chosen : BOOLEAN, lane : DisplayLanes \cup {-1}, rotating : BOOLEAN]
        /\ range \in SUBSET DisplayLanes
        /\ display = Display!ClampSelection(d, range)
        BY DEF Display!Init, Display!NoLane
  <2>. HIDE DEF d
  <2>. QED  BY <2>1, DisplayClamps
<1>. QED  BY <1>1 DEF Display!Init, DisplayInv, DisplayType, Display!DisplayFollows,
                      Display!EmptyReason, Display!NoLane, Display!OrderNow, Display!Order

\* The display shows a lane of those it goes through, or says why there is
\* none; it rotates if and only if its mode is to; it shows who takes part once
\* there is a plan, unless the operator has chosen: for every set of lanes.
THEOREM DisplayKeepsUp == Spec => []DisplayFollows
<1>1. Init => DisplayInv
      BY DisplayInitial DEF Init, DisplayRests
<1>2. DisplayInv /\ [Next]_vars => DisplayInv'
  <2>1. Next => Display!Next \/ UNCHANGED displayVars
        BY DEF Next
  <2>2. DisplayInv /\ UNCHANGED displayVars => DisplayInv'
        BY DEF displayVars, DisplayInv, DisplayType, Display!DisplayFollows,
               Display!EmptyReason, Display!NoLane, Display!OrderNow, Display!Order
  <2>. QED  BY <2>1, <2>2, DisplayStep DEF vars
<1>3. DisplayInv => DisplayFollows
      BY DEF DisplayInv, DisplayFollows
<1>. QED  BY <1>1, <1>2, <1>3, PTL DEF Spec
-----------------------------------------------------------------------------
(* The scan for sessions to recover.                                       *)

Classes == {"Absent", "Clean", "Recoverable", "Corrupt", "Fatal"}
ScanType ==
    /\ file \in [Recovery!Journals -> [class : Classes, done : BOOLEAN, usable : BOOLEAN]]
    /\ current \in SUBSET Recovery!Journals /\ fresh \in BOOLEAN
    /\ away \in [Recovery!Journals -> [Recovery!Dirs -> Nat]]
    /\ put \in [Recovery!Journals -> Nat]
    /\ \A j \in current : file[j].class # "Absent"
ScanInv == ScanType /\ Recovery!OfferedIsUnfinished

\* What is put away is counted, and leaves its directory only then.
LEMMA JournalsPutAway ==
    ASSUME ScanInv, NEW j \in current, Recovery!PutAway(j, "Corrupt"), UNCHANGED file
    PROVE  /\ current' \in SUBSET current
           /\ away' \in [Recovery!Journals -> [Recovery!Dirs -> Nat]]
           /\ put' \in [Recovery!Journals -> Nat]
           /\ \A k \in Recovery!Journals :
                 /\ file[k].class # "Absent" => k \in current' \/ put'[k] > 0
                 /\ away'[k]["Corrupt"] + away'[k]["Archive"] = put'[k]
<1>. USE DEF ScanInv, ScanType, Recovery!OfferedIsUnfinished, Recovery!Dirs
<1>1. j \in Recovery!Journals /\ away[j]["Corrupt"] \in Nat /\ put[j] \in Nat
      OBVIOUS
<1>2. CASE UNCHANGED <<current, away, put>>
      BY <1>2
<1>3. CASE /\ current' \in SUBSET current /\ current \ {j} \subseteq current'
           /\ away' = [away EXCEPT ![j]["Corrupt"] = @ + 1] /\ put' = [put EXCEPT ![j] = @ + 1]
  <2>1. /\ away' \in [Recovery!Journals -> [Recovery!Dirs -> Nat]]
        /\ put' \in [Recovery!Journals -> Nat]
        BY <1>1, <1>3
  <2>2. /\ put'[j] = put[j] + 1
        /\ away'[j]["Corrupt"] = away[j]["Corrupt"] + 1
        /\ away'[j]["Archive"] = away[j]["Archive"]
        BY <1>1, <1>3
  <2>3. \A k \in Recovery!Journals \ {j} : put'[k] = put[k] /\ away'[k] = away[k]
        BY <1>3
  <2>4. \A k \in Recovery!Journals : away[k]["Archive"] \in Nat /\ away[k]["Corrupt"] \in Nat
        OBVIOUS
  <2>. QED  BY <1>1, <1>3, <2>1, <2>2, <2>3, <2>4
<1>. QED  BY <1>2, <1>3 DEF Recovery!PutAway

LEMMA ScanStep ==
    ASSUME ScanInv, Recovery!Next
    PROVE  ScanInv'
<1>. USE DEF ScanInv, ScanType, Recovery!OfferedIsUnfinished, Classes
<1>1. CASE Recovery!SessionStarts
  <2>1. PICK j \in Recovery!Journals :
           /\ file' = [file EXCEPT ![j] = [class |-> "Clean", done |-> FALSE, usable |-> TRUE]]
           /\ current' = current \cup {j} /\ fresh' = FALSE
           /\ UNCHANGED <<away, put>>
        BY <1>1 DEF Recovery!SessionStarts
  <2>2. ScanType'
        BY <2>1
  <2>. QED  BY <2>1, <2>2
<1>2. CASE Recovery!SessionCompletes
  <2>1. PICK j \in current :
           /\ file' = [file EXCEPT ![j].done = TRUE] /\ fresh' = FALSE
           /\ UNCHANGED <<current, away, put>>
        BY <1>2 DEF Recovery!SessionCompletes
  <2>2. ScanType'
        BY <2>1
  <2>3. \A k \in Recovery!Journals : file'[k].class = file[k].class
        BY <2>1
  <2>. QED  BY <2>1, <2>2, <2>3
<1>3. CASE Recovery!JournalDamaged
  <2>1. PICK j \in current, class \in {"Recoverable", "Corrupt", "Fatal"},
             usable, done \in BOOLEAN :
           /\ file' = [file EXCEPT ![j] = [class |-> class, done |-> done, usable |-> usable]]
           /\ fresh' = FALSE /\ UNCHANGED <<current, away, put>>
        BY <1>3 DEF Recovery!JournalDamaged
  <2>2. \A k \in Recovery!Journals \ {j} : file'[k] = file[k]
        BY <2>1
  <2>3. j \in Recovery!Journals /\ file'[j].class = class
        BY <2>1
  <2>4. file' \in [Recovery!Journals -> [class : Classes, done : BOOLEAN, usable : BOOLEAN]]
        BY <2>1
  <2>. QED  BY <2>1, <2>2, <2>3, <2>4
<1>4. CASE Recovery!Scan
  <2>1. Recovery!AutoArchived = {}
        BY DEF Recovery!AutoArchived, Recovery!Find, Recovery!Scanned, Recovery!Offerable
  <2>2. /\ UNCHANGED <<file, current>> /\ candidates' = Recovery!Scanned /\ fresh' = TRUE
        /\ away' = [j \in Recovery!Journals |-> away[j]]
        /\ put' = [j \in Recovery!Journals |-> put[j]]
        BY <1>4, <2>1 DEF Recovery!Scan
  <2>3. away' = away /\ put' = put
        BY <2>2
  <2>4. \A j \in current : j \in Recovery!Scanned
                              <=> ~file[j].done /\ (file[j].class = "Fatal" => file[j].usable)
        BY DEF Recovery!Scanned, Recovery!Offerable, Recovery!Complete
  <2>. QED  BY <2>2, <2>3, <2>4
<1>5. CASE Recovery!Discard
  <2>1. PICK j \in current : Recovery!PutAway(j, "Corrupt") /\ UNCHANGED file /\ fresh' = FALSE
        BY <1>5 DEF Recovery!Discard
  <2>2. /\ current' \in SUBSET current
        /\ away' \in [Recovery!Journals -> [Recovery!Dirs -> Nat]]
        /\ put' \in [Recovery!Journals -> Nat]
        /\ \A k \in Recovery!Journals :
              /\ file[k].class # "Absent" => k \in current' \/ put'[k] > 0
              /\ away'[k]["Corrupt"] + away'[k]["Archive"] = put'[k]
        BY <2>1, JournalsPutAway
  <2>. QED  BY <2>1, <2>2
<1>6. CASE Recovery!Resume
  <2>1. PICK j \in current :
           /\ file' = [file EXCEPT ![j].class = "Clean"] /\ fresh' = FALSE
           /\ UNCHANGED <<current, away, put>>
        BY <1>6 DEF Recovery!Resume
  <2>2. ScanType'
        BY <2>1
  <2>3. \A k \in Recovery!Journals \ {j} : file'[k] = file[k]
        BY <2>1
  <2>. QED  BY <2>1, <2>2, <2>3
<1>. QED  BY <1>1, <1>2, <1>3, <1>4, <1>5, <1>6 DEF Recovery!Next

\* No journal is lost, whatever fails while it is put away, and a scan offers
\* every session that is unfinished and of use and no other: for every set of
\* journals and any number of damages and failures.
THEOREM ScansOfferUnfinished == Spec => []OfferedIsUnfinished
<1>1. Init => ScanInv
      BY DEF Init, Recovery!Init, ScanInv, ScanType, Classes, Recovery!OfferedIsUnfinished,
             Recovery!Dirs
<1>2. ScanInv /\ [Next]_vars => ScanInv'
  <2>1. Next => Recovery!Next \/ UNCHANGED recoveryVars
        BY DEF Next
  <2>2. ScanInv /\ UNCHANGED recoveryVars => ScanInv'
        BY DEF recoveryVars, ScanInv, ScanType, Recovery!OfferedIsUnfinished
  <2>. QED  BY <2>1, <2>2, ScanStep DEF vars
<1>3. ScanInv => OfferedIsUnfinished
      BY DEF ScanInv, OfferedIsUnfinished
<1>. QED  BY <1>1, <1>2, <1>3, PTL DEF Spec
-----------------------------------------------------------------------------
(* What the range management prepares.                                     *)

PlanStatus == {"Draft", "Ready", "Archived"}
PlanShape(p) ==
    /\ p = [status |-> p.status, programme |-> p.programme, lanes |-> p.lanes]
    /\ p.status \in PlanStatus /\ p.programme \in BOOLEAN
    /\ p.lanes = [lane \in DOMAIN p.lanes |-> p.lanes[lane]]
\* A plan is sound in itself: complete when it is ready, nobody twice.
PlanSound(p) ==
    /\ PlanShape(p)
    /\ p.status = "Ready" => /\ p.programme /\ p.lanes # << >>
                             /\ \A lane \in DOMAIN p.lanes : p.lanes[lane] # 0
    /\ \A l, m \in DOMAIN p.lanes : p.lanes[l] = p.lanes[m] => l = m \/ p.lanes[l] = 0
PlansStand(s) ==
    /\ s = [athletes |-> s.athletes, plans |-> s.plans, current |-> s.current,
            range |-> s.range]
    /\ s.plans = [p \in DOMAIN s.plans |-> s.plans[p]]
    /\ s.current # 0 => s.current \in DOMAIN s.plans
    /\ \A p \in DOMAIN s.plans : PlanSound(s.plans[p])
    /\ s.range = [lane \in DOMAIN s.range |-> s.range[lane]]
    /\ \A l, m \in DOMAIN s.range : s.range[l] = s.range[m] => l = m \/ s.range[l] = "none"
\* Who is on a lane of a plan that is not in the archive exists.
PlanPeopled(p, athletes) ==
    p.status # "Archived" =>
        \A lane \in DOMAIN p.lanes : p.lanes[lane] \in athletes \cup {0}
PlansPeopled(s) == \A p \in DOMAIN s.plans : PlanPeopled(s.plans[p], s.athletes)

\* While no save has failed, the files are what is in memory.
PlanningInv ==
    /\ PlansStand(mem) /\ PlansStand(disk) /\ failures \in Nat
    /\ taint \subseteq {"Files"} => PlansPeopled(mem)
    /\ taint = {} => mem = disk

LEMMA PlanningInvImplies ==
    ASSUME PlanningInv
    PROVE  Planning!PlansSound
<1>1. ASSUME NEW s, PlansStand(s)
      PROVE  Planning!ReadyIsComplete(s) /\ Planning!NoneTwice(s)
      BY <1>1 DEF PlansStand, PlanSound, Planning!ReadyIsComplete, Planning!NoneTwice,
                  Planning!Nobody, Planning!NoNode, Planning!Range
<1>2. ASSUME NEW s, PlansPeopled(s)
      PROVE  Planning!AthletesExist(s)
      BY <1>2 DEF PlansPeopled, PlanPeopled, Planning!AthletesExist, Planning!Nobody,
                  Planning!Range
<1>. QED  BY <1>1, <1>2 DEF PlanningInv, Planning!PlansSound

\* A save writes one file or none, and what is loaded later is sound as well.
LEMMA PlansSaved ==
    ASSUME PlanningInv, PlansStand(mem'),
           NEW filed \in {"athletes", "plans", "range"},
           filed # "athletes" => mem'.athletes = mem.athletes,
           filed # "plans" => mem'.plans = mem.plans /\ mem'.current = mem.current,
           filed # "range" => mem'.range = mem.range,
           Planning!Commit(IF filed = "plans" THEN {"plans", "current"} ELSE {filed}),
           failures' > failures => taint' # {},
           taint \subseteq taint',
           taint' \subseteq {"Files"} => PlansPeopled(mem')
    PROVE  PlanningInv'
<1>. DEFINE written == IF filed = "plans" THEN {"plans", "current"} ELSE {filed}
<1>1. CASE failures' = failures + 1 /\ UNCHANGED disk
      BY <1>1 DEF PlanningInv
<1>2. CASE /\ UNCHANGED failures
           /\ disk' = [name \in DOMAIN disk |-> IF name \in written THEN mem'[name]
                                                ELSE disk[name]]
  <2>1. DOMAIN disk = {"athletes", "plans", "current", "range"}
        BY DEF PlanningInv, PlansStand
  <2>2. disk' = [athletes |-> disk'.athletes, plans |-> disk'.plans,
                 current |-> disk'.current, range |-> disk'.range]
        BY <1>2, <2>1
  <2>3. /\ disk'.athletes = IF filed = "athletes" THEN mem'.athletes ELSE disk.athletes
        /\ disk'.plans = IF filed = "plans" THEN mem'.plans ELSE disk.plans
        /\ disk'.current = IF filed = "plans" THEN mem'.current ELSE disk.current
        /\ disk'.range = IF filed = "range" THEN mem'.range ELSE disk.range
        BY <1>2, <2>1
  <2>4. PlansStand(disk')
        BY <2>2, <2>3 DEF PlanningInv, PlansStand
  <2>5. ASSUME taint' = {}
        PROVE  mem' = disk'
    <3>1. mem = disk
          BY <2>5 DEF PlanningInv
    <3>2. /\ mem'.athletes = disk'.athletes /\ mem'.plans = disk'.plans
          /\ mem'.current = disk'.current /\ mem'.range = disk'.range
          BY <2>3, <3>1
    <3>. QED  BY <2>2, <3>2 DEF PlansStand
  <2>. QED  BY <1>2, <2>4, <2>5 DEF PlanningInv
<1>. QED  BY <1>1, <1>2 DEF Planning!Commit

\* What the operators of an action make of memory; the plans are saved.
LEMMA PlansCommitted ==
    ASSUME PlanningInv, PlansStand(mem'),
           mem'.athletes = mem.athletes, mem'.range = mem.range,
           Planning!Commit(Planning!PlansFile), Planning!Tainted,
           taint \subseteq {"Files"} => PlansPeopled(mem')
    PROVE  PlanningInv'
<1>1. /\ failures' > failures => taint' # {}
      /\ taint \subseteq taint'
      BY DEF Planning!Tainted
<1>2. Planning!Commit(IF "plans" = "plans" THEN {"plans", "current"} ELSE {"plans"})
      BY DEF Planning!PlansFile
<1>. QED  BY <1>1, <1>2, PlansSaved

LEMMA PlanReplaced ==
    ASSUME PlanningInv, Planning!HasPlan, NEW p, PlanSound(p),
           taint \subseteq {"Files"} => PlanPeopled(p, mem.athletes),
           Planning!Replace(p)
    PROVE  PlanningInv'
<1>1. mem.current \in DOMAIN mem.plans
      BY DEF PlanningInv, PlansStand, Planning!HasPlan, Planning!NoPlan
<1>2. mem' = [mem EXCEPT !.plans[mem.current] = p]
      BY DEF Planning!Replace
<1>3. /\ mem' = [athletes |-> mem'.athletes, plans |-> mem'.plans, current |-> mem'.current,
                 range |-> mem'.range]
      /\ mem'.athletes = mem.athletes /\ mem'.range = mem.range /\ mem'.current = mem.current
      /\ mem'.plans = [q \in DOMAIN mem.plans |-> IF q = mem.current THEN p ELSE mem.plans[q]]
      BY <1>1, <1>2 DEF PlanningInv, PlansStand
<1>4. PlansStand(mem')
      BY <1>1, <1>3 DEF PlanningInv, PlansStand
<1>5. taint \subseteq {"Files"} => PlansPeopled(mem')
      BY <1>1, <1>3 DEF PlanningInv, PlansPeopled
<1>. QED  BY <1>3, <1>4, <1>5, PlansCommitted DEF Planning!Replace, Planning!CommitPlans

LEMMA LanesReplaced ==
    ASSUME PlanningInv, Planning!HasPlan, NEW lanes,
           lanes = [lane \in DOMAIN lanes |-> lanes[lane]],
           \A l, m \in DOMAIN lanes : lanes[l] = lanes[m] => l = m \/ lanes[l] = 0,
           \A lane \in DOMAIN lanes :
              \/ lanes[lane] \in mem.athletes \cup {0}
              \/ /\ lane \in DOMAIN Planning!Current.lanes
                 /\ lanes[lane] = Planning!Current.lanes[lane],
           Planning!Replace(Planning!EditedLanes(Planning!Current, lanes))
    PROVE  PlanningInv'
<1>. DEFINE c == mem.plans[mem.current]
            e == Planning!EditedLanes(c, lanes)
<1>1. mem.current \in DOMAIN mem.plans /\ Planning!Current = c
      BY DEF PlanningInv, PlansStand, Planning!HasPlan, Planning!NoPlan, Planning!Current
<1>2. PlanSound(c) /\ (taint \subseteq {"Files"} => PlanPeopled(c, mem.athletes))
      BY <1>1 DEF PlanningInv, PlansStand, PlansPeopled
<1>3. /\ e = [status |-> e.status, programme |-> c.programme, lanes |-> lanes]
      /\ e.status = IF c.status = "Ready" THEN "Draft" ELSE c.status
      /\ e.programme = c.programme /\ e.lanes = lanes
  <2>. DEFINE laned == [c EXCEPT !.lanes = lanes]
              status == IF laned.status = "Ready" THEN "Draft" ELSE laned.status
  <2>1. e = [laned EXCEPT !.status = status]
        BY DEF Planning!EditedLanes, Planning!Edited
  <2>. HIDE DEF c, e
  <2>2. c = [status |-> c.status, programme |-> c.programme, lanes |-> c.lanes]
        BY <1>2 DEF PlanSound, PlanShape
  <2>3. laned = [status |-> c.status, programme |-> c.programme, lanes |-> lanes]
        BY <2>2
  <2>4. status = IF c.status = "Ready" THEN "Draft" ELSE c.status
        BY <2>3
  <2>. HIDE DEF laned, status
  <2>5. e = [status |-> status, programme |-> c.programme, lanes |-> lanes]
        BY <2>1, <2>3
  <2>. QED  BY <2>4, <2>5
<1>. HIDE DEF c, e
<1>4. PlanSound(e)
      BY <1>2, <1>3 DEF PlanSound, PlanShape, PlanStatus
<1>5. taint \subseteq {"Files"} => PlanPeopled(e, mem.athletes)
      BY <1>1, <1>2, <1>3 DEF PlanPeopled
<1>. QED  BY <1>1, <1>4, <1>5, PlanReplaced DEF e

LEMMA LanesChanged ==
    ASSUME PlanningInv,
           \/ Planning!SelectLane \/ Planning!DeselectLane \/ Planning!SelectAllOnlineLanes
           \/ Planning!ClearLaneSelection \/ Planning!AssignAthlete \/ Planning!ClearAthlete
    PROVE  PlanningInv'
<1>. DEFINE lanes == Planning!Current.lanes
<1>1. ASSUME Planning!HasPlan
      PROVE  /\ lanes = [lane \in DOMAIN lanes |-> lanes[lane]]
             /\ \A l, m \in DOMAIN lanes : lanes[l] = lanes[m] => l = m \/ lanes[l] = 0
      BY <1>1 DEF PlanningInv, PlansStand, PlanSound, PlanShape, Planning!HasPlan,
                  Planning!NoPlan, Planning!Current
<1>. HIDE DEF lanes
<1>2. ASSUME NEW added, Planning!HasPlan,
             Planning!Replace(Planning!EditedLanes(Planning!Current, Planning!Add(added)))
      PROVE  PlanningInv'
  <2>. DEFINE more == Planning!Add(added)
  <2>1. /\ DOMAIN more = added \cup DOMAIN lanes
        /\ more = [lane \in DOMAIN more |-> IF lane \in added THEN 0 ELSE lanes[lane]]
        BY DEF Planning!Add, Planning!Nobody, lanes
  <2>2. \A lane \in DOMAIN more :
           more[lane] = 0 \/ (lane \in DOMAIN lanes /\ more[lane] = lanes[lane])
        BY <2>1
  <2>3. /\ more = [lane \in DOMAIN more |-> more[lane]]
        /\ \A l, m \in DOMAIN more : more[l] = more[m] => l = m \/ more[l] = 0
        BY <1>1, <1>2, <2>1, <2>2
  <2>. HIDE DEF more
  <2>4. Planning!Replace(Planning!EditedLanes(Planning!Current, more))
        BY <1>2 DEF more
  <2>5. \A lane \in DOMAIN more :
           \/ more[lane] \in mem.athletes \cup {0}
           \/ /\ lane \in DOMAIN Planning!Current.lanes
              /\ more[lane] = Planning!Current.lanes[lane]
        BY <2>2 DEF lanes
  <2>. QED  BY <1>2, <2>3, <2>4, <2>5, LanesReplaced
<1>3. CASE Planning!SelectLane
      BY <1>2, <1>3 DEF Planning!SelectLane
<1>4. CASE Planning!SelectAllOnlineLanes
      BY <1>2, <1>4 DEF Planning!SelectAllOnlineLanes
<1>5. CASE Planning!DeselectLane
  <2>1. PICK lane : Planning!Replace(Planning!EditedLanes(Planning!Current,
                       Planning!Restrict(lanes, DOMAIN lanes \ {lane})))
        BY <1>5 DEF Planning!DeselectLane, lanes
  <2>. DEFINE fewer == Planning!Restrict(lanes, DOMAIN lanes \ {lane})
  <2>2. fewer = [l \in DOMAIN lanes \ {lane} |-> lanes[l]]
        BY DEF Planning!Restrict
  <2>3. Planning!HasPlan
        BY <1>5 DEF Planning!DeselectLane
  <2>4. Planning!Replace(Planning!EditedLanes(Planning!Current, fewer))
        BY <2>1
  <2>. HIDE DEF fewer
  <2>5. /\ fewer = [l \in DOMAIN fewer |-> fewer[l]]
        /\ \A l \in DOMAIN fewer : l \in DOMAIN lanes /\ fewer[l] = lanes[l]
        BY <2>2
  <2>6. \A l, m \in DOMAIN fewer : fewer[l] = fewer[m] => l = m \/ fewer[l] = 0
        BY <1>1, <2>3, <2>5
  <2>. QED  BY <2>3, <2>4, <2>5, <2>6, LanesReplaced DEF lanes
<1>6. CASE Planning!ClearLaneSelection
  <2>1. /\ Planning!HasPlan
        /\ Planning!Replace(Planning!EditedLanes(Planning!Current, << >>))
        BY <1>6 DEF Planning!ClearLaneSelection
  <2>2. DOMAIN << >> = {} /\ << >> = [lane \in DOMAIN << >> |-> << >>[lane]]
        OBVIOUS
  <2>. QED  BY <2>1, <2>2, LanesReplaced
<1>7. CASE Planning!AssignAthlete
  <2>1. PICK athlete \in mem.athletes, lane \in Planning!Lanes :
           /\ Planning!HasPlan /\ Planning!Assignable(athlete, lane)
           /\ Planning!Replace(Planning!EditedLanes(Planning!Current,
                 [lanes EXCEPT ![lane] = athlete]))
        BY <1>7 DEF Planning!AssignAthlete, lanes
  <2>. DEFINE given == [lanes EXCEPT ![lane] = athlete]
  <2>2. /\ lane \in DOMAIN lanes
        /\ \A other \in DOMAIN lanes \ {lane} : lanes[other] # athlete
        BY <2>1 DEF Planning!Assignable, lanes
  <2>3. /\ given = [l \in DOMAIN given |-> given[l]] /\ DOMAIN given = DOMAIN lanes
        /\ given[lane] = athlete /\ \A l \in DOMAIN lanes \ {lane} : given[l] = lanes[l]
        BY <1>1, <2>1, <2>2
  <2>4. Planning!Replace(Planning!EditedLanes(Planning!Current, given))
        BY <2>1
  <2>. HIDE DEF given
  <2>5. \A l, m \in DOMAIN given : given[l] = given[m] => l = m \/ given[l] = 0
        BY <1>1, <2>1, <2>2, <2>3
  <2>. QED  BY <2>1, <2>3, <2>4, <2>5, LanesReplaced DEF lanes
<1>8. CASE Planning!ClearAthlete
  <2>1. PICK lane \in DOMAIN lanes :
           /\ Planning!HasPlan
           /\ Planning!Replace(Planning!EditedLanes(Planning!Current,
                 [lanes EXCEPT ![lane] = 0]))
        BY <1>8 DEF Planning!ClearAthlete, Planning!Nobody, lanes
  <2>. DEFINE cleared == [lanes EXCEPT ![lane] = 0]
  <2>2. /\ cleared = [l \in DOMAIN cleared |-> cleared[l]] /\ DOMAIN cleared = DOMAIN lanes
        /\ cleared[lane] = 0 /\ \A l \in DOMAIN lanes \ {lane} : cleared[l] = lanes[l]
        BY <1>1, <2>1
  <2>3. Planning!Replace(Planning!EditedLanes(Planning!Current, cleared))
        BY <2>1
  <2>. HIDE DEF cleared
  <2>4. \A l, m \in DOMAIN cleared : cleared[l] = cleared[m] => l = m \/ cleared[l] = 0
        BY <1>1, <2>1, <2>2
  <2>. QED  BY <2>1, <2>2, <2>3, <2>4, LanesReplaced DEF lanes
<1>. QED  BY <1>3, <1>4, <1>5, <1>6, <1>7, <1>8

LEMMA AthletesChanged ==
    ASSUME PlanningInv, Planning!AddAthlete \/ Planning!RemoveAthlete
    PROVE  PlanningInv'
<1>1. ASSUME NEW athletes, mem' = [mem EXCEPT !.athletes = athletes],
             Planning!Commit(Planning!AthletesFile), Planning!Tainted,
             taint \subseteq {"Files"} =>
                \A p \in DOMAIN mem.plans : PlanPeopled(mem.plans[p], athletes)
      PROVE  PlanningInv'
  <2>1. /\ mem' = [athletes |-> mem'.athletes, plans |-> mem'.plans,
                   current |-> mem'.current, range |-> mem'.range]
        /\ mem'.athletes = athletes /\ mem'.plans = mem.plans
        /\ mem'.current = mem.current /\ mem'.range = mem.range
        BY <1>1 DEF PlanningInv, PlansStand
  <2>2. PlansStand(mem')
        BY <2>1 DEF PlanningInv, PlansStand
  <2>3. (failures' > failures => taint' # {}) /\ taint \subseteq taint'
        BY <1>1 DEF Planning!Tainted
  <2>4. taint' \subseteq {"Files"} => PlansPeopled(mem')
        BY <1>1, <2>1, <2>3 DEF PlansPeopled
  <2>5. Planning!Commit(IF "athletes" = "plans" THEN {"plans", "current"} ELSE {"athletes"})
        BY <1>1 DEF Planning!AthletesFile
  <2>. QED  BY <2>1, <2>2, <2>3, <2>4, <2>5, PlansSaved
<1>2. CASE Planning!AddAthlete
  <2>. DEFINE athletes == mem.athletes \cup {minted.athletes + 1}
  <2>1. /\ mem' = [mem EXCEPT !.athletes = athletes]
        /\ Planning!Commit(Planning!AthletesFile) /\ Planning!Tainted
        BY <1>2 DEF Planning!AddAthlete
  <2>2. taint \subseteq {"Files"} =>
           \A p \in DOMAIN mem.plans : PlanPeopled(mem.plans[p], athletes)
        BY DEF PlanningInv, PlansPeopled, PlanPeopled
  <2>. QED  BY <1>1, <2>1, <2>2
<1>3. CASE Planning!RemoveAthlete
  <2>1. PICK athlete \in mem.athletes :
           ~Planning!InUse(athlete) /\ mem' = [mem EXCEPT !.athletes = @ \ {athlete}]
        BY <1>3 DEF Planning!RemoveAthlete
  <2>. DEFINE athletes == mem.athletes \ {athlete}
  <2>2. /\ mem' = [mem EXCEPT !.athletes = athletes]
        /\ Planning!Commit(Planning!AthletesFile) /\ Planning!Tainted
        BY <1>3, <2>1 DEF Planning!RemoveAthlete
  <2>3. taint \subseteq {"Files"} =>
           \A p \in DOMAIN mem.plans : PlanPeopled(mem.plans[p], athletes)
        BY <2>1 DEF PlanningInv, PlansPeopled, PlanPeopled, Planning!InUse, Planning!OnLane
  <2>. QED  BY <1>1, <2>2, <2>3
<1>. QED  BY <1>2, <1>3

\* Plans are made, opened, deleted and put into the archive.
LEMMA PlansChanged ==
    ASSUME PlanningInv,
           \/ Planning!CreatePlan \/ Planning!OpenPlan \/ Planning!DeletePlan
           \/ Planning!ArchivePlan \/ Planning!RenamePlan
    PROVE  PlanningInv'
<1>1. ASSUME NEW plans, NEW now, mem' = [mem EXCEPT !.plans = plans, !.current = now],
             Planning!Commit(Planning!PlansFile), Planning!Tainted,
             plans = [p \in DOMAIN plans |-> plans[p]], now # 0 => now \in DOMAIN plans,
             \A p \in DOMAIN plans : PlanSound(plans[p]),
             taint \subseteq {"Files"} =>
                \A p \in DOMAIN plans : PlanPeopled(plans[p], mem.athletes)
      PROVE  PlanningInv'
  <2>1. /\ mem' = [athletes |-> mem'.athletes, plans |-> mem'.plans,
                   current |-> mem'.current, range |-> mem'.range]
        /\ mem'.athletes = mem.athletes /\ mem'.plans = plans
        /\ mem'.current = now /\ mem'.range = mem.range
        BY <1>1 DEF PlanningInv, PlansStand
  <2>2. PlansStand(mem')
        BY <1>1, <2>1 DEF PlanningInv, PlansStand
  <2>3. taint \subseteq {"Files"} => PlansPeopled(mem')
        BY <1>1, <2>1 DEF PlansPeopled
  <2>. QED  BY <1>1, <2>1, <2>2, <2>3, PlansCommitted
<1>2. /\ mem.plans = [p \in DOMAIN mem.plans |-> mem.plans[p]]
      /\ \A p \in DOMAIN mem.plans : PlanSound(mem.plans[p])
      /\ taint \subseteq {"Files"} =>
            \A p \in DOMAIN mem.plans : PlanPeopled(mem.plans[p], mem.athletes)
      /\ mem = [athletes |-> mem.athletes, plans |-> mem.plans, current |-> mem.current,
                range |-> mem.range]
      /\ mem.current # 0 => mem.current \in DOMAIN mem.plans
      BY DEF PlanningInv, PlansStand, PlansPeopled
<1>3. CASE Planning!CreatePlan
  <2>. DEFINE made == minted.plans + 1
              plans == [q \in DOMAIN mem.plans \cup {made} |->
                           IF q = made THEN Planning!NewPlan ELSE mem.plans[q]]
  <2>1. /\ mem' = [mem EXCEPT !.plans = plans, !.current = made]
        /\ Planning!Commit(Planning!PlansFile) /\ Planning!Tainted
        BY <1>2, <1>3 DEF Planning!CreatePlan
  <2>2. /\ PlanSound(Planning!NewPlan)
        /\ PlanPeopled(Planning!NewPlan, mem.athletes)
        BY DEF PlanSound, PlanShape, PlanStatus, PlanPeopled, Planning!NewPlan
  <2>3. /\ plans = [p \in DOMAIN plans |-> plans[p]] /\ made \in DOMAIN plans
        /\ \A p \in DOMAIN plans :
              plans[p] = Planning!NewPlan \/ (p \in DOMAIN mem.plans /\ plans[p] = mem.plans[p])
        OBVIOUS
  <2>. HIDE DEF plans, made
  <2>4. \A p \in DOMAIN plans : PlanSound(plans[p])
        BY <1>2, <2>2, <2>3
  <2>5. taint \subseteq {"Files"} =>
           \A p \in DOMAIN plans : PlanPeopled(plans[p], mem.athletes)
        BY <1>2, <2>2, <2>3
  <2>. QED  BY <1>1, <2>1, <2>3, <2>4, <2>5
<1>4. CASE Planning!OpenPlan
  <2>1. PICK p \in DOMAIN mem.plans : mem' = [mem EXCEPT !.current = p]
        BY <1>4 DEF Planning!OpenPlan
  <2>2. mem' = [mem EXCEPT !.plans = mem.plans, !.current = p]
        BY <1>2, <2>1
  <2>3. Planning!Commit(Planning!PlansFile) /\ Planning!Tainted
        BY <1>4 DEF Planning!OpenPlan, Planning!CommitPlans
  <2>. DEFINE plans == mem.plans
  <2>4. /\ p # 0 => p \in DOMAIN plans
        /\ mem' = [mem EXCEPT !.plans = plans, !.current = p]
        /\ plans = [q \in DOMAIN plans |-> plans[q]]
        /\ \A q \in DOMAIN plans : PlanSound(plans[q])
        /\ taint \subseteq {"Files"} =>
              \A q \in DOMAIN plans : PlanPeopled(plans[q], mem.athletes)
        BY <1>2, <2>1, <2>2
  <2>. HIDE DEF plans
  <2>. QED  BY <1>1, <2>3, <2>4
<1>5. CASE Planning!DeletePlan
  <2>1. PICK p \in DOMAIN mem.plans :
           mem' = [mem EXCEPT !.plans = Planning!Restrict(@, DOMAIN @ \ {p}),
                              !.current = IF @ = p THEN 0 ELSE @]
        BY <1>5 DEF Planning!DeletePlan, Planning!NoPlan
  <2>. DEFINE plans == [q \in DOMAIN mem.plans \ {p} |-> mem.plans[q]]
              now == IF mem.current = p THEN 0 ELSE mem.current
  <2>2. mem' = [mem EXCEPT !.plans = plans, !.current = now]
        BY <1>2, <2>1 DEF Planning!Restrict
  <2>3. /\ plans = [q \in DOMAIN plans |-> plans[q]]
        /\ now # 0 => now \in DOMAIN plans
        /\ \A q \in DOMAIN plans : q \in DOMAIN mem.plans /\ plans[q] = mem.plans[q]
        BY <1>2
  <2>4. Planning!Commit(Planning!PlansFile) /\ Planning!Tainted
        BY <1>5 DEF Planning!DeletePlan, Planning!CommitPlans
  <2>. HIDE DEF plans, now
  <2>5. /\ \A q \in DOMAIN plans : PlanSound(plans[q])
        /\ taint \subseteq {"Files"} =>
              \A q \in DOMAIN plans : PlanPeopled(plans[q], mem.athletes)
        BY <1>2, <2>3
  <2>. QED  BY <1>1, <2>2, <2>3, <2>4, <2>5
<1>6. CASE Planning!ArchivePlan
  <2>1. PICK p \in DOMAIN mem.plans : mem' = [mem EXCEPT !.plans[p].status = "Archived"]
        BY <1>6 DEF Planning!ArchivePlan
  <2>. DEFINE archived == [mem.plans[p] EXCEPT !.status = "Archived"]
              plans == [mem.plans EXCEPT ![p] = archived]
  <2>2. mem' = [mem EXCEPT !.plans = plans, !.current = mem.current]
        BY <1>2, <2>1
  <2>3. PlanSound(archived) /\ PlanPeopled(archived, mem.athletes)
    <3>. DEFINE c == mem.plans[p]
    <3>1. PlanSound(c)
          BY <1>2
    <3>. HIDE DEF c
    <3>2. [c EXCEPT !.status = "Archived"]
             = [status |-> "Archived", programme |-> c.programme, lanes |-> c.lanes]
          BY <3>1 DEF PlanSound, PlanShape
    <3>. QED  BY <3>1, <3>2 DEF PlanSound, PlanShape, PlanStatus, PlanPeopled, c
  <2>. HIDE DEF archived
  <2>4. /\ plans = [q \in DOMAIN plans |-> plans[q]] /\ DOMAIN plans = DOMAIN mem.plans
        /\ \A q \in DOMAIN plans : plans[q] = archived \/ plans[q] = mem.plans[q]
        BY <1>2
  <2>. HIDE DEF plans
  <2>5. \A q \in DOMAIN plans : PlanSound(plans[q])
        BY <1>2, <2>3, <2>4
  <2>6. taint \subseteq {"Files"} =>
           \A q \in DOMAIN plans : PlanPeopled(plans[q], mem.athletes)
        BY <1>2, <2>3, <2>4
  <2>7. Planning!Commit(Planning!PlansFile) /\ Planning!Tainted
        BY <1>6 DEF Planning!ArchivePlan, Planning!CommitPlans
  <2>8. mem.current # 0 => mem.current \in DOMAIN plans
        BY <1>2, <2>4
  <2>. QED  BY <1>1, <2>2, <2>4, <2>5, <2>6, <2>7, <2>8
<1>7. CASE Planning!RenamePlan
  <2>1. mem' = [mem EXCEPT !.plans = mem.plans, !.current = mem.current]
        BY <1>2, <1>7 DEF Planning!RenamePlan
  <2>2. Planning!Commit(Planning!PlansFile) /\ Planning!Tainted
        BY <1>7 DEF Planning!RenamePlan, Planning!CommitPlans
  <2>. QED  BY <1>1, <1>2, <2>1, <2>2
<1>. QED  BY <1>3, <1>4, <1>5, <1>6, <1>7

LEMMA PlanMarked ==
    ASSUME PlanningInv,
           Planning!SetProgramme \/ Planning!MarkReady \/ Planning!MarkDraft
    PROVE  PlanningInv'
<1>. DEFINE c == Planning!Current
<1>1. Planning!HasPlan
      BY DEF Planning!SetProgramme, Planning!MarkReady, Planning!MarkDraft
<1>2. /\ mem.current \in DOMAIN mem.plans /\ c = mem.plans[mem.current] /\ PlanSound(c)
      /\ taint \subseteq {"Files"} => PlanPeopled(c, mem.athletes)
      BY <1>1 DEF PlanningInv, PlansStand, PlansPeopled, Planning!HasPlan, Planning!NoPlan,
                  Planning!Current
<1>. HIDE DEF c
<1>3. c = [status |-> c.status, programme |-> c.programme, lanes |-> c.lanes]
      BY <1>2 DEF PlanSound, PlanShape
<1>4. CASE Planning!SetProgramme
  <2>. DEFINE chosen == [c EXCEPT !.programme = TRUE]
              status == IF chosen.status = "Ready" THEN "Draft" ELSE chosen.status
              e == Planning!Edited(chosen)
  <2>0. \A b : [c EXCEPT !.programme = b]
                   = [status |-> c.status, programme |-> b, lanes |-> c.lanes]
        BY <1>3
  <2>1. chosen = [status |-> c.status, programme |-> TRUE, lanes |-> c.lanes]
        BY <2>0, Zenon
  <2>2. e = [chosen EXCEPT !.status = status]
        BY DEF Planning!Edited
  <2>3. status = IF c.status = "Ready" THEN "Draft" ELSE c.status
        BY <2>1
  <2>4. Planning!Replace(e)
        BY <1>4 DEF Planning!SetProgramme, c
  <2>. HIDE DEF chosen, status, e
  <2>5. e = [status |-> status, programme |-> TRUE, lanes |-> c.lanes]
        BY <2>1, <2>2
  <2>6. PlanSound(e)
        BY <1>2, <2>3, <2>5 DEF PlanSound, PlanShape, PlanStatus
  <2>7. taint \subseteq {"Files"} => PlanPeopled(e, mem.athletes)
        BY <1>2, <2>3, <2>5 DEF PlanPeopled
  <2>. QED  BY <1>1, <2>4, <2>6, <2>7, PlanReplaced
<1>5. ASSUME NEW status \in {"Ready", "Draft"}, Planning!Mark(status),
             status = "Ready" => Planning!Complete(c)
      PROVE  PlanningInv'
  <2>. DEFINE e == [c EXCEPT !.status = status]
  <2>1. e = [status |-> status, programme |-> c.programme, lanes |-> c.lanes]
        BY <1>3
  <2>. HIDE DEF e
  <2>2. PlanSound(e)
    <3>1. status = "Ready" => /\ c.programme /\ c.lanes # << >>
                              /\ \A lane \in DOMAIN c.lanes : c.lanes[lane] # 0
          BY <1>5 DEF Planning!Complete, Planning!OnLane, Planning!Nobody
    <3>. QED  BY <1>2, <2>1, <3>1 DEF PlanSound, PlanShape, PlanStatus
  <2>3. mem' = [mem EXCEPT !.plans[mem.current].status = status]
        BY <1>5 DEF Planning!Mark
  <2>4. /\ mem' = [athletes |-> mem'.athletes, plans |-> mem'.plans,
                   current |-> mem'.current, range |-> mem'.range]
        /\ mem'.athletes = mem.athletes /\ mem'.range = mem.range
        /\ mem'.current = mem.current
        /\ mem'.plans = [mem.plans EXCEPT ![mem.current] = e]
        BY <1>2, <2>3 DEF PlanningInv, PlansStand, e
  <2>5. /\ DOMAIN mem'.plans = DOMAIN mem.plans /\ mem'.plans[mem.current] = e
        /\ \A p \in DOMAIN mem.plans \ {mem.current} : mem'.plans[p] = mem.plans[p]
        /\ mem'.plans = [p \in DOMAIN mem'.plans |-> mem'.plans[p]]
        BY <1>2, <2>4 DEF PlanningInv, PlansStand
  <2>6. PlansStand(mem')
        BY <2>2, <2>4, <2>5 DEF PlanningInv, PlansStand
  <2>7. /\ taint' = taint \cup (IF failures' > failures THEN {"Files"} ELSE {})
                          \cup (IF c.status = "Archived" THEN {"Archive"} ELSE {})
        /\ Planning!Commit(Planning!PlansFile)
        BY <1>5 DEF Planning!Mark, c
  <2>8. taint' \subseteq {"Files"} => PlansPeopled(mem')
    <3>1. SUFFICES ASSUME taint' \subseteq {"Files"}
                   PROVE  PlansPeopled(mem')
          OBVIOUS
    <3>2. taint \subseteq {"Files"} /\ c.status # "Archived"
          BY <2>7, <3>1
    <3>3. PlanPeopled(e, mem.athletes)
          BY <1>2, <2>1, <3>2 DEF PlanPeopled
    <3>. QED  BY <2>4, <2>5, <3>2, <3>3 DEF PlanningInv, PlansPeopled
  <2>9. /\ failures' > failures => taint' # {}
        /\ taint \subseteq taint'
        BY <2>7
  <2>10. Planning!Commit(IF "plans" = "plans" THEN {"plans", "current"} ELSE {"plans"})
         BY <2>7 DEF Planning!PlansFile
  <2>. QED  BY <2>4, <2>6, <2>8, <2>9, <2>10, PlansSaved
<1>6. CASE Planning!MarkReady
      BY <1>5, <1>6 DEF Planning!MarkReady, c
<1>7. CASE Planning!MarkDraft
      BY <1>5, <1>7 DEF Planning!MarkDraft
<1>. QED  BY <1>4, <1>6, <1>7

\* No station is on two lanes, whatever is assigned.
LEMMA LanesAssigned ==
    ASSUME PlanningInv,
           Planning!CreateRange \/ Planning!AssignNodeToLane \/ Planning!ClearLane
    PROVE  PlanningInv'
<1>. DEFINE NoneShared(r) == \A l, m \in DOMAIN r : r[l] = r[m] => l = m \/ r[l] = "none"
<1>1. ASSUME NEW lanes, mem' = [mem EXCEPT !.range = lanes],
             lanes = [lane \in DOMAIN lanes |-> lanes[lane]], NoneShared(lanes),
             Planning!CommitRange
      PROVE  PlanningInv'
  <2>1. /\ mem' = [athletes |-> mem'.athletes, plans |-> mem'.plans,
                   current |-> mem'.current, range |-> mem'.range]
        /\ mem'.athletes = mem.athletes /\ mem'.plans = mem.plans
        /\ mem'.current = mem.current /\ mem'.range = lanes
        BY <1>1 DEF PlanningInv, PlansStand
  <2>2. PlansStand(mem')
        BY <1>1, <2>1 DEF PlanningInv, PlansStand
  <2>3. (failures' > failures => taint' # {}) /\ taint \subseteq taint'
        BY <1>1 DEF Planning!CommitRange, Planning!Tainted
  <2>4. taint' \subseteq {"Files"} => PlansPeopled(mem')
        BY <2>1, <2>3 DEF PlanningInv, PlansPeopled
  <2>5. Planning!Commit(IF "range" = "plans" THEN {"plans", "current"} ELSE {"range"})
        BY <1>1 DEF Planning!CommitRange, Planning!RangeFile
  <2>. QED  BY <2>1, <2>2, <2>3, <2>4, <2>5, PlansSaved
<1>2. /\ mem.range = [lane \in DOMAIN mem.range |-> mem.range[lane]]
      /\ NoneShared(mem.range)
      /\ mem = [athletes |-> mem.athletes, plans |-> mem.plans, current |-> mem.current,
                range |-> mem.range]
      BY DEF PlanningInv, PlansStand
<1>3. CASE Planning!CreateRange
  <2>1. CASE mem' = [mem EXCEPT !.range = [lane \in Planning!Lanes |-> Planning!NoNode]]
    <3>. DEFINE lanes == [lane \in Planning!Lanes |-> Planning!NoNode]
    <3>1. lanes = [lane \in DOMAIN lanes |-> lanes[lane]] /\ NoneShared(lanes)
          BY DEF Planning!NoNode
    <3>2. mem' = [mem EXCEPT !.range = lanes] /\ Planning!CommitRange
          BY <1>3, <2>1 DEF Planning!CreateRange
    <3>. HIDE DEF lanes
    <3>. QED  BY <1>1, <3>1, <3>2
  <2>2. ASSUME NEW n, NEW lanes \in [1 .. n -> Nodes], Planning!IsInjective(lanes),
               mem' = [mem EXCEPT !.range = lanes]
        PROVE  PlanningInv'
    <3>1. lanes = [lane \in DOMAIN lanes |-> lanes[lane]] /\ NoneShared(lanes)
          BY <2>2 DEF Planning!IsInjective
    <3>. QED  BY <1>1, <1>3, <2>2, <3>1 DEF Planning!CreateRange
  <2>. QED  BY <1>3, <2>1, <2>2 DEF Planning!CreateRange
<1>4. CASE Planning!AssignNodeToLane
  <2>1. PICK station \in Nodes, lane \in Planning!LanesOf(Planning!NoNode) :
           mem' = [mem EXCEPT !.range =
                      [other \in DOMAIN @ |->
                          CASE other = lane -> station
                            [] other \in Planning!LanesOf(station) -> Planning!NoNode
                            [] OTHER -> @[other]]]
        BY <1>4 DEF Planning!AssignNodeToLane
  <2>. DEFINE lanes == [other \in DOMAIN mem.range |->
                           CASE other = lane -> station
                             [] other \in Planning!LanesOf(station) -> Planning!NoNode
                             [] OTHER -> mem.range[other]]
  <2>2. mem' = [mem EXCEPT !.range = lanes]
        BY <1>2, <2>1
  <2>3. \A other \in DOMAIN mem.range :
           \/ other = lane /\ lanes[other] = station
           \/ other # lane /\ lanes[other] = "none"
           \/ other # lane /\ mem.range[other] # station /\ lanes[other] = mem.range[other]
        BY DEF Planning!LanesOf, Planning!NoNode
  <2>4. lanes = [other \in DOMAIN lanes |-> lanes[other]] /\ DOMAIN lanes = DOMAIN mem.range
        OBVIOUS
  <2>. HIDE DEF lanes
  <2>5. NoneShared(lanes)
        BY <1>2, <2>3, <2>4
  <2>. QED  BY <1>1, <1>4, <2>2, <2>4, <2>5 DEF Planning!AssignNodeToLane
<1>5. CASE Planning!ClearLane
  <2>1. PICK lane \in DOMAIN mem.range : mem' = [mem EXCEPT !.range[lane] = "none"]
        BY <1>5 DEF Planning!ClearLane, Planning!NoNode
  <2>. DEFINE lanes == [mem.range EXCEPT ![lane] = "none"]
  <2>2. mem' = [mem EXCEPT !.range = lanes]
        BY <1>2, <2>1
  <2>3. /\ lanes = [other \in DOMAIN lanes |-> lanes[other]] /\ DOMAIN lanes = DOMAIN mem.range
        /\ lanes[lane] = "none" /\ \A l \in DOMAIN mem.range \ {lane} : lanes[l] = mem.range[l]
        BY <1>2
  <2>. HIDE DEF lanes
  <2>4. NoneShared(lanes)
        BY <1>2, <2>3
  <2>. QED  BY <1>1, <1>5, <2>2, <2>3, <2>4 DEF Planning!ClearLane
<1>. QED  BY <1>3, <1>4, <1>5

LEMMA PlanningStep ==
    ASSUME PlanningInv, Planning!Next
    PROVE  PlanningInv'
<1>1. CASE Planning!Load
      BY <1>1 DEF Planning!Load, PlanningInv
<1>. QED  BY <1>1, AthletesChanged, PlansChanged, LanesChanged, PlanMarked, LanesAssigned
          DEF Planning!Next, Planning!Services

\* A plan that is ready is complete, nobody is on two lanes of a plan, no
\* station on two of the range, in memory and on disk, and who is on a lane
\* exists unless files that disagree were loaded or a plan came out of the
\* archive: for every range, start list and number of plans, whatever fails.
THEOREM PlansStaySound == Spec => []PlansSound
<1>1. Init => PlanningInv
      BY DEF Init, Planning!Init, Planning!Empty, Planning!NoPlan, Planning!Unconfigured,
             PlanningInv, PlansStand, PlansPeopled
<1>2. PlanningInv /\ [Next]_vars => PlanningInv'
  <2>1. Next => Planning!Next \/ UNCHANGED planningVars
        BY DEF Next
  <2>2. PlanningInv /\ UNCHANGED planningVars => PlanningInv'
        BY DEF planningVars, PlanningInv
  <2>. QED  BY <2>1, <2>2, PlanningStep DEF vars
<1>3. PlanningInv => PlansSound
      BY PlanningInvImplies DEF PlansSound
<1>. QED  BY <1>1, <1>2, <1>3, PTL DEF Spec
-----------------------------------------------------------------------------
(* What the range management observes.                                     *)

Boots == 1 .. MaxChanges + 1
Statuses == [kind : {"Status"}, boot : Boots, seq : Nat \ {0}, session : Nat,
             accepted : Nat, connection : {"TargetDisconnected", "TargetConnected"}]
ShotMessages == [kind : {"Shot"}, boot : Boots, session : Nat, number : Nat, id : Nat]
Announcements == [kind : {"Announce"}, boot : Boots]
Connections == {"Unknown", "Offline", "Online", "TargetDisconnected", "TargetConnected"}

\* A datagram is of a run of the station, and a shot is told apart by its id.
StationInv ==
    /\ node \in [boot : Boots, seq : Nat, session : Nat, accepted : Nat, sent : Nat]
    /\ node.session >= 1
    /\ net \subseteq Statuses \cup ShotMessages \cup Announcements
    /\ \A m \in net : m.kind = "Shot" => m.id <= node.sent
    /\ \A m, o \in net : m.kind = "Shot" /\ o.kind = "Shot" /\ m.id = o.id => m = o

LEMMA StationStep ==
    ASSUME StationInv, Observation!Next
    PROVE  StationInv'
<1>1. {MaxChanges, MaxStatuses, MaxShotsSent, MaxSilences} \subseteq Nat
      BY PartsAssumption DEF Observation!ObservationAssumption
<1>. USE DEF StationInv
<1>2. CASE Observation!EmitStatus
  <2>. DEFINE m == [kind |-> "Status", boot |-> node.boot, seq |-> node.seq + 1,
                    session |-> node.session, accepted |-> node.accepted,
                    connection |-> IF node.seq = 0 THEN "TargetDisconnected"
                                   ELSE "TargetConnected"]
  <2>1. net' = net \cup {m} /\ node' = [node EXCEPT !.seq = @ + 1]
        BY <1>2 DEF Observation!EmitStatus, Observation!Send
  <2>2. m \in Statuses /\ m.kind = "Status"
        BY DEF Statuses
  <2>. HIDE DEF m
  <2>. QED  BY <2>1, <2>2
<1>3. CASE Observation!EmitShot
  <2>. DEFINE m == [kind |-> "Shot", boot |-> node.boot, session |-> node.session,
                    number |-> node.accepted + 1, id |-> node.sent + 1]
  <2>1. net' = net \cup {m} /\ node' = [node EXCEPT !.accepted = @ + 1, !.sent = @ + 1]
        BY <1>3 DEF Observation!EmitShot, Observation!Send
  <2>2. m \in ShotMessages /\ m.kind = "Shot" /\ m.id = node.sent + 1
        BY DEF ShotMessages
  <2>3. \A o \in net : o.kind = "Shot" => o.id \in Nat /\ o.id <= node.sent
        BY DEF Statuses, ShotMessages, Announcements
  <2>4. /\ node' \in [boot : Boots, seq : Nat, session : Nat, accepted : Nat, sent : Nat]
        /\ node'.sent = node.sent + 1 /\ node'.session = node.session /\ node.sent \in Nat
    <3>1. node.accepted + 1 \in Nat /\ node.sent + 1 \in Nat
          OBVIOUS
    <3>. QED  BY <2>1, <3>1
  <2>. HIDE DEF m
  <2>5. \A o \in net : o.kind = "Shot" => o.id # m.id
        BY <2>2, <2>3, <2>4
  <2>6. net' \subseteq Statuses \cup ShotMessages \cup Announcements
        BY <2>1, <2>2
  <2>7. \A o \in net' : o.kind = "Shot" => o.id <= node'.sent
        BY <2>1, <2>2, <2>3, <2>4
  <2>8. \A n, o \in net' : n.kind = "Shot" /\ o.kind = "Shot" /\ n.id = o.id => n = o
        BY <2>1, <2>5
  <2>. QED  BY <2>4, <2>6, <2>7, <2>8
<1>4. CASE Observation!SessionStarts
  <2>1. node' = [node EXCEPT !.session = @ + 1, !.accepted = 0] /\ net' = net
        BY <1>4 DEF Observation!SessionStarts
  <2>2. /\ node' \in [boot : Boots, seq : Nat, session : Nat, accepted : Nat, sent : Nat]
        /\ node'.sent = node.sent /\ node'.session >= 1
    <3>1. node.session + 1 \in Nat /\ node.session + 1 >= 1 /\ 0 \in Nat
          OBVIOUS
    <3>. QED  BY <2>1, <3>1
  <2>. QED  BY <2>1, <2>2
<1>5. CASE Observation!NodeRestarts
  <2>1. PICK lost \in {0, 1} \cap 0 .. node.accepted :
           node' = [node EXCEPT !.boot = @ + 1, !.seq = 0, !.accepted = @ - lost]
        BY <1>5 DEF Observation!NodeRestarts
  <2>. DEFINE m == [kind |-> "Announce", boot |-> node.boot + 1]
  <2>2. net' = net \cup {m}
        BY <1>5 DEF Observation!NodeRestarts, Observation!Send, Observation!Announcement
  <2>3. node.boot + 1 \in Boots
        BY <1>1, <1>5 DEF Observation!NodeRestarts, Observation!Changes, Boots
  <2>4. m \in Announcements /\ m.kind = "Announce"
        BY <2>3 DEF Announcements
  <2>5. /\ node' \in [boot : Boots, seq : Nat, session : Nat, accepted : Nat, sent : Nat]
        /\ node'.sent = node.sent /\ node'.session >= 1
    <3>1. node.accepted - lost \in Nat
          BY <2>1
    <3>. QED  BY <2>1, <2>3, <3>1
  <2>. HIDE DEF m
  <2>6. net' \subseteq Statuses \cup ShotMessages \cup Announcements
        BY <2>2, <2>4
  <2>7. \A o \in net' : o.kind = "Shot" => o \in net
        BY <2>2, <2>4
  <2>. QED  BY <2>5, <2>6, <2>7
<1>6. CASE UNCHANGED <<node, net>>
      BY <1>6
<1>. QED  BY <1>2, <1>3, <1>4, <1>5, <1>6
          DEF Observation!Next, Observation!Receive, Observation!StartLog,
              Observation!StopLog, Observation!Tick, Observation!RmsRestarts

\* A ledger holds, of one session, the first shot under each number that has
\* been offered to it.
Slots == UNION {[D -> Nat] : D \in SUBSET Nat}
Sent == {m \in net : m.kind = "Shot"}
HoldsFirst(ids, slots, conflict, offered) ==
    /\ offered \subseteq Sent
    /\ slots \in Slots /\ IsFiniteSet(DOMAIN slots)
    /\ DOMAIN slots = {m.number : m \in offered}
    /\ ids = {slots[n] : n \in DOMAIN slots}
    /\ ids \subseteq {m.id : m \in offered}
    /\ \A m \in offered : slots[m.number] # m.id => conflict = TRUE
Ledgers == [session : Nat, ids : SUBSET Nat, slots : Slots, conflict : BOOLEAN,
            offered : SUBSET ShotMessages]
LedgerSound(l) ==
    l \in Ledgers /\ HoldsFirst(l.ids, l.slots, l.conflict, l.offered)
Ledger(session, ids, slots, conflict, offered) ==
    [session |-> session, ids |-> ids, slots |-> slots, conflict |-> conflict,
     offered |-> offered]
WithConflict(l, conflict) == [l EXCEPT !.conflict = conflict]
WithSlots(l, ids, slots) == [l EXCEPT !.ids = ids, !.slots = slots]
WithOffered(l, offered) == [l EXCEPT !.offered = offered]
Clear == FALSE
Clash == TRUE

LEMMA SentAreShots ==
    ASSUME StationInv
    PROVE  /\ Sent \subseteq ShotMessages
           /\ \A m, o \in Sent : m.id = o.id => m = o
           /\ \A m \in Sent : m.number \in Nat /\ m.id \in Nat /\ m.session \in Nat
BY DEF StationInv, Sent, ShotMessages, Statuses, Announcements

LEMMA NoSlots == << >> \in Slots /\ DOMAIN << >> = {} /\ IsFiniteSet({})
<1>1. << >> \in [{} -> Nat]
      OBVIOUS
<1>. QED  BY <1>1, FS_EmptySet DEF Slots

LEMMA LedgerParts ==
    ASSUME NEW session, NEW ids, NEW slots, NEW offered
    PROVE  \A d : /\ Ledger(session, ids, slots, d, offered).session = session
                  /\ Ledger(session, ids, slots, d, offered).ids = ids
                  /\ Ledger(session, ids, slots, d, offered).slots = slots
                  /\ Ledger(session, ids, slots, d, offered).conflict = d
                  /\ Ledger(session, ids, slots, d, offered).offered = offered
BY DEF Ledger

LEMMA LedgerConflict ==
    ASSUME NEW session, NEW ids, NEW slots, NEW offered
    PROVE  \A d, e : WithConflict(Ledger(session, ids, slots, d, offered), e)
                     = Ledger(session, ids, slots, e, offered)
<1>1. \A d, e : [[session |-> session, ids |-> ids, slots |-> slots, conflict |-> d,
                  offered |-> offered] EXCEPT !.conflict = e]
                = [session |-> session, ids |-> ids, slots |-> slots, conflict |-> e,
                   offered |-> offered]
      OBVIOUS
<1>. QED  BY <1>1, Zenon DEF Ledger, WithConflict

LEMMA LedgerSlots ==
    ASSUME NEW session, NEW ids, NEW slots, NEW offered, NEW i, NEW more
    PROVE  \A d : WithSlots(Ledger(session, ids, slots, d, offered), i, more)
                  = Ledger(session, i, more, d, offered)
<1>1. \A d : [[session |-> session, ids |-> ids, slots |-> slots, conflict |-> d,
               offered |-> offered] EXCEPT !.ids = i]
             = [session |-> session, ids |-> i, slots |-> slots, conflict |-> d,
                offered |-> offered]
      OBVIOUS
<1>2. \A d : [[session |-> session, ids |-> i, slots |-> slots, conflict |-> d,
               offered |-> offered] EXCEPT !.slots = more]
             = [session |-> session, ids |-> i, slots |-> more, conflict |-> d,
                offered |-> offered]
      OBVIOUS
<1>. QED  BY <1>1, <1>2, Zenon DEF Ledger, WithSlots

LEMMA LedgerOffered ==
    ASSUME NEW session, NEW ids, NEW slots, NEW offered, NEW o
    PROVE  \A d : WithOffered(Ledger(session, ids, slots, d, offered), o)
                  = Ledger(session, ids, slots, d, o)
<1>1. \A d : [[session |-> session, ids |-> ids, slots |-> slots, conflict |-> d,
               offered |-> offered] EXCEPT !.offered = o]
             = [session |-> session, ids |-> ids, slots |-> slots, conflict |-> d,
                offered |-> o]
      OBVIOUS
<1>. QED  BY <1>1, Zenon DEF Ledger, WithOffered

LEMMA IngestCases ==
    ASSUME NEW l, NEW m, NEW q, NEW i, NEW s, NEW c, NEW o,
           Observation!Offered(l, m) = Ledger(q, i, s, c, o)
    PROVE  /\ m.id \in i => Observation!Ingest(l, m) = Ledger(q, i, s, c, o)
           /\ m.id \notin i /\ m.number \in DOMAIN s =>
                 Observation!Ingest(l, m) = Ledger(q, i, s, Clash, o)
           /\ m.id \notin i /\ m.number \notin DOMAIN s =>
                 Observation!Ingest(l, m)
                 = Ledger(q, i \cup {m.id}, Observation!Slotted(s, m), c, o)
<1>. DEFINE own == Observation!Offered(l, m)
            more == Observation!Slotted(s, m)
            clash == WithConflict(own, Clash)
            kept == WithSlots(own, own.ids \cup {m.id}, Observation!Slotted(own.slots, m))
            got == Observation!Ingest(l, m)
<1>1. got = CASE m.id \in own.ids -> own
              [] m.id \notin own.ids /\ m.number \in DOMAIN own.slots -> clash
              [] OTHER -> kept
      BY Zenon DEF Observation!Ingest, Clash, WithConflict, WithSlots
<1>2. \A d : Ledger(q, i, s, d, o).ids = i /\ Ledger(q, i, s, d, o).slots = s
      BY DEF Ledger
<1>3. own = Ledger(q, i, s, c, o) /\ own.ids = i /\ own.slots = s
      BY <1>2, Zenon
<1>. HIDE DEF own, got
<1>4. clash = Ledger(q, i, s, Clash, o)
      BY <1>3, LedgerConflict
<1>5. kept = Ledger(q, i \cup {m.id}, more, c, o)
      BY <1>3, LedgerSlots
<1>. HIDE DEF more, clash, kept
<1>6. /\ m.id \in i => got = own
      /\ m.id \notin i /\ m.number \in DOMAIN s => got = clash
      /\ m.id \notin i /\ m.number \notin DOMAIN s => got = kept
      BY <1>1, <1>3
<1>. QED  BY <1>3, <1>4, <1>5, <1>6 DEF more, got

LEMMA LedgerBegins ==
    ASSUME NEW session \in Nat, NEW conflict \in BOOLEAN
    PROVE  LedgerSound(WithConflict(Observation!EmptyLedger(session), conflict))
<1>. DEFINE b == Ledger(session, {}, << >>, conflict, {})
<1>1. WithConflict(Observation!EmptyLedger(session), conflict) = b
  <2>1. Observation!EmptyLedger(session) = Ledger(session, {}, << >>, Clear, {})
        BY Zenon DEF Observation!EmptyLedger, Ledger, Clear
  <2>. QED  BY <2>1, LedgerConflict
<1>2. b \in Ledgers
      BY NoSlots DEF Ledgers, Ledger
<1>3. HoldsFirst({}, << >>, conflict, {})
      BY NoSlots DEF HoldsFirst
<1>4. b.ids = {} /\ b.slots = << >> /\ b.offered = {}
      BY DEF Ledger
<1>5. b.conflict = conflict
      BY Zenon DEF Ledger
<1>. HIDE DEF b
<1>. QED  BY <1>1, <1>2, <1>3, <1>4, <1>5, Zenon DEF LedgerSound

\* What a ledger becomes with other fields.
LEMMA LedgerFields ==
    ASSUME NEW l \in Ledgers, NEW ids \in SUBSET Nat, NEW slots \in Slots,
           NEW conflict \in BOOLEAN, NEW offered \in SUBSET ShotMessages,
           HoldsFirst(ids, slots, conflict, offered)
    PROVE  LedgerSound(Ledger(l.session, ids, slots, conflict, offered))
<1>. DEFINE b == Ledger(l.session, ids, slots, conflict, offered)
<1>1. b \in Ledgers
      BY DEF Ledgers, Ledger
<1>2. b.ids = ids /\ b.slots = slots /\ b.offered = offered
      BY DEF Ledger
<1>3. b.conflict = conflict
      BY Zenon DEF Ledger
<1>. HIDE DEF b
<1>4. LedgerSound(b)
      BY <1>1, <1>2, <1>3, Zenon DEF LedgerSound
<1>. QED  BY <1>4 DEF b

\* The first shot under a number is kept, a second one makes a conflict, and
\* one that came before changes nothing.
LEMMA LedgerIngests ==
    ASSUME StationInv, NEW l, LedgerSound(l), NEW m \in Sent
    PROVE  LedgerSound(Observation!Ingest(l, m))
<1>. DEFINE base == IF l.session = m.session THEN l
                    ELSE WithConflict(Observation!EmptyLedger(m.session), l.conflict)
            got == Observation!Ingest(l, m)
<1>1. m \in ShotMessages /\ m.number \in Nat /\ m.id \in Nat /\ m.session \in Nat
      BY SentAreShots
<1>2. l.conflict \in BOOLEAN
      BY DEF LedgerSound, Ledgers
<1>3. LedgerSound(base)
      BY <1>1, <1>2, LedgerBegins, Zenon
<1>4. base \in Ledgers /\ HoldsFirst(base.ids, base.slots, base.conflict, base.offered)
      BY <1>3 DEF LedgerSound
<1>5. Observation!Offered(l, m) = WithOffered(base, base.offered \cup {m})
      BY Zenon DEF Observation!Offered, WithOffered, WithConflict
<1>. HIDE DEF base, got
<1>6. base.ids \in SUBSET Nat /\ base.slots \in Slots /\ base.conflict \in BOOLEAN
      /\ base.offered \in SUBSET ShotMessages /\ base.session \in Nat
      BY <1>4 DEF Ledgers
<1>7. PICK q \in Nat, i \in SUBSET Nat, s \in Slots, c \in BOOLEAN, o \in SUBSET ShotMessages :
         base = Ledger(q, i, s, c, o)
  <2>1. base = Ledger(base.session, base.ids, base.slots, base.conflict, base.offered)
        BY <1>4 DEF Ledgers, Ledger
  <2>. QED  BY <1>6, <2>1, Zenon
<1>8. base.offered = o
      BY <1>7 DEF Ledger
<1>9. Observation!Offered(l, m) = Ledger(q, i, s, c, o \cup {m})
      BY <1>5, <1>7, <1>8, LedgerOffered
<1>10. /\ m.id \in i => got = Ledger(q, i, s, c, o \cup {m})
       /\ m.id \notin i /\ m.number \in DOMAIN s => got = Ledger(q, i, s, Clash, o \cup {m})
       /\ m.id \notin i /\ m.number \notin DOMAIN s =>
             got = Ledger(q, i \cup {m.id}, Observation!Slotted(s, m), c, o \cup {m})
      BY <1>9, IngestCases DEF got
<1>11. HoldsFirst(i, s, c, o)
  <2>1. /\ Ledger(q, i, s, c, o).ids = i /\ Ledger(q, i, s, c, o).slots = s
        /\ Ledger(q, i, s, c, o).offered = o
        BY DEF Ledger
  <2>2. Ledger(q, i, s, c, o).conflict = c
        BY Zenon DEF Ledger
  <2>. QED  BY <1>4, <1>7, <2>1, <2>2, Zenon
<1>12. ASSUME NEW ids \in SUBSET Nat, NEW slots \in Slots, NEW clash \in BOOLEAN,
              HoldsFirst(ids, slots, clash, o \cup {m}),
              got = Ledger(q, ids, slots, clash, o \cup {m})
       PROVE  LedgerSound(got)
  <2>1. o \cup {m} \in SUBSET ShotMessages
        BY <1>1
  <2>2. Ledger(q, i, s, c, o).session = q /\ Ledger(q, i, s, c, o) \in Ledgers
        BY <1>4, <1>7 DEF Ledger
  <2>. QED  BY <1>12, <2>1, <2>2, LedgerFields, Zenon DEF Ledger
<1>. SUFFICES LedgerSound(got)
      BY DEF got
<1>13. o \cup {m} \subseteq Sent
      BY <1>11 DEF HoldsFirst
<1>14. CASE m.id \in i
  <2>1. m \in o
    <3>1. PICK p \in o : p.id = m.id
          BY <1>11, <1>14 DEF HoldsFirst
    <3>. QED  BY <1>13, <3>1, SentAreShots
  <2>2. o \cup {m} = o
        BY <2>1
  <2>. QED  BY <1>7, <1>10, <1>11, <1>12, <1>14, <2>2
<1>15. CASE m.id \notin i /\ m.number \in DOMAIN s
  <2>1. HoldsFirst(i, s, Clash, o \cup {m})
        BY <1>11, <1>13, <1>15 DEF HoldsFirst, Clash
  <2>2. Clash \in BOOLEAN
        BY DEF Clash
  <2>. QED  BY <1>7, <1>10, <1>12, <1>15, <2>1, <2>2
<1>16. CASE m.id \notin i /\ m.number \notin DOMAIN s
  <2>. DEFINE more == Observation!Slotted(s, m)
  <2>1. /\ DOMAIN more = DOMAIN s \cup {m.number}
        /\ more[m.number] = m.id
        /\ \A n \in DOMAIN s : more[n] = s[n]
        /\ more \in Slots
    <3>1. PICK D \in SUBSET Nat : s \in [D -> Nat]
          BY DEF Slots
    <3>2. more \in [D \cup {m.number} -> Nat] /\ DOMAIN s = D
          BY <1>1, <3>1 DEF Observation!Slotted
    <3>3. more \in Slots
          BY <1>1, <3>2 DEF Slots
    <3>. QED  BY <1>16, <3>1, <3>3 DEF Observation!Slotted
  <2>. HIDE DEF more
  <2>2. IsFiniteSet(DOMAIN more)
        BY <1>11, <2>1, FS_AddElement DEF HoldsFirst
  <2>3. DOMAIN more = {p.number : p \in o \cup {m}}
        BY <1>11, <2>1 DEF HoldsFirst
  <2>4. i \cup {m.id} = {more[n] : n \in DOMAIN more}
        BY <1>11, <2>1 DEF HoldsFirst
  <2>5. i \cup {m.id} \subseteq {p.id : p \in o \cup {m}}
        BY <1>11 DEF HoldsFirst
  <2>6. \A p \in o \cup {m} : more[p.number] # p.id => c = TRUE
    <3>1. \A p \in o : p.number \in DOMAIN s
          BY <1>11 DEF HoldsFirst
    <3>. QED  BY <1>11, <2>1, <3>1 DEF HoldsFirst
  <2>7. HoldsFirst(i \cup {m.id}, more, c, o \cup {m})
        BY <1>13, <2>1, <2>2, <2>3, <2>4, <2>5, <2>6 DEF HoldsFirst
  <2>8. i \cup {m.id} \in SUBSET Nat
        BY <1>1
  <2>9. got = Ledger(q, i \cup {m.id}, more, c, o \cup {m})
        BY <1>10, <1>16 DEF more
  <2>. QED  BY <1>7, <1>12, <2>1, <2>7, <2>8, <2>9
<1>. QED  BY <1>14, <1>15, <1>16

Mirrors == [boot : Nat, prior : SUBSET Nat, seq : Nat, connection : Connections,
            quiet : BOOLEAN, session : Nat, accepted : Nat, ledger : Ledgers, episodes : Nat]

\* What of a mirror matters, but for its ledger.
Shows(r, boot, prior, seq, connection, session, accepted, episodes) ==
    /\ r.boot = boot /\ r.prior = prior /\ r.seq = seq /\ r.connection = connection
    /\ r.session = session /\ r.accepted = accepted /\ r.episodes = episodes

\* A heartbeat or a shot of another run moves the mirror to that run.
LEMMA BootApplied ==
    ASSUME NEW r \in Mirrors, NEW boot \in Nat \ {0}
    PROVE  LET b == Observation!ApplyBoot(r, boot)
           IN  /\ b \in Mirrors
               /\ b.ledger = r.ledger
               /\ Shows(b, boot, IF r.boot \in {0, boot} THEN r.prior ELSE r.prior \cup {r.boot},
                        IF r.boot \in {0, boot} THEN r.seq ELSE 0,
                        r.connection, r.session, r.accepted, r.episodes)
<1>. DEFINE b == Observation!ApplyBoot(r, boot)
<1>1. CASE r.boot = boot
  <2>1. b = r
        BY <1>1 DEF Observation!ApplyBoot
  <2>. QED  BY <1>1, <2>1 DEF Mirrors, Shows
<1>2. CASE r.boot # boot /\ r.boot = 0
  <2>1. b = [r EXCEPT !.boot = boot]
        BY <1>2 DEF Observation!ApplyBoot
  <2>. HIDE DEF b
  <2>2. b \in Mirrors
        BY <2>1 DEF Mirrors
  <2>3. b.ledger = r.ledger /\ Shows(b, boot, r.prior, r.seq, r.connection, r.session,
                                     r.accepted, r.episodes)
        BY <2>1 DEF Mirrors, Shows
  <2>. QED  BY <1>2, <2>2, <2>3 DEF b
<1>3. CASE r.boot # boot /\ r.boot # 0
  <2>. DEFINE prior == r.prior \cup {r.boot}
  <2>1. b = [r EXCEPT !.prior = prior, !.seq = 0, !.boot = boot]
        BY <1>3 DEF Observation!ApplyBoot
  <2>. HIDE DEF b
  <2>2. prior \in SUBSET Nat
        BY DEF Mirrors
  <2>. HIDE DEF prior
  <2>3. b \in Mirrors
        BY <2>1, <2>2 DEF Mirrors
  <2>4. b.ledger = r.ledger /\ Shows(b, boot, prior, 0, r.connection, r.session,
                                     r.accepted, r.episodes)
        BY <2>1 DEF Mirrors, Shows
  <2>. QED  BY <1>3, <2>3, <2>4 DEF b, prior
<1>. QED  BY <1>1, <1>2, <1>3

LEMMA WasAnnounced ==
    ASSUME NEW r \in Mirrors
    PROVE  LET b == Observation!Announced(r)
           IN  /\ b \in Mirrors /\ ~b.quiet
               /\ b.ledger = r.ledger
               /\ Shows(b, r.boot, r.prior, r.seq, Observation!Lifted(r.connection),
                        r.session, r.accepted, r.episodes)
<1>. DEFINE b == Observation!Announced(r)
            c == Observation!Lifted(r.connection)
<1>1. c \in Connections
      BY DEF Observation!Lifted, Mirrors, Connections
<1>2. b = [r EXCEPT !.connection = Observation!Lifted(@), !.quiet = FALSE]
      BY Zenon DEF Observation!Announced
<1>3. b = [r EXCEPT !.connection = c, !.quiet = FALSE]
      BY <1>2
<1>. HIDE DEF b, c
<1>4. b \in Mirrors
      BY <1>1, <1>3 DEF Mirrors
<1>5. b.ledger = r.ledger /\ Shows(b, r.boot, r.prior, r.seq, c, r.session,
                                   r.accepted, r.episodes)
      BY <1>3 DEF Mirrors, Shows
<1>6. ~b.quiet
      BY <1>3 DEF Mirrors
<1>. QED  BY <1>4, <1>5, <1>6 DEF b, c

\* Only a heartbeat newer than the newest of the run counts.
LEMMA WasStatus ==
    ASSUME NEW r \in Mirrors, NEW m \in Statuses
    PROVE  LET b == Observation!StatusSeen(r, m)
           IN  /\ b \in Mirrors /\ ~b.quiet
               /\ b.ledger = r.ledger
               /\ IF m.seq <= r.seq
                  THEN Shows(b, r.boot, r.prior, r.seq, r.connection, r.session,
                             r.accepted, r.episodes)
                  ELSE Shows(b, r.boot, r.prior, m.seq, m.connection, m.session,
                             m.accepted, r.episodes)
<1>. DEFINE b == Observation!StatusSeen(r, m)
<1>1. /\ m.seq \in Nat /\ m.session \in Nat /\ m.accepted \in Nat
      /\ m.connection \in Connections
      BY DEF Statuses, Connections
<1>2. CASE m.seq <= r.seq
  <2>1. b = [r EXCEPT !.quiet = FALSE]
        BY <1>2, Zenon DEF Observation!StatusSeen
  <2>. HIDE DEF b
  <2>2. b \in Mirrors
        BY <2>1 DEF Mirrors
  <2>3. b.ledger = r.ledger /\ Shows(b, r.boot, r.prior, r.seq, r.connection, r.session,
                                     r.accepted, r.episodes)
        BY <2>1 DEF Mirrors, Shows
  <2>4. ~b.quiet
        BY <2>1 DEF Mirrors
  <2>. QED  BY <1>2, <2>2, <2>3, <2>4 DEF b
<1>3. CASE ~(m.seq <= r.seq)
  <2>1. b = [r EXCEPT !.seq = m.seq, !.session = m.session, !.accepted = m.accepted,
                      !.connection = m.connection, !.quiet = FALSE]
        BY <1>3, Zenon DEF Observation!StatusSeen
  <2>. HIDE DEF b
  <2>2. b \in Mirrors
        BY <1>1, <2>1 DEF Mirrors
  <2>3. b.ledger = r.ledger /\ Shows(b, r.boot, r.prior, m.seq, m.connection, m.session,
                                     m.accepted, r.episodes)
        BY <2>1 DEF Mirrors, Shows
  <2>4. ~b.quiet
        BY <2>1 DEF Mirrors
  <2>. QED  BY <1>3, <2>2, <2>3, <2>4 DEF b
<1>. QED  BY <1>2, <1>3

LEMMA WasShot ==
    ASSUME StationInv, NEW r \in Mirrors, LedgerSound(r.ledger), NEW m \in Sent
    PROVE  LET b == Observation!ShotSeen(r, m)
           IN  /\ b \in Mirrors /\ ~b.quiet
               /\ LedgerSound(b.ledger)
               /\ Shows(b, r.boot, r.prior, r.seq, Observation!Lifted(r.connection),
                        r.session, r.accepted, r.episodes)
<1>. DEFINE b == Observation!ShotSeen(r, m)
            c == Observation!Lifted(r.connection)
            l == Observation!Ingest(r.ledger, m)
<1>1. c \in Connections
      BY DEF Observation!Lifted, Mirrors, Connections
<1>2. LedgerSound(l) /\ l \in Ledgers
  <2>1. LedgerSound(l)
        BY LedgerIngests
  <2>. HIDE DEF l
  <2>. QED  BY <2>1 DEF LedgerSound
<1>3. b = [r EXCEPT !.connection = Observation!Lifted(@), !.quiet = FALSE,
                    !.ledger = Observation!Ingest(@, m)]
      BY Zenon DEF Observation!ShotSeen
<1>4. b = [r EXCEPT !.connection = c, !.quiet = FALSE, !.ledger = l]
  <2>1. [r EXCEPT !.connection = c, !.quiet = FALSE].ledger = r.ledger
    <3>. HIDE DEF c, l
    <3>. QED  BY DEF Mirrors
  <2>. QED  BY <1>3, <2>1
<1>. HIDE DEF b, c, l
<1>5. b \in Mirrors
      BY <1>1, <1>2, <1>4 DEF Mirrors
<1>6. b.ledger = l /\ Shows(b, r.boot, r.prior, r.seq, c, r.session, r.accepted, r.episodes)
      BY <1>4 DEF Mirrors, Shows
<1>7. ~b.quiet
      BY <1>4 DEF Mirrors
<1>. QED  BY <1>2, <1>5, <1>6, <1>7 DEF b, c

LEMMA WasSilent ==
    ASSUME NEW r \in Mirrors, NEW silent \in BOOLEAN
    PROVE  LET b == Observation!EvaluateLiveness(r, silent)
               told == silent /\ r.connection # "Offline"
           IN  /\ b \in Mirrors
               /\ b.ledger = r.ledger
               /\ r.boot = 0 => b = r
               /\ r.boot # 0 /\ told => Shows(b, r.boot, r.prior, r.seq, "Offline", r.session,
                                             r.accepted, r.episodes + 1)
               /\ r.boot # 0 /\ ~told => Shows(b, r.boot, r.prior, r.seq, r.connection,
                                              r.session, r.accepted, r.episodes)
<1>. DEFINE b == Observation!EvaluateLiveness(r, silent)
            told == silent /\ r.connection # "Offline"
<1>1. CASE r.boot = 0
  <2>1. b = r
        BY <1>1, Zenon DEF Observation!EvaluateLiveness
  <2>. QED  BY <1>1, <2>1
<1>2. CASE r.boot # 0 /\ told
  <2>1. b = [r EXCEPT !.connection = "Offline", !.episodes = @ + 1]
        BY <1>2, Zenon DEF Observation!EvaluateLiveness
  <2>2. b = [r EXCEPT !.connection = "Offline", !.episodes = r.episodes + 1]
        BY <2>1 DEF Mirrors
  <2>3. r.episodes + 1 \in Nat
        BY DEF Mirrors
  <2>. HIDE DEF b
  <2>4. b \in Mirrors
        BY <2>2, <2>3 DEF Mirrors, Connections
  <2>5. b.ledger = r.ledger /\ Shows(b, r.boot, r.prior, r.seq, "Offline", r.session,
                                     r.accepted, r.episodes + 1)
        BY <2>2 DEF Mirrors, Shows
  <2>. QED  BY <1>2, <2>4, <2>5 DEF b
<1>3. CASE r.boot # 0 /\ ~told
  <2>1. b = [r EXCEPT !.quiet = TRUE]
        BY <1>3, Zenon DEF Observation!EvaluateLiveness
  <2>. HIDE DEF b
  <2>2. b \in Mirrors
        BY <2>1 DEF Mirrors
  <2>3. b.ledger = r.ledger /\ Shows(b, r.boot, r.prior, r.seq, r.connection, r.session,
                                     r.accepted, r.episodes)
        BY <2>1 DEF Mirrors, Shows
  <2>. QED  BY <1>3, <2>2, <2>3 DEF b
<1>. QED  BY <1>1, <1>2, <1>3

\* What the mirror shows: of the run it follows the newest heartbeat heard; of
\* a run that it has neither left nor follows, none has been.
MirrorStands(r, reported) ==
    /\ r \in Mirrors /\ LedgerSound(r.ledger)
    /\ reported \in [Boots -> Statuses \cup {[seq |-> 0]}]
    /\ r.boot = 0 => r.prior = {} /\ r.seq = 0
    /\ r.boot # 0 =>
          /\ r.boot \in Boots /\ r.boot \notin r.prior
          /\ r.seq = reported[r.boot].seq
          /\ r.seq > 0 => /\ r.session = reported[r.boot].session
                          /\ r.accepted = reported[r.boot].accepted
                          /\ r.connection \in {reported[r.boot].connection, "Offline", "Online"}
    /\ \A boot \in Boots : boot \notin r.prior /\ boot # r.boot => reported[boot].seq = 0
MirrorInv == MirrorStands(mirror, newest)

\* What a datagram does to the mirror.
Received(b, r, m) ==
    LET follows == r.boot \in {0, m.boot}
        prior == IF follows THEN r.prior ELSE r.prior \cup {r.boot}
        seq == IF follows THEN r.seq ELSE 0
    IN  /\ ~b.quiet
        /\ m.kind = "Status" => m \in Statuses
        /\ m.kind # "Status" \/ m.seq <= seq =>
              \E c \in {r.connection, Observation!Lifted(r.connection)} :
                 Shows(b, m.boot, prior, seq, c, r.session, r.accepted, r.episodes)
        /\ m.kind = "Status" /\ ~(m.seq <= seq) =>
              Shows(b, m.boot, prior, m.seq, m.connection, m.session, m.accepted, r.episodes)
LEMMA DatagramSeen ==
    ASSUME StationInv, NEW r \in Mirrors, LedgerSound(r.ledger), NEW m \in net
    PROVE  LET b == Observation!IngestDatagram(r, m)
           IN  /\ m.boot \in Boots
               /\ b \in Mirrors /\ LedgerSound(b.ledger)
               /\ m.boot # r.boot /\ m.boot \in r.prior => b = r
               /\ ~(m.boot # r.boot /\ m.boot \in r.prior) => Received(b, r, m)
<1>. DEFINE b == Observation!IngestDatagram(r, m)
            a == Observation!ApplyBoot(r, m.boot)
            follows == r.boot \in {0, m.boot}
            prior == IF follows THEN r.prior ELSE r.prior \cup {r.boot}
            seq == IF follows THEN r.seq ELSE 0
<1>1. /\ m.boot \in Boots /\ m.boot \in Nat \ {0}
      /\ m.kind \in {"Status", "Shot", "Announce"}
      /\ m.kind = "Status" => m \in Statuses
      /\ m.kind = "Shot" => m \in Sent
      BY DEF StationInv, Statuses, ShotMessages, Announcements, Boots, Sent
<1>2. CASE m.boot # r.boot /\ m.boot \in r.prior
  <2>1. b = r
        BY <1>2, Zenon DEF Observation!IngestDatagram, Observation!Stale
  <2>. QED  BY <1>1, <1>2, <2>1
<1>3. CASE ~(m.boot # r.boot /\ m.boot \in r.prior)
  <2>1. /\ m.kind = "Announce" => b = Observation!Announced(a)
        /\ m.kind = "Status" => b = Observation!StatusSeen(a, m)
        /\ m.kind = "Shot" => b = Observation!ShotSeen(a, m)
    <3>1. ~Observation!Stale(r, m.boot)
          BY <1>3 DEF Observation!Stale
    <3>. HIDE DEF a
    <3>. QED  BY <3>1 DEF Observation!IngestDatagram, a
  <2>2. a \in Mirrors /\ a.ledger = r.ledger
        /\ Shows(a, m.boot, prior, seq, r.connection, r.session, r.accepted, r.episodes)
        BY <1>1, BootApplied
  <2>3. a.boot = m.boot /\ a.prior = prior /\ a.seq = seq /\ a.connection = r.connection
        /\ a.session = r.session /\ a.accepted = r.accepted /\ a.episodes = r.episodes
        BY <2>2, Zenon DEF Shows
  <2>. HIDE DEF a, b, prior, seq
  <2>4. CASE m.kind = "Announce"
    <3>1. b \in Mirrors /\ ~b.quiet /\ b.ledger = a.ledger
          /\ Shows(b, a.boot, a.prior, a.seq, Observation!Lifted(a.connection), a.session,
                   a.accepted, a.episodes)
          BY <2>1, <2>2, <2>4, WasAnnounced
    <3>2. Shows(b, m.boot, prior, seq, Observation!Lifted(r.connection), r.session,
                r.accepted, r.episodes)
          BY <2>3, <3>1
    <3>. QED  BY <1>1, <1>3, <2>2, <2>4, <3>1, <3>2 DEF b, prior, seq, Received
  <2>5. CASE m.kind = "Status"
    <3>1. /\ b \in Mirrors /\ ~b.quiet /\ b.ledger = a.ledger
          /\ m.seq <= a.seq => Shows(b, a.boot, a.prior, a.seq, a.connection, a.session,
                                     a.accepted, a.episodes)
          /\ ~(m.seq <= a.seq) => Shows(b, a.boot, a.prior, m.seq, m.connection, m.session,
                                        m.accepted, a.episodes)
          BY <1>1, <2>1, <2>2, <2>5, WasStatus
    <3>2. /\ m.seq <= seq => Shows(b, m.boot, prior, seq, r.connection, r.session,
                                   r.accepted, r.episodes)
          /\ ~(m.seq <= seq) => Shows(b, m.boot, prior, m.seq, m.connection, m.session,
                                      m.accepted, r.episodes)
          BY <2>3, <3>1
    <3>. QED  BY <1>1, <1>3, <2>2, <2>5, <3>1, <3>2 DEF b, prior, seq, Received
  <2>6. CASE m.kind = "Shot"
    <3>1. b \in Mirrors /\ ~b.quiet /\ LedgerSound(b.ledger)
          /\ Shows(b, a.boot, a.prior, a.seq, Observation!Lifted(a.connection), a.session,
                   a.accepted, a.episodes)
          BY <1>1, <2>1, <2>2, <2>6, WasShot
    <3>2. Shows(b, m.boot, prior, seq, Observation!Lifted(r.connection), r.session,
                r.accepted, r.episodes)
          BY <2>3, <3>1
    <3>. QED  BY <1>1, <1>3, <2>2, <2>6, <3>1, <3>2 DEF b, prior, seq, Received
  <2>. QED  BY <1>1, <2>4, <2>5, <2>6
<1>. QED  BY <1>2, <1>3

LEMMA LedgerKept ==
    ASSUME NEW l, LedgerSound(l), net \subseteq net'
    PROVE  LedgerSound(l)'
<1>1. Sent \subseteq Sent'
      BY DEF Sent
<1>. QED  BY <1>1 DEF LedgerSound, HoldsFirst

LEMMA MirrorBegins ==
    MirrorStands(Observation!NoRecord, Observation!NothingHeard)
<1>1. {MaxChanges, MaxStatuses, MaxShotsSent, MaxSilences} \subseteq Nat
      BY PartsAssumption DEF Observation!ObservationAssumption
<1>. DEFINE r == Observation!NoRecord
            reported == Observation!NothingHeard
            l == Observation!EmptyLedger(0)
<1>2. LedgerSound(l)
  <2>1. l = Ledger(0, {}, << >>, Clear, {})
        BY Zenon DEF Observation!EmptyLedger, Ledger, Clear
  <2>2. WithConflict(l, Clear) = l
        BY <2>1, LedgerConflict
  <2>3. Clear \in BOOLEAN /\ 0 \in Nat
        BY DEF Clear
  <2>4. LedgerSound(WithConflict(l, Clear))
        BY <2>3, LedgerBegins
  <2>. HIDE DEF l
  <2>. QED  BY <2>2, <2>4
<1>3. r = [boot |-> 0, prior |-> {}, seq |-> 0, connection |-> "Unknown", quiet |-> FALSE,
                session |-> 0, accepted |-> 0, ledger |-> l, episodes |-> 0]
      BY Zenon DEF Observation!NoRecord
<1>. HIDE DEF l, r
<1>4. l \in Ledgers
      BY <1>2 DEF LedgerSound
<1>5. r \in Mirrors
      BY <1>3, <1>4 DEF Mirrors, Connections
<1>6. r.boot = 0 /\ r.prior = {} /\ r.seq = 0 /\ r.ledger = l
      BY <1>3
<1>7. /\ reported \in [Boots -> Statuses \cup {[seq |-> 0]}]
      /\ \A boot \in Boots : reported[boot].seq = 0
      BY DEF Observation!NothingHeard, Boots
<1>. HIDE DEF reported
<1>8. MirrorStands(r, reported)
      BY <1>2, <1>5, <1>6, <1>7 DEF MirrorStands
<1>. QED  BY <1>8 DEF r, reported

LEMMA MirrorReceives ==
    ASSUME StationInv, MirrorInv, Observation!Receive
    PROVE  MirrorInv'
<1>1. PICK m \in net : /\ mirror' = Observation!IngestDatagram(mirror, m)
                       /\ newest' = Observation!Newer(m)
      BY DEF Observation!Receive
<1>. DEFINE follows == mirror.boot \in {0, m.boot}
            prior == IF follows THEN mirror.prior ELSE mirror.prior \cup {mirror.boot}
            seq == IF follows THEN mirror.seq ELSE 0
<1>2. net' = net /\ mirror \in Mirrors /\ LedgerSound(mirror.ledger)
      BY DEF Observation!Receive, MirrorInv, MirrorStands
<1>3. /\ m.boot \in Boots
      /\ mirror' \in Mirrors /\ LedgerSound(mirror'.ledger)
      /\ m.boot # mirror.boot /\ m.boot \in mirror.prior => mirror' = mirror
      /\ ~(m.boot # mirror.boot /\ m.boot \in mirror.prior) => Received(mirror', mirror, m)
      BY <1>1, <1>2, DatagramSeen
<1>4. LedgerSound(mirror.ledger)'
      BY <1>2, <1>3, LedgerKept
<1>5. m.kind = "Status" => m \in Statuses
      BY DEF StationInv, ShotMessages, Announcements
<1>6. /\ newest' \in [Boots -> Statuses \cup {[seq |-> 0]}]
      /\ \A boot \in Boots : boot # m.boot => newest'[boot] = newest[boot]
      /\ m.kind = "Status" /\ m.seq > newest[m.boot].seq => newest'[m.boot] = m
      /\ ~(m.kind = "Status" /\ m.seq > newest[m.boot].seq) => newest' = newest
      BY <1>1, <1>3, <1>5 DEF Observation!Newer, MirrorInv, MirrorStands
<1>. HIDE DEF prior, seq, follows
<1>7. CASE m.boot # mirror.boot /\ m.boot \in mirror.prior
      BY <1>3, <1>4, <1>6, <1>7 DEF MirrorInv, MirrorStands
<1>8. CASE ~(m.boot # mirror.boot /\ m.boot \in mirror.prior)
  <2>0. /\ m.kind # "Status" \/ m.seq <= seq =>
              \E c \in {mirror.connection, Observation!Lifted(mirror.connection)} :
                 Shows(mirror', m.boot, prior, seq, c, mirror.session, mirror.accepted,
                       mirror.episodes)
        /\ m.kind = "Status" /\ ~(m.seq <= seq) =>
              Shows(mirror', m.boot, prior, m.seq, m.connection, m.session, m.accepted,
                    mirror.episodes)
        BY <1>3, <1>8 DEF Received, prior, seq, follows
  <2>1. mirror'.boot = m.boot /\ mirror'.prior = prior
        BY <2>0 DEF Shows
  <2>2. m.boot # 0 /\ m.boot \notin prior /\ seq = newest[m.boot].seq
    <3>1. m.boot # 0
          BY <1>3 DEF Boots
    <3>2. CASE mirror.boot = 0
          BY <1>3, <3>1, <3>2 DEF MirrorInv, MirrorStands, prior, seq, follows
    <3>3. CASE mirror.boot = m.boot
          BY <1>3, <3>1, <3>3 DEF MirrorInv, MirrorStands, prior, seq, follows
    <3>4. CASE mirror.boot # 0 /\ mirror.boot # m.boot
          BY <1>3, <1>8, <3>1, <3>4 DEF MirrorInv, MirrorStands, prior, seq, follows
    <3>. QED  BY <3>2, <3>3, <3>4
  <2>3. \A boot \in Boots : boot \notin mirror'.prior /\ boot # mirror'.boot => newest'[boot].seq = 0
    <3>1. SUFFICES ASSUME NEW boot \in Boots, boot \notin prior, boot # m.boot
                   PROVE  newest[boot].seq = 0
          BY <1>6, <2>1
    <3>2. boot # mirror.boot /\ boot \notin mirror.prior
          BY <3>1 DEF prior, follows, Boots
    <3>. QED  BY <3>2 DEF MirrorInv, MirrorStands
  <2>4. CASE m.kind # "Status" \/ m.seq <= seq
    <3>1. newest' = newest
      <4>1. m.kind = "Status" => m.seq \in Nat /\ m.seq <= seq
            BY <1>5, <2>4 DEF Statuses
      <4>2. seq \in Nat
            BY DEF MirrorInv, MirrorStands, Mirrors, seq
      <4>. QED  BY <1>6, <2>2, <4>1, <4>2
    <3>2. PICK c \in {mirror.connection, Observation!Lifted(mirror.connection)} :
             Shows(mirror', m.boot, prior, seq, c, mirror.session, mirror.accepted,
                   mirror.episodes)
          BY <2>0, <2>4
    <3>3. seq > 0 => follows /\ mirror.boot = m.boot /\ mirror.seq = seq
          BY DEF MirrorInv, MirrorStands, seq, follows
    <3>4. seq > 0 => c \in {newest[m.boot].connection, "Offline", "Online"}
          BY <3>2, <3>3, <2>2 DEF MirrorInv, MirrorStands, Observation!Lifted
    <3>5. /\ mirror'.seq = newest'[mirror'.boot].seq
          /\ mirror'.seq > 0 =>
                /\ mirror'.session = newest'[mirror'.boot].session
                /\ mirror'.accepted = newest'[mirror'.boot].accepted
                /\ mirror'.connection \in {newest'[mirror'.boot].connection, "Offline", "Online"}
          BY <2>1, <2>2, <3>1, <3>2, <3>3, <3>4 DEF MirrorInv, MirrorStands, Shows
    <3>. QED  BY <1>3, <1>4, <1>6, <2>1, <2>2, <2>3, <3>5 DEF MirrorInv, MirrorStands
  <2>5. CASE m.kind = "Status" /\ ~(m.seq <= seq)
    <3>1. m.seq \in Nat /\ newest[m.boot].seq \in Nat
          BY <1>3, <1>5, <2>5 DEF Statuses, MirrorInv, MirrorStands
    <3>2. newest'[m.boot] = m
          BY <1>6, <2>2, <2>5, <3>1
    <3>3. Shows(mirror', m.boot, prior, m.seq, m.connection, m.session, m.accepted,
                mirror.episodes)
          BY <2>0, <2>5
    <3>4. /\ mirror'.seq = newest'[mirror'.boot].seq
          /\ mirror'.session = newest'[mirror'.boot].session
          /\ mirror'.accepted = newest'[mirror'.boot].accepted
          /\ mirror'.connection = newest'[mirror'.boot].connection
          BY <2>1, <3>2, <3>3 DEF Shows
    <3>. QED  BY <1>3, <1>4, <1>6, <2>1, <2>2, <2>3, <3>4 DEF MirrorInv, MirrorStands
  <2>. QED  BY <2>4, <2>5
<1>. QED  BY <1>7, <1>8

LEMMA MirrorStep ==
    ASSUME StationInv, MirrorInv, Observation!Next
    PROVE  MirrorInv'
<1>1. CASE /\ UNCHANGED <<mirror, newest>> /\ net \subseteq net'
  <2>1. LedgerSound(mirror.ledger)'
        BY <1>1, LedgerKept DEF MirrorInv, MirrorStands
  <2>. QED  BY <1>1, <2>1 DEF MirrorInv, MirrorStands
<1>2. CASE Observation!Receive
      BY <1>2, MirrorReceives
<1>3. CASE Observation!Tick
  <2>1. PICK silent \in BOOLEAN : mirror' = Observation!EvaluateLiveness(mirror, silent)
        BY <1>3 DEF Observation!Tick
  <2>2. newest' = newest /\ net' = net
        BY <1>3 DEF Observation!Tick
  <2>3. /\ mirror' \in Mirrors /\ mirror'.ledger = mirror.ledger
        /\ mirror.boot = 0 => mirror' = mirror
        /\ mirror.boot # 0 => \E c \in {"Offline", mirror.connection}, e \in Nat :
              Shows(mirror', mirror.boot, mirror.prior, mirror.seq, c, mirror.session,
                    mirror.accepted, e)
    <3>1. mirror.episodes \in Nat /\ mirror.episodes + 1 \in Nat /\ mirror \in Mirrors
          BY DEF MirrorInv, MirrorStands, Mirrors
    <3>. QED  BY <2>1, <3>1, WasSilent
  <2>4. LedgerSound(mirror.ledger)'
        BY <2>2, <2>3, LedgerKept DEF MirrorInv, MirrorStands
  <2>5. CASE mirror.boot = 0
        BY <2>2, <2>3, <2>4, <2>5 DEF MirrorInv, MirrorStands
  <2>6. CASE mirror.boot # 0
    <3>1. PICK c \in {"Offline", mirror.connection}, e \in Nat :
              Shows(mirror', mirror.boot, mirror.prior, mirror.seq, c, mirror.session,
                    mirror.accepted, e)
          BY <2>3, <2>6
    <3>. QED  BY <2>2, <2>3, <2>4, <2>6, <3>1 DEF MirrorInv, MirrorStands, Shows
  <2>. QED  BY <2>5, <2>6
<1>4. CASE Observation!RmsRestarts
  <2>1. /\ mirror' = Observation!NoRecord /\ newest' = Observation!NothingHeard
        BY <1>4 DEF Observation!RmsRestarts
  <2>2. net' = net
        BY <1>4 DEF Observation!RmsRestarts
  <2>3. MirrorStands(mirror', newest')
        BY <2>1, MirrorBegins
  <2>4. LedgerSound(mirror.ledger)'
        BY <2>2, <2>3, LedgerKept DEF MirrorStands
  <2>. QED  BY <2>3, <2>4 DEF MirrorInv, MirrorStands
<1>. QED  BY <1>1, <1>2, <1>3, <1>4
          DEF Observation!Next, Observation!EmitStatus, Observation!EmitShot,
              Observation!SessionStarts, Observation!NodeRestarts, Observation!Send,
              Observation!StartLog, Observation!StopLog

ObservedInv == StationInv /\ MirrorInv

LEMMA ObservedInvInductive == Spec => []ObservedInv
<1>1. Init => ObservedInv
  <2>1. Init => StationInv
    <3>1. 1 \in Boots
          BY PartsAssumption DEF Observation!ObservationAssumption, Boots
    <3>. QED  BY <3>1 DEF Init, Observation!Init, Observation!Announcement, StationInv,
                         Announcements
  <2>2. Init => mirror = Observation!NoRecord /\ newest = Observation!NothingHeard
        BY DEF Init, Observation!Init
  <2>. QED  BY <2>1, <2>2, MirrorBegins DEF ObservedInv, MirrorInv
<1>2. ObservedInv /\ [Next]_vars => ObservedInv'
  <2>1. Next => Observation!Next \/ UNCHANGED observationVars
        BY DEF Next
  <2>2. ObservedInv /\ UNCHANGED observationVars => ObservedInv'
    <3>1. ObservedInv /\ UNCHANGED observationVars => LedgerSound(mirror.ledger)'
          BY LedgerKept DEF observationVars, ObservedInv, MirrorInv, MirrorStands
    <3>. QED  BY <3>1 DEF observationVars, ObservedInv, StationInv, MirrorInv, MirrorStands
  <2>. QED  BY <2>1, <2>2, StationStep, MirrorStep DEF vars, ObservedInv
<1>. QED  BY <1>1, <1>2, PTL DEF Spec

LEMMA MirrorTrue ==
    ASSUME MirrorInv
    PROVE  ObservedTrue
<1>1. Observation!NewestShown
      BY DEF MirrorInv, MirrorStands, Observation!NewestShown
<1>2. Observation!LedgerHonest
  <2>. DEFINE l == mirror.ledger
              numbers == {m.number : m \in l.offered}
  <2>1. HoldsFirst(l.ids, l.slots, l.conflict, l.offered)
        BY DEF MirrorInv, MirrorStands, LedgerSound
  <2>2. l.conflict \in BOOLEAN
        BY DEF MirrorInv, MirrorStands, LedgerSound, Ledgers
  <2>3. DOMAIN l.slots = numbers /\ l.ids = {l.slots[n] : n \in DOMAIN l.slots}
        BY <2>1 DEF HoldsFirst
  <2>4. Observation!MissingSequences(l) \cap numbers = {}
        BY <2>3 DEF Observation!MissingSequences
  <2>5. Observation!Range(l.slots) = l.ids
        BY <2>3 DEF Observation!Range, Range
  <2>6. \A m \in l.offered : l.slots[m.number] # m.id => l.conflict
        BY <2>1, <2>2 DEF HoldsFirst
  <2>. QED  BY <2>3, <2>4, <2>5, <2>6, Zenon DEF Observation!LedgerHonest
<1>. QED  BY <1>1, <1>2 DEF ObservedTrue, Observation!ObservedTrue

\* Whatever datagrams are lost, doubled, reordered or late, across restarts of
\* the station and of the program: of the run that it follows the mirror shows
\* the newest heartbeat heard, a run that it has left does not come back, and
\* the ledger holds exactly the first shot heard under each number.
THEOREM MirrorIsTrue == Spec => []ObservedTrue
<1>1. ObservedInv => ObservedTrue
      BY MirrorTrue DEF ObservedInv
<1>. QED  BY <1>1, ObservedInvInductive, PTL
-----------------------------------------------------------------------------
(* What the field-test log tells.                                          *)

Snaps == [boot : Nat, connection : Connections, worst : Nat]
Logs == [active : BOOLEAN, boot : Nat, connection : Connections \cup {"Untold"}, worst : Nat,
         offlines : Nat, carried : Nat, begun : Nat]
Tells(l, boot, connection, worst, offlines, carried, begun) ==
    /\ l.boot = boot /\ l.connection = connection /\ l.worst = worst
    /\ l.offlines = offlines /\ l.carried = carried /\ l.begun = begun

\* Of what its reader may conclude from a log, with a snapshot s taken last.
LogTrue(l, s, episodes) ==
    /\ l.connection \in {"Untold", s.connection} /\ l.boot \in {0, s.boot}
    /\ l.begun + l.offlines = episodes
    /\ l.worst <= s.worst
    /\ l.worst < s.worst => s.worst <= l.carried
    /\ s.boot = 0 => l.connection = "Untold" /\ l.boot = 0

\* The snapshot has seen the silence that the mirror shows, and the last tick.
TimelineInv ==
    /\ snap \in Snaps
    /\ snap.boot = 0 => snap.worst = 0
    /\ snap.boot # 0 => mirror.boot # 0
    /\ mirror.boot = 0 => mirror.accepted = 0 /\ ~mirror.quiet /\ mirror.connection # "Offline"
    /\ mirror.connection = "Offline" => snap.boot # 0 /\ snap.connection = "Offline"
    /\ mirror.quiet => snap.boot # 0 /\ snap.connection = mirror.connection
    /\ \/ log = Observation!Unlogged
       \/ log \in Logs /\ log.active /\ LogTrue(log, snap, mirror.episodes)

LEMMA GreaterOfTwo ==
    ASSUME NEW x \in Int, NEW y \in Int
    PROVE  Observation!Max({x, y}) = IF x >= y THEN x ELSE y
BY DEF Observation!Max, Max

LEMMA UnseenIsNat ==
    ASSUME NEW r \in Mirrors, LedgerSound(r.ledger)
    PROVE  /\ Observation!Unseen(r) \in Nat
           /\ r.accepted = 0 => Observation!Unseen(r) = 0
<1>. DEFINE held == Cardinality(DOMAIN r.ledger.slots)
<1>1. IsFiniteSet(DOMAIN r.ledger.slots)
      BY DEF LedgerSound, HoldsFirst
<1>2. held \in Nat /\ r.accepted \in Nat
      BY <1>1, FS_CardinalityType DEF Mirrors
<1>. HIDE DEF held
<1>3. Observation!Max({0, r.accepted - held}) = IF 0 >= r.accepted - held THEN 0 ELSE r.accepted - held
      BY <1>2, GreaterOfTwo
<1>4. Observation!Unseen(r) = Observation!Max({0, r.accepted - held})
      BY DEF Observation!Unseen, held, Observation!Cardinality, Cardinality
<1>. QED  BY <1>2, <1>3, <1>4

LEMMA WorstIs ==
    ASSUME NEW r \in Mirrors, LedgerSound(r.ledger), snap \in Snaps
    PROVE  /\ Observation!Worst(r) \in Nat
           /\ Observation!Unseen(r) = 0 => Observation!Worst(r) = 0
           /\ Observation!Unseen(r) > 0 =>
                 Observation!Worst(r) = IF snap.worst >= Observation!Unseen(r) THEN snap.worst
                                        ELSE Observation!Unseen(r)
<1>. DEFINE unseen == Observation!Unseen(r)
<1>1. unseen \in Nat /\ snap.worst \in Nat
      BY UnseenIsNat DEF Snaps
<1>2. Observation!Worst(r) = IF unseen = 0 THEN 0 ELSE Observation!Max({snap.worst, unseen})
      BY DEF Observation!Worst
<1>. HIDE DEF unseen
<1>3. Observation!Max({snap.worst, unseen}) = IF snap.worst >= unseen THEN snap.worst ELSE unseen
      BY <1>1, GreaterOfTwo
<1>4. /\ Observation!Worst(r) \in Nat
      /\ unseen = 0 => Observation!Worst(r) = 0
      /\ unseen > 0 => Observation!Worst(r) = IF snap.worst >= unseen THEN snap.worst ELSE unseen
      BY <1>1, <1>2, <1>3
<1>. QED  BY <1>4 DEF unseen

\* The records of one poll.
LEMMA PollLogs ==
    ASSUME NEW l \in Logs, NEW r \in Mirrors, LedgerSound(r.ledger), snap \in Snaps
    PROVE  LET got == Observation!Logged(l, r)
               unseen == Observation!Unseen(r)
           IN  /\ got \in Logs /\ got.active = l.active
               /\ \E worst \in Nat :
                     /\ unseen > snap.worst => worst = unseen
                     /\ ~(unseen > snap.worst) /\ unseen = 0 /\ snap.worst > 0 => worst = 0
                     /\ ~(unseen > snap.worst) /\ ~(unseen = 0 /\ snap.worst > 0) => worst = l.worst
                     /\ Tells(got, IF snap.boot # r.boot THEN r.boot ELSE l.boot,
                              IF snap.connection # r.connection THEN r.connection
                              ELSE l.connection,
                              worst,
                              IF snap.connection # r.connection /\ r.connection = "Offline"
                              THEN l.offlines + 1 ELSE l.offlines,
                              l.carried, l.begun)
<1>. DEFINE unseen == Observation!Unseen(r)
            boot == IF snap.boot # r.boot THEN r.boot ELSE l.boot
            connection == IF snap.connection # r.connection THEN r.connection ELSE l.connection
            offlines == IF snap.connection # r.connection /\ r.connection = "Offline"
                        THEN l.offlines + 1 ELSE l.offlines
            worst == CASE unseen > snap.worst -> unseen
                       [] unseen = 0 /\ snap.worst > 0 -> 0
                       [] OTHER -> l.worst
            got == Observation!Logged(l, r)
            most == [l EXCEPT !.connection = connection, !.offlines = offlines, !.worst = worst]
<1>1. unseen \in Nat /\ snap.worst \in Nat
      BY UnseenIsNat DEF Snaps
<1>. HIDE DEF unseen
<1>2. /\ boot \in Nat /\ connection \in Connections \cup {"Untold"} /\ offlines \in Nat
      /\ l.carried \in Nat /\ l.begun \in Nat /\ l.worst \in Nat /\ l.active \in BOOLEAN
      BY DEF Logs, Mirrors, Snaps
<1>3. /\ unseen > snap.worst => worst = unseen
      /\ ~(unseen > snap.worst) /\ unseen = 0 /\ snap.worst > 0 => worst = 0
      /\ ~(unseen > snap.worst) /\ ~(unseen = 0 /\ snap.worst > 0) => worst = l.worst
      BY <1>1
<1>4. worst \in Nat
      BY <1>1, <1>2, <1>3
<1>5. Observation!LoggedButBoot(l, r) = most
      BY DEF Observation!LoggedButBoot, Logs, unseen
<1>6. got = [Observation!LoggedButBoot(l, r) EXCEPT
                !.boot = IF snap.boot # r.boot THEN r.boot ELSE @]
      BY Zenon DEF Observation!Logged
<1>. HIDE DEF worst, connection, offlines, got
<1>7. most \in Logs /\ most.boot = l.boot /\ most.active = l.active
      BY <1>2, <1>4 DEF Logs
<1>8. got = [most EXCEPT !.boot = boot]
      BY <1>5, <1>6, <1>7
<1>. HIDE DEF boot
<1>9. Tells(most, l.boot, connection, worst, offlines, l.carried, l.begun)
      BY <1>2 DEF Tells, Logs
<1>. HIDE DEF most
<1>10. got \in Logs /\ got.active = most.active
      BY <1>2, <1>7, <1>8 DEF Logs
<1>11. Tells(got, boot, connection, worst, offlines, l.carried, l.begun)
      BY <1>7, <1>8, <1>9 DEF Tells, Logs
<1>. QED  BY <1>3, <1>4, <1>7, <1>10, <1>11 DEF unseen, boot, connection, offlines, got

LEMMA SnapTaken ==
    ASSUME NEW l, NEW r \in Mirrors, LedgerSound(r.ledger), snap \in Snaps, Observation!Poll(l, r)
    PROVE  /\ snap' \in Snaps
           /\ r.boot = 0 => snap' = snap
           /\ r.boot # 0 => /\ snap'.boot = r.boot /\ snap'.connection = r.connection
                            /\ snap'.worst = Observation!Worst(r)
<1>1. Observation!Worst(r) \in Nat /\ r.boot \in Nat /\ r.connection \in Connections
      BY WorstIs DEF Mirrors
<1>2. snap' = IF r.boot = 0 THEN snap
              ELSE [boot |-> r.boot, connection |-> r.connection, worst |-> Observation!Worst(r)]
      BY DEF Observation!Poll, Observation!SnapshotOf
<1>. QED  BY <1>1, <1>2 DEF Snaps

LEMMA LogPolled ==
    ASSUME NEW l \in Logs, l.active, NEW r \in Mirrors, LedgerSound(r.ledger), snap \in Snaps,
           Observation!Poll(l, r)
    PROVE  /\ log' \in Logs /\ log'.active
           /\ snap.boot = 0 => Tells(log', l.boot, l.connection, l.worst, l.offlines,
                                     Observation!Worst(r), l.begun)
           /\ snap.boot # 0 => log' = Observation!Logged(l, r)
<1>1. Observation!Worst(r) \in Nat
      BY WorstIs
<1>2. CASE snap.boot = 0
  <2>1. log' = [l EXCEPT !.carried = Observation!Worst(r)]
        BY <1>2 DEF Observation!Poll
  <2>2. log' \in Logs /\ log'.active = l.active
        BY <1>1, <2>1 DEF Logs
  <2>3. Tells(log', l.boot, l.connection, l.worst, l.offlines, Observation!Worst(r), l.begun)
        BY <1>1, <2>1 DEF Logs, Tells
  <2>. QED  BY <1>2, <2>2, <2>3
<1>3. CASE snap.boot # 0
  <2>1. log' = Observation!Logged(l, r)
        BY <1>3 DEF Observation!Poll
  <2>. QED  BY <1>3, <2>1, PollLogs
<1>. QED  BY <1>2, <1>3

\* A log that was true stays so with the records of a poll.
LEMMA PollKeepsTrue ==
    ASSUME NEW l \in Logs, l.active, NEW r \in Mirrors, LedgerSound(r.ledger), snap \in Snaps,
           snap.boot = 0 => snap.worst = 0, snap.boot # 0 => r.boot # 0,
           NEW episodes \in Nat, LogTrue(l, snap, episodes), Observation!Poll(l, r),
           snap.boot = 0 => r.connection # "Offline" /\ r.episodes = episodes,
           snap.boot # 0 => r.episodes = IF snap.connection # r.connection
                                            /\ r.connection = "Offline"
                                         THEN episodes + 1 ELSE episodes
    PROVE  LogTrue(log', snap', r.episodes)
<1>. DEFINE worst == Observation!Worst(r)
            unseen == Observation!Unseen(r)
<1>1. /\ worst \in Nat /\ unseen \in Nat /\ snap.worst \in Nat /\ l.worst \in Nat
      /\ unseen = 0 => worst = 0
      /\ unseen > 0 => worst = IF snap.worst >= unseen THEN snap.worst ELSE unseen
      BY WorstIs, UnseenIsNat DEF Snaps, Logs
<1>2. /\ r.boot = 0 => snap' = snap
      /\ r.boot # 0 => snap'.boot = r.boot /\ snap'.connection = r.connection /\ snap'.worst = worst
      BY SnapTaken
<1>3. /\ snap.boot = 0 => Tells(log', l.boot, l.connection, l.worst, l.offlines, worst, l.begun)
      /\ snap.boot # 0 => log' = Observation!Logged(l, r)
      BY LogPolled
<1>. HIDE DEF worst
<1>4. CASE snap.boot = 0
  <2>1. l.worst = 0 /\ l.connection = "Untold" /\ l.boot = 0
        BY <1>1, <1>4 DEF LogTrue
  <2>2. log'.connection = "Untold" /\ log'.boot = 0 /\ log'.worst = 0 /\ log'.carried = worst
        /\ log'.begun = l.begun /\ log'.offlines = l.offlines
        BY <1>3, <1>4, <2>1 DEF Tells
  <2>3. snap'.worst \in {0, worst}
        BY <1>2, <1>4
  <2>. QED  BY <1>1, <1>4, <2>2, <2>3 DEF LogTrue
<1>5. CASE snap.boot # 0
  <2>1. PICK w \in Nat :
           /\ unseen > snap.worst => w = unseen
           /\ ~(unseen > snap.worst) /\ unseen = 0 /\ snap.worst > 0 => w = 0
           /\ ~(unseen > snap.worst) /\ ~(unseen = 0 /\ snap.worst > 0) => w = l.worst
           /\ Tells(log', IF snap.boot # r.boot THEN r.boot ELSE l.boot,
                    IF snap.connection # r.connection THEN r.connection ELSE l.connection,
                    w,
                    IF snap.connection # r.connection /\ r.connection = "Offline"
                    THEN l.offlines + 1 ELSE l.offlines,
                    l.carried, l.begun)
        BY <1>3, <1>5, PollLogs
  <2>2. snap'.boot = r.boot /\ snap'.connection = r.connection /\ snap'.worst = worst /\ r.boot # 0
        BY <1>2, <1>5
  <2>. HIDE DEF unseen
  <2>3. log'.worst = w /\ log'.carried = l.carried /\ l.carried \in Nat
        BY <2>1 DEF Tells, Logs
  <2>4. w <= worst
        BY <1>1, <2>1 DEF LogTrue
  <2>5. w < worst => worst <= l.carried
        BY <1>1, <2>1 DEF LogTrue
  <2>6. log'.begun + log'.offlines = r.episodes
        BY <1>5, <2>1 DEF Tells, LogTrue, Logs
  <2>7. log'.connection \in {"Untold", r.connection} /\ log'.boot \in {0, r.boot}
        BY <2>1 DEF Tells, LogTrue
  <2>. QED  BY <2>2, <2>3, <2>4, <2>5, <2>6, <2>7 DEF LogTrue
<1>. QED  BY <1>4, <1>5

LEMMA TimelineBegins ==
    /\ Observation!NoRecord.boot = 0 /\ Observation!NoRecord.accepted = 0
    /\ Observation!NoRecord.connection = "Unknown" /\ ~Observation!NoRecord.quiet
    /\ Observation!NoSnapshot \in Snaps /\ Observation!NoSnapshot.boot = 0
    /\ Observation!NoSnapshot.worst = 0
<1>1. /\ Observation!NoRecord.boot = 0 /\ Observation!NoRecord.accepted = 0
      /\ Observation!NoRecord.connection = "Unknown" /\ ~Observation!NoRecord.quiet
  <2>. DEFINE l == Observation!EmptyLedger(0)
  <2>1. Observation!NoRecord = [boot |-> 0, prior |-> {}, seq |-> 0, connection |-> "Unknown",
                                quiet |-> FALSE, session |-> 0, accepted |-> 0, ledger |-> l,
                                episodes |-> 0]
        BY Zenon DEF Observation!NoRecord
  <2>. HIDE DEF l
  <2>. QED  BY <2>1
<1>2. /\ Observation!NoSnapshot \in Snaps /\ Observation!NoSnapshot.boot = 0
      /\ Observation!NoSnapshot.worst = 0
      BY DEF Observation!NoSnapshot, Snaps, Connections
<1>. QED  BY <1>1, <1>2

LEMMA TimelineReceives ==
    ASSUME StationInv, MirrorInv, TimelineInv, Observation!Receive
    PROVE  TimelineInv'
<1>1. PICK m \in net : mirror' = Observation!IngestDatagram(mirror, m)
      BY DEF Observation!Receive
<1>2. snap' = snap /\ log' = log /\ mirror \in Mirrors /\ LedgerSound(mirror.ledger)
      BY DEF Observation!Receive, MirrorInv, MirrorStands
<1>3. /\ m.boot \in Boots
      /\ mirror' = mirror \/ Received(mirror', mirror, m)
      BY <1>1, <1>2, DatagramSeen
<1>4. CASE mirror' = mirror
      BY <1>2, <1>4 DEF TimelineInv
<1>5. CASE Received(mirror', mirror, m)
  <2>1. /\ mirror'.boot = m.boot /\ ~mirror'.quiet /\ mirror'.episodes = mirror.episodes
        /\ mirror'.connection = mirror.connection \/ mirror'.connection # "Offline"
    <3>1. m.kind = "Status" => m.seq \in Nat /\ m.connection # "Offline"
          BY <1>5 DEF Received, Statuses
    <3>2. Observation!Lifted(mirror.connection) # "Offline"
          BY DEF Observation!Lifted
    <3>. QED  BY <1>5, <3>1, <3>2 DEF Received, Shows
  <2>2. mirror'.boot # 0
        BY <1>3, <2>1 DEF Boots
  <2>. QED  BY <1>2, <2>1, <2>2 DEF TimelineInv
<1>. QED  BY <1>3, <1>4, <1>5

LEMMA TimelineTicks ==
    ASSUME MirrorInv, TimelineInv, Observation!Tick
    PROVE  TimelineInv'
<1>1. PICK silent \in BOOLEAN : /\ silent => mirror.quiet
                                /\ mirror' = Observation!EvaluateLiveness(mirror, silent)
      BY DEF Observation!Tick
<1>2. Observation!Poll(log, mirror') /\ mirror \in Mirrors /\ LedgerSound(mirror.ledger)
      BY DEF Observation!Tick, MirrorInv, MirrorStands
<1>3. /\ mirror' \in Mirrors /\ LedgerSound(mirror'.ledger)
      /\ mirror.boot = 0 => mirror' = mirror
      /\ mirror.boot # 0 /\ silent /\ mirror.connection # "Offline" =>
            Shows(mirror', mirror.boot, mirror.prior, mirror.seq, "Offline", mirror.session,
                  mirror.accepted, mirror.episodes + 1)
      /\ mirror.boot # 0 /\ ~(silent /\ mirror.connection # "Offline") =>
            Shows(mirror', mirror.boot, mirror.prior, mirror.seq, mirror.connection,
                  mirror.session, mirror.accepted, mirror.episodes)
      BY <1>1, <1>2, WasSilent
<1>4. /\ snap' \in Snaps
      /\ mirror'.boot = 0 => snap' = snap
      /\ mirror'.boot # 0 => /\ snap'.boot = mirror'.boot
                            /\ snap'.connection = mirror'.connection
      BY <1>2, <1>3, SnapTaken DEF TimelineInv
<1>5. mirror'.boot = mirror.boot
      BY <1>3 DEF Shows
<1>6. /\ snap'.boot = 0 => snap'.worst = 0
      /\ snap'.boot # 0 => mirror'.boot # 0
      /\ mirror'.boot = 0 => /\ mirror'.accepted = 0 /\ ~mirror'.quiet
                            /\ mirror'.connection # "Offline"
      /\ mirror'.connection = "Offline" => snap'.boot # 0 /\ snap'.connection = "Offline"
      /\ mirror'.quiet => snap'.boot # 0 /\ snap'.connection = mirror'.connection
      BY <1>3, <1>4, <1>5 DEF TimelineInv
<1>7. CASE log = Observation!Unlogged
  <2>1. ~log.active
        BY <1>7, Zenon DEF Observation!Unlogged
  <2>2. log' = log
        BY <1>2, <2>1 DEF Observation!Poll
  <2>. QED  BY <1>4, <1>6, <1>7, <2>2 DEF TimelineInv, Observation!Unlogged
<1>8. CASE log \in Logs /\ log.active /\ LogTrue(log, snap, mirror.episodes)
  <2>1. log' \in Logs /\ log'.active
        BY <1>2, <1>3, <1>8, LogPolled DEF TimelineInv
  <2>2. mirror.episodes \in Nat
        BY <1>2 DEF Mirrors
  <2>3. snap.boot = 0 => mirror'.connection # "Offline" /\ mirror'.episodes = mirror.episodes
        BY <1>1, <1>3 DEF TimelineInv, Shows
  <2>4. snap.boot # 0 => mirror'.episodes = IF snap.connection # mirror'.connection
                                               /\ mirror'.connection = "Offline"
                                            THEN mirror.episodes + 1 ELSE mirror.episodes
        BY <1>1, <1>3 DEF TimelineInv, Shows
  <2>5. snap \in Snaps /\ (snap.boot = 0 => snap.worst = 0) /\ (snap.boot # 0 => mirror'.boot # 0)
        BY <1>5 DEF TimelineInv
  <2>6. LogTrue(log', snap', mirror'.episodes)
        BY <1>2, <1>3, <1>8, <2>2, <2>3, <2>4, <2>5, PollKeepsTrue
  <2>7. LogTrue(log, snap, mirror.episodes)'
        BY <2>6 DEF LogTrue
  <2>. QED  BY <1>4, <1>6, <2>1, <2>7 DEF TimelineInv
<1>. QED  BY <1>7, <1>8 DEF TimelineInv

LEMMA TimelineStarts ==
    ASSUME MirrorInv, TimelineInv, Observation!StartLog
    PROVE  TimelineInv'
<1>. DEFINE connection == IF mirror.boot = 0 THEN "Untold" ELSE mirror.connection
            unseen == Observation!Unseen(mirror)
            l == [active |-> TRUE, boot |-> mirror.boot, connection |-> connection,
                  worst |-> unseen, offlines |-> 0, carried |-> snap.worst,
                  begun |-> mirror.episodes]
<1>1. Observation!Poll(l, mirror) /\ mirror' = mirror
      BY DEF Observation!StartLog
<1>2. /\ mirror \in Mirrors /\ LedgerSound(mirror.ledger) /\ snap \in Snaps
      /\ mirror.boot \in Nat /\ connection \in Connections \cup {"Untold"} /\ unseen \in Nat
      /\ snap.worst \in Nat /\ mirror.episodes \in Nat /\ mirror.accepted \in Nat
  <2>1. mirror \in Mirrors /\ LedgerSound(mirror.ledger) /\ snap \in Snaps
        BY DEF MirrorInv, MirrorStands, TimelineInv
  <2>. QED  BY <2>1, UnseenIsNat DEF Mirrors, Snaps
<1>3. mirror.boot = 0 => unseen = 0
      BY <1>2, UnseenIsNat DEF TimelineInv
<1>. HIDE DEF unseen, connection
<1>4. /\ l \in Logs
      /\ Tells(l, mirror.boot, connection, unseen, 0, snap.worst, mirror.episodes)
      BY <1>2 DEF Logs, Tells
<1>5. l.active
      BY Zenon
<1>. HIDE DEF l
<1>. DEFINE worst == Observation!Worst(mirror)
<1>6. /\ worst \in Nat
      /\ unseen = 0 => worst = 0
      /\ unseen > 0 => worst = IF snap.worst >= unseen THEN snap.worst ELSE unseen
      BY <1>2, WorstIs DEF unseen
<1>7. /\ snap' \in Snaps
      /\ mirror.boot = 0 => snap' = snap
      /\ mirror.boot # 0 => /\ snap'.boot = mirror.boot
                           /\ snap'.connection = mirror.connection
                           /\ snap'.worst = worst
      BY <1>1, <1>2, SnapTaken
<1>8. /\ log' \in Logs /\ log'.active
      /\ snap.boot = 0 => Tells(log', l.boot, l.connection, l.worst, l.offlines, worst, l.begun)
      /\ snap.boot # 0 => log' = Observation!Logged(l, mirror)
      BY <1>1, <1>2, <1>4, <1>5, LogPolled
<1>. HIDE DEF worst
<1>9. LogTrue(log', snap', mirror.episodes)
  <2>1. CASE snap.boot = 0
    <3>1. /\ log'.boot = mirror.boot /\ log'.connection = connection /\ log'.worst = unseen
          /\ log'.offlines = 0 /\ log'.carried = worst /\ log'.begun = mirror.episodes
          BY <1>4, <1>8, <2>1 DEF Tells
    <3>2. snap.worst = 0 /\ unseen <= worst
          BY <1>2, <1>6, <2>1 DEF TimelineInv
    <3>3. CASE mirror.boot = 0
          BY <1>2, <1>3, <1>7, <2>1, <3>1, <3>2, <3>3 DEF LogTrue, connection
    <3>4. CASE mirror.boot # 0
          BY <1>2, <1>6, <1>7, <3>1, <3>2, <3>4 DEF LogTrue, connection
    <3>. QED  BY <3>3, <3>4
  <2>2. CASE snap.boot # 0
    <3>1. PICK w \in Nat :
             /\ unseen > snap.worst => w = unseen
             /\ ~(unseen > snap.worst) /\ unseen = 0 /\ snap.worst > 0 => w = 0
             /\ ~(unseen > snap.worst) /\ ~(unseen = 0 /\ snap.worst > 0) => w = l.worst
             /\ Tells(log', IF snap.boot # mirror.boot THEN mirror.boot ELSE l.boot,
                      IF snap.connection # mirror.connection THEN mirror.connection
                      ELSE l.connection,
                      w,
                      IF snap.connection # mirror.connection /\ mirror.connection = "Offline"
                      THEN l.offlines + 1 ELSE l.offlines,
                      l.carried, l.begun)
          BY <1>2, <1>4, <1>8, <2>2, PollLogs DEF unseen
    <3>2. mirror.boot # 0
          BY <2>2 DEF TimelineInv
    <3>3. /\ l.boot = mirror.boot /\ l.connection = mirror.connection /\ l.worst = unseen
          /\ l.offlines = 0 /\ l.carried = snap.worst /\ l.begun = mirror.episodes
          BY <1>4, <3>2 DEF Tells, connection
    <3>4. /\ log'.boot = mirror.boot /\ log'.connection = mirror.connection /\ log'.worst = w
          /\ log'.carried = snap.worst /\ log'.begun = mirror.episodes
          BY <3>1, <3>3 DEF Tells
    <3>5. log'.offlines = 0
          BY <3>1, <3>3 DEF Tells, TimelineInv
    <3>6. w <= worst /\ (w < worst => worst <= snap.worst)
          BY <1>2, <1>6, <3>1, <3>3
    <3>. QED  BY <1>2, <1>7, <3>2, <3>4, <3>5, <3>6 DEF LogTrue
  <2>. QED  BY <2>1, <2>2
<1>10. LogTrue(log, snap, mirror.episodes)'
      BY <1>1, <1>9 DEF LogTrue
<1>11. /\ snap'.boot = 0 => snap'.worst = 0
       /\ snap'.boot # 0 => mirror.boot # 0
       /\ mirror.connection = "Offline" => snap'.boot # 0 /\ snap'.connection = "Offline"
       /\ mirror.quiet => snap'.boot # 0 /\ snap'.connection = mirror.connection
      BY <1>7 DEF TimelineInv
<1>. QED  BY <1>1, <1>7, <1>8, <1>10, <1>11 DEF TimelineInv

LEMMA TimelineStep ==
    ASSUME StationInv, MirrorInv, TimelineInv, Observation!Next
    PROVE  TimelineInv'
<1>1. CASE UNCHANGED <<mirror, snap, log>>
      BY <1>1 DEF TimelineInv, LogTrue, Observation!Unlogged
<1>2. CASE Observation!StopLog
      BY <1>2 DEF Observation!StopLog, TimelineInv, Observation!Unlogged
<1>3. CASE Observation!RmsRestarts
  <2>1. mirror' = Observation!NoRecord /\ snap' = Observation!NoSnapshot /\ log' = Observation!Unlogged
        BY <1>3 DEF Observation!RmsRestarts
  <2>. QED  BY <2>1, TimelineBegins DEF TimelineInv, Observation!Unlogged
<1>. QED  BY <1>1, <1>2, <1>3, TimelineReceives, TimelineTicks, TimelineStarts
          DEF Observation!Next, Observation!EmitStatus, Observation!EmitShot,
              Observation!SessionStarts, Observation!NodeRestarts, Observation!Send

\* A reader of the field-test log knows the connection and the run of the
\* station as the last poll saw them, every episode of silence, and every gap
\* in its shots larger than one that stood before.
THEOREM TimelineIsTrue == Spec => []TimelineTrue
<1>1. Init => TimelineInv
      BY TimelineBegins DEF Init, Observation!Init, TimelineInv
<1>2. TimelineInv /\ ObservedInv /\ [Next]_vars => TimelineInv'
  <2>1. Next => Observation!Next \/ UNCHANGED observationVars
        BY DEF Next
  <2>2. TimelineInv /\ UNCHANGED observationVars => TimelineInv'
        BY DEF observationVars, TimelineInv, LogTrue, Observation!Unlogged
  <2>. QED  BY <2>1, <2>2, TimelineStep DEF vars, ObservedInv
<1>3. TimelineInv => TimelineTrue
  <2>1. ~Observation!Unlogged.active
        BY Zenon DEF Observation!Unlogged
  <2>. QED  BY <2>1 DEF TimelineInv, TimelineTrue, Observation!TimelineTrue, LogTrue
<1>. QED  BY <1>1, <1>2, <1>3, ObservedInvInductive, PTL DEF Spec
-----------------------------------------------------------------------------
(* What the pages of the range management show.                            *)

ViewsType ==
    /\ heard = [n \in TargetStations |-> heard[n]]
    /\ layout = [l \in DOMAIN layout |-> layout[l]]
    /\ DOMAIN layout \subseteq RangeLanes
    /\ \A l \in DOMAIN layout : layout[l].node \in TargetStations \cup {Views!NoStation}
    /\ Views!OneStationALane(layout)
    /\ screen = [p \in Views!Pages |-> screen[p]]
ViewsInv == ViewsType /\ Views!ViewsCurrent

\* What a lane shows of its station depends on that station alone.
LEMMA LaneAlone ==
    ASSUME ViewsType, NEW l \in DOMAIN layout, UNCHANGED <<layout, agenda>>,
           layout[l].node \in TargetStations => heard'[layout[l].node] = heard[layout[l].node]
    PROVE  Views!LaneRow(l)' = Views!LaneRow(l)
<1>1. layout[l].node \in TargetStations \cup {Views!NoStation}
      BY DEF ViewsType
<1>2. Views!Device(l)' = Views!Device(l)
      BY DEF Views!Device
<1>3. Views!Seen(l)' = Views!Seen(l)
           /\ (Views!Seen(l) => heard'[Views!Device(l)] = heard[Views!Device(l)])
      BY <1>1, <1>2 DEF Views!Seen, Views!Known, Views!Device
<1>4. Views!Connection(l)' = Views!Connection(l)
      BY <1>1, <1>2, <1>3 DEF Views!Connection, Views!Device
<1>5. Views!Online(l)' = Views!Online(l)
      BY <1>3, <1>4 DEF Views!Online
<1>6. Views!Observation(l)' = Views!Observation(l) /\ Views!Competition(l)' = Views!Competition(l)
      BY <1>2, <1>3 DEF Views!Observation, Views!Competition
<1>7. Views!StatusText(l)' = Views!StatusText(l)
      BY <1>2, <1>3, <1>5 DEF Views!StatusText
<1>8. Views!InPlan(l)' = Views!InPlan(l) /\ Views!PlannedProgramme(l)' = Views!PlannedProgramme(l)
      BY DEF Views!InPlan, Views!PlannedProgramme
<1>9. Views!ProgrammeMatch(l)' = Views!ProgrammeMatch(l)
      BY <1>2, <1>5, <1>6, <1>8 DEF Views!ProgrammeMatch
<1>. QED  BY <1>2, <1>4, <1>5, <1>6, <1>7, <1>8, <1>9 DEF Views!LaneRow

\* What is shown of the lanes as long as stations, range and plan do not change.
LEMMA LanesStand ==
    ASSUME UNCHANGED <<layout, agenda, heard>>
    PROVE  \A l : /\ Views!Device(l)' = Views!Device(l) /\ Views!InPlan(l)' = Views!InPlan(l)
                  /\ Views!Observation(l)' = Views!Observation(l)
                  /\ Views!Competition(l)' = Views!Competition(l)
                  /\ Views!Connection(l)' = Views!Connection(l)
                  /\ Views!Online(l)' = Views!Online(l)
                  /\ Views!AthleteOn(l)' = Views!AthleteOn(l)
                  /\ Views!PlannedProgramme(l)' = Views!PlannedProgramme(l)
                  /\ Views!StatusText(l)' = Views!StatusText(l)
                  /\ Views!ProgrammeMatch(l)' = Views!ProgrammeMatch(l)
                  /\ Views!LaneReadiness(l)' = Views!LaneReadiness(l)
<1>1. \A l : /\ Views!Device(l)' = Views!Device(l) /\ Views!InPlan(l)' = Views!InPlan(l)
             /\ Views!Seen(l)' = Views!Seen(l)
             /\ Views!PlannedProgramme(l)' = Views!PlannedProgramme(l)
      BY DEF Views!Device, Views!InPlan, Views!Seen, Views!Known, Views!PlannedProgramme
<1>2. \A l : /\ Views!Observation(l)' = Views!Observation(l)
             /\ Views!Competition(l)' = Views!Competition(l)
             /\ Views!Connection(l)' = Views!Connection(l)
             /\ Views!AthleteOn(l)' = Views!AthleteOn(l)
      BY <1>1 DEF Views!Observation, Views!Competition, Views!Connection, Views!AthleteOn
<1>3. \A l : Views!Online(l)' = Views!Online(l)
      BY <1>1, <1>2 DEF Views!Online
<1>4. \A l : /\ Views!StatusText(l)' = Views!StatusText(l)
             /\ Views!ProgrammeMatch(l)' = Views!ProgrammeMatch(l)
             /\ Views!LaneReadiness(l)' = Views!LaneReadiness(l)
      BY <1>1, <1>2, <1>3 DEF Views!StatusText, Views!ProgrammeMatch, Views!LaneReadiness
<1>. QED  BY <1>1, <1>2, <1>3, <1>4

\* Each page stays true as long as what it is computed from does not change.
LEMMA LanePages ==
    ASSUME UNCHANGED <<layout, agenda, heard>>
    PROVE  /\ Views!LaneRows' = Views!LaneRows /\ Views!Readiness' = Views!Readiness
           /\ Views!Summary' = Views!Summary
           /\ UNCHANGED row => Views!Detail' = Views!Detail
<1>1. \A l : Views!LaneRow(l)' = Views!LaneRow(l)
      BY LanesStand DEF Views!LaneRow
<1>2. Views!LaneRows' = Views!LaneRows
      BY <1>1 DEF Views!LaneRows
<1>3. Views!Readiness' = Views!Readiness
      BY LanesStand DEF Views!Readiness
<1>4. Views!Summary' = Views!Summary
  <2>. DEFINE online == {l \in DOMAIN layout : Views!Online(l)}
  <2>1. online' = online
        BY LanesStand
  <2>2. {l \in online : Views!Observation(l).active}' = {l \in online : Views!Observation(l).active}
        BY <2>1, LanesStand
  <2>3. {l \in DOMAIN layout : Views!Device(l) = Views!NoStation}'
           = {l \in DOMAIN layout : Views!Device(l) = Views!NoStation}
        BY LanesStand
  <2>. QED  BY <2>1, <2>2, <2>3 DEF Views!Summary
<1>5. UNCHANGED row => Views!Detail' = Views!Detail
      BY <1>1 DEF Views!Detail
<1>. QED  BY <1>2, <1>3, <1>4, <1>5

LEMMA NamesPage ==
    ASSUME UNCHANGED <<layout, agenda, roster>>
    PROVE  /\ Views!PlannedNames' = Views!PlannedNames
           /\ \A l : Views!PlannedName(l)' = Views!PlannedName(l)
BY DEF Views!PlannedNames, Views!PlannedName, Views!NameOf, Views!AthleteOn, Views!InPlan

LEMMA StationPages ==
    ASSUME UNCHANGED heard
    PROVE  /\ Views!Devices' = Views!Devices
           /\ UNCHANGED layout => Views!Waiting' = Views!Waiting
BY DEF Views!Devices, Views!KnownStations, Views!Known, Views!Waiting, Views!Device

LEMMA AthletesPage ==
    ASSUME UNCHANGED <<agenda, roster>>
    PROVE  Views!AthleteRows' = Views!AthleteRows
BY DEF Views!AthleteRows

LEMMA PlanPage ==
    ASSUME UNCHANGED <<layout, agenda, heard, roster>>
    PROVE  Views!PlanRows' = Views!PlanRows
BY LanesStand, NamesPage DEF Views!PlanRows, Views!PlanRow

LEMMA TargetPages ==
    ASSUME UNCHANGED <<layout, agenda, heard, roster, shown>>
    PROVE  Views!TargetRows' = Views!TargetRows /\ Views!SingleTarget' = Views!SingleTarget
<1>1. \A l : Views!TargetRow(l)' = Views!TargetRow(l)
      BY LanesStand, NamesPage DEF Views!TargetRow
<1>2. Views!Controller!OrderNow' = Views!Controller!OrderNow
      BY DEF Views!Controller!OrderNow, Views!Controller!Order
<1>. QED  BY <1>1, <1>2 DEF Views!TargetRows, Views!SingleTarget

\* The types, and that a station has one lane.
LEMMA ViewsTypeStep ==
    ASSUME ViewsType, Views!Next
    PROVE  ViewsType'
<1>1. screen' = [p \in Views!Pages |-> screen'[p]]
      BY DEF Views!Next, Views!StationHeard, Views!StationSilent, Views!CompetitionInjected,
             Views!Relabelled, Views!CreateRange, Views!AssignNodeToLane, Views!ClearLane,
             Views!SetLaneEnabled, Views!LaneEdited, Views!RangeEdited, Views!PlanEdited,
             Views!StartListEdited, Views!DisplayMoved, Views!LaneSelected, Views!NodeChanged,
             Views!RangeChanged, Views!PlanChanged, Views!AthletesChanged,
             Views!DisplayChanged, Views!RowSelected, Views!Painted
<1>2. heard' = [n \in TargetStations |-> heard'[n]]
      BY DEF ViewsType, Views!Next, Views!StationHeard, Views!StationSilent,
             Views!CompetitionInjected, Views!Relabelled, Views!CreateRange,
             Views!AssignNodeToLane, Views!ClearLane, Views!SetLaneEnabled, Views!LaneEdited,
             Views!RangeEdited, Views!PlanEdited, Views!StartListEdited, Views!DisplayMoved,
             Views!LaneSelected
<1>. DEFINE LayoutType ==
        /\ layout = [l \in DOMAIN layout |-> layout[l]]
        /\ DOMAIN layout \subseteq RangeLanes
        /\ \A l \in DOMAIN layout : layout[l].node \in TargetStations \cup {Views!NoStation}
        /\ Views!OneStationALane(layout)
<1>3. LayoutType'
  <2>1. CASE UNCHANGED layout
        BY <2>1 DEF ViewsType, Views!OneStationALane
  <2>2. CASE Views!CreateRange
        BY <2>2 DEF Views!CreateRange, Views!KnownStations, Views!OneStationALane
  <2>3. CASE Views!AssignNodeToLane
    <3>1. PICK n \in TargetStations, lane \in DOMAIN layout :
             layout' = [l \in DOMAIN layout |->
                           [node |-> CASE l = lane -> n
                                       [] l # lane /\ Views!Device(l) = n -> Views!NoStation
                                       [] OTHER -> Views!Device(l),
                            enabled |-> layout[l].enabled]]
          BY <2>3 DEF Views!AssignNodeToLane
    <3>2. \A l \in DOMAIN layout :
             layout'[l].node = IF l = lane THEN n
                               ELSE IF layout[l].node = n THEN Views!NoStation ELSE layout[l].node
          BY <3>1 DEF Views!Device
    <3>3. DOMAIN layout' = DOMAIN layout /\ layout' = [l \in DOMAIN layout' |-> layout'[l]]
          BY <3>1
    <3>. QED  BY <3>2, <3>3 DEF ViewsType, Views!OneStationALane
  <2>4. ASSUME NEW lane \in DOMAIN layout, NEW device \in {Views!NoStation, layout[lane].node},
               NEW enabled, Views!LaneEdited(lane, device, enabled)
        PROVE  LayoutType'
    <3>1. layout' = [layout EXCEPT ![lane] = [node |-> device, enabled |-> enabled]]
          BY <2>4 DEF Views!LaneEdited
    <3>2. /\ DOMAIN layout' = DOMAIN layout /\ layout' = [l \in DOMAIN layout' |-> layout'[l]]
          /\ \A l \in DOMAIN layout :
                layout'[l].node = IF l = lane THEN device ELSE layout[l].node
          BY <3>1 DEF ViewsType
    <3>. QED  BY <3>2 DEF ViewsType, Views!OneStationALane
  <2>5. CASE Views!ClearLane
        BY <2>4, <2>5 DEF Views!ClearLane, Views!Device
  <2>6. CASE Views!SetLaneEnabled
        BY <2>4, <2>6 DEF Views!SetLaneEnabled, Views!Device
  <2>. QED  BY <2>1, <2>2, <2>3, <2>5, <2>6
            DEF Views!Next, Views!StationHeard, Views!StationSilent, Views!CompetitionInjected,
                Views!Relabelled, Views!PlanEdited, Views!StartListEdited, Views!DisplayMoved,
                Views!LaneSelected
<1>. QED  BY <1>1, <1>2, <1>3 DEF ViewsType

\* A signal that paints the pages whose contents may have changed.
LEMMA PagesPainted ==
    ASSUME ViewsInv, NEW pages, Views!Painted(pages),
           \A p \in Views!Pages \ pages :
              \/ Views!Page(p)' = Views!Page(p) /\ (p = "names" /\ tally.moved => tally'.moved)
              \/ p = "names" /\ tally'.moved
    PROVE  Views!ViewsCurrent'
<1>1. \A p \in Views!Pages :
         screen'[p] = IF p \in pages THEN Views!Page(p)' ELSE screen[p]
      BY DEF Views!Painted
<1>. QED  BY <1>1 DEF ViewsInv, Views!ViewsCurrent

\* A station that is heard of, falls silent, or is told how its match stands.
LEMMA StationPainted ==
    ASSUME ViewsInv, NEW n \in TargetStations, heard'[n].connection # "NotHeard",
           heard' = [heard EXCEPT ![n] = heard'[n]], Views!NodeChanged(n),
           UNCHANGED <<layout, agenda, roster, shown, row>>, tally'.moved = tally.moved
    PROVE  Views!ViewsCurrent'
<1>1. /\ heard' = [m \in TargetStations |-> heard'[m]]
      /\ \A m \in TargetStations \ {n} : heard'[m] = heard[m]
      BY DEF ViewsInv, ViewsType
<1>2. \A l \in DOMAIN layout : ~ Views!FoundAt(n, l) => layout[l].node # n
  <2>1. SUFFICES ASSUME NEW l \in DOMAIN layout, layout[l].node = n
                 PROVE  Views!FoundAt(n, l)
        OBVIOUS
  <2>2. l \in Nat /\ n # Views!NoStation
        BY PartsAssumption DEF Views!ViewsAssumption, ViewsInv, ViewsType
  <2>. QED  BY <2>1, <2>2 DEF Views!FoundAt, Views!Device, ViewsInv, ViewsType,
                              Views!OneStationALane
<1>3. \A l \in DOMAIN layout : ~ Views!FoundAt(n, l) => Views!LaneRow(l)' = Views!LaneRow(l)
      BY <1>1, <1>2, LaneAlone DEF ViewsInv
<1>4. screen'["lanes"] = Views!LaneRows'
  <2>1. screen'["lanes"] = Views!RowPainted(screen["lanes"], n, Views!LaneRows')
        BY DEF Views!NodeChanged, Views!Page, Views!Pages
  <2>2. screen["lanes"] = Views!LaneRows
        BY DEF ViewsInv, Views!ViewsCurrent, Views!Page, Views!Pages
  <2>. QED  BY <1>3, <2>1, <2>2 DEF Views!RowPainted, Views!LaneRows
<1>5. screen'["names"] = Views!PlannedNames' \/ tally'.moved
  <2>1. screen'["names"] = Views!RowPainted(screen["names"], n, Views!PlannedNames')
        BY DEF Views!NodeChanged, Views!Page, Views!Pages
  <2>2. screen["names"] = Views!PlannedNames \/ tally.moved
        BY DEF ViewsInv, Views!ViewsCurrent, Views!Page, Views!Pages
  <2>3. Views!PlannedNames' = Views!PlannedNames
        BY NamesPage
  <2>. QED  BY <2>1, <2>2, <2>3 DEF Views!RowPainted, Views!PlannedNames
<1>6. screen'["devices"] = Views!Devices'
  <2>1. screen'["devices"] = Views!DevicePainted(n)
        BY DEF Views!NodeChanged, Views!Pages
  <2>2. screen["devices"] = [m \in Views!KnownStations |-> heard[m]]
        BY DEF ViewsInv, Views!ViewsCurrent, Views!Page, Views!Pages, Views!Devices
  <2>3. Views!KnownStations' = Views!KnownStations \cup {n}
        BY <1>1 DEF Views!KnownStations, Views!Known
  <2>4. Views!KnownStations \subseteq TargetStations
        BY DEF Views!KnownStations
  <2>. QED  BY <1>1, <2>1, <2>2, <2>3, <2>4 DEF Views!DevicePainted, Views!Devices
<1>7. screen'["athletes"] = Views!AthleteRows'
      BY AthletesPage DEF Views!NodeChanged, Views!Page, Views!Pages, ViewsInv,
                          Views!ViewsCurrent
<1>8. \A p \in Views!Pages \ {"lanes", "names", "devices", "athletes"} :
         screen'[p] = Views!Page(p)'
      BY DEF Views!NodeChanged
<1>. QED  BY <1>4, <1>5, <1>6, <1>7, <1>8 DEF Views!ViewsCurrent, Views!Page, Views!Pages

\* Each step leaves the pages true.
LEMMA ViewsStep ==
    ASSUME ViewsInv, Views!Next
    PROVE  ViewsInv'
<1>. USE DEF Views!Pages
<1>1. CASE \/ Views!StationHeard \/ Views!StationSilent \/ Views!CompetitionInjected
  <2>0. heard = [m \in TargetStations |-> heard[m]]
        BY DEF ViewsInv, ViewsType
  <2>1. PICK n \in TargetStations :
           /\ heard'[n].connection # "NotHeard" /\ heard' = [heard EXCEPT ![n] = heard'[n]]
           /\ Views!NodeChanged(n)
    <3>1. ASSUME NEW n \in TargetStations, NEW record, heard' = [heard EXCEPT ![n] = record]
          PROVE  heard'[n] = record /\ heard' = [heard EXCEPT ![n] = heard'[n]]
          BY <2>0, <3>1
    <3>2. CASE Views!StationHeard
      <4>1. PICK n \in TargetStations, report \in Reports :
               /\ heard' = [heard EXCEPT ![n] = [connection |-> report.target, report |-> report,
                                                competition |-> heard[n].competition]]
               /\ Views!NodeChanged(n)
            BY <3>2 DEF Views!StationHeard
      <4>. DEFINE record == [connection |-> report.target, report |-> report,
                             competition |-> heard[n].competition]
      <4>2. record.connection = report.target
            OBVIOUS
      <4>3. heard'[n] = record /\ heard' = [heard EXCEPT ![n] = heard'[n]]
        <5>1. heard' = [heard EXCEPT ![n] = record]
              BY <4>1
        <5>. HIDE DEF record
        <5>. QED  BY <3>1, <5>1
      <4>. HIDE DEF record
      <4>. QED  BY <4>1, <4>2, <4>3, PartsAssumption DEF Views!ViewsAssumption
    <3>3. ASSUME NEW n \in TargetStations, NEW connection, NEW competition,
                 Views!Relabelled(n, connection, competition), connection # "NotHeard"
          PROVE  /\ heard'[n].connection # "NotHeard" /\ Views!NodeChanged(n)
                 /\ heard' = [heard EXCEPT ![n] = heard'[n]]
      <4>. DEFINE record == [connection |-> connection, report |-> heard[n].report,
                             competition |-> competition]
      <4>1. heard' = [heard EXCEPT ![n] = record] /\ Views!NodeChanged(n)
            BY <3>3 DEF Views!Relabelled
      <4>2. record.connection # "NotHeard"
            BY <3>3
      <4>. HIDE DEF record
      <4>. QED  BY <3>1, <4>1, <4>2
    <3>4. CASE Views!StationSilent
          BY <3>3, <3>4 DEF Views!StationSilent, Views!KnownStations
    <3>5. CASE Views!CompetitionInjected
          BY <3>3, <3>5 DEF Views!CompetitionInjected, Views!KnownStations, Views!Known
    <3>. QED  BY <1>1, <3>2, <3>4, <3>5
  <2>2. UNCHANGED <<layout, agenda, roster, shown, row>> /\ tally'.moved = tally.moved
        BY <1>1 DEF Views!StationHeard, Views!StationSilent, Views!CompetitionInjected,
                    Views!Relabelled, Views!Counted
  <2>. QED  BY <2>1, <2>2, StationPainted, ViewsTypeStep DEF ViewsInv
<1>2. CASE \/ Views!CreateRange \/ Views!AssignNodeToLane \/ Views!ClearLane
           \/ Views!SetLaneEnabled
  <2>1. Views!RangeEdited
        BY <1>2 DEF Views!CreateRange, Views!AssignNodeToLane, Views!ClearLane,
                    Views!SetLaneEnabled, Views!LaneEdited
  <2>2. /\ UNCHANGED <<heard, agenda, roster>>
        /\ Views!Painted(Views!Pages \ {"devices", "athletes"})
        BY <2>1 DEF Views!RangeEdited, Views!RangeChanged
  <2>3. \A p \in {"devices", "athletes"} : Views!Page(p)' = Views!Page(p)
        BY <2>2, StationPages, AthletesPage DEF Views!Page
  <2>. QED  BY <2>2, <2>3, PagesPainted, ViewsTypeStep DEF ViewsInv
<1>3. CASE Views!PlanEdited
  <2>1. UNCHANGED <<layout, heard>> /\ Views!Painted(Views!Pages \ {"waiting", "devices"})
        BY <1>3 DEF Views!PlanEdited, Views!PlanChanged
  <2>2. \A p \in {"waiting", "devices"} : Views!Page(p)' = Views!Page(p)
        BY <2>1, StationPages DEF Views!Page
  <2>. QED  BY <2>1, <2>2, PagesPainted, ViewsTypeStep DEF ViewsInv
<1>4. CASE Views!StartListEdited
  <2>1. /\ UNCHANGED <<layout, heard, agenda, row>> /\ tally'.moved
        /\ Views!Painted({"review", "plan", "athletes", "targets", "single"})
        BY <1>4 DEF Views!StartListEdited, Views!AthletesChanged, Views!Counted
  <2>2. \A p \in {"lanes", "summary", "detail", "home", "waiting", "devices"} :
           Views!Page(p)' = Views!Page(p)
        BY <2>1, StationPages, LanePages DEF Views!Page
  <2>. QED  BY <2>1, <2>2, PagesPainted, ViewsTypeStep DEF ViewsInv
<1>5. CASE Views!DisplayMoved \/ Views!LaneSelected
  <2>1. PICK pages \in {{"targets", "single"}, {"detail"}} :
           /\ Views!Painted(pages) /\ UNCHANGED <<layout, heard, agenda, roster>>
           /\ "targets" \notin pages => UNCHANGED shown
           /\ "detail" \notin pages => UNCHANGED row
           /\ tally'.moved = tally.moved
        BY <1>5 DEF Views!DisplayMoved, Views!LaneSelected, Views!DisplayChanged,
                    Views!RowSelected, Views!Counted
  <2>2. \A p \in Views!Pages \ pages : Views!Page(p)' = Views!Page(p)
    <3>1. \A p \in Views!Pages \ {"targets", "single", "detail"} :
             Views!Page(p)' = Views!Page(p)
          BY <2>1, LanePages, NamesPage, StationPages, AthletesPage, PlanPage DEF Views!Page
    <3>2. UNCHANGED shown => \A p \in {"targets", "single"} : Views!Page(p)' = Views!Page(p)
          BY <2>1, TargetPages DEF Views!Page
    <3>3. UNCHANGED row => Views!Page("detail")' = Views!Page("detail")
          BY <2>1, LanePages DEF Views!Page
    <3>. QED  BY <2>1, <3>1, <3>2, <3>3
  <2>. QED  BY <2>1, <2>2, PagesPainted, ViewsTypeStep DEF ViewsInv
<1>. QED  BY <1>1, <1>2, <1>3, <1>4, <1>5 DEF Views!Next

\* What a page of the range management shows is what would be computed now, but
\* for the name of a lane's athlete once the start list has changed: for every
\* range, every number of stations, and all plans and start lists.
THEOREM PagesAreCurrent == Spec => []ViewsCurrent
<1>1. Init => ViewsInv
  <2>1. Init => Views!Init
        BY DEF Init, ViewsRest
  <2>2. Views!Init => ViewsType
    <3>. SUFFICES ASSUME Views!Init
                  PROVE  ViewsType
         OBVIOUS
    <3>1. CASE layout = << >>
          BY <3>1 DEF Views!Init, ViewsType
    <3>2. CASE \E s \in [RangeLanes -> TargetStations \cup {Views!NoStation}] : layout = Views!Loaded(s)
          BY <3>2 DEF Views!Init, Views!Loaded, ViewsType
    <3>. QED  BY <3>1, <3>2 DEF Views!Init
  <2>3. Views!Init => Views!ViewsCurrent
        BY DEF Views!Init, Views!ViewsCurrent
  <2>. QED  BY <2>1, <2>2, <2>3 DEF ViewsInv
<1>2. ViewsInv /\ [Next]_vars => ViewsInv'
  <2>1. Next => Views!Next \/ UNCHANGED viewVars
        BY DEF Next
  <2>2. ViewsInv /\ UNCHANGED viewVars => ViewsInv'
    <3>1. ASSUME ViewsInv, UNCHANGED viewVars
          PROVE  \A p \in Views!Pages : Views!Page(p)' = Views!Page(p)
          BY <3>1, LanePages, NamesPage, StationPages, AthletesPage, PlanPage, TargetPages
          DEF viewVars, Views!Page, Views!Pages
    <3>. QED  BY <3>1 DEF viewVars, ViewsInv, ViewsType, Views!ViewsCurrent,
                          Views!OneStationALane
  <2>. QED  BY <2>1, <2>2, ViewsStep DEF vars
<1>3. ViewsInv => ViewsCurrent
      BY DEF ViewsInv, ViewsCurrent
<1>. QED  BY <1>1, <1>2, <1>3, PTL DEF Spec
-----------------------------------------------------------------------------
(* The link to the target.                                                 *)

ShotKinds == {"Sighter", "Counted"}
Marks == Seq(Int)
Identities == Seq(ShotKinds \X Nat)
Counts == [base : Nat, old : Nat]
LastShots == [shot : Int, kind : ShotKinds, sound : BOOLEAN, at : Int, fed : BOOLEAN]
                 \cup {Target!NoShot}
Apps == [live : BOOLEAN, home : BOOLEAN, seen : Nat, modbus : {"closed", "open", "dead"},
         link : {"Connected", "Reconnecting"}, failures : Nat, tick : Nat,
         acq : {"Synchronizing", "Acquiring", "Fault"}, base : Nat, old : Nat,
         coords : Marks, sighter : BOOLEAN, saved : Counts, flush : BOOLEAN,
         ids : Identities, last : LastShots, sound : BOOLEAN]

\* Of the shots of the kind that is shot now, the feed remembers none that is
\* still to come.
FedUpTo(a, n) == \A i \in DOMAIN a.ids : a.ids[i][1] = Target!KindOf(a) => a.ids[i][2] =< n

\* What a sound numbering is: the target h is at most one shot ahead, and that
\* one is the last of the s that were fired.
LinkSound(a, h, s) ==
    /\ ~a.flush /\ a.acq # "Fault" /\ a.seen =< a.old + a.base /\ FedUpTo(a, a.old + a.base)
    /\ a.live =>
          /\ a.old = 0 /\ a.coords = [n \in 1 .. a.base |-> h.slots[n]]
          /\ h.counter \in {a.base, a.base + 1}
          /\ a.acq = "Synchronizing" => h.counter = a.base
          /\ h.counter = a.base + 1 => h.slots[h.counter] = s
    /\ ~a.live => a.base = 0 /\ a.old = Len(a.coords)
LinkStands(a, h, s) == a \in Apps /\ (a.sound => LinkSound(a, h, s))

\* The shot that has just been acquired was shown where it fell, and fed.
ShotShown(a, s) ==
    a.last # Target!NoShot /\ a.last.sound =>
        /\ a.last.shot = s /\ a.last.at = a.last.shot
        /\ a.live => (a.last.fed <=> FeedSeconds[a.last.kind] > 0)

Targets == [plugged : BOOLEAN, counter : {0} \cup Target!Slots, slots : [Target!Slots -> Nat]]
LinkInv ==
    /\ hw \in Targets /\ shots \in Nat
    /\ LinkStands(app, hw, shots) /\ ShotShown(app, shots)

\* The numbering does not depend on the link, on its counters, or on the page.
LEMMA LinkLeaves ==
    ASSUME NEW a, NEW h, NEW s, LinkStands(a, h, s), NEW b \in Apps,
           b.live = a.live, b.seen = a.seen \/ b.seen = 0, b.acq = a.acq, b.base = a.base,
           b.old = a.old, b.coords = a.coords, b.sighter = a.sighter, b.flush = a.flush,
           b.ids = a.ids, b.sound => a.sound
    PROVE  LinkStands(b, h, s)
BY DEF LinkStands, LinkSound, FedUpTo, Target!KindOf, Apps

LEMMA SpoiltStands ==
    ASSUME NEW a, NEW h, NEW s, a \in Apps, ~a.sound
    PROVE  LinkStands(a, h, s)
BY DEF LinkStands

LEMMA LinkLost ==
    ASSUME NEW a \in Apps
    PROVE  LET b == Target!OnTargetLinkLost(a)
           IN  /\ b \in Apps /\ b.live = a.live /\ b.seen = a.seen /\ b.acq = a.acq
               /\ b.base = a.base /\ b.old = a.old /\ b.coords = a.coords
               /\ b.sighter = a.sighter /\ b.flush = a.flush /\ b.ids = a.ids
               /\ b.sound = a.sound /\ b.last = a.last
BY DEF Target!OnTargetLinkLost, Apps

LEMMA ReadFails ==
    ASSUME NEW a \in Apps, NEW h, NEW s, LinkStands(a, h, s)
    PROVE  LET b == Target!ReadFailed(a)
           IN  LinkStands(b, h, s) /\ b.last = a.last /\ b.live = a.live
<1>. DEFINE c == [a EXCEPT !.failures = @ + 1]
<1>1. /\ c \in Apps /\ c.live = a.live /\ c.seen = a.seen /\ c.acq = a.acq
      /\ c.base = a.base /\ c.old = a.old /\ c.coords = a.coords
      /\ c.sighter = a.sighter /\ c.flush = a.flush /\ c.ids = a.ids
      /\ c.sound = a.sound /\ c.last = a.last
      BY DEF Apps
<1>2. LinkStands(c, h, s)
  <2>. HIDE DEF c
  <2>. QED  BY <1>1, LinkLeaves
<1>3. Target!ReadFailed(a) = c \/ Target!ReadFailed(a) = Target!OnTargetLinkLost(c)
      BY DEF Target!ReadFailed
<1>. HIDE DEF c
<1>4. LinkStands(Target!OnTargetLinkLost(c), h, s)
      BY <1>1, <1>2, LinkLost, LinkLeaves
<1>. QED  BY <1>1, <1>2, <1>3, <1>4, LinkLost

\* What the feed remembers is what it knew, and the new one.
LEMMA IdsRemembered ==
    ASSUME NEW ids \in Identities, NEW id \in ShotKinds \X Nat
    PROVE  /\ Target!Remembered(ids, id) \in Identities
           /\ \A i \in DOMAIN Target!Remembered(ids, id) :
                 \/ Target!Remembered(ids, id)[i] = id
                 \/ \E j \in DOMAIN ids : Target!Remembered(ids, id)[i] = ids[j]
<1>. USE DEF Identities
<1>. DEFINE all == Append(ids, id)
<1>1. /\ all \in Seq(ShotKinds \X Nat) /\ Len(all) = Len(ids) + 1
      /\ \A i \in 1 .. Len(all) : all[i] = id \/ (i \in 1 .. Len(ids) /\ all[i] = ids[i])
      BY AppendProperties
<1>2. /\ Tail(all) \in Seq(ShotKinds \X Nat) /\ Len(Tail(all)) = Len(all) - 1
      /\ \A i \in 1 .. Len(Tail(all)) : Tail(all)[i] = all[i + 1]
      BY <1>1, EmptySeq, HeadTailProperties
<1>3. Target!Remembered(ids, id) \in {all, Tail(all)}
      BY DEF Target!Remembered
<1>. HIDE DEF all
<1>4. /\ DOMAIN all = 1 .. Len(all) /\ DOMAIN Tail(all) = 1 .. Len(Tail(all))
      /\ DOMAIN ids = 1 .. Len(ids)
      BY <1>1, <1>2
<1>5. CASE Target!Remembered(ids, id) = all
      BY <1>1, <1>4, <1>5
<1>6. CASE Target!Remembered(ids, id) = Tail(all)
  <2>1. \A i \in 1 .. Len(Tail(all)) : i + 1 \in 1 .. Len(all)
        BY <1>1, <1>2
  <2>. QED  BY <1>1, <1>2, <1>4, <1>6, <2>1
<1>. QED  BY <1>3, <1>5, <1>6

\* A shot that is announced under the next number, to a page that has not
\* passed it, is shown at its own coordinates and fed.
LEMMA ShotAnnounced ==
    ASSUME NEW a \in Apps, a.last = Target!NoShot, NEW coordinates \in Int, NEW n \in Nat,
           NEW s,
           a.sound => /\ n = a.old + a.base /\ a.seen < n
                      /\ FedUpTo(a, n - 1) /\ Len(a.coords) = n - 1
                      /\ coordinates = s /\ (a.live => a.modbus # "closed")
    PROVE  LET b == Target!Announce(a, coordinates, n)
           IN  /\ b \in Apps /\ ShotShown(b, s)
               /\ b.live = a.live /\ b.acq = a.acq /\ b.base = a.base /\ b.old = a.old
               /\ b.sighter = a.sighter /\ b.flush = a.flush /\ b.sound = a.sound
               /\ b.coords = Append(a.coords, coordinates)
               /\ a.sound => b.seen =< n /\ FedUpTo(b, n)
<1>. DEFINE list == Append(a.coords, coordinates)
<1>. DEFINE c == [a EXCEPT !.coords = list]
<1>. DEFINE seen == IF a.seen < n THEN a.old + a.base ELSE a.seen
<1>. DEFINE kind == Target!KindOf(a)
<1>. DEFINE fed == a.live /\ Target!Feeds(a, n)
<1>. DEFINE at == IF a.seen < n THEN Target!XCord(c, n) ELSE Target!Nowhere
<1>. DEFINE ids == IF ~a.live \/ a.modbus = "closed"
                      \/ Target!Contains(a.ids, Target!Identity(a, n))
                   THEN a.ids ELSE Target!Remembered(a.ids, Target!Identity(a, n))
<1>1. /\ list \in Seq(Int) /\ Len(list) = Len(a.coords) + 1
      /\ list[Len(a.coords) + 1] = coordinates /\ Len(a.coords) \in Nat
      BY AppendProperties DEF Apps, Marks
<1>2. /\ c \in Apps /\ c.coords = list /\ c.live = a.live /\ c.modbus = a.modbus
      /\ c.seen = a.seen /\ c.sighter = a.sighter /\ c.ids = a.ids /\ c.old = a.old
      /\ c.base = a.base /\ c.sound = a.sound /\ c.acq = a.acq /\ c.flush = a.flush
  <2>. HIDE DEF list
  <2>. QED  BY <1>1 DEF Apps, Marks
<1>3. /\ kind \in ShotKinds /\ Target!KindOf(c) = kind /\ Target!Identity(a, n) = <<kind, n>>
      /\ Target!Identity(c, n) = <<kind, n>> /\ <<kind, n>> \in ShotKinds \X Nat
  <2>1. kind \in ShotKinds
        BY DEF ShotKinds, Target!KindOf
  <2>2. Target!KindOf(c) = kind
        BY <1>2 DEF Target!KindOf
  <2>. HIDE DEF kind, c
  <2>. QED  BY <2>1, <2>2 DEF Target!Identity, kind
<1>4. Target!Feeds(c, n) = Target!Feeds(a, n)
      BY <1>2, <1>3 DEF Target!Feeds, Target!Identity
<1>5. at \in Int /\ (a.sound => at = coordinates)
  <2>1. DOMAIN list = 1 .. Len(list)
        BY <1>1
  <2>2. Target!XCord(c, n) = IF n \in 1 .. Len(list) THEN list[n] ELSE -1
        BY <1>2, <2>1 DEF Target!XCord, Target!Nowhere
  <2>3. n \in 1 .. Len(list) => list[n] \in Int
        BY <1>1
  <2>4. a.sound => n = Len(a.coords) + 1 /\ n \in 1 .. Len(list)
        BY <1>1
  <2>. HIDE DEF list, c
  <2>. QED  BY <1>1, <2>2, <2>3, <2>4 DEF Target!Nowhere
<1>6. /\ ids \in Identities
      /\ \A i \in DOMAIN ids : ids[i] = <<kind, n>> \/ \E j \in DOMAIN a.ids : ids[i] = a.ids[j]
  <2>1. a.ids \in Identities
        BY DEF Apps
  <2>. HIDE DEF kind
  <2>. QED  BY <1>3, <2>1, IdsRemembered
<1>. DEFINE last == [shot |-> coordinates, kind |-> kind, sound |-> a.sound, at |-> at,
                     fed |-> fed]
<1>. DEFINE b == [c EXCEPT !.seen = seen, !.last = last, !.ids = ids]
<1>7. last \in LastShots
  <2>1. fed \in BOOLEAN /\ a.sound \in BOOLEAN
        BY DEF Target!Feeds, Apps
  <2>. HIDE DEF at, kind, fed
  <2>. QED  BY <1>3, <1>5, <2>1 DEF LastShots
<1>8. Target!Announce(a, coordinates, n) = b
  <2>1. /\ (IF Target!Takes(c, n) THEN Target!ShootCount(c) ELSE c.seen) = seen
        /\ (IF Target!Takes(c, n) THEN Target!XCord(c, n) ELSE Target!Nowhere) = at
        BY <1>2 DEF Target!Takes, Target!ShootCount
  <2>2. (IF ~c.live \/ c.modbus = "closed" \/ Target!Contains(c.ids, Target!Identity(c, n))
         THEN c.ids ELSE Target!Remembered(c.ids, Target!Identity(c, n))) = ids
        BY <1>2, <1>3
  <2>3. c.live /\ Target!Feeds(c, n) <=> fed
        BY <1>2, <1>4
  <2>. HIDE DEF list, seen, kind, fed, at, ids
  <2>4. Target!Announce(a, coordinates, n) =
           [c EXCEPT !.seen = IF Target!Takes(c, n) THEN Target!ShootCount(c) ELSE @,
                     !.last = [shot |-> coordinates, kind |-> Target!KindOf(c),
                               sound |-> c.sound,
                               at |-> IF Target!Takes(c, n) THEN Target!XCord(c, n)
                                      ELSE Target!Nowhere,
                               fed |-> c.live /\ Target!Feeds(c, n)],
                     !.ids = IF ~c.live \/ c.modbus = "closed"
                                \/ Target!Contains(@, Target!Identity(c, n))
                             THEN @ ELSE Target!Remembered(@, Target!Identity(c, n))]
        BY DEF Target!Announce, Target!Announced, list
  <2>5. (c.live /\ Target!Feeds(c, n)) = fed
        BY <2>3 DEF fed, Target!Feeds
  <2>. HIDE DEF c
  <2>. QED  BY <1>2, <1>3, <2>1, <2>2, <2>4, <2>5
<1>9. /\ b \in Apps /\ b.seen = seen /\ b.last = last /\ b.ids = ids /\ b.live = a.live
      /\ b.acq = a.acq /\ b.base = a.base /\ b.old = a.old /\ b.sighter = a.sighter
      /\ b.flush = a.flush /\ b.sound = a.sound /\ b.coords = list
  <2>1. seen \in Nat
        BY DEF Apps
  <2>. HIDE DEF c, seen, last, ids, list
  <2>. QED  BY <1>2, <1>6, <1>7, <2>1 DEF Apps
<1>10. a.sound => seen =< n /\ FedUpTo(b, n)
  <2>1. Target!KindOf(b) = kind
        BY <1>9 DEF Target!KindOf
  <2>2. ASSUME a.sound, NEW i \in DOMAIN ids, ids[i][1] = kind
        PROVE  ids[i][2] =< n
    <3>1. \A j \in DOMAIN a.ids : a.ids[j][1] = kind => a.ids[j][2] =< n - 1
          BY <2>2 DEF FedUpTo
    <3>2. \A j \in DOMAIN a.ids : a.ids[j][2] \in Nat
          BY DEF Apps, Identities
    <3>. HIDE DEF ids, kind
    <3>3. CASE ids[i] = <<kind, n>>
          BY <3>3
    <3>4. CASE \E j \in DOMAIN a.ids : ids[i] = a.ids[j]
          BY <2>2, <3>1, <3>2, <3>4
    <3>. QED  BY <1>6, <3>3, <3>4
  <2>. HIDE DEF b, ids, kind
  <2>. QED  BY <1>9, <2>1, <2>2 DEF FedUpTo, seen
<1>11. a.sound /\ a.live => (fed <=> FeedSeconds[kind] > 0)
  <2>1. ASSUME a.sound, a.live
        PROVE  ~Target!Contains(a.ids, <<kind, n>>) /\ a.modbus # "closed"
    <3>1. \A j \in DOMAIN a.ids : a.ids[j][1] = kind => a.ids[j][2] =< n - 1
          BY <2>1 DEF FedUpTo
    <3>2. DOMAIN a.ids = 1 .. Len(a.ids)
          BY DEF Apps, Identities
    <3>. HIDE DEF kind
    <3>. QED  BY <2>1, <3>1, <3>2 DEF Target!Contains
  <2>. HIDE DEF kind
  <2>. QED  BY <1>3, <2>1 DEF Target!Feeds, kind
<1>12. ShotShown(b, s)
  <2>1. /\ last.shot = coordinates /\ last.at = at /\ last.sound = a.sound
        /\ last.fed = fed /\ last.kind = kind
        OBVIOUS
  <2>. HIDE DEF b, last, fed, at, kind
  <2>. QED  BY <1>5, <1>9, <1>11, <2>1 DEF ShotShown
<1>. HIDE DEF b
<1>. QED  BY <1>8, <1>9, <1>10, <1>12

\* What decidePoll makes of a counter.
LEMMA PollDecided ==
    ASSUME NEW state \in {"Synchronizing", "Acquiring", "Fault"}, NEW m \in Nat, NEW k \in Nat
    PROVE  /\ Target!DecidePoll(state, m, k) = "NewShots" => state = "Acquiring" /\ k = m + 1
           /\ Target!DecidePoll(state, m, k) = "Fault" =>
                 state = "Fault" \/ (state = "Acquiring" /\ k \notin {m, m + 1})
           /\ Target!DecidePoll(state, m, k) \in {"Synchronized", "NoChange", "NewShots", "Fault"}
<1>1. CASE state = "Synchronizing"
      BY <1>1 DEF Target!DecidePoll
<1>2. CASE state = "Fault"
      BY <1>2 DEF Target!DecidePoll
<1>3. CASE state = "Acquiring"
  <2>1. CASE k = m
        BY <1>3, <2>1 DEF Target!DecidePoll
  <2>2. CASE k = m + 1
        BY <1>3, <2>2 DEF Target!DecidePoll
  <2>3. CASE k \notin {m, m + 1}
        BY <1>3, <2>3 DEF Target!DecidePoll
  <2>. QED  BY <2>1, <2>2, <2>3
<1>. QED  BY <1>1, <1>2, <1>3

LEMMA ListLength ==
    ASSUME NEW m \in Nat, NEW f, NEW list \in Seq(Int), list = [n \in 1 .. m |-> f[n]]
    PROVE  Len(list) = m
<1>1. DOMAIN list = 1 .. m /\ DOMAIN list = 1 .. Len(list) /\ Len(list) \in Nat
      OBVIOUS
<1>. QED  BY <1>1

LEMMA FlushedStands ==
    ASSUME NEW a \in Apps, NEW h, NEW s, LinkStands(a, h, s)
    PROVE  LET b == Target!FlushIfFull(a)
           IN  LinkStands(b, h, s) /\ b.last = a.last /\ b.live = a.live
<1>. DEFINE c == [a EXCEPT !.old = @ + a.base, !.base = 0, !.flush = TRUE]
<1>. DEFINE d == [c EXCEPT !.sound = FALSE]
<1>1. c \in Apps /\ c.last = a.last /\ c.live = a.live
  <2>1. a.old + a.base \in Nat
        BY DEF Apps
  <2>. DEFINE sum == a.old + a.base
  <2>. HIDE DEF sum
  <2>2. sum \in Nat /\ c = [a EXCEPT !.old = sum, !.base = 0, !.flush = TRUE]
        BY <2>1 DEF sum
  <2>. HIDE DEF c
  <2>. QED  BY <2>2 DEF Apps
<1>2. d \in Apps /\ ~d.sound /\ d.last = a.last /\ d.live = a.live
  <2>. HIDE DEF c
  <2>. QED  BY <1>1 DEF Apps
<1>3. Target!FlushIfFull(a) = a \/ Target!FlushIfFull(a) = d
      BY DEF Target!FlushIfFull, Target!Spoilt
<1>. HIDE DEF d
<1>. QED  BY <1>2, <1>3, SpoiltStands

\* One more shot in the list of those that were seen.
LEMMA OneMore ==
    ASSUME NEW m \in Nat, NEW f, NEW list, list = [n \in 1 .. m |-> f[n]], list \in Seq(Int),
           f[m + 1] \in Int
    PROVE  Append(list, f[m + 1]) = [n \in 1 .. m + 1 |-> f[n]]
<1>1. Len(list) = m
      BY ListLength
<1>2. /\ Append(list, f[m + 1]) \in Seq(Int) /\ Len(Append(list, f[m + 1])) = m + 1
      /\ \A n \in 1 .. m : Append(list, f[m + 1])[n] = list[n]
      /\ Append(list, f[m + 1])[m + 1] = f[m + 1]
      BY <1>1, AppendProperties
<1>3. Append(list, f[m + 1]) = [n \in 1 .. m + 1 |-> Append(list, f[m + 1])[n]]
      BY <1>2
<1>. QED  BY <1>2, <1>3

\* What a poll reads is taken in.
LEMMA ReadingStands ==
    ASSUME hw \in Targets, shots \in Nat, NEW a, LinkStands(a, hw, shots),
           a.last = Target!NoShot, a.live, a.modbus = "open", NEW slot \in Int,
           Target!DecidePoll(a.acq, a.base, hw.counter) = "NewShots" =>
               slot = hw.slots[hw.counter] \/ slot = Target!Centre
    PROVE  LET b == Target!Acquired(a, hw.counter, slot)
           IN  LinkStands(b, hw, shots) /\ ShotShown(b, shots) /\ b.live
<1>. DEFINE counter == hw.counter
<1>. DEFINE decision == Target!DecidePoll(a.acq, a.base, counter)
<1>. DEFINE b == [a EXCEPT !.failures = 0, !.tick = 0]
<1>0. a \in Apps /\ counter \in Nat /\ counter \in {0} \cup Target!Slots
      BY PartsAssumption DEF LinkStands, Targets, Target!Slots, Target!LinkAssumption
<1>1. /\ b \in Apps /\ b.live = a.live /\ b.seen = a.seen /\ b.acq = a.acq
      /\ b.base = a.base /\ b.old = a.old /\ b.coords = a.coords /\ b.modbus = a.modbus
      /\ b.sighter = a.sighter /\ b.flush = a.flush /\ b.ids = a.ids
      /\ b.sound = a.sound /\ b.last = a.last
      BY <1>0 DEF Apps
<1>. HIDE DEF b
<1>2. LinkStands(b, hw, shots)
      BY <1>1, LinkLeaves
<1>3. \A c : c.last = Target!NoShot => ShotShown(c, shots)
      BY DEF ShotShown
<1>4. CASE decision = "Synchronized"
  <2>. DEFINE c == [b EXCEPT !.acq = "Acquiring", !.base = counter,
                             !.sound = @ /\ a.base = counter]
  <2>1. /\ c \in Apps /\ c.acq = "Acquiring" /\ c.base = counter
        /\ c.sound = (a.sound /\ a.base = counter)
        /\ c.live = a.live /\ c.seen = a.seen /\ c.old = a.old /\ c.coords = a.coords
        /\ c.sighter = a.sighter /\ c.flush = a.flush /\ c.ids = a.ids /\ c.last = a.last
        BY <1>0, <1>1 DEF Apps
  <2>2. Target!Acquired(a, hw.counter, slot) = c
        BY <1>4 DEF Target!Acquired, b
  <2>. HIDE DEF c
  <2>3. LinkStands(c, hw, shots)
        BY <1>0, <1>1, <1>2, <2>1
        DEF LinkStands, LinkSound, FedUpTo, Target!KindOf, Apps
  <2>. QED  BY <1>3, <2>1, <2>2, <2>3
<1>5. CASE decision = "NoChange"
  <2>1. Target!Acquired(a, hw.counter, slot) = b
        BY <1>5 DEF Target!Acquired, b
  <2>. QED  BY <1>1, <1>2, <1>3, <2>1
<1>6. CASE decision = "Fault"
  <2>. DEFINE c == [b EXCEPT !.acq = "Fault"]
  <2>1. c \in Apps /\ c.live = a.live /\ c.sound = a.sound /\ c.last = a.last
        BY <1>0, <1>1 DEF Apps
  <2>2. Target!Acquired(a, hw.counter, slot) = c
        BY <1>6 DEF Target!Acquired, b
  <2>3. ~a.sound
    <3>1. SUFFICES ASSUME a.sound
                   PROVE  FALSE
          BY DEF Apps
    <3>2. a.acq # "Fault" /\ counter \in {a.base, a.base + 1} /\ a.base \in Nat
          BY <1>0, <3>1 DEF LinkStands, LinkSound, Apps
    <3>. QED  BY <1>0, <1>6, <3>2, PollDecided DEF Apps
  <2>. HIDE DEF c
  <2>. QED  BY <1>3, <2>1, <2>2, <2>3, SpoiltStands
<1>7. CASE decision = "NewShots"
  <2>. DEFINE c == [b EXCEPT !.base = counter, !.sound = @ /\ slot # Target!Centre]
  <2>. DEFINE n == Target!ShootCount(c)
  <2>. DEFINE d == Target!Announce(c, slot, n)
  <2>1. /\ c \in Apps /\ c.base = counter /\ c.sound = (a.sound /\ slot # Target!Centre)
        /\ c.live = a.live /\ c.seen = a.seen /\ c.old = a.old /\ c.coords = a.coords
        /\ c.sighter = a.sighter /\ c.flush = a.flush /\ c.ids = a.ids /\ c.last = a.last
        /\ c.acq = a.acq /\ c.modbus = a.modbus
        BY <1>0, <1>1 DEF Apps
  <2>2. Target!Acquired(a, hw.counter, slot) = Target!FlushIfFull(d)
        BY <1>7 DEF Target!Acquired, b
  <2>3. a.acq = "Acquiring" /\ counter = a.base + 1 /\ a.base \in Nat /\ a.old \in Nat
    <3>1. a.acq \in {"Synchronizing", "Acquiring", "Fault"} /\ a.base \in Nat /\ a.old \in Nat
          BY <1>0 DEF Apps
    <3>. QED  BY <1>0, <1>7, <3>1, PollDecided
  <2>. HIDE DEF c
  <2>4. n = c.old + c.base /\ n \in Nat /\ n - 1 = a.old + a.base
        BY <1>0, <2>1, <2>3 DEF Target!ShootCount
  <2>. HIDE DEF n, d
  <2>5. ASSUME c.sound
        PROVE  /\ c.seen < n /\ FedUpTo(c, n - 1) /\ Len(c.coords) = n - 1
               /\ slot = shots /\ c.modbus # "closed" /\ ~c.flush /\ c.old = 0 /\ n = counter
               /\ c.coords = [i \in 1 .. a.base |-> hw.slots[i]]
    <3>1. a.sound /\ slot # Target!Centre /\ LinkSound(a, hw, shots) /\ a.seen \in Nat
          BY <1>0, <2>1, <2>5 DEF LinkStands, Apps
    <3>2. slot = hw.slots[counter]
          BY <1>7, <3>1
    <3>3. slot = shots
          BY <2>3, <3>1, <3>2 DEF LinkSound
    <3>4. c.coords = [i \in 1 .. a.base |-> hw.slots[i]] /\ a.old = 0
          BY <2>1, <3>1 DEF LinkSound
    <3>5. Len(c.coords) = a.base
      <4>1. c.coords \in Seq(Int)
            BY <2>1 DEF Apps, Marks
      <4>. QED  BY <2>3, <3>4, <4>1, ListLength
    <3>6. FedUpTo(c, n - 1)
          BY <2>1, <2>4, <3>1 DEF LinkSound, FedUpTo, Target!KindOf
    <3>7. c.seen < n /\ ~c.flush
          BY <2>1, <2>3, <2>4, <3>1 DEF LinkSound
    <3>. QED  BY <2>1, <2>3, <2>4, <3>3, <3>4, <3>5, <3>6, <3>7
  <2>6. /\ d \in Apps /\ ShotShown(d, shots)
        /\ d.live = c.live /\ d.acq = c.acq /\ d.base = c.base /\ d.old = c.old
        /\ d.sighter = c.sighter /\ d.flush = c.flush /\ d.sound = c.sound
        /\ d.coords = Append(c.coords, slot)
        /\ c.sound => d.seen =< n /\ FedUpTo(d, n)
    <3>1. /\ c.last = Target!NoShot
          /\ c.sound => /\ n = c.old + c.base /\ c.seen < n
                        /\ FedUpTo(c, n - 1) /\ Len(c.coords) = n - 1 /\ slot = shots
                        /\ (c.live => c.modbus # "closed")
          BY <2>1, <2>4, <2>5
    <3>2. n = c.old + c.base /\ slot \in Int
          BY <2>4
    <3>. QED  BY ONLY <2>1, <2>4, <3>1, <3>2, ShotAnnounced, ZenonT(60) DEF d
  <2>7. LinkStands(d, hw, shots)
    <3>1. SUFFICES ASSUME d.sound
                   PROVE  LinkSound(d, hw, shots)
          BY <2>6 DEF LinkStands
    <3>2. d.coords = [i \in 1 .. a.base + 1 |-> hw.slots[i]]
      <4>1. c.coords \in Seq(Int)
            BY <2>1 DEF Apps, Marks
      <4>2. slot = hw.slots[a.base + 1]
        <5>1. slot # Target!Centre
              BY <2>1, <2>6, <3>1
        <5>. QED  BY <1>7, <2>3, <5>1
      <4>3. c.coords = [i \in 1 .. a.base |-> hw.slots[i]]
            BY <2>5, <2>6, <3>1
      <4>4. Append(c.coords, hw.slots[a.base + 1]) = [i \in 1 .. a.base + 1 |-> hw.slots[i]]
        <5>. DEFINE f == hw.slots
        <5>1. a.base \in Nat /\ f[a.base + 1] \in Int
              BY <2>3, <4>2
        <5>2. c.coords = [i \in 1 .. a.base |-> f[i]]
              BY <4>3
        <5>3. Append(c.coords, f[a.base + 1]) = [i \in 1 .. a.base + 1 |-> f[i]]
          <6>. HIDE DEF f
          <6>. QED  BY <4>1, <5>1, <5>2, OneMore
        <5>. QED  BY <5>3
      <4>. QED  BY <2>6, <4>2, <4>4
    <3>. QED  BY <1>0, <2>1, <2>3, <2>4, <2>5, <2>6, <3>1, <3>2 DEF LinkSound
  <2>. QED  BY <2>1, <2>2, <2>6, <2>7, FlushedStands DEF ShotShown
<1>8. decision \in {"Synchronized", "NoChange", "NewShots", "Fault"}
      BY <1>0, PollDecided DEF Apps
<1>. QED  BY <1>4, <1>5, <1>6, <1>7, <1>8

\* What an attempt to reconnect, and a poll, can come to.
LEMMA ReconnectStands ==
    ASSUME hw \in Targets, shots \in Nat, NEW a, LinkStands(a, hw, shots),
           a.last = Target!NoShot, a.live, NEW p \in Target!ReconnectOutcomes(a)
    PROVE  LinkStands(p.app, hw, shots) /\ p.app.last = Target!NoShot /\ p.app.live
<1>. DEFINE c == [a EXCEPT !.modbus = "open"]
<1>. DEFINE d == Target!Reconnected(c)
<1>0. a \in Apps /\ hw.counter \in Nat
      BY PartsAssumption DEF LinkStands, Targets, Target!Slots, Target!LinkAssumption
<1>1. /\ c \in Apps /\ c.live = a.live /\ c.seen = a.seen /\ c.acq = a.acq
      /\ c.base = a.base /\ c.old = a.old /\ c.coords = a.coords
      /\ c.sighter = a.sighter /\ c.flush = a.flush /\ c.ids = a.ids
      /\ c.sound = a.sound /\ c.last = a.last
      BY <1>0 DEF Apps
<1>2. p.app \in {a, c, d}
      BY DEF Target!ReconnectOutcomes, Target!ReadOutcomes, Target!Outcome, Target!Stays
<1>. HIDE DEF c
<1>3. LinkStands(c, hw, shots)
      BY <1>1, LinkLeaves
<1>4. /\ d \in Apps /\ d.base = hw.counter /\ d.acq = "Synchronizing"
      /\ d.sound = (c.sound /\ c.base = hw.counter)
      /\ d.live = c.live /\ d.seen = c.seen /\ d.old = c.old /\ d.coords = c.coords
      /\ d.sighter = c.sighter /\ d.flush = c.flush /\ d.ids = c.ids /\ d.last = c.last
      BY <1>0, <1>1 DEF Apps, Target!Reconnected
<1>. HIDE DEF d
<1>5. LinkStands(d, hw, shots)
      BY <1>0, <1>1, <1>3, <1>4 DEF LinkStands, LinkSound, FedUpTo, Target!KindOf, Apps
<1>. QED  BY <1>1, <1>2, <1>3, <1>4, <1>5

LEMMA AcquireStands ==
    ASSUME hw \in Targets, shots \in Nat, NEW a, LinkStands(a, hw, shots),
           a.last = Target!NoShot, a.live, NEW p \in Target!AcquireOutcomes(a)
    PROVE  LinkStands(p.app, hw, shots) /\ ShotShown(p.app, shots) /\ p.app.live
<1>. DEFINE new == Target!DecidePoll(a.acq, a.base, hw.counter) = "NewShots"
<1>. DEFINE c == [a EXCEPT !.tick = 0]
<1>0. a \in Apps /\ hw.counter \in {0} \cup Target!Slots
      BY DEF LinkStands, Targets
<1>1. \/ p.app = Target!ReadFailed(c)
      \/ a.modbus = "open" /\ ~new /\ p.app = Target!Acquired(a, hw.counter, Target!Nowhere)
      \/ a.modbus = "open" /\ new /\ p.app = Target!Acquired(a, hw.counter, hw.slots[hw.counter])
      \/ a.modbus = "open" /\ new /\ p.app = Target!Acquired(a, hw.counter, Target!Centre)
  <2>1. CASE a.modbus = "open" /\ new
        BY <2>1 DEF Target!AcquireOutcomes, Target!Outcome, Target!Answers
  <2>2. CASE a.modbus = "open" /\ ~new
        BY <2>2 DEF Target!AcquireOutcomes, Target!Outcome, Target!Answers
  <2>3. CASE a.modbus # "open"
        BY <2>3 DEF Target!AcquireOutcomes, Target!Outcome, Target!Answers
  <2>. QED  BY <2>1, <2>2, <2>3
<1>2. CASE p.app = Target!ReadFailed(c)
  <2>1. /\ c \in Apps /\ c.live = a.live /\ c.seen = a.seen /\ c.acq = a.acq
        /\ c.base = a.base /\ c.old = a.old /\ c.coords = a.coords
        /\ c.sighter = a.sighter /\ c.flush = a.flush /\ c.ids = a.ids
        /\ c.sound = a.sound /\ c.last = a.last
        BY <1>0 DEF Apps
  <2>. HIDE DEF c
  <2>2. LinkStands(c, hw, shots)
        BY <2>1, LinkLeaves
  <2>. QED  BY <1>2, <2>1, <2>2, ReadFails DEF ShotShown
<1>3. CASE a.modbus = "open" /\ ~new /\ p.app = Target!Acquired(a, hw.counter, Target!Nowhere)
  <2>1. Target!Nowhere \in Int
        BY DEF Target!Nowhere
  <2>. QED  BY <1>3, <2>1, ReadingStands
<1>4. CASE a.modbus = "open" /\ new
             /\ p.app = Target!Acquired(a, hw.counter, hw.slots[hw.counter])
  <2>1. hw.counter \in Target!Slots
    <3>1. a.base \in Nat /\ hw.counter \in Nat
             /\ a.acq \in {"Synchronizing", "Acquiring", "Fault"}
          BY <1>0, PartsAssumption DEF Apps, Target!Slots, Target!LinkAssumption
    <3>2. hw.counter = a.base + 1
          BY <1>4, <3>1, PollDecided
    <3>. QED  BY <1>0, <3>1, <3>2
  <2>2. hw.slots[hw.counter] \in Int
        BY <2>1 DEF Targets
  <2>. QED  BY <1>4, <2>2, ReadingStands
<1>5. CASE a.modbus = "open" /\ new /\ p.app = Target!Acquired(a, hw.counter, Target!Centre)
  <2>1. Target!Centre \in Int
        BY DEF Target!Centre
  <2>. QED  BY <1>5, <2>1, ReadingStands
<1>. QED  BY <1>1, <1>2, <1>3, <1>4, <1>5

LEMMA PollStands ==
    ASSUME hw \in Targets, shots \in Nat, NEW a, LinkStands(a, hw, shots),
           a.last = Target!NoShot, NEW p \in Target!PollOutcomes(a)
    PROVE  LinkStands(p.app, hw, shots) /\ ShotShown(p.app, shots) /\ p.app.live = a.live
<1>. DEFINE ticked == [a EXCEPT !.tick = @ + 1]
<1>. DEFINE reset == [a EXCEPT !.tick = 0]
<1>0. a \in Apps /\ a.link \in {"Connected", "Reconnecting"}
      BY DEF LinkStands, Apps
<1>1. \/ p.app = a
      \/ a.live /\ p \in Target!ReconnectOutcomes(a)
      \/ p.app \in {ticked, reset, Target!OnTargetLinkLost(reset)}
      \/ a.live /\ p \in Target!AcquireOutcomes(a)
  <2>1. CASE ~a.live
        BY <2>1 DEF Target!PollOutcomes, Target!Outcome
  <2>2. CASE a.live /\ a.link # "Connected"
        BY <2>2 DEF Target!PollOutcomes, Target!Outcome
  <2>3. CASE a.live /\ a.link = "Connected" /\ a.home
    <3>1. Target!PollOutcomes(a) =
              IF a.tick + 1 < LivenessPolls THEN {Target!Outcome(ticked, 0)}
              ELSE Target!ReadOutcomes(reset, Target!Stays, Target!OnTargetLinkLost)
          BY <2>3 DEF Target!PollOutcomes
    <3>2. \/ p = Target!Outcome(ticked, 0)
          \/ p \in Target!ReadOutcomes(reset, Target!Stays, Target!OnTargetLinkLost)
          BY <3>1
    <3>3. p \in Target!ReadOutcomes(reset, Target!Stays, Target!OnTargetLinkLost)
             => p.app \in {reset, Target!OnTargetLinkLost(reset)}
      <4>. HIDE DEF reset
      <4>. QED  BY DEF Target!ReadOutcomes, Target!Stays, Target!Outcome
    <3>4. p = Target!Outcome(ticked, 0) => p.app = ticked
      <4>. HIDE DEF ticked
      <4>. QED  BY DEF Target!Outcome
    <3>. QED  BY ONLY <3>2, <3>3, <3>4
  <2>4. CASE a.live /\ a.link = "Connected" /\ ~a.home
        BY <2>4 DEF Target!PollOutcomes, Target!Outcome
  <2>. QED  BY <1>0, <2>1, <2>2, <2>3, <2>4 DEF Apps
<1>2. \A b : /\ b \in {ticked, reset}
             => /\ b \in Apps /\ b.live = a.live /\ b.seen = a.seen /\ b.acq = a.acq
                /\ b.base = a.base /\ b.old = a.old /\ b.coords = a.coords
                /\ b.sighter = a.sighter /\ b.flush = a.flush /\ b.ids = a.ids
                /\ b.sound = a.sound /\ b.last = a.last
      BY <1>0 DEF Apps
<1>. HIDE DEF ticked, reset
<1>3. LinkStands(ticked, hw, shots) /\ LinkStands(reset, hw, shots)
      BY <1>2, LinkLeaves
<1>4. /\ LinkStands(Target!OnTargetLinkLost(reset), hw, shots)
      /\ Target!OnTargetLinkLost(reset).last = a.last
      /\ Target!OnTargetLinkLost(reset).live = a.live
      BY <1>2, <1>3, LinkLost, LinkLeaves
<1>5. \A b : b.last = Target!NoShot => ShotShown(b, shots)
      BY DEF ShotShown
<1>6. CASE p.app = a
      BY <1>5, <1>6
<1>7. CASE a.live /\ p \in Target!ReconnectOutcomes(a)
      BY <1>5, <1>7, ReconnectStands
<1>8. CASE p.app \in {ticked, reset, Target!OnTargetLinkLost(reset)}
      BY <1>2, <1>3, <1>4, <1>5, <1>8
<1>9. CASE a.live /\ p \in Target!AcquireOutcomes(a)
      BY <1>9, AcquireStands
<1>. QED  BY <1>1, <1>6, <1>7, <1>8, <1>9

\* A reset begins a sound numbering, if the page is fresh.
LEMMA ResetApp ==
    ASSUME NEW a \in Apps, hw \in Targets, NEW r \in Target!ResetOutcomes(a)
    PROVE  /\ r.app \in Apps /\ r.app.live = a.live /\ r.app.last = a.last
           /\ r.counter \in {0, hw.counter}
           /\ r.app.acq = "Synchronizing" /\ r.app.old = 0 /\ r.app.coords = << >>
           /\ r.app.ids = << >> /\ r.app.flush = a.flush
           /\ r.app.sound => ~a.flush /\ r.app.base = 0 /\ (a.live => r.counter = 0)
<1>0. hw.counter \in Nat
      BY PartsAssumption DEF Targets, Target!Slots, Target!LinkAssumption
<1>1. PICK left \in {0, hw.counter}, read \in BOOLEAN :
          r.app = Target!ResetShootinCount(a, left, read) /\ r.counter = left
  <2>. DEFINE tries == IF a.live /\ Target!Answers(a) THEN BOOLEAN ELSE {FALSE}
  <2>. DEFINE Cost(done) == IF TRUE \in tries /\ ~done THEN 1 ELSE 0
  <2>. DEFINE kept(honoured) == IF honoured THEN 0 ELSE hw.counter
  <2>1. PICK honoured \in tries, read \in tries :
            r = [app |-> Target!ResetShootinCount(a, kept(honoured), read),
                 counter |-> kept(honoured), cost |-> Cost(honoured) + Cost(read)]
    <3>. HIDE DEF tries
    <3>1. Target!ResetOutcomes(a) =
             {[app |-> Target!ResetShootinCount(a, kept(honoured), read),
               counter |-> kept(honoured), cost |-> Cost(honoured) + Cost(read)] :
                 honoured \in tries, read \in tries}
          BY DEF Target!ResetOutcomes, tries
    <3>. HIDE DEF kept, Cost
    <3>. QED  BY <3>1
  <2>2. tries \subseteq BOOLEAN /\ kept(honoured) \in {0, hw.counter}
        OBVIOUS
  <2>. HIDE DEF kept, Cost, tries
  <2>3. honoured \in BOOLEAN /\ read \in BOOLEAN
        BY <2>2
  <2>4. r.app = Target!ResetShootinCount(a, kept(honoured), read) /\ r.counter = kept(honoured)
        BY <2>1
  <2>. QED  BY <2>2, <2>3, <2>4
<1>. DEFINE base == IF a.live /\ read THEN left ELSE 0
<1>. DEFINE sound == ~a.flush /\ (a.live => left = 0)
<1>. DEFINE b == [a EXCEPT !.base = base, !.old = 0, !.ids = << >>, !.acq = "Synchronizing",
                           !.coords = << >>, !.sound = sound]
<1>2. base \in Nat /\ sound \in BOOLEAN /\ (sound => base = 0)
      BY <1>0, <1>1 DEF Apps
<1>3. r.app = b
      BY <1>1 DEF Target!ResetShootinCount
<1>4. << >> \in Marks /\ << >> \in Identities
      BY DEF Marks, Identities
<1>5. sound => ~a.flush /\ (a.live => left = 0)
      OBVIOUS
<1>. HIDE DEF base, sound
<1>6. /\ b \in Apps /\ b.live = a.live /\ b.last = a.last /\ b.acq = "Synchronizing"
      /\ b.old = 0 /\ b.coords = << >> /\ b.ids = << >> /\ b.flush = a.flush
      /\ b.sound = sound /\ b.base = base
      BY <1>2, <1>4 DEF Apps
<1>. HIDE DEF b
<1>. QED  BY <1>1, <1>2, <1>3, <1>5, <1>6

LEMMA ResetStands ==
    ASSUME NEW a \in Apps, hw \in Targets, NEW r \in Target!ResetOutcomes(a), NEW b \in Apps,
           b.live = r.app.live, b.acq = r.app.acq, b.base = r.app.base, b.old = r.app.old,
           b.coords = r.app.coords, b.flush = r.app.flush, b.ids = r.app.ids,
           b.sound => r.app.sound /\ b.seen = 0, NEW h, h.counter = r.counter, NEW s
    PROVE  LinkStands(b, h, s)
<1>1. SUFFICES ASSUME b.sound
               PROVE  LinkSound(b, h, s)
      BY DEF LinkStands
<1>2. /\ ~b.flush /\ b.old = 0 /\ b.base = 0 /\ b.seen = 0 /\ b.acq = "Synchronizing"
      /\ b.coords = << >> /\ b.ids = << >> /\ (b.live => h.counter = 0)
      BY <1>1, ResetApp
<1>3. << >> = [n \in 1 .. 0 |-> h.slots[n]] /\ Len(<< >>) = 0 /\ DOMAIN << >> = {}
      OBVIOUS
<1>4. FedUpTo(b, 0)
      BY <1>2, <1>3 DEF FedUpTo
<1>. QED  BY <1>2, <1>3, <1>4 DEF LinkSound

\* Back to the sighters, into a page, and a connection made by hand.
LEMMA SightersStand ==
    ASSUME NEW a, NEW h, NEW s, LinkStands(a, h, s)
    PROVE  LET b == Target!ChangeToSighters(a)
           IN  LinkStands(b, h, s) /\ b.last = a.last /\ b.live = a.live
<1>. DEFINE c == [a EXCEPT !.sighter = TRUE, !.coords = << >>,
                           !.base = a.saved.base, !.old = a.saved.old]
<1>. DEFINE d == [c EXCEPT !.sound = FALSE]
<1>1. a \in Apps /\ << >> \in Marks /\ a.saved.base \in Nat /\ a.saved.old \in Nat
      BY DEF LinkStands, Apps, Marks, Counts
<1>2. c \in Apps /\ c.last = a.last /\ c.live = a.live
      BY <1>1 DEF Apps
<1>3. d \in Apps /\ ~d.sound /\ d.last = a.last /\ d.live = a.live
  <2>. HIDE DEF c
  <2>. QED  BY <1>2 DEF Apps
<1>4. Target!ChangeToSighters(a) \in {a, d}
      BY DEF Target!ChangeToSighters, Target!Spoilt
<1>. HIDE DEF d
<1>. QED  BY <1>3, <1>4, SpoiltStands

LEMMA EnteredStands ==
    ASSUME NEW a, NEW h, NEW s, LinkStands(a, h, s), NEW sighters
    PROVE  LET b == Target!Entered(a, sighters)
           IN  LinkStands(b, h, s) /\ b.last = a.last /\ b.live = a.live
<1>. DEFINE c == [a EXCEPT !.home = FALSE]
<1>1. /\ c \in Apps /\ c.live = a.live /\ c.seen = a.seen /\ c.acq = a.acq
      /\ c.base = a.base /\ c.old = a.old /\ c.coords = a.coords
      /\ c.sighter = a.sighter /\ c.flush = a.flush /\ c.ids = a.ids
      /\ c.sound = a.sound /\ c.last = a.last
      BY DEF LinkStands, Apps
<1>2. Target!Entered(a, sighters) \in {c, Target!ChangeToSighters(c)}
      BY DEF Target!Entered
<1>. HIDE DEF c
<1>3. LinkStands(c, h, s)
      BY <1>1, LinkLeaves
<1>. QED  BY <1>1, <1>2, <1>3, SightersStand

LEMMA ClearedStands ==
    ASSUME NEW a, NEW h, NEW s, LinkStands(a, h, s)
    PROVE  LET b == Target!ClearShootCount(a)
           IN  LinkStands(b, h, s) /\ b.last = a.last /\ b.live = a.live
<1>. DEFINE sum == a.old + a.base
<1>. DEFINE sound == a.sound /\ a.base = 0
<1>. DEFINE b == [a EXCEPT !.old = sum, !.base = 0, !.sound = sound]
<1>1. a \in Apps /\ sum \in Nat /\ sound \in BOOLEAN
      BY DEF LinkStands, Apps
<1>2. Target!ClearShootCount(a) = b
      BY DEF Target!ClearShootCount
<1>3. sound => a.sound /\ a.base = 0 /\ sum = a.old
      BY <1>1 DEF Apps
<1>. HIDE DEF sum, sound
<1>4. /\ b \in Apps /\ b.live = a.live /\ b.seen = a.seen /\ b.acq = a.acq
      /\ b.base = 0 /\ b.old = sum /\ b.coords = a.coords
      /\ b.sighter = a.sighter /\ b.flush = a.flush /\ b.ids = a.ids
      /\ b.sound = sound /\ b.last = a.last
      BY <1>1 DEF Apps
<1>. HIDE DEF b
<1>5. b.sound => LinkStands(b, h, s)
      BY <1>3, <1>4, LinkLeaves
<1>6. ~b.sound => LinkStands(b, h, s)
      BY <1>4, SpoiltStands
<1>. QED  BY <1>2, <1>4, <1>5, <1>6

\* The last shot of a step is gone at the next one.
LEMMA NowStands ==
    ASSUME LinkInv
    PROVE  LET a == Target!Now
           IN  /\ a \in Apps /\ LinkStands(a, hw, shots) /\ a.last = Target!NoShot
               /\ a.live = app.live /\ a.seen = app.seen /\ a.acq = app.acq
               /\ a.base = app.base /\ a.old = app.old /\ a.coords = app.coords
               /\ a.sighter = app.sighter /\ a.flush = app.flush /\ a.ids = app.ids
               /\ a.sound = app.sound /\ a.modbus = app.modbus /\ a.saved = app.saved
<1>1. Target!NoShot \in LastShots
      BY DEF LastShots
<1>. DEFINE a == Target!Now
<1>2. /\ a \in Apps /\ a.last = Target!NoShot
      /\ a.live = app.live /\ a.seen = app.seen /\ a.acq = app.acq
      /\ a.base = app.base /\ a.old = app.old /\ a.coords = app.coords
      /\ a.sighter = app.sighter /\ a.flush = app.flush /\ a.ids = app.ids
      /\ a.sound = app.sound /\ a.modbus = app.modbus /\ a.saved = app.saved
      BY <1>1 DEF Target!Now, LinkInv, LinkStands, Apps
<1>. HIDE DEF a
<1>3. LinkStands(a, hw, shots)
      BY <1>2, LinkLeaves DEF LinkInv
<1>. QED  BY <1>2, <1>3 DEF a

\* The steps of the link, one by one.
LEMMA FireLinked ==
    ASSUME LinkInv, Target!Fire
    PROVE  LinkInv'
<1>. DEFINE a == Target!Now
<1>. DEFINE k == hw.counter + 1
<1>. DEFINE sound == a.sound /\ Target!Listening
<1>. DEFINE b == [a EXCEPT !.sound = sound]
<1>1. /\ a \in Apps /\ LinkStands(a, hw, shots) /\ a.last = Target!NoShot /\ a.live
      /\ a.base = app.base /\ a.acq = app.acq /\ a.sound \in BOOLEAN
  <2>1. /\ a \in Apps /\ LinkStands(a, hw, shots) /\ a.last = Target!NoShot
        /\ a.live = app.live /\ a.base = app.base /\ a.acq = app.acq
        BY NowStands
  <2>2. app.live
        BY DEF Target!Fire
  <2>. HIDE DEF a
  <2>. QED  BY <2>1, <2>2 DEF Apps
<1>2. /\ hw \in Targets /\ shots \in Nat /\ shots' = shots + 1 /\ k \in Target!Slots
      /\ hw' = [hw EXCEPT !.counter = k, !.slots[k] = shots + 1] /\ app' = b
      BY DEF Target!Fire, LinkInv
<1>. HIDE DEF a, k, sound
<1>3. /\ b \in Apps /\ b.last = a.last /\ b.live = a.live /\ b.seen = a.seen /\ b.acq = a.acq
      /\ b.base = a.base /\ b.old = a.old /\ b.coords = a.coords
      /\ b.sighter = a.sighter /\ b.flush = a.flush /\ b.ids = a.ids /\ b.sound = sound
  <2>1. sound \in BOOLEAN
        BY <1>1 DEF sound, Target!Listening
  <2>. QED  BY <1>1, <2>1 DEF Apps
<1>4. /\ hw' \in Targets /\ hw'.counter = k /\ hw'.slots[k] = shots'
      /\ \A n \in Target!Slots : n # k => hw'.slots[n] = hw.slots[n]
  <2>1. hw.slots \in [Target!Slots -> Nat]
        BY <1>2 DEF Targets
  <2>. DEFINE slots == [hw.slots EXCEPT ![k] = shots + 1]
  <2>2. /\ slots \in [Target!Slots -> Nat] /\ slots[k] = shots + 1
        /\ \A n \in Target!Slots : n # k => slots[n] = hw.slots[n]
        BY <1>2, <2>1
  <2>3. hw' = [hw EXCEPT !.counter = k, !.slots = slots]
    <3>. DEFINE g == [hw EXCEPT !.counter = k]
    <3>1. g.slots = hw.slots
          BY <1>2 DEF Targets
    <3>2. hw' = [g EXCEPT !.slots = [g.slots EXCEPT ![k] = shots + 1]]
          BY <1>2
    <3>. HIDE DEF g
    <3>3. hw' = [g EXCEPT !.slots = slots]
          BY <3>1, <3>2
    <3>. QED  BY <3>3 DEF g
  <2>. HIDE DEF slots
  <2>4. hw' \in Targets /\ hw'.counter = k /\ hw'.slots = slots
        BY <1>2, <2>2, <2>3 DEF Targets
  <2>. QED  BY <1>2, <2>2, <2>4
<1>. HIDE DEF b
<1>5. LinkStands(b, hw', shots')
  <2>1. SUFFICES ASSUME sound
                 PROVE  LinkSound(b, hw', shots')
        BY <1>3 DEF LinkStands
  <2>2. /\ a.sound /\ a.acq = "Acquiring" /\ hw.counter = a.base /\ k = a.base + 1
        /\ LinkSound(a, hw, shots) /\ a.base \in Nat
        BY <1>1, <2>1 DEF sound, Target!Listening, k, LinkStands, Apps
  <2>3. \A n \in 1 .. a.base : hw'.slots[n] = hw.slots[n]
    <3>1. \A n \in 1 .. a.base : n \in Target!Slots /\ n # k
          BY <1>2, <2>2, PartsAssumption DEF Target!Slots, Target!LinkAssumption
    <3>. QED  BY <1>4, <3>1
  <2>4. b.coords = [n \in 1 .. b.base |-> hw'.slots[n]]
        BY <1>1, <1>3, <2>2, <2>3 DEF LinkSound
  <2>. QED  BY <1>1, <1>3, <1>4, <2>2, <2>4 DEF LinkSound, FedUpTo, Target!KindOf
<1>6. ShotShown(b, shots')
      BY <1>1, <1>3 DEF ShotShown
<1>. QED  BY <1>2, <1>4, <1>5, <1>6 DEF LinkInv

LEMMA PowerFailsLinked ==
    ASSUME LinkInv, Target!PowerFails
    PROVE  LinkInv'
<1>. DEFINE a == Target!Now
<1>. DEFINE sound == a.sound /\ hw.counter = 0
<1>. DEFINE b == [a EXCEPT !.sound = sound]
<1>1. /\ a \in Apps /\ LinkStands(a, hw, shots) /\ a.last = Target!NoShot /\ a.live
  <2>1. /\ a \in Apps /\ LinkStands(a, hw, shots) /\ a.last = Target!NoShot
        /\ a.live = app.live
        BY NowStands
  <2>2. app.live
        BY DEF Target!PowerFails
  <2>. HIDE DEF a
  <2>. QED  BY <2>1, <2>2 DEF Apps
<1>2. /\ hw \in Targets /\ shots \in Nat /\ shots' = shots /\ app' = b
      /\ hw' = [hw EXCEPT !.counter = 0, !.slots = [n \in Target!Slots |-> 0]]
      BY DEF Target!PowerFails, LinkInv
<1>. HIDE DEF a, sound
<1>3. /\ b \in Apps /\ b.last = a.last /\ b.live = a.live /\ b.seen = a.seen /\ b.acq = a.acq
      /\ b.base = a.base /\ b.old = a.old /\ b.coords = a.coords
      /\ b.sighter = a.sighter /\ b.flush = a.flush /\ b.ids = a.ids /\ b.sound = sound
  <2>1. sound \in BOOLEAN
        BY <1>1 DEF sound, Apps
  <2>. QED  BY <1>1, <2>1 DEF Apps
<1>4. hw' \in Targets /\ hw'.counter = 0
      BY <1>2 DEF Targets
<1>. HIDE DEF b
<1>5. LinkStands(b, hw', shots')
  <2>1. SUFFICES ASSUME sound
                 PROVE  LinkSound(b, hw', shots')
        BY <1>3 DEF LinkStands
  <2>2. a.sound /\ LinkSound(a, hw, shots) /\ a.base = 0
        BY <1>1, <2>1 DEF sound, LinkStands, LinkSound, Apps
  <2>3. b.coords = [n \in 1 .. b.base |-> hw'.slots[n]]
        BY <1>1, <1>3, <2>2 DEF LinkSound
  <2>. QED  BY <1>1, <1>3, <1>4, <2>2, <2>3 DEF LinkSound, FedUpTo, Target!KindOf
<1>6. ShotShown(b, shots')
      BY <1>1, <1>3 DEF ShotShown
<1>. QED  BY <1>2, <1>4, <1>5, <1>6 DEF LinkInv

\* The cable, the port, and the page: the numbering is not asked.
LEMMA LinkMoved ==
    ASSUME LinkInv, hw' \in Targets, hw'.counter = hw.counter, hw'.slots = hw.slots,
           shots' = shots, app' \in Apps, app'.live = app.live,
           app'.seen = app.seen \/ app'.seen = 0, app'.acq = app.acq, app'.base = app.base,
           app'.old = app.old, app'.coords = app.coords, app'.sighter = app.sighter,
           app'.flush = app.flush, app'.ids = app.ids, app'.sound => app.sound,
           app'.last = Target!NoShot
    PROVE  LinkInv'
<1>1. LinkStands(app', hw, shots)
      BY LinkLeaves DEF LinkInv
<1>2. LinkStands(app', hw', shots')
      BY <1>1 DEF LinkStands, LinkSound
<1>. QED  BY <1>2 DEF LinkInv, ShotShown

LEMMA CableLinked ==
    ASSUME LinkInv, Target!CablePulled \/ Target!CablePlugged
    PROVE  LinkInv'
<1>. DEFINE a == Target!Now
<1>1. /\ a \in Apps /\ a.last = Target!NoShot
      /\ a.live = app.live /\ a.seen = app.seen /\ a.acq = app.acq
      /\ a.base = app.base /\ a.old = app.old /\ a.coords = app.coords
      /\ a.sighter = app.sighter /\ a.flush = app.flush /\ a.ids = app.ids
      /\ a.sound = app.sound
      BY NowStands
<1>2. hw \in Targets
      BY DEF LinkInv
<1>3. CASE Target!CablePulled
  <2>. DEFINE modbus == IF a.modbus = "open" THEN "dead" ELSE a.modbus
  <2>1. /\ app' = [a EXCEPT !.modbus = modbus] /\ hw' = [hw EXCEPT !.plugged = FALSE]
        /\ shots' = shots
        BY <1>3 DEF Target!CablePulled
  <2>. HIDE DEF a
  <2>2. modbus \in {"closed", "open", "dead"}
        BY <1>1 DEF Apps
  <2>. HIDE DEF modbus
  <2>3. hw' \in Targets /\ hw'.counter = hw.counter /\ hw'.slots = hw.slots
        BY <1>2, <2>1 DEF Targets
  <2>4. /\ app' \in Apps /\ app'.last = a.last
        /\ app'.live = a.live /\ app'.seen = a.seen /\ app'.acq = a.acq
        /\ app'.base = a.base /\ app'.old = a.old /\ app'.coords = a.coords
        /\ app'.sighter = a.sighter /\ app'.flush = a.flush /\ app'.ids = a.ids
        /\ app'.sound = a.sound
        BY <1>1, <2>1, <2>2 DEF Apps
  <2>. QED  BY <1>1, <2>1, <2>3, <2>4, LinkMoved
<1>4. CASE Target!CablePlugged
  <2>1. app' = a /\ hw' = [hw EXCEPT !.plugged = TRUE] /\ shots' = shots
        BY <1>4 DEF Target!CablePlugged
  <2>. HIDE DEF a
  <2>3. hw' \in Targets /\ hw'.counter = hw.counter /\ hw'.slots = hw.slots
        BY <1>2, <2>1 DEF Targets
  <2>. QED  BY <1>1, <2>1, <2>3, LinkMoved
<1>. QED  BY <1>3, <1>4

LEMMA PageLinked ==
    ASSUME LinkInv, Target!DisconnectModbus \/ Target!GoHome
    PROVE  LinkInv'
<1>. DEFINE a == Target!Now
<1>1. /\ a \in Apps /\ a.last = Target!NoShot
      /\ a.live = app.live /\ a.seen = app.seen /\ a.acq = app.acq
      /\ a.base = app.base /\ a.old = app.old /\ a.coords = app.coords
      /\ a.sighter = app.sighter /\ a.flush = app.flush /\ a.ids = app.ids
      /\ a.sound = app.sound
      BY NowStands
<1>2. hw \in Targets /\ hw' = hw /\ shots' = shots
      BY DEF LinkInv, Target!DisconnectModbus, Target!GoHome
<1>3. \/ app' = [a EXCEPT !.modbus = "closed"]
      \/ app' = [a EXCEPT !.home = TRUE, !.seen = 0]
      BY DEF Target!DisconnectModbus, Target!GoHome
<1>. HIDE DEF a
<1>4. CASE app' = [a EXCEPT !.modbus = "closed"]
  <2>1. /\ app' \in Apps /\ app'.last = a.last
        /\ app'.live = a.live /\ app'.seen = a.seen /\ app'.acq = a.acq
        /\ app'.base = a.base /\ app'.old = a.old /\ app'.coords = a.coords
        /\ app'.sighter = a.sighter /\ app'.flush = a.flush /\ app'.ids = a.ids
        /\ app'.sound = a.sound
        BY <1>1, <1>4 DEF Apps
  <2>. QED  BY <1>1, <1>2, <2>1, LinkMoved
<1>5. CASE app' = [a EXCEPT !.home = TRUE, !.seen = 0]
  <2>1. /\ app' \in Apps /\ app'.last = a.last
        /\ app'.live = a.live /\ app'.seen = 0 /\ app'.acq = a.acq
        /\ app'.base = a.base /\ app'.old = a.old /\ app'.coords = a.coords
        /\ app'.sighter = a.sighter /\ app'.flush = a.flush /\ app'.ids = a.ids
        /\ app'.sound = a.sound
        BY <1>1, <1>5 DEF Apps
  <2>. QED  BY <1>1, <1>2, <2>1, LinkMoved
<1>. QED  BY <1>3, <1>4, <1>5

LEMMA FlushLinked ==
    ASSUME LinkInv, Target!FlushWritten
    PROVE  LinkInv'
<1>. DEFINE a == Target!Now
<1>. DEFINE b == [a EXCEPT !.flush = FALSE]
<1>1. /\ a \in Apps /\ LinkStands(a, hw, shots) /\ a.last = Target!NoShot /\ a.flush
  <2>1. /\ a \in Apps /\ LinkStands(a, hw, shots) /\ a.last = Target!NoShot
        /\ a.flush = app.flush
        BY NowStands
  <2>2. app.flush
        BY DEF Target!FlushWritten
  <2>. HIDE DEF a
  <2>. QED  BY <2>1, <2>2 DEF Apps
<1>2. /\ hw \in Targets /\ shots \in Nat /\ shots' = shots /\ app' = b
      /\ hw' = hw \/ hw' = [hw EXCEPT !.counter = 0]
      BY DEF Target!FlushWritten, LinkInv
<1>. HIDE DEF a
<1>3. b \in Apps /\ b.last = a.last /\ b.sound = a.sound
      BY <1>1 DEF Apps
<1>4. hw' \in Targets
      BY <1>2 DEF Targets
<1>. HIDE DEF b
<1>5. ~b.sound
      BY <1>1, <1>3 DEF LinkStands, LinkSound
<1>. QED  BY <1>1, <1>2, <1>3, <1>4, <1>5, SpoiltStands DEF LinkInv, ShotShown

LEMMA PollLinked ==
    ASSUME LinkInv, Target!Poll
    PROVE  LinkInv'
<1>. DEFINE a == Target!Now
<1>1. a \in Apps /\ LinkStands(a, hw, shots) /\ a.last = Target!NoShot
      BY NowStands
<1>2. hw \in Targets /\ shots \in Nat /\ hw' = hw /\ shots' = shots
      BY DEF LinkInv, Target!Poll
<1>3. PICK p \in Target!PollOutcomes(a) : app' = p.app
      BY DEF Target!Poll
<1>. HIDE DEF a
<1>4. LinkStands(p.app, hw, shots) /\ ShotShown(p.app, shots)
      BY <1>1, <1>2, PollStands
<1>5. LinkStands(app', hw', shots') /\ ShotShown(app', shots')
      BY <1>2, <1>3, <1>4
<1>. QED  BY <1>2, <1>5 DEF LinkInv

LEMMA ConnectLinked ==
    ASSUME LinkInv, Target!Connect
    PROVE  LinkInv'
<1>. DEFINE a == Target!Now
<1>. DEFINE c == [a EXCEPT !.modbus = "open"]
<1>1. a \in Apps /\ LinkStands(a, hw, shots) /\ a.last = Target!NoShot
      BY NowStands
<1>2. hw \in Targets /\ shots \in Nat /\ hw' = hw /\ shots' = shots
      BY DEF LinkInv, Target!Connect
<1>3. app' = Target!ClearShootCount(c)
      BY DEF Target!Connect
<1>. HIDE DEF a
<1>4. /\ c \in Apps /\ c.last = a.last
      /\ c.live = a.live /\ c.seen = a.seen /\ c.acq = a.acq
      /\ c.base = a.base /\ c.old = a.old /\ c.coords = a.coords
      /\ c.sighter = a.sighter /\ c.flush = a.flush /\ c.ids = a.ids
      /\ c.sound = a.sound
      BY <1>1 DEF Apps
<1>. HIDE DEF c
<1>5. LinkStands(c, hw, shots)
      BY <1>1, <1>4, LinkLeaves
<1>6. LinkStands(app', hw', shots') /\ app'.last = Target!NoShot
      BY <1>1, <1>2, <1>3, <1>4, <1>5, ClearedStands
<1>. QED  BY <1>2, <1>6 DEF LinkInv, ShotShown

LEMMA SightersLinked ==
    ASSUME LinkInv, Target!StartTraining \/ Target!ResumeFinal \/ Target!ChangedToSighters
    PROVE  LinkInv'
<1>. DEFINE a == Target!Now
<1>1. a \in Apps /\ LinkStands(a, hw, shots) /\ a.last = Target!NoShot
      BY NowStands
<1>2. hw \in Targets /\ shots \in Nat /\ hw' = hw /\ shots' = shots
      BY DEF LinkInv, Target!StartTraining, Target!ResumeFinal, Target!ChangedToSighters
<1>3. \/ app' = Target!Entered(a, TRUE) \/ app' = Target!Entered(a, FALSE)
      \/ app' = Target!ChangeToSighters(a)
      BY DEF Target!StartTraining, Target!ResumeFinal, Target!ChangedToSighters
<1>. HIDE DEF a
<1>4. LinkStands(app', hw', shots') /\ app'.last = Target!NoShot
  <2>1. /\ LinkStands(Target!Entered(a, TRUE), hw, shots)
        /\ Target!Entered(a, TRUE).last = a.last
        BY <1>1, EnteredStands
  <2>2. /\ LinkStands(Target!Entered(a, FALSE), hw, shots)
        /\ Target!Entered(a, FALSE).last = a.last
        BY <1>1, EnteredStands
  <2>3. /\ LinkStands(Target!ChangeToSighters(a), hw, shots)
        /\ Target!ChangeToSighters(a).last = a.last
        BY <1>1, SightersStand
  <2>. QED  BY <1>1, <1>2, <1>3, <2>1, <2>2, <2>3
<1>. QED  BY <1>2, <1>4 DEF LinkInv, ShotShown

LEMMA StartLinked ==
    ASSUME LinkInv, Target!Start
    PROVE  LinkInv'
<1>. DEFINE a == Target!Now
<1>1. a \in Apps /\ LinkStands(a, hw, shots) /\ a.last = Target!NoShot
      BY NowStands
<1>2. hw \in Targets /\ shots \in Nat /\ shots' = shots
      BY DEF LinkInv, Target!Start
<1>0. PICK sighters \in BOOLEAN : \E e \in Target!Entries(sighters) :
         \E p \in IF e.app.modbus = "closed" THEN {Target!Outcome(e.app, 0)}
                  ELSE Target!PollOutcomes(e.app) :
         \E r \in Target!ResetOutcomes(p.app) :
            /\ app' = [r.app EXCEPT !.sound = @ /\ r.app.seen = 0]
            /\ hw' = [hw EXCEPT !.counter = r.counter]
      BY DEF Target!Start
<1>3. PICK e \in Target!Entries(sighters) :
         \E p \in IF e.app.modbus = "closed" THEN {Target!Outcome(e.app, 0)}
                  ELSE Target!PollOutcomes(e.app) :
         \E r \in Target!ResetOutcomes(p.app) :
            /\ app' = [r.app EXCEPT !.sound = @ /\ r.app.seen = 0]
            /\ hw' = [hw EXCEPT !.counter = r.counter]
      BY <1>0
<1>4. e.app \in {Target!Entered(a, sighters), a}
  <2>. HIDE DEF a
  <2>. QED  BY DEF Target!Entries, Target!ReadOutcomes, Target!Outcome, Target!Stays, a
<1>. HIDE DEF a
<1>5. LinkStands(e.app, hw, shots) /\ e.app.last = Target!NoShot
      BY <1>1, <1>4, EnteredStands
<1>6. PICK p \in IF e.app.modbus = "closed" THEN {Target!Outcome(e.app, 0)}
                 ELSE Target!PollOutcomes(e.app) :
         \E r \in Target!ResetOutcomes(p.app) :
            /\ app' = [r.app EXCEPT !.sound = @ /\ r.app.seen = 0]
            /\ hw' = [hw EXCEPT !.counter = r.counter]
      BY <1>3
<1>7. LinkStands(p.app, hw, shots) /\ ShotShown(p.app, shots)
  <2>1. CASE e.app.modbus = "closed"
    <3>1. p.app = e.app
          BY <2>1 DEF Target!Outcome
    <3>. QED  BY <1>5, <3>1 DEF ShotShown
  <2>2. CASE e.app.modbus # "closed"
        BY <1>2, <1>5, <2>2, PollStands
  <2>. QED  BY <2>1, <2>2
<1>8. PICK r \in Target!ResetOutcomes(p.app) :
            /\ app' = [r.app EXCEPT !.sound = @ /\ r.app.seen = 0]
            /\ hw' = [hw EXCEPT !.counter = r.counter]
      BY <1>6
<1>9. p.app \in Apps
      BY <1>7 DEF LinkStands
<1>10. /\ r.app \in Apps /\ r.app.live = p.app.live /\ r.app.last = p.app.last
       /\ r.counter \in {0, hw.counter}
       BY <1>2, <1>9, ResetApp
<1>. DEFINE b == r.app
<1>. DEFINE sound == b.sound /\ b.seen = 0
<1>11. b \in Apps /\ app' = [b EXCEPT !.sound = sound] /\ sound \in BOOLEAN
       BY <1>8, <1>10 DEF Apps
<1>. HIDE DEF b, sound
<1>12. /\ app' \in Apps /\ app'.last = b.last
       /\ app'.live = b.live /\ app'.seen = b.seen /\ app'.acq = b.acq
       /\ app'.base = b.base /\ app'.old = b.old /\ app'.coords = b.coords
       /\ app'.sighter = b.sighter /\ app'.flush = b.flush /\ app'.ids = b.ids
       /\ app'.sound = sound
       BY <1>11 DEF Apps
<1>13. hw' \in Targets /\ hw'.counter = r.counter
       BY <1>2, <1>8, <1>10 DEF Targets
<1>14. LinkStands(app', hw', shots')
       BY <1>2, <1>9, <1>12, <1>13, ResetStands DEF b, sound
<1>15. ShotShown(app', shots')
       BY <1>2, <1>7, <1>10, <1>12 DEF ShotShown, b
<1>. QED  BY <1>2, <1>13, <1>14, <1>15 DEF LinkInv

LEMMA ChangedToMatchLinked ==
    ASSUME LinkInv, Target!ChangedToMatch
    PROVE  LinkInv'
<1>. DEFINE a == Target!Now
<1>. DEFINE saved == [base |-> a.base, old |-> a.old]
<1>. DEFINE c == [a EXCEPT !.sighter = FALSE, !.saved = saved]
<1>1. /\ a \in Apps /\ a.last = Target!NoShot
      /\ a.live = app.live /\ a.seen = app.seen /\ a.acq = app.acq
      /\ a.base = app.base /\ a.old = app.old /\ a.coords = app.coords
      /\ a.sighter = app.sighter /\ a.flush = app.flush /\ a.ids = app.ids
      /\ a.sound = app.sound /\ a.modbus = app.modbus /\ a.saved = app.saved
      BY NowStands
<1>2. hw \in Targets /\ shots \in Nat /\ shots' = shots
      BY DEF LinkInv, Target!ChangedToMatch
<1>3. \/ app' = [a EXCEPT !.seen = 0] /\ hw' = hw
      \/ \E r \in Target!ResetOutcomes(Target!ChangeToMatch(a)) :
            app' = [r.app EXCEPT !.seen = 0] /\ hw' = [hw EXCEPT !.counter = r.counter]
      BY DEF Target!ChangedToMatch
<1>4. Target!ChangeToMatch(a) = c
  <2>. HIDE DEF a
  <2>. QED  BY <1>1 DEF Target!ChangeToMatch
<1>. HIDE DEF a
<1>5. c \in Apps /\ c.last = a.last
  <2>1. saved \in Counts
        BY <1>1 DEF Apps, Counts
  <2>. HIDE DEF saved
  <2>. QED  BY <1>1, <2>1 DEF Apps
<1>. HIDE DEF c, saved
<1>6. CASE app' = [a EXCEPT !.seen = 0] /\ hw' = hw
  <2>1. /\ app' \in Apps /\ app'.last = a.last
        /\ app'.live = a.live /\ app'.seen = 0 /\ app'.acq = a.acq
        /\ app'.base = a.base /\ app'.old = a.old /\ app'.coords = a.coords
        /\ app'.sighter = a.sighter /\ app'.flush = a.flush /\ app'.ids = a.ids
        /\ app'.sound = a.sound
        BY <1>1, <1>6 DEF Apps
  <2>. QED  BY <1>1, <1>2, <1>6, <2>1, LinkMoved
<1>7. ASSUME NEW r \in Target!ResetOutcomes(c), app' = [r.app EXCEPT !.seen = 0],
             hw' = [hw EXCEPT !.counter = r.counter]
      PROVE  LinkInv'
  <2>. DEFINE b == r.app
  <2>1. b \in Apps /\ b.last = c.last /\ r.counter \in {0, hw.counter}
        BY <1>2, <1>5, <1>7, ResetApp
  <2>2. app' = [b EXCEPT !.seen = 0]
        BY <1>7
  <2>. HIDE DEF b
  <2>3. /\ app' \in Apps /\ app'.last = b.last
        /\ app'.live = b.live /\ app'.seen = 0 /\ app'.acq = b.acq
        /\ app'.base = b.base /\ app'.old = b.old /\ app'.coords = b.coords
        /\ app'.sighter = b.sighter /\ app'.flush = b.flush /\ app'.ids = b.ids
        /\ app'.sound = b.sound
        BY <2>1, <2>2 DEF Apps
  <2>4. hw' \in Targets /\ hw'.counter = r.counter
        BY <1>2, <1>7, <2>1 DEF Targets
  <2>5. LinkStands(app', hw', shots')
        BY <1>2, <1>5, <1>7, <2>3, <2>4, ResetStands DEF b
  <2>. QED  BY <1>1, <1>2, <1>5, <2>1, <2>3, <2>4, <2>5 DEF LinkInv, ShotShown
<1>. QED  BY <1>3, <1>4, <1>6, <1>7

LEMMA UxShootLinked ==
    ASSUME LinkInv, Target!UxShoot
    PROVE  LinkInv'
<1>. DEFINE a == Target!Now
<1>. DEFINE n == app.old + 1
<1>. DEFINE c == [a EXCEPT !.old = n]
<1>1. /\ a \in Apps /\ LinkStands(a, hw, shots) /\ a.last = Target!NoShot
      /\ a.live = app.live /\ a.old = app.old
      BY NowStands
<1>2. hw \in Targets /\ shots \in Nat /\ hw' = hw /\ shots' = shots + 1 /\ ~app.live
      BY DEF LinkInv, Target!UxShoot
<1>3. app' = Target!Announce(c, shots + 1, n)
  <2>1. app' = Target!Announce([a EXCEPT !.old = @ + 1], shots + 1, app.old + 1)
        BY DEF Target!UxShoot
  <2>. HIDE DEF a
  <2>2. [a EXCEPT !.old = @ + 1] = c
        BY <1>1
  <2>. HIDE DEF c, n
  <2>. QED  BY <2>1, <2>2 DEF n
<1>. HIDE DEF a
<1>4. n \in Nat /\ n - 1 = a.old /\ a.old \in Nat
      BY <1>1 DEF Apps
<1>. HIDE DEF n
<1>5. /\ c \in Apps /\ c.last = a.last /\ c.old = n
      /\ c.live = a.live /\ c.seen = a.seen /\ c.acq = a.acq
      /\ c.base = a.base /\ c.coords = a.coords
      /\ c.sighter = a.sighter /\ c.flush = a.flush /\ c.ids = a.ids
      /\ c.sound = a.sound
      BY <1>1, <1>4 DEF Apps
<1>. HIDE DEF c
<1>6. c.sound => /\ c.base = 0 /\ c.old = Len(c.coords) + 1 /\ c.seen < n
                 /\ FedUpTo(c, n - 1) /\ Len(c.coords) = n - 1 /\ ~c.flush
                 /\ c.acq # "Fault"
  <2>1. SUFFICES ASSUME c.sound
                 PROVE  /\ c.base = 0 /\ c.old = Len(c.coords) + 1 /\ c.seen < n
                        /\ FedUpTo(c, n - 1) /\ Len(c.coords) = n - 1 /\ ~c.flush
                        /\ c.acq # "Fault"
        OBVIOUS
  <2>2. /\ LinkSound(a, hw, shots) /\ a.seen \in Nat
        BY <1>1, <1>5, <2>1 DEF LinkStands, Apps
  <2>3. /\ a.base = 0 /\ a.old = Len(a.coords) /\ ~a.flush /\ a.acq # "Fault"
        BY <1>1, <1>2, <2>2 DEF LinkSound
  <2>4. a.seen =< n - 1 /\ FedUpTo(a, n - 1)
        BY <1>4, <2>2, <2>3 DEF LinkSound
  <2>. QED  BY <1>4, <1>5, <2>2, <2>3, <2>4 DEF FedUpTo, Target!KindOf
<1>. DEFINE b == Target!Announce(c, shots + 1, n)
<1>7. /\ b \in Apps /\ ShotShown(b, shots + 1)
      /\ b.live = c.live /\ b.acq = c.acq /\ b.base = c.base /\ b.old = c.old
      /\ b.sighter = c.sighter /\ b.flush = c.flush /\ b.sound = c.sound
      /\ b.coords = Append(c.coords, shots + 1)
      /\ c.sound => b.seen =< n /\ FedUpTo(b, n)
  <2>1. /\ c.last = Target!NoShot /\ shots + 1 \in Int
        /\ c.sound => /\ n = c.old + c.base /\ c.seen < n
                      /\ FedUpTo(c, n - 1) /\ Len(c.coords) = n - 1 /\ shots + 1 = shots + 1
                      /\ (c.live => c.modbus # "closed")
        BY <1>1, <1>2, <1>4, <1>5, <1>6
  <2>. DEFINE s == shots + 1
  <2>. HIDE DEF s
  <2>2. /\ c.last = Target!NoShot /\ s \in Int
        /\ c.sound => /\ n = c.old + c.base /\ c.seen < n
                      /\ FedUpTo(c, n - 1) /\ Len(c.coords) = n - 1 /\ s = s
                      /\ (c.live => c.modbus # "closed")
        BY <2>1 DEF s
  <2>3. LET d == Target!Announce(c, s, n)
        IN  /\ d \in Apps /\ ShotShown(d, s)
            /\ d.live = c.live /\ d.acq = c.acq /\ d.base = c.base /\ d.old = c.old
            /\ d.sighter = c.sighter /\ d.flush = c.flush /\ d.sound = c.sound
            /\ d.coords = Append(c.coords, s)
            /\ c.sound => d.seen =< n /\ FedUpTo(d, n)
        BY ONLY <1>4, <1>5, <2>2, ShotAnnounced, ZenonT(60)
  <2>. QED  BY <2>3 DEF s
<1>. HIDE DEF b
<1>8. LinkStands(b, hw, shots + 1)
  <2>1. SUFFICES ASSUME c.sound
                 PROVE  LinkSound(b, hw, shots + 1)
        BY <1>7 DEF LinkStands
  <2>2. Len(Append(c.coords, shots + 1)) = Len(c.coords) + 1
        BY <1>2, <1>5, AppendProperties DEF Apps, Marks
  <2>. QED  BY <1>1, <1>2, <1>4, <1>5, <1>6, <1>7, <2>1, <2>2 DEF LinkSound
<1>. QED  BY <1>2, <1>3, <1>7, <1>8 DEF LinkInv, b

LEMMA LinkStart ==
    ASSUME Target!Init
    PROVE  LinkInv
<1>1. PICK live \in BOOLEAN, counter \in 0 .. Residue :
         /\ hw = [plugged |-> TRUE, counter |-> counter, slots |-> [n \in Target!Slots |-> 0]]
         /\ app = Target!NewApp(live, counter)
      BY DEF Target!Init
<1>2. shots = 0
      BY DEF Target!Init
<1>3. hw \in Targets /\ hw.counter = counter
  <2>1. counter \in {0} \cup Target!Slots
        BY PartsAssumption DEF Target!Slots, Target!LinkAssumption
  <2>. QED  BY <1>1, <2>1 DEF Targets
<1>. DEFINE sound == live => counter = 0
<1>4. /\ sound \in BOOLEAN /\ Target!NoShot \in LastShots /\ << >> \in Marks
      /\ << >> \in Identities /\ [base |-> 0, old |-> 0] \in Counts
      BY DEF LastShots, Marks, Identities, Counts
<1>5. /\ app.live = live /\ app.seen = 0 /\ app.acq = "Synchronizing" /\ app.base = 0
      /\ app.old = 0 /\ app.coords = << >> /\ app.flush = FALSE /\ app.ids = << >>
      /\ app.sound = sound /\ app.last = Target!NoShot
      BY <1>1 DEF Target!NewApp
<1>6. app \in Apps
  <2>. HIDE DEF sound
  <2>. QED  BY <1>1, <1>4 DEF Apps, Target!NewApp, sound
<1>7. << >> = [n \in 1 .. 0 |-> hw.slots[n]] /\ Len(<< >>) = 0 /\ DOMAIN << >> = {}
      OBVIOUS
<1>8. FedUpTo(app, 0)
      BY <1>5, <1>7 DEF FedUpTo
<1>9. app.sound => LinkSound(app, hw, shots)
  <2>1. app.coords = [n \in 1 .. app.base |-> hw.slots[n]] /\ Len(app.coords) = 0
        BY <1>5, <1>7
  <2>2. app.sound => (live => hw.counter = 0)
        BY <1>3, <1>5
  <2>3. FedUpTo(app, app.old + app.base)
        BY <1>5, <1>8
  <2>. QED  BY <1>5, <2>1, <2>2, <2>3 DEF LinkSound
<1>. QED  BY <1>2, <1>3, <1>5, <1>6, <1>9 DEF LinkInv, LinkStands, ShotShown

LEMMA LinkKept ==
    ASSUME LinkInv, Target!Next
    PROVE  LinkInv'
BY FireLinked, PowerFailsLinked, CableLinked, PageLinked, FlushLinked, PollLinked,
   ConnectLinked, SightersLinked, StartLinked, ChangedToMatchLinked, UxShootLinked
   DEF Target!Next

LEMMA LinkHolds == Spec => []LinkInv
<1>1. Init => LinkInv
  <2>1. Init => Target!Init
        BY DEF Init, TargetRests
  <2>. QED  BY <2>1, LinkStart
<1>2. LinkInv /\ [Next]_vars => LinkInv'
  <2>. SUFFICES ASSUME LinkInv, [Next]_vars
                PROVE  LinkInv'
       OBVIOUS
  <2>1. Target!Next \/ (hw' = hw /\ app' = app /\ shots' = shots)
        BY DEF Next, vars, targetVars
  <2>2. CASE Target!Next
        BY <2>2, LinkKept
  <2>3. CASE hw' = hw /\ app' = app /\ shots' = shots
        BY <2>3 DEF LinkInv, LinkStands, LinkSound, FedUpTo, ShotShown, Target!KindOf
  <2>. QED  BY <2>1, <2>2, <2>3
<1>. QED  BY <1>1, <1>2, PTL DEF Spec

\* As long as nothing has spoilt the numbering, the page marks each shot where
\* it fell, each once, and none is missing; acquisition stops in its fault only
\* for a reason.
THEOREM ShotsAreCorrect == Spec => []ShotsCorrect
<1>1. LinkInv => ShotsCorrect
  <2>. SUFFICES ASSUME LinkInv
                PROVE  ShotsCorrect
       OBVIOUS
  <2>1. /\ app.last # Target!NoShot /\ app.last.sound =>
              app.last.shot = shots /\ app.last.at = app.last.shot
        BY DEF LinkInv, ShotShown
  <2>2. app.sound => LinkSound(app, hw, shots) /\ app.base \in Nat
        BY DEF LinkInv, LinkStands, Apps
  <2>3. app.sound /\ app.live => hw.counter - app.base \in {0, 1}
        BY <2>2 DEF LinkSound
  <2>. QED  BY <2>1, <2>2, <2>3
            DEF ShotsCorrect, Target!ShotsCorrect, Target!FaultsExplained, LinkSound
<1>. QED  BY <1>1, LinkHolds, PTL

\* Paper is fed for every shot of a sound numbering for which a feed is set,
\* however often the numbers have begun again.
THEOREM PaperIsFed == Spec => []FedOnce
<1>1. LinkInv => FedOnce
      BY DEF FedOnce, Target!FedOnce, LinkInv, ShotShown
<1>. QED  BY <1>1, LinkHolds, PTL
-----------------------------------------------------------------------------
(* The operating mode.                                                     *)

\* A restart is announced exactly while another mode is previewed, as it is
\* behind the dialog; a competition that is shot blocks the change.
ModeInv ==
    /\ process.running \in Mode!Modes /\ process.selected \in Mode!Modes
    /\ process = [up |-> process.up, live |-> process.live, running |-> process.running,
                  selected |-> process.selected, restartRequired |-> process.restartRequired]
    /\ process.restartRequired <=> process.selected # process.running
    /\ dialog = "open" => process.up /\ process.restartRequired
    /\ course.kind \in Mode!Kinds \union {"none"}
    /\ course = [kind |-> course.kind, open |-> course.open,
                 operatingMode |-> course.operatingMode, shots |-> course.shots,
                 opened |-> course.opened, settingThen |-> course.settingThen]
    /\ course.open /\ course.kind \in {"final", "qualification"} => course.kind \in flags
    /\ course.open => course.kind # "none" /\ process.up /\ process.running \in course.opened
    /\ process.live => process.running = "Live"
    /\ Mode!ModeKept

LEMMA ModeLaunched ==
    ASSUME NEW text
    PROVE  /\ Mode!Launched(text).running = Mode!Parsed(text)
           /\ Mode!Launched(text).selected = Mode!Parsed(text)
           /\ ~Mode!Launched(text).restartRequired /\ Mode!Launched(text).up
           /\ Mode!Launched(text).live => Mode!Parsed(text) = "Live"
           /\ Mode!Parsed(text) \in Mode!Modes
           /\ text \in Mode!Modes => Mode!Parsed(text) = text
BY DEF Mode!Launched, Mode!Parsed, Mode!Modes

\* The setting: a change is previewed, forgotten, left, saved or refused.
LEMMA SettingStep ==
    ASSUME ModeInv,
           \/ Mode!BeginModeChange \/ Mode!Cancel \/ Mode!Escape
           \/ Mode!RestartLater \/ Mode!RestartNow \/ Mode!NotSaved
    PROVE  ModeInv'
<1>0. \A mode \in Mode!Modes : Mode!Other(mode) \in Mode!Modes /\ Mode!Other(mode) # mode
      BY DEF Mode!Modes, Mode!Other
<1>1. CASE Mode!BeginModeChange
      BY <1>0, <1>1 DEF ModeInv, Mode!BeginModeChange, Mode!SelectMode, Mode!ModeKept,
         Mode!RestartTold, Mode!SettingHeld, Mode!SourcesKept
<1>2. CASE Mode!Cancel
      BY <1>2 DEF ModeInv, Mode!Cancel, Mode!SelectMode, Mode!ModeKept,
         Mode!RestartTold, Mode!SettingHeld, Mode!SourcesKept
<1>3. CASE Mode!Escape
      BY <1>3 DEF ModeInv, Mode!Escape, Mode!ModeKept,
         Mode!RestartTold, Mode!SettingHeld, Mode!SourcesKept
<1>4. ASSUME Mode!ApplyModeChange
      PROVE  /\ setting' = process.selected
             /\ course.open => course.kind \notin {"final", "qualification"}
             /\ process.selected # process.running /\ process.up
             /\ Mode!Parsed(process.selected) = process.selected
      BY <1>4, ModeLaunched
      DEF Mode!ApplyModeChange, Mode!WriteModeToConfig, Mode!ModeChangeBlocked, ModeInv
<1>5. CASE Mode!RestartLater
      BY <1>4, <1>5 DEF ModeInv, Mode!RestartLater, Mode!ModeKept, Mode!Kinds,
         Mode!RestartTold, Mode!SettingHeld, Mode!SourcesKept
<1>6. CASE Mode!RestartNow
  <2>1. /\ process' = Mode!Launched(process.selected) /\ setting' = process.selected
        /\ dialog' = "none" /\ course' = [course EXCEPT !.open = FALSE]
        BY <1>4, <1>6 DEF Mode!RestartNow, Mode!Left
  <2>2. /\ process'.running = process.selected /\ process'.selected = process.selected
        /\ ~process'.restartRequired /\ Mode!Parsed(setting') = process'.running
        /\ process'.live => process'.running = "Live"
        BY <1>4, <1>6, <2>1, ModeLaunched DEF Mode!RestartNow
  <2>3. process' = [up |-> process'.up, live |-> process'.live, running |-> process'.running,
                    selected |-> process'.selected,
                    restartRequired |-> process'.restartRequired]
        BY <2>1 DEF Mode!Launched
  <2>4. /\ ~course'.open /\ course'.kind = course.kind /\ course'.shots = course.shots
        /\ course'.operatingMode = course.operatingMode /\ course'.opened = course.opened
        /\ course' = [kind |-> course'.kind, open |-> course'.open,
                      operatingMode |-> course'.operatingMode, shots |-> course'.shots,
                      opened |-> course'.opened, settingThen |-> course'.settingThen]
        BY <2>1 DEF ModeInv
  <2>. QED  BY <2>1, <2>2, <2>3, <2>4 DEF ModeInv, Mode!ModeKept,
                Mode!RestartTold, Mode!SettingHeld, Mode!SourcesKept
<1>7. CASE Mode!NotSaved
      BY <1>7 DEF ModeInv, Mode!NotSaved, Mode!ModeKept,
         Mode!RestartTold, Mode!SettingHeld, Mode!SourcesKept
<1>. QED  BY <1>1, <1>2, <1>3, <1>5, <1>6, <1>7

\* A session is started, resumed, shot, closed or put away.
LEMMA CourseStep ==
    ASSUME ModeInv,
           \/ \E kind \in Mode!Kinds : Mode!StartSession(kind)
           \/ Mode!ResumeSession \/ Mode!DiscardSession \/ Mode!CloseSession
           \/ Mode!RegisterShot
    PROVE  ModeInv'
<1>0. \A kind \in {"final", "qualification"} : kind \in Mode!FlagsOf(kind)
      BY DEF Mode!FlagsOf
<1>1. CASE \E kind \in Mode!Kinds : Mode!StartSession(kind)
      BY <1>0, <1>1 DEF ModeInv, Mode!StartSession, Mode!AtStart, Mode!ModeKept, Mode!Kinds,
         Mode!RestartTold, Mode!SettingHeld, Mode!SourcesKept
<1>2. CASE Mode!ResumeSession
      BY <1>0, <1>2 DEF ModeInv, Mode!ResumeSession, Mode!AtStart, Mode!ModeKept, Mode!Kinds,
         Mode!RestartTold, Mode!SettingHeld, Mode!SourcesKept
<1>3. CASE Mode!DiscardSession \/ Mode!CloseSession
      BY <1>3 DEF ModeInv, Mode!DiscardSession, Mode!CloseSession, Mode!NoSession,
         Mode!ModeKept, Mode!Kinds, Mode!RestartTold, Mode!SettingHeld, Mode!SourcesKept
<1>4. CASE Mode!RegisterShot
      BY <1>4 DEF ModeInv, Mode!RegisterShot,
         Mode!ModeKept, Mode!RestartTold, Mode!SettingHeld, Mode!SourcesKept
<1>. QED  BY <1>1, <1>2, <1>3, <1>4

\* The process ends, and another is launched.
LEMMA ProcessStep ==
    ASSUME ModeInv, Mode!Exit \/ Mode!Launch
    PROVE  ModeInv'
<1>1. CASE Mode!Exit
      BY <1>1 DEF ModeInv, Mode!Exit, Mode!Left, Mode!ModeKept,
         Mode!RestartTold, Mode!SettingHeld, Mode!SourcesKept
<1>2. CASE Mode!Launch
  <2>1. /\ process' = Mode!Launched(setting) /\ ~process.up
        /\ UNCHANGED <<setting, dialog, flags, course>>
        BY <1>2 DEF Mode!Launch
  <2>2. process' = [up |-> process'.up, live |-> process'.live, running |-> process'.running,
                    selected |-> process'.selected,
                    restartRequired |-> process'.restartRequired]
        BY <2>1 DEF Mode!Launched
  <2>. QED  BY <2>1, <2>2, ModeLaunched DEF ModeInv, Mode!ModeKept,
                Mode!RestartTold, Mode!SettingHeld, Mode!SourcesKept
<1>. QED  BY <1>1, <1>2

\* What the pages say of the next launch is what it does, a competition holds
\* the setting, and a session has shots of another source only if a process
\* that resumed it ran another mode; with the exceptions the property names.
THEOREM ModeIsKept == Spec => []ModeKept
<1>1. Init => ModeInv
  <2>1. Init => Mode!Init
        BY DEF Init, ModeRests
  <2>2. ASSUME Mode!Init
        PROVE  ModeInv
    <3>1. process = [up |-> process.up, live |-> process.live, running |-> process.running,
                     selected |-> process.selected,
                     restartRequired |-> process.restartRequired]
          BY <2>2 DEF Mode!Init, Mode!Launched
    <3>. QED  BY <2>2, <3>1, ModeLaunched DEF Mode!Init, Mode!NoSession, ModeInv,
                  Mode!ModeKept, Mode!RestartTold, Mode!SettingHeld, Mode!SourcesKept
  <2>. QED  BY <2>1, <2>2
<1>2. ModeInv /\ [Next]_vars => ModeInv'
  <2>1. Next => Mode!Next \/ UNCHANGED modeVars
        BY DEF Next
  <2>2. ModeInv /\ UNCHANGED modeVars => ModeInv'
        BY DEF modeVars, ModeInv, Mode!ModeKept, Mode!RestartTold, Mode!SettingHeld,
               Mode!SourcesKept
  <2>. QED  BY <2>1, <2>2, SettingStep, CourseStep, ProcessStep DEF vars, Mode!Next
<1>3. ModeInv => ModeKept
      BY DEF ModeInv, ModeKept
<1>. QED  BY <1>1, <1>2, <1>3, PTL DEF Spec
=============================================================================
