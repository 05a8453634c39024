---------------------------- MODULE RangeDisplay ----------------------------
(***************************************************************************)
(* The display of the range (DisplayController): all targets, one, or one  *)
(* after the other, of the lanes of the range or of those that take part   *)
(* in the match, while the range and the match plan change under it.       *)
(***************************************************************************)
EXTENDS Integers, FiniteSets, FiniteSetsExt

CONSTANT DisplayLanes   \* lane numbers

DisplayAssumption == IsFiniteSet(DisplayLanes) /\ DisplayLanes \subseteq Nat \ {0}

VARIABLES
    range,  \* lanes of the range; none: not configured
    plan,   \* lanes of the plan being prepared; none: no plan, or no lane in it
    display \* DisplayController

dvars == <<range, plan, display>>

NoLane == -1
-----------------------------------------------------------------------------
ParticipatingAvailable == plan' # {}

\* laneOrderNumbers, as a set; a lane is on it once.
Order(d, rangeLanes, planLanes) ==
    CASE rangeLanes = {} -> {}
      [] rangeLanes # {} /\ d.filter = "Participating" -> planLanes
      [] OTHER -> rangeLanes
OrderNow == Order(display, range, plan)

\* clampSelection.
ClampKeeping(d, lanes) ==
    [d EXCEPT !.lane = CASE lanes = {} -> NoLane
                         [] lanes # {} /\ @ = NoLane -> Min(lanes)
                         [] OTHER -> @]
ClampSelection(d, lanes) ==
    [d EXCEPT !.lane = CASE lanes = {} -> NoLane
                         [] lanes # {} /\ @ \notin lanes -> Min(lanes)
                         [] OTHER -> @]

\* stopRotationForOperatorAction.
Stopped(d) ==
    IF d.rotating THEN [d EXCEPT !.rotating = FALSE,
                                 !.mode = IF @ = "Rotate" THEN "Single" ELSE @]
    ELSE d
Single(d) == [d EXCEPT !.mode = IF @ = "All" THEN "Single" ELSE @]

\* advance: around the lanes in ascending order; to the first of them from a
\* lane that is not among them.
After(lane, lanes) ==
    LET above == {l \in lanes : l > lane} IN Min(IF above = {} THEN lanes ELSE above)
Before(lane, lanes) ==
    LET below == {l \in lanes : l < lane} IN Max(IF below = {} THEN lanes ELSE below)
Advanced(d, following) ==
    [d EXCEPT !.lane = CASE OrderNow = {} -> @
                         [] OrderNow # {} /\ @ \notin OrderNow -> Min(OrderNow)
                         [] OTHER -> following]
AdvancedNext(d) == Advanced(d, After(d.lane, OrderNow))
AdvancedBack(d) == Advanced(d, Before(d.lane, OrderNow))
-----------------------------------------------------------------------------
\* onRangeOrPlanChanged: the range or the plan has.
OnRangeOrPlanChanged ==
    LET d == [display EXCEPT !.filter =
                 CASE display.chosen -> @
                   [] ~display.chosen /\ ParticipatingAvailable -> "Participating"
                   [] OTHER -> "All"]
    IN  display' = ClampSelection(d, Order(d, range', plan'))
RangeChanged ==
    /\ range' \in SUBSET DisplayLanes /\ UNCHANGED plan /\ OnRangeOrPlanChanged
PlanChanged ==
    /\ plan' \in SUBSET DisplayLanes /\ UNCHANGED range /\ OnRangeOrPlanChanged

(* The operator.                                                           *)
ShowAllTargets == display' = [Stopped(display) EXCEPT !.mode = "All"]

SelectLane ==
    \E lane \in OrderNow :
        display' = [Stopped(display) EXCEPT !.lane = lane, !.mode = "Single"]

NextLane == display' = Single(AdvancedNext(Stopped(display)))
PreviousLane == display' = Single(AdvancedBack(Stopped(display)))

SetLaneFilter ==
    \E filter \in {"All", "Participating"} :
        LET d == [display EXCEPT !.chosen = TRUE, !.filter = filter]
        IN  display' = IF filter = display.filter THEN d
                       ELSE ClampSelection(d, Order(d, range, plan))

SetRotating ==
    /\ ~display.rotating /\ OrderNow # {}
    /\ display' = ClampSelection([display EXCEPT !.rotating = TRUE, !.mode = "Rotate"], OrderNow)

\* setRotating(false), and leaveDisplays.
StopRotating == display.rotating /\ display' = Stopped(display)

\* tickRotation, the interval being over.
TickRotation == display.rotating /\ display' = AdvancedNext(display)
-----------------------------------------------------------------------------
Init == /\ range \in SUBSET DisplayLanes /\ plan = {}
        /\ display = ClampSelection([mode |-> "All", filter |-> "All", chosen |-> FALSE,
                                     lane |-> NoLane, rotating |-> FALSE], range)

Operator == \/ ShowAllTargets \/ SelectLane \/ NextLane \/ PreviousLane \/ SetLaneFilter
            \/ SetRotating \/ StopRotating \/ TickRotation
Next == RangeChanged \/ PlanChanged \/ (Operator /\ UNCHANGED <<range, plan>>)

Spec == Init /\ [][Next]_dvars
-----------------------------------------------------------------------------
\* emptyReason: why there is nothing to show.
EmptyReason ==
    CASE range = {} -> "NotConfigured"
      [] range # {} /\ display.filter = "Participating" /\ plan = {} -> "NobodyTakesPart"
      [] OTHER -> "None"

\* The display shows a lane of those it goes through, or says why there is
\* none; it rotates if and only if its mode is to; it shows who takes part,
\* once there is a plan, unless the operator has chosen.
DisplayFollows ==
    /\ IF OrderNow = {} THEN display.lane = NoLane /\ EmptyReason # "None"
       ELSE display.lane \in OrderNow /\ EmptyReason = "None"
    /\ display.rotating <=> display.mode = "Rotate"
    /\ ~display.chosen => (display.filter = "Participating" <=> plan # {})
=============================================================================
