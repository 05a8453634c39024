---------------------------- MODULE TrainingLab ----------------------------
(***************************************************************************)
(* One lane trains with one of the four programmes: all of them over the   *)
(* same state, so that one run checks them.                                *)
(***************************************************************************)
EXTENDS TrainingSession

CONSTANTS BlockCount, ShotsPerBlock, FiredInBlocks, ShotCount, FiredInCalls,
          Sequence, Repeats, VerificationShots, FiredInTransition,
          Conditions, FiredInWind

VARIABLE which  \* "blocks", "calls", "transition" or "wind"

lvars == <<which, tvars>>

TB == INSTANCE TrainingBlocks
CD == INSTANCE CallDiagnose
PT == INSTANCE PositionTransition
WM == INSTANCE WindMap

TrainingAssumption ==
    /\ TrainingBoundsAssumption
    /\ TB!BlocksAssumption /\ CD!CallsAssumption
    /\ PT!TransitionAssumption /\ WM!WindAssumption

Init == \/ which = "blocks" /\ TB!Init
        \/ which = "calls" /\ CD!Init
        \/ which = "transition" /\ PT!Init
        \/ which = "wind" /\ WM!Init
Next == /\ UNCHANGED which
        /\ \/ which = "blocks" /\ TB!Next
           \/ which = "calls" /\ CD!Next
           \/ which = "transition" /\ PT!Next
           \/ which = "wind" /\ WM!Next
Spec == Init /\ [][Next]_lvars

\* In every programme: no shot of the session is recorded twice, and none is
\* taken for a repeated one, resumes included.
ShotsRecordedOnce ==
    /\ CASE which = "blocks" -> TB!ShotsRecordedOnce
         [] which = "calls" -> CD!ShotsRecordedOnce
         [] which = "transition" -> PT!ShotsRecordedOnce
         [] which = "wind" -> WM!ShotsRecordedOnce
    /\ up = "live" => ctl.last <= fired

\* Call & Diagnose: at most one shot waits for its call, and gets that call.
OneUnresolvedShot == which = "calls" => CD!OneUnresolvedShot

\* Blocks, positions and verifications take the shots they are planned for.
WithinPlan == /\ which = "blocks" => TB!WithinPlan
              /\ which = "calls" => CD!WithinPlan
              /\ which = "transition" => PT!WithinPlan

\* What waits for a shot has room for it, unless a crash has cut a handler.
RoomForShots == /\ which = "blocks" => TB!RoomForShots
                /\ which = "transition" => PT!RoomForShots

\* Blocks and positions are gone through in their order, none is skipped.
InOrder == /\ which = "blocks" => TB!InOrder
           /\ which = "calls" => CD!InOrder
           /\ which = "transition" => PT!InOrder

\* A resumed session goes on where it stood, with the exceptions that each
\* programme states.
ResumesInPlace ==
    [][ /\ which = "blocks" => TB!ResumesInPlace
        /\ which = "calls" => CD!ResumesInPlace
        /\ which = "transition" => PT!ResumesInPlace
        /\ which = "wind" => WM!ResumesInPlace ]_lvars

\* Wind Map: a shot keeps the wind that was noted when it was fired.
ConditionSticks == [][which = "wind" => WM!ConditionSticks]_lvars
=============================================================================
