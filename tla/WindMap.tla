------------------------------ MODULE WindMap ------------------------------
(***************************************************************************)
(* WindMapController: shots are recorded together with the wind condition  *)
(* that stood when they were fired.  The phase is journalled, not derived. *)
(*                                                                         *)
(* A condition is one of a small set, of which noReading is one; the       *)
(* firing direction, the plan and the counters for display are left out.   *)
(***************************************************************************)
EXTENDS TrainingSession

CONSTANTS
    Conditions,   \* calm and measured ones
    FiredInWind   \* bound: shots fired in a session

WindAssumption == "noReading" \notin Conditions /\ FiredInWind \in Nat

Setup == 1
Sighters == 2
CountedShots == 3
PositionReview == 4
SessionReview == 5
Completed == 6

Idle == [phase |-> 0, wind |-> "noReading", last |-> 0, sighters |-> TRUE]
NoRec == [on |-> FALSE, done |-> FALSE, threeP |-> FALSE, pos |-> 0, phase |-> 0,
          wind |-> "noReading", nextId |-> 1, shots |-> {}]

\* windMapTransitionAllowed.
TransitionAllowed(from, to) ==
    \/ from = Setup /\ to \in {Sighters, CountedShots}
    \/ from = Sighters /\ to = CountedShots
    \/ from = CountedShots /\ (to = SessionReview \/ (rec.threeP /\ to = PositionReview))
    \/ from = PositionReview /\ rec.threeP /\ to \in {Sighters, CountedShots, SessionReview}
-----------------------------------------------------------------------------
(* Events.                                                                 *)
WindMapSessionStarted(r, threeP) ==
    [r EXCEPT !.on = TRUE, !.threeP = threeP, !.pos = IF threeP THEN 1 ELSE 0,
              !.phase = Setup]
WindConditionChanged(r, w) == [r EXCEPT !.wind = w]
\* WindMapSighterAccepted and WindMapShotAccepted.
WindMapAccepted(r, shot) ==
    [r EXCEPT !.shots = @ \union {shot}, !.nextId = shot.n + 1]
WindMapPositionChanged(r, to) == [r EXCEPT !.pos = to]
\* Refused when the phase it comes from is not the one of the record.
WindMapPhaseChanged(r, from, to) == [r EXCEPT !.phase = IF @ = from THEN to ELSE @]
WindMapSessionCompleted(r) == [r EXCEPT !.done = TRUE, !.phase = Completed]
-----------------------------------------------------------------------------
(* Operations.                                                             *)
Init == /\ up = "none" /\ ctl = Idle /\ rec = NoRec /\ fired = 0
        /\ hist = NewHist /\ crashes = 0

\* configureSession and startWindMap.
StartWindMap ==
    \E threeP, sighters \in BOOLEAN :
        Starts([Idle EXCEPT !.phase = Setup, !.sighters = sighters],
               <<NoRec, WindMapSessionStarted(NoRec, threeP)>>)

\* setCalmCondition, setMeasuredCondition, setNoReadingCondition.
ApplyCondition ==
    /\ ctl.phase \in Setup .. SessionReview
    /\ \E w \in Conditions \union {"noReading"} :
        /\ up = "live" /\ w # ctl.wind
        /\ SubmitsFrom([hist EXCEPT !.told = w], [ctl EXCEPT !.wind = w],
                       <<WindConditionChanged(rec, w)>>)
    /\ UNCHANGED fired

\* beginSighters, finishSighters, beginCountedShots, endPosition, endCapture.
GoToPhase ==
    \E to \in Sighters .. SessionReview :
        /\ TransitionAllowed(ctl.phase, to) /\ (to = Sighters => ctl.sighters)
        /\ Does([ctl EXCEPT !.phase = to], <<WindMapPhaseChanged(rec, ctl.phase, to)>>)

ChangePosition ==
    /\ rec.threeP /\ ctl.phase = PositionReview
    /\ \E to \in {1, 2, 3} \ {rec.pos} : Does(ctl, <<WindMapPositionChanged(rec, to)>>)

\* registerShot: a copy of the standing condition goes with the shot.
AcceptShot(id) ==
    /\ ctl.phase \in {Sighters, CountedShots} /\ ~Repeated(id)
    /\ Submits([ctl EXCEPT !.last = id],
               <<WindMapAccepted(rec, [n |-> rec.nextId, id |-> id, pos |-> rec.pos,
                                       sighter |-> ctl.phase = Sighters, wind |-> ctl.wind])>>)
RefuseShot(id) ==
    (ctl.phase \notin {Sighters, CountedShots} \/ Repeated(id)) /\ Submits(ctl, <<>>)
RegisterShot ==
    /\ Detected(FiredInWind)
    /\ AcceptShot(fired + 1) \/ RefuseShot(fired + 1)

CompleteSession ==
    /\ ctl.phase = SessionReview
    /\ Does([ctl EXCEPT !.phase = Completed], <<WindMapSessionCompleted(rec)>>)

CloseSessionCleanly == Closes(Idle, NoRec)

\* rebuildFromState: the phase is read, not guessed from the shots.
RecoveredFromShots(r) ==
    [Idle EXCEPT !.wind = r.wind,
                 !.phase = IF \E s \in r.shots : ~s.sighter THEN CountedShots ELSE Sighters]
RecoveredWithoutWind(r) == [Idle EXCEPT !.phase = r.phase]
Recovered(r) == [Idle EXCEPT !.phase = r.phase, !.wind = r.wind]
RecordedIds == {s.id : s \in rec.shots}
Resume == Resumes(Recovered(rec), RecordedIds)

Next == \/ StartWindMap \/ ApplyCondition \/ GoToPhase \/ ChangePosition
        \/ RegisterShot \/ CompleteSession \/ CloseSessionCleanly \/ Resume \/ Crash

Spec == Init /\ [][Next]_tvars
-----------------------------------------------------------------------------
(* Properties.                                                             *)
\* Every shot is recorded once, with a number of its own, and numbers have no
\* gaps.
ShotsRecordedOnce ==
    /\ Cardinality(RecordedIds) = Cardinality(rec.shots)
    /\ {s.n : s \in rec.shots} = 1 .. Cardinality(rec.shots)
    /\ up = "live" => ctl.last = MaxId(RecordedIds)

\* A shot carries the condition that the athlete had noted last when it was
\* fired, before the crash or after it, and its record is never touched again.
ConditionSticks ==
    /\ StartWindMap \/ CloseSessionCleanly \/ rec.shots \subseteq rec'.shots
    /\ \A s \in rec'.shots \ rec.shots : s.wind = hist.told

\* A resume gives phase and condition back, always.
ResumesInPlace == Resume => ctl'.phase = ctl.phase /\ ctl'.wind = ctl.wind
=============================================================================
