------------------------- MODULE PositionTransition -------------------------
(***************************************************************************)
(* PositionTransitionController: the athlete sets up each position of a    *)
(* sequence, shoots sighters, then the verification shots, and reviews     *)
(* them; and this for every repeat.                                        *)
(*                                                                         *)
(* A station is a position in a repeat: m_seqIndex counts them from 0.     *)
(* The checklist and the notes are texts about a station, and left out.    *)
(***************************************************************************)
EXTENDS TrainingSession

CONSTANTS
    Sequence,          \* positions (0 kneeling, 1 prone, 2 standing)
    Repeats,
    VerificationShots,
    FiredInTransition  \* bound: shots fired in a session

TransitionAssumption ==
    /\ Sequence \in Seq(0 .. 2) \ {<<>>} /\ IsInjective(Sequence)
    /\ Repeats \in Nat \ {0} /\ VerificationShots \in Nat \ {0} /\ FiredInTransition \in Nat

Setup == 1
Sighters == 2
Verification == 3
Review == 4
Complete == 5

Stations == 0 .. Len(Sequence) * Repeats - 1
Station(i) == [pos |-> Sequence[(i % Len(Sequence)) + 1], repeat |-> (i \div Len(Sequence)) + 1]
Places == {Station(i) : i \in Stations} \union [pos : {0}, repeat : {1}]

Idle == [phase |-> 0, index |-> 0, last |-> 0]
NewRecord == [made |-> FALSE, sighters |-> {}, shots |-> {}, ready |-> FALSE,
              full |-> FALSE]
NoRec == [on |-> FALSE, done |-> FALSE, at |-> [pos |-> 0, repeat |-> 1],
          setup |-> FALSE, verifying |-> FALSE, records |-> [p \in Places |-> NewRecord]]

Here == Station(ctl.index)
ShotsCompleted == Cardinality(rec.records[Here].shots)
-----------------------------------------------------------------------------
(* Events.  One about a station that has no record yet changes no record.  *)
Updated(r, p, record) ==
    [r EXCEPT !.records[p] = IF @.made THEN record ELSE @]

PositionTransitionSessionStarted(r) == [r EXCEPT !.on = TRUE]
PositionSetupStarted(r, p) ==
    [r EXCEPT !.at = p, !.setup = TRUE, !.verifying = FALSE, !.records[p].made = TRUE]
PositionReady(r) == [r EXCEPT !.setup = FALSE]
PositionSighterAccepted(r, p, id) ==
    Updated(r, p, [r.records[p] EXCEPT !.sighters = @ \union {id}])
PositionVerificationStarted(r, p) ==
    Updated([r EXCEPT !.verifying = TRUE], p, [r.records[p] EXCEPT !.ready = TRUE])
PositionVerificationShotAccepted(r, p, id) ==
    Updated(r, p, [r.records[p] EXCEPT !.shots = @ \union {id}])
PositionVerificationCompleted(r, p) ==
    Updated([r EXCEPT !.verifying = FALSE], p, [r.records[p] EXCEPT !.full = TRUE])
NextPositionTransitionStarted(r) == r
PositionTransitionCompleted(r) == [r EXCEPT !.done = TRUE]
-----------------------------------------------------------------------------
(* Operations.                                                             *)
Init == /\ up = "none" /\ ctl = Idle /\ rec = NoRec /\ fired = 0
        /\ hist = NewHist /\ crashes = 0

StartPositionTransition ==
    LET started == PositionTransitionSessionStarted(NoRec)
    IN  Starts([Idle EXCEPT !.phase = Setup],
               <<NoRec, started, PositionSetupStarted(started, Station(0))>>)

ReadyForSighters ==
    /\ ctl.phase = Setup /\ Does([ctl EXCEPT !.phase = Sighters], <<PositionReady(rec)>>)
StartVerification ==
    /\ ctl.phase = Sighters
    /\ Does([ctl EXCEPT !.phase = Verification], <<PositionVerificationStarted(rec, Here)>>)

\* registerShot.  The last verification shot ends the verification, an event
\* of its own.
AcceptSighter(id) ==
    /\ ctl.phase = Sighters /\ ~Repeated(id)
    /\ Submits([ctl EXCEPT !.last = id], <<PositionSighterAccepted(rec, Here, id)>>)
AcceptVerifShot(id) ==
    /\ ctl.phase = Verification /\ ~Repeated(id) /\ ShotsCompleted < VerificationShots
    /\ LET shot == PositionVerificationShotAccepted(rec, Here, id)
           taken == [ctl EXCEPT !.last = id]
       IN  IF Cardinality(shot.records[Here].shots) < VerificationShots
           THEN Submits(taken, <<shot>>)
           ELSE Submits([taken EXCEPT !.phase = Review],
                        <<shot, PositionVerificationCompleted(shot, Here)>>)
RefuseShot(id) ==
    /\ \/ ctl.phase \notin {Sighters, Verification} \/ Repeated(id)
       \/ ctl.phase = Verification /\ ShotsCompleted >= VerificationShots
    /\ Submits(ctl, <<>>)
RegisterShot ==
    /\ Detected(FiredInTransition)
    /\ AcceptSighter(fired + 1) \/ AcceptVerifShot(fired + 1) \/ RefuseShot(fired + 1)

ContinueToNext ==
    LET next == Station(ctl.index + 1)
    IN  /\ ctl.phase = Review
        /\ IF ctl.index + 1 \in Stations
           THEN Does([ctl EXCEPT !.phase = Setup, !.index = @ + 1],
                     <<NextPositionTransitionStarted(rec), PositionSetupStarted(rec, next)>>)
           ELSE Does([ctl EXCEPT !.phase = Complete], <<PositionTransitionCompleted(rec)>>)

EndEarly ==
    /\ ctl.phase \in Setup .. Review
    /\ Does([ctl EXCEPT !.phase = Complete], <<PositionTransitionCompleted(rec)>>)

CloseCleanly == Closes(Idle, NoRec)

\* resumeFromRecovery: the station is looked up, the phase derived.
Recovered(r) ==
    LET current == r.records[r.at]
        places == {i \in Stations : Station(i) = r.at}
    IN  [Idle EXCEPT
            !.index = IF places = {} THEN 0 ELSE Min(places),
            !.phase = CASE current.full -> Review
                        [] ~current.full /\ r.verifying -> Verification
                        [] ~current.full /\ ~r.verifying /\ ~r.setup /\ current.ready
                              -> Sighters
                        [] OTHER -> Setup]
RecordedIds ==
    UNION {rec.records[p].sighters \union rec.records[p].shots : p \in Places}
Resume == Resumes(Recovered(rec), RecordedIds)

Next == \/ StartPositionTransition \/ ReadyForSighters \/ StartVerification
        \/ RegisterShot \/ ContinueToNext \/ EndEarly \/ CloseCleanly
        \/ Resume \/ Crash

Spec == Init /\ [][Next]_tvars
-----------------------------------------------------------------------------
(* Properties.                                                             *)
\* No shot is recorded twice.  (A session cut at its start has no record of
\* its first station, and loses the shots of it.)
ShotsRecordedOnce ==
    /\ \A p, q \in Places :
          /\ rec.records[p].shots \intersect rec.records[q].sighters = {}
          /\ p # q => rec.records[p].shots \intersect rec.records[q].shots = {}
    /\ up = "live" /\ ~hist.cut => ctl.last = MaxId(RecordedIds)

\* A verification has at most its shots, and all of them when it is complete.
WithinPlan ==
    \A p \in Places : LET n == Cardinality(rec.records[p].shots)
                      IN  n <= VerificationShots /\ (rec.records[p].full => n = VerificationShots)

\* A verification that waits for shots has room for one, unless a crash came
\* between its last shot and PositionVerificationCompleted.
RoomForShots ==
    up = "live" /\ ctl.phase = Verification /\ ~hist.cut => ShotsCompleted < VerificationShots

\* A station begins after the earlier ones are complete.
InOrder ==
    \A i \in Stations : rec.records[Station(i)].made =>
        \A j \in 0 .. i - 1 : rec.records[Station(j)].full

\* A resume gives phase and station back, unless a handler was cut; but the
\* sighters are not known from the setup, whose ready time is journalled only
\* with the verification.
ResumesInPlace ==
    Resume /\ ~hist.cut =>
        /\ ctl'.phase = IF ctl.phase = Sighters THEN Setup ELSE ctl.phase
        /\ ctl'.index = ctl.index
=============================================================================
