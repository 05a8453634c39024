------------------------------- MODULE Courses -------------------------------
(***************************************************************************)
(* The sessions that an athlete may have on a lane and that survive the    *)
(* program: a qualification, or a programme of the Training Lab.  They     *)
(* share no state, and a lane has one of them at a time; a behaviour       *)
(* chooses one, the other stays in an initial state.                       *)
(***************************************************************************)
EXTENDS QualificationSession

CONSTANTS
    BlockCount, ShotsPerBlock, FiredInBlocks, ShotCount, FiredInCalls, Sequence, Repeats,
    VerificationShots, FiredInTransition, Conditions, FiredInWind,
    MaxCuts        \* bound: crashes of a training session

VARIABLES
    course,                              \* the session that is chosen
    which, up, ctl, rec, fired, hist,    \* TrainingLab
    cuts                                 \* its crashes

Lab == INSTANCE TrainingLab WITH crashes <- cuts, MaxCrashes <- MaxCuts

ASSUME LabAssumption == Lab!TrainingAssumption

labVars == <<which, up, ctl, rec, fired, hist, cuts>>

CourseInit ==
    /\ course \in {"qualification", "training"}
    /\ Init
    /\ Lab!Init
    /\ course = "qualification" => which = "blocks"

\* Only the chosen session moves.
CourseNext ==
    /\ UNCHANGED course
    /\ \/ course = "qualification" /\ Next /\ UNCHANGED labVars
       \/ course = "training" /\ Lab!Next /\ UNCHANGED vars

CourseSpec == CourseInit /\ [][CourseNext]_<<course, vars, labVars>>
-----------------------------------------------------------------------------
(* Properties of the Training Lab; those of the qualification are          *)
(* QualificationSession's.  Each holds where its session rests, too.       *)
\* Training: no shot of a session is recorded twice, and none is taken for a
\* repeated one, resumes included.
ShotsRecordedOnce == Lab!ShotsRecordedOnce

\* Call & Diagnose: at most one shot waits for its call, and gets that call.
OneUnresolvedShot == Lab!OneUnresolvedShot

\* Training: blocks, positions and verifications take the shots they are
\* planned for, are gone through in their order, and what waits for a shot has
\* room for it unless a crash has cut a handler.
WithinPlan == Lab!WithinPlan /\ Lab!RoomForShots /\ Lab!InOrder

\* Training: a resumed session goes on where it stood, with the exceptions that
\* each programme states, and a shot keeps the wind that was noted when it was
\* fired.
ResumesInPlace == Lab!ResumesInPlace /\ Lab!ConditionSticks
=============================================================================
