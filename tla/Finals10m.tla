------------------------------ MODULE Finals10m ------------------------------
(***************************************************************************)
(* Finals10mController: the 10 m final, two series and the singles, all    *)
(* commanded, with its course checkpoints and its resume.                  *)
(*                                                                         *)
(* A stage is its fineStageId: from Series1 on they follow each other, one *)
(* for each single.  The check of a shot's source (Live or Demo) is left   *)
(* out, and what Finals3P leaves out.                                      *)
(***************************************************************************)
EXTENDS CommandedFinal

CONSTANTS
    PerSeries,       \* shotsPerSeries
    Singles10m,      \* singleShotCount
    Checkpoints,     \* checkpointShots: numbers of single shots
    SightWarnings    \* 30 SECONDS: what remains of the preparation then

Finals10mAssumption ==
    /\ PerSeries \in Nat \ {0} /\ Singles10m \in Nat \ {0}
    /\ Checkpoints \subseteq 2 * PerSeries + 1 .. 2 * PerSeries + Singles10m
-----------------------------------------------------------------------------
Idle == -1
Presentation == 0
PrepSighting == 1
Series1 == 2
Single1 == 4
Complete == Single1 + Singles10m
Aborted == Complete + 1

Stages == Idle .. Aborted
Commanded == Series1 .. Complete - 1
Running(c) == c.stage \in Presentation .. Complete - 1

IsSeries(s) == s \in Series1 .. Single1 - 1
StageShotLimit(s) ==
    IF IsSeries(s) THEN PerSeries ELSE IF s \in Commanded THEN 1 ELSE 0
StageShotNumberBase(s) ==
    IF IsSeries(s) THEN (s - Series1) * PerSeries ELSE 2 * PerSeries + s - Single1
Numbers(s) ==
    StageShotNumberBase(s) + 1 .. StageShotNumberBase(s) + StageShotLimit(s)

WindowMs(s) == Durations[IF IsSeries(s) THEN "Series" ELSE "Single"]
GapMs(s) == Durations[IF s = Series1 THEN "PreGap" ELSE "Gap"]
Anchored(c) == c.window # "Closed"
-----------------------------------------------------------------------------
(* Helpers of the controller.                                              *)
SubmitStagePhase(c) ==
    CASE c.stage = PrepSighting ->
            Emit(Emit(c, Phase("Preparation", c.stage)), Phase("Sighting", c.stage))
      [] c.stage \in Commanded -> Emit(c, Phase("OfficialMatch", c.stage))
      [] OTHER -> c

\* enterStage(Complete) returns before the stage is submitted.
Completed(c) ==
    Emit(IssueCommand(IssueCommand([SetWindow(c, "Closed") EXCEPT !.left = 0])),
         MatchCompleted)

Prepared(c, ceremony) ==
    CASE c.stage = Presentation ->
            [SetWindow(IssueCommand(c), "Closed") EXCEPT
                !.seqStep = IF ceremony = "Full" THEN 0 ELSE 1,
                !.left = Durations[IF ceremony = "Full" THEN "Intro" ELSE "Hold"]]
      [] c.stage = PrepSighting ->
            [SetWindow([IssueCommand(c) EXCEPT !.mode = "Sighter"], "SightingOpen")
                EXCEPT !.left = Durations["Prep"]]
      [] c.stage \in Commanded -> BeginCommandSequence(c, GapMs(c.stage))

\* enterStage, and enterSingle for the stages from Single1 on.
EnterStageAs(c, s, ceremony) ==
    LET entered == [c EXCEPT !.stage = s, !.seqStep = 0, !.shots = 0, !.warned = 0]
        counted == IF StageShotLimit(s) > 0 THEN SetStageStatus(entered, s, "InProgress")
                   ELSE entered
    IN  IF s = Complete THEN Completed(counted)
        ELSE Emit(SubmitStagePhase(Prepared(counted, ceremony)), Entered(s))
EnterStage(c, s) == EnterStageAs(c, s, "Full")

EmitCheckpointIfDue(c) ==
    LET n == StageShotNumberBase(c.stage) + 1
    IN  IF c.stage < Single1 \/ n \notin Checkpoints THEN c
        ELSE [IssueCommand(c) EXCEPT !.checkpoints = @ \union {[n |-> n, total |-> c.count]}]
AdvanceAfterCommandStage(c) == EnterStage(EmitCheckpointIfDue(c), c.stage + 1)

RecordMissingShots(c) ==
    LET s == c.stage
    IN  SetStageStatus(
            MissingRange(c, StageShotNumberBase(s), c.shots, StageShotLimit(s)),
            s, IF c.shots >= StageShotLimit(s) THEN "Complete" ELSE "Incomplete")

\* acceptShot, of an official: the verdict is submitted before the shot.
AcceptOfficial(c, ext) ==
    LET s       == c.stage
        counted == [c EXCEPT !.shots = @ + 1, !.count = @ + 1]
        full    == counted.shots >= StageShotLimit(s)
        judged  == IF full THEN SetStageStatus(counted, s, "Complete") ELSE counted
        shot    == Accepted(StageShotNumberBase(s) + counted.shots, ext, s)
        stored  == Emit(judged, shot)
    IN  IF full THEN AdvanceAfterCommandStage(CloseWindowAndStop(stored)) ELSE stored

RecoveredStage(r) == IF r.stage <= PrepSighting THEN PrepSighting ELSE r.stage
\* Checkpoints come back from the shots that carry their number.
CheckpointsOf(r) ==
    {[n |-> o.n, total |-> Cardinality({p \in r.officials : p.n <= o.n})] :
        o \in {o \in r.officials : o.n \in Checkpoints}}
LoadRecoveredState(r) ==
    [NewCtl(Stages) EXCEPT
        !.stage = RecoveredStage(r), !.status = r.status,
        !.shots = Cardinality(OfficialsOf(r, RecoveredStage(r))),
        !.count = Cardinality(r.officials),
        !.checkpoints = CheckpointsOf(r)]

RestoreStageFiringState(c, elapsed) ==
    IF c.stage = PrepSighting
    THEN [c EXCEPT !.window = "SightingOpen", !.left = Rebased(elapsed, Durations["Prep"])]
    ELSE [c EXCEPT !.window = "MatchOpen", !.mode = "Match", !.seqStep = 2,
                   !.left = Rebased(elapsed, WindowMs(c.stage))]
Restored(r, elapsed) == RestoreStageFiringState(LoadRecoveredState(r), elapsed)
-----------------------------------------------------------------------------
(* Operations.                                                             *)
HandlesAt(c, cost) == Submits(c, hist, Anchored(c), cost)
Handles(c) == HandlesAt(c, 0)

Init == /\ up = "none" /\ ctl = NewCtl(Stages) /\ rec = NewRec(Stages)
        /\ fired = 0 /\ hist = NewHist /\ troubles = 0

\* enterFinals10mMode(..., TRUE): resetFinal and startFinal.
StartFinal ==
    /\ up = "live" => ~Running(ctl)
    /\ \E ceremony \in {"Full", "Short", "Skip"} :
        Submits(EnterStageAs([NewCtl(Stages) EXCEPT !.out = <<NewRec(Stages)>>],
                             IF ceremony = "Skip" THEN PrepSighting ELSE Presentation,
                             ceremony),
                NewHist, ceremony = "Skip", 0)
    /\ fired' = 0

\* restoreFinals10m, resumeFromRecovery.
Resume ==
    /\ up = "down" /\ rec.life = "Active"
    /\ \E elapsed \in ElapsedAtResume(rec) : ctl' = Restored(rec, elapsed)
    /\ rec' = ResumedRec(rec) /\ up' = "live" /\ fired' = 0
    /\ hist' = Stamped(hist, FALSE, 0)
    /\ UNCHANGED troubles

\* homeFromFinals10m, startNewFinals10m: closeFinalSession archives.
LeaveCompleted ==
    /\ up = "live" /\ ctl.stage = Complete /\ up' = "none"
    /\ UNCHANGED <<ctl, rec, fired, hist, troubles>>

SkipCeremony ==
    /\ up = "live" /\ ctl.stage = Presentation
    /\ Handles(EnterStage(ctl, PrepSighting)) /\ UNCHANGED fired

AbortFinal ==
    /\ up = "live" /\ Running(ctl)
    /\ LET judged == IF StageShotLimit(ctl.stage) > 0
                     THEN SetStageStatus(ctl, ctl.stage, "Aborted") ELSE ctl
       IN  HandlesAt([SetWindow(judged, "Closed") EXCEPT !.stage = Aborted, !.left = 0], 1)
    /\ UNCHANGED fired

PauseToggled ==
    /\ up = "live" /\ (ctl.paused \/ Running(ctl))
    /\ ctl' = [ctl EXCEPT !.paused = ~@]
    /\ Troubles(IF ctl.paused THEN 0 ELSE 1)
    /\ UNCHANGED <<up, rec, fired, hist>>

\* registerShot, called for every shot the page detects.
Detected == up = "live" /\ fired < MaxFired /\ fired' = fired + 1
ModeFits(c) ==
    \/ c.window = "MatchOpen" /\ c.mode = "Match"
    \/ c.window = "SightingOpen" /\ c.mode = "Sighter"
Admits(c) ==
    /\ Running(c) /\ ModeFits(c)
    /\ c.window = "MatchOpen" => ~rec.blocked /\ c.shots < StageShotLimit(c.stage)

RegisterSighter ==
    /\ Detected /\ Admits(ctl) /\ ctl.window = "SightingOpen"
    /\ Handles(Emit(ctl, Mark))
RegisterOfficial ==
    /\ Detected /\ Admits(ctl) /\ ctl.window = "MatchOpen"
    /\ Handles(AcceptOfficial(ctl, fired + 1))
RejectShot == Detected /\ ~Admits(ctl) /\ HandlesAt(Emit(ctl, Mark), 1)

\* tick: the branches of one handler, of which one applies at a time.
Ticking == up = "live" /\ ~ctl.paused
Due(stages, step) ==
    /\ Ticking /\ ctl.left = 0
    /\ ctl.stage \in stages /\ ctl.seqStep = step /\ UNCHANGED fired

TakeYourPositions ==
    /\ Due({Presentation}, 0)
    /\ Handles([IssueCommand(ctl) EXCEPT !.seqStep = 1, !.left = Durations["Hold"]])
HoldOver == Due({Presentation}, 1) /\ Handles(EnterStage(ctl, PrepSighting))

WarningDue ==
    /\ ctl.stage = PrepSighting /\ ctl.left > 0 /\ ctl.warned < Len(SightWarnings)
    /\ ctl.left <= SightWarnings[ctl.warned + 1]
Warning ==
    /\ Ticking /\ WarningDue
    /\ Handles([IssueCommand(ctl) EXCEPT !.warned = @ + 1]) /\ UNCHANGED fired
PrepStop ==
    /\ Due({PrepSighting}, 0)
    /\ Handles(EnterStage([CloseWindowAndStop(ctl) EXCEPT !.mode = "Match"], Series1))

LoadCommand ==
    /\ Due(Commanded, 0)
    /\ Handles([IssueCommand(ctl) EXCEPT !.seqStep = 1, !.left = Durations["Load"]])
StartCommand ==
    /\ Due(Commanded, 1)
    /\ Handles(OpenCommandWindow(IssueCommand(ctl), WindowMs(ctl.stage)))
CommandExpired ==
    /\ Due(Commanded, 2)
    /\ Handles(AdvanceAfterCommandStage(CloseWindowAndStop(RecordMissingShots(ctl))))

Tick == \/ TakeYourPositions \/ HoldOver \/ Warning \/ PrepStop
        \/ LoadCommand \/ StartCommand \/ CommandExpired

Next == \/ StartFinal \/ Resume \/ LeaveCompleted \/ SkipCeremony \/ AbortFinal
        \/ PauseToggled \/ RegisterSighter \/ RegisterOfficial \/ RejectShot
        \/ Tick \/ TimePasses \/ IncidentToggled \/ Crash

Spec == Init /\ [][Next]_fvars

\* The tick is a timer, and time passes.  The first fairness is that of Tick,
\* with ENABLED written out.
StepsWithEnd == ({Presentation} \X {0, 1}) \union {<<PrepSighting, 0>>}
                \union (Commanded \X (0 .. 2))
TickEnabled ==
    /\ Ticking
    /\ WarningDue \/ (ctl.left = 0 /\ <<ctl.stage, ctl.seqStep>> \in StepsWithEnd)
FairSpec == Spec /\ ([]<>~TickEnabled \/ []<><<Tick>>_fvars) /\ WF_fvars(TimePasses)
-----------------------------------------------------------------------------
(* Properties.                                                             *)
ShotNumbers(s) == {o.n : o \in OfficialsOf(rec, s)}
Passed(s) == rec.life = "Complete" \/ rec.stage > s

\* When a stage is over every number of it is an official shot or recorded as
\* missing, crashes and resumes or not; and is so once, unless a crash has cut
\* a handler short (recordMissingShots is then repeated).
ShotsAccountedFor ==
    \A s \in Commanded : Passed(s) /\ ~rec.refused =>
        LET missed == {i \in DOMAIN rec.missing : rec.missing[i] \in Numbers(s)}
        IN  /\ Numbers(s) \subseteq ShotNumbers(s) \union {rec.missing[i] : i \in missed}
            /\ ~hist.cut => Cardinality(ShotNumbers(s)) + Cardinality(missed)
                              = StageShotLimit(s)

\* What the controller counts is what the journal holds: m_officialShotCount,
\* m_shotsInStage with the numbers it gives, and the totals at the course
\* checkpoints, also after a resume.
ControllerMatchesJournal ==
    up = "live" /\ ~rec.refused =>
        /\ ctl.count = Cardinality(rec.officials)
        /\ ctl.stage \in Commanded => ShotNumbers(ctl.stage) =
              {StageShotNumberBase(ctl.stage) + i : i \in 1 .. ctl.shots}
        /\ \A p \in ctl.checkpoints :
              p.total = Cardinality({o \in rec.officials : o.n <= p.n})

\* A verdict in the journal tells what happened to the stage.
VerdictsTrue ==
    \A s \in Commanded : ~rec.refused /\ ~hist.cut =>
        /\ rec.status[s] = "Complete" => ShotNumbers(s) = Numbers(s)
        /\ rec.status[s] = "Incomplete" => ShotNumbers(s) # Numbers(s)

\* An open match window can take shots: the target is in its mode, and the
\* reducer in the phase in which it accepts them.  Resumes included.
WindowsTakeShots ==
    up = "live" /\ ctl.window # "Closed" =>
        ModeFits(ctl) /\ (ctl.window = "MatchOpen" => rec.phase = "OfficialMatch")

\* The course in the journal only goes forward, and a verdict stays.
GoesForward ==
    \/ StartFinal
    \/ /\ rec'.stage >= rec.stage
       /\ \A s \in Commanded : rec.status[s] \in Verdicts => rec'.status[s] = rec.status[s]
CourseForward == [][GoesForward]_fvars

\* A resume goes on with what remained at the last event, when the segment
\* that ran had begun with the last window.
KeepsClock == Resume /\ hist.exact /\ ~rec.refused => ctl'.left = hist.left
ResumeKeepsClock == [][KeepsClock]_fvars

\* A final that runs comes to its end, unless it is paused or the process ends.
FinalEnds == Running(ctl) ~> (~Running(ctl) \/ ctl.paused)
=============================================================================
