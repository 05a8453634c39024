------------------------------ MODULE Finals3P ------------------------------
(***************************************************************************)
(* Finals3PController: the command-driven 3-position final, its athlete's  *)
(* transitions, its shots, and its resume from the journal.                *)
(*                                                                         *)
(* Stages are the numbers of the enumeration: from Series1 on they follow  *)
(* each other.  Storage, the presentation and the texts of the commands    *)
(* are left out, and so is the guard against repeated external ids, which  *)
(* never fires: ShootingPage counts the ids up itself, one per shot.       *)
(***************************************************************************)
EXTENDS CommandedFinal

CONSTANTS
    Limit3P,         \* stageShotLimit of Kneeling, Prone, Series, Single
    Singles3P,       \* commanded single shots (StandingSingle1, ...)
    PrepWarnings,    \* 30 SECONDS: what remains of the preparation then
    StageOneWarnings \* FIVE MINUTES and THIRTY SECONDS, of stage one

Finals3PAssumption ==
    /\ \A s \in {"Kneeling", "Prone", "Series", "Single"} : Limit3P[s] \in Nat \ {0}
    /\ Singles3P \in Nat \ {0}
-----------------------------------------------------------------------------
(* Stages.                                                                 *)
Idle == 0
Ceremony == 1
KneelingPrepSight == 2
KneelingMatch == 3
ProneSighting == 4
ProneMatch == 5
StandingSighting == 6
Series1 == 7
Single1 == 9
Complete == Single1 + Singles3P
Aborted == Complete + 1

Stages == Idle .. Aborted
Commanded == Series1 .. Complete - 1
Stage1 == {KneelingMatch, ProneSighting, ProneMatch, StandingSighting}
MatchStages == {KneelingMatch, ProneMatch} \union Commanded
Running(c) == c.stage \in Ceremony .. Complete - 1

StageShotLimit(s) ==
    CASE s = KneelingMatch -> Limit3P["Kneeling"]
      [] s = ProneMatch -> Limit3P["Prone"]
      [] s \in Series1 .. Single1 - 1 -> Limit3P["Series"]
      [] s \in Single1 .. Complete - 1 -> Limit3P["Single"]
      [] OTHER -> 0

StageShotNumberBase(s) ==
    LET standing == Limit3P["Kneeling"] + Limit3P["Prone"]
    IN  CASE s = ProneMatch -> Limit3P["Kneeling"]
          [] s \in Series1 .. Single1 - 1 -> standing + (s - Series1) * Limit3P["Series"]
          [] s \in Single1 .. Complete - 1 ->
                standing + 2 * Limit3P["Series"] + (s - Single1) * Limit3P["Single"]
          [] OTHER -> 0
Numbers(s) ==
    StageShotNumberBase(s) + 1 .. StageShotNumberBase(s) + StageShotLimit(s)

WindowMs(s) == Durations[IF s < Single1 THEN "Series" ELSE "Single"]

\* The segment began with its window: in stage one only that of MATCH FIRING
\* START, whose clock the later windows share.
Anchored(c) ==
    /\ c.window # "Closed"
    /\ c.stage \in {KneelingPrepSight, KneelingMatch} \union Commanded
-----------------------------------------------------------------------------
(* Helpers of the controller.                                              *)
SubmitPhaseOfStageOne(c, s) ==
    CASE s = KneelingPrepSight -> Emit(Emit(c, Phase("Preparation", s)), Phase("Sighting", s))
      [] s \in {ProneSighting, StandingSighting} -> Emit(c, Phase("Sighting", s))
      [] s \in {KneelingMatch, ProneMatch} -> Emit(c, Phase("OfficialMatch", s))
      [] OTHER -> c
SubmitStagePhase(c, s) ==
    CASE s = KneelingPrepSight -> Emit(Emit(c, Phase("Preparation", s)), Phase("Sighting", s))
      [] s \in {ProneSighting, StandingSighting} -> Emit(c, Phase("Sighting", s))
      [] s \in MatchStages -> Emit(c, Phase("OfficialMatch", s))
      [] OTHER -> c

Completed(c) ==
    Emit(IssueCommand(IssueCommand([SetWindow(c, "Closed") EXCEPT !.left = 0])),
         MatchCompleted)

\* The part of enterStage that differs from stage to stage.  The windows of
\* stage one run on the clock that MATCH FIRING START has set.
Prepared(c, ceremony) ==
    CASE c.stage = Ceremony ->
            [SetWindow(IssueCommand(c), "Closed") EXCEPT
                !.seqStep = IF ceremony = "Full" THEN 0 ELSE 1,
                !.left = Durations[IF ceremony = "Full" THEN "Intro" ELSE "Hold"]]
      [] c.stage = KneelingPrepSight ->
            [SetWindow([IssueCommand(c) EXCEPT !.mode = "Sighter"], "SightingOpen")
                EXCEPT !.left = Durations["Prep"]]
      [] c.stage = KneelingMatch ->
            [SetWindow(IssueCommand(c), "Closed") EXCEPT !.left = Durations["Load"]]
      [] c.stage \in {ProneSighting, StandingSighting} -> SetWindow(c, "SightingOpen")
      [] c.stage = ProneMatch -> SetWindow(c, "MatchOpen")
      [] c.stage \in Commanded ->
            BeginCommandSequence(c, Durations[IF c.stage = Series1 THEN "PreGap" ELSE "Gap"])

EnteringUnreset(c, s) == [c EXCEPT !.stage = s, !.seqStep = 0]
Entering(c, s) == [c EXCEPT !.stage = s, !.seqStep = 0, !.shots = 0]
EnterStageAs(c, s, ceremony) ==
    LET entered == Entering(c, s)
        counted == IF StageShotLimit(s) > 0 THEN SetStageStatus(entered, s, "InProgress")
                   ELSE entered
    IN  IF s = Complete THEN Completed(counted)
        ELSE Emit(SubmitStagePhase(Prepared(counted, ceremony), s), Entered(s))
EnterStage(c, s) == EnterStageAs(c, s, "Full")

\* The announcer's note, then the next stage.
AdvanceAfterCommandStage(c) == EnterStage(IssueCommand(c), c.stage + 1)

VerdictEarly(shots, s) == IF shots + 1 >= StageShotLimit(s) THEN "Complete" ELSE "Incomplete"
Verdict(shots, s) == IF shots >= StageShotLimit(s) THEN "Complete" ELSE "Incomplete"
AddRange(c, s, shots) ==
    MissingRange(c, StageShotNumberBase(s), shots, StageShotLimit(s))
SetVerdict(c, s, shots) == SetStageStatus(c, s, Verdict(shots, s))

RecordMissingStage1(c) ==
    LET recorded == AddRange(AddRange(c, KneelingMatch, c.kneeling), ProneMatch, c.prone)
    IN  SetVerdict(SetVerdict(recorded, KneelingMatch, c.kneeling), ProneMatch, c.prone)
RecordMissingShots(c) == SetVerdict(AddRange(c, c.stage, c.shots), c.stage, c.shots)

\* acceptShot, of an official: the verdict is submitted before the shot.
AcceptOfficial(c, ext) ==
    LET s       == c.stage
        counted == [c EXCEPT !.shots = @ + 1, !.count = @ + 1,
                             !.kneeling = IF s = KneelingMatch THEN c.shots + 1 ELSE @,
                             !.prone = IF s = ProneMatch THEN c.shots + 1 ELSE @]
        full    == counted.shots >= StageShotLimit(s)
        judged  == IF full THEN SetStageStatus(counted, s, "Complete") ELSE counted
        shot    == Accepted(StageShotNumberBase(s) + counted.shots, ext, s)
        stored  == Emit(judged, shot)
    IN  IF full /\ s \in Commanded THEN AdvanceAfterCommandStage(CloseWindowAndStop(stored))
        ELSE stored

RecoveredStage(r) == IF r.stage = -1 THEN Idle ELSE r.stage
LoadRecoveredState(r) ==
    [NewCtl(Stages) EXCEPT
        !.stage = RecoveredStage(r), !.status = r.status,
        !.shots = Cardinality(OfficialsOf(r, RecoveredStage(r))),
        !.count = Cardinality(r.officials),
        !.kneeling = Cardinality(OfficialsOf(r, KneelingMatch)),
        !.prone = Cardinality(OfficialsOf(r, ProneMatch))]

\* Straight into the window of the stage, whatever step its command sequence
\* had reached.
RestoreStageFiringState(c, elapsed) ==
    CASE c.stage = KneelingPrepSight ->
            [c EXCEPT !.window = "SightingOpen", !.left = Rebased(elapsed, Durations["Prep"])]
      [] c.stage \in {ProneSighting, StandingSighting} ->
            [c EXCEPT !.window = "SightingOpen", !.started1 = TRUE,
                      !.left = Rebased(elapsed, Durations["Stage1"])]
      [] c.stage \in {KneelingMatch, ProneMatch} ->
            [c EXCEPT !.window = "MatchOpen", !.mode = "Match", !.seqStep = 1,
                      !.started1 = TRUE, !.left = Rebased(elapsed, Durations["Stage1"])]
      [] c.stage \in Commanded ->
            [c EXCEPT !.window = "MatchOpen", !.mode = "Match", !.seqStep = 2,
                      !.left = Rebased(elapsed, WindowMs(c.stage))]
      [] OTHER -> c
Restored(r, elapsed) == RestoreStageFiringState(LoadRecoveredState(r), elapsed)
-----------------------------------------------------------------------------
(* Operations.                                                             *)
HandlesAt(c, cost) == Submits(c, hist, Anchored(c), cost)
Handles(c) == HandlesAt(c, 0)

Init == /\ up = "none" /\ ctl = NewCtl(Stages) /\ rec = NewRec(Stages)
        /\ fired = 0 /\ hist = NewHist /\ troubles = 0

\* enterFinalsMode(TRUE): resetFinal and startFinal.  An earlier session that
\* is still open is archived, one that was left behind is not resumed.
StartFinal ==
    /\ up = "live" => ~Running(ctl)
    /\ \E ceremony \in {"Full", "Short", "Skip"} :
        Submits(EnterStageAs([NewCtl(Stages) EXCEPT !.out = <<NewRec(Stages)>>],
                             IF ceremony = "Skip" THEN KneelingPrepSight ELSE Ceremony,
                             ceremony),
                NewHist, ceremony = "Skip", 0)
    /\ fired' = 0

\* restoreFinals3P, resumeFromRecovery: a final that is not complete is
\* offered at the next start of the application.
Resume ==
    /\ up = "down" /\ rec.life = "Active"
    /\ \E elapsed \in ElapsedAtResume(rec) : ctl' = Restored(rec, elapsed)
    /\ rec' = ResumedRec(rec) /\ up' = "live" /\ fired' = 0
    /\ hist' = Stamped(hist, FALSE, 0)
    /\ UNCHANGED troubles

\* The controls of the developer's drawer.
SkipCeremony ==
    /\ up = "live" /\ ctl.stage = Ceremony
    /\ Handles(EnterStage(ctl, KneelingPrepSight)) /\ UNCHANGED fired

AbortFinal ==
    /\ up = "live" /\ Running(ctl)
    /\ LET judged == IF StageShotLimit(ctl.stage) > 0
                     THEN SetStageStatus(ctl, ctl.stage, "Aborted") ELSE ctl
       IN  HandlesAt([SetWindow(judged, "Closed") EXCEPT !.stage = Aborted, !.left = 0], 1)
    /\ UNCHANGED fired

PauseToggled ==
    /\ up = "live" /\ (ctl.paused \/ Running(ctl))
    /\ ctl' = [ctl EXCEPT !.paused = ~@]
    /\ Troubles(IF ctl.paused THEN 0 ELSE 1)
    /\ UNCHANGED <<up, rec, fired, hist>>

\* performStage1Advance.
Stage1Advance(c) ==
    CASE c.stage = KneelingMatch -> EnterStage([c EXCEPT !.mode = "Sighter"], ProneSighting)
      [] c.stage = ProneSighting -> EnterStage([c EXCEPT !.mode = "Match"], ProneMatch)
      [] c.stage = ProneMatch -> EnterStage([c EXCEPT !.mode = "Sighter"], StandingSighting)
      [] c.stage = StandingSighting -> SetWindow([c EXCEPT !.mode = "Match"], "Closed")

CanAdvance(c) ==
    \/ c.stage = KneelingMatch /\ c.started1
    \/ c.stage \in {ProneSighting, ProneMatch}

\* advanceStage1: hard-blocked until every shot of the position is fired.
AdvanceStage1 ==
    /\ up = "live" /\ CanAdvance(ctl) /\ ctl.shots >= StageShotLimit(ctl.stage)
    /\ Handles(Stage1Advance(ctl)) /\ UNCHANGED fired

DevForceAdvance ==
    /\ up = "live"
    /\ CanAdvance(ctl) \/ (ctl.stage = StandingSighting /\ ctl.mode = "Sighter")
    /\ HandlesAt(Stage1Advance(ctl), 1) /\ UNCHANGED fired

\* registerShot, called for every shot the page detects.
Detected == up = "live" /\ fired < MaxFired /\ fired' = fired + 1
ModeFits(c) ==
    \/ c.window = "MatchOpen" /\ c.mode = "Match"
    \/ c.window = "SightingOpen" /\ c.mode = "Sighter"
Admits(c) ==
    /\ Running(c) /\ ModeFits(c)
    /\ c.window = "MatchOpen" => ~rec.blocked /\ c.shots < StageShotLimit(c.stage)

RegisterSighter ==
    /\ Detected /\ Admits(ctl) /\ ctl.window = "SightingOpen"
    /\ Handles(Emit(ctl, Mark))
RegisterOfficial ==
    /\ Detected /\ Admits(ctl) /\ ctl.window = "MatchOpen"
    /\ Handles(AcceptOfficial(ctl, fired + 1))
RejectShot == Detected /\ ~Admits(ctl) /\ HandlesAt(Emit(ctl, Mark), 1)

\* tick: the branches of one handler, of which one applies at a time.
Ticking == up = "live" /\ ~ctl.paused
Due(stages, step) ==
    /\ Ticking /\ ctl.left = 0
    /\ ctl.stage \in stages /\ ctl.seqStep = step /\ UNCHANGED fired

TakeYourPositions ==
    /\ Due({Ceremony}, 0)
    /\ Handles([IssueCommand(ctl) EXCEPT !.seqStep = 1, !.left = Durations["Hold"]])
HoldOver == Due({Ceremony}, 1) /\ Handles(EnterStage(ctl, KneelingPrepSight))

PrepStop ==
    /\ Due({KneelingPrepSight}, 0)
    /\ Handles(EnterStage([CloseWindowAndStop(ctl) EXCEPT !.mode = "Match"], KneelingMatch))

MatchFiringStart ==
    /\ Due({KneelingMatch}, 0)
    /\ Handles([SetWindow(IssueCommand(ctl), "MatchOpen")
                   EXCEPT !.seqStep = 1, !.started1 = TRUE, !.warned = 0,
                          !.left = Durations["Stage1"]])

\* The time warnings, each once.
Warnings(c) ==
    CASE c.stage = KneelingPrepSight -> PrepWarnings
      [] c.stage \in Stage1 /\ c.started1 -> StageOneWarnings
      [] OTHER -> <<>>
WarningDue ==
    /\ ctl.left > 0 /\ ctl.warned < Len(Warnings(ctl))
    /\ ctl.left <= Warnings(ctl)[ctl.warned + 1]
Warning ==
    /\ Ticking /\ WarningDue
    /\ Handles([IssueCommand(ctl) EXCEPT !.warned = @ + 1]) /\ UNCHANGED fired

Stage1Stop ==
    /\ Ticking /\ ctl.left = 0 /\ ctl.stage \in Stage1 /\ ctl.started1
    /\ Handles(EnterStage(RecordMissingStage1([CloseWindowAndStop(ctl) EXCEPT !.mode = "Match"]),
                          Series1))
    /\ UNCHANGED fired

LoadCommandAgain ==
    /\ Due(Commanded, 0)
    /\ Handles([IssueCommand(ctl) EXCEPT !.left = Durations["Load"]])
LoadCommand ==
    /\ Due(Commanded, 0)
    /\ Handles([IssueCommand(ctl) EXCEPT !.seqStep = 1, !.left = Durations["Load"]])
StartCommand ==
    /\ Due(Commanded, 1)
    /\ Handles(OpenCommandWindow(IssueCommand(ctl), WindowMs(ctl.stage)))
CommandExpired ==
    /\ Due(Commanded, 2)
    /\ Handles(AdvanceAfterCommandStage(CloseWindowAndStop(RecordMissingShots(ctl))))

Tick == \/ TakeYourPositions \/ HoldOver \/ PrepStop \/ MatchFiringStart
        \/ Warning \/ Stage1Stop \/ LoadCommand \/ StartCommand \/ CommandExpired

Next == \/ StartFinal \/ Resume \/ SkipCeremony \/ AbortFinal \/ PauseToggled
        \/ AdvanceStage1 \/ DevForceAdvance
        \/ RegisterSighter \/ RegisterOfficial \/ RejectShot
        \/ Tick \/ TimePasses \/ IncidentToggled \/ Crash

Spec == Init /\ [][Next]_fvars

\* The tick is a timer, and time passes.  The first fairness is that of Tick,
\* with ENABLED written out.
StepsWithEnd == ({Ceremony} \X {0, 1}) \union ({KneelingPrepSight, KneelingMatch} \X {0})
                \union (Commanded \X (0 .. 2))
TickEnabled ==
    /\ Ticking
    /\ \/ WarningDue
       \/ /\ ctl.left = 0
          /\ \/ <<ctl.stage, ctl.seqStep>> \in StepsWithEnd
             \/ ctl.stage \in Stage1 /\ ctl.started1
FairSpec == Spec /\ ([]<>~TickEnabled \/ []<><<Tick>>_fvars) /\ WF_fvars(TimePasses)
-----------------------------------------------------------------------------
(* Properties.                                                             *)
ShotNumbers(s) == {o.n : o \in OfficialsOf(rec, s)}
Passed(s) ==
    \/ rec.life = "Complete"
    \/ s \in Commanded /\ rec.stage > s
    \/ s \in Stage1 /\ rec.stage >= Series1

\* When a stage is over every number of it is an official shot or recorded as
\* missing, crashes and resumes or not; and is so once, unless a crash has cut
\* a handler short (recordMissingShots is then repeated).
ShotsAccountedFor ==
    \A s \in MatchStages : Passed(s) /\ ~rec.refused =>
        LET missed == {i \in DOMAIN rec.missing : rec.missing[i] \in Numbers(s)}
        IN  /\ Numbers(s) \subseteq ShotNumbers(s) \union {rec.missing[i] : i \in missed}
            /\ ~hist.cut => Cardinality(ShotNumbers(s)) + Cardinality(missed)
                              = StageShotLimit(s)

\* What the controller counts is what the journal holds: m_officialShotCount,
\* and m_shotsInStage with the numbers it gives, also after a resume.
ControllerMatchesJournal ==
    up = "live" /\ ~rec.refused =>
        /\ ctl.count = Cardinality(rec.officials)
        /\ Running(ctl) => ShotNumbers(ctl.stage) =
              {StageShotNumberBase(ctl.stage) + i : i \in 1 .. ctl.shots}

\* A verdict in the journal tells what happened to the stage.
VerdictsTrue ==
    \A s \in MatchStages : ~rec.refused /\ ~hist.cut =>
        /\ rec.status[s] = "Complete" => ShotNumbers(s) = Numbers(s)
        /\ rec.status[s] = "Incomplete" => ShotNumbers(s) # Numbers(s)

\* An open window can take shots: the target is in its mode, and the reducer
\* is in a phase in which it accepts them.  Resumes included.
WindowsTakeShots ==
    up = "live" /\ ctl.window # "Closed" =>
        /\ ModeFits(ctl)
        /\ rec.phase # "None" /\ (ctl.window = "MatchOpen" => rec.phase = "OfficialMatch")

\* The course in the journal only goes forward, and a verdict stays.
GoesForward ==
    \/ StartFinal
    \/ /\ rec'.stage >= rec.stage
       /\ \A s \in MatchStages : rec.status[s] \in Verdicts => rec'.status[s] = rec.status[s]
CourseForward == [][GoesForward]_fvars

\* A resume goes on with what remained at the last event, when the segment
\* that ran had begun with the last window.
KeepsClock == Resume /\ hist.exact /\ ~rec.refused => ctl'.left = hist.left
ResumeKeepsClock == [][KeepsClock]_fvars

\* A final that runs comes to its end, unless it is paused or the process ends.
FinalEnds == Running(ctl) ~> (~Running(ctl) \/ ctl.paused)
=============================================================================
