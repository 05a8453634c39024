---------------------------- MODULE SessionFold ----------------------------
(***************************************************************************)
(* The state of a session and the reducer that folds the events of the     *)
(* journal into it: one pure function, used by the store for each event it *)
(* is given and by replay for each event it reads.  Events have the fields *)
(* of EventStructs.  In the state, too, a text is 0 or 1 and a flag 0 or 1; *)
(* a shot is a record with the fields of the core.                          *)
(***************************************************************************)
EXTENDS EventStructs, SequencesExt

\* Lifecycle and MatchPhase, of which 0 is none.
Active == 1
Suspended == 2
Complete == 3
Closed == 4
Preparation == 1
Sighting == 2
OfficialMatch == 3

FinalOf3P == 5
TrainingLabDiscipline == 6
FinalsOf10m == {7, 8}

Zero(names) == [n \in names |-> 0]
Core(e) == [n \in DOMAIN ShotCore |-> e[n]]
-----------------------------------------------------------------------------
(* The state.                                                              *)
Identity == DOMAIN SessionStructs.SessionStarted

NewTimer == [active |-> 0, timerId |-> 0, durationMs |-> 0, startedAtMonoMs |-> 0, paused |-> 0,
             pausedAtMonoMs |-> 0, pausedAccumMs |-> 0]

NewRecords ==
    [n \in {"officials", "sighters", "crossShots", "corrections", "adjustments", "incidents",
            "estIncidents", "trainingBlocks", "trainingSighters", "trainingSighterPos", "cdShots",
            "ptRecords", "wmShots", "stageSubtotalTenths", "stageStatuses"} |-> <<>>]

NewTraining ==
    Zero({"trainingActive", "trainingCompleted", "trainingProgramId", "trainingBlockCount",
          "trainingShotsPerBlock", "trainingVisibility", "trainingFocus", "trainingCurrentBlock",
          "trainingCurrentPosition", "trainingInSighterPhase", "trainingSighterPosition"})
    @@ [trainingSighterBeforeBlock |-> 1]

NewCallDiagnose ==
    Zero({"cdActive", "cdCompleted", "cdCallingActive", "cdProgramId", "cdFocus", "cdShotCount",
          "cdCurrentPosition", "cdThreePositions", "cdSessionNote"})

NewTransition ==
    Zero({"ptActive", "ptCompleted", "ptProgramId", "ptSequence", "ptFocus",
          "ptVerificationShots", "ptChecklistMode", "ptCurrentPosition", "ptInSetup",
          "ptVerifying", "ptSessionNote"})
    @@ [ptRepeats |-> 1, ptCurrentRepeat |-> 1]

StandingWind == Zero({"wmWindValid", "wmWindCalm", "wmWindDirectionDegrees",
                      "wmWindSpeedHundredthMs", "wmWindSource", "wmWindRecordedMs", "wmWindNote"})

NewWindMap ==
    Zero({"wmActive", "wmCompleted", "wmProgramId", "wmDisciplineId", "wmThreePositions",
          "wmCurrentPosition", "wmPositionSequence", "wmPhase", "wmConditionChanges"})
    @@ StandingWind @@ [wmNextShotId |-> 1]

NewState ==
    [started |-> 0, lifecycle |-> 0, phase |-> 0, currentStageId |-> -1, positionIndex |-> -1,
     totalTenths |-> 0, timer |-> NewTimer, lastSeq |-> 0, disc |-> [kind |-> "none"]]
    @@ [Zero(Identity) EXCEPT !["schemaVersion"] = 1, !["configVersion"] = 1]
    @@ NewRecords @@ NewTraining @@ NewCallDiagnose @@ NewTransition @@ NewWindMap

NewIncident ==
    Zero({"incidentId", "incidentType", "scope", "firingPoint", "relayId",
          "interruptionStartUtc", "systemRestoredUtc", "targetMoved", "originalTarget",
          "reserveTarget", "backupScoreReviewed", "timeCreditMs", "preparationGranted",
          "sightingGranted", "officialResumeAuthorised", "authorisedBy", "juryNote",
          "rangeOfficerNote", "incidentReportRef", "status", "reason", "raisedSeq",
          "creditDecision", "backupReview", "raisedAtMonoMs", "sightingGrantedSeq"})
    @@ [calculatedDurationMs |-> -1, officiallyAcceptedDurationMs |-> -1]

NewDisc(discipline) ==
    LET final == [stageId |-> 0, windowId |-> 0, shotsInStage |-> 0, version |-> 1]
    IN CASE discipline = FinalOf3P -> [kind |-> "finals3p"] @@ final
         [] discipline \in FinalsOf10m -> [kind |-> "finals10m"] @@ final
         [] discipline = TrainingLabDiscipline -> [kind |-> "training", version |-> 1]
         [] discipline = 0 -> [kind |-> "none"]
         [] OTHER -> [kind |-> "qualification", positionIndex |-> -1, sighterMode |-> 0,
                      version |-> 1]
-----------------------------------------------------------------------------
(* Totals, derived from the records alone.                                 *)
SumOver(Part(_), records) == MapThenSumSet(LAMBDA i : Part(records[i]), DOMAIN records)

EffectiveTenths(r) == CASE r.invalidated = 1 -> 0
                        [] r.rescoredTenths >= 0 -> r.rescoredTenths
                        [] OTHER -> r.scoreTenths

DeriveTotalTenths(s) == SumOver(EffectiveTenths, s.officials)
                        + SumOver(LAMBDA a : a.deltaTenths, s.adjustments)

RecomputeTotals(s) ==
    LET stages == {r.stageId : r \in ToSet(s.officials)}
                  \cup {a.stageId : a \in {x \in ToSet(s.adjustments) : x.stageId >= 0}}
    IN [s EXCEPT !.totalTenths = DeriveTotalTenths(s),
                 !.stageSubtotalTenths = [stage \in stages |->
                     SumOver(LAMBDA r : IF r.stageId = stage THEN EffectiveTenths(r) ELSE 0,
                             s.officials)
                     + SumOver(LAMBDA a : IF a.stageId = stage THEN a.deltaTenths ELSE 0,
                               s.adjustments)]]

\* What apply() demands of each state it makes.
CheckInvariants(s) ==
    /\ s.totalTenths = DeriveTotalTenths(s)
    /\ s.totalTenths = MapThenSumSet(LAMBDA stage : s.stageSubtotalTenths[stage],
                                     DOMAIN s.stageSubtotalTenths)
                       + SumOver(LAMBDA a : IF a.stageId < 0 THEN a.deltaTenths ELSE 0,
                                 s.adjustments)
    /\ \A r \in ToSet(s.officials) : r["shot.shotNumber"] >= 1
    /\ \A r \in ToSet(s.sighters) : r["shot.shotNumber"] = 0
-----------------------------------------------------------------------------
(* What is accepted: the lifecycle an event is legal in, and the conditions *)
(* of its handler.                                                         *)
Corrections == {"ShotInvalidated", "ShotRescored", "SeriesAdjusted", "PenaltyIssued"}

\* The handlers that look at nothing but whether the session has started.
StartedSuffices ==
    {"StateSnapshot", "RecoveryStarted", "RecoveryCompleted", "PersistenceDegraded",
     "PersistenceRestored", "AuxEventsDropped", "CleanShutdown", "TrainingSessionStarted",
     "CallDiagnoseSessionStarted", "PositionTransitionSessionStarted", "WindMapSessionStarted"}
    \cup DOMAIN IncidentStructs

\* The handlers that look at nothing at all.
Unguarded == (DOMAIN BlockStructs \cup DOMAIN CallStructs \cup DOMAIN TransitionStructs)
             \ StartedSuffices

LifecycleAllows(s, type) ==
    CASE type = "SessionStarted" -> s.started = 0
      [] type \in Corrections -> s.lifecycle \in {Active, Complete}
      [] type = "SessionResumed" -> s.lifecycle = Suspended
      [] type = "SessionClosed" -> s.lifecycle \in {Active, Suspended, Complete}
      [] type \in StartedSuffices -> s.started = 1
      [] type \in Unguarded -> TRUE
      [] type \in DOMAIN WindStructs -> s.wmActive = 1
      [] OTHER -> s.lifecycle = Active

OfficialAt(s, seq) == SelectInSeq(s.officials, LAMBDA r : r.seq = seq)
IncidentAt(s, id) == SelectInSeq(s.estIncidents, LAMBDA i : i.incidentId = id)

\* No shot number and no identity of the target's twice.
NewShot(s, e) ==
    \A r \in ToSet(s.officials) :
        /\ r["shot.shotNumber"] # e["shot.shotNumber"]
        /\ e.externalId # 0 => r.externalId # e.externalId

\* Of an incident that has been raised, and what a closed one still takes.
OpenStatus == {0, 1}
IncidentAllows(s, type, e) ==
    LET i == IncidentAt(s, e.incidentId)
    IN /\ i # 0
       /\ type \in {"EstIncidentResolved", "EstDecisionRecorded", "TargetReassigned"} =>
             s.estIncidents[i].status \in OpenStatus
       /\ type = "EstDecisionRecorded" /\ e.decision = 0 => s.estIncidents[i].creditDecision = 0

WindMapPositionOk(s, position) == IF s.wmThreePositions = 1 THEN position \in 1 .. 3
                                  ELSE position = 0

HandlerAllows(s, type, e) ==
    CASE type = "ShotAccepted" -> s.phase = OfficialMatch /\ NewShot(s, e)
      [] type = "SighterAccepted" -> s.phase # 0
      [] type = "TimerPaused" -> s.timer.active = 1 /\ s.timer.paused = 0
      [] type = "TimerResumed" -> s.timer.active = 1 /\ s.timer.paused = 1
      [] type = "TimerExpired" -> s.timer.active = 1
      [] type = "MatchCompleted" -> e.totalTenths = s.totalTenths
                                    /\ e.officialCount = Len(s.officials)
      [] type = "ShotInvalidated" -> LET i == OfficialAt(s, e.targetSeq)
                                     IN i # 0 /\ s.officials[i].invalidated = 0
      [] type = "ShotRescored" -> OfficialAt(s, e.targetSeq) # 0
      [] type = "EstIncidentRaised" -> IncidentAt(s, e.incidentId) = 0
      [] type \in DOMAIN IncidentStructs -> IncidentAllows(s, type, e)
      [] type \in {"WindMapSighterAccepted", "WindMapShotAccepted"} ->
            WindMapPositionOk(s, e.position)
      [] type = "WindMapPositionChanged" -> s.wmThreePositions = 1
                                            /\ WindMapPositionOk(s, e.toPosition)
      [] type = "WindMapPhaseChanged" -> /\ e.fromPhase = s.wmPhase /\ s.wmPhase # 6
                                         /\ e.toPhase = 4 => s.wmThreePositions = 1
      [] OTHER -> TRUE
-----------------------------------------------------------------------------
(* What an accepted event does.                                            *)
\* The first record that answers to Test, changed.
Amend(records, Test(_), New(_)) ==
    LET i == SelectInSeq(records, Test)
    IN IF i = 0 THEN records ELSE [records EXCEPT ![i] = New(@)]

ShotRecord(e, seq) == [seq |-> seq, invalidated |-> 0, rescoredTenths |-> -1] @@ Core(e)
Incident(kind, note, allowed, seq) ==
    [kind |-> kind, note |-> note, allowedTimeMs |-> allowed, seq |-> seq]
Adjustment(kind, stage, delta, reason) ==
    [kind |-> kind, stageId |-> stage, deltaTenths |-> delta, reason |-> reason]

\* A correction that forgets the ones before it (a fault, for comparison).
CorrectionOfFirstScore(type, e, r, tenths) ==
    [targetSeq |-> e.targetSeq, type |-> type, reason |-> e.reason,
     fromTenths |-> r.scoreTenths, toTenths |-> tenths]
Correction(type, e, r, tenths) ==
    [targetSeq |-> e.targetSeq, type |-> type, reason |-> e.reason,
     fromTenths |-> EffectiveTenths(r), toTenths |-> tenths]

IsFinal(s) == s.disc.kind \in {"finals3p", "finals10m"}
Entered(disc, stage) == [disc EXCEPT !.stageId = stage, !.shotsInStage = 0]

SessionEffect(s, type, e) ==
    CASE type = "SessionStarted" ->
            [n \in Identity |-> e[n]]
            @@ [NewState EXCEPT !.started = 1, !.lifecycle = Active, !.disc = NewDisc(e.discipline)]
      [] type = "SessionConfigured" -> [n \in DOMAIN SessionStructs.SessionConfigured |-> e[n]] @@ s
      [] type = "AthleteAssigned" ->
            [s EXCEPT !.athlete = e.athlete,
                      !.lane = IF e.lane = 0 THEN @ ELSE e.lane,
                      !.targetId = IF e.targetId = 0 THEN @ ELSE e.targetId]
      [] type = "PreparationStarted" ->
            [s EXCEPT !.phase = Preparation, !.currentStageId = e.stageId]
      [] type = "SightingStarted" -> [s EXCEPT !.phase = Sighting, !.currentStageId = e.stageId]
      [] type = "OfficialMatchStarted" ->
            [s EXCEPT !.phase = OfficialMatch, !.currentStageId = e.stageId]

TimerEffect(s, type, e, mono) ==
    CASE type = "TimerStarted" ->
            [s EXCEPT !.timer = [NewTimer EXCEPT !.active = 1, !.timerId = e.timerId,
                                                 !.durationMs = e.durationMs,
                                                 !.startedAtMonoMs = mono]]
      [] type = "TimerPaused" ->
            [s EXCEPT !.timer.paused = 1, !.timer.pausedAtMonoMs = e.atMonoMs]
      [] type = "TimerResumed" ->
            [s EXCEPT !.timer.paused = 0,
                      !.timer.pausedAccumMs = @ + e.atMonoMs - s.timer.pausedAtMonoMs]
      [] type = "TimerExpired" -> [s EXCEPT !.timer.active = 0, !.timer.paused = 0]

CourseEffect(s, type, e, seq, mono) ==
    CASE type = "ShotAccepted" ->
            RecomputeTotals([s EXCEPT
                !.officials = Append(@, ShotRecord(e, seq)),
                !.disc = IF IsFinal(s) THEN [@ EXCEPT !.stageId = e.stageId, !.windowId = e.windowId,
                                                      !.shotsInStage = @ + 1]
                         ELSE @])
      [] type = "SighterAccepted" -> [s EXCEPT !.sighters = Append(@, ShotRecord(e, seq))]
      [] type = "StageCompleted" -> [s EXCEPT !.stageStatuses = (e.stageId :> e.status) @@ @]
      [] type = "PositionChanged" ->
            [s EXCEPT !.positionIndex = e.positionIndex,
                      !.disc = IF @.kind = "qualification"
                               THEN [@ EXCEPT !.positionIndex = e.positionIndex] ELSE @]
      [] type = "MatchCompleted" -> [s EXCEPT !.lifecycle = Complete]
      [] type = "SessionSuspended" -> [s EXCEPT !.lifecycle = Suspended]
      [] type = "SessionResumed" -> [s EXCEPT !.lifecycle = Active]
      [] type = "StateSnapshot" -> s
      [] OTHER -> TimerEffect(s, type, e, mono)

RulingEffect(s, type, e, seq) ==
    LET Corrected(tenths, New(_)) ==
            RecomputeTotals([s EXCEPT
                !.officials = [@ EXCEPT ![OfficialAt(s, e.targetSeq)] = New(@)],
                !.corrections = Append(@, Correction(type, e, s.officials[OfficialAt(s, e.targetSeq)],
                                                     tenths))])
    IN CASE type = "ShotInvalidated" -> Corrected(0, LAMBDA r : [r EXCEPT !.invalidated = 1])
         [] type = "ShotRescored" ->
               Corrected(e.newScoreTenths,
                   LAMBDA r : [r EXCEPT
                       !.rescoredTenths = e.newScoreTenths,
                       !.xHundredthMm = IF e.hasNewCoordinates = 1 THEN e.newXHundredthMm ELSE @,
                       !.yHundredthMm = IF e.hasNewCoordinates = 1 THEN e.newYHundredthMm ELSE @])
         [] type = "SeriesAdjusted" ->
               RecomputeTotals([s EXCEPT !.adjustments =
                   Append(@, Adjustment(type, e.stageId, e.deltaTenths, e.reason))])
         [] type = "PenaltyIssued" ->
               RecomputeTotals([s EXCEPT !.adjustments =
                   Append(@, Adjustment(type, -1, e.deltaTenths, e.rule))])
         [] type = "CrossShotRecorded" ->
               [s EXCEPT !.crossShots =
                   Append(@, [seq |-> seq, sourceLane |-> e.sourceLane] @@ Core(e))]
         [] type = "EquipmentMalfunctionRecorded" ->
               [s EXCEPT !.incidents =
                   Append(@, Incident("EquipmentMalfunction", e.note, e.allowedTimeMs, seq))]
         [] type = "RecoveryCompleted" -> [s EXCEPT !.lifecycle = Active]
         [] type = "SessionClosed" -> [s EXCEPT !.lifecycle = Closed]
         [] OTHER -> s

FinalsEffect(s, type, e, seq) ==
    CASE type = "StageEntered" -> [s EXCEPT !.currentStageId = e.stageId,
                                            !.disc = IF IsFinal(s) THEN Entered(@, e.stageId) ELSE @]
      [] type = "StageStatusChanged" -> [s EXCEPT !.stageStatuses = (e.stageId :> e.status) @@ @]
      [] type = "WindowOpened" ->
            [s EXCEPT !.disc = IF IsFinal(s) THEN [@ EXCEPT !.windowId = e.windowId] ELSE @]
      [] type = "ShotRejected" ->
            [s EXCEPT !.incidents = Append(@, Incident("ShotRejected", e.reason, -1, seq))]
      [] type = "MissingShotRecorded" ->
            [s EXCEPT !.incidents = Append(@, Incident("MissingShot", 1, -1, seq))]
      [] OTHER -> s

IncidentEffect(s, type, e, seq, mono) ==
    LET Change(New(_)) == [s EXCEPT !.estIncidents =
                              Amend(@, LAMBDA i : i.incidentId = e.incidentId, New)]
        Ruled(i) == [i EXCEPT !.authorisedBy = e.authorisedBy]
        Reviewed(i, outcome) == [i EXCEPT !.backupReview = outcome, !.backupScoreReviewed = 1]
    IN CASE type = "EstIncidentRaised" ->
               [s EXCEPT !.estIncidents =
                   Append(@, [n \in DOMAIN e |-> e[n]]
                             @@ [raisedSeq |-> seq, raisedAtMonoMs |-> mono] @@ NewIncident)]
         [] type = "TimeCreditGranted" ->
               Change(LAMBDA i : Ruled([i EXCEPT !.timeCreditMs = @ + e.durationMs,
                                                 !.creditDecision = 2]))
         [] type = "RecoveryPhaseEntered" ->
               Change(LAMBDA i : Ruled(
                   CASE e.phase = 0 -> [i EXCEPT !.preparationGranted = 1]
                     [] e.phase = 1 -> [i EXCEPT !.sightingGranted = 1, !.sightingGrantedSeq = seq]
                     [] OTHER -> [i EXCEPT !.officialResumeAuthorised = 1]))
         [] type = "EstIncidentResolved" ->
               Change(LAMBDA i : [n \in DOMAIN e |-> e[n]] @@ i)
         [] type = "EstDecisionRecorded" ->
               Change(LAMBDA i : Ruled(
                   CASE e.decision = 0 -> [i EXCEPT !.creditDecision = 1]
                     [] e.decision = 1 ->
                          [i EXCEPT !.officiallyAcceptedDurationMs = e.acceptedDurationMs]
                     [] OTHER -> Reviewed(i, e.decision - 1)))
         [] type = "TargetReassigned" ->
               Change(LAMBDA i : Ruled([i EXCEPT !.targetMoved = 1,
                                                 !.originalTarget = e.originalTarget,
                                                 !.reserveTarget = e.reserveTarget]))

\* The sighters before a block are those of the Training Lab's programmes.
SighterPhase(s, position, block) ==
    [s EXCEPT !.trainingInSighterPhase = 1, !.trainingSighterPosition = position,
              !.trainingSighterBeforeBlock = block]

NewBlock(e) == [blockIndex |-> e.blockIndex, position |-> e.position, completed |-> 0, note |-> 0,
                blockShots |-> <<>>]

BlockEffect(s, type, e) ==
    LET SameBlock(b) == b.blockIndex = e.blockIndex
        known == \E b \in ToSet(s.trainingBlocks) : SameBlock(b)
        Change(New(_)) == [s EXCEPT !.trainingBlocks = Amend(@, SameBlock, New)]
        Taking(b) == [b EXCEPT !.blockShots = Append(@, Core(e))]
    IN CASE type = "TrainingSessionStarted" ->
               SighterPhase([s EXCEPT !.trainingActive = 1, !.trainingProgramId = e.programId,
                                      !.trainingBlockCount = e.blockCount,
                                      !.trainingShotsPerBlock = e.shotsPerBlock,
                                      !.trainingVisibility = e.visibilityMode,
                                      !.trainingFocus = e.technicalFocus,
                                      !.trainingCurrentPosition = e.startPosition],
                            e.startPosition, 1)
         [] type = "TrainingSighterPhaseStarted" -> SighterPhase(s, e.position, e.beforeBlock)
         [] type = "TrainingSighterAccepted" ->
               [s EXCEPT !.trainingSighters = Append(@, Core(e)),
                         !.trainingSighterPos = Append(@, e.position)]
         [] type = "TrainingBlockStarted" ->
               [s EXCEPT !.trainingCurrentBlock = e.blockIndex,
                         !.trainingCurrentPosition = e.position, !.trainingInSighterPhase = 0,
                         !.trainingBlocks = IF known THEN @ ELSE Append(@, NewBlock(e))]
         [] type = "TrainingShotAccepted" ->
               IF known THEN Change(Taking)
               ELSE [s EXCEPT !.trainingBlocks = Append(@, Taking(NewBlock(e)))]
         [] type = "TrainingBlockCompleted" -> Change(LAMBDA b : [b EXCEPT !.completed = 1])
         [] type = "TrainingNoteSaved" -> Change(LAMBDA b : [b EXCEPT !.note = e.note])
         [] type = "TrainingCompleted" ->
               [s EXCEPT !.trainingCompleted = 1, !.lifecycle = Complete]

CallEffect(s, type, e) ==
    LET Change(New(_)) ==
            [s EXCEPT !.cdShots = Amend(@, LAMBDA c : c.position = e.position
                                                      /\ c.shotNumber = e.shotNumber, New)]
    IN CASE type = "CallDiagnoseSessionStarted" ->
               SighterPhase([s EXCEPT !.cdActive = 1, !.cdProgramId = e.programId,
                                      !.cdFocus = e.technicalFocus, !.cdShotCount = e.shotCount,
                                      !.cdThreePositions = e.threePositions,
                                      !.cdCurrentPosition = e.startPosition,
                                      !.cdCallingActive = 0],
                            e.startPosition, 1)
         [] type = "CallDiagnoseStarted" ->
               [s EXCEPT !.cdCallingActive = 1, !.cdCurrentPosition = e.position,
                         !.trainingInSighterPhase = 0]
         [] type = "CallDiagnoseShotReceived" ->
               [s EXCEPT !.cdShots =
                   Append(@, [shotNumber |-> e.shotNumber, position |-> e.position, hasCall |-> 0,
                              calledXHundredthMm |-> 0, calledYHundredthMm |-> 0,
                              callSplitMs |-> 0, note |-> 0] @@ Core(e))]
         [] type = "CallDiagnoseCallRecorded" ->
               Change(LAMBDA c : [c EXCEPT !.hasCall = 1,
                                           !.calledXHundredthMm = e.calledXHundredthMm,
                                           !.calledYHundredthMm = e.calledYHundredthMm,
                                           !.callSplitMs = e.callSplitMs])
         [] type = "CallDiagnoseNoteSaved" -> Change(LAMBDA c : [c EXCEPT !.note = e.note])
         [] type = "CallDiagnoseCompleted" ->
               [s EXCEPT !.cdCompleted = 1, !.cdSessionNote = e.sessionNote, !.lifecycle = Complete]

NewPosition(e) == [position |-> e.position, repeat |-> e.repeat, setupDurationMs |-> 0,
                   readyMonoMs |-> 0, note |-> 0, completed |-> 0, sighters |-> <<>>,
                   verifShots |-> <<>>, checklist |-> <<>>]

\* The list of a position grows up to the item that is ticked.
Ticked(checklist, item, state) ==
    [i \in 1 .. (IF Len(checklist) > item THEN Len(checklist) ELSE item + 1) |->
        CASE i = item + 1 -> state
          [] i \in DOMAIN checklist -> checklist[i]
          [] OTHER -> 0]

TransitionEffect(s, type, e) ==
    LET Same(r) == r.position = e.position /\ r.repeat = e.repeat
        known == \E r \in ToSet(s.ptRecords) : Same(r)
        Change(t, New(_)) == [t EXCEPT !.ptRecords = Amend(@, Same, New)]
    IN CASE type = "PositionTransitionSessionStarted" ->
               [s EXCEPT !.ptActive = 1, !.ptProgramId = e.programId, !.ptSequence = e.sequence,
                         !.ptFocus = e.technicalFocus, !.ptVerificationShots = e.verificationShots,
                         !.ptRepeats = e.repeats, !.ptChecklistMode = e.checklistMode,
                         !.ptCurrentRepeat = 1, !.ptInSetup = 0, !.ptVerifying = 0]
         [] type = "PositionSetupStarted" ->
               [s EXCEPT !.ptCurrentPosition = e.position, !.ptCurrentRepeat = e.repeat,
                         !.ptInSetup = 1, !.ptVerifying = 0,
                         !.ptRecords = IF known THEN @ ELSE Append(@, NewPosition(e))]
         [] type = "PositionChecklistUpdated" ->
               Change(s, LAMBDA r : [r EXCEPT !.checklist = Ticked(@, e.itemIndex, e.state)])
         [] type = "PositionReady" ->
               Change([s EXCEPT !.ptInSetup = 0],
                      LAMBDA r : [r EXCEPT !.setupDurationMs = e.setupDurationMs])
         [] type = "PositionSighterAccepted" ->
               Change(s, LAMBDA r : [r EXCEPT !.sighters = Append(@, Core(e))])
         [] type = "PositionVerificationStarted" ->
               Change([s EXCEPT !.ptVerifying = 1],
                      LAMBDA r : [r EXCEPT !.readyMonoMs = e.readyMonoMs])
         [] type = "PositionVerificationShotAccepted" ->
               Change(s, LAMBDA r : [r EXCEPT !.verifShots = Append(@, Core(e))])
         [] type = "PositionVerificationCompleted" ->
               Change([s EXCEPT !.ptVerifying = 0], LAMBDA r : [r EXCEPT !.completed = 1])
         [] type = "PositionNoteSaved" -> Change(s, LAMBDA r : [r EXCEPT !.note = e.note])
         [] type = "NextPositionTransitionStarted" -> s
         [] type = "PositionTransitionCompleted" ->
               [s EXCEPT !.ptCompleted = 1, !.ptSessionNote = e.sessionNote,
                         !.lifecycle = Complete]

WindOf(e) == [wmWindValid |-> e.windValid, wmWindCalm |-> e.windCalm,
              wmWindDirectionDegrees |-> e.windDirDeg,
              wmWindSpeedHundredthMs |-> e.windSpeedHundredthMs, wmWindSource |-> e.windSource,
              wmWindRecordedMs |-> e.windRecordedMs, wmWindNote |-> e.windNote]

WindMapEffect(s, type, e) ==
    CASE type = "WindMapSessionStarted" ->
            [NewWindMap EXCEPT !["wmActive"] = 1, !["wmProgramId"] = 1,
                               !["wmDisciplineId"] = e.disciplineId,
                               !["wmThreePositions"] = e.is3P,
                               !["wmPositionSequence"] = e.positionSequence,
                               !["wmCurrentPosition"] = e.is3P, !["wmPhase"] = 1]
            @@ [s EXCEPT !.wmShots = <<>>]
      [] type = "WindConditionChanged" ->
            WindOf(e) @@ [s EXCEPT !.wmConditionChanges = @ + 1]
      [] type \in {"WindMapSighterAccepted", "WindMapShotAccepted"} ->
            [s EXCEPT !.wmNextShotId = e.shotId + 1,
                      !.wmShots = Append(@, [n \in DOMAIN WindShot |-> e[n]]
                          @@ [sighter |-> IF type = "WindMapSighterAccepted" THEN 1 ELSE 0])]
      [] type = "WindMapPositionChanged" -> [s EXCEPT !.wmCurrentPosition = e.toPosition]
      [] type = "WindMapPhaseChanged" -> [s EXCEPT !.wmPhase = e.toPhase]
      [] type = "WindMapSessionCompleted" ->
            [s EXCEPT !.wmCompleted = 1, !.wmPhase = 6, !.lifecycle = Complete]

Effect(s, type, e, seq, mono) ==
    CASE type \in DOMAIN SessionStructs -> SessionEffect(s, type, e)
      [] type \in DOMAIN CourseStructs -> CourseEffect(s, type, e, seq, mono)
      [] type \in DOMAIN RulingStructs -> RulingEffect(s, type, e, seq)
      [] type \in DOMAIN FinalsStructs -> FinalsEffect(s, type, e, seq)
      [] type \in DOMAIN IncidentStructs -> IncidentEffect(s, type, e, seq, mono)
      [] type \in DOMAIN BlockStructs -> BlockEffect(s, type, e)
      [] type \in DOMAIN CallStructs -> CallEffect(s, type, e)
      [] type \in DOMAIN TransitionStructs -> TransitionEffect(s, type, e)
      [] type \in DOMAIN WindStructs -> WindMapEffect(s, type, e)

\* Each event is the next one; the first need not be, if it starts the session.
InSequence(s, type, seq) == IF s.started = 0 THEN seq = 0 \/ type = "SessionStarted"
                            ELSE seq = s.lastSeq + 1

Legal(s, type, e, seq) == /\ ValidateEvent(type, e) /\ InSequence(s, type, seq)
                          /\ LifecycleAllows(s, type) /\ HandlerAllows(s, type, e)

Reduced(s, type, e, seq, mono) == [Effect(s, type, e, seq, mono) EXCEPT !.lastSeq = seq]

\* apply(): the next state, or none.
Apply(s, type, e, seq, mono) ==
    LET next == Reduced(s, type, e, seq, mono)
    IN IF Legal(s, type, e, seq) /\ CheckInvariants(next) THEN <<next>> ELSE <<>>
=============================================================================
