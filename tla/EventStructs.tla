---------------------------- MODULE EventStructs ----------------------------
(***************************************************************************)
(* The typed events of the journal: their fields, the width of each, and   *)
(* what validate() demands of it before the event is written.  A field is  *)
(*     name :> [kind, width, valid]                                        *)
(* with the two ranges as pairs <<least, greatest>>.  A text is empty (0)  *)
(* or not (1), a flag 0 or 1, a discipline the number of its name.  The    *)
(* widths of 32 and 64 bits are constants, of which only the order matters.*)
(***************************************************************************)
EXTENDS Integers, Sequences, TLC

CONSTANTS Int32Max, Int64Max

\* What the ranges below compare with.
StructAssumption ==
    /\ Int32Max \in Nat /\ Int64Max \in Nat
    /\ 1000000 < Int32Max /\ Int32Max < Int64Max

Int8 == <<-128, 127>>
Int16 == <<-32768, 32767>>
Int32 == <<-Int32Max - 1, Int32Max>>
Int64 == <<-Int64Max - 1, Int64Max>>
Nat64 == <<0, 2 * Int64Max + 1>>
Enumeration(n) == <<0, n - 1>>

From(least, width) == <<least, width[2]>>

\* Fields: of any value, of a value in a range, texts, texts that must not be
\* empty, flags.
Limited(names, width, valid) ==
    [n \in names |-> [kind |-> "number", width |-> width, valid |-> valid]]
Number(names, width) == Limited(names, width, width)
Text(names) == [n \in names |-> [kind |-> "text", width |-> <<0, 1>>, valid |-> <<0, 1>>]]
Named(names) == [n \in names |-> [kind |-> "text", width |-> <<0, 1>>, valid |-> <<1, 1>>]]
Flag(names) == [n \in names |-> [kind |-> "flag", width |-> <<0, 1>>, valid |-> <<0, 1>>]]

\* A discipline is written as its name: nine names, of which the first is none.
Disciplines == <<0, 8>>
Discipline(valid) == [n \in {"discipline"} |->
                        [kind |-> "text", width |-> Disciplines, valid |-> valid]]

DisciplineConfig ==
    Number({"officialShots", "seriesSize", "perPositionShots", "sighterLimit",
            "configVersion"}, Int32)
    @@ Number({"matchMs"}, Int64)

ShotCore ==
    Limited({"shot.shotNumber"}, Int16, From(0, Int16))
    @@ Limited({"scoreTenths"}, Int16, <<0, 110>>)
    @@ Limited({"splitMs"}, Int32, From(0, Int32))
    @@ Number({"withinStage", "stageId", "windowId"}, Int16)
    @@ Number({"seriesIndex", "targetMode"}, Int8)
    @@ Number({"xHundredthMm", "yHundredthMm", "directionCentiDeg"}, Int32)
    @@ Number({"externalId"}, Int64)
    @@ Flag({"simulated"})

TimerId == Number({"timerId"}, Enumeration(4))
Authority == Number({"authority"}, Enumeration(2))
StageId == Limited({"stageId"}, Int16, From(0, Int16))
-----------------------------------------------------------------------------
SessionStructs ==
    [SessionStarted |->
        Named({"sessionId", "createdAtIso"})
        @@ Limited({"schemaVersion"}, Int32, From(1, Int32))
        @@ Text({"appVersion", "athlete", "lane", "targetId", "matchType", "deviceId",
                 "operatingMode", "sessionKind"})
        @@ Discipline(Disciplines) @@ DisciplineConfig,
     SessionConfigured |->
        Discipline(From(1, Disciplines)) @@ Text({"matchType"}) @@ DisciplineConfig,
     AthleteAssigned |-> Named({"athlete"}) @@ Text({"lane", "targetId"}),
     PreparationStarted |-> StageId,
     SightingStarted |-> StageId,
     OfficialMatchStarted |-> StageId]

CourseStructs ==
    [ShotAccepted |-> Limited({"shot.shotNumber"}, Int16, From(1, Int16)) @@ ShotCore,
     SighterAccepted |-> Limited({"shot.shotNumber"}, Int16, <<0, 0>>) @@ ShotCore,
     StageCompleted |-> StageId @@ Number({"status"}, Int8),
     PositionChanged |-> Limited({"positionIndex"}, Int8, <<0, 2>>),
     TimerStarted |-> TimerId @@ Limited({"durationMs"}, Int64, From(1, Int64)),
     TimerPaused |-> TimerId @@ Limited({"atMonoMs"}, Int64, From(0, Int64)),
     TimerResumed |-> TimerId @@ Limited({"atMonoMs"}, Int64, From(0, Int64)),
     TimerExpired |-> TimerId,
     MatchCompleted |-> Limited({"totalTenths"}, Int32, From(0, Int32))
                        @@ Limited({"officialCount"}, Int16, From(0, Int16)),
     SessionSuspended |-> Number({"reason"}, Enumeration(2)),
     SessionResumed |-> Flag({}),
     StateSnapshot |-> Limited({"stateVersion"}, Int32, From(1, Int32))
                       @@ Number({"lastAppliedSeq"}, Nat64)
                       @@ Limited({"officialCount", "sighterCount"}, Int32, From(0, Int32))
                       @@ Number({"totalTenths"}, Int32) @@ Named({"state"})]

RulingStructs ==
    [ShotInvalidated |-> Number({"targetSeq"}, Nat64) @@ Named({"reason"}) @@ Authority,
     ShotRescored |-> Number({"targetSeq"}, Nat64)
                      @@ Limited({"newScoreTenths"}, Int16, <<0, 109>>)
                      @@ Flag({"hasNewCoordinates"})
                      @@ Number({"newXHundredthMm", "newYHundredthMm"}, Int32)
                      @@ Named({"reason"}) @@ Authority,
     SeriesAdjusted |-> Number({"stageId"}, Int16) @@ Number({"deltaTenths"}, Int32)
                        @@ Named({"reason"}) @@ Authority,
     CrossShotRecorded |-> ShotCore @@ Text({"sourceLane"}),
     EquipmentMalfunctionRecorded |-> Named({"note"}) @@ Number({"allowedTimeMs"}, Int64),
     PenaltyIssued |-> Number({"deltaTenths"}, Int32) @@ Named({"rule"}) @@ Authority,
     RecoveryStarted |-> Number({"fromSeq"}, Nat64),
     RecoveryCompleted |-> Number({"resumedAtSeq"}, Nat64) @@ Flag({"truncatedTail"}),
     SessionClosed |-> Number({"reason"}, Enumeration(3))]

FinalsStructs ==
    [StageEntered |-> StageId,
     StageStatusChanged |-> StageId @@ Number({"status"}, Int8),
     TargetModeChanged |-> Number({"mode"}, Int8),
     WindowOpened |-> Limited({"windowId"}, Int16, From(0, Int16)),
     WindowClosed |-> Limited({"windowId"}, Int16, From(0, Int16)),
     CommandIssued |-> Number({"commandId"}, Int32)
                       @@ Number({"commandType", "sequenceNumber"}, Int16)
                       @@ Named({"text"}) @@ Text({"audioCueId"})
                       @@ Limited({"issuedAtMs", "effectiveAtMs"}, Int64, From(0, Int64)),
     ShotRejected |-> Named({"reason"}) @@ Number({"externalId"}, Int64)
                      @@ Number({"xHundredthMm", "yHundredthMm"}, Int32) @@ Flag({"simulated"}),
     MissingShotRecorded |-> Limited({"expectedNumber"}, Int16, From(1, Int16))
                             @@ Number({"stageId"}, Int16) @@ Named({"reason"}),
     PersistenceDegraded |-> Limited({"queuedCount"}, Int32, From(0, Int32)),
     PersistenceRestored |-> Limited({"queuedCount"}, Int32, From(0, Int32)),
     AuxEventsDropped |-> Number({"firstSeq", "lastSeq"}, Nat64)
                          @@ Limited({"count"}, Int32, From(1, Int32)),
     CleanShutdown |-> Flag({})]
-----------------------------------------------------------------------------
\* What every ruling on an incident names.
Ruling == Named({"incidentId", "authorisedBy"}) @@ Authority

IncidentStructs ==
    [EstIncidentRaised |-> Named({"incidentId", "interruptionStartUtc"})
                           @@ Number({"incidentType"}, Enumeration(10))
                           @@ Number({"scope"}, Enumeration(3))
                           @@ Text({"firingPoint", "relayId", "reason"}),
     TimeCreditGranted |-> Ruling @@ Limited({"durationMs"}, Int64, From(0, Int64))
                           @@ Text({"reason"}),
     RecoveryPhaseEntered |-> Ruling @@ Number({"phase"}, Enumeration(3))
                              @@ Limited({"durationMs"}, Int64, From(0, Int64)),
     EstDecisionRecorded |-> Ruling @@ Number({"decision"}, Enumeration(5))
                             @@ Limited({"acceptedDurationMs"}, Int64, From(-1, Int64))
                             @@ Text({"reason"}),
     TargetReassigned |-> Ruling @@ Named({"reserveTarget"}) @@ Text({"originalTarget", "reason"}),
     EstIncidentResolved |-> Named({"incidentId"}) @@ Number({"status"}, Enumeration(4))
                             @@ Number({"calculatedDurationMs"}, Int64)
                             @@ Limited({"officiallyAcceptedDurationMs"}, Int64, From(0, Int64))
                             @@ Text({"systemRestoredUtc", "originalTarget", "reserveTarget",
                                      "juryNote", "rangeOfficerNote", "incidentReportRef"})
                             @@ Flag({"targetMoved", "backupScoreReviewed"})]

Counted(names) == Limited(names, Int16, From(1, Int16))
Position == Number({"position"}, Int8)
Repeat == Number({"repeat"}, Int16)

BlockStructs ==
    [TrainingSessionStarted |-> Named({"programId"}) @@ Discipline(Disciplines)
                                @@ Counted({"blockCount", "shotsPerBlock"})
                                @@ Number({"visibilityMode", "startPosition"}, Int8)
                                @@ Text({"technicalFocus"}),
     TrainingBlockStarted |-> Counted({"blockIndex"}) @@ Position,
     TrainingShotAccepted |-> ShotCore @@ Counted({"blockIndex", "withinBlock"}) @@ Position
                              @@ Number({"calledXHundredthMm", "calledYHundredthMm"}, Int32)
                              @@ Flag({"hasCall"}),
     TrainingBlockCompleted |-> Counted({"blockIndex"}) @@ Number({"shotCount"}, Int16),
     TrainingNoteSaved |-> Counted({"blockIndex"}) @@ Text({"note"}),
     TrainingCompleted |-> Number({"completedBlocks"}, Int16),
     TrainingSighterAccepted |-> ShotCore @@ Position @@ Number({"beforeBlock"}, Int16),
     TrainingSighterPhaseStarted |-> Position @@ Counted({"beforeBlock"})]

CallStructs ==
    [CallDiagnoseSessionStarted |-> Text({"programId", "technicalFocus"}) @@ Counted({"shotCount"})
                                    @@ Number({"startPosition"}, Int8) @@ Flag({"threePositions"}),
     CallDiagnoseStarted |-> Position,
     CallDiagnoseShotReceived |-> ShotCore @@ Counted({"shotNumber"}) @@ Position,
     CallDiagnoseCallRecorded |-> Counted({"shotNumber"}) @@ Position
                                  @@ Number({"calledXHundredthMm", "calledYHundredthMm",
                                             "callSplitMs"}, Int32),
     CallDiagnoseNoteSaved |-> Counted({"shotNumber"}) @@ Position @@ Text({"note"}),
     CallDiagnoseCompleted |-> Number({"completedShots"}, Int16) @@ Text({"sessionNote"})]

TransitionStructs ==
    [PositionTransitionSessionStarted |-> Text({"programId", "sequence", "technicalFocus"})
                                          @@ Counted({"verificationShots", "repeats"})
                                          @@ Number({"checklistMode"}, Int8),
     PositionSetupStarted |-> Position @@ Repeat,
     PositionChecklistUpdated |-> Position @@ Repeat @@ Number({"itemIndex", "state"}, Int8),
     PositionReady |-> Position @@ Repeat @@ Number({"setupDurationMs"}, Int32),
     PositionSighterAccepted |-> ShotCore @@ Position @@ Repeat,
     PositionVerificationStarted |-> Position @@ Repeat @@ Number({"readyMonoMs"}, Int32),
     PositionVerificationShotAccepted |-> ShotCore @@ Position @@ Repeat @@ Counted({"withinBlock"}),
     PositionVerificationCompleted |-> Position @@ Repeat @@ Number({"shotCount"}, Int16),
     PositionNoteSaved |-> Position @@ Repeat @@ Text({"note"}),
     NextPositionTransitionStarted |-> Number({"fromPosition", "toPosition"}, Int8)
                                       @@ Number({"toRepeat"}, Int16),
     PositionTransitionCompleted |-> Number({"completedPositions"}, Int16) @@ Text({"sessionNote"})]
-----------------------------------------------------------------------------
\* The wind that every shot of the Wind Map carries in full.
WindSnapshotFields ==
    Flag({"windValid", "windCalm"}) @@ Number({"windDirDeg"}, Int16)
    @@ Number({"windSpeedHundredthMs"}, Int32) @@ Number({"windSource"}, Int8)
    @@ Number({"windRecordedMs"}, Int64) @@ Text({"windNote"})

\* No reading and a recorded calm have neither direction nor speed.
ValidateWind(e) ==
    LET still == e["windDirDeg"] = 0 /\ e["windSpeedHundredthMs"] = 0
    IN IF e["windValid"] = 0 THEN e["windCalm"] = 0 /\ still
       ELSE /\ e["windSource"] \in {0, 1}
            /\ IF e["windCalm"] = 1 THEN still
               ELSE e["windDirDeg"] \in 0 .. 359 /\ e["windSpeedHundredthMs"] \in 0 .. 100000

WindShot == ShotCore @@ WindSnapshotFields @@ Limited({"shotId"}, Int32, From(1, Int32))
            @@ Limited({"position"}, Int8, <<0, 3>>)

\* Two disciplines are allowed: prone (0) and three positions (1).
WindStructs ==
    [WindMapSessionStarted |-> Text({"disciplineId", "positionSequence"}) @@ Flag({"is3P"}),
     WindConditionChanged |-> WindSnapshotFields,
     WindMapSighterAccepted |-> WindShot,
     WindMapShotAccepted |-> WindShot,
     WindMapPositionChanged |-> Limited({"fromPosition", "toPosition"}, Int8, <<0, 3>>),
     WindMapPhaseChanged |-> Limited({"fromPhase"}, Int8, <<0, 6>>)
                             @@ Limited({"toPhase"}, Int8, <<1, 6>>),
     WindMapSessionCompleted |->
        Limited({"countedShots", "sighterShots", "conditionChanges"}, Int32, From(0, Int32))]

Structs == SessionStructs @@ CourseStructs @@ RulingStructs @@ FinalsStructs @@ IncidentStructs
           @@ BlockStructs @@ CallStructs @@ TransitionStructs @@ WindStructs

EventTypes == DOMAIN Structs

WithWind == {"WindConditionChanged", "WindMapSighterAccepted", "WindMapShotAccepted"}

\* validate() of an event: each field by itself, and the few that must agree.
ValidateEvent(type, e) ==
    /\ \A n \in DOMAIN e : Structs[type][n].valid[1] <= e[n] /\ e[n] <= Structs[type][n].valid[2]
    /\ type \in WithWind => ValidateWind(e)
    /\ type = "AuxEventsDropped" => e["firstSeq"] <= e["lastSeq"]
    /\ type = "WindMapSessionStarted" => e["is3P"] = e["disciplineId"]
    /\ type = "WindMapPositionChanged" => e["fromPosition"] # e["toPosition"]
    /\ type = "WindMapPhaseChanged" => e["fromPhase"] # e["toPhase"]
=============================================================================
