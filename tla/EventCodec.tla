----------------------------- MODULE EventCodec -----------------------------
(***************************************************************************)
(* A line of the journal: how an event becomes one, how it is read back,   *)
(* and how the validator of a resumed session trusts it: it serialises the *)
(* event it has read once more and compares the hash with the one that was *)
(* written.  Writer, reader and structure are three lists of the same      *)
(* fields in the code; wherever they disagree, a session that was written  *)
(* without an error is damaged when it is read.                            *)
(*                                                                         *)
(* A line is the sequence of its keys and values; a value is a number with *)
(* the kind of JSON value it is.  The envelope's own fields and the hashes *)
(* are left out but for the two texts of the header.                       *)
(***************************************************************************)
EXTENDS EventStructs, SequencesExt

\* The core's number and Call & Diagnose's number share one key of the line.
Key(name) == IF name = "shot.shotNumber" THEN "shotNumber" ELSE name
-----------------------------------------------------------------------------
(* The writer: the keys of each event in their order.                      *)
ConfigKeys == <<"officialShots", "seriesSize", "matchMs", "perPositionShots", "sighterLimit",
                "configVersion">>
CoreKeys == <<"shot.shotNumber", "withinStage", "stageId", "seriesIndex", "xHundredthMm",
              "yHundredthMm", "scoreTenths", "directionCentiDeg", "splitMs", "windowId",
              "targetMode", "externalId", "simulated">>
WindKeys == <<"windValid", "windCalm", "windDirDeg", "windSpeedHundredthMs", "windSource",
              "windRecordedMs", "windNote">>

SessionKeys ==
    [SessionStarted |-> <<"sessionId", "schemaVersion", "appVersion", "createdAtIso", "athlete",
                          "lane", "targetId", "discipline", "matchType">> \o ConfigKeys
                        \o <<"deviceId", "operatingMode", "sessionKind">>,
     SessionConfigured |-> <<"discipline", "matchType">> \o ConfigKeys,
     AthleteAssigned |-> <<"athlete", "lane", "targetId">>,
     PreparationStarted |-> <<"stageId">>,
     SightingStarted |-> <<"stageId">>,
     OfficialMatchStarted |-> <<"stageId">>]

CourseKeys ==
    [ShotAccepted |-> CoreKeys,
     SighterAccepted |-> CoreKeys,
     StageCompleted |-> <<"stageId", "status">>,
     PositionChanged |-> <<"positionIndex">>,
     TimerStarted |-> <<"timerId", "durationMs">>,
     TimerPaused |-> <<"timerId", "atMonoMs">>,
     TimerResumed |-> <<"timerId", "atMonoMs">>,
     TimerExpired |-> <<"timerId">>,
     MatchCompleted |-> <<"totalTenths", "officialCount">>,
     SessionSuspended |-> <<"reason">>,
     SessionResumed |-> <<>>,
     StateSnapshot |-> <<"stateVersion", "lastAppliedSeq", "officialCount", "sighterCount",
                         "totalTenths", "state">>]

RulingKeys ==
    [ShotInvalidated |-> <<"targetSeq", "reason", "authority">>,
     ShotRescored |-> <<"targetSeq", "newScoreTenths", "hasNewCoordinates", "newXHundredthMm",
                        "newYHundredthMm", "reason", "authority">>,
     SeriesAdjusted |-> <<"stageId", "deltaTenths", "reason", "authority">>,
     CrossShotRecorded |-> CoreKeys \o <<"sourceLane">>,
     EquipmentMalfunctionRecorded |-> <<"note", "allowedTimeMs">>,
     PenaltyIssued |-> <<"deltaTenths", "rule", "authority">>,
     RecoveryStarted |-> <<"fromSeq">>,
     RecoveryCompleted |-> <<"resumedAtSeq", "truncatedTail">>,
     SessionClosed |-> <<"reason">>]

FinalsKeys ==
    [StageEntered |-> <<"stageId">>,
     StageStatusChanged |-> <<"stageId", "status">>,
     TargetModeChanged |-> <<"mode">>,
     WindowOpened |-> <<"windowId">>,
     WindowClosed |-> <<"windowId">>,
     CommandIssued |-> <<"commandId", "commandType", "text", "sequenceNumber", "audioCueId",
                         "issuedAtMs", "effectiveAtMs">>,
     ShotRejected |-> <<"reason", "externalId", "xHundredthMm", "yHundredthMm", "simulated">>,
     MissingShotRecorded |-> <<"expectedNumber", "stageId", "reason">>,
     PersistenceDegraded |-> <<"queuedCount">>,
     PersistenceRestored |-> <<"queuedCount">>,
     AuxEventsDropped |-> <<"firstSeq", "lastSeq", "count">>,
     CleanShutdown |-> <<>>]

IncidentKeys ==
    [EstIncidentRaised |-> <<"incidentId", "incidentType", "scope", "firingPoint", "relayId",
                             "interruptionStartUtc", "reason">>,
     TimeCreditGranted |-> <<"incidentId", "durationMs", "authority", "authorisedBy", "reason">>,
     RecoveryPhaseEntered |-> <<"incidentId", "phase", "durationMs", "authority", "authorisedBy">>,
     EstIncidentResolved |-> <<"incidentId", "status", "calculatedDurationMs",
                               "officiallyAcceptedDurationMs", "systemRestoredUtc", "targetMoved",
                               "originalTarget", "reserveTarget", "backupScoreReviewed",
                               "juryNote", "rangeOfficerNote", "incidentReportRef">>,
     EstDecisionRecorded |-> <<"incidentId", "decision", "acceptedDurationMs", "authority",
                               "authorisedBy", "reason">>,
     TargetReassigned |-> <<"incidentId", "originalTarget", "reserveTarget", "authority",
                            "authorisedBy", "reason">>]

BlockKeys ==
    [TrainingSessionStarted |-> <<"programId", "discipline", "blockCount", "shotsPerBlock",
                                  "visibilityMode", "technicalFocus", "startPosition">>,
     TrainingBlockStarted |-> <<"blockIndex", "position">>,
     TrainingShotAccepted |-> CoreKeys \o <<"blockIndex", "withinBlock", "position",
                              "calledXHundredthMm", "calledYHundredthMm", "hasCall">>,
     TrainingBlockCompleted |-> <<"blockIndex", "shotCount">>,
     TrainingNoteSaved |-> <<"blockIndex", "note">>,
     TrainingCompleted |-> <<"completedBlocks">>,
     TrainingSighterAccepted |-> CoreKeys \o <<"position", "beforeBlock">>,
     TrainingSighterPhaseStarted |-> <<"position", "beforeBlock">>]

CallKeys ==
    [CallDiagnoseSessionStarted |-> <<"programId", "shotCount", "technicalFocus",
                                      "startPosition", "threePositions">>,
     CallDiagnoseStarted |-> <<"position">>,
     CallDiagnoseShotReceived |-> CoreKeys \o <<"shotNumber", "position">>,
     CallDiagnoseCallRecorded |-> <<"shotNumber", "position", "calledXHundredthMm",
                                    "calledYHundredthMm", "callSplitMs">>,
     CallDiagnoseNoteSaved |-> <<"shotNumber", "position", "note">>,
     CallDiagnoseCompleted |-> <<"completedShots", "sessionNote">>]

TransitionKeys ==
    [PositionTransitionSessionStarted |-> <<"programId", "sequence", "verificationShots",
                                            "repeats", "checklistMode", "technicalFocus">>,
     PositionSetupStarted |-> <<"position", "repeat">>,
     PositionChecklistUpdated |-> <<"position", "repeat", "itemIndex", "state">>,
     PositionReady |-> <<"position", "repeat", "setupDurationMs">>,
     PositionSighterAccepted |-> CoreKeys \o <<"position", "repeat">>,
     PositionVerificationStarted |-> <<"position", "repeat", "readyMonoMs">>,
     PositionVerificationShotAccepted |-> CoreKeys \o <<"position", "repeat", "withinBlock">>,
     PositionVerificationCompleted |-> <<"position", "repeat", "shotCount">>,
     PositionNoteSaved |-> <<"position", "repeat", "note">>,
     NextPositionTransitionStarted |-> <<"fromPosition", "toPosition", "toRepeat">>,
     PositionTransitionCompleted |-> <<"completedPositions", "sessionNote">>]

WindMapKeys ==
    [WindMapSessionStarted |-> <<"disciplineId", "is3P", "positionSequence">>,
     WindConditionChanged |-> WindKeys,
     WindMapSighterAccepted |-> CoreKeys \o <<"shotId", "position">> \o WindKeys,
     WindMapShotAccepted |-> CoreKeys \o <<"shotId", "position">> \o WindKeys,
     WindMapPositionChanged |-> <<"fromPosition", "toPosition">>,
     WindMapSessionCompleted |-> <<"countedShots", "sighterShots", "conditionChanges">>,
     WindMapPhaseChanged |-> <<"fromPhase", "toPhase">>]

Keys == SessionKeys @@ CourseKeys @@ RulingKeys @@ FinalsKeys @@ IncidentKeys @@ BlockKeys
        @@ CallKeys @@ TransitionKeys @@ WindMapKeys

\* Of a wind without a reading nothing is written but that; a calm has no
\* direction and no speed.
WindWritten(e, name) ==
    CASE e["windValid"] = 0 -> name = "windValid"
      [] name \in {"windDirDeg", "windSpeedHundredthMs"} -> e["windCalm"] = 0
      [] name = "windNote" -> e[name] # 0
      [] OTHER -> TRUE

\* What is written only when it says something.
Omitted(type, e, name) ==
    \/ name \in {"operatingMode", "sessionKind", "sessionNote"} /\ e[name] = 0
    \/ name \in {"calledXHundredthMm", "calledYHundredthMm", "hasCall"}
       /\ type = "TrainingShotAccepted" /\ e["hasCall"] = 0
    \/ type \in WithWind /\ name \in ToSet(WindKeys) /\ ~WindWritten(e, name)

SerializePayload(type, e) ==
    LET written == SelectSeq(Keys[type], LAMBDA name : ~Omitted(type, e, name))
    IN [i \in DOMAIN written |->
          <<Key(written[i]), Structs[type][written[i]].kind, e[written[i]]>>]
-----------------------------------------------------------------------------
(* The reader: of each key whether it must be there, and the limits of its  *)
(* values.                                                                 *)
Need(names, limits) == [n \in names |-> [need |-> TRUE, kind |-> "number", limits |-> limits]]
NeedText(names) == [n \in names |-> [need |-> TRUE, kind |-> "text", limits |-> <<0, 1>>]]
MayText(names) == [n \in names |-> [need |-> FALSE, kind |-> "text", limits |-> <<0, 1>>]]
NeedFlag(names) == [n \in names |-> [need |-> TRUE, kind |-> "flag", limits |-> <<0, 1>>]]
ReadDiscipline == [n \in {"discipline"} |->
                     [need |-> TRUE, kind |-> "text", limits |-> Disciplines]]
NeedUInt(names) == Need(names, <<0, Int64Max>>)

ReadTimerId == Need({"timerId"}, <<0, 3>>)
ReadAuthority == Need({"authority"}, <<0, 1>>)
ReadStageId == Need({"stageId"}, Int16)
ReadIndex(names) == Need(names, <<1, 1000>>)
ReadPosition == Need({"position"}, <<0, 2>>)
ReadRepeat == Need({"repeat"}, <<1, 100>>)

ReadConfig ==
    Need({"officialShots", "seriesSize", "perPositionShots"}, <<0, Int32Max>>)
    @@ Need({"matchMs"}, <<0, Int64Max>>)
    @@ Need({"sighterLimit"}, <<-1, Int32Max>>) @@ Need({"configVersion"}, <<1, Int32Max>>)

ReadShotCore ==
    Need({"shot.shotNumber", "withinStage", "stageId", "scoreTenths", "windowId"}, Int16)
    @@ Need({"seriesIndex", "targetMode"}, Int8)
    @@ Need({"xHundredthMm", "yHundredthMm", "directionCentiDeg", "splitMs"}, Int32)
    @@ Need({"externalId"}, Int64) @@ NeedFlag({"simulated"})

SessionReads ==
    [SessionStarted |->
        NeedText({"sessionId", "appVersion", "createdAtIso", "athlete", "matchType"})
        @@ Need({"schemaVersion"}, <<1, Int32Max>>) @@ ReadDiscipline @@ ReadConfig
        @@ MayText({"lane", "targetId", "deviceId", "operatingMode", "sessionKind"}),
     SessionConfigured |-> ReadDiscipline @@ NeedText({"matchType"}) @@ ReadConfig,
     AthleteAssigned |-> NeedText({"athlete"}) @@ MayText({"lane", "targetId"}),
     PreparationStarted |-> ReadStageId,
     SightingStarted |-> ReadStageId,
     OfficialMatchStarted |-> ReadStageId]

CourseReads ==
    [ShotAccepted |-> ReadShotCore,
     SighterAccepted |-> ReadShotCore,
     StageCompleted |-> ReadStageId @@ Need({"status"}, Int8),
     PositionChanged |-> Need({"positionIndex"}, Int8),
     TimerStarted |-> ReadTimerId @@ Need({"durationMs"}, Int64),
     TimerPaused |-> ReadTimerId @@ Need({"atMonoMs"}, Int64),
     TimerResumed |-> ReadTimerId @@ Need({"atMonoMs"}, Int64),
     TimerExpired |-> ReadTimerId,
     MatchCompleted |-> Need({"totalTenths"}, Int32) @@ Need({"officialCount"}, Int16),
     SessionSuspended |-> Need({"reason"}, <<0, 1>>),
     SessionResumed |-> NeedFlag({}),
     StateSnapshot |-> Need({"stateVersion"}, <<1, Int32Max>>) @@ NeedUInt({"lastAppliedSeq"})
                       @@ Need({"officialCount", "sighterCount", "totalTenths"}, Int32)
                       @@ NeedText({"state"})]

RulingReads ==
    [ShotInvalidated |-> NeedUInt({"targetSeq"}) @@ NeedText({"reason"}) @@ ReadAuthority,
     ShotRescored |-> NeedUInt({"targetSeq"}) @@ Need({"newScoreTenths"}, Int16)
                      @@ NeedFlag({"hasNewCoordinates"})
                      @@ Need({"newXHundredthMm", "newYHundredthMm"}, Int32)
                      @@ NeedText({"reason"}) @@ ReadAuthority,
     SeriesAdjusted |-> ReadStageId @@ Need({"deltaTenths"}, Int32) @@ NeedText({"reason"})
                        @@ ReadAuthority,
     CrossShotRecorded |-> ReadShotCore @@ MayText({"sourceLane"}),
     EquipmentMalfunctionRecorded |-> NeedText({"note"}) @@ Need({"allowedTimeMs"}, Int64),
     PenaltyIssued |-> Need({"deltaTenths"}, Int32) @@ NeedText({"rule"}) @@ ReadAuthority,
     RecoveryStarted |-> NeedUInt({"fromSeq"}),
     RecoveryCompleted |-> NeedUInt({"resumedAtSeq"}) @@ NeedFlag({"truncatedTail"}),
     SessionClosed |-> Need({"reason"}, <<0, 2>>)]

FinalsReads ==
    [StageEntered |-> ReadStageId,
     StageStatusChanged |-> ReadStageId @@ Need({"status"}, Int8),
     TargetModeChanged |-> Need({"mode"}, Int8),
     WindowOpened |-> Need({"windowId"}, Int16),
     WindowClosed |-> Need({"windowId"}, Int16),
     CommandIssued |-> Need({"commandId"}, Int32) @@ Need({"commandType", "sequenceNumber"}, Int16)
                       @@ NeedText({"text"}) @@ MayText({"audioCueId"})
                       @@ Need({"issuedAtMs", "effectiveAtMs"}, Int64),
     ShotRejected |-> NeedText({"reason"}) @@ Need({"externalId"}, Int64)
                      @@ Need({"xHundredthMm", "yHundredthMm"}, Int32) @@ NeedFlag({"simulated"}),
     MissingShotRecorded |-> Need({"expectedNumber", "stageId"}, Int16) @@ NeedText({"reason"}),
     PersistenceDegraded |-> Need({"queuedCount"}, Int32),
     PersistenceRestored |-> Need({"queuedCount"}, Int32),
     AuxEventsDropped |-> NeedUInt({"firstSeq", "lastSeq"}) @@ Need({"count"}, Int32),
     CleanShutdown |-> NeedFlag({})]

IncidentReads ==
    [EstIncidentRaised |-> NeedText({"incidentId", "interruptionStartUtc"})
                           @@ Need({"incidentType"}, <<0, 9>>) @@ Need({"scope"}, <<0, 2>>)
                           @@ MayText({"firingPoint", "relayId", "reason"}),
     TimeCreditGranted |-> NeedText({"incidentId", "authorisedBy"}) @@ Need({"durationMs"}, Int64)
                           @@ ReadAuthority @@ MayText({"reason"}),
     RecoveryPhaseEntered |-> NeedText({"incidentId", "authorisedBy"}) @@ Need({"phase"}, <<0, 2>>)
                              @@ Need({"durationMs"}, Int64) @@ ReadAuthority,
     EstIncidentResolved |-> NeedText({"incidentId"}) @@ Need({"status"}, <<0, 3>>)
                             @@ Need({"calculatedDurationMs", "officiallyAcceptedDurationMs"}, Int64)
                             @@ MayText({"systemRestoredUtc", "originalTarget", "reserveTarget",
                                         "juryNote", "rangeOfficerNote", "incidentReportRef"})
                             @@ NeedFlag({"targetMoved", "backupScoreReviewed"}),
     EstDecisionRecorded |-> NeedText({"incidentId", "authorisedBy"}) @@ Need({"decision"}, <<0, 4>>)
                             @@ Need({"acceptedDurationMs"}, <<-1, Int64Max>>)
                             @@ ReadAuthority @@ MayText({"reason"}),
     TargetReassigned |-> NeedText({"incidentId", "reserveTarget", "authorisedBy"})
                          @@ MayText({"originalTarget", "reason"}) @@ ReadAuthority]

BlockReads ==
    [TrainingSessionStarted |-> NeedText({"programId"}) @@ ReadDiscipline
                                @@ Need({"blockCount", "shotsPerBlock"}, <<1, 100>>)
                                @@ Need({"visibilityMode", "startPosition"}, <<0, 2>>)
                                @@ MayText({"technicalFocus"}),
     TrainingBlockStarted |-> ReadIndex({"blockIndex"}) @@ ReadPosition,
     TrainingShotAccepted |-> ReadShotCore @@ ReadIndex({"blockIndex", "withinBlock"}) @@ ReadPosition
                              @@ NeedFlag({"hasCall"})
                              @@ Need({"calledXHundredthMm", "calledYHundredthMm"}, Int32),
     TrainingBlockCompleted |-> ReadIndex({"blockIndex"}) @@ Need({"shotCount"}, <<0, 1000>>),
     TrainingNoteSaved |-> ReadIndex({"blockIndex"}) @@ MayText({"note"}),
     TrainingCompleted |-> Need({"completedBlocks"}, <<0, 1000>>),
     TrainingSighterAccepted |-> ReadShotCore @@ ReadPosition @@ Need({"beforeBlock"}, <<0, 1000>>),
     TrainingSighterPhaseStarted |-> ReadPosition @@ ReadIndex({"beforeBlock"})]

CallReads ==
    LET number == Need({"shotNumber"}, <<1, 10000>>)
    IN [CallDiagnoseSessionStarted |-> NeedText({"programId", "technicalFocus"})
                                       @@ ReadIndex({"shotCount"})
                                       @@ Need({"startPosition"}, <<0, 2>>)
                                       @@ NeedFlag({"threePositions"}),
        CallDiagnoseStarted |-> ReadPosition,
        CallDiagnoseShotReceived |-> ReadShotCore @@ number @@ ReadPosition,
        CallDiagnoseCallRecorded |-> number @@ ReadPosition
                                     @@ Need({"calledXHundredthMm", "calledYHundredthMm",
                                              "callSplitMs"}, Int32),
        CallDiagnoseNoteSaved |-> number @@ ReadPosition @@ NeedText({"note"}),
        CallDiagnoseCompleted |-> Need({"completedShots"}, <<0, 10000>>) @@ MayText({"sessionNote"})]

TransitionReads ==
    [PositionTransitionSessionStarted |-> NeedText({"programId", "sequence", "technicalFocus"})
                                          @@ ReadIndex({"verificationShots"})
                                          @@ Need({"repeats"}, <<1, 100>>)
                                          @@ Need({"checklistMode"}, <<0, 2>>),
     PositionSetupStarted |-> ReadPosition @@ ReadRepeat,
     PositionChecklistUpdated |-> ReadPosition @@ ReadRepeat @@ Need({"itemIndex"}, <<0, 63>>)
                                  @@ Need({"state"}, <<0, 3>>),
     PositionReady |-> ReadPosition @@ ReadRepeat @@ Need({"setupDurationMs"}, <<0, Int32Max>>),
     PositionSighterAccepted |-> ReadShotCore @@ ReadPosition @@ ReadRepeat,
     PositionVerificationStarted |-> ReadPosition @@ ReadRepeat
                                     @@ Need({"readyMonoMs"}, <<0, Int32Max>>),
     PositionVerificationShotAccepted |-> ReadShotCore @@ ReadPosition @@ ReadRepeat
                                          @@ ReadIndex({"withinBlock"}),
     PositionVerificationCompleted |-> ReadPosition @@ ReadRepeat @@ Need({"shotCount"}, <<0, 1000>>),
     PositionNoteSaved |-> ReadPosition @@ ReadRepeat @@ NeedText({"note"}),
     NextPositionTransitionStarted |-> Need({"fromPosition", "toPosition"}, <<0, 2>>)
                                       @@ Need({"toRepeat"}, <<1, 100>>),
     PositionTransitionCompleted |-> Need({"completedPositions"}, <<0, 1000>>)
                                     @@ MayText({"sessionNote"})]

\* A reader of the wind to which north is 360 degrees (a fault, for comparison).
ReadWindNorthIs360 ==
    NeedFlag({"windValid", "windCalm"}) @@ Need({"windDirDeg"}, <<1, 360>>)
    @@ Need({"windSpeedHundredthMs"}, <<0, 100000>>) @@ Need({"windSource"}, <<0, 1>>)
    @@ Need({"windRecordedMs"}, <<0, Int64Max>>) @@ MayText({"windNote"})

ReadWind ==
    NeedFlag({"windValid", "windCalm"}) @@ Need({"windDirDeg"}, <<0, 359>>)
    @@ Need({"windSpeedHundredthMs"}, <<0, 100000>>) @@ Need({"windSource"}, <<0, 1>>)
    @@ Need({"windRecordedMs"}, <<0, Int64Max>>) @@ MayText({"windNote"})

WindReads ==
    LET shot == ReadShotCore @@ Need({"shotId"}, <<1, 1000000>>) @@ Need({"position"}, <<0, 3>>)
                @@ ReadWind
    IN [WindMapSessionStarted |-> NeedText({"disciplineId"}) @@ NeedFlag({"is3P"})
                                  @@ MayText({"positionSequence"}),
        WindConditionChanged |-> ReadWind,
        WindMapSighterAccepted |-> shot,
        WindMapShotAccepted |-> shot,
        WindMapPositionChanged |-> Need({"fromPosition", "toPosition"}, <<0, 3>>),
        WindMapSessionCompleted |->
            Need({"countedShots", "sighterShots", "conditionChanges"}, <<0, 1000000>>),
        WindMapPhaseChanged |-> Need({"fromPhase"}, <<0, 6>>) @@ Need({"toPhase"}, <<1, 6>>)]

Reads == SessionReads @@ CourseReads @@ RulingReads @@ FinalsReads @@ IncidentReads @@ BlockReads
         @@ CallReads @@ TransitionReads @@ WindReads

\* Of a key that is written twice the reader sees the last.
Places(line, name) == {i \in DOMAIN line : line[i][1] = Key(name)}
Has(line, name) == Places(line, name) # {}
Value(line, name) == LET at == Places(line, name)
                     IN IF at = {} THEN 0 ELSE line[Max(at)][3]

\* The keys that are looked at; those of a call or a wind only as far as the
\* line says that there is one.
WindWanted(line, name) ==
    CASE name \in {"windValid", "windCalm"} -> Has(line, name)
      [] name \in {"windDirDeg", "windSpeedHundredthMs"} -> Value(line, "windCalm") = 0
      [] OTHER -> TRUE
Wanted(type, line, name) ==
    /\ name \in {"calledXHundredthMm", "calledYHundredthMm", "hasCall"}
       /\ type = "TrainingShotAccepted" => Has(line, "hasCall")
    /\ type \in WithWind /\ name \in ToSet(WindKeys) =>
          /\ WindWanted(line, name)
          /\ name # "windValid" => Value(line, "windValid") = 1

Readable(type, line, name) ==
    LET r == Reads[type][name]
        at == Places(line, name)
    IN IF at = {} THEN ~r.need
       ELSE /\ \A i \in at : line[i][2] = r.kind
            /\ r.limits[1] <= line[Max(at)][3] /\ line[Max(at)][3] <= r.limits[2]

\* What the reader makes of a line: an event, or nothing.
DeserializePayload(type, line) ==
    LET wanted == {n \in DOMAIN Reads[type] : Wanted(type, line, n)}
        e == [n \in DOMAIN Reads[type] |-> IF n \in wanted THEN Value(line, n) ELSE 0]
    IN IF (\A n \in wanted : Readable(type, line, n)) /\ ValidateEvent(type, e) THEN <<e>> ELSE <<>>
-----------------------------------------------------------------------------
(* What the controllers hand over, where their own checks leave less than  *)
(* the field could hold.                                                   *)
Span(names, limits) == [n \in names |-> limits]

ProducedConfig ==
    Span({"officialShots", "seriesSize", "perPositionShots"}, <<0, Int32Max>>)
    @@ Span({"matchMs"}, <<0, Int64Max>>) @@ Span({"sighterLimit"}, <<-1, Int32Max>>)
    @@ Span({"configVersion", "schemaVersion"}, <<1, 1>>)
ProducedSeqs ==
    Span({"lastAppliedSeq", "targetSeq", "fromSeq", "resumedAtSeq", "firstSeq", "lastSeq"},
         <<0, Int64Max>>)
ProducedBlocks ==
    Span({"blockCount", "blockIndex", "beforeBlock"}, <<1, 12>>)
    @@ Span({"shotsPerBlock"}, <<3, 20>>) @@ Span({"withinBlock"}, <<1, 20>>)
    @@ Span({"shotCount"}, <<0, 20>>) @@ Span({"completedBlocks"}, <<0, 12>>)
    @@ Span({"visibilityMode", "startPosition", "position"}, <<0, 2>>)
ProducedCalls ==
    Span({"shotCount"}, <<5, 60>>) @@ Span({"shotNumber"}, <<1, 60>>)
    @@ Span({"completedShots"}, <<0, 180>>) @@ Span({"startPosition", "position"}, <<0, 2>>)
ProducedTransitions ==
    Span({"verificationShots"}, <<3, 10>>) @@ Span({"repeats", "repeat", "toRepeat"}, <<1, 4>>)
    @@ Span({"withinBlock"}, <<1, 10>>) @@ Span({"shotCount"}, <<3, 10>>)
    @@ Span({"checklistMode", "position", "fromPosition", "toPosition"}, <<0, 2>>)
    @@ Span({"state"}, <<0, 3>>) @@ Span({"itemIndex"}, <<0, 6>>)
    @@ Span({"setupDurationMs", "readyMonoMs"}, <<0, Int32Max>>)
    @@ Span({"completedPositions"}, <<0, 12>>)
ProducedWinds ==
    Span({"shotId"}, <<1, 1000>>) @@ Span({"countedShots", "sighterShots", "conditionChanges"},
                                          <<0, 1000>>)

Produced(type) ==
    CASE type \in {"SessionStarted", "SessionConfigured"} -> ProducedConfig
      [] type \in DOMAIN BlockStructs -> ProducedBlocks
      [] type \in DOMAIN CallStructs -> ProducedCalls
      [] type \in DOMAIN TransitionStructs -> ProducedTransitions
      [] type \in DOMAIN WindStructs -> ProducedWinds
      [] OTHER -> ProducedSeqs

\* The readings of the wind that can be taken: none, a calm, a measured one.
WindReadings ==
    LET none == [n \in ToSet(WindKeys) |-> 0]
        calm == [none EXCEPT !["windValid"] = 1, !["windCalm"] = 1]
        Taken(w) == {[w EXCEPT !["windRecordedMs"] = at, !["windNote"] = note] :
                        at \in {1, Int64Max}, note \in {0, 1}}
        measured == {[none EXCEPT !["windValid"] = 1, !["windDirDeg"] = d,
                                  !["windSpeedHundredthMs"] = s] :
                        d \in {0, 1, 359}, s \in {0, 1, 100000}}
    IN {none} \cup Taken(calm) \cup UNION {Taken(w) : w \in measured}

\* The ends of every range the code knows for a field, and their neighbours.
Handed(type, name) == IF name \in DOMAIN Produced(type) THEN Produced(type)[name]
                     ELSE Structs[type][name].width
Samples(type, name) ==
    LET s == Structs[type][name]
        ends == UNION {{r[1], r[2]} : r \in {s.valid, Reads[type][name].limits, Handed(type, name)}}
    IN {v \in ends \cup {v + 1 : v \in ends} \cup {v - 1 : v \in ends} :
          Handed(type, name)[1] <= v /\ v <= Handed(type, name)[2]}

Plain(type) ==
    [n \in DOMAIN Structs[type] |->
        LET valid == Structs[type][n].valid
        IN CASE n = "windCalm" -> 0
             [] valid[2] < 1 -> valid[2]
             [] Handed(type, n)[1] > 1 -> Handed(type, n)[1]
             [] Handed(type, n)[2] < 1 -> Handed(type, n)[2]
             [] OTHER -> 1]

\* What fields of one event must agree on when a controller fills them in.
Consistent(type, e) ==
    /\ type = "CallDiagnoseShotReceived" => e["shot.shotNumber"] = e["shotNumber"]
    /\ type = "TrainingShotAccepted" /\ e["hasCall"] = 0 =>
          e["calledXHundredthMm"] = 0 /\ e["calledYHundredthMm"] = 0

\* Events that differ from the plain one in two fields, of which at most one is
\* of the core of a shot, or in the wind.
Own(type) == (DOMAIN Structs[type] \ (ToSet(CoreKeys) \cup ToSet(WindKeys)))
             \cup (DOMAIN Structs[type] \cap {"shot.shotNumber", "stageId"})
Fields(type) == DOMAIN Structs[type] \ ToSet(WindKeys)
Events(type) ==
    LET two == UNION {{[Plain(type) EXCEPT ![a] = v, ![b] = w] :
                          v \in Samples(type, a), w \in Samples(type, b)} :
                      a \in Own(type), b \in Fields(type)}
        windy == IF type \in WithWind THEN {w @@ Plain(type) : w \in WindReadings} ELSE {}
    IN {e \in two \cup windy \cup {Plain(type)} : Consistent(type, e)}
-----------------------------------------------------------------------------
VARIABLE wire    \* one event's way to disk and back

Nothing == [at |-> "idle", type |-> "CleanShutdown", event |-> <<>>, line |-> <<>>, read |-> <<>>]

WireInit == wire = Nothing

\* The writer takes only an event that validates.
WriteLine ==
    /\ wire.at = "idle"
    /\ \E type \in EventTypes : \E e \in Events(type) :
          /\ ValidateEvent(type, e)
          /\ wire' = [wire EXCEPT !.at = "written", !.type = type, !.event = e,
                                  !.line = SerializePayload(type, e)]

\* The next start of the program reads the line.
ReadBack ==
    /\ wire.at = "written"
    /\ wire' = [wire EXCEPT !.at = "read", !.read = DeserializePayload(wire.type, wire.line)]

WireNext == WriteLine \/ ReadBack

\* Whatever the controllers write is read back as the same event, and the line
\* that the validator makes of it has the same bytes, so that the hash of the
\* line holds and the session can be resumed (JournalValidator::validate).
JournalReadsBack ==
    wire.at = "read" =>
        /\ wire.read # <<>>
        /\ wire.read[1] = wire.event
        /\ SerializePayload(wire.type, wire.read[1]) = wire.line
=============================================================================
