--------------------------- MODULE StateSnapshots ---------------------------
(***************************************************************************)
(* A snapshot of the session's state inside the journal, and the replay    *)
(* that starts from it instead of from the first event.  What the snapshot *)
(* leaves out is gone for the replayed session; so writer, reader and      *)
(* comparison, three lists of the same fields, must agree with what the    *)
(* reducer keeps.                                                          *)
(***************************************************************************)
EXTENDS EventCodec, SessionFold

CONSTANT MaxFoldSteps    \* events after the opening of a story

\* The lists of the state, the pairs of two of them written as one.
Lists == (DOMAIN NewRecords) \ {"trainingSighterPos", "stageSubtotalTenths", "stageStatuses"}
-----------------------------------------------------------------------------
(* The writer: the fields of the state, and those of the entries of a list. *)
WrittenHeader ==
    {"sessionId", "schemaVersion", "appVersion", "createdAtIso", "athlete", "lane", "targetId",
     "deviceId", "discipline", "matchType", "started", "lifecycle", "phase", "currentStageId",
     "positionIndex", "totalTenths", "stageSubtotalTenths", "stageStatuses", "sessionKind",
     "timer", "lastSeq", "disc"} \cup ToSet(ConfigKeys)

WrittenTraining ==
    {"trainingActive", "trainingCompleted", "trainingProgramId", "trainingBlockCount",
     "trainingShotsPerBlock", "trainingVisibility", "trainingFocus", "trainingCurrentBlock",
     "trainingCurrentPosition", "trainingInSighterPhase", "trainingSighterPosition",
     "trainingSighterBeforeBlock"}

WrittenCalls ==
    {"cdActive", "cdCompleted", "cdCallingActive", "cdProgramId", "cdFocus", "cdShotCount",
     "cdCurrentPosition", "cdThreePositions", "cdSessionNote"}

WrittenTransition ==
    {"ptActive", "ptCompleted", "ptProgramId", "ptSequence", "ptFocus", "ptVerificationShots",
     "ptRepeats", "ptChecklistMode", "ptCurrentPosition", "ptCurrentRepeat", "ptInSetup",
     "ptVerifying", "ptSessionNote"}

\* As it was before the phase of the Wind Map was added (a fault, for comparison).
WrittenWindMapV5 ==
    {"wmActive", "wmCompleted", "wmProgramId", "wmDisciplineId", "wmThreePositions",
     "wmCurrentPosition", "wmPositionSequence", "wmConditionChanges", "wmNextShotId",
     "wmWindValid", "wmWindCalm", "wmWindDirectionDegrees", "wmWindSpeedHundredthMs",
     "wmWindSource", "wmWindRecordedMs", "wmWindNote"}

WrittenWindMap ==
    {"wmActive", "wmCompleted", "wmProgramId", "wmDisciplineId", "wmThreePositions",
     "wmCurrentPosition", "wmPositionSequence", "wmPhase", "wmConditionChanges", "wmNextShotId",
     "wmWindValid", "wmWindCalm", "wmWindDirectionDegrees", "wmWindSpeedHundredthMs",
     "wmWindSource", "wmWindRecordedMs", "wmWindNote"}

WrittenShot == ToSet(CoreKeys)
WrittenEntries ==
    [officials |-> WrittenShot \cup {"seq", "invalidated", "rescoredTenths"},
     sighters |-> WrittenShot \cup {"seq", "invalidated", "rescoredTenths"},
     crossShots |-> WrittenShot \cup {"seq", "sourceLane"},
     corrections |-> {"targetSeq", "type", "reason", "fromTenths", "toTenths"},
     adjustments |-> {"stageId", "deltaTenths", "kind", "reason"},
     incidents |-> {"kind", "note", "allowedTimeMs", "seq"},
     estIncidents |->
        {"incidentId", "incidentType", "scope", "firingPoint", "relayId", "interruptionStartUtc",
         "systemRestoredUtc", "calculatedDurationMs", "officiallyAcceptedDurationMs",
         "targetMoved", "originalTarget", "reserveTarget", "backupScoreReviewed", "timeCreditMs",
         "preparationGranted", "sightingGranted", "officialResumeAuthorised", "authorisedBy",
         "juryNote", "rangeOfficerNote", "incidentReportRef", "status", "reason", "raisedSeq",
         "creditDecision", "backupReview", "raisedAtMonoMs", "sightingGrantedSeq"},
     trainingBlocks |-> {"blockIndex", "position", "completed", "note", "blockShots"},
     trainingSighters |-> WrittenShot \cup {"position"},
     cdShots |-> WrittenShot \cup {"shotNumber", "position", "hasCall", "calledXHundredthMm",
                                   "calledYHundredthMm", "callSplitMs", "note"},
     ptRecords |-> {"position", "repeat", "setupDurationMs", "readyMonoMs", "note", "completed",
                    "sighters", "verifShots", "checklist"},
     wmShots |-> WrittenShot \cup ToSet(WindKeys) \cup {"shotId", "position", "sighter"}]

\* A shot of Call & Diagnose writes its number twice under one key.
EntryValue(r, key) == IF key \in DOMAIN r THEN r[key] ELSE r["shot.shotNumber"]
WriteEntry(keys, r) == [key \in {Key(k) : k \in keys} |-> EntryValue(r, key)]

SerializeSessionState(s) ==
    LET scalars == WrittenHeader \cup WrittenTraining \cup WrittenCalls \cup WrittenTransition
                   \cup WrittenWindMap
        Entries(name) ==
            IF name = "trainingSighters"
            THEN [i \in DOMAIN s.trainingSighters |->
                    [position |-> s.trainingSighterPos[i]] @@ s.trainingSighters[i]]
            ELSE s[name]
    IN [n \in scalars |-> s[n]]
       @@ [n \in Lists |-> [i \in DOMAIN Entries(n) |->
                               WriteEntry(WrittenEntries[n], Entries(n)[i])]]
-----------------------------------------------------------------------------
(* The reader: what each field may be, and which may be missing.           *)
May(names, limits) == [n \in names |-> [need |-> FALSE, kind |-> "number", limits |-> limits]]
MayFlag(names) == [n \in names |-> [need |-> FALSE, kind |-> "flag", limits |-> <<0, 1>>]]

ReadHeader ==
    NeedText({"sessionId", "appVersion", "createdAtIso", "athlete", "lane", "targetId",
              "deviceId", "matchType"})
    @@ ReadDiscipline @@ ReadConfig @@ MayText({"sessionKind"})
    @@ Need({"schemaVersion"}, <<1, Int32Max>>) @@ NeedFlag({"started"})
    @@ Need({"lifecycle"}, <<0, 4>>) @@ Need({"phase"}, <<0, 3>>)
    @@ Need({"currentStageId"}, Int16) @@ Need({"positionIndex"}, Int8)
    @@ Need({"totalTenths"}, Int32) @@ NeedUInt({"lastSeq"})

ReadTraining ==
    MayFlag({"trainingActive", "trainingCompleted", "trainingInSighterPhase"})
    @@ MayText({"trainingProgramId", "trainingFocus"})
    @@ May({"trainingBlockCount", "trainingShotsPerBlock", "trainingCurrentBlock",
            "trainingSighterBeforeBlock"}, <<0, Int16[2]>>)
    @@ May({"trainingVisibility", "trainingCurrentPosition", "trainingSighterPosition"},
           <<0, 127>>)

ReadCalls ==
    MayFlag({"cdActive", "cdCompleted", "cdCallingActive", "cdThreePositions"})
    @@ MayText({"cdProgramId", "cdFocus", "cdSessionNote"})
    @@ May({"cdShotCount"}, <<0, Int16[2]>>) @@ May({"cdCurrentPosition"}, <<0, 127>>)

ReadTransition ==
    MayFlag({"ptActive", "ptCompleted", "ptInSetup", "ptVerifying"})
    @@ MayText({"ptProgramId", "ptSequence", "ptFocus", "ptSessionNote"})
    @@ May({"ptVerificationShots", "ptRepeats", "ptCurrentRepeat"}, <<0, Int16[2]>>)
    @@ May({"ptChecklistMode", "ptCurrentPosition"}, <<0, 127>>)

ReadWindMap ==
    MayFlag({"wmActive", "wmCompleted", "wmThreePositions", "wmWindValid", "wmWindCalm"})
    @@ MayText({"wmProgramId", "wmDisciplineId", "wmPositionSequence", "wmWindNote"})
    @@ May({"wmCurrentPosition"}, <<0, 3>>) @@ May({"wmPhase"}, <<0, 6>>)
    @@ May({"wmConditionChanges", "wmNextShotId"}, <<0, Int32Max>>)
    @@ May({"wmWindDirectionDegrees"}, <<0, 359>>) @@ May({"wmWindSource"}, <<0, 1>>)
    @@ May({"wmWindSpeedHundredthMs"}, <<0, 100000>>)
    @@ May({"wmWindRecordedMs"}, <<0, Int64Max>>)

ReadShotRecord == ReadShotCore @@ NeedUInt({"seq"}) @@ NeedFlag({"invalidated"})
                  @@ Need({"rescoredTenths"}, Int16)

ReadEstIncident ==
    NeedText({"incidentId", "firingPoint", "relayId", "interruptionStartUtc", "systemRestoredUtc",
              "originalTarget", "reserveTarget", "authorisedBy", "juryNote", "rangeOfficerNote",
              "incidentReportRef", "reason"})
    @@ Need({"incidentType", "scope", "status"}, <<0, 255>>)
    @@ Need({"calculatedDurationMs", "officiallyAcceptedDurationMs", "timeCreditMs"}, Int64)
    @@ NeedFlag({"targetMoved", "backupScoreReviewed", "preparationGranted", "sightingGranted",
                 "officialResumeAuthorised"})
    @@ NeedUInt({"raisedSeq"}) @@ May({"creditDecision", "backupReview"}, <<0, 255>>)
    @@ May({"raisedAtMonoMs"}, Int64) @@ May({"sightingGrantedSeq"}, <<0, Int64Max>>)

ReadCallShot ==
    ReadShotCore @@ Need({"shotNumber"}, <<0, Int16[2]>>) @@ Need({"position"}, <<0, 127>>)
    @@ MayFlag({"hasCall"}) @@ MayText({"note"})
    @@ May({"calledXHundredthMm", "calledYHundredthMm", "callSplitMs"}, Int32)

ReadTransitionRecord ==
    Need({"position"}, <<0, 127>>) @@ Need({"repeat"}, <<0, Int16[2]>>)
    @@ May({"setupDurationMs", "readyMonoMs"}, Int32) @@ MayFlag({"completed"})
    @@ MayText({"note"})

ReadWindShot ==
    ReadShotCore @@ Need({"shotId"}, <<0, Int32Max>>) @@ Need({"position"}, <<0, 3>>)
    @@ MayFlag({"sighter", "windValid", "windCalm"}) @@ May({"windDirDeg"}, <<0, 359>>)
    @@ May({"windSpeedHundredthMs"}, <<0, 100000>>) @@ May({"windSource"}, <<0, 1>>)
    @@ May({"windRecordedMs"}, <<0, Int64Max>>) @@ MayText({"windNote"})

ReadEntries ==
    [officials |-> ReadShotRecord, sighters |-> ReadShotRecord,
     crossShots |-> ReadShotCore @@ NeedUInt({"seq"}) @@ NeedText({"sourceLane"}),
     corrections |-> NeedUInt({"targetSeq"}) @@ NeedText({"type", "reason"})
                     @@ Need({"fromTenths", "toTenths"}, Int16),
     adjustments |-> Need({"stageId"}, Int16) @@ Need({"deltaTenths"}, Int32)
                     @@ NeedText({"kind", "reason"}),
     incidents |-> NeedText({"kind", "note"}) @@ Need({"allowedTimeMs"}, Int64)
                   @@ NeedUInt({"seq"}),
     estIncidents |-> ReadEstIncident,
     trainingBlocks |-> Need({"blockIndex"}, <<0, Int16[2]>>) @@ Need({"position"}, <<0, 127>>)
                        @@ MayFlag({"completed"}) @@ MayText({"note"}),
     trainingSighters |-> ReadShotCore @@ May({"position"}, <<0, 127>>),
     cdShots |-> ReadCallShot, ptRecords |-> ReadTransitionRecord, wmShots |-> ReadWindShot]

\* The lists inside an entry, and what one of their elements must be.
InnerLists == [trainingBlocks |-> {"blockShots"},
               ptRecords |-> {"sighters", "verifShots", "checklist"}]
WithinLimits(r, value) == r.kind # "number" \/ (r.limits[1] <= value /\ value <= r.limits[2])
InnerOk(entries, x) == IF entries = "checklist" THEN x \in Int8[1] .. Int8[2]
                    ELSE \A n \in DOMAIN ReadShotCore : WithinLimits(ReadShotCore[n], x[n])

FieldOk(text, r, name) == IF Key(name) \in DOMAIN text THEN WithinLimits(r, text[Key(name)])
                          ELSE ~r.need
InnerOf(entries) == IF entries \in DOMAIN InnerLists THEN InnerLists[entries] ELSE {}
EntryOk(entries, entry) ==
    /\ \A n \in DOMAIN ReadEntries[entries] : FieldOk(entry, ReadEntries[entries][n], n)
    /\ \A n \in InnerOf(entries) \cap DOMAIN entry : \A x \in ToSet(entry[n]) : InnerOk(n, x)

\* The timer, what belongs to the discipline, and the totals of the stages.
ReadTimer == NeedFlag({"active", "paused"}) @@ Need({"timerId"}, <<0, 3>>)
             @@ Need({"durationMs", "startedAtMonoMs", "pausedAtMonoMs", "pausedAccumMs"}, Int64)
ReadDiscs ==
    LET version == Need({"version"}, <<1, Int32Max>>)
        final == version @@ Need({"stageId", "windowId"}, Int16)
                 @@ Need({"shotsInStage"}, <<0, Int32Max>>)
    IN [qualification |-> version @@ Need({"positionIndex"}, Int8) @@ NeedFlag({"sighterMode"}),
        finals3p |-> final, finals10m |-> final, training |-> version, none |-> NeedFlag({})]
StagesOk(subtotals, statuses) ==
    /\ \A stage \in DOMAIN subtotals \cup DOMAIN statuses : Int16[1] <= stage /\ stage <= Int16[2]
    /\ \A stage \in DOMAIN statuses : statuses[stage] \in Int8[1] .. Int8[2]

ReadScalars == ReadHeader @@ ReadTraining @@ ReadCalls @@ ReadTransition @@ ReadWindMap

ReadEntry(entries, entry) ==
    [n \in DOMAIN ReadEntries[entries] |-> IF Key(n) \in DOMAIN entry THEN entry[Key(n)] ELSE 0]
    @@ [n \in InnerOf(entries) |-> IF n \in DOMAIN entry THEN entry[n] ELSE <<>>]

\* What the reader makes of a snapshot: a state, or nothing.
DeserializeSessionState(text) ==
    LET Entries(entries) == [i \in DOMAIN text[entries] |-> ReadEntry(entries, text[entries][i])]
        sighters == Entries("trainingSighters")
        state == [n \in DOMAIN ReadScalars |-> IF n \in DOMAIN text THEN text[n] ELSE NewState[n]]
                 @@ [n \in {"timer", "disc", "stageSubtotalTenths", "stageStatuses"} |-> text[n]]
                 @@ [trainingSighters |-> [i \in DOMAIN sighters |-> Core(sighters[i])],
                     trainingSighterPos |-> [i \in DOMAIN sighters |-> sighters[i].position]]
                 @@ [n \in Lists |-> Entries(n)]
                 @@ NewState
    IN IF /\ \A n \in DOMAIN ReadScalars : FieldOk(text, ReadScalars[n], n)
          /\ \A entries \in Lists : \A entry \in ToSet(text[entries]) : EntryOk(entries, entry)
          /\ \A n \in DOMAIN ReadTimer : FieldOk(text.timer, ReadTimer[n], n)
          /\ \A n \in DOMAIN ReadDiscs[text.disc.kind] :
                FieldOk(text.disc, ReadDiscs[text.disc.kind][n], n)
          /\ StagesOk(text.stageSubtotalTenths, text.stageStatuses)
       THEN <<state>> ELSE <<>>

\* operator== looks at everything but the operating mode.
Same(a, b) == \A n \in DOMAIN NewState \ {"operatingMode"} : a[n] = b[n]
-----------------------------------------------------------------------------
(* Sessions to take snapshots of: how they open, and what may follow.      *)
\* An event is a type and what differs from the plain event of that type.
PlainEvents == [type \in EventTypes |-> Plain(type)]
Ev(type, changes) == <<type, changes>>
Fieldset(ev) == ev[2] @@ PlainEvents[ev[1]]
Typed(types) == {Ev(type, <<>>) : type \in types}

Started(discipline) == Ev("SessionStarted", [discipline |-> discipline])
MatchEvents ==
    Typed({"SessionConfigured", "PreparationStarted", "SightingStarted", "OfficialMatchStarted",
           "SighterAccepted", "ShotAccepted", "StageCompleted", "PositionChanged", "TimerStarted",
           "TimerPaused", "TimerResumed", "TimerExpired", "MatchCompleted", "SessionSuspended",
           "SessionResumed"})
    \cup {Ev("AthleteAssigned", [lane |-> 0]), Ev("MatchCompleted", [totalTenths |-> 0,
                                                                     officialCount |-> 0])}
RulingEvents ==
    Typed(DOMAIN RulingStructs) \cup {Ev("ShotInvalidated", [targetSeq |-> 3]),
          Ev("ShotRescored", [targetSeq |-> 3, newScoreTenths |-> 5]),
          Ev("ShotRescored", [targetSeq |-> 4, newScoreTenths |-> 7, hasNewCoordinates |-> 0]),
          Ev("SeriesAdjusted", [deltaTenths |-> -3]), Ev("PenaltyIssued", [deltaTenths |-> -1]),
          Ev("MatchCompleted", [totalTenths |-> 2, officialCount |-> 2])}
IncidentEvents ==
    Typed(DOMAIN IncidentStructs)
    \cup {Ev("EstDecisionRecorded", [decision |-> d]) : d \in 0 .. 4}
    \cup {Ev("RecoveryPhaseEntered", [phase |-> p]) : p \in 0 .. 2}
    \cup {Ev("EstIncidentResolved", [status |-> 3])}
TransitionEvents ==
    Typed(DOMAIN TransitionStructs)
    \cup {Ev("PositionSetupStarted", [position |-> 2, repeat |-> 2])}
WindEvents ==
    Typed(DOMAIN WindStructs)
    \cup {Ev("WindMapPhaseChanged", [fromPhase |-> 1, toPhase |-> p]) : p \in {2, 4}}
    \cup {Ev("WindMapPositionChanged", [fromPosition |-> 1, toPosition |-> 2])}

Opened(discipline, types) == <<Started(discipline)>> \o [i \in DOMAIN types |-> Ev(types[i], <<>>)]
Stories ==
    [course |-> [opening |-> Opened(1, <<>>), alphabet |-> MatchEvents],
     rulings |-> [opening |-> Opened(1, <<"OfficialMatchStarted", "ShotAccepted">>)
                              \o <<Ev("ShotAccepted", ("shot.shotNumber" :> 2) @@ [externalId |-> 2])>>,
                  alphabet |-> RulingEvents],
     final3P |-> [opening |-> Opened(5, <<"StageEntered", "OfficialMatchStarted">>),
                  alphabet |-> Typed(DOMAIN FinalsStructs \cup {"ShotAccepted"})],
     final10m |-> [opening |-> Opened(8, <<"StageEntered", "OfficialMatchStarted">>),
                   alphabet |-> Typed(DOMAIN FinalsStructs \cup {"ShotAccepted"})],
     incidents |-> [opening |-> Opened(1, <<"EstIncidentRaised">>), alphabet |-> IncidentEvents],
     blocks |-> [opening |-> Opened(6, <<"TrainingSessionStarted">>),
                 alphabet |-> Typed(DOMAIN BlockStructs)
                              \cup {Ev("TrainingSighterPhaseStarted", [beforeBlock |-> 2])}],
     calls |-> [opening |-> Opened(6, <<"CallDiagnoseSessionStarted">>),
                alphabet |-> Typed(DOMAIN CallStructs)],
     transition |-> [opening |-> <<Started(6), Ev("PositionTransitionSessionStarted", [repeats |-> 2])>>,
                     alphabet |-> TransitionEvents],
     wind |-> [opening |-> Opened(6, <<"WindMapSessionStarted">>), alphabet |-> WindEvents]]
-----------------------------------------------------------------------------
VARIABLE twin    \* the session as it was folded, and as it is replayed

ApplyNext(s, ev) == Apply(s, ev[1], Fieldset(ev), s.lastSeq + 1, s.lastSeq + 1)

\* The fold of all events of a sequence, each of which is accepted.
Folded(events) == FoldLeft(LAMBDA s, ev : ApplyNext(s, ev)[1], NewState, events)

NoSession == [story |-> "none", events |-> 0, verdict |-> "held", folded |-> <<>>,
              replayed |-> <<>>]
SnapshotInit == twin = NoSession

OpenSession(story) ==
    /\ twin = NoSession
    /\ twin' = [NoSession EXCEPT !.story = story, !.folded = Folded(Stories[story].opening)]

\* The store takes an event; the replay of the tail takes it too.
Submit(ev) ==
    /\ twin.story # "none" /\ twin.events < MaxFoldSteps /\ twin.verdict = "held"
    /\ Legal(twin.folded, ev[1], Fieldset(ev), twin.folded.lastSeq + 1)
    /\ \E after \in {[s \in {twin.folded} \cup ToSet(twin.replayed) |-> ApplyNext(s, ev)]} :
          LET next == after[twin.folded]
              tail == IF twin.replayed = <<>> THEN <<>> ELSE after[twin.replayed[1]]
          IN twin' = [twin EXCEPT
                !.events = @ + 1,
                !.folded = IF next = <<>> THEN @ ELSE next[1],
                !.replayed = tail,
                !.verdict = CASE next = <<>> -> "invariant broken"
                              [] @ = "held" /\ twin.replayed # <<>> /\ tail = <<>> -> "event refused"
                              [] OTHER -> @]

\* A snapshot is written; the reducer takes it only if it reads back as the
\* state that it has, and a replay starts from what it reads.
TakeSnapshot ==
    LET captured == DeserializeSessionState(SerializeSessionState(twin.folded))
        seq == twin.folded.lastSeq + 1
    IN /\ twin.story # "none" /\ twin.replayed = <<>> /\ twin.verdict = "held"
       /\ twin' = IF captured = <<>> \/ ~Same(captured[1], twin.folded)
                  THEN [twin EXCEPT !.verdict = "snapshot refused"]
                  ELSE [twin EXCEPT !.folded.lastSeq = seq,
                                    !.replayed = <<[captured[1] EXCEPT !.lastSeq = seq]>>]

SnapshotNext ==
    \/ \E story \in DOMAIN Stories : OpenSession(story)
    \/ TakeSnapshot
    \/ \E story \in DOMAIN Stories \cap {twin.story} :
          \E ev \in Stories[story].alphabet : Submit(ev)

\* The state that a replay from the last snapshot ends in is the state of the
\* session, no snapshot is refused, and no accepted event breaks what apply()
\* demands of a state (ReplayEngine::snapshotsAgreeWithFold).
SnapshotsHold ==
    /\ twin.verdict = "held"
    /\ twin.replayed # <<>> => Same(twin.replayed[1], twin.folded)

\* The corrections of a shot form a chain: the first starts from the score that
\* was fired, each next one from where the one before it ended, and the last
\* ends in what counts; a shot that was invalidated counts nothing, whatever it
\* was rescored to.
CorrectionsOf(s, r) == SelectSeq(s.corrections, LAMBDA c : c.targetSeq = r.seq)
AuditChains ==
    twin.story # "none" =>
      \A r \in ToSet(twin.folded.officials) :
          LET chain == CorrectionsOf(twin.folded, r)
              struck == {i \in DOMAIN chain : chain[i].type = "ShotInvalidated"}
              After(i) == IF \E j \in struck : j <= i THEN 0 ELSE chain[i].toTenths
          IN /\ \A i \in DOMAIN chain :
                   chain[i].fromTenths = IF i = 1 THEN r.scoreTenths ELSE After(i - 1)
             /\ EffectiveTenths(r) = IF chain = <<>> THEN r.scoreTenths ELSE After(Len(chain))
             /\ Cardinality(struck) <= 1
=============================================================================
