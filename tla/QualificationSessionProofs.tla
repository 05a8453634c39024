--------------------- MODULE QualificationSessionProofs ---------------------
(***************************************************************************)
(* Proofs about QualificationSession, for all durations, caps and bounds:  *)
(* the types, the competition clock, the rulings on time and the cap.      *)
(* RemainingExact is not inductive: ClockInv says what the fields of the   *)
(* timer and the two monotonic times have to do with the time the clock    *)
(* consumed.  CapHolds is not either: Books adds which cap is in force.    *)
(***************************************************************************)
EXTENDS QualificationSession, TLAPS

\* Where a clock that is not adrift stands: paused, it stands at what was
\* consumed; running, now and the time of the last event both agree with it.
ClockInv ==
    LET t == state.timer IN
    t.active /\ ~adrift /\ session \in {"live", "down"} =>
        IF t.paused
        THEN t.pausedAt - t.startedAt - t.pausedAccum = used /\ usedAtLast = used
        ELSE /\ session = "live" => now - t.startedAt - t.pausedAccum = used
             /\ lastTm - t.startedAt - t.pausedAccum = usedAtLast

IInv == TypeOK /\ ClockInv
-----------------------------------------------------------------------------
\* A handler that submits one event: nothing happens in between.
LEMMA OneSubmit ==
    ASSUME NEW STATE s, NEW STATE at, Submits(<<s>>, at)
    PROVE  state' = s /\ lastTm' = at /\ session' = "live" /\ crashes' = crashes
BY DEF Submits

\* A handler that submits two events: it may die after the first.
LEMMA TwoSubmits ==
    ASSUME NEW STATE s, NEW STATE t, NEW STATE at, crashes \in Nat,
           Submits(<<s, t>>, at)
    PROVE  /\ lastTm' = at /\ crashes' \in Nat
           /\ \/ state' = s /\ session' = "down"
              \/ state' = t /\ session' = "live"
<1>1. PICK n \in 1 .. 2 :
        /\ state' = <<s, t>>[n] /\ lastTm' = at
        /\ IF n = 2
           THEN session' = "live" /\ UNCHANGED crashes
           ELSE session' = "down" /\ crashes < MaxCrashes /\ crashes' = crashes + 1
      BY DEF Submits
<1>2. CASE n = 1
      BY <1>1, <1>2
<1>3. CASE n = 2
      BY <1>1, <1>3
<1>. QED  BY <1>2, <1>3

-----------------------------------------------------------------------------
(* The reducer's handlers stay within the types.                           *)

LEMMA NewTypes == NoTimer \in Timer /\ NewState \in State
<1>1. NoTimer \in Timer
      BY DEF NoTimer, Timer
<1>. QED  BY <1>1 DEF NewState, State, Phases

LEMMA ReducerTypes ==
    ASSUME TypeOK
    PROVE  \A s \in State :
                /\ \A p \in Phases : EnterPhase(s, p) \in State
                /\ \A d \in Nat, at \in Nat : TimerStarted(s, d, at) \in State
                /\ TimerPaused(s) \in State
                /\ TimerResumed(s) \in State
<1>1. NoTimer \in Timer
      BY NewTypes
<1>3. ASSUME NEW s \in State, NEW p \in Phases
      PROVE  EnterPhase(s, p) \in State
      BY DEF EnterPhase, State
<1>4. ASSUME NEW s \in State, NEW t \in Timer
      PROVE  [s EXCEPT !.timer = t] \in State
      BY DEF State
<1>5. ASSUME NEW s \in State, NEW d \in Nat, NEW at \in Nat
      PROVE  TimerStarted(s, d, at) \in State
  <2>1. [NoTimer EXCEPT !.active = TRUE, !.durationMs = d, !.startedAt = at] \in Timer
        BY <1>1 DEF Timer
  <2>. QED  BY <2>1, <1>4 DEF TimerStarted
<1>6. ASSUME NEW s \in State
      PROVE  TimerPaused(s) \in State
  <2>1. s.timer \in Timer /\ now \in Nat
        BY DEF State, TypeOK
  <2>2. [s.timer EXCEPT !.paused = TRUE, !.pausedAt = now] \in Timer
        BY <2>1 DEF Timer
  <2>3. TimerPaused(s) = [s EXCEPT !.timer = [s.timer EXCEPT !.paused = TRUE, !.pausedAt = now]]
        BY DEF TimerPaused, State
  <2>. QED  BY <2>2, <2>3, <1>4
<1>7. ASSUME NEW s \in State
      PROVE  TimerResumed(s) \in State
  <2>. DEFINE accum == s.timer.pausedAccum + now - s.timer.pausedAt
  <2>1. s.timer \in Timer /\ now \in Nat
        BY DEF State, TypeOK
  <2>2. accum \in Int
        BY <2>1 DEF Timer
  <2>. HIDE DEF accum
  <2>3. [s.timer EXCEPT !.paused = FALSE, !.pausedAccum = accum] \in Timer
        BY <2>1, <2>2 DEF Timer
  <2>4. TimerResumed(s) = [s EXCEPT !.timer = [s.timer EXCEPT !.paused = FALSE,
                                                              !.pausedAccum = accum]]
        BY DEF TimerResumed, State, accum
  <2>. QED  BY <2>3, <2>4, <1>4
<1>. QED  BY <1>3, <1>5, <1>6, <1>7

\* Changing one incident record leaves the rest of the state alone.
LEMMA IncidentTypes ==
    ASSUME TypeOK, NEW i \in DOMAIN state.incidents, NEW r \in Incident
    PROVE  /\ [state EXCEPT !.incidents[i] = r] \in State
           /\ [state EXCEPT !.incidents[i] = r].timer = state.timer
<1>1. state \in State /\ state.incidents \in Seq(Incident)
      BY DEF TypeOK, State
<1>2. [state.incidents EXCEPT ![i] = r] \in Seq(Incident)
      BY <1>1
<1>3. [state EXCEPT !.incidents[i] = r]
        = [state EXCEPT !.incidents = [state.incidents EXCEPT ![i] = r]]
      BY <1>1 DEF State
<1>4. [state EXCEPT !.incidents = [state.incidents EXCEPT ![i] = r]] \in State
      BY <1>1, <1>2 DEF State
<1>5. [state EXCEPT !.incidents[i] = r].timer = state.timer
      BY <1>1 DEF State
<1>. QED  BY <1>3, <1>4, <1>5

LEMMA TypeInit == Init => TypeOK
<1>. SUFFICES ASSUME Init PROVE TypeOK
      OBVIOUS
<1>1. sligterMode \in BOOLEAN /\ adrift \in BOOLEAN
      BY Zenon DEF Init
<1>2. state \in State
      BY NewTypes DEF Init
<1>. QED  BY <1>1, <1>2 DEF Init, TypeOK

-----------------------------------------------------------------------------
(* What the handlers of a live session may do to the timer.                *)

LEMMA TimerTypes ==
    ASSUME TypeOK
    PROVE  /\ state.timer.active \in BOOLEAN /\ state.timer.paused \in BOOLEAN
           /\ state.timer.durationMs \in Nat /\ state.timer.startedAt \in Nat
           /\ state.timer.pausedAt \in Nat /\ state.timer.pausedAccum \in Int
           /\ now \in Nat /\ lastTm \in Nat /\ used \in Nat /\ usedAtLast \in Nat
BY DEF TypeOK, State, Timer

LEMMA TimerKept ==
    ASSUME IInv, session = "live", state'.timer = state.timer, ClockKept,
           now' = now, lastTm' = now
    PROVE  ClockInv'
BY TimerTypes DEF IInv, ClockInv, ClockKept

\* What the reducer makes of the timer of any state.
LEMMA ReducerTimers ==
    ASSUME TypeOK, NEW s \in State
    PROVE  /\ TimerPaused(s).timer = [s.timer EXCEPT !.paused = TRUE, !.pausedAt = now]
           /\ TimerResumed(s).timer =
                [s.timer EXCEPT !.paused = FALSE,
                                !.pausedAccum = @ + now - s.timer.pausedAt]
BY DEF TimerPaused, TimerResumed, State

LEMMA TimerFreezes ==
    ASSUME IInv, session = "live", Runs(state.timer), ClockKept,
           now' = now, lastTm' = now,
           state'.timer = [state.timer EXCEPT !.paused = TRUE, !.pausedAt = now]
    PROVE  ClockInv'
<1>1. /\ state'.timer.paused = TRUE /\ state'.timer.pausedAt = now
      /\ state'.timer.active = state.timer.active
      /\ state'.timer.startedAt = state.timer.startedAt
      /\ state'.timer.pausedAccum = state.timer.pausedAccum
      BY DEF IInv, TypeOK, State, Timer
<1>. QED  BY <1>1, TimerTypes DEF IInv, ClockInv, ClockKept, Runs

LEMMA TimerReleased ==
    ASSUME IInv, session = "live", state.timer.paused, ClockKept,
           now' = now, lastTm' = now,
           state'.timer = [state.timer EXCEPT !.paused = FALSE,
                               !.pausedAccum = @ + now - state.timer.pausedAt]
    PROVE  ClockInv'
<1>1. /\ state'.timer.paused = FALSE
      /\ state'.timer.active = state.timer.active
      /\ state'.timer.startedAt = state.timer.startedAt
      /\ state'.timer.pausedAccum = state.timer.pausedAccum + now - state.timer.pausedAt
      BY DEF IInv, TypeOK, State, Timer
<1>. QED  BY <1>1, TimerTypes DEF IInv, ClockInv, ClockKept

-----------------------------------------------------------------------------
(* The workflow of an incident.                                            *)

LEMMA HandlerTypes ==
    ASSUME TypeOK, state' \in State, session' \in {"live", "down"},
           lastTm' = now, now' = now, cap' = cap, crashes' \in Nat,
           sligterMode' \in BOOLEAN, ClockKept
    PROVE  TypeOK'
BY DEF TypeOK, ClockKept

LEMMA Redirected == ASSUME TypeOK, OnIncidentChanged PROVE sligterMode' \in BOOLEAN
BY Zenon DEF TypeOK, OnIncidentChanged

\* An action of one event that leaves the timer alone.
LEMMA RecordsOnly ==
    ASSUME IInv, NEW STATE s, Incidents(<<s>>), s \in State, s.timer = state.timer
    PROVE  IInv'
<1>1. /\ session = "live" /\ session' = "live" /\ state' = s /\ crashes' = crashes
      /\ lastTm' = now /\ now' = now /\ cap' = cap /\ ClockKept /\ OnIncidentChanged
      BY OneSubmit DEF Incidents
<1>2. sligterMode' \in BOOLEAN
      BY <1>1, Redirected DEF IInv
<1>3. TypeOK'
      BY <1>1, <1>2, HandlerTypes DEF IInv, TypeOK
<1>4. ClockInv'
      BY <1>1, TimerKept
<1>. QED  BY <1>3, <1>4 DEF IInv

\* An action that pauses or resumes the timer after its first event.
LEMMA RecordsAndTimer ==
    ASSUME IInv, NEW STATE s, NEW STATE t, Incidents(<<s, t>>),
           s \in State, s.timer = state.timer, t \in State,
           \/ Runs(state.timer) /\ t = TimerPaused(s)
           \/ state.timer.paused /\ t = TimerResumed(s)
    PROVE  IInv'
<1>1. /\ session = "live" /\ session' \in {"live", "down"} /\ crashes' \in Nat
      /\ lastTm' = now /\ now' = now /\ cap' = cap /\ ClockKept /\ OnIncidentChanged
      /\ state' = s \/ state' = t
  <2>1. session = "live" /\ Submits(<<s, t>>, now) /\ crashes \in Nat
        BY DEF Incidents, IInv, TypeOK
  <2>. QED  BY <2>1, TwoSubmits DEF Incidents
<1>2. sligterMode' \in BOOLEAN
      BY <1>1, Redirected DEF IInv
<1>3. TypeOK'
      BY <1>1, <1>2, HandlerTypes DEF IInv
<1>4. CASE state' = s
      BY <1>1, <1>3, <1>4, TimerKept DEF IInv
<1>5. CASE state' = t /\ Runs(state.timer) /\ t = TimerPaused(s)
  <2>1. state'.timer = [state.timer EXCEPT !.paused = TRUE, !.pausedAt = now]
        BY <1>5, ReducerTimers DEF IInv
  <2>. QED  BY <1>1, <1>3, <1>5, <2>1, TimerFreezes DEF IInv
<1>6. CASE state' = t /\ state.timer.paused /\ t = TimerResumed(s)
  <2>1. state'.timer = [state.timer EXCEPT !.paused = FALSE,
                            !.pausedAccum = @ + now - state.timer.pausedAt]
        BY <1>6, ReducerTimers DEF IInv
  <2>. QED  BY <1>1, <1>3, <1>6, <2>1, TimerReleased DEF IInv
<1>. QED  BY <1>1, <1>4, <1>5, <1>6

LEMMA RaiseKeeps == IInv /\ RaiseIncident => IInv'
<1>. SUFFICES ASSUME IInv, RaiseIncident PROVE IInv'
     OBVIOUS
<1>. DEFINE raised == [state EXCEPT !.incidents = Append(@, Raised)]
<1>1. raised \in State /\ raised.timer = state.timer
  <2>1. state \in State /\ state.incidents \in Seq(Incident)
        BY DEF IInv, TypeOK, State
  <2>2. Raised \in Incident
        BY DEF Raised, Incident
  <2>3. Append(state.incidents, Raised) \in Seq(Incident)
        BY <2>1, <2>2
  <2>. QED  BY <2>1, <2>3 DEF State
<1>2. TimerPaused(raised) \in State
      BY <1>1, ReducerTypes DEF IInv
<1>3. IF Runs(state.timer) THEN Incidents(<<raised, TimerPaused(raised)>>)
                           ELSE Incidents(<<raised>>)
      BY DEF RaiseIncident
<1>. HIDE DEF raised
<1>4. CASE Runs(state.timer)
      BY <1>1, <1>2, <1>3, <1>4, RecordsAndTimer
<1>5. CASE ~Runs(state.timer)
      BY <1>1, <1>3, <1>5, RecordsOnly
<1>. QED  BY <1>4, <1>5

\* Each action of the workflow replaces one record by another.
LEMMA RecordTypes ==
    ASSUME TypeOK, NEW i \in DOMAIN state.incidents
    PROVE  LET r == state.incidents[i] IN
           /\ r \in Incident
           /\ [r EXCEPT !.creditDecision = "none"] \in Incident
           /\ [r EXCEPT !.creditMs = @ + CreditMs, !.creditDecision = "granted"] \in Incident
           /\ \A g \in Grants : [r EXCEPT !.granted = @ \cup {g}] \in Incident
           /\ \A st \in {"Resolved", "Abandoned"} : [r EXCEPT !.status = st] \in Incident
<1>1. state.incidents[i] \in Incident
      BY DEF TypeOK, State
<1>2. CreditMs \in Nat
      BY DurationsAssumption
<1>. DEFINE r == state.incidents[i]
<1>3. r.creditMs + CreditMs \in Nat
      BY <1>1, <1>2 DEF Incident
<1>. HIDE DEF r
<1>4. r \in Incident
      BY <1>1 DEF r
<1>5. [r EXCEPT !.creditDecision = "none"] \in Incident
      BY <1>4 DEF Incident
<1>6. [r EXCEPT !.creditMs = @ + CreditMs, !.creditDecision = "granted"] \in Incident
      BY <1>3, <1>4 DEF Incident
<1>7. \A g \in Grants : [r EXCEPT !.granted = @ \cup {g}] \in Incident
      BY <1>4 DEF Incident
<1>8. \A st \in {"Resolved", "Abandoned"} : [r EXCEPT !.status = st] \in Incident
      BY <1>4 DEF Incident
<1>. QED  BY <1>4, <1>5, <1>6, <1>7, <1>8 DEF r

LEMMA WorkKeeps ==
    ASSUME IInv, NEW i \in DOMAIN state.incidents, WorkOnIncident(i)
    PROVE  IInv'
<1>. DEFINE r == state.incidents[i]
<1>. DEFINE With(x) == [state EXCEPT !.incidents[i] = x]
<1>0. TypeOK /\ state \in State /\ state.incidents \in Seq(Incident)
      BY DEF IInv, TypeOK, State
<1>1. ASSUME NEW x \in Incident
      PROVE  With(x) \in State /\ With(x).timer = state.timer
      BY <1>0, IncidentTypes
<1>. HIDE DEF With
<1>2. ASSUME NEW x \in Incident, Incidents(<<With(x)>>)
      PROVE  IInv'
      BY <1>1, <1>2, RecordsOnly
<1>3. ASSUME NEW x \in Incident,
             Incidents(IF state.timer.active /\ state.timer.paused
                       THEN <<With(x), TimerResumed(With(x))>> ELSE <<With(x)>>)
      PROVE  IInv'
  <2>1. CASE state.timer.active /\ state.timer.paused
    <3>1. Incidents(<<With(x), TimerResumed(With(x))>>)
          BY <1>3, <2>1
    <3>2. TimerResumed(With(x)) \in State
          BY <1>0, <1>1, ReducerTypes
    <3>. QED  BY <1>1, <2>1, <3>1, <3>2, RecordsAndTimer
  <2>2. CASE ~(state.timer.active /\ state.timer.paused)
        BY <1>2, <1>3, <2>2
  <2>. QED  BY <2>1, <2>2
<1>4. CASE RecordNoAllowance(i)
  <2>1. [r EXCEPT !.creditDecision = "none"] \in Incident
        BY <1>0, RecordTypes
  <2>2. Incidents(<<With([r EXCEPT !.creditDecision = "none"])>>)
        BY <1>0, <1>4 DEF RecordNoAllowance, With, State
  <2>. QED  BY <2>1, <2>2, <1>2
<1>5. CASE GrantTimeCredit(i)
  <2>. DEFINE x == [r EXCEPT !.creditMs = @ + CreditMs, !.creditDecision = "granted"]
  <2>1. x \in Incident
        BY <1>0, RecordTypes
  <2>2. Credited(i) = With(x)
        BY <1>0 DEF Credited, With, State
  <2>3. Incidents(<<With(x)>>)
        BY <1>5, <2>2 DEF GrantTimeCredit
  <2>. QED  BY <2>1, <2>3, <1>2
<1>6. CASE RecordFinding(i)
      BY <1>0, <1>6, RecordsOnly DEF RecordFinding
<1>7. ASSUME NEW g \in {"Preparation", "Sighting"}, BeginRecoveryPhase(i, g)
      PROVE  IInv'
  <2>1. [r EXCEPT !.granted = @ \cup {g}] \in Incident
        BY <1>0, RecordTypes DEF Grants
  <2>2. Incidents(<<With([r EXCEPT !.granted = @ \cup {g}])>>)
        BY <1>0, <1>7 DEF BeginRecoveryPhase, With, State
  <2>. QED  BY <2>1, <2>2, <1>2
<1>8. CASE AuthoriseOfficialResume(i)
  <2>. DEFINE x == [r EXCEPT !.granted = @ \cup {"OfficialResume"}]
  <2>1. x \in Incident
        BY <1>0, RecordTypes DEF Grants
  <2>2. With(x) = [state EXCEPT !.incidents[i].granted = @ \cup {"OfficialResume"}]
        BY <1>0 DEF With, State
  <2>3. Incidents(IF state.timer.active /\ state.timer.paused
                  THEN <<With(x), TimerResumed(With(x))>> ELSE <<With(x)>>)
        BY <1>8, <2>2 DEF AuthoriseOfficialResume
  <2>. QED  BY <2>1, <2>3, <1>3
<1>9. CASE ResolveIncident(i)
  <2>1. [r EXCEPT !.status = "Resolved"] \in Incident
        BY <1>0, RecordTypes
  <2>2. Incidents(<<With([r EXCEPT !.status = "Resolved"])>>)
        BY <1>0, <1>9 DEF ResolveIncident, With, State
  <2>. QED  BY <2>1, <2>2, <1>2
<1>10. CASE CancelIncident(i)
  <2>. DEFINE x == [r EXCEPT !.status = "Abandoned"]
  <2>1. x \in Incident
        BY <1>0, RecordTypes
  <2>2. With(x) = [state EXCEPT !.incidents[i].status = "Abandoned"]
        BY <1>0 DEF With, State
  <2>3. Incidents(IF state.timer.active /\ state.timer.paused
                  THEN <<With(x), TimerResumed(With(x))>> ELSE <<With(x)>>)
        BY <1>10, <2>2 DEF CancelIncident
  <2>. QED  BY <2>1, <2>3, <1>3
<1>. QED  BY <1>4, <1>5, <1>6, <1>7, <1>8, <1>9, <1>10 DEF WorkOnIncident

-----------------------------------------------------------------------------
(* The course of fire.                                                     *)

LEMMA StartKeeps == IInv /\ StartSession => IInv'
<1>. SUFFICES ASSUME IInv, StartSession PROVE IInv'
     OBVIOUS
<1>. DEFINE prep  == EnterPhase(NewState, "Preparation")
            timed == TimerStarted(prep, PrepMs, 0)
            sight == EnterPhase(timed, "Sighting")
<1>0. TypeOK /\ crashes \in Nat /\ PrepMs \in Nat
      BY DurationsAssumption DEF IInv, TypeOK
<1>1. /\ NewState \in State /\ prep \in State /\ timed \in State /\ sight \in State
      BY <1>0, NewTypes, ReducerTypes DEF Phases
<1>2. /\ ~NewState.timer.active /\ ~prep.timer.active
      /\ sight.timer = timed.timer
      /\ timed.timer.paused = FALSE /\ timed.timer.startedAt = 0
      /\ timed.timer.pausedAccum = 0
  <2>1. NewState.timer = NoTimer /\ prep.timer = NoTimer
        BY DEF NewState, EnterPhase
  <2>2. sight.timer = timed.timer
        BY <1>1 DEF EnterPhase, State
  <2>3. timed.timer = [NoTimer EXCEPT !.active = TRUE, !.durationMs = PrepMs,
                                       !.startedAt = 0]
        BY <1>1 DEF TimerStarted, State
  <2>4. /\ timed.timer.paused = FALSE /\ timed.timer.startedAt = 0
        /\ timed.timer.pausedAccum = 0
        BY <2>3 DEF NoTimer
  <2>5. ~NoTimer.active
        BY DEF NoTimer
  <2>. QED  BY <2>1, <2>2, <2>4, <2>5
<1>3. PICK n \in 1 .. 4 :
        /\ state' = <<NewState, prep, timed, sight>>[n] /\ lastTm' = 0
        /\ IF n = 4
           THEN session' = "live" /\ UNCHANGED crashes
           ELSE session' = "down" /\ crashes < MaxCrashes /\ crashes' = crashes + 1
      BY DEF StartSession, Submits
<1>4. /\ state' \in {NewState, prep, timed, sight}
      /\ session' \in {"live", "down"} /\ crashes' \in Nat /\ lastTm' = 0
      BY <1>0, <1>3
<1>5. /\ now' = 0 /\ cap' = OfficialShots /\ used' = 0 /\ usedAtLast' = 0
      /\ sligterMode' = TRUE /\ adrift' = FALSE
      BY DEF StartSession
<1>6. state' \in State
      BY <1>1, <1>4
<1>7. sligterMode' \in BOOLEAN /\ adrift' \in BOOLEAN
      BY Zenon DEF StartSession
<1>. HIDE DEF prep, timed, sight
<1>8. TypeOK'
      BY <1>4, <1>5, <1>6, <1>7 DEF TypeOK
<1>9. ClockInv'
      BY <1>2, <1>4, <1>5 DEF ClockInv
<1>. QED  BY <1>8, <1>9 DEF IInv

LEMMA MatchKeeps == IInv /\ BeginOfficialMatch => IInv'
<1>. SUFFICES ASSUME IInv, BeginOfficialMatch PROVE IInv'
     OBVIOUS
<1>. DEFINE match == EnterPhase(state, "OfficialMatch")
            timed == TimerStarted(match, MatchMs, now)
<1>0. /\ TypeOK /\ crashes \in Nat /\ MatchMs \in Nat /\ now \in Nat
      /\ state \in State
      BY DurationsAssumption DEF IInv, TypeOK
<1>1. match \in State /\ timed \in State
      BY <1>0, ReducerTypes DEF Phases
<1>2. /\ match.timer = state.timer
      /\ timed.timer.paused = FALSE /\ timed.timer.startedAt = now
      /\ timed.timer.pausedAccum = 0
  <2>1. match.timer = state.timer
        BY <1>0 DEF EnterPhase, State
  <2>2. timed.timer = [NoTimer EXCEPT !.active = TRUE, !.durationMs = MatchMs,
                                       !.startedAt = now]
        BY <1>1 DEF TimerStarted, State
  <2>. QED  BY <2>1, <2>2 DEF NoTimer
<1>3. /\ session = "live" /\ now' = now /\ cap' = cap
      /\ Submits(<<match, timed>>, now) /\ ClockRestarted
      BY DEF BeginOfficialMatch
<1>4. sligterMode' \in BOOLEAN
      BY Zenon DEF BeginOfficialMatch
<1>. HIDE DEF match, timed
<1>5. /\ lastTm' = now /\ crashes' \in Nat
      /\ \/ state' = match /\ session' = "down"
         \/ state' = timed /\ session' = "live"
      BY <1>0, <1>3, TwoSubmits
<1>6. CASE state' = match /\ session' = "down"
  <2>1. ClockKept
        BY <1>3, <1>6 DEF ClockRestarted
  <2>2. TypeOK'
        BY <1>0, <1>1, <1>3, <1>4, <1>5, <1>6, <2>1, HandlerTypes
  <2>3. ClockInv'
        BY <1>2, <1>3, <1>5, <1>6, <2>1, TimerKept
  <2>. QED  BY <2>2, <2>3 DEF IInv
<1>7. CASE state' = timed /\ session' = "live"
  <2>1. used' = 0 /\ usedAtLast' = 0 /\ adrift' = FALSE
        BY <1>3, <1>7 DEF ClockRestarted
  <2>2. adrift' \in BOOLEAN
        BY <2>1
  <2>3. TypeOK'
        BY <1>0, <1>1, <1>3, <1>4, <1>5, <1>7, <2>1, <2>2 DEF TypeOK
  <2>4. ClockInv'
        BY <1>0, <1>2, <1>3, <1>5, <1>7, <2>1 DEF ClockInv
  <2>. QED  BY <2>3, <2>4 DEF IInv
<1>. QED  BY <1>5, <1>6, <1>7

LEMMA ShotKeeps == IInv /\ (SubmitOfficial \/ SubmitSighter) => IInv'
<1>. SUFFICES ASSUME IInv, SubmitOfficial \/ SubmitSighter PROVE IInv'
     OBVIOUS
<1>0. TypeOK /\ state \in State /\ crashes \in Nat
      BY DEF IInv, TypeOK
<1>1. [state EXCEPT !.officials = @ + 1] \in State
      BY <1>0 DEF State
<1>2. [state EXCEPT !.officials = @ + 1].timer = state.timer
      BY <1>0 DEF State
<1>3. /\ session = "live" /\ ClockKept /\ now' = now /\ sligterMode' = sligterMode /\ cap' = cap
      /\ \/ Submits(<<[state EXCEPT !.officials = @ + 1]>>, now)
         \/ Submits(<<state>>, now)
      BY DEF SubmitOfficial, SubmitSighter
<1>4. /\ session' = "live" /\ lastTm' = now /\ crashes' = crashes
      /\ state' \in State /\ state'.timer = state.timer
      BY <1>0, <1>1, <1>2, <1>3, OneSubmit
<1>5. sligterMode' \in BOOLEAN
      BY <1>0, <1>3 DEF TypeOK
<1>6. TypeOK'
      BY <1>0, <1>3, <1>4, <1>5, HandlerTypes
<1>7. ClockInv'
      BY <1>3, <1>4, TimerKept
<1>. QED  BY <1>6, <1>7 DEF IInv

LEMMA FinishKeeps == IInv /\ FinishMatch => IInv'
<1>. SUFFICES ASSUME IInv, FinishMatch PROVE IInv'
     OBVIOUS
<1>0. TypeOK /\ state \in State /\ crashes \in Nat
      BY DEF IInv, TypeOK
<1>1. state' \in State /\ state'.timer = state.timer
      BY <1>0 DEF FinishMatch, State
<1>2. /\ session = "live" /\ ClockKept /\ now' = now /\ sligterMode' = sligterMode /\ cap' = cap
      /\ lastTm' = now /\ session' \in {"done", "down"} /\ crashes' \in Nat
      BY <1>0 DEF FinishMatch
<1>3. ClockInv'
      BY <1>1, <1>2, TimerKept
<1>4. TypeOK'
      BY <1>0, <1>1, <1>2 DEF TypeOK, ClockKept
<1>. QED  BY <1>3, <1>4 DEF IInv

LEMMA TickKeeps == IInv /\ Tick => IInv'
<1>. SUFFICES ASSUME IInv, Tick PROVE IInv'
     OBVIOUS
<1>1. /\ session = "live" /\ now' = now + 1
      /\ used' = IF Runs(state.timer) THEN used + 1 ELSE used
      /\ UNCHANGED <<session, state, sligterMode, cap, lastTm, usedAtLast, adrift, crashes>>
      BY DEF Tick
<1>2. TypeOK'
      BY <1>1 DEF IInv, TypeOK
<1>3. ClockInv'
      BY <1>1, TimerTypes DEF IInv, ClockInv, Runs
<1>. QED  BY <1>2, <1>3 DEF IInv

LEMMA CrashKeeps == IInv /\ Crash => IInv'
<1>. SUFFICES ASSUME IInv, Crash PROVE IInv'
     OBVIOUS
<1>1. TypeOK'
      BY DEF IInv, TypeOK, Crash
<1>2. ClockInv'
      BY DEF IInv, ClockInv, Crash
<1>. QED  BY <1>1, <1>2 DEF IInv

\* A clock that stands survives the resume; one that runs is adrift.
LEMMA ResumeKeeps == IInv /\ ResumeSession => IInv'
<1>. SUFFICES ASSUME IInv, ResumeSession PROVE IInv'
     OBVIOUS
<1>1. sligterMode' \in BOOLEAN /\ adrift' \in BOOLEAN
      BY Zenon DEF ResumeSession
<1>2. TypeOK'
      BY <1>1 DEF IInv, TypeOK, ResumeSession, RecoveredCap
<1>3. ClockInv'
      BY TimerTypes DEF IInv, ClockInv, ResumeSession, Runs
<1>. QED  BY <1>2, <1>3 DEF IInv

LEMMA StepKeeps == IInv /\ [Next]_vars => IInv'
<1>. SUFFICES ASSUME IInv, [Next]_vars PROVE IInv'
     OBVIOUS
<1>1. CASE StartSession
      BY <1>1, StartKeeps
<1>2. CASE BeginOfficialMatch
      BY <1>2, MatchKeeps
<1>3. CASE SubmitOfficial \/ SubmitSighter
      BY <1>3, ShotKeeps
<1>4. CASE FinishMatch
      BY <1>4, FinishKeeps
<1>5. CASE Tick
      BY <1>5, TickKeeps
<1>6. CASE RaiseIncident
      BY <1>6, RaiseKeeps
<1>7. ASSUME NEW i \in DOMAIN state.incidents, WorkOnIncident(i)
      PROVE  IInv'
      BY <1>7, WorkKeeps
<1>8. CASE Crash
      BY <1>8, CrashKeeps
<1>9. CASE ResumeSession
      BY <1>9, ResumeKeeps
<1>10. CASE UNCHANGED vars
      BY <1>10 DEF vars, IInv, TypeOK, ClockInv
<1>. QED  BY <1>1, <1>2, <1>3, <1>4, <1>5, <1>6, <1>7, <1>8, <1>9, <1>10 DEF Next

LEMMA InitHolds == Init => IInv
BY TypeInit DEF IInv, Init, ClockInv, NewState, NoTimer
-----------------------------------------------------------------------------
\* What remains on the clock is a function of the elapsed running time, so an
\* exact elapsed time is an exact remaining time, whatever was credited.
LEMMA ExactClock == IInv => RemainingExact /\ ResumeExact
<1>. SUFFICES ASSUME IInv, ~adrift PROVE RemainingExact /\ ResumeExact
     BY DEF RemainingExact, ResumeExact
<1>. DEFINE t == state.timer
<1>1. ASSUME t.active, session = "live"
      PROVE  Positive((IF t.paused THEN t.pausedAt ELSE now) - t.startedAt - t.pausedAccum) = used
      BY <1>1, TimerTypes DEF IInv, ClockInv, Positive
<1>2. ASSUME t.active, session \in {"live", "down"}
      PROVE  Positive((IF t.paused THEN t.pausedAt ELSE lastTm) - t.startedAt - t.pausedAccum)
               = usedAtLast
      BY <1>2, TimerTypes DEF IInv, ClockInv, Positive
<1>3. RemainingExact
      BY <1>1 DEF RemainingExact, RemainingMs, TrueRemainingMs
<1>4. ResumeExact
      BY <1>2 DEF ResumeExact, RecoveredRemainingMs, RemainingMs, TrueRemainingMs
<1>. QED  BY <1>3, <1>4

\* For all durations, credits and numbers of incidents and crashes, the
\* session keeps its types.
THEOREM TypesHold == Spec => []TypeOK
<1>1. IInv => TypeOK
      BY DEF IInv
<1>. QED  BY <1>1, InitHolds, StepKeeps, PTL DEF Spec

\* Incident time never consumes competition time.
THEOREM IncidentTimeIsFree == Spec => []RemainingExact
<1>1. IInv => RemainingExact
      BY ExactClock
<1>. QED  BY <1>1, InitHolds, StepKeeps, PTL DEF Spec

\* A crash takes back the time since the last event and no more.
THEOREM CrashTimeIsFree == Spec => []ResumeExact
<1>1. IInv => ResumeExact
      BY ExactClock
<1>. QED  BY <1>1, InitHolds, StepKeeps, PTL DEF Spec
-----------------------------------------------------------------------------
(* What was ruled and what was shot.  Every event a handler submits leaves *)
(* each incident with one ruling and the shots within the cap; the cap in  *)
(* force is that of the configuration from the first event on.             *)

Ruled(r) == r.creditMs = IF r.creditDecision = "granted" THEN CreditMs ELSE 0
Booked(s) ==
    /\ \A i \in DOMAIN s.incidents : Ruled(s.incidents[i])
    /\ OfficialShots > 0 => s.officials <= OfficialShots
Books == Booked(state) /\ (session # "none" => cap = OfficialShots)

\* Only the timer or the phase changes.
LEMMA TimerBooks ==
    ASSUME NEW s \in State, Booked(s)
    PROVE  /\ \A p : Booked(EnterPhase(s, p))
           /\ \A d, at : Booked(TimerStarted(s, d, at))
           /\ Booked(TimerPaused(s)) /\ Booked(TimerResumed(s))
<1>1. ASSUME NEW t, t.incidents = s.incidents, t.officials = s.officials
      PROVE  Booked(t)
      BY <1>1 DEF Booked
<1>2. /\ \A p : EnterPhase(s, p).incidents = s.incidents
                /\ EnterPhase(s, p).officials = s.officials
      /\ \A d, at : TimerStarted(s, d, at).incidents = s.incidents
                    /\ TimerStarted(s, d, at).officials = s.officials
      BY DEF EnterPhase, TimerStarted, State
<1>3. /\ TimerPaused(s).incidents = s.incidents /\ TimerPaused(s).officials = s.officials
      /\ TimerResumed(s).incidents = s.incidents /\ TimerResumed(s).officials = s.officials
      BY DEF TimerPaused, TimerResumed, State
<1>. QED  BY <1>1, <1>2, <1>3

\* One record is replaced by one with one ruling.
LEMMA RecordBooks ==
    ASSUME TypeOK, Booked(state), NEW i \in DOMAIN state.incidents, NEW x \in Incident,
           Ruled(x)
    PROVE  /\ Booked([state EXCEPT !.incidents[i] = x])
           /\ [state EXCEPT !.incidents[i] = x] \in State
<1>1. state \in State /\ state.incidents \in Seq(Incident)
      BY DEF TypeOK, State
<1>. DEFINE s == [state EXCEPT !.incidents[i] = x]
<1>2. /\ s.officials = state.officials
      /\ s.incidents = [state.incidents EXCEPT ![i] = x]
      BY <1>1 DEF State
<1>. HIDE DEF s
<1>3. Booked(s)
      BY <1>1, <1>2 DEF Booked
<1>. QED  BY <1>3, IncidentTypes DEF s

LEMMA NewBooks == Booked(NewState)
<1>1. NewState.incidents = <<>> /\ NewState.officials = 0
      BY DEF NewState
<1>. QED  BY <1>1, CapAssumption DEF Booked

LEMMA StartBooks == IInv /\ StartSession => Books'
<1>. SUFFICES ASSUME IInv, StartSession PROVE Books'
     OBVIOUS
<1>. DEFINE prep  == EnterPhase(NewState, "Preparation")
            timed == TimerStarted(prep, PrepMs, 0)
            sight == EnterPhase(timed, "Sighting")
<1>1. PrepMs \in Nat /\ TypeOK
      BY DurationsAssumption DEF IInv
<1>2. NewState \in State /\ prep \in State /\ timed \in State
      BY <1>1, NewTypes, ReducerTypes DEF Phases
<1>3. Booked(NewState) /\ Booked(prep)
      BY <1>2, NewBooks, TimerBooks
<1>4. Booked(timed)
      BY <1>2, <1>3, TimerBooks
<1>5. Booked(sight)
      BY <1>2, <1>4, TimerBooks
<1>6. PICK n \in 1 .. 4 : state' = <<NewState, prep, timed, sight>>[n]
      BY DEF StartSession, Submits
<1>. HIDE DEF prep, timed, sight
<1>7. state' \in {NewState, prep, timed, sight}
      BY <1>6
<1>8. cap' = OfficialShots
      BY DEF StartSession
<1>. QED  BY <1>3, <1>4, <1>5, <1>7, <1>8 DEF Books, Booked

LEMMA MatchBooks == IInv /\ Books /\ BeginOfficialMatch => Books'
<1>. SUFFICES ASSUME IInv, Books, BeginOfficialMatch PROVE Books'
     OBVIOUS
<1>. DEFINE match == EnterPhase(state, "OfficialMatch")
            timed == TimerStarted(match, MatchMs, now)
<1>1. TypeOK /\ state \in State /\ crashes \in Nat
      BY DEF IInv, TypeOK
<1>2. match \in State
      BY <1>1, ReducerTypes DEF Phases
<1>3. Booked(match)
      BY <1>1, TimerBooks DEF Books
<1>4. Booked(timed)
      BY <1>2, <1>3, TimerBooks
<1>5. Submits(<<match, timed>>, now) /\ session = "live" /\ cap' = cap
      BY DEF BeginOfficialMatch
<1>. HIDE DEF match, timed
<1>6. state' = match \/ state' = timed
      BY <1>1, <1>5, TwoSubmits
<1>. QED  BY <1>3, <1>4, <1>5, <1>6 DEF Books, Booked

\* The controller counts against the cap before it submits.
LEMMA ShotBooks == IInv /\ Books /\ (SubmitOfficial \/ SubmitSighter) => Books'
<1>. SUFFICES ASSUME IInv, Books, SubmitOfficial \/ SubmitSighter PROVE Books'
     OBVIOUS
<1>1. TypeOK /\ state \in State /\ state.officials \in Nat
      BY DEF IInv, TypeOK, State
<1>2. session = "live" /\ cap' = cap /\ cap = OfficialShots
      BY DEF SubmitOfficial, SubmitSighter, Books
<1>3. CASE SubmitOfficial
  <2>. DEFINE s == [state EXCEPT !.officials = @ + 1]
  <2>1. Submits(<<s>>, now) /\ (cap > 0 => state.officials < cap)
        BY <1>3 DEF SubmitOfficial, AcceptsOfficial
  <2>2. s.incidents = state.incidents /\ s.officials = state.officials + 1
        BY <1>1 DEF State
  <2>. HIDE DEF s
  <2>3. state' = s
        BY <2>1, OneSubmit
  <2>4. OfficialShots > 0 => s.officials <= OfficialShots
        BY <1>1, <1>2, <2>1, <2>2, CapAssumption
  <2>. QED  BY <1>2, <2>2, <2>3, <2>4 DEF Books, Booked
<1>4. CASE SubmitSighter
  <2>1. state' = state
        BY <1>4, OneSubmit DEF SubmitSighter
  <2>. QED  BY <1>2, <2>1 DEF Books, Booked
<1>. QED  BY <1>3, <1>4

LEMMA RaiseBooks == IInv /\ Books /\ RaiseIncident => Books'
<1>. SUFFICES ASSUME IInv, Books, RaiseIncident PROVE Books'
     OBVIOUS
<1>. DEFINE raised == [state EXCEPT !.incidents = Append(@, Raised)]
<1>0. TypeOK /\ state \in State /\ state.incidents \in Seq(Incident) /\ crashes \in Nat
      BY DEF IInv, TypeOK, State
<1>1. Raised \in Incident /\ Ruled(Raised)
      BY DEF Raised, Incident, Ruled
<1>2. /\ raised.incidents = Append(state.incidents, Raised)
      /\ raised.officials = state.officials
      BY <1>0 DEF State
<1>3. raised \in State
  <2>1. Append(state.incidents, Raised) \in Seq(Incident)
        BY <1>0, <1>1
  <2>. QED  BY <1>0, <2>1 DEF State
<1>4. /\ session = "live" /\ cap' = cap
      /\ \/ Submits(<<raised>>, now)
         \/ Submits(<<raised, TimerPaused(raised)>>, now)
      BY DEF RaiseIncident, Incidents
<1>. HIDE DEF raised
<1>5. Booked(raised)
  <2>1. ASSUME NEW j \in DOMAIN raised.incidents PROVE Ruled(raised.incidents[j])
    <3>1. CASE j \in DOMAIN state.incidents
      <4>1. raised.incidents[j] = state.incidents[j]
            BY <1>0, <1>1, <1>2, <3>1
      <4>. QED  BY <3>1, <4>1 DEF Books, Booked
    <3>2. CASE j \notin DOMAIN state.incidents
      <4>1. raised.incidents[j] = Raised
            BY <1>0, <1>1, <1>2, <3>2
      <4>. QED  BY <1>1, <4>1
    <3>. QED  BY <3>1, <3>2
  <2>. QED  BY <1>2, <2>1 DEF Books, Booked
<1>6. Booked(TimerPaused(raised))
      BY <1>3, <1>5, TimerBooks
<1>7. state' = raised \/ state' = TimerPaused(raised)
      BY <1>0, <1>4, OneSubmit, TwoSubmits
<1>. QED  BY <1>4, <1>5, <1>6, <1>7 DEF Books, Booked

LEMMA WorkBooks ==
    ASSUME IInv, Books, NEW i \in DOMAIN state.incidents, WorkOnIncident(i)
    PROVE  Books'
<1>. DEFINE r == state.incidents[i]
            With(x) == [state EXCEPT !.incidents[i] = x]
<1>0. /\ TypeOK /\ state \in State /\ state.incidents \in Seq(Incident)
      /\ r \in Incident /\ Ruled(r) /\ crashes \in Nat
      BY DEF IInv, TypeOK, State, Books, Booked
<1>1. ASSUME NEW x \in Incident, Ruled(x)
      PROVE  Booked(With(x)) /\ Booked(TimerResumed(With(x)))
      BY <1>0, <1>1, RecordBooks, TimerBooks DEF Books
<1>2. session = "live" /\ cap' = cap
      BY DEF WorkOnIncident, RecordNoAllowance, GrantTimeCredit, RecordFinding,
             BeginRecoveryPhase, AuthoriseOfficialResume, ResolveIncident,
             CancelIncident, Incidents
<1>. HIDE DEF With
<1>3. ASSUME NEW x \in Incident, Ruled(x),
             \/ Incidents(<<With(x)>>)
             \/ Incidents(<<With(x), TimerResumed(With(x))>>)
      PROVE  Books'
  <2>1. state' = With(x) \/ state' = TimerResumed(With(x))
        BY <1>0, <1>3, OneSubmit, TwoSubmits DEF Incidents
  <2>. QED  BY <1>1, <1>2, <1>3, <2>1 DEF Books, Booked
<1>. HIDE DEF r
<1>4. CASE RecordNoAllowance(i)
  <2>. DEFINE x == [r EXCEPT !.creditDecision = "none"]
  <2>1. x \in Incident
        BY <1>0 DEF Incident
  <2>2. Ruled(x)
        BY <1>0, <1>4 DEF RecordNoAllowance, Ruled, Incident, r
  <2>3. Incidents(<<With(x)>>)
        BY <1>0, <1>4 DEF RecordNoAllowance, With, State, r
  <2>. QED  BY <2>1, <2>2, <2>3, <1>3
<1>5. CASE GrantTimeCredit(i)
  <2>. DEFINE x == [r EXCEPT !.creditMs = @ + CreditMs, !.creditDecision = "granted"]
  <2>1. CreditMs \in Nat /\ r.creditMs \in Nat /\ r.creditDecision = "pending"
        BY <1>0, <1>5, DurationsAssumption DEF GrantTimeCredit, Incident, r
  <2>2. r.creditMs = 0
        BY <1>0, <2>1 DEF Ruled
  <2>3. x \in Incident /\ Ruled(x)
    <3>1. r.creditMs + CreditMs = CreditMs
          BY <2>1, <2>2
    <3>2. x = [r EXCEPT !.creditMs = CreditMs, !.creditDecision = "granted"]
          BY <3>1
    <3>. HIDE DEF x
    <3>. QED  BY <1>0, <2>1, <3>2 DEF Incident, Ruled
  <2>4. Credited(i) = With(x)
        BY <1>0 DEF Credited, With, State, r
  <2>5. Incidents(<<With(x)>>)
        BY <1>5, <2>4 DEF GrantTimeCredit
  <2>. QED  BY <2>3, <2>5, <1>3
<1>6. CASE RecordFinding(i)
  <2>1. state' = state
        BY <1>6, OneSubmit DEF RecordFinding, Incidents
  <2>. QED  BY <1>2, <2>1 DEF Books, Booked
<1>7. ASSUME NEW g \in {"Preparation", "Sighting"}, BeginRecoveryPhase(i, g)
      PROVE  Books'
  <2>. DEFINE x == [r EXCEPT !.granted = @ \cup {g}]
  <2>1. x \in Incident /\ Ruled(x)
        BY <1>0 DEF Incident, Grants, Ruled
  <2>2. Incidents(<<With(x)>>)
        BY <1>0, <1>7 DEF BeginRecoveryPhase, With, State, r
  <2>. QED  BY <2>1, <2>2, <1>3
<1>8. CASE AuthoriseOfficialResume(i)
  <2>. DEFINE x == [r EXCEPT !.granted = @ \cup {"OfficialResume"}]
  <2>1. x \in Incident /\ Ruled(x)
        BY <1>0 DEF Incident, Grants, Ruled
  <2>2. With(x) = [state EXCEPT !.incidents[i].granted = @ \cup {"OfficialResume"}]
        BY <1>0 DEF With, State, r
  <2>3. \/ Incidents(<<With(x)>>)
        \/ Incidents(<<With(x), TimerResumed(With(x))>>)
        BY <1>8, <2>2 DEF AuthoriseOfficialResume
  <2>. QED  BY <2>1, <2>3, <1>3
<1>9. CASE ResolveIncident(i)
  <2>. DEFINE x == [r EXCEPT !.status = "Resolved"]
  <2>1. x \in Incident /\ Ruled(x)
        BY <1>0 DEF Incident, Ruled
  <2>2. Incidents(<<With(x)>>)
        BY <1>0, <1>9 DEF ResolveIncident, With, State, r
  <2>. QED  BY <2>1, <2>2, <1>3
<1>10. CASE CancelIncident(i)
  <2>. DEFINE x == [r EXCEPT !.status = "Abandoned"]
  <2>1. x \in Incident /\ Ruled(x)
        BY <1>0 DEF Incident, Ruled
  <2>2. With(x) = [state EXCEPT !.incidents[i].status = "Abandoned"]
        BY <1>0 DEF With, State, r
  <2>3. \/ Incidents(<<With(x)>>)
        \/ Incidents(<<With(x), TimerResumed(With(x))>>)
        BY <1>10, <2>2 DEF CancelIncident
  <2>. QED  BY <2>1, <2>3, <1>3
<1>. QED  BY <1>4, <1>5, <1>6, <1>7, <1>8, <1>9, <1>10 DEF WorkOnIncident

LEMMA StepBooks == IInv /\ Books /\ [Next]_vars => Books'
<1>. SUFFICES ASSUME IInv, Books, [Next]_vars PROVE Books'
     OBVIOUS
<1>1. CASE StartSession  BY <1>1, StartBooks
<1>2. CASE BeginOfficialMatch  BY <1>2, MatchBooks
<1>3. CASE SubmitOfficial \/ SubmitSighter  BY <1>3, ShotBooks
<1>4. CASE FinishMatch
  <2>1. /\ state'.incidents = state.incidents /\ state'.officials = state.officials
        /\ session = "live" /\ cap' = cap
        BY <1>4 DEF FinishMatch, IInv, TypeOK, State
  <2>. QED  BY <2>1 DEF Books, Booked
<1>5. CASE Tick \/ Crash
      BY <1>5 DEF Tick, Crash, Books, Booked
<1>6. CASE RaiseIncident  BY <1>6, RaiseBooks
<1>7. ASSUME NEW i \in DOMAIN state.incidents, WorkOnIncident(i)
      PROVE  Books'
      BY <1>7, WorkBooks
<1>8. CASE ResumeSession
      BY <1>8 DEF ResumeSession, RecoveredCap, Books, Booked
<1>9. CASE UNCHANGED vars
      BY <1>9 DEF vars, Books, Booked
<1>. QED  BY <1>1, <1>2, <1>3, <1>4, <1>5, <1>6, <1>7, <1>8, <1>9 DEF Next

\* Each incident has one ruling on time, and the cap in force is that of the
\* configuration whatever submits, crashes and resumes there were.
THEOREM BooksHold == Spec => []Books
<1>1. Init => Books
      BY NewBooks DEF Init, Books
<1>. QED  BY <1>1, InitHolds, StepKeeps, StepBooks, PTL DEF Spec

\* No sequence of rulings, crashes and resumes gives an incident two rulings
\* on time.
THEOREM OneRuling == Spec => []OneRulingPerIncident
<1>1. Books => OneRulingPerIncident
      BY DEF Books, Booked, Ruled, OneRulingPerIncident
<1>. QED  BY <1>1, BooksHold, PTL

\* However often a course of fire is interrupted and resumed, it never gets
\* more official shots than its configuration allows.
THEOREM ShotsWithinCap == Spec => []CapHolds
<1>1. Books => CapHolds
      BY DEF Books, Booked, CapHolds
<1>. QED  BY <1>1, BooksHold, PTL
=============================================================================
