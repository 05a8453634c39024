------------------------ MODULE QualificationSession ------------------------
(***************************************************************************)
(* A qualification session with its competition clock and its incidents:   *)
(* QualificationController and EstIncidentController over the reducer's    *)
(* timer and incident records, the routing of shots that ShootingPage.qml  *)
(* keeps beside them (sligterMode), and the crashes and resumes that go    *)
(* through RecoveryCoordinator and SessionStore::resumeSession.            *)
(*                                                                         *)
(* Storage is healthy here (SessionStore models the rest), so an event     *)
(* that was submitted is in the journal, and the journal is what state     *)
(* folds.  A handler that submits several events can die between them:     *)
(* Submits.  The clock of a process starts at 0 and ticks in units of the  *)
(* durations below.                                                        *)
(***************************************************************************)
EXTENDS Integers, Sequences

CONSTANTS
    MatchMs, PrepMs,   \* config.matchMs and the preparation time
    OfficialShots,     \* config.officialShots, 0 = uncapped
    CreditMs,          \* the time credit the Jury may grant
    MaxTime,           \* bound: ticks of one process
    MaxShots,          \* bound: official shots, above the cap
    MaxIncidents,      \* bound: incidents raised
    MaxCrashes         \* bound: crashes

ASSUME DurationsAssumption ==
    MatchMs \in Nat \ {0} /\ PrepMs \in Nat \ {0} /\ CreditMs \in Nat \ {0}
ASSUME CapAssumption == OfficialShots \in Nat
ASSUME QualBoundsAssumption ==
    MaxTime \in Nat /\ MaxShots \in Nat /\ MaxIncidents \in Nat /\ MaxCrashes \in Nat

VARIABLES
    session,     \* "none", "live", "down" (crashed), "done" (closed)
    now,         \* SessionStore::nowMonotonicMs
    state,       \* SessionState: what the reducer has folded
    sligterMode, \* ShootingPage: shots are submitted as sighters
    cap,         \* QualificationController::m_officialShots
    lastTm,      \* monotonic time of the last event in the journal
    used,        \* history: time the running competition clock has consumed
    usedAtLast,  \* history: used, at the last event in the journal
    adrift,      \* history: resumed with the clock running since it was started
    crashes      \* number of crashes so far

vars == <<session, now, state, sligterMode, cap, lastTm, used, usedAtLast,
          adrift, crashes>>
-----------------------------------------------------------------------------
(* TimerState, EstIncidentRecord and the reducer's handlers.               *)
Phases == {"None", "Preparation", "Sighting", "OfficialMatch"}
Grants == {"Preparation", "Sighting", "OfficialResume"}
Timer == [active : BOOLEAN, paused : BOOLEAN, durationMs : Nat,
          startedAt : Nat, pausedAt : Nat, pausedAccum : Int]
Incident == [status : {"Open", "Resolved", "Abandoned"}, granted : SUBSET Grants,
             creditDecision : {"pending", "none", "granted"}, creditMs : Nat]
State == [phase : Phases, life : {"Active", "Complete"}, timer : Timer,
          incidents : Seq(Incident), officials : Nat]

NoTimer == [active |-> FALSE, paused |-> FALSE, durationMs |-> 0,
            startedAt |-> 0, pausedAt |-> 0, pausedAccum |-> 0]
NewState == [phase |-> "None", life |-> "Active", timer |-> NoTimer,
             incidents |-> <<>>, officials |-> 0]
Raised == [status |-> "Open", granted |-> {}, creditDecision |-> "pending",
           creditMs |-> 0]

EnterPhase(s, p) == [s EXCEPT !.phase = p]
TimerStarted(s, duration, at) ==
    [s EXCEPT !.timer = [NoTimer EXCEPT !.active = TRUE, !.durationMs = duration,
                                        !.startedAt = at]]
Runs(t) == t.active /\ ~t.paused
PausedUnstamped(s) == [s EXCEPT !.timer.paused = TRUE]
TimerPaused(s) == [s EXCEPT !.timer.paused = TRUE, !.timer.pausedAt = now]
ResumedWithoutAccum(s) == [s EXCEPT !.timer.paused = FALSE]
TimerResumed(s) ==
    [s EXCEPT !.timer.paused = FALSE,
              !.timer.pausedAccum = @ + now - s.timer.pausedAt]

\* EstIncidentController::openRecord: the most recent open incident.
OpenRecords(s) == {i \in DOMAIN s.incidents : s.incidents[i].status = "Open"}
IsOpenRecord(s, i) == i \in OpenRecords(s) /\ \A j \in OpenRecords(s) : j <= i

\* officialsBlocked: an open incident is not yet authorised to resume.
Blocked(s) ==
    \E i \in OpenRecords(s) : "OfficialResume" \notin s.incidents[i].granted

\* The statusKey of activeIncident(), "" when there is none.
StatusKey(s) ==
    LET Has(grant) ==
            \E i \in DOMAIN s.incidents : IsOpenRecord(s, i) /\ grant \in s.incidents[i].granted
    IN  CASE OpenRecords(s) = {} -> ""
          [] Has("OfficialResume") -> "resumed"
          [] Has("Sighting") /\ ~Has("OfficialResume") -> "recovery-sighting"
          [] OTHER ->
                IF Has("Preparation") THEN "recovery-preparation"
                ELSE IF \E i \in OpenRecords(s) : s.incidents[i].creditDecision # "pending"
                     THEN "awaiting-official-resume" ELSE "awaiting-jury-decision"

CreditOf(s) ==
    LET sum[i \in 0 .. Len(s.incidents)] ==
            IF i = 0 THEN 0 ELSE sum[i - 1] + s.incidents[i].creditMs
    IN  sum[Len(s.incidents)]

Positive(n) == IF n > 0 THEN n ELSE 0

\* remainingCompetitionMsFor: the one authoritative clock computation.
RemainingMs(s, at) ==
    LET t       == s.timer
        stopAt  == IF t.paused THEN t.pausedAt ELSE at
        elapsed == Positive(stopAt - t.startedAt - t.pausedAccum)
    IN  IF t.active THEN Positive(t.durationMs - elapsed + CreditOf(s)) ELSE 0

\* recoveredRemainingMs, of a resume from the journal as it is.
RecoveredRemainingMs == RemainingMs(state, lastTm)

\* What both are meant to be: the running clock has consumed this much.
TrueRemainingMs(consumed) ==
    IF state.timer.active
    THEN Positive(state.timer.durationMs - consumed + CreditOf(state)) ELSE 0
-----------------------------------------------------------------------------
(* Handlers.                                                               *)

\* A handler submits events one by one, the state being steps[n] after the
\* n-th; it may die between two of them.
Submits(steps, at) ==
    \E n \in 1 .. Len(steps) :
        /\ state' = steps[n] /\ lastTm' = at
        /\ IF n = Len(steps)
           THEN session' = "live" /\ UNCHANGED crashes
           ELSE session' = "down" /\ crashes < MaxCrashes /\ crashes' = crashes + 1

\* The clock goes on from where it was; or starts again, unless the handler
\* died before its TimerStarted.
ClockKept == UNCHANGED <<used, adrift>> /\ usedAtLast' = used
ClockRestarted ==
    IF session' = "down" THEN ClockKept
    ELSE used' = 0 /\ usedAtLast' = 0 /\ adrift' = FALSE

Init ==
    /\ session = "none" /\ now = 0 /\ state = NewState /\ sligterMode = TRUE
    /\ cap = 0 /\ lastTm = 0 /\ used = 0 /\ usedAtLast = 0
    /\ adrift = FALSE /\ crashes = 0

\* enterQualificationMode: startSession, beginPreparation, beginSighting.  A
\* session that is still running is closed, one that crashed stays behind.
StartSession ==
    LET prep  == EnterPhase(NewState, "Preparation")
        timed == TimerStarted(prep, PrepMs, 0)
    IN  /\ Submits(<<NewState, prep, timed, EnterPhase(timed, "Sighting")>>, 0)
        /\ now' = 0 /\ sligterMode' = TRUE /\ cap' = OfficialShots
        /\ used' = 0 /\ usedAtLast' = 0 /\ adrift' = FALSE

\* changedToMatchMode, beginOfficialMatch: the START MATCH bar is there, or
\* the sighting countdown ends, while shots go to the sighters.
BeginOfficialMatch ==
    LET match == EnterPhase(state, "OfficialMatch") IN
    /\ session = "live" /\ sligterMode
    /\ Submits(<<match, TimerStarted(match, MatchMs, now)>>, now)
    /\ sligterMode' = FALSE
    /\ ClockRestarted
    /\ UNCHANGED <<now, cap>>

\* submitShot(false, ...) and the reducer's ShotAccepted.
AcceptsOfficial ==
    /\ ~Blocked(state) /\ (cap > 0 => state.officials < cap)
    /\ state.phase = "OfficialMatch"
SubmitOfficial ==
    /\ session = "live" /\ ~sligterMode /\ state.officials < MaxShots
    /\ AcceptsOfficial
    /\ Submits(<<[state EXCEPT !.officials = @ + 1]>>, now)
    /\ ClockKept
    /\ UNCHANGED <<now, sligterMode, cap>>

\* submitShot(true, ...): a sighter is recorded in every phase but None.
SubmitSighter ==
    /\ session = "live" /\ sligterMode /\ state.phase # "None"
    /\ Submits(<<state>>, now)
    /\ ClockKept
    /\ UNCHANGED <<now, sligterMode, cap>>

\* changedToMatchFinish: completeMatch, then closeSession.
FinishMatch ==
    LET complete == [state EXCEPT !.life = "Complete"] IN
    /\ session = "live" /\ ~sligterMode
    /\ state' = complete /\ lastTm' = now
    /\ \/ session' = "done" /\ UNCHANGED crashes
       \/ session' = "down" /\ crashes < MaxCrashes /\ crashes' = crashes + 1
    /\ ClockKept
    /\ UNCHANGED <<now, sligterMode, cap>>

Tick ==
    /\ session = "live" /\ now < MaxTime
    /\ now' = now + 1
    /\ used' = IF Runs(state.timer) THEN used + 1 ELSE used
    /\ UNCHANGED <<session, state, sligterMode, cap, lastTm, usedAtLast, adrift, crashes>>
-----------------------------------------------------------------------------
(* EstIncidentController.  Every action of the workflow ends in            *)
(* incidentChanged, on which ShootingPage.qml redirects the shots.         *)

WhileFrozen == {"recovery-sighting", "awaiting-jury-decision", "awaiting-official-resume"}
OnIncidentChanged ==
    sligterMode' =
        IF StatusKey(state') = "recovery-sighting" /\ StatusKey(state) # StatusKey(state')
        THEN TRUE
        ELSE IF StatusKey(state') \in {"resumed", ""} /\ StatusKey(state) \in WhileFrozen
             THEN FALSE ELSE sligterMode

Incidents(steps) ==
    /\ session = "live"
    /\ Submits(steps, now)
    /\ ClockKept
    /\ OnIncidentChanged
    /\ UNCHANGED <<now, cap>>

\* raiseIncident: at most one is open; a running clock is paused.
RaiseIncident ==
    LET raised == [state EXCEPT !.incidents = Append(@, Raised)] IN
    /\ OpenRecords(state) = {} /\ Len(state.incidents) < MaxIncidents
    /\ Incidents(IF Runs(state.timer) THEN <<raised, TimerPaused(raised)>> ELSE <<raised>>)

\* The rulings; the reducer refuses a no-allowance after another ruling, the
\* controller a credit (the reducer would add it to the first).
RecordNoAllowance(i) ==
    /\ state.incidents[i].creditDecision = "pending"
    /\ Incidents(<<[state EXCEPT !.incidents[i].creditDecision = "none"]>>)

CreditDeducted(i) ==
    [state EXCEPT !.incidents[i].creditMs = @ - CreditMs,
                  !.incidents[i].creditDecision = "granted"]
Credited(i) ==
    [state EXCEPT !.incidents[i].creditMs = @ + CreditMs,
                  !.incidents[i].creditDecision = "granted"]
GrantWithoutRuling(i) == Incidents(<<Credited(i)>>)
GrantTimeCredit(i) ==
    /\ state.incidents[i].creditDecision = "pending"
    /\ Incidents(<<Credited(i)>>)

\* recordAcceptedDuration, recordBackupReview, reassignTarget: data only.
RecordFinding(i) == Incidents(<<state>>)

BeginRecoveryPhase(i, grant) ==
    Incidents(<<[state EXCEPT !.incidents[i].granted = @ \cup {grant}]>>)

\* The official-resume gate restarts the frozen clock.
AuthoriseOfficialResume(i) ==
    LET granted == [state EXCEPT !.incidents[i].granted = @ \cup {"OfficialResume"}] IN
    Incidents(IF state.timer.active /\ state.timer.paused
              THEN <<granted, TimerResumed(granted)>> ELSE <<granted>>)

\* Closing the incident leaves the clock alone; cancelling it releases it.
ResolveIncident(i) == Incidents(<<[state EXCEPT !.incidents[i].status = "Resolved"]>>)
CancelIncident(i) ==
    LET closed == [state EXCEPT !.incidents[i].status = "Abandoned"] IN
    Incidents(IF state.timer.active /\ state.timer.paused
              THEN <<closed, TimerResumed(closed)>> ELSE <<closed>>)

WorkOnIncident(i) ==
    \/ RecordNoAllowance(i)
    \/ GrantTimeCredit(i)
    \/ RecordFinding(i)
    \/ \E grant \in {"Preparation", "Sighting"} : BeginRecoveryPhase(i, grant)
    \/ AuthoriseOfficialResume(i)
    \/ ResolveIncident(i)
    \/ CancelIncident(i)
-----------------------------------------------------------------------------
Crash ==
    /\ session = "live" /\ crashes < MaxCrashes
    /\ session' = "down" /\ crashes' = crashes + 1
    /\ UNCHANGED <<now, state, sligterMode, cap, lastTm, used, usedAtLast, adrift>>

\* restoreQualificationSession, loadRecoveredState and resumeSession: state
\* is what the journal says, the clock of the process starts again at 0, and
\* so do the times of the two recovery markers.
CapForgotten == 0
RecoveredCap == OfficialShots
ResumeSession ==
    /\ session = "down" /\ state.life = "Active"
    /\ session' = "live" /\ now' = 0 /\ lastTm' = 0
    /\ cap' = RecoveredCap
    /\ sligterMode' = (state.phase # "OfficialMatch" \/ StatusKey(state) = "recovery-sighting")
    /\ used' = usedAtLast /\ adrift' = (adrift \/ Runs(state.timer))
    /\ UNCHANGED <<state, usedAtLast, crashes>>

Next ==
    \/ StartSession
    \/ BeginOfficialMatch
    \/ SubmitOfficial
    \/ SubmitSighter
    \/ FinishMatch
    \/ Tick
    \/ RaiseIncident
    \/ \E i \in DOMAIN state.incidents : IsOpenRecord(state, i) /\ WorkOnIncident(i)
    \/ Crash
    \/ ResumeSession

Spec == Init /\ [][Next]_vars
-----------------------------------------------------------------------------
TypeOK ==
    /\ session \in {"none", "live", "down", "done"}
    /\ now \in Nat /\ state \in State /\ sligterMode \in BOOLEAN
    /\ cap \in {0, OfficialShots} /\ lastTm \in Nat
    /\ used \in Nat /\ usedAtLast \in Nat
    /\ adrift \in BOOLEAN /\ crashes \in Nat

\* Incident time and crash time never consume competition time: whatever
\* pauses, credits, crashes and resumes there were, the remaining time is the
\* duration less what the running clock consumed, plus the credits.  This
\* holds until a session is resumed with the clock running: see
\* RecoveredIsFrozen.
RemainingExact ==
    session = "live" /\ ~adrift => RemainingMs(state, now) = TrueRemainingMs(used)

\* Under the same condition a crash costs no more than the time since the
\* last event: what a resume recovers is what remained at that event.
ResumeExact ==
    session \in {"live", "down"} /\ ~adrift =>
        RecoveredRemainingMs = TrueRemainingMs(usedAtLast)

\* Each incident gets at most one ruling on time: a credit is granted once,
\* and never after it was ruled that there is none, although the reducer would
\* add up whatever TimeCreditGranted events it is given.
OneRulingPerIncident ==
    \A i \in DOMAIN state.incidents :
        LET r == state.incidents[i] IN
        r.creditMs = IF r.creditDecision = "granted" THEN CreditMs ELSE 0

\* A course of fire never gets more official shots than its configuration
\* allows, however often it is interrupted and resumed.
CapHolds == OfficialShots > 0 => state.officials <= OfficialShots

\* Stated by QualificationController.cpp ("a crash during the match recovers
\* the frozen remaining match time") and not what the code does once the
\* session is resumed with a running clock and crashes again.
RecoveredIsFrozen ==
    session = "down" /\ state.life = "Active" =>
        RecoveredRemainingMs = TrueRemainingMs(usedAtLast)

\* Stated by docs/issf-rules/est-malfunctions.md ("resume keeps the clock
\* frozen + officials blocked until authorisation"): in the match the clock
\* stands exactly while official shots are blocked.
ClockFrozenIffBlocked ==
    session = "live" /\ state.phase = "OfficialMatch" /\ state.timer.active =>
        (state.timer.paused <=> Blocked(state))

\* Stated by ShootingPage.qml ("on authorised resumption restore match
\* routing"): shots are submitted as official only in the official match, so
\* that the reducer can accept them.
RoutingMatchesPhase ==
    session = "live" /\ ~sligterMode => state.phase = "OfficialMatch"
=============================================================================
