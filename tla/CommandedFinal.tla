--------------------------- MODULE CommandedFinal ---------------------------
(***************************************************************************)
(* What the two finals controllers have in common: the journal as the      *)
(* reducer folds it, the helpers a handler is made of, the passing of      *)
(* time, and crashes.  Finals3P and Finals10m extend it.                   *)
(*                                                                         *)
(* Storage is healthy here (SessionStore models the rest).  A handler is   *)
(* written as a function from controller to controller that collects in    *)
(* out what the journal folds to after each of the events it submits.      *)
(* Times are kept relative: left is what remains of the current segment,   *)
(* and age is what the process clock has counted since the last            *)
(* WindowOpened.                                                           *)
(***************************************************************************)
EXTENDS Integers, Sequences, FiniteSets, SequencesExt

CONSTANTS
    Durations,   \* of the segments
    MaxAge,      \* bound: age is counted up to the longest segment
    MaxFired,    \* bound: shots detected by one process
    MaxTroubles  \* bound: crashes, aborts, pauses, incidents, forced advances, shots refused

Segments == {"Intro", "Hold", "Prep", "Stage1", "Load", "PreGap", "Gap", "Series", "Single"}

ASSUME FinalBoundsAssumption ==
    /\ MaxAge \in Nat /\ MaxFired \in Nat /\ MaxTroubles \in Nat
    /\ Durations \in [Segments -> 1 .. MaxAge]

VARIABLES
    up,      \* "none", "live", or "down" after a crash
    ctl,     \* the controller
    rec,     \* the journal, folded
    fired,   \* ShootingPage.finalsShotSeq: shots detected, the last external id
    hist,    \* history, see NewHist
    troubles \* number of them so far

fvars == <<up, ctl, rec, fired, hist, troubles>>
-----------------------------------------------------------------------------
(* Events, and the reducer.                                                *)
Mark == [type |-> "Marker"]   \* CommandIssued, WindowClosed, SighterAccepted, ...
Opened == [type |-> "WindowOpened"]
Missing(numbers) == [type |-> "MissingShotRecorded", numbers |-> numbers]  \* each of them
Entered(s) == [type |-> "StageEntered", stage |-> s]
Phase(p, s) == [type |-> "Phase", phase |-> p, stage |-> s]
StatusChanged(s, v) == [type |-> "StageStatusChanged", stage |-> s, status |-> v]
Accepted(n, ext, s) ==
    [type |-> "ShotAccepted", shot |-> [n |-> n, ext |-> ext, stage |-> s]]
MatchCompleted == [type |-> "MatchCompleted"]

NewRec(stages) ==
    [stage |-> -1, phase |-> "None", life |-> "Active", blocked |-> FALSE,
     officials |-> {}, status |-> [s \in stages |-> "NotStarted"],
     missing |-> <<>>, anchor |-> "none", age |-> 0, elapsed |-> 0,
     refused |-> FALSE]   \* history: an official shot has been refused

\* The reducer refuses an official shot outside the match, and one whose
\* number or whose external id it has already.
Refuses(r, e) ==
    \/ r.life # "Active"
    \/ /\ e.type = "ShotAccepted"
       /\ \/ r.phase # "OfficialMatch"
          \/ \E o \in r.officials : o.n = e.shot.n \/ o.ext = e.shot.ext

Reduced(r, e) ==
    CASE e.type = "Phase" -> [r EXCEPT !.phase = e.phase, !.stage = e.stage]
      [] e.type = "StageEntered" -> [r EXCEPT !.stage = e.stage]
      [] e.type = "StageStatusChanged" -> [r EXCEPT !.status[e.stage] = e.status]
      [] e.type = "ShotAccepted" -> [r EXCEPT !.officials = @ \union {e.shot}]
      [] e.type = "MissingShotRecorded" -> [r EXCEPT !.missing = @ \o e.numbers]
      [] e.type = "MatchCompleted" -> [r EXCEPT !.life = "Complete"]
      [] e.type = "WindowOpened" -> [r EXCEPT !.anchor = "fresh", !.age = 0]
      [] OTHER -> r

\* elapsed is the difference of the stamps of the last event and of the last
\* WindowOpened.
Apply(r, e) ==
    IF Refuses(r, e) THEN [r EXCEPT !.refused = @ \/ e.type = "ShotAccepted"]
    ELSE LET next == Reduced(r, e) IN [next EXCEPT !.elapsed = next.age]

OfficialsOf(r, s) == {o \in r.officials : o.stage = s}

\* The elapsed time a resume computes: none without a window, and any, once
\* the anchor is a stamp of an older process whose clock is not this one.
ElapsedAtResume(r) ==
    CASE r.anchor = "none"  -> {0}
      [] r.anchor = "fresh" -> {r.elapsed}
      [] r.anchor = "stale" -> 0 .. r.elapsed

\* resumeSession: the clock of the new process starts at 0.
ResumedRec(r) ==
    [r EXCEPT !.age = 0, !.elapsed = 0,
              !.anchor = IF @ = "none" THEN "none" ELSE "stale"]

\* rebasedEnd: the elapsed time is clamped to the duration.
RebasedAnew(elapsed, duration) == duration
Rebased(elapsed, duration) == IF elapsed >= duration THEN 0 ELSE duration - elapsed
-----------------------------------------------------------------------------
(* What handlers are made of.                                              *)
Verdicts == {"Complete", "Incomplete", "Aborted"}

\* The journal as it is when the handler has come so far.
Written(c) == IF c.out = <<>> THEN rec ELSE Last(c.out)
Emit(c, e) == [c EXCEPT !.out = Append(@, Apply(Written(c), e))]
IssueCommand(c) == Emit(c, Mark)

SetWindow(c, w) ==
    IF c.window = w THEN c
    ELSE Emit([c EXCEPT !.window = w], IF w = "Closed" THEN Mark ELSE Opened)

\* A finished verdict is never downgraded.
SetStageStatusAnyway(c, s, v) ==
    IF c.status[s] = v THEN c
    ELSE Emit([c EXCEPT !.status[s] = v], StatusChanged(s, v))
SetStageStatus(c, s, v) ==
    IF c.status[s] = v \/ c.status[s] \in Verdicts THEN c
    ELSE Emit([c EXCEPT !.status[s] = v], StatusChanged(s, v))

BeginCommandSequence(c, gap) ==
    [SetWindow(c, "Closed") EXCEPT !.seqStep = 0, !.left = gap]

OpenCommandWindow(c, duration) ==
    [SetWindow([c EXCEPT !.mode = "Match"], "MatchOpen")
        EXCEPT !.seqStep = 2, !.left = duration]

CloseWindowAndStop(c) == IssueCommand(SetWindow(c, "Closed"))

\* recordMissingShots, of one stage: an event for each of the numbers
\* base+shots+1 .. base+limit.
MissingFromFirst(c, base, shots, limit) ==
    [c EXCEPT !.out = @ \o [i \in 1 .. (limit - shots) |->
        Apply(Written(c), Missing([j \in 1 .. i |-> base + j]))]]
MissingRange(c, base, shots, limit) ==
    [c EXCEPT !.out = @ \o [i \in 1 .. (limit - shots) |->
        Apply(Written(c), Missing([j \in 1 .. i |-> base + shots + j]))]]

NewCtl(stages) ==
    [stage |-> -1, seqStep |-> 0, window |-> "Closed", mode |-> "Sighter",
     shots |-> 0, count |-> 0, kneeling |-> 0, prone |-> 0, started1 |-> FALSE,
     checkpoints |-> {}, status |-> [s \in stages |-> "NotStarted"],
     left |-> 0, warned |-> 0, paused |-> FALSE, out |-> <<>>]

\* cut: a crash has cut a handler short; exact: the segment that runs began
\* with the last WindowOpened and its clock has run ever since; left: what
\* remained of it at the last event.
NewHist == [cut |-> FALSE, exact |-> FALSE, left |-> 0]

Stamped(h, exact, left) ==
    [h EXCEPT !.exact = exact, !.left = IF exact THEN left ELSE 0]

Troubles(n) == troubles + n <= MaxTroubles /\ troubles' = troubles + n

\* The process ends: nothing but the journal survives.
Down(stages) == up' = "down" /\ ctl' = NewCtl(stages)

\* A handler has made c of the controller; it submits its events one by one,
\* and the process may die between two of them.  anchored: the segment of c
\* began with its window; cost: what the bound on troubles counts for the
\* handler itself.
Submits(c, h, anchored, cost) ==
    \/ /\ rec' = Written(c) /\ ctl' = [c EXCEPT !.out = <<>>] /\ up' = "live"
       /\ hist' = Stamped(h, anchored /\ (h.exact \/ c.window # ctl.window), c.left)
       /\ Troubles(cost)
    \/ \E n \in 1 .. Len(c.out) - 1 :
       /\ rec' = c.out[n] /\ Down(DOMAIN c.status) /\ Troubles(cost + 1)
       /\ hist' = [Stamped(h, FALSE, 0) EXCEPT !.cut = TRUE]

\* The process dies between two handlers, or is simply ended: no handler
\* closes the session.
Crash ==
    /\ up = "live"
    /\ Down(DOMAIN ctl.status) /\ Troubles(1)
    /\ UNCHANGED <<rec, fired, hist>>

\* scaledNow stands still in a pause, the stamps of the store do not.
Counts(r) == r.anchor # "none" /\ r.age < MaxAge
TimePasses ==
    /\ up = "live" /\ (Counts(rec) \/ (ctl.left > 0 /\ ~ctl.paused))
    /\ rec' = [rec EXCEPT !.age = IF Counts(rec) THEN @ + 1 ELSE @]
    /\ ctl' = [ctl EXCEPT !.left = IF ctl.paused \/ @ = 0 THEN @ ELSE @ - 1]
    /\ hist' = IF ctl.paused THEN Stamped(hist, FALSE, 0) ELSE hist
    /\ UNCHANGED <<up, fired, troubles>>

\* An EST incident blocks official shots until the Jury authorises them; the
\* command clock runs on.  (EstIncidentController, on the store of the final.)
IncidentToggled ==
    /\ up = "live" /\ rec.life = "Active"
    /\ rec' = [rec EXCEPT !.blocked = ~@, !.elapsed = rec.age]
    /\ hist' = Stamped(hist, hist.exact, ctl.left)
    /\ Troubles(IF rec.blocked THEN 0 ELSE 1)
    /\ UNCHANGED <<up, ctl, fired>>
=============================================================================
