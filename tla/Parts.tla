------------------------------- MODULE Parts -------------------------------
(***************************************************************************)
(* Parts of the system that share no state with each other, over one state *)
(* space, so that one run checks them: the link to the target, what the    *)
(* range management observes, prepares and displays, the scan for sessions *)
(* to recover, the lines of the journal, the fold of its events with the   *)
(* snapshots in it, the review of a Wind Map session, what the pages of    *)
(* the range management show, and the operating mode.  A behaviour chooses *)
(* one part; the others stay at rest in an initial state.                  *)
(***************************************************************************)
EXTENDS StateSnapshots

CONSTANTS
    Residue, FlushShootCount, RecentIdentities, ReadFailures, LivenessPolls,
    FeedSeconds, MaxShots, MaxFaults,                                       \* TargetLink
    MaxChanges, MaxStatuses, MaxShotsSent, MaxSilences,               \* RangeObservation
    LaneCount, Nodes, MaxAthletes, MaxSelected, MaxEvents,               \* RangePlanning
    DisplayLanes,                                                         \* RangeDisplay
    Competitions, Trainings, MaxDamage, MaxFailures,                      \* RecoveryScan
    MaxStrings, MaxFires, MaxMoves, ShownStrings,                         \* WindReview
    RangeLanes, TargetStations, Reports, Plans, StartLists, MaxUpdates          \* RangeViews

VARIABLES
    part,                                                   \* the part that is chosen
    hw, app, shots, faults,                                 \* TargetLink
    node, net, mirror, newest, snap, log,                   \* RangeObservation
    mem, disk, minted, failures, taint,                     \* RangePlanning
    range, plan, display,                                   \* RangeDisplay
    file, current, away, put, candidates, fresh, damage, fsFaults, \* RecoveryScan
    review,                                                 \* WindReview
    layout, heard, agenda, roster, shown, row, tally, screen, \* RangeViews
    setting, process, dialog, flags, course                \* OperatingMode

Target == INSTANCE TargetLink
Observation == INSTANCE RangeObservation WITH MaxShots <- MaxShotsSent
Planning == INSTANCE RangePlanning
Display == INSTANCE RangeDisplay
Recovery == INSTANCE RecoveryScan
Wind == INSTANCE WindReview
Views == INSTANCE RangeViews
Mode == INSTANCE OperatingMode

ASSUME PartsAssumption ==
    /\ Target!LinkAssumption /\ Observation!ObservationAssumption
    /\ Planning!PlanningAssumption /\ Display!DisplayAssumption /\ Recovery!ScanAssumption
    /\ Wind!ReviewAssumption /\ Views!ViewsAssumption /\ StructAssumption

PartNames == {"target", "observation", "planning", "display", "recovery", "codec",
              "snapshots", "wind review", "views", "mode"}

\* The states in which the parts rest that are not chosen.
TargetRests == Target!Init /\ ~app.live /\ hw.counter = 0
DisplayRests == Display!Init /\ range = {}
ViewsRest == Views!Init /\ layout = << >> /\ agenda = Views!NoPlan /\ roster = << >>
ModeRests == Mode!Init /\ setting = "Live"

Init ==
    /\ part \in PartNames
    /\ IF part = "target" THEN Target!Init ELSE TargetRests
    /\ IF part = "display" THEN Display!Init ELSE DisplayRests
    /\ IF part = "views" THEN Views!Init ELSE ViewsRest
    /\ IF part = "mode" THEN Mode!Init ELSE ModeRests
    /\ Observation!Init /\ Planning!Init /\ Recovery!Init /\ WireInit /\ SnapshotInit
    /\ Wind!ReviewInit

targetVars == <<hw, app, shots, faults>>
observationVars == <<node, net, mirror, newest, snap, log>>
planningVars == <<mem, disk, minted, failures, taint>>
displayVars == <<range, plan, display>>
recoveryVars == <<file, current, away, put, candidates, fresh, damage, fsFaults>>
modeVars == <<setting, process, dialog, flags, course>>
viewVars == <<layout, heard, agenda, roster, shown, row, tally, screen>>
vars == <<part, targetVars, observationVars, planningVars, displayVars, recoveryVars,
          wire, twin, review, viewVars, modeVars>>

\* Only the chosen part moves.
Next ==
    /\ UNCHANGED part
    /\ \/ part = "target" /\ Target!Next
          /\ UNCHANGED <<observationVars, planningVars, displayVars, recoveryVars, wire, twin,
                        review, viewVars, modeVars>>
       \/ part = "observation" /\ Observation!Next
          /\ UNCHANGED <<targetVars, planningVars, displayVars, recoveryVars, wire, twin,
                        review, viewVars, modeVars>>
       \/ part = "planning" /\ Planning!Next
          /\ UNCHANGED <<targetVars, observationVars, displayVars, recoveryVars, wire, twin,
                        review, viewVars, modeVars>>
       \/ part = "display" /\ Display!Next
          /\ UNCHANGED <<targetVars, observationVars, planningVars, recoveryVars, wire, twin,
                        review, viewVars, modeVars>>
       \/ part = "recovery" /\ Recovery!Next
          /\ UNCHANGED <<targetVars, observationVars, planningVars, displayVars, wire, twin,
                        review, viewVars, modeVars>>
       \/ part = "codec" /\ WireNext
          /\ UNCHANGED <<targetVars, observationVars, planningVars, displayVars, recoveryVars,
                        twin, review, viewVars, modeVars>>
       \/ part = "snapshots" /\ SnapshotNext
          /\ UNCHANGED <<targetVars, observationVars, planningVars, displayVars, recoveryVars,
                        wire, review, viewVars, modeVars>>
       \/ part = "wind review" /\ Wind!ReviewNext
          /\ UNCHANGED <<targetVars, observationVars, planningVars, displayVars, recoveryVars,
                        wire, twin, viewVars, modeVars>>
       \/ part = "views" /\ Views!Next
          /\ UNCHANGED <<targetVars, observationVars, planningVars, displayVars, recoveryVars,
                        wire, twin, review, modeVars>>
       \/ part = "mode" /\ Mode!Next
          /\ UNCHANGED <<targetVars, observationVars, planningVars, displayVars, recoveryVars,
                        wire, twin, review, viewVars>>

\* The one fairness assumed: the poll of the target.
Spec == Init /\ [][Next]_vars /\ Target!PollFairness
-----------------------------------------------------------------------------
(* Properties of the parts, each said of behaviours in which its part moves: *)
(* a part that rests is in one of its initial states.                       *)
\* Target: the page marks each shot where it fell, each once, and none is
\* missing, as long as nothing has spoilt the numbering; acquisition stops in
\* its fault only for a reason.
ShotsCorrect == part = "target" => Target!ShotsCorrect /\ Target!FaultsExplained

\* Target: paper is fed for every shot, though the numbers begin again.
FedOnce == part = "target" => Target!FedOnce

\* Target: a lost link is noticed, on any page, and comes back with the cable.
LinkIsKept == Target!LinkIsKept

\* Observation: what the mirror shows of a station is what has been heard of
\* it, however late, doubled or reordered.
ObservedTrue == part = "observation" => Observation!ObservedTrue

\* Observation: a reader of the field-test log knows the station's connection,
\* its restarts, its silences and its gaps.
TimelineTrue == part = "observation" => Observation!TimelineTrue

\* Planning: a plan that is ready is complete, nobody is on two lanes, and who
\* is on a lane exists, in memory and on disk.
PlansSound == part = "planning" => Planning!PlansSound

\* Display: it shows a lane of those it goes through, or says why there is none.
DisplayFollows == part = "display" => Display!DisplayFollows

\* Recovery: no journal is lost, and a scan offers those that are unfinished.
OfferedIsUnfinished == part = "recovery" => Recovery!OfferedIsUnfinished


\* Range pages: what is shown is what would be computed now, but for the name
\* of a lane's athlete after the start list has changed.
ViewsCurrent == part = "views" => Views!ViewsCurrent

\* Mode: the pages say what the next launch will run, a competition holds the
\* setting, and a session keeps its sources; each with its exceptions.
ModeKept == part = "mode" => Mode!ModeKept
=============================================================================
