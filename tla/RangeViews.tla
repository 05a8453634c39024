----------------------------- MODULE RangeViews ------------------------------
(***************************************************************************)
(* What the pages of the range management show.  The lists of lanes,       *)
(* devices, stations without a lane, lanes of the plan, athletes and       *)
(* targets (LaneListModel, RangeListModel, UnassignedNodeModel,            *)
(* PlanLaneModel, AthleteListModel, DisplayLaneModel) keep nothing of      *)
(* their own: a row is computed from the range, the stations, the plan and *)
(* the start list when it is painted, and painted again when a signal says *)
(* so.  A page shows what was computed then.                               *)
(*                                                                         *)
(* A report stands for all that a heartbeat says; a row of a list is       *)
(* modelled under its lane, station or athlete.  The display's own         *)
(* selection is that of RangeDisplay.  The range is configured once, and a *)
(* station known is never forgotten (RangeMonitor::reset has no caller).   *)
(***************************************************************************)
EXTENDS Integers, FiniteSets, Functions

CONSTANTS
    RangeLanes,      \* lane numbers
    TargetStations,  \* target stations
    Reports,         \* what a heartbeat may say of a station
    Plans,           \* the plan that is open; NoPlan: none
    StartLists,      \* the athletes and their names
    MaxUpdates       \* bound: changes of what the pages show

NoStation == "none"
Nobody == 0
NoReport == [target |-> "None", programme |-> "", athlete |-> "", active |-> FALSE]
NotHeard == [connection |-> "NotHeard", report |-> NoReport, competition |-> "Unknown"]
NoPlan == [programme |-> "", lanes |-> << >>, status |-> "None"]

ViewsAssumption ==
    /\ IsFiniteSet(RangeLanes) /\ RangeLanes \subseteq Nat \ {0}
    /\ NoStation \notin TargetStations /\ NoPlan \in Plans /\ << >> \in StartLists
    /\ MaxUpdates \in Nat
    /\ \A report \in Reports : report.target # "NotHeard"

VARIABLES
    layout,  \* RangeDefinition: the station of each lane, and whether it is in use
    heard,   \* RangeMonitor: the record of each station
    agenda,  \* MatchPlanService: the plan that is open
    roster,  \* AthleteRegistry: the name of each athlete
    shown,   \* DisplayController
    row,     \* the lane selected on the live range
    tally,   \* changes; ghost moved: the start list has, since the lanes were painted
    screen   \* what the pages show

viewVars == <<layout, heard, agenda, roster, shown, row, tally, screen>>

Controller == INSTANCE RangeDisplay WITH
    DisplayLanes <- RangeLanes, range <- DOMAIN layout, plan <- DOMAIN agenda.lanes,
    display <- shown
-----------------------------------------------------------------------------
(* What there is to show of a lane of the range.                           *)
Device(l) == layout[l].node
Known(n) == heard[n].connection # "NotHeard"
Seen(l) == Device(l) # NoStation /\ Known(Device(l))
Observation(l) == IF Seen(l) THEN heard[Device(l)].report ELSE NoReport
Competition(l) == IF Seen(l) THEN heard[Device(l)].competition ELSE "Unknown"

\* A lane whose station was never heard is offline, not unknown.
Connection(l) ==
    CASE Device(l) = NoStation -> "NoDevice"
      [] Device(l) # NoStation /\ ~Seen(l) -> "Offline"
      [] OTHER -> heard[Device(l)].connection
Online(l) == Seen(l) /\ Connection(l) # "Offline"

StatusText(l) ==
    CASE ~layout[l].enabled -> "OutOfService"
      [] layout[l].enabled /\ Device(l) = NoStation -> "NoDevice"
      [] layout[l].enabled /\ Device(l) # NoStation /\ ~Seen(l) -> "NeverSeen"
      [] layout[l].enabled /\ Seen(l) /\ ~Online(l) -> "Offline"
      [] OTHER -> ""

(* What the plan says of it.                                               *)
InPlan(l) == l \in DOMAIN agenda.lanes
AthleteOn(l) == IF InPlan(l) THEN agenda.lanes[l] ELSE Nobody
NameOf(athlete) == IF athlete \in DOMAIN roster THEN roster[athlete] ELSE ""
PlannedName(l) == NameOf(AthleteOn(l))
PlannedProgramme(l) == IF InPlan(l) THEN agenda.programme ELSE ""

\* Compared only where both sides have said what they shoot.
ProgrammeMatch(l) ==
    CASE \/ agenda.programme = "" \/ ~InPlan(l)
         \/ l \notin DOMAIN layout
         \/ Device(l) = NoStation -> "Unknown"
      [] OTHER ->
            CASE ~Online(l) -> "Offline"
              [] Online(l) /\ Observation(l).programme = "" -> "Unknown"
              [] Online(l) /\ Observation(l).programme = agenda.programme -> "Matches"
              [] OTHER -> "Mismatch"

LaneReadiness(l) ==
    CASE ~InPlan(l) -> "Ready"
      [] InPlan(l) /\ (l \notin DOMAIN layout \/ Device(l) = NoStation) -> "NoDevice"
      [] OTHER ->
            CASE ~Online(l) -> "NodeOffline"
              [] Online(l) /\ Connection(l) = "TargetDisconnected" -> "TargetDisconnected"
              [] Online(l) /\ Connection(l) # "TargetDisconnected" /\ AthleteOn(l) = Nobody ->
                    "NoAthlete"
              [] OTHER -> "Ready"

\* readiness(): of the lanes that take part.  A target that has not said
\* whether it is connected counts as unavailable, and its lane as ready.
Readiness ==
    LET lanes == DOMAIN agenda.lanes
        online == {l \in lanes \cap DOMAIN layout : Online(l)}
        ready == {l \in lanes : LaneReadiness(l) = "Ready"}
        assigned == {l \in lanes : AthleteOn(l) # Nobody}
        complete == agenda.programme # "" /\ lanes # {} /\ assigned = lanes
    IN  [online |-> online, offline |-> lanes \ online,
         targets |-> {l \in online : Connection(l) = "TargetConnected"},
         ready |-> ready, rangeReady |-> lanes # {} /\ ready = lanes,
         planComplete |-> complete, planReady |-> complete /\ agenda.status = "Ready",
         mismatches |-> {l \in lanes : ProgrammeMatch(l) = "Mismatch"}]
-----------------------------------------------------------------------------
(* The rows of the lists.                                                  *)
LaneRow(l) ==
    [device |-> Device(l), enabled |-> layout[l].enabled, online |-> Online(l),
     connection |-> Connection(l), status |-> StatusText(l), observed |-> Observation(l),
     inPlan |-> InPlan(l), programme |-> PlannedProgramme(l), match |-> ProgrammeMatch(l),
     competition |-> Competition(l)]
LaneRows == [l \in DOMAIN layout |-> LaneRow(l)]
PlannedNames == [l \in DOMAIN layout |-> PlannedName(l)]

Summary ==
    LET online == {l \in DOMAIN layout : Online(l)}
    IN  [online |-> online, offline |-> DOMAIN layout \ online,
         unassigned |-> {l \in DOMAIN layout : Device(l) = NoStation},
         active |-> {l \in online : Observation(l).active}]

\* laneDetail: of the lane that is selected.
Detail == IF row \in DOMAIN layout THEN {LaneRow(row)} ELSE {}

PlanRow(l) ==
    [selected |-> InPlan(l), device |-> Device(l), connection |-> Connection(l),
     athlete |-> AthleteOn(l), name |-> PlannedName(l), readiness |-> LaneReadiness(l),
     observed |-> Observation(l).programme, match |-> ProgrammeMatch(l)]
PlanRows == [l \in DOMAIN layout |-> PlanRow(l)]

\* The athlete of the plan is the title; the station's own is kept beside it.
TargetRow(l) ==
    LET observed == Observation(l).athlete
        planned == PlannedName(l)
    IN  [connection |-> Connection(l), status |-> StatusText(l),
         title |-> IF planned # "" THEN planned ELSE observed,
         conflict |-> "" \notin {planned, observed} /\ planned # observed,
         programme |-> PlannedProgramme(l), mismatch |-> ProgrammeMatch(l) = "Mismatch",
         observed |-> Observation(l), competition |-> Competition(l)]
TargetRows == [l \in Controller!OrderNow \cap DOMAIN layout |-> TargetRow(l)]
SingleTarget == IF shown.lane \in DOMAIN layout THEN {TargetRow(shown.lane)} ELSE {}

KnownStations == {n \in TargetStations : Known(n)}
Devices == [n \in KnownStations |-> heard[n]]
Waiting ==
    [n \in {m \in KnownStations : \A l \in DOMAIN layout : Device(l) # m} |-> heard[n]]

AthleteRows ==
    [athlete \in DOMAIN roster |->
        [name |-> roster[athlete],
         lanes |-> {l \in DOMAIN agenda.lanes : agenda.lanes[l] = athlete}]]
-----------------------------------------------------------------------------
(* The signals, and what is painted again at each.                         *)
Pages == {"lanes", "names", "summary", "detail", "home", "review", "plan", "waiting",
          "devices", "athletes", "targets", "single"}
Page(p) ==
    CASE p = "lanes" -> LaneRows
      [] p = "names" -> PlannedNames
      [] p = "summary" -> Summary
      [] p = "detail" -> Detail
      [] p \in {"home", "review"} -> Readiness
      [] p = "plan" -> PlanRows
      [] p = "waiting" -> Waiting
      [] p = "devices" -> Devices
      [] p = "athletes" -> AthleteRows
      [] p = "targets" -> TargetRows
      [] p = "single" -> SingleTarget
Painted(pages) ==
    screen' = [p \in Pages |-> IF p \in pages THEN Page(p)' ELSE screen[p]]

RangeChanged == Painted(Pages \ {"devices", "athletes"})
PlanChanged == Painted(Pages \ {"waiting", "devices"})
\* Nothing tells the list of lanes.
AthletesChanged == Painted({"review", "plan", "athletes", "targets", "single"})

\* Of the lanes, only the one the station is found at.
FoundAt(n, l) ==
    Device(l) = n /\ \A m \in DOMAIN layout : Device(m) = n => l =< m
RowPainted(rows, n, now) ==
    [l \in DOMAIN rows |-> IF FoundAt(n, l) THEN now[l] ELSE rows[l]]
DevicePainted(n) ==
    [m \in DOMAIN screen["devices"] \union {n} |->
        IF m = n THEN heard'[m] ELSE screen["devices"][m]]
NodeChanged(n) ==
    screen' = [p \in Pages |->
                  CASE p \in {"lanes", "names"} -> RowPainted(screen[p], n, Page(p)')
                    [] p = "devices" -> DevicePainted(n)
                    [] p = "athletes" -> screen[p]
                    [] OTHER -> Page(p)']

\* The display's own signal, and the selection on the live range.
DisplayChanged == Painted({"targets", "single"})
RowSelected == Painted({"detail"})

Counted(moved) ==
    /\ tally.updates < MaxUpdates
    /\ tally' = [updates |-> tally.updates + 1, moved |-> moved]
-----------------------------------------------------------------------------
(* RangeMonitor: a datagram, the silence of a station, and a state of the  *)
(* competition that a development tool injects.                            *)
StationHeard ==
    /\ Counted(tally.moved) /\ UNCHANGED <<layout, agenda, roster, shown, row>>
    /\ \E n \in TargetStations, report \in Reports :
          /\ heard' = [heard EXCEPT ![n] = [connection |-> report.target, report |-> report,
                                            competition |-> heard[n].competition]]
          /\ NodeChanged(n)

Relabelled(n, connection, competition) ==
    /\ Counted(tally.moved) /\ UNCHANGED <<layout, agenda, roster, shown, row>>
    /\ heard' = [heard EXCEPT ![n] = [connection |-> connection, report |-> heard[n].report,
                                      competition |-> competition]]
    /\ NodeChanged(n)
StationSilent ==
    \E n \in KnownStations :
        heard[n].connection # "Offline" /\ Relabelled(n, "Offline", heard[n].competition)
CompetitionInjected ==
    \E n \in KnownStations, status \in {"Finished", "Eliminated"} :
        Relabelled(n, heard[n].connection, status)

(* RangeConfigurationService.  Its signal comes whether or not the save    *)
(* succeeds; the display hears it first.                                   *)
RangeEdited ==
    /\ Counted(FALSE) /\ UNCHANGED <<heard, agenda, roster, row>>
    /\ Controller!OnRangeOrPlanChanged /\ RangeChanged

OneStationALane(lanes) ==
    \A l, m \in DOMAIN lanes : lanes[l].node = lanes[m].node => l = m \/ lanes[l].node = NoStation

\* A fixed range has no stations, a temporary one those that are known.
CreateRange ==
    /\ DOMAIN layout = {}
    /\ \E stations \in [RangeLanes -> KnownStations \union {NoStation}] :
          layout' = [l \in RangeLanes |-> [node |-> stations[l], enabled |-> TRUE]]
    /\ OneStationALane(layout') /\ RangeEdited

AssignedAlso ==
    /\ \E n \in TargetStations, lane \in DOMAIN layout :
          Device(lane) = NoStation /\ layout' = [layout EXCEPT ![lane].node = n]
    /\ RangeEdited
AssignNodeToLane ==
    /\ \E n \in TargetStations, lane \in DOMAIN layout :
          /\ Device(lane) = NoStation
          /\ layout' = [l \in DOMAIN layout |->
                           [node |-> CASE l = lane -> n
                                       [] l # lane /\ Device(l) = n -> NoStation
                                       [] OTHER -> Device(l),
                            enabled |-> layout[l].enabled]]
    /\ RangeEdited

LaneEdited(lane, node, enabled) ==
    /\ layout' = [layout EXCEPT ![lane] = [node |-> node, enabled |-> enabled]]
    /\ RangeEdited
ClearLane ==
    \E l \in DOMAIN layout :
        Device(l) # NoStation /\ LaneEdited(l, NoStation, layout[l].enabled)
SetLaneEnabled == \E l \in DOMAIN layout : LaneEdited(l, Device(l), ~layout[l].enabled)

(* MatchPlanService: any edit of the plan, or another plan opened.         *)
PlanEdited ==
    /\ agenda' \in Plans \ {agenda}
    /\ \A l \in DOMAIN agenda'.lanes : agenda'.lanes[l] \in DOMAIN roster \union {Nobody}
    /\ Counted(FALSE) /\ UNCHANGED <<layout, heard, roster, row>>
    /\ Controller!OnRangeOrPlanChanged /\ PlanChanged

(* AthleteRegistry: added, renamed or removed; who is in use stays.        *)
StartListEdited ==
    /\ roster' \in StartLists \ {roster}
    /\ agenda.status # "Archived" =>
          \A l \in DOMAIN agenda.lanes : AthleteOn(l) \in DOMAIN roster' \union {Nobody}
    /\ Counted(TRUE) /\ UNCHANGED <<layout, heard, agenda, shown, row>>
    /\ AthletesChanged

(* The operator looks elsewhere.                                           *)
DisplayMoved ==
    /\ Counted(tally.moved) /\ UNCHANGED <<layout, heard, agenda, roster, row>>
    /\ Controller!Operator /\ shown' # shown /\ DisplayChanged
LaneSelected ==
    /\ Counted(tally.moved) /\ UNCHANGED <<layout, heard, agenda, roster, shown>>
    /\ row' \in DOMAIN layout /\ RowSelected
-----------------------------------------------------------------------------
\* A range, a plan and a start list are loaded; no station is known.  The
\* pages compute what they show as they open.
Loaded(stations) == [l \in DOMAIN stations |-> [node |-> stations[l], enabled |-> TRUE]]
Init ==
    /\ layout \in {<< >>}
           \union {Loaded(s) : s \in [RangeLanes -> TargetStations \union {NoStation}]}
    /\ OneStationALane(layout)
    /\ heard = [n \in TargetStations |-> NotHeard]
    /\ agenda \in Plans /\ roster \in StartLists
    /\ \A l \in DOMAIN agenda.lanes : agenda.lanes[l] \in DOMAIN roster \union {Nobody}
    /\ shown = Controller!ClampSelection(
                  [mode |-> "All", chosen |-> FALSE, lane |-> Controller!NoLane,
                   rotating |-> FALSE,
                   filter |-> IF DOMAIN agenda.lanes = {} THEN "All" ELSE "Participating"],
                  IF DOMAIN agenda.lanes = {} \/ layout = << >> THEN DOMAIN layout
                  ELSE DOMAIN agenda.lanes)
    /\ row = 0 /\ tally = [updates |-> 0, moved |-> FALSE]
    /\ screen = [p \in Pages |-> Page(p)]

Next ==
    \/ StationHeard \/ StationSilent \/ CompetitionInjected
    \/ CreateRange \/ AssignNodeToLane \/ ClearLane \/ SetLaneEnabled
    \/ PlanEdited \/ StartListEdited \/ DisplayMoved \/ LaneSelected

Spec == Init /\ [][Next]_viewVars
-----------------------------------------------------------------------------
\* What a page shows is what it would compute now; but for the name of the
\* planned athlete on the list of lanes, which is as old as the last signal
\* that list has had.
ViewsCurrent ==
    \A p \in Pages : screen[p] = Page(p) \/ (p = "names" /\ tally.moved)
=============================================================================
