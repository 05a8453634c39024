--------------------------- MODULE RangePlanning ----------------------------
(***************************************************************************)
(* The range management prepares matches: the start list                   *)
(* (AthleteRegistry), the match plans (MatchPlanService) and the lanes of  *)
(* the range with their stations (RangeConfigurationService).  Each edits  *)
(* its memory first and then saves a file of its own (RmsJsonStore), whole *)
(* or not at all; a save may fail, and a restart loads what is on disk.    *)
(*                                                                         *)
(* Identities are minted, so that an athlete who is removed does not come  *)
(* back.  The programme of a plan is chosen or not.  m_current is always   *)
(* the entry of m_plans with its identity, and is modelled by that.        *)
(***************************************************************************)
EXTENDS Integers, FiniteSets, Functions

CONSTANTS
    LaneCount,    \* lanes of a fixed range
    Nodes,        \* stations
    MaxAthletes,  \* bound: athletes ever added
    MaxSelected,  \* bound: lanes taking part, in all plans together
    MaxEvents     \* bound: plans ever created, saves that fail, stations on lanes

PlanningAssumption ==
    /\ IsFiniteSet(Nodes)
    /\ {LaneCount, MaxAthletes, MaxSelected, MaxEvents} \subseteq Nat

VARIABLES
    mem,       \* the three services
    disk,      \* their files
    minted,    \* athletes and plans ever made
    failures,  \* saves that failed
    taint      \* ghost: a plan taken out of the archive, files that disagree

pvars == <<mem, disk, minted, failures, taint>>

Lanes == 1 .. LaneCount
Nobody == 0
NoPlan == 0
NoNode == "none"
Unconfigured == << >>
-----------------------------------------------------------------------------
(* Plans.                                                                  *)
NewPlan == [status |-> "Draft", programme |-> FALSE, lanes |-> << >>]
OnLane(plan, athlete) == \E lane \in DOMAIN plan.lanes : plan.lanes[lane] = athlete
HasPlan == mem.current # NoPlan
Current == mem.plans[mem.current]
Configured == mem.range # Unconfigured

\* An edit takes a plan that is ready back to draft.
Edited(plan) == [plan EXCEPT !.status = IF @ = "Ready" THEN "Draft" ELSE @]
EditedLanes(plan, lanes) == Edited([plan EXCEPT !.lanes = lanes])

\* planNameUsingAthlete: archived plans do not count.
InUseNow(athlete) == HasPlan /\ Current.status # "Archived" /\ OnLane(Current, athlete)
InUse(athlete) ==
    \E p \in DOMAIN mem.plans :
        mem.plans[p].status # "Archived" /\ OnLane(mem.plans[p], athlete)
-----------------------------------------------------------------------------
(* Saving.  mem is changed whether or not the save succeeds.               *)
Stations(range) == {lane \in DOMAIN range : range[lane] # NoNode}
Bounded ==
    minted'.plans + failures' + Cardinality(Stations(mem'.range)) <= MaxEvents

Commit(file) ==
    \/ disk' = [part \in DOMAIN disk |-> IF part \in file THEN mem'[part] ELSE disk[part]]
       /\ UNCHANGED failures
    \/ failures' = failures + 1 /\ UNCHANGED disk

AthletesFile == {"athletes"}
PlansFile == {"plans", "current"}
RangeFile == {"range"}

\* A failed save leaves the files to disagree, until a restart meets that.
Tainted == taint' = IF failures' > failures THEN taint \union {"Files"} ELSE taint

CommitPlans == Commit(PlansFile) /\ Tainted /\ UNCHANGED minted
CommitRange == Commit(RangeFile) /\ Tainted /\ UNCHANGED minted

\* The current plan is replaced, and the plans are saved.
Replace(plan) == mem' = [mem EXCEPT !.plans[mem.current] = plan] /\ CommitPlans
-----------------------------------------------------------------------------
(* AthleteRegistry.                                                        *)
AddAthlete ==
    /\ minted.athletes < MaxAthletes
    /\ minted' = [minted EXCEPT !.athletes = @ + 1]
    /\ mem' = [mem EXCEPT !.athletes = @ \union {minted.athletes + 1}]
    /\ Commit(AthletesFile) /\ Tainted

RemoveAthlete ==
    /\ \E athlete \in mem.athletes :
          /\ ~InUse(athlete)
          /\ mem' = [mem EXCEPT !.athletes = @ \ {athlete}]
    /\ Commit(AthletesFile) /\ Tainted /\ UNCHANGED minted

(* MatchPlanService.                                                       *)
CreatePlan ==
    /\ Configured
    /\ minted' = [minted EXCEPT !.plans = @ + 1]
    /\ LET p == minted.plans + 1
       IN  mem' = [mem EXCEPT !.current = p,
                              !.plans = [q \in DOMAIN @ \union {p} |->
                                            IF q = p THEN NewPlan ELSE @[q]]]
    /\ Commit(PlansFile) /\ Tainted

OpenPlan ==
    /\ \E p \in DOMAIN mem.plans : mem' = [mem EXCEPT !.current = p]
    /\ CommitPlans

DeletePlan ==
    /\ \E p \in DOMAIN mem.plans :
          /\ mem.plans[p].status # "Ready"
          /\ mem' = [mem EXCEPT !.plans = Restrict(@, DOMAIN @ \ {p}),
                                !.current = IF @ = p THEN NoPlan ELSE @]
    /\ CommitPlans

ArchivePlan ==
    /\ \E p \in DOMAIN mem.plans : mem' = [mem EXCEPT !.plans[p].status = "Archived"]
    /\ CommitPlans

RenamePlan == HasPlan /\ UNCHANGED mem /\ CommitPlans

SetProgramme == HasPlan /\ Replace(Edited([Current EXCEPT !.programme = TRUE]))

\* A lane is added without an athlete.
Add(lanes) == [lane \in lanes \union DOMAIN Current.lanes |->
                  IF lane \in lanes THEN Nobody ELSE Current.lanes[lane]]
Selected == UNION {{p} \X DOMAIN mem.plans[p].lanes : p \in DOMAIN mem.plans}
Room(n) == Cardinality(Selected) + n <= MaxSelected

SelectLane ==
    /\ HasPlan
    /\ \E lane \in DOMAIN mem.range \ DOMAIN Current.lanes :
          Room(1) /\ Replace(EditedLanes(Current, Add({lane})))
DeselectLane ==
    /\ HasPlan
    /\ \E lane \in DOMAIN mem.range \cap DOMAIN Current.lanes :
          Replace(EditedLanes(Current, Restrict(Current.lanes, DOMAIN Current.lanes \ {lane})))

\* online: the stations that the monitor sees.
SelectAllOnlineLanes ==
    /\ HasPlan
    /\ \E online \in SUBSET Nodes :
       LET lanes == {lane \in DOMAIN mem.range : mem.range[lane] \in online} \ DOMAIN Current.lanes
       IN  lanes # {} /\ Room(Cardinality(lanes)) /\ Replace(EditedLanes(Current, Add(lanes)))

ClearLaneSelection == HasPlan /\ Replace(EditedLanes(Current, << >>))

\* One athlete, one lane.
Assignable(athlete, lane) ==
    /\ lane \in DOMAIN Current.lanes /\ athlete \in mem.athletes
    /\ \A other \in DOMAIN Current.lanes \ {lane} : Current.lanes[other] # athlete
AssignAthlete ==
    /\ HasPlan
    /\ \E athlete \in mem.athletes, lane \in Lanes :
          /\ Assignable(athlete, lane)
          /\ Replace(EditedLanes(Current, [Current.lanes EXCEPT ![lane] = athlete]))
ClearAthlete ==
    /\ HasPlan
    /\ \E lane \in DOMAIN Current.lanes :
          /\ Current.lanes[lane] # Nobody
          /\ Replace(EditedLanes(Current, [Current.lanes EXCEPT ![lane] = Nobody]))

\* A plan that is ready is complete.  Nothing keeps an archived plan from
\* being marked, and its athletes may be gone.
CompleteSomewhere(plan) ==
    plan.programme /\ \E lane \in DOMAIN plan.lanes : plan.lanes[lane] # Nobody
Complete(plan) ==
    /\ plan.programme /\ DOMAIN plan.lanes # {}
    /\ ~OnLane(plan, Nobody)
Mark(status) ==
    /\ mem' = [mem EXCEPT !.plans[mem.current].status = status]
    /\ Commit(PlansFile) /\ UNCHANGED minted
    /\ taint' = taint \union (IF failures' > failures THEN {"Files"} ELSE {})
                      \union (IF Current.status = "Archived" THEN {"Archive"} ELSE {})
MarkReady == HasPlan /\ Complete(Current) /\ Mark("Ready")
MarkDraft == HasPlan /\ Mark("Draft")

(* RangeConfigurationService; the first-run page configures the range.     *)
CreateRange ==
    /\ ~Configured
    /\ \/ mem' = [mem EXCEPT !.range = [lane \in Lanes |-> NoNode]]
       \/ \E n \in Lanes : \E range \in [1 .. n -> Nodes] :
             IsInjective(range) /\ mem' = [mem EXCEPT !.range = range]
    /\ CommitRange

LanesOf(node) == {lane \in DOMAIN mem.range : mem.range[lane] = node}
AssignNodeToLane ==
    /\ \E node \in Nodes, lane \in LanesOf(NoNode) :
          mem' = [mem EXCEPT !.range =
                     [other \in DOMAIN @ |-> CASE other = lane -> node
                                               [] other \in LanesOf(node) -> NoNode
                                               [] OTHER -> @[other]]]
    /\ CommitRange
ClearLane ==
    /\ \E lane \in DOMAIN mem.range \ LanesOf(NoNode) :
          mem' = [mem EXCEPT !.range[lane] = NoNode]
    /\ CommitRange

\* The program is started again: each service loads its file.
Load ==
    /\ mem' = disk
    /\ taint' = IF "Files" \in taint THEN taint \union {"Loaded"} ELSE taint
    /\ UNCHANGED <<disk, minted, failures>>
-----------------------------------------------------------------------------
Empty == [athletes |-> {}, plans |-> << >>, current |-> NoPlan, range |-> Unconfigured]
Init == /\ mem = Empty /\ disk = Empty /\ taint = {} /\ failures = 0
        /\ minted = [athletes |-> 0, plans |-> 0]

Services ==
        \/ AddAthlete \/ RemoveAthlete
        \/ CreatePlan \/ OpenPlan \/ DeletePlan \/ ArchivePlan \/ RenamePlan
        \/ SetProgramme \/ SelectLane \/ DeselectLane \/ SelectAllOnlineLanes
        \/ ClearLaneSelection \/ AssignAthlete \/ ClearAthlete \/ MarkReady \/ MarkDraft
        \/ CreateRange \/ AssignNodeToLane \/ ClearLane \/ Load
Next == Services /\ Bounded

Spec == Init /\ [][Next]_pvars
-----------------------------------------------------------------------------
(* Properties.                                                             *)
\* A plan that is ready has a programme, lanes, and an athlete for each.
ReadyIsComplete(s) ==
    \A p \in DOMAIN s.plans :
        s.plans[p].status = "Ready" =>
            /\ s.plans[p].programme /\ s.plans[p].lanes # << >>
            /\ Nobody \notin Range(s.plans[p].lanes)

\* Nobody is on two lanes of a plan, no station on two of the range.
NoneTwice(s) ==
    /\ \A p \in DOMAIN s.plans : \A l, m \in DOMAIN s.plans[p].lanes :
          s.plans[p].lanes[l] = s.plans[p].lanes[m] => l = m \/ s.plans[p].lanes[l] = Nobody
    /\ \A l, m \in DOMAIN s.range : s.range[l] = s.range[m] => l = m \/ s.range[l] = NoNode

\* Who is on a lane of a plan in use is on the start list.
AthletesExist(s) ==
    \A p \in DOMAIN s.plans :
        s.plans[p].status # "Archived" => Range(s.plans[p].lanes) \subseteq s.athletes \union {Nobody}

\* All that holds in memory and of the files, unless a plan came out of the
\* archive, or a save failed and the files were loaded.
PlansSound ==
    /\ ReadyIsComplete(mem) /\ NoneTwice(mem) /\ ReadyIsComplete(disk) /\ NoneTwice(disk)
    /\ taint \subseteq {"Files"} => AthletesExist(mem)
    /\ taint = {} => AthletesExist(disk)
=============================================================================
