----------------------------- MODULE WindReview -----------------------------
(***************************************************************************)
(* What a Wind Map session is told afterwards: WindMapAnalyticsEngine      *)
(* groups the counted shots of each position by the recorded condition and *)
(* WindMapVerdictEngine compares the groups; the controller caches the     *)
(* projection that the page shows.                                         *)
(*                                                                         *)
(* Coordinates are whole millimetres.  A mean is kept as its sum, a square *)
(* root is taken of whole numbers only; the wording, the bearing of a      *)
(* shift and the spread of the scores are left out.                        *)
(***************************************************************************)
EXTENDS Integers, FiniteSets, SequencesExt, FiniteSetsExt

CONSTANTS
    MaxStrings,     \* bound: strings of shots in a session, one fewer in 3 positions
    MaxFires,       \* bound: its shots
    MaxMoves,       \* bound: changes of position
    ShownStrings    \* bound: strings of a session that is analysed before its end

ReviewAssumption == {MaxStrings, MaxFires, MaxMoves, ShownStrings} \subseteq Nat
-----------------------------------------------------------------------------
(* Conditions and how they are named.                                      *)
NoReading == [valid |-> FALSE, calm |-> FALSE, deg |-> 0, speed |-> 0]
Calm == [NoReading EXCEPT !.valid = TRUE, !.calm = TRUE]
Measured(deg, speed) == [valid |-> TRUE, calm |-> FALSE, deg |-> deg, speed |-> speed]

\* Eight sectors; the shift of half a sector is rounded down.
Sector(deg) == ((deg + 360 + 22) % 360) \div 45
\* Each boundary belongs to the lower band; 0 is a recorded calm.
SpeedBand(w) == IF w.calm THEN 0 ELSE 1 + Cardinality({b \in {200, 400, 700} : w.speed > b})

\* What makes two conditions the same; the time and the note do not.
SameCondition(v, w) ==
    /\ v.valid = w.valid
    /\ v.valid => v.calm = w.calm /\ (v.calm \/ (v.deg = w.deg /\ v.speed = w.speed))

\* The identity of a group.  NoKey is also what a key is before it is filled in.
NoKey == <<"no reading">>
KeyFor(w, mode) ==
    CASE ~w.valid -> NoKey
      [] w.valid /\ w.calm -> <<"calm">>
      [] OTHER -> CASE mode = "direction" -> <<mode, Sector(w.deg)>>
                    [] mode = "band" -> <<mode, SpeedBand(w)>>
                    [] mode = "exact" -> <<mode, w.deg, w.speed>>
\* The name of a group says the sector of a measured wind, not its degrees, and
\* its speed in tenths.
Label(key) == IF key[1] = "exact" THEN <<Sector(key[2]), (key[3] + 5) \div 10>> ELSE key

\* Where the wind comes from, seen by the athlete; 8 is unknown.
RelativeWind(deg, firing) ==
    IF firing < 0 THEN 8 ELSE ((((deg - firing) % 360) + 22) % 360) \div 45
-----------------------------------------------------------------------------
(* Statistics of a group.                                                  *)
MinForCentre == 3
MinForDispersion == 5
MinForComparison == 5
RingSpacing == 8    \* both disciplines are 50 m rifle

SumOf(seq, Val(_)) ==
    LET sum[i \in 0 .. Len(seq)] == IF i = 0 THEN 0 ELSE sum[i - 1] + Val(seq[i])
    IN sum[Len(seq)]
Square(x) == x * x
Distance2(x, y) == Square(x) + Square(y)
\* The largest k with k * k <= n, which Newton's steps reach from above.
Root(n) ==
    LET from[k \in Nat] == IF Square(k) <= n THEN k ELSE from[(k + n \div k) \div 2]
    IN from[Min({n, 46340})]
Extent(values) == Max(values) - Min(values)

Evidence(n) == CASE n < MinForCentre -> "Insufficient"
                 [] n \in MinForCentre .. MinForDispersion - 1 -> "Indicative"
                 [] n \in MinForDispersion .. 9 -> "Sufficient"
                 [] OTHER -> "Strong"

\* The centre is <<sx, sy>> / n, the mean radius radii / n^2, the radial RMS
\* dispersion the root of rms / (n * (n - 1)).
StatsFor(members, key) ==
    LET n == Len(members)
        sx == SumOf(members, LAMBDA e : e.x)
        sy == SumOf(members, LAMBDA e : e.y)
        At(e) == <<e.x, e.y>>
    IN [key |-> key, label |-> Label(key), n |-> n, evidence |-> Evidence(n),
        hasMpi |-> n >= MinForCentre, hasDispersion |-> n >= MinForDispersion,
        sx |-> sx, sy |-> sy,
        radii |-> SumOf(members, LAMBDA e : Root(Distance2(n * e.x - sx, n * e.y - sy))),
        rms |-> n * SumOf(members, LAMBDA e : Distance2(e.x, e.y)) - Distance2(sx, sy),
        diameter2 |-> Max({Distance2(d.x - e.x, d.y - e.y) : d, e \in ToSet(members)}),
        horizontal |-> Extent({e.x : e \in ToSet(members)}),
        vertical |-> Extent({e.y : e \in ToSet(members)})]

\* One group for each key of the counted shots, the largest first.
Group(mine, mode) ==
    LET counted == SelectSeq(mine, LAMBDA e : ~e.sighter)
        keys == FoldLeft(LAMBDA ks, e : IF KeyFor(e.wind, mode) \in ToSet(ks) THEN ks
                                        ELSE Append(ks, KeyFor(e.wind, mode)), <<>>, counted)
        Members(k) == SelectSeq(counted, LAMBDA e : KeyFor(e.wind, mode) = k)
        groups == [i \in DOMAIN keys |-> StatsFor(Members(keys[i]), keys[i])]
        Sized(n) == SelectSeq(groups, LAMBDA g : g.n = n)
    IN FlattenSeq([i \in DOMAIN counted |-> Sized(Len(counted) + 1 - i)])

\* The first element that answers to Test, as a sequence of at most one.
FirstOf(seq, Test(_)) == LET found == SelectSeq(seq, Test)
                         IN IF found = <<>> THEN <<>> ELSE <<found[1]>>
-----------------------------------------------------------------------------
(* What a group is compared with.                                          *)
NoReference == [kind |-> "None", key |-> NoKey, label |-> <<"">>, valid |-> FALSE, n |-> 0,
                sx |-> 0, sy |-> 0]
FromGroup(g, kind) == [kind |-> kind, key |-> g.key, label |-> g.label, valid |-> g.hasMpi,
                       n |-> g.n, sx |-> g.sx, sy |-> g.sy]

\* The calm group, or else the largest with a reading, or else all counted
\* shots: that reference leaves its key unfilled.
ChooseReference(exact, counted) ==
    LET Enough(g) == g.n >= MinForComparison
        calm == FirstOf(exact, LAMBDA g : g.key = <<"calm">> /\ Enough(g))
        largest == FirstOf(exact, LAMBDA g : g.key # NoKey /\ Enough(g))
    IN CASE calm # <<>> -> FromGroup(calm[1], "CalmGroup")
         [] calm = <<>> /\ largest # <<>> -> FromGroup(largest[1], "MostPopulated")
         [] OTHER ->
              IF Len(counted) < MinForCentre THEN NoReference
              ELSE [NoReference EXCEPT !.kind = "SessionCentre", !.label = <<"Session centre">>,
                                       !.valid = TRUE, !.n = Len(counted),
                                       !.sx = SumOf(counted, LAMBDA e : e.x),
                                       !.sy = SumOf(counted, LAMBDA e : e.y)]

\* Both sides need enough shots.  dx and dy are in units of 1 / (n * referenceN).
ShiftOf(g, ref) ==
    LET holds == ref.valid /\ g.hasMpi /\ g.n >= MinForComparison /\ ref.n >= MinForComparison
    IN [key |-> g.key, label |-> g.label, n |-> g.n, referenceN |-> ref.n, valid |-> holds,
        evidence |-> g.evidence,
        dx |-> IF holds THEN g.sx * ref.n - ref.sx * g.n ELSE 0,
        dy |-> IF holds THEN g.sy * ref.n - ref.sy * g.n ELSE 0,
        needed |-> IF holds THEN 0 ELSE Max({0, MinForComparison - g.n})]
\* The shift is at least mm long.
ShiftReaches(v, mm) == Distance2(v.dx, v.dy) >= Square(mm * v.n * v.referenceN)

\* One position by itself.
AnalysePosition(mine, pos) ==
    LET counted == SelectSeq(mine, LAMBDA e : ~e.sighter)
        exact == Group(mine, "exact")
        ref == ChooseReference(exact, counted)
        compared == SelectSeq(exact, LAMBDA g : ~(ref.valid /\ g.key = ref.key))
    IN [position |-> pos, countedShots |-> Len(counted),
        sighterShots |-> Len(mine) - Len(counted),
        overall |-> IF Len(counted) < MinForCentre THEN <<>>
                    ELSE <<SumOf(counted, LAMBDA e : e.x), SumOf(counted, LAMBDA e : e.y)>>,
        byDirection |-> Group(mine, "direction"), bySpeedBand |-> Group(mine, "band"),
        byExact |-> exact, reference |-> ref,
        shifts |-> [i \in DOMAIN compared |-> ShiftOf(compared[i], ref)]]

\* The flags of the timeline: a new condition, and the first counted shot.
TimelineOf(fires) ==
    [i \in DOMAIN fires |->
        [conditionChanged |-> i > 1 /\ ~SameCondition(fires[i - 1].wind, fires[i].wind),
         phaseChanged |-> ~fires[i].sighter /\ \A j \in 1 .. i - 1 : fires[j].sighter]
        @@ fires[i]]

\* The whole session.  Positions are never pooled; one without shots is left out.
Analyse(fires, threeP) ==
    LET Counted(Test(_)) == Len(SelectSeq(fires, LAMBDA e : ~e.sighter /\ Test(e.wind)))
        Mine(pos) == SelectSeq(fires, LAMBDA e : e.pos = pos)
        places == SelectSeq(IF threeP THEN <<1, 2, 3>> ELSE <<0>>, LAMBDA p : Mine(p) # <<>>)
        counted == SelectSeq(fires, LAMBDA e : ~e.sighter)
    IN [threeP |-> threeP, countedShots |-> Len(counted),
        sighterShots |-> Len(fires) - Len(counted),
        withReading |-> Counted(LAMBDA w : w.valid /\ ~w.calm), calm |-> Counted(LAMBDA w : w.calm),
        noReading |-> Counted(LAMBDA w : ~w.valid),
        uniqueConditions |-> Cardinality({KeyFor(e.wind, "exact") : e \in ToSet(counted)}),
        timeline |-> TimelineOf(fires),
        positions |-> [i \in DOMAIN places |-> AnalysePosition(Mine(places[i]), places[i])]]
-----------------------------------------------------------------------------
(* Findings: the first vocabulary, still shown.                            *)
Finding(category, scope, pos, n, needed) ==
    <<[category |-> category, scope |-> scope, position |-> pos, n |-> n, needed |-> needed]>>

\* The sizes of the described groups differ by less than 1.3, and no centre is
\* 3 mm off.
SimilarGroups(p, solid) ==
    LET sizes == {g.diameter2 : g \in ToSet(solid)}
    IN /\ Len(solid) >= 2 /\ Min(sizes) > 0 /\ 100 * Max(sizes) < 169 * Min(sizes)
       /\ \A v \in ToSet(p.shifts) : v.valid => ~ShiftReaches(v, 3)

FindingOfShift(v, p) ==
    LET g == FirstOf(p.byExact, LAMBDA c : c.key = v.key)[1]
    IN CASE ~v.valid /\ v.needed > 0 ->
              Finding("InsufficientSample", "Condition", p.position, v.n, v.needed)
         [] v.valid /\ g.hasDispersion /\ ShiftReaches(v, 3) /\ g.diameter2 <= Square(25) ->
              Finding("TightButOffset", "Condition", p.position, v.n, 0)
         [] OTHER -> <<>>

\* The reference is looked up by its key, an unfilled one too.
WiderThanReference(p) ==
    LET ref == FirstOf(p.byExact, LAMBDA g : g.key = p.reference.key)
    IN IF ref = <<>> \/ ~ref[1].hasDispersion THEN <<>>
       ELSE SelectSeq(p.byExact, LAMBDA g : g.hasDispersion /\ g.key # ref[1].key
                                            /\ 2 * g.horizontal > 3 * ref[1].horizontal)

FindingsOfPosition(p) ==
    LET solid == SelectSeq(p.byExact, LAMBDA g : g.hasDispersion)
        wider == WiderThanReference(p)
    IN IF p.countedShots < MinForCentre
       THEN Finding("InsufficientSample", "Position", p.position, p.countedShots,
                    MinForCentre - p.countedShots)
       ELSE (IF SimilarGroups(p, solid)
             THEN Finding("SimilarAcrossConditions", "Position", p.position, p.countedShots, 0)
             ELSE <<>>)
            \o FlattenSeq([i \in DOMAIN p.shifts |-> FindingOfShift(p.shifts[i], p)])
            \o FlattenSeq([i \in DOMAIN wider |->
                            Finding("WiderUnderCondition", "Condition", p.position, wider[i].n, 0)])
            \o (IF solid # <<>> /\ \A g \in ToSet(solid) : g.diameter2 > Square(40)
                THEN Finding("WideAcrossAllConditions", "Position", p.position, p.countedShots, 0)
                ELSE <<>>)

\* The position with the group that is largest by Size, if any group has a size.
WidestPosition(a, Size(_)) ==
    LET Described(p) == SelectSeq(p.byExact, LAMBDA g : g.hasDispersion)
        sizes == UNION {{Size(g) : g \in ToSet(Described(p))} : p \in ToSet(a.positions)}
    IN IF ~a.threeP \/ Len(a.positions) < 2 \/ sizes \subseteq {0} THEN <<>>
       ELSE FirstOf(a.positions, LAMBDA p : \E g \in ToSet(Described(p)) : Size(g) = Max(sizes))

DeriveFindings(a) ==
    LET widest == WidestPosition(a, LAMBDA g : g.diameter2)
        all == FlattenSeq([i \in DOMAIN a.positions |-> FindingsOfPosition(a.positions[i])])
               \o (IF widest = <<>> THEN <<>>
                   ELSE Finding("PositionSpecificDifference", "Session", 0,
                                widest[1].countedShots, 0))
    IN IF all # <<>> THEN all
       ELSE Finding("SimilarAcrossConditions", "Session", 0, a.countedShots, 0)
-----------------------------------------------------------------------------
(* Verdicts: the vocabulary that replaced the findings on the page.  They  *)
(* look a group up by its label and measure it by its radial RMS.          *)
GroupFor(p, label) == FirstOf(p.byExact, LAMBDA g : g.label = label)

\* The shift is 3 mm or more and no less than the mean radius of the reference.
Meaningful(v, refGroup) ==
    /\ ShiftReaches(v, 3)
    /\ Root(Distance2(v.dx, v.dy)) * Square(refGroup.n) >= refGroup.radii * v.n * v.referenceN
\* The radial RMS of g is at most (Compact) or at least (Wider) num / den of ref's.
Scaled(g, other) == g.rms * other.n * (other.n - 1)
Compact(g, ref) ==
    g.hasDispersion /\ ref.rms > 0 /\ 16 * Scaled(g, ref) <= 25 * Scaled(ref, g)
Wider(g, ref) ==
    g.hasDispersion /\ ref.rms > 0 /\ 4 * Scaled(g, ref) >= 9 * Scaled(ref, g)
\* One and a half rings.
Elevated(g) == 4 * g.rms >= 9 * Square(RingSpacing) * g.n * (g.n - 1)

Verdict(category, scope, priority, p, compared, n, evidence) ==
    <<[category |-> category, scope |-> scope, priority |-> priority, position |-> p.position,
       compared |-> compared, n |-> n, evidence |-> evidence,
       reference |-> IF p.reference.valid THEN <<p.reference.label, p.reference.n>> ELSE <<>>]>>

\* One condition against the reference; in the gap between Compact and Wider
\* nothing is said.
VerdictOfShift(v, p, refGroup) ==
    LET g == GroupFor(p, v.label)[1]
    IN CASE ~v.valid -> IF v.needed = 0 THEN <<>>
                        ELSE Verdict("InsufficientSample", "Condition", 1, p, v.label, v.n,
                                     "Insufficient")
         [] v.valid /\ Meaningful(v, refGroup) /\ Compact(g, refGroup) ->
              Verdict("CompactButOffset", "Condition", 3, p, v.label, v.n, "Comparative")
         [] v.valid /\ ~(Meaningful(v, refGroup) /\ Compact(g, refGroup)) /\ Wider(g, refGroup) ->
              Verdict("WiderUnderCondition", "Condition", 4, p, v.label, v.n, "Comparative")
         [] OTHER -> <<>>

\* What is compared with a reference that can be described.
ComparisonsOf(p, refGroup, describable, comparable) ==
    (IF Len(describable) >= 2 /\ \A g \in ToSet(describable) : Elevated(g)
     THEN Verdict("WideAcrossConditions", "Position", 5, p, <<>>, p.countedShots, "Comparative")
     ELSE <<>>)
    \o (IF Len(comparable) = 1 /\ p.shifts = <<>>
        THEN Verdict("NoValidComparison", "Condition", 8, p, refGroup.label, refGroup.n,
                     "Indicative")
        ELSE <<>>)
    \o FlattenSeq([i \in DOMAIN p.shifts |-> VerdictOfShift(p.shifts[i], p, refGroup)])
    \o (IF /\ Len(comparable) >= 2
           /\ \A v \in ToSet(p.shifts) :
                v.valid => /\ ~Meaningful(v, refGroup)
                           /\ Compact(GroupFor(p, v.label)[1], refGroup)
                           /\ ~Wider(GroupFor(p, v.label)[1], refGroup)
        THEN Verdict("SimilarAcrossConditions", "Position", 6, p, <<>>, p.countedShots,
                     "Comparative")
        ELSE <<>>)

VerdictsOfPosition(p) ==
    LET refGroup == IF p.reference.valid THEN GroupFor(p, p.reference.label) ELSE <<>>
        describable == SelectSeq(p.byExact, LAMBDA g : g.hasDispersion)
        comparable == SelectSeq(p.byExact, LAMBDA g : g.n >= MinForComparison /\ g.hasMpi)
        None(category, priority, evidence) ==
            Verdict(category, "Position", priority, p, <<>>, 0, evidence)
    IN CASE p.countedShots < MinForDispersion -> None("InsufficientSample", 1, "Insufficient")
         [] p.countedShots >= MinForDispersion /\ Len(p.byExact) >= 3 /\ comparable = <<>> ->
              None("FragmentedData", 2, "Insufficient")
         [] OTHER ->
              IF refGroup = <<>> \/ ~refGroup[1].hasDispersion
              THEN None("NoValidComparison", 8,
                        IF describable = <<>> THEN "Insufficient" ELSE "Indicative")
              ELSE ComparisonsOf(p, refGroup[1], describable, comparable)

\* The radial RMS of a group, in hundredths of a millimetre, for ranking.
RmsRank(g) == Root((10000 * (g.rms \div (g.n - 1))) \div g.n)

\* All verdicts; those of equal priority stay in their order.  The position of a
\* verdict is the one it names, also in the verdict on the session.
Evaluate(a) ==
    LET widest == WidestPosition(a, RmsRank)
        all == FlattenSeq([i \in DOMAIN a.positions |-> VerdictsOfPosition(a.positions[i])])
               \o (IF widest = <<>> THEN <<>>
                   ELSE <<[category |-> "PositionSpecificDifference", scope |-> "Session",
                           priority |-> 7, position |-> widest[1].position,
                           compared |-> <<>>,
                           n |-> widest[1].countedShots, evidence |-> "Indicative",
                           reference |-> <<>>]>>)
    IN FlattenSeq([priority \in 1 .. 8 |-> SelectSeq(all, LAMBDA v : v.priority = priority)])
-----------------------------------------------------------------------------
(* The session that is reviewed, and the projection that is cached.        *)
VARIABLE review

Setup == 1
Sighters == 2
CountedShots == 3
PositionReview == 4
SessionReview == 5
Completed == 6

\* windMapTransitionAllowed, the completion left to CompleteSession.
TransitionAllowed(from, to, threeP) ==
    \/ from = Setup /\ to \in {Sighters, CountedShots}
    \/ from = Sighters /\ to = CountedShots
    \/ from = CountedShots /\ (to = SessionReview \/ (threeP /\ to = PositionReview))
    \/ from = PositionReview /\ threeP /\ to \in {Sighters, CountedShots, SessionReview}

NoReview == [phase |-> 0, threeP |-> FALSE, pos |-> 0, fires |-> <<>>, strings |-> 0,
             moves |-> 0, changes |-> 0, firing |-> -1, key |-> <<>>, model |-> <<>>]

\* analysisCacheKey; one session, so its id is left out.
CacheKey(r) == <<Len(r.fires), r.phase, r.changes, r.firing>>
Cleared(r) == [r EXCEPT !.key = <<>>, !.model = <<>>]

\* What the page is given of an analysis.
Project(r, a) ==
    LET Relative(w) == IF w.valid /\ ~w.calm THEN RelativeWind(w.deg, r.firing) ELSE 8
    IN [completed |-> r.phase = Completed, conditionEntries |-> r.changes, firing |-> r.firing,
        analysis |-> a, verdicts |-> Evaluate(a), findings |-> DeriveFindings(a),
        relativeWind |-> [i \in DOMAIN r.fires |-> Relative(r.fires[i].wind)]]

\* Strings of shots: patterns around the centre, or beside it.
Cross(size) == <<<<size, 0>>, <<-size, 0>>, <<0, size>>, <<0, -size>>, <<0, 0>>>>
Patterns == [tight |-> Cross(2),
             moved |-> [i \in 1 .. 5 |-> <<Cross(2)[i][1] + 7, Cross(2)[i][2] + 1>>],
             loose |-> <<<<3, 0>>, <<-3, 0>>, <<0, 2>>, <<0, -2>>, <<0, 0>>>>,
             wide |-> Cross(14),
             few |-> <<<<2, 0>>, <<0, -2>>>>]
Strings == (({Calm} \X {"tight", "wide", "few"})
            \cup ({Measured(265, 250)} \X {"moved", "loose", "wide", "few"})
            \cup ({Measured(275, 250)} \X {"tight", "few"})
            \cup ({NoReading} \X {"moved", "few"}))
SighterStrings == {Calm} \X {"tight", "wide"}
-----------------------------------------------------------------------------
(* Operations.                                                             *)
ReviewInit == review = NoReview

StartReview ==
    /\ review = NoReview
    /\ \E threeP \in BOOLEAN :
        review' = [NoReview EXCEPT !.phase = Setup, !.threeP = threeP,
                                   !.pos = IF threeP THEN 1 ELSE 0]

\* applyCondition: the condition is recorded, though it is the same as before.
PressCondition ==
    /\ review.phase \in {Sighters, CountedShots, PositionReview, SessionReview}
    /\ review.strings <= ShownStrings /\ review.changes < ShownStrings + 1
    /\ review' = [review EXCEPT !.changes = @ + 1]

\* The athlete records a condition and fires a string of shots under it.
FireString ==
    /\ review.phase \in {Sighters, CountedShots}
    /\ review.strings < IF review.model # <<>> THEN ShownStrings
                        ELSE MaxStrings - (IF review.threeP THEN 1 ELSE 0)
    /\ \E string \in IF review.phase = Sighters THEN SighterStrings ELSE Strings :
        LET Shot(at) == [x |-> at[1], y |-> at[2], wind |-> string[1], pos |-> review.pos,
                         sighter |-> review.phase = Sighters]
            marks == Patterns[string[2]]
        IN /\ Len(review.fires) + Len(marks) <= MaxFires
           /\ review' = [review EXCEPT
                !.fires = @ \o [i \in DOMAIN marks |-> Shot(marks[i])],
                !.changes = @ + 1, !.strings = @ + 1]

\* beginSighters, finishSighters, beginCountedShots, endPosition, endCapture.
GoToPhase ==
    \E to \in Sighters .. SessionReview :
        /\ TransitionAllowed(review.phase, to, review.threeP)
        /\ review' = [review EXCEPT !.phase = to]

ChangePosition ==
    /\ review.threeP /\ review.phase = PositionReview
    /\ review.moves < MaxMoves
    /\ \E to \in 1 .. 3 :
        to # review.pos /\ review' = [review EXCEPT !.pos = to, !.moves = @ + 1]

CompleteSession ==
    review.phase = SessionReview /\ review' = [review EXCEPT !.phase = Completed]

\* setFiringDirection and clearFiringDirection.
SetFiringDirection ==
    /\ review.strings = ShownStrings /\ review.phase \in {SessionReview, Completed}
    /\ \E degrees \in {-1, 90} :
        degrees # review.firing /\ review' = [Cleared(review) EXCEPT !.firing = degrees]

\* analysisModel: the cached projection, or a new one that is then cached.
AnalysisModel ==
    /\ review.phase # 0 /\ (review.strings <= ShownStrings \/ review.phase = Completed)
    /\ ~(review.key = CacheKey(review) /\ review.model # <<>>)
    /\ \E a \in {Analyse(review.fires, review.threeP)} :
        review' = [review EXCEPT !.key = CacheKey(review), !.model = Project(review, a)]

\* The direction stays with the controller.
CloseSessionCleanly ==
    review.phase # 0 /\ review' = [NoReview EXCEPT !.firing = review.firing]

ReviewNext ==
    \/ StartReview \/ PressCondition \/ FireString \/ GoToPhase \/ ChangePosition
    \/ CompleteSession \/ SetFiringDirection \/ AnalysisModel \/ CloseSessionCleanly

ReviewSpec == ReviewInit /\ [][ReviewNext]_review
-----------------------------------------------------------------------------
(* Properties.                                                             *)
\* A sector is the nearest of the eight: no degree is 23 or more from its middle.
NearestSector ==
    \A deg \in 0 .. 359 :
        LET off == (deg - 45 * Sector(deg) + 360) % 360 IN off <= 22 \/ off >= 338

\* The projection that is served is the one of the session as it stands.
CacheFresh ==
    \A a \in {Analyse(review.fires, review.threeP)} : review.model = Project(review, a)

\* The counted shots of a position and the conditions they were fired under,
\* a condition being what was recorded and not its name.
ShotsOf(pos) == SelectSeq(review.fires, LAMBDA e : ~e.sighter /\ e.pos = pos)
Conditions(pos) == {e.wind : e \in ToSet(ShotsOf(pos))}
Under(pos, w) == SelectSeq(ShotsOf(pos), LAMBDA e : e.wind = w)
Described(pos) == {w \in Conditions(pos) : Len(Under(pos, w)) >= MinForComparison}
Name(w) == Label(KeyFor(w, "exact"))
NamesTellApart(pos) ==
    \A v, w \in Conditions(pos) : Name(v) = Name(w) => v = w

\* The spread of shots, from their distances to one another: n * (n - 1) times
\* the square of their radial RMS.  SizeBeside weighs it for a comparison.
Spread(s) ==
    MapThenSumSet(LAMBDA ij : Distance2(s[ij[1]].x - s[ij[2]].x, s[ij[1]].y - s[ij[2]].y),
                  {ij \in (DOMAIN s) \X (DOMAIN s) : ij[1] < ij[2]})
SizeBeside(s, r) == Spread(s) * Len(r) * (Len(r) - 1)
Within125(s, r) == Spread(r) > 0 /\ 16 * SizeBeside(s, r) <= 25 * SizeBeside(r, s)
HalfAgainAsWide(s, r) == Spread(r) > 0 /\ 4 * SizeBeside(s, r) >= 9 * SizeBeside(r, s)
RingAndAHalf(s) == Spread(s) * 4 >= 9 * Square(RingSpacing) * Len(s) * (Len(s) - 1)

\* The centre of s lies 3 mm or more from that of r, and no less than a shot of
\* r does on average.  The length of a sum of differences, of n * m pairs or of
\* one shot with the m of its group.
Apart(s, r) ==
    LET Along(axis(_)) == MapThenSumSet(LAMBDA ij : axis(s[ij[1]]) - axis(r[ij[2]]),
                                        (DOMAIN s) \X (DOMAIN r))
    IN Distance2(Along(LAMBDA e : e.x), Along(LAMBDA e : e.y))
OffCentre(s, r) ==
    LET pairs == Len(s) * Len(r)
        radii == MapThenSumSet(LAMBDA j : Root(Apart(<<r[j]>>, r)), DOMAIN r)
    IN /\ Apart(s, r) >= Square(3 * pairs)
       /\ Root(Apart(s, r)) * Square(Len(r)) >= radii * pairs

\* A position is told what its shots show, all of it and nothing else, group by
\* group.  In the gap between 1.25 and 1.5 the code says nothing of a size, and
\* a group far smaller than the reference counts as similar to it.
Told(verdicts, pos, category, scope) ==
    {<<v.compared, v.n>> : v \in {v \in ToSet(verdicts) :
        v.category = category /\ v.scope = scope /\ v.position = pos}}
VerdictsSound(p, verdicts) ==
    LET pos == p.position
        Shots(w) == Under(pos, w)
        Of(conditions) == {<<Name(w), Len(Shots(w))>> : w \in conditions}
        Says(category, scope) == Told(verdicts, pos, category, scope)
        few == Len(ShotsOf(pos)) < MinForDispersion
        fragmented == ~few /\ Cardinality(Conditions(pos)) >= 3 /\ Described(pos) = {}
        reference == {w \in Described(pos) :
                        w.valid /\ <<Name(w), Len(Shots(w))>> = <<p.reference.label, p.reference.n>>}
        rest == Described(pos) \ reference
        Against(Test(_, _)) == {w \in rest : \E r \in reference : Test(Shots(w), Shots(r))}
        compact == Against(Within125)
        offset == Against(OffCentre)
        told == {v \in ToSet(verdicts) : v.scope # "Session" /\ v.position = pos}
    IN
    /\ Says("InsufficientSample", "Position") # {} <=> few
    /\ Says("FragmentedData", "Position") # {} <=> fragmented
    /\ Says("NoValidComparison", "Position") # {}
          <=> ~few /\ ~fragmented /\ \A w \in Described(pos) : ~w.valid
    /\ reference = {} => Cardinality(told) = 1
    /\ reference # {} =>
        /\ Says("InsufficientSample", "Condition") = Of(Conditions(pos) \ Described(pos))
        /\ Says("CompactButOffset", "Condition") = Of(compact \cap offset)
        /\ Says("WiderUnderCondition", "Condition") = Of(Against(HalfAgainAsWide))
        /\ Says("NoValidComparison", "Condition")
              = Of(IF Conditions(pos) = reference THEN reference ELSE {})
        /\ Says("SimilarAcrossConditions", "Position") # {}
              <=> rest # {} /\ rest \subseteq compact \ offset
        /\ Says("WideAcrossConditions", "Position") # {}
              <=> rest # {} /\ \A w \in Described(pos) : RingAndAHalf(Shots(w))
    /\ \A v \in told : v.evidence = "Comparative" => {v.reference} = Of(reference)

\* Of three positions, the one is named that has the most spread group.
WidestSound(verdicts) ==
    LET Groups(pos) == {Under(pos, w) : w \in Described(pos)}
        all == UNION {Groups(pos) : pos \in 1 .. 3}
        Widest(pos) == \E s \in Groups(pos) :
                          \A r \in all : SizeBeside(r, s) <= SizeBeside(s, r)
        named == {v.position : v \in {v \in ToSet(verdicts) : v.scope = "Session"}}
        compared == review.threeP /\ Cardinality({e.pos : e \in ToSet(review.fires)}) >= 2
    IN /\ named # {} <=> compared /\ all # {}
       /\ \A pos \in named : Widest(pos)

\* Sighters change no verdict on a position that has counted shots.
OfPositions(verdicts, positions) ==
    SelectSeq(verdicts, LAMBDA v : v.scope # "Session" /\ v.position \in positions)
SightersDoNotCount(model) ==
    LET counted == SelectSeq(review.fires, LAMBDA e : ~e.sighter)
        positions == {e.pos : e \in ToSet(counted)}
    IN \A a \in {Analyse(counted, review.threeP)} :
        OfPositions(Evaluate(a), positions) = OfPositions(model.verdicts, positions)


\* Stated by docs/training-lab-wind-map-verdict-rules.md, section 3.5 (sizes are
\* similar when each is "within 1.25 x of the smallest"), and not what the code
\* does when a group is much smaller than the reference.
SimilarAreSimilar ==
    review.model # <<>> /\ review.key = CacheKey(review) =>
        \A p \in ToSet(review.model.analysis.positions) :
            /\ NamesTellApart(p.position)
            /\ Told(review.model.verdicts, p.position, "SimilarAcrossConditions", "Position") # {}
            => \A v, w \in Described(p.position) :
                  Within125(Under(p.position, v), Under(p.position, w))
=============================================================================
