-------------------------- MODULE FinalsLaneProofs --------------------------
(***************************************************************************)
(* The safety of the two finals, for every course and every duration.      *)
(*                                                                         *)
(* Both controllers are proved along one argument.  It speaks of a course: *)
(* the match stages, how many shots each asks for, from which number on,   *)
(* and with which stage it is over.  What a handler submits leaves the     *)
(* journal Told after every event, so that a crash may come anywhere; at   *)
(* its end the controller Stands where the journal says.                   *)
(* Last comes the clock: what a resume computes from the stamps in the     *)
(* journal is what the controller had left.                                *)
(***************************************************************************)
EXTENDS FinalsLane, FiniteSetTheorems, SequenceTheorems, TLAPS

Statuses == {"NotStarted", "InProgress"} \cup Verdicts
Phases == {"None", "Preparation", "Sighting", "OfficialMatch"}
Windows == {"Closed", "SightingOpen", "MatchOpen"}

Journals(stages) ==
    [stage : Int, phase : Phases, life : {"Active", "Complete"}, blocked : BOOLEAN,
     officials : SUBSET [n : Int, ext : Int, stage : Int],
     status : [stages -> Statuses], missing : Seq(Int),
     anchor : {"none", "fresh", "stale"}, age : Nat, elapsed : Nat, refused : BOOLEAN]

Controllers(stages) ==
    [stage : Int, seqStep : Nat, window : Windows, mode : {"Sighter", "Match"},
     shots : Nat, count : Nat, kneeling : Nat, prone : Nat, started1 : BOOLEAN,
     checkpoints : SUBSET [n : Int, total : Int], status : [stages -> Statuses],
     left : Nat, warned : Nat, paused : BOOLEAN, out : Seq(Journals(stages))]

\* A course: all stages, the match stages with their limits and bases, the
\* stage with which each of them is over, the phases each stage may be in, and
\* the stage at the end.
IsCourse(k) ==
    /\ k.match \subseteq k.stages /\ k.stages \subseteq Int
    /\ k.end \in Int
    /\ k.phases \in [k.stages -> SUBSET Phases]
    /\ \A s \in k.match :
        /\ k.limit[s] \in Nat \ {0} /\ k.base[s] \in Nat /\ k.over[s] \in Int
        /\ s < k.over[s] /\ k.over[s] <= k.end
        /\ \A t \in k.match : s < t => k.base[s] + k.limit[s] <= k.base[t]

NumbersIn(k, s) == k.base[s] + 1 .. k.base[s] + k.limit[s]
PassedAt(k, at) == {s \in k.match : k.over[s] <= at}
PassedIn(k, r) == IF r.life = "Complete" THEN k.match ELSE PassedAt(k, r.stage)

OfStage(r, s) == {o \in r.officials : o.stage = s}
ShotsOf(r, s) == Cardinality(OfStage(r, s))
NumbersOf(r, s) == {o.n : o \in OfStage(r, s)}

\* Officials belong to stages that have begun, and the phase to the stage.
Placed(k, r) ==
    /\ IsFiniteSet(r.officials) /\ r.stage < k.end
    /\ \A o \in r.officials : o.stage \in k.match /\ o.stage <= r.stage
    /\ r.stage \in k.stages => r.phase \in k.phases[r.stage]

\* The official shots of a stage are its first numbers, each once.
Ranked(k, r) ==
    /\ \A o, p \in r.officials : o.stage = p.stage /\ o.n = p.n => o = p
    /\ \A s \in k.match : /\ ShotsOf(r, s) <= k.limit[s]
                          /\ NumbersOf(r, s) = k.base[s] + 1 .. k.base[s] + ShotsOf(r, s)

\* Every number of the stages in S is an official shot or recorded missing.
Covered(k, r, S) ==
    \A s \in S : \A n \in NumbersIn(k, s) :
        n \in NumbersOf(r, s) \/ \E i \in DOMAIN r.missing : r.missing[i] = n

\* Missing are numbers of the stages in S that no shot has, each once, and the
\* verdicts are true.
Exact(k, r, S) ==
    /\ \A i, j \in DOMAIN r.missing : r.missing[i] = r.missing[j] => i = j
    /\ \A s \in k.match :
        /\ \A i \in DOMAIN r.missing : r.missing[i] \in NumbersIn(k, s) =>
              s \in S /\ r.missing[i] \notin NumbersOf(r, s)
        /\ r.status[s] = "Complete" => ShotsOf(r, s) = k.limit[s]
        /\ r.status[s] = "Incomplete" => s \in S /\ ShotsOf(r, s) # k.limit[s]

Counted(k, r, S) == ~r.refused => Ranked(k, r) /\ Covered(k, r, S)

\* The course goes forward from one journal to a later one.
Follows(k, r, later) ==
    /\ r.stage <= later.stage
    /\ \A s \in k.match : r.status[s] \in Verdicts => later.status[s] = r.status[s]

Told(k, from, r) ==
    /\ from \in Journals(k.stages) /\ r \in Journals(k.stages)
    /\ Placed(k, r) /\ Counted(k, r, PassedIn(k, r))
    /\ Follows(k, from, r)

\* A handler on its way: what it has submitted so far is Told.
Handling(k, from, c) ==
    /\ c \in Controllers(k.stages)
    /\ \A n \in DOMAIN c.out : Told(k, from, c.out[n])
    /\ Told(k, from, Written(c))

\* Two controllers, or two journals, that differ in nothing but the events
\* submitted, or the clock.
Alike(c, d) ==
    /\ d.stage = c.stage /\ d.seqStep = c.seqStep /\ d.window = c.window
    /\ d.mode = c.mode /\ d.shots = c.shots /\ d.count = c.count
    /\ d.kneeling = c.kneeling /\ d.prone = c.prone /\ d.started1 = c.started1
    /\ d.checkpoints = c.checkpoints /\ d.status = c.status /\ d.left = c.left
    /\ d.warned = c.warned /\ d.paused = c.paused
Same(r, q) ==
    /\ q.stage = r.stage /\ q.phase = r.phase /\ q.life = r.life
    /\ q.officials = r.officials /\ q.status = r.status
    /\ q.missing = r.missing /\ q.refused = r.refused
-----------------------------------------------------------------------------
(* Journals and handlers.                                                  *)

LEMMA SameShots ==
    ASSUME NEW r, NEW q, q.officials = r.officials
    PROVE  \A s : /\ OfStage(q, s) = OfStage(r, s) /\ ShotsOf(q, s) = ShotsOf(r, s)
                  /\ NumbersOf(q, s) = NumbersOf(r, s)
<1>1. \A s : OfStage(q, s) = OfStage(r, s)
      BY DEF OfStage
<1>. QED  BY <1>1 DEF ShotsOf, NumbersOf

\* The clock has no part in what is told.
LEMMA SameIsTold ==
    ASSUME NEW k, NEW from, NEW r, NEW q, Told(k, from, r), Same(r, q),
           q \in Journals(k.stages)
    PROVE  Told(k, from, q)
<1>1. \A s : ShotsOf(q, s) = ShotsOf(r, s) /\ NumbersOf(q, s) = NumbersOf(r, s)
      BY SameShots DEF Same
<1>2. PassedIn(k, q) = PassedIn(k, r)
      BY DEF Same, PassedIn
<1>3. Placed(k, q)
      BY DEF Told, Placed, Same
<1>4. Ranked(k, r) => Ranked(k, q)
      BY <1>1 DEF Ranked, Same
<1>5. \A S : Covered(k, r, S) => Covered(k, q, S)
      BY <1>1 DEF Covered, Same
<1>6. Follows(k, from, q)
      BY DEF Told, Follows, Same
<1>. QED  BY <1>2, <1>3, <1>4, <1>5, <1>6 DEF Told, Counted, Same

LEMMA SameIsExact ==
    ASSUME NEW k, NEW r, NEW q, NEW S, Exact(k, r, S), Same(r, q)
    PROVE  Exact(k, q, S)
<1>1. \A s : ShotsOf(q, s) = ShotsOf(r, s) /\ NumbersOf(q, s) = NumbersOf(r, s)
      BY SameShots DEF Same
<1>. QED  BY <1>1 DEF Exact, Same

LEMMA SameIsCovered ==
    ASSUME NEW k, NEW r, NEW q, NEW S, Counted(k, r, S), Same(r, q)
    PROVE  Counted(k, q, S)
<1>1. \A s : ShotsOf(q, s) = ShotsOf(r, s) /\ NumbersOf(q, s) = NumbersOf(r, s)
      BY SameShots DEF Same
<1>. QED  BY <1>1 DEF Counted, Ranked, Covered, Same

LEMMA CommandApplied ==
    ASSUME NEW stages, NEW r \in Journals(stages), NEW e \in {Mark, Opened}
    PROVE  Apply(r, e) \in Journals(stages) /\ Same(r, Apply(r, e))
<1>1. CASE e = Mark
      BY <1>1 DEF Apply, Refuses, Reduced, Mark, Journals, Same
<1>2. CASE e = Opened
      BY <1>2 DEF Apply, Refuses, Reduced, Opened, Journals, Same
<1>. QED  BY <1>1, <1>2

LEMMA Emitted ==
    ASSUME NEW k, NEW from, NEW c, Handling(k, from, c), NEW e,
           Told(k, from, Apply(Written(c), e))
    PROVE  /\ Handling(k, from, Emit(c, e)) /\ Alike(c, Emit(c, e))
           /\ Written(Emit(c, e)) = Apply(Written(c), e)
<1>. DEFINE q == Apply(Written(c), e)
            d == Emit(c, e)
<1>1. c \in Controllers(k.stages) /\ c.out \in Seq(Journals(k.stages))
      BY DEF Handling, Controllers
<1>2. q \in Journals(k.stages) /\ Told(k, from, q)
      BY DEF Told
<1>. HIDE DEF q
<1>3. Append(c.out, q) \in Seq(Journals(k.stages))
      BY <1>1, <1>2
<1>4. d = [c EXCEPT !.out = Append(c.out, q)]
      BY <1>1 DEF Emit, q, Controllers
<1>5. d \in Controllers(k.stages) /\ Alike(c, d) /\ d.out = Append(c.out, q)
      BY <1>1, <1>3, <1>4 DEF Controllers, Alike
<1>6. Written(d) = q
      BY <1>1, <1>2, <1>5 DEF Written, Last
<1>7. \A n \in DOMAIN d.out : Told(k, from, d.out[n])
      BY <1>1, <1>2, <1>5 DEF Handling
<1>. QED  BY <1>2, <1>5, <1>6, <1>7 DEF Handling, q

\* What a handler does to the controller alone.
LEMMA Adjusted ==
    ASSUME NEW k, NEW from, NEW c, Handling(k, from, c),
           NEW d \in Controllers(k.stages), d.out = c.out
    PROVE  Handling(k, from, d) /\ Written(d) = Written(c)
BY DEF Handling, Written

LEMMA CommandIssued ==
    ASSUME NEW k, NEW from, NEW c, Handling(k, from, c)
    PROVE  /\ Handling(k, from, IssueCommand(c)) /\ Alike(c, IssueCommand(c))
           /\ Same(Written(c), Written(IssueCommand(c)))
<1>1. Apply(Written(c), Mark) \in Journals(k.stages) /\ Same(Written(c), Apply(Written(c), Mark))
      BY CommandApplied DEF Handling, Told
<1>2. Told(k, from, Apply(Written(c), Mark))
      BY <1>1, SameIsTold DEF Handling
<1>. QED  BY <1>1, <1>2, Emitted DEF IssueCommand

LEMMA WindowSet ==
    ASSUME NEW k, NEW from, NEW c, Handling(k, from, c), NEW w \in Windows
    PROVE  /\ Handling(k, from, SetWindow(c, w))
           /\ Alike([c EXCEPT !.window = w], SetWindow(c, w))
           /\ Same(Written(c), Written(SetWindow(c, w)))
<1>. DEFINE d == [c EXCEPT !.window = w]
            e == IF w = "Closed" THEN Mark ELSE Opened
<1>1. c \in Controllers(k.stages) /\ d \in Controllers(k.stages) /\ d.out = c.out
      BY DEF Handling, Controllers
<1>2. CASE c.window = w
  <2>1. SetWindow(c, w) = c
        BY <1>2 DEF SetWindow
  <2>. QED  BY <1>1, <1>2, <2>1 DEF Alike, Same, Controllers
<1>3. CASE c.window # w
  <2>1. SetWindow(c, w) = Emit(d, e)
        BY <1>3 DEF SetWindow
  <2>. HIDE DEF d
  <2>2. Handling(k, from, d) /\ Written(d) = Written(c)
        BY <1>1, Adjusted
  <2>3. e \in {Mark, Opened}
        OBVIOUS
  <2>. HIDE DEF e
  <2>4. Apply(Written(d), e) \in Journals(k.stages) /\ Same(Written(d), Apply(Written(d), e))
        BY <2>2, <2>3, CommandApplied DEF Handling, Told
  <2>5. Told(k, from, Apply(Written(d), e))
        BY <2>2, <2>4, SameIsTold DEF Handling
  <2>6. Handling(k, from, Emit(d, e)) /\ Alike(d, Emit(d, e))
        /\ Same(Written(d), Written(Emit(d, e)))
        BY <2>2, <2>4, <2>5, Emitted
  <2>. QED  BY <2>1, <2>2, <2>6 DEF d
<1>. QED  BY <1>2, <1>3

\* A verdict that is there stays.
LEMMA StatusSet ==
    ASSUME NEW k, IsCourse(k), NEW from, NEW c, Handling(k, from, c), Written(c).life = "Active",
           c.status = Written(c).status, NEW s \in k.stages, NEW v \in Statuses,
           NEW d, d = SetStageStatus(c, s, v)
    PROVE  /\ Handling(k, from, d) /\ Alike([c EXCEPT !.status = d.status], d)
           /\ Same([Written(c) EXCEPT !.status = d.status], Written(d))
           /\ d.status = IF c.status[s] \in Verdicts THEN c.status
                         ELSE [c.status EXCEPT ![s] = v]
<1>. DEFINE r == Written(c)
            keeps == c.status[s] = v \/ c.status[s] \in Verdicts
            b == [c EXCEPT !.status[s] = v]
            e == StatusChanged(s, v)
            q == Apply(Written(b), e)
<1>1. c \in Controllers(k.stages) /\ Told(k, from, r) /\ r \in Journals(k.stages)
      BY DEF Handling, Told
<1>2. CASE keeps
  <2>1. d = c /\ d.status = IF c.status[s] \in Verdicts THEN c.status
                            ELSE [c.status EXCEPT ![s] = v]
        BY <1>1, <1>2 DEF SetStageStatus, Controllers
  <2>2. Alike([c EXCEPT !.status = c.status], c)
        BY <1>1 DEF Alike, Controllers
  <2>3. Same([r EXCEPT !.status = c.status], r)
        BY <1>1 DEF Same, Journals
  <2>. HIDE DEF r
  <2>. QED  BY <2>1, <2>2, <2>3 DEF r
<1>3. CASE ~keeps
  <2>1. d = Emit(b, e)
        BY <1>3 DEF SetStageStatus
  <2>2. b \in Controllers(k.stages) /\ b.out = c.out /\ b.status = [c.status EXCEPT ![s] = v]
        BY <1>1 DEF Controllers
  <2>3. Alike([c EXCEPT !.status = b.status], b)
        BY <1>1, <2>2 DEF Alike, Controllers
  <2>. HIDE DEF b
  <2>4. Handling(k, from, b) /\ Written(b) = r
        BY <2>2, Adjusted
  <2>5. q = [r EXCEPT !.status[s] = v, !.elapsed = r.age]
        BY <1>1, <2>4 DEF Apply, Refuses, Reduced, StatusChanged, Journals
  <2>. HIDE DEF r, q, e
  <2>51. r.status = c.status
         BY DEF r
  <2>6. q \in Journals(k.stages) /\ q.status = b.status
        BY <1>1, <2>2, <2>5, <2>51 DEF Journals
  <2>7. Same([r EXCEPT !.status = b.status], q) /\ q.officials = r.officials
        BY <1>1, <2>5, <2>6 DEF Journals, Same
  <2>8. Told(k, from, q)
    <3>1. Placed(k, q) /\ PassedIn(k, q) = PassedIn(k, r)
          BY <1>1, <2>5 DEF Told, Placed, PassedIn, Journals
    <3>2. Counted(k, r, PassedIn(k, r)) /\ q.refused = r.refused /\ q.missing = r.missing
          BY <1>1, <2>5 DEF Told, Journals
    <3>3. \A t : ShotsOf(q, t) = ShotsOf(r, t) /\ NumbersOf(q, t) = NumbersOf(r, t)
          BY <2>7, SameShots
    <3>4. Counted(k, q, PassedIn(k, q))
          BY <2>7, <3>1, <3>2, <3>3 DEF Counted, Ranked, Covered
    <3>5. \A t \in k.match : from.status[t] \in Verdicts => q.status[t] = from.status[t]
      <4>1. SUFFICES ASSUME NEW t \in k.match, from.status[t] \in Verdicts
                     PROVE  q.status[t] = from.status[t]
            OBVIOUS
      <4>2. r.status[t] = from.status[t] /\ t # s
            BY <1>1, <1>3, <2>51, <4>1 DEF Told, Follows
      <4>3. t \in k.stages /\ c.status \in [k.stages -> Statuses]
            BY <1>1 DEF IsCourse, Controllers
      <4>4. [c.status EXCEPT ![s] = v][t] = c.status[t]
            BY <4>2, <4>3
      <4>. QED  BY <2>2, <2>6, <2>51, <4>2, <4>4
    <3>6. Follows(k, from, q)
          BY <1>1, <2>7, <3>5 DEF Told, Follows, Same, Journals
    <3>. QED  BY <1>1, <2>6, <3>1, <3>4, <3>6 DEF Told
  <2>9. Handling(k, from, d) /\ Alike(b, d) /\ Written(d) = q
        BY <2>1, <2>4, <2>8, Emitted DEF q, r
  <2>10. d.status = b.status
         BY <2>9 DEF Alike
  <2>11. Alike([c EXCEPT !.status = d.status], d)
         BY <2>3, <2>9, <2>10 DEF Alike
  <2>. QED  BY <1>3, <2>2, <2>7, <2>9, <2>10, <2>11 DEF r
<1>. QED  BY <1>2, <1>3

\* The journal comes to another stage, when what is over by then is covered.
LEMMA StageIsTold ==
    ASSUME NEW k, NEW from, NEW r, Told(k, from, r), NEW q \in Journals(k.stages),
           NEW s \in k.stages, NEW p, p \in k.phases[s], k.stages \subseteq Int,
           Same([r EXCEPT !.stage = s, !.phase = p], q), r.life = "Active",
           r.stage <= s, s < k.end, Counted(k, r, PassedAt(k, s))
    PROVE  Told(k, from, q)
<1>1. r \in Journals(k.stages)
      BY DEF Told
<1>2. /\ q.stage = s /\ q.phase = p /\ q.life = "Active" /\ q.officials = r.officials
      /\ q.status = r.status /\ q.missing = r.missing /\ q.refused = r.refused
      BY <1>1 DEF Same, Journals
<1>3. PassedIn(k, q) = PassedAt(k, s)
      BY <1>2 DEF PassedIn
<1>4. \A t : ShotsOf(q, t) = ShotsOf(r, t) /\ NumbersOf(q, t) = NumbersOf(r, t)
      BY <1>2, SameShots
<1>5. Counted(k, q, PassedIn(k, q))
      BY <1>2, <1>3, <1>4 DEF Counted, Ranked, Covered
<1>6. Placed(k, q)
  <2>1. \A o \in r.officials : o.stage \in Int /\ o.stage <= s
        BY <1>1 DEF Told, Placed, Journals
  <2>. QED  BY <1>2, <2>1 DEF Told, Placed
<1>7. from.stage <= s
      BY <1>1 DEF Told, Follows, Journals
<1>. QED  BY <1>2, <1>5, <1>6, <1>7 DEF Told, Follows
-----------------------------------------------------------------------------
(* Missing shots, and official ones.                                       *)

\* The numbers b+1 .. b+m, put behind a list.
Extends(old, new, b, m) ==
    \E l \in Nat :
        /\ DOMAIN old = 1 .. l /\ DOMAIN new = 1 .. l + m
        /\ \A i \in 1 .. l : new[i] = old[i]
        /\ \A i \in l + 1 .. l + m : new[i] = b + (i - l)

LEMMA ListExtends ==
    ASSUME NEW m \in Nat, NEW b \in Nat, NEW old \in Seq(Int),
           NEW ns, ns = [j \in 1 .. m |-> b + j]
    PROVE  ns \in Seq(Int) /\ Len(ns) = m /\ Extends(old, old \o ns, b, m)
<1>1. ns \in [1 .. m -> Int] /\ \A j \in 1 .. m : ns[j] = b + j
      OBVIOUS
<1>2. ns \in Seq(Int)
      BY <1>1, SeqDef
<1>3. Len(ns) \in Nat /\ DOMAIN ns = 1 .. Len(ns) /\ DOMAIN ns = 1 .. m
      BY <1>1, <1>2, LenProperties
<1>4. Len(ns) = m
      BY <1>3
<1>. DEFINE l == Len(old)
            new == old \o ns
<1>5. /\ l \in Nat /\ DOMAIN old = 1 .. l /\ DOMAIN new = 1 .. l + m
      /\ \A i \in 1 .. l + m : new[i] = IF i <= l THEN old[i] ELSE ns[i - l]
      BY <1>2, <1>4, ConcatProperties, LenProperties
<1>. HIDE DEF l, new
<1>6. ASSUME NEW i \in l + 1 .. l + m
      PROVE  new[i] = b + (i - l)
  <2>1. i - l \in 1 .. m /\ i \in 1 .. l + m /\ ~(i <= l)
        BY <1>5
  <2>2. new[i] = ns[i - l]
        BY <1>5, <2>1
  <2>. QED  BY <1>1, <2>1, <2>2
<1>7. ASSUME NEW i \in 1 .. l
      PROVE  new[i] = old[i]
  <2>1. i \in 1 .. l + m /\ i <= l
        BY <1>5
  <2>. QED  BY <1>5, <2>1
<1>8. Extends(old, new, b, m)
      BY <1>5, <1>6, <1>7 DEF Extends
<1>. QED  BY <1>2, <1>4, <1>8 DEF new

LEMMA NumbersApart ==
    ASSUME NEW k, IsCourse(k), NEW s \in k.match, NEW t \in k.match,
           NEW n \in NumbersIn(k, s), n \in NumbersIn(k, t)
    PROVE  s = t
<1>1. /\ s \in Int /\ t \in Int /\ k.base[s] \in Nat /\ k.base[t] \in Nat
      /\ k.limit[s] \in Nat /\ k.limit[t] \in Nat
      /\ s < t => k.base[s] + k.limit[s] <= k.base[t]
      /\ t < s => k.base[t] + k.limit[t] <= k.base[s]
      BY DEF IsCourse
<1>. QED  BY <1>1 DEF NumbersIn

LEMMA MissingIsTold ==
    ASSUME NEW k, NEW from, NEW r, Told(k, from, r), r.life = "Active",
           NEW ns \in Seq(Int), NEW q, q = Apply(r, Missing(ns))
    PROVE  /\ Told(k, from, q) /\ q.missing = r.missing \o ns
           /\ Same([r EXCEPT !.missing = q.missing], q)
<1>1. r \in Journals(k.stages) /\ r.missing \in Seq(Int)
      BY DEF Told, Journals
<1>2. q = [r EXCEPT !.missing = r.missing \o ns, !.elapsed = r.age]
      BY <1>1 DEF Apply, Refuses, Reduced, Missing, Journals
<1>3. r.missing \o ns \in Seq(Int)
      BY <1>1
<1>4. q \in Journals(k.stages) /\ q.missing = r.missing \o ns
      BY <1>1, <1>2, <1>3 DEF Journals
<1>5. Same([r EXCEPT !.missing = q.missing], q) /\ q.officials = r.officials
      BY <1>1, <1>2, <1>4 DEF Journals, Same
<1>6. /\ q.stage = r.stage /\ q.phase = r.phase /\ q.life = r.life
      /\ q.status = r.status /\ q.refused = r.refused
      BY <1>1, <1>2 DEF Journals
<1>7. \A t : ShotsOf(q, t) = ShotsOf(r, t) /\ NumbersOf(q, t) = NumbersOf(r, t)
      BY <1>5, SameShots
<1>8. \A i \in DOMAIN r.missing : i \in DOMAIN q.missing /\ q.missing[i] = r.missing[i]
      BY <1>1, <1>4
<1>9. Counted(k, r, PassedIn(k, r)) => Counted(k, q, PassedIn(k, q))
  <2>1. PassedIn(k, q) = PassedIn(k, r)
        BY <1>6 DEF PassedIn
  <2>2. Ranked(k, r) => Ranked(k, q)
        BY <1>5, <1>7 DEF Ranked
  <2>3. Covered(k, r, PassedIn(k, r)) => Covered(k, q, PassedIn(k, r))
        BY <1>7, <1>8 DEF Covered
  <2>. QED  BY <1>6, <2>1, <2>2, <2>3 DEF Counted
<1>10. Placed(k, r) => Placed(k, q)
       BY <1>5, <1>6 DEF Placed
<1>11. Follows(k, from, r) => Follows(k, from, q)
       BY <1>6 DEF Follows
<1>. QED  BY <1>4, <1>5, <1>9, <1>10, <1>11 DEF Told

\* What the missing numbers of a stage make of the accounts.
LEMMA MissingAreCounted ==
    ASSUME NEW k, IsCourse(k), NEW r \in Journals(k.stages), NEW s \in k.match,
           NEW shots \in Nat, shots <= k.limit[s], ~r.refused => shots = ShotsOf(r, s),
           NEW q \in Journals(k.stages), Same([r EXCEPT !.missing = q.missing], q),
           Extends(r.missing, q.missing, k.base[s] + shots, k.limit[s] - shots),
           NEW S \in SUBSET k.match
    PROVE  /\ Counted(k, r, S) => Counted(k, q, S \cup {s})
           /\ ~r.refused /\ Ranked(k, r) /\ s \notin S /\ Exact(k, r, S)
                => Exact(k, q, S \cup {s})
<1>. DEFINE lo == k.base[s]
            hi == k.base[s] + k.limit[s]
            m == k.limit[s] - shots
            b == k.base[s] + shots
<1>1. /\ lo \in Nat /\ hi \in Nat /\ m \in Nat /\ b \in Nat
      /\ lo <= b /\ b + m = hi /\ NumbersIn(k, s) = lo + 1 .. hi
  <2>1. k.limit[s] \in Nat /\ k.base[s] \in Nat
        BY DEF IsCourse
  <2>. QED  BY <2>1 DEF NumbersIn
<1>2. ~r.refused /\ Ranked(k, r) => NumbersOf(r, s) = lo + 1 .. b
      BY DEF Ranked
<1>3. Extends(r.missing, q.missing, b, m)
      OBVIOUS
<1>. HIDE DEF m, b, lo, hi
<1>4. PICK l \in Nat :
        /\ DOMAIN r.missing = 1 .. l /\ DOMAIN q.missing = 1 .. l + m
        /\ \A i \in 1 .. l : q.missing[i] = r.missing[i]
        /\ \A i \in l + 1 .. l + m : q.missing[i] = b + (i - l)
      BY <1>3 DEF Extends
<1>5. q.officials = r.officials /\ q.status = r.status /\ q.refused = r.refused
      BY DEF Same, Journals
<1>6. \A t : ShotsOf(q, t) = ShotsOf(r, t) /\ NumbersOf(q, t) = NumbersOf(r, t)
      BY <1>5, SameShots
<1>7. ASSUME NEW i \in DOMAIN q.missing, i \notin DOMAIN r.missing
      PROVE  i \in l + 1 .. l + m /\ q.missing[i] = b + (i - l)
  <2>1. i \in 1 .. l + m /\ i \notin 1 .. l
        BY <1>4, <1>7
  <2>2. i \in l + 1 .. l + m
        BY <1>1, <2>1
  <2>. QED  BY <1>4, <2>2
<1>71. \A i \in DOMAIN r.missing : i \in DOMAIN q.missing /\ q.missing[i] = r.missing[i]
  <2>1. \A i \in 1 .. l : i \in 1 .. l + m
        BY <1>1
  <2>. QED  BY <1>4, <2>1
<1>8. ASSUME Counted(k, r, S)
      PROVE  Counted(k, q, S \cup {s})
  <2>1. SUFFICES ASSUME ~q.refused
                 PROVE  Ranked(k, q) /\ Covered(k, q, S \cup {s})
        BY DEF Counted
  <2>2. Ranked(k, r) /\ Covered(k, r, S)
        BY <1>5, <1>8, <2>1 DEF Counted
  <2>3. Ranked(k, q)
        BY <1>5, <1>6, <2>2 DEF Ranked
  <2>4. Covered(k, q, S)
        BY <1>6, <1>71, <2>2 DEF Covered
  <2>5. ASSUME NEW n \in NumbersIn(k, s)
        PROVE  n \in NumbersOf(q, s) \/ \E i \in DOMAIN q.missing : q.missing[i] = n
    <3>1. n \in lo + 1 .. hi
          BY <1>1
    <3>2. CASE n <= b
      <4>1. n \in lo + 1 .. b
            BY <1>1, <3>1, <3>2
      <4>. QED  BY <1>2, <1>5, <1>6, <2>1, <2>2, <4>1
    <3>3. CASE b < n
      <4>1. PICK j \in 1 .. m : n = b + j
        <5>1. n - b \in 1 .. m /\ n = b + (n - b)
              BY <1>1, <3>1, <3>3
        <5>. QED  BY <5>1
      <4>2. l + j \in l + 1 .. l + m /\ l + j \in 1 .. l + m /\ (l + j) - l = j
            BY <1>1, <1>4
      <4>. QED  BY <1>4, <4>1, <4>2
    <3>. QED  BY <1>1, <3>1, <3>2, <3>3
  <2>6. Covered(k, q, {s})
        BY <2>5 DEF Covered
  <2>. QED  BY <2>3, <2>4, <2>6 DEF Covered
<1>9. ASSUME ~r.refused, Ranked(k, r), s \notin S, Exact(k, r, S)
      PROVE  Exact(k, q, S \cup {s})
  <2>1. ASSUME NEW i \in l + 1 .. l + m
        PROVE  b + (i - l) \in NumbersIn(k, s) /\ b + (i - l) \notin NumbersOf(r, s)
    <3>1. PICK x \in Int : x = b + (i - l) /\ b < x /\ x <= b + m
          BY <1>1, <1>4
    <3>2. x \in lo + 1 .. hi /\ x \notin lo + 1 .. b
          BY <1>1, <3>1
    <3>. QED  BY <1>1, <1>2, <1>9, <3>1, <3>2
  <2>2. \A i \in DOMAIN r.missing : r.missing[i] \notin NumbersIn(k, s)
        BY <1>9 DEF Exact
  <2>3. ASSUME NEW i \in DOMAIN q.missing, NEW j \in DOMAIN q.missing,
               q.missing[i] = q.missing[j]
        PROVE  i = j
    <3>1. CASE i \in DOMAIN r.missing /\ j \in DOMAIN r.missing
          BY <1>71, <1>9, <2>3, <3>1 DEF Exact
    <3>2. CASE i \in DOMAIN r.missing /\ j \notin DOMAIN r.missing
          BY <1>7, <1>71, <2>1, <2>2, <2>3, <3>2
    <3>3. CASE i \notin DOMAIN r.missing /\ j \in DOMAIN r.missing
          BY <1>7, <1>71, <2>1, <2>2, <2>3, <3>3
    <3>4. CASE i \notin DOMAIN r.missing /\ j \notin DOMAIN r.missing
      <4>1. i \in l + 1 .. l + m /\ j \in l + 1 .. l + m /\ b + (i - l) = b + (j - l)
            BY <1>7, <2>3, <3>4
      <4>. QED  BY <1>1, <1>4, <4>1
    <3>. QED  BY <3>1, <3>2, <3>3, <3>4
  <2>4. ASSUME NEW t \in k.match, NEW i \in DOMAIN q.missing,
               q.missing[i] \in NumbersIn(k, t)
        PROVE  t \in S \cup {s} /\ q.missing[i] \notin NumbersOf(q, t)
    <3>1. CASE i \in DOMAIN r.missing
          BY <1>6, <1>71, <1>9, <2>4, <3>1 DEF Exact
    <3>2. CASE i \notin DOMAIN r.missing
      <4>1. q.missing[i] \in NumbersIn(k, s) /\ q.missing[i] \notin NumbersOf(r, s)
            BY <1>7, <2>1, <3>2
      <4>2. t = s
            BY <2>4, <4>1, NumbersApart
      <4>. QED  BY <1>6, <4>1, <4>2
    <3>. QED  BY <3>1, <3>2
  <2>. QED  BY <1>5, <1>6, <1>9, <2>3, <2>4 DEF Exact
<1>. QED  BY <1>8, <1>9

\* The missing shots of a stage are submitted one by one.
LEMMA MissingSubmitted ==
    ASSUME NEW k, IsCourse(k), NEW from, NEW c, Handling(k, from, c),
           Written(c).life = "Active", NEW b \in Nat, NEW shots \in Nat, NEW limit \in Nat,
           shots <= limit, NEW d, d = MissingRange(c, b, shots, limit)
    PROVE  /\ Handling(k, from, d) /\ Alike(c, d)
           /\ Same([Written(c) EXCEPT !.missing = Written(d).missing], Written(d))
           /\ Extends(Written(c).missing, Written(d).missing, b + shots, limit - shots)
<1>. DEFINE m == limit - shots
            r == Written(c)
            past == b + shots
            ns(i) == [j \in 1 .. i |-> past + j]
            file == [i \in 1 .. m |-> Apply(r, Missing(ns(i)))]
<1>0. m \in Nat /\ past \in Nat
      OBVIOUS
<1>1. /\ m \in Nat /\ past \in Nat
      /\ c \in Controllers(k.stages) /\ c.out \in Seq(Journals(k.stages))
      /\ Told(k, from, r) /\ r.missing \in Seq(Int) /\ r \in Journals(k.stages)
  <2>1. c \in Controllers(k.stages) /\ Told(k, from, r) /\ r \in Journals(k.stages)
        BY DEF Handling, Told
  <2>2. c.out \in Seq(Journals(k.stages))
        BY <2>1 DEF Controllers
  <2>3. r.missing \in Seq(Int)
        BY <2>1 DEF Journals
  <2>. QED  BY <1>0, <2>1, <2>2, <2>3
<1>2. d = [c EXCEPT !.out = c.out \o file]
      BY <1>1 DEF MissingRange, Controllers
<1>. HIDE DEF past, m
<1>3. ASSUME NEW i \in Nat
      PROVE  /\ Told(k, from, Apply(r, Missing(ns(i))))
             /\ LET q == Apply(r, Missing(ns(i)))
                IN  /\ Same([r EXCEPT !.missing = q.missing], q)
                    /\ Extends(r.missing, q.missing, past, i)
  <2>. DEFINE q == Apply(r, Missing(ns(i)))
  <2>1. ns(i) \in Seq(Int) /\ Extends(r.missing, r.missing \o ns(i), past, i)
    <3>. DEFINE new == ns(i)
    <3>1. new = [j \in 1 .. i |-> past + j]
          OBVIOUS
    <3>. HIDE DEF new, r, q
    <3>2. new \in Seq(Int) /\ Extends(r.missing, r.missing \o new, past, i)
          BY <1>1, <3>1, ListExtends
    <3>. QED  BY <3>2 DEF new
  <2>. HIDE DEF ns, r
  <2>2. Told(k, from, q) /\ q.missing = r.missing \o ns(i)
        /\ Same([r EXCEPT !.missing = q.missing], q)
        BY <1>1, <2>1, MissingIsTold DEF r
  <2>. QED  BY <2>1, <2>2
<1>. HIDE DEF ns, r
<1>4. file \in [1 .. m -> Journals(k.stages)]
  <2>1. \A i \in 1 .. m : Apply(r, Missing(ns(i))) \in Journals(k.stages)
    <3>1. \A i \in 1 .. m : i \in Nat
          BY <1>1
    <3>. QED  BY <1>3, <3>1 DEF Told
  <2>. QED  BY <2>1
<1>5. \A i \in 1 .. m : file[i] = Apply(r, Missing(ns(i)))
      OBVIOUS
<1>. HIDE DEF file
<1>6. file \in Seq(Journals(k.stages)) /\ Len(file) = m
  <2>. DEFINE J == Journals(k.stages)
  <2>. HIDE DEF J
  <2>1. file \in Seq(J) /\ file \in [1 .. m -> J]
        BY <1>1, <1>4, SeqDef DEF J
  <2>2. Len(file) \in Nat /\ DOMAIN file = 1 .. Len(file) /\ DOMAIN file = 1 .. m
        BY <2>1, LenProperties
  <2>. QED  BY <1>1, <2>1, <2>2 DEF J
<1>7. /\ c.out \o file \in Seq(Journals(k.stages))
      /\ Len(c.out \o file) = Len(c.out) + m /\ Len(c.out) \in Nat
      /\ \A i \in 1 .. Len(c.out) + m :
            (c.out \o file)[i] = IF i <= Len(c.out) THEN c.out[i] ELSE file[i - Len(c.out)]
      BY <1>1, <1>6, ConcatProperties, LenProperties
<1>8. d \in Controllers(k.stages) /\ Alike(c, d) /\ d.out = c.out \o file
      BY <1>1, <1>2, <1>7 DEF Controllers, Alike
<1>9. \A n \in DOMAIN d.out : Told(k, from, d.out[n])
  <2>1. SUFFICES ASSUME NEW n \in 1 .. Len(c.out) + m
                 PROVE  Told(k, from, d.out[n])
        BY <1>7, <1>8, LenProperties
  <2>2. CASE n <= Len(c.out)
    <3>1. n \in DOMAIN c.out /\ d.out[n] = c.out[n]
          BY <1>1, <1>7, <1>8, <2>2, LenProperties
    <3>. QED  BY <3>1 DEF Handling
  <2>3. CASE ~(n <= Len(c.out))
    <3>1. n - Len(c.out) \in 1 .. m /\ n - Len(c.out) \in Nat
          BY <1>1, <1>7, <2>3
    <3>2. d.out[n] = Apply(r, Missing(ns(n - Len(c.out))))
          BY <1>5, <1>7, <1>8, <2>3, <3>1
    <3>. QED  BY <1>3, <3>1, <3>2
  <2>. QED  BY <2>2, <2>3
<1>10. CASE m = 0
  <2>1. file = << >>
        BY <1>6, <1>10, EmptySeq
  <2>2. d.out = c.out
        BY <1>1, <1>8, <2>1
  <2>3. Written(d) = r
        BY <2>2 DEF Written, r
  <2>4. Same([r EXCEPT !.missing = r.missing], r)
        BY <1>1 DEF Same, Journals
  <2>5. Extends(r.missing, r.missing, past, 0)
    <3>1. Len(r.missing) \in Nat /\ DOMAIN r.missing = 1 .. Len(r.missing)
          BY <1>1, LenProperties
    <3>2. 1 .. Len(r.missing) = 1 .. Len(r.missing) + 0
          /\ Len(r.missing) + 1 .. Len(r.missing) + 0 = {}
          BY <3>1
    <3>. QED  BY <3>1, <3>2 DEF Extends
  <2>. QED  BY <1>1, <1>8, <1>9, <1>10, <2>3, <2>4, <2>5 DEF Handling, m, r, past
<1>11. CASE m # 0
  <2>1. /\ Len(d.out) = Len(c.out) + m /\ Len(d.out) \in 1 .. Len(c.out) + m
        /\ ~(Len(d.out) <= Len(c.out)) /\ Len(d.out) - Len(c.out) = m /\ m \in 1 .. m
        BY <1>1, <1>7, <1>8, <1>11
  <2>2. d.out # << >>
        BY <1>7, <1>8, <2>1
  <2>3. Written(d) = Apply(r, Missing(ns(m)))
        BY <1>5, <1>7, <1>8, <2>1, <2>2 DEF Written, Last
  <2>. QED  BY <1>1, <1>3, <1>8, <1>9, <2>3 DEF Handling, m, r, past
<1>. QED  BY <1>10, <1>11

\* One official shot more, the next of its stage.
AddsShot(r, q, shot) ==
    /\ q.officials = r.officials \cup {shot} /\ shot \notin r.officials
    /\ \A o \in r.officials : o.n # shot.n
    /\ Cardinality(q.officials) = Cardinality(r.officials) + 1
    /\ ShotsOf(q, shot.stage) = ShotsOf(r, shot.stage) + 1
    /\ NumbersOf(q, shot.stage) = NumbersOf(r, shot.stage) \cup {shot.n}
    /\ \A t : t # shot.stage =>
          ShotsOf(q, t) = ShotsOf(r, t) /\ NumbersOf(q, t) = NumbersOf(r, t)

LEMMA ShotAdds ==
    ASSUME NEW r, IsFiniteSet(r.officials), NEW shot,
           \A o \in r.officials : o.n # shot.n,
           NEW q, q.officials = r.officials \cup {shot}
    PROVE  AddsShot(r, q, shot)
<1>1. shot \notin r.officials
      OBVIOUS
<1>2. Cardinality(q.officials) = Cardinality(r.officials) + 1
      BY <1>1, FS_AddElement
<1>3. OfStage(q, shot.stage) = OfStage(r, shot.stage) \cup {shot}
      BY DEF OfStage
<1>4. OfStage(r, shot.stage) \subseteq r.officials /\ shot \notin OfStage(r, shot.stage)
      BY <1>1 DEF OfStage
<1>5. IsFiniteSet(OfStage(r, shot.stage))
      BY <1>4, FS_Subset
<1>6. ShotsOf(q, shot.stage) = ShotsOf(r, shot.stage) + 1
      BY <1>3, <1>4, <1>5, FS_AddElement DEF ShotsOf
<1>7. NumbersOf(q, shot.stage) = NumbersOf(r, shot.stage) \cup {shot.n}
      BY <1>3 DEF NumbersOf
<1>8. ASSUME NEW t, t # shot.stage
      PROVE  ShotsOf(q, t) = ShotsOf(r, t) /\ NumbersOf(q, t) = NumbersOf(r, t)
  <2>1. OfStage(q, t) = OfStage(r, t)
        BY <1>8 DEF OfStage
  <2>. QED  BY <2>1 DEF ShotsOf, NumbersOf
<1>. QED  BY <1>1, <1>2, <1>6, <1>7, <1>8 DEF AddsShot

IsNextNumber(k, r, s, n) ==
    ~r.refused => n = k.base[s] + ShotsOf(r, s) + 1 /\ ShotsOf(r, s) < k.limit[s]

LEMMA ShotIsTold ==
    ASSUME NEW k, IsCourse(k), NEW from, NEW r, Told(k, from, r), r.life = "Active",
           NEW s \in k.match, r.stage = s, NEW n \in Int, NEW ext \in Int,
           IsNextNumber(k, r, s, n), NEW e, e = Accepted(n, ext, s), NEW q, q = Apply(r, e),
           NEW shot, shot = [n |-> n, ext |-> ext, stage |-> s]
    PROVE  /\ Told(k, from, q)
           /\ q.stage = r.stage /\ q.phase = r.phase /\ q.life = r.life
           /\ q.status = r.status /\ q.missing = r.missing
           /\ ~q.refused => ~r.refused /\ AddsShot(r, q, shot)
<1>1. r \in Journals(k.stages) /\ IsFiniteSet(r.officials) /\ s \in Int
      BY DEF Told, Placed, IsCourse
<1>2. CASE Refuses(r, e)
  <2>1. q = [r EXCEPT !.refused = TRUE]
        BY <1>1, <1>2 DEF Apply, Accepted, Journals
  <2>2. q \in Journals(k.stages) /\ q.refused
        BY <1>1, <2>1 DEF Journals
  <2>4. /\ q.officials = r.officials /\ q.stage = r.stage /\ q.phase = r.phase
        /\ q.life = r.life /\ q.status = r.status /\ q.missing = r.missing
        BY <1>1, <2>1 DEF Journals
  <2>5. Placed(k, q) /\ Follows(k, from, q)
        BY <2>4 DEF Told, Placed, Follows
  <2>. QED  BY <2>2, <2>4, <2>5 DEF Told, Counted
<1>3. CASE ~Refuses(r, e)
  <2>0. e = [type |-> "ShotAccepted", shot |-> shot]
        BY DEF Accepted
  <2>01. \A o \in r.officials : o.n # n
         BY <1>3, <2>0 DEF Refuses
  <2>02. Reduced(r, e) = [r EXCEPT !.officials = r.officials \cup {shot}]
         BY <1>1, <2>0 DEF Reduced, Journals
  <2>03. q = [[r EXCEPT !.officials = r.officials \cup {shot}] EXCEPT !.elapsed = r.age]
         BY <1>1, <1>3, <2>02 DEF Apply, Journals
  <2>1. /\ \A o \in r.officials : o.n # n
        /\ q = [r EXCEPT !.officials = r.officials \cup {shot}, !.elapsed = r.age]
        BY <2>01, <2>03
  <2>2. q \in Journals(k.stages) /\ q.officials = r.officials \cup {shot}
    <3>. DEFINE shots == r.officials \cup {shot}
    <3>1. shot \in [n : Int, ext : Int, stage : Int]
          BY <1>1
    <3>2. shots \in SUBSET [n : Int, ext : Int, stage : Int]
          BY <1>1, <3>1 DEF Journals
    <3>3. q = [r EXCEPT !.officials = shots, !.elapsed = r.age]
          BY <2>1
    <3>. HIDE DEF shots
    <3>4. q \in Journals(k.stages) /\ q.officials = shots
          BY <1>1, <3>2, <3>3 DEF Journals
    <3>. QED  BY <3>4 DEF shots
  <2>3. /\ q.refused = r.refused /\ q.stage = r.stage /\ q.phase = r.phase
        /\ q.life = r.life /\ q.status = r.status /\ q.missing = r.missing
        BY <1>1, <2>1 DEF Journals
  <2>5. shot.n = n /\ shot.stage = s
        OBVIOUS
  <2>6. AddsShot(r, q, shot)
        BY <1>1, <2>1, <2>2, <2>5, ShotAdds
  <2>7. Placed(k, q)
    <3>1. \A x : IsFiniteSet(r.officials \cup {x})
          BY <1>1, FS_AddElement
    <3>2. \A o \in q.officials : o.stage \in k.match /\ o.stage <= q.stage
      <4>1. SUFFICES ASSUME NEW o \in q.officials
                     PROVE  o.stage \in k.match /\ o.stage <= q.stage
            OBVIOUS
      <4>2. CASE o \in r.officials
            BY <2>3, <4>2 DEF Told, Placed
      <4>3. CASE o = shot
            BY <1>1, <2>3, <2>5, <4>3
      <4>. QED  BY <2>2, <4>1, <4>2, <4>3
    <3>3. IsFiniteSet(q.officials)
          BY <2>2, <3>1
    <3>. QED  BY <2>3, <3>2, <3>3 DEF Told, Placed
  <2>8. Follows(k, from, q)
        BY <2>3 DEF Told, Follows
  <2>9. ASSUME ~q.refused
        PROVE  Ranked(k, q) /\ Covered(k, q, PassedIn(k, q))
    <3>1. Ranked(k, r) /\ Covered(k, r, PassedIn(k, r)) /\ PassedIn(k, q) = PassedIn(k, r)
          /\ n = k.base[s] + ShotsOf(r, s) + 1 /\ ShotsOf(r, s) < k.limit[s]
          BY <2>3, <2>9 DEF Told, Counted, PassedIn, IsNextNumber
    <3>2. ASSUME NEW o \in q.officials, NEW p \in q.officials, o.stage = p.stage, o.n = p.n
          PROVE  o = p
          BY <2>1, <2>2, <2>5, <3>1, <3>2 DEF Ranked
    <3>3. ASSUME NEW t \in k.match
          PROVE  /\ ShotsOf(q, t) <= k.limit[t]
                 /\ NumbersOf(q, t) = k.base[t] + 1 .. k.base[t] + ShotsOf(q, t)
      <4>1. CASE t # s
            BY <2>5, <2>6, <3>1, <4>1 DEF AddsShot, Ranked
      <4>2. CASE t = s
        <5>1. /\ ShotsOf(q, s) = ShotsOf(r, s) + 1 /\ NumbersOf(q, s) = NumbersOf(r, s) \cup {n}
              /\ NumbersOf(r, s) = k.base[s] + 1 .. k.base[s] + ShotsOf(r, s)
              BY <2>5, <2>6, <3>1 DEF AddsShot, Ranked
        <5>2. ShotsOf(r, s) \in Nat /\ k.base[s] \in Nat /\ k.limit[s] \in Nat
          <6>1. OfStage(r, s) \subseteq r.officials
                BY DEF OfStage
          <6>. QED  BY <1>1, <6>1, FS_Subset, FS_CardinalityType DEF ShotsOf, IsCourse
        <5>3. PICK x \in Nat, lo \in Nat, m \in Nat :
                  x = ShotsOf(r, s) /\ lo = k.base[s] /\ m = k.limit[s]
              BY <5>2
        <5>4. x + 1 <= m /\ (lo + 1 .. lo + x) \cup {lo + x + 1} = lo + 1 .. lo + (x + 1)
              BY <3>1, <5>3
        <5>. QED  BY <3>1, <4>2, <5>1, <5>3, <5>4
      <4>. QED  BY <4>1, <4>2
    <3>4. \A t : NumbersOf(r, t) \subseteq NumbersOf(q, t)
          BY <2>5, <2>6 DEF AddsShot
    <3>. QED  BY <2>3, <3>1, <3>2, <3>3, <3>4 DEF Ranked, Covered
  <2>. QED  BY <2>2, <2>3, <2>6, <2>7, <2>8, <2>9 DEF Told, Counted
<1>. QED  BY <1>2, <1>3

\* The verdict Complete goes with the shot that fills the stage.
LEMMA ShotIsExact ==
    ASSUME NEW k, IsCourse(k), NEW r, NEW q, NEW S, NEW shot, Exact(k, r, S),
           AddsShot(r, q, shot), shot.stage \in k.match \ S, q.missing = r.missing,
           ShotsOf(r, shot.stage) \in Nat, ShotsOf(r, shot.stage) < k.limit[shot.stage],
           \A t \in k.match \ {shot.stage} : q.status[t] = r.status[t],
           q.status[shot.stage] \in {"Complete", "Incomplete"} =>
               \/ q.status[shot.stage] = r.status[shot.stage]
               \/ q.status[shot.stage] = "Complete"
                  /\ ShotsOf(r, shot.stage) + 1 = k.limit[shot.stage]
    PROVE  Exact(k, q, S)
<1>. DEFINE s == shot.stage
<1>1. r.status[s] \notin {"Complete", "Incomplete"}
  <2>1. k.limit[s] \in Nat
        BY DEF IsCourse
  <2>. QED  BY <2>1 DEF Exact
<1>2. /\ ShotsOf(q, s) = ShotsOf(r, s) + 1
      /\ \A t : t # s => ShotsOf(q, t) = ShotsOf(r, t) /\ NumbersOf(q, t) = NumbersOf(r, t)
      BY DEF AddsShot
<1>. HIDE DEF s
<1>3. \A i \in DOMAIN r.missing : r.missing[i] \notin NumbersIn(k, s)
      BY DEF Exact, s
<1>4. ASSUME NEW t \in k.match
      PROVE  /\ \A i \in DOMAIN q.missing : q.missing[i] \in NumbersIn(k, t) =>
                    t \in S /\ q.missing[i] \notin NumbersOf(q, t)
             /\ q.status[t] = "Complete" => ShotsOf(q, t) = k.limit[t]
             /\ q.status[t] = "Incomplete" => t \in S /\ ShotsOf(q, t) # k.limit[t]
  <2>1. CASE t = s
        BY <1>1, <1>2, <1>3, <2>1 DEF s
  <2>2. CASE t # s
        BY <1>2, <2>2 DEF Exact, s
  <2>. QED  BY <2>1, <2>2
<1>5. \A i, j \in DOMAIN q.missing : q.missing[i] = q.missing[j] => i = j
      BY DEF Exact
<1>. QED  BY <1>4, <1>5 DEF Exact
-----------------------------------------------------------------------------
(* What handlers are made of.                                              *)

\* A handler before it enters a stage or after: what is over is in S, and the
\* verdicts are true, unless a crash has cut a handler short.
Steady(k, from, whole, S, c) ==
    /\ Handling(k, from, c)
    /\ c.status = Written(c).status /\ Written(c).life = "Active"
    /\ Counted(k, Written(c), S)
    /\ whole /\ ~Written(c).refused => Exact(k, Written(c), S)

\* Events that move neither the course nor the shots.
Beside(c, d) ==
    /\ Written(d).stage = Written(c).stage /\ Written(d).phase = Written(c).phase
    /\ Written(d).officials = Written(c).officials
    /\ Written(d).refused = Written(c).refused

LEMMA SameIsSteady ==
    ASSUME NEW k, NEW from, NEW whole, NEW S, NEW c, Steady(k, from, whole, S, c),
           NEW d, Handling(k, from, d), d.status = c.status, Same(Written(c), Written(d))
    PROVE  Steady(k, from, whole, S, d) /\ Beside(c, d)
<1>. DEFINE r == Written(c)
            q == Written(d)
<1>1. Counted(k, r, S) /\ c.status = r.status /\ r.life = "Active"
      /\ (whole /\ ~r.refused => Exact(k, r, S))
      BY DEF Steady
<1>. HIDE DEF r, q
<1>2. Same(r, q)
      BY DEF r, q
<1>3. Counted(k, q, S)
      BY <1>1, <1>2, SameIsCovered
<1>4. whole /\ ~q.refused => Exact(k, q, S)
      BY <1>1, <1>2, SameIsExact DEF Same
<1>5. d.status = q.status /\ q.life = "Active" /\ q.stage = r.stage /\ q.phase = r.phase
      /\ q.officials = r.officials /\ q.refused = r.refused
      BY <1>1, <1>2 DEF Same
<1>. QED  BY <1>3, <1>4, <1>5 DEF Steady, Beside, r, q

LEMMA AdjustedSteady ==
    ASSUME NEW k, NEW from, NEW whole, NEW S, NEW c, Steady(k, from, whole, S, c),
           NEW d \in Controllers(k.stages), d.out = c.out, d.status = c.status
    PROVE  Steady(k, from, whole, S, d) /\ Beside(c, d)
<1>1. Handling(k, from, d) /\ Written(d) = Written(c)
      BY Adjusted DEF Steady
<1>. QED  BY <1>1 DEF Steady, Beside

LEMMA CommandSteady ==
    ASSUME NEW k, NEW from, NEW whole, NEW S, NEW c, Steady(k, from, whole, S, c),
           NEW d, d = IssueCommand(c)
    PROVE  Steady(k, from, whole, S, d) /\ Alike(c, d) /\ Beside(c, d)
<1>1. Handling(k, from, d) /\ Alike(c, d) /\ Same(Written(c), Written(d))
      BY CommandIssued DEF Steady
<1>2. d.status = c.status
      BY <1>1 DEF Alike
<1>. QED  BY <1>1, <1>2, SameIsSteady

LEMMA WindowSteady ==
    ASSUME NEW k, NEW from, NEW whole, NEW S, NEW c, Steady(k, from, whole, S, c),
           NEW w \in Windows, NEW d, d = SetWindow(c, w)
    PROVE  /\ Steady(k, from, whole, S, d) /\ Alike([c EXCEPT !.window = w], d)
           /\ Beside(c, d)
<1>1. /\ Handling(k, from, d) /\ Alike([c EXCEPT !.window = w], d)
      /\ Same(Written(c), Written(d))
      BY WindowSet DEF Steady
<1>2. d.status = c.status
      BY <1>1 DEF Alike, Steady, Handling, Controllers
<1>. QED  BY <1>1, <1>2, SameIsSteady

\* A verdict is set when it is true.
LEMMA StatusSteady ==
    ASSUME NEW k, IsCourse(k), NEW from, NEW whole, NEW S, NEW c,
           Steady(k, from, whole, S, c), NEW s \in k.stages, NEW v \in Statuses,
           ~Written(c).refused /\ s \in k.match =>
              /\ v = "Complete" => ShotsOf(Written(c), s) = k.limit[s]
              /\ v = "Incomplete" => s \in S /\ ShotsOf(Written(c), s) # k.limit[s],
           NEW d, d = SetStageStatus(c, s, v)
    PROVE  /\ Steady(k, from, whole, S, d) /\ Alike([c EXCEPT !.status = d.status], d)
           /\ Beside(c, d)
<1>. DEFINE r == Written(c)
            q == Written(d)
<1>1. /\ Handling(k, from, d) /\ Alike([c EXCEPT !.status = d.status], d)
      /\ Same([r EXCEPT !.status = d.status], q)
      /\ d.status = IF c.status[s] \in Verdicts THEN c.status ELSE [c.status EXCEPT ![s] = v]
      BY StatusSet DEF Steady
<1>2. r \in Journals(k.stages)
      BY DEF Steady, Handling, Told
<1>3. /\ q.stage = r.stage /\ q.phase = r.phase /\ q.life = r.life
      /\ q.officials = r.officials /\ q.status = d.status
      /\ q.missing = r.missing /\ q.refused = r.refused
      BY <1>1, <1>2 DEF Same, Journals
<1>4. Beside(c, d)
      BY <1>3 DEF Beside
<1>5. \A t : ShotsOf(q, t) = ShotsOf(r, t) /\ NumbersOf(q, t) = NumbersOf(r, t)
      BY <1>3, SameShots
<1>6. /\ Counted(k, r, S) /\ c.status = r.status /\ r.life = "Active"
      /\ (whole /\ ~r.refused => Exact(k, r, S)) /\ r.status \in [k.stages -> Statuses]
      BY <1>2 DEF Steady, Journals
<1>7. Counted(k, q, S)
      BY <1>3, <1>5, <1>6 DEF Counted, Ranked, Covered
<1>8. ASSUME whole, ~q.refused
      PROVE  Exact(k, q, S)
  <2>1. Exact(k, r, S) /\ ~r.refused
        BY <1>3, <1>6, <1>8
  <2>2. ASSUME NEW t \in k.match
        PROVE  /\ q.status[t] = "Complete" => ShotsOf(q, t) = k.limit[t]
               /\ q.status[t] = "Incomplete" => t \in S /\ ShotsOf(q, t) # k.limit[t]
    <3>1. CASE q.status[t] = r.status[t]
          BY <1>5, <2>1, <3>1 DEF Exact
    <3>2. CASE q.status[t] # r.status[t]
      <4>1. d.status = [r.status EXCEPT ![s] = v]
            BY <1>1, <1>3, <1>6, <3>2
      <4>2. t \in k.stages
            BY DEF IsCourse
      <4>3. t = s /\ q.status[t] = v
            BY <1>3, <1>6, <3>2, <4>1, <4>2
      <4>. QED  BY <1>5, <2>1, <4>3
    <3>. QED  BY <3>1, <3>2
  <2>. QED  BY <1>3, <1>5, <2>1, <2>2 DEF Exact
<1>9. d.status = q.status /\ q.life = "Active"
      BY <1>3, <1>6
<1>. QED  BY <1>1, <1>4, <1>7, <1>8, <1>9 DEF Steady

\* Nothing is missing of a stage with more shots than it asks for.
LEMMA NoneMissing ==
    ASSUME NEW k, NEW from, NEW c, Handling(k, from, c), NEW b, NEW shots \in Nat,
           NEW limit \in Nat, ~(shots <= limit)
    PROVE  MissingRange(c, b, shots, limit) = c
<1>1. 1 .. (limit - shots) = {}
      OBVIOUS
<1>. DEFINE file == [i \in 1 .. (limit - shots) |->
                        Apply(Written(c), Missing([j \in 1 .. i |-> b + shots + j]))]
            J == Journals(k.stages)
<1>2. file = [i \in {} |-> Apply(Written(c), Missing([j \in 1 .. i |-> b + shots + j]))]
      BY <1>1
<1>3. file \in [1 .. 0 -> J] /\ 1 .. 0 = {}
      BY <1>2
<1>4. c \in Controllers(k.stages) /\ c.out \in Seq(J)
      BY DEF Handling, Controllers
<1>. HIDE DEF file, J
<1>5. file \in Seq(J)
      BY <1>3, SeqDef
<1>6. Len(file) = 0
      BY <1>3, <1>5, LenProperties
<1>7. file = << >>
      BY <1>5, <1>6, EmptySeq
<1>8. c.out \o file = c.out
      BY <1>4, <1>7
<1>9. MissingRange(c, b, shots, limit) = [c EXCEPT !.out = c.out \o file]
      BY <1>4 DEF MissingRange, Controllers, file
<1>. QED  BY <1>4, <1>8, <1>9 DEF Controllers

\* recordMissingShots: the stage is accounted for.
LEMMA MissingSteady ==
    ASSUME NEW k, IsCourse(k), NEW from, NEW whole, NEW S, NEW c,
           Steady(k, from, whole, S, c), NEW s \in k.match, s \notin S, S \in SUBSET k.match,
           NEW shots \in Nat,
           ~Written(c).refused => shots = ShotsOf(Written(c), s),
           NEW d, d = MissingRange(c, k.base[s], shots, k.limit[s])
    PROVE  Steady(k, from, whole, S \cup {s}, d) /\ Alike(c, d) /\ Beside(c, d)
<1>. DEFINE r == Written(c)
            q == Written(d)
<1>1. k.base[s] \in Nat /\ k.limit[s] \in Nat
      BY DEF IsCourse
<1>2. /\ Handling(k, from, c) /\ Counted(k, r, S) /\ c.status = r.status
      /\ r.life = "Active" /\ (whole /\ ~r.refused => Exact(k, r, S))
      /\ r \in Journals(k.stages)
      BY DEF Steady, Handling, Told
<1>3. CASE shots <= k.limit[s]
  <2>1. /\ Handling(k, from, d) /\ Alike(c, d)
        /\ Same([r EXCEPT !.missing = q.missing], q)
        /\ Extends(r.missing, q.missing, k.base[s] + shots, k.limit[s] - shots)
        BY <1>1, <1>2, <1>3, MissingSubmitted
  <2>2. /\ q.stage = r.stage /\ q.phase = r.phase /\ q.life = r.life
        /\ q.officials = r.officials /\ q.status = r.status /\ q.refused = r.refused
        BY <1>2, <2>1 DEF Same, Journals
  <2>. HIDE DEF r, q
  <2>3. /\ Counted(k, q, S \cup {s})
        /\ ~r.refused /\ Ranked(k, r) /\ Exact(k, r, S) => Exact(k, q, S \cup {s})
    <3>1. r \in Journals(k.stages) /\ q \in Journals(k.stages)
          BY <1>2, <2>1 DEF Handling, Told, q
    <3>2. ~r.refused => shots = ShotsOf(r, s)
          BY DEF r
    <3>. QED  BY <1>2, <1>3, <2>1, <3>1, <3>2, MissingAreCounted
  <2>4. whole /\ ~q.refused => Exact(k, q, S \cup {s})
        BY <1>2, <2>2, <2>3 DEF Counted
  <2>5. Beside(c, d)
        BY <2>2 DEF Beside, r, q
  <2>6. d.status = q.status /\ q.life = "Active"
        BY <1>2, <2>1, <2>2 DEF Alike
  <2>. QED  BY <1>2, <2>1, <2>2, <2>3, <2>4, <2>5, <2>6 DEF Steady, q
<1>4. CASE ~(shots <= k.limit[s])
  <2>1. d = c
        BY <1>1, <1>2, <1>4, NoneMissing
  <2>2. r.refused
    <3>1. SUFFICES ASSUME ~r.refused PROVE FALSE
          OBVIOUS
    <3>2. shots = ShotsOf(r, s) /\ Ranked(k, r)
          BY <1>2, <3>1 DEF Counted
    <3>3. ShotsOf(r, s) <= k.limit[s]
          BY <3>2 DEF Ranked
    <3>. QED  BY <1>4, <3>2, <3>3
  <2>3. Counted(k, r, S \cup {s})
        BY <2>2 DEF Counted
  <2>4. Alike(c, c) /\ Beside(c, c)
        BY DEF Alike, Beside
  <2>. QED  BY <1>2, <2>1, <2>2, <2>3, <2>4 DEF Steady
<1>. QED  BY <1>3, <1>4

\* The journal enters a stage, or its phase.
LEMMA StageSteady ==
    ASSUME NEW k, IsCourse(k), NEW from, NEW whole, NEW S, NEW c,
           Steady(k, from, whole, S, c), NEW s \in k.stages, s < k.end, S = PassedAt(k, s),
           Written(c).stage <= s, NEW p \in k.phases[s], NEW e,
           e = Phase(p, s) \/ (e = Entered(s) /\ Written(c).phase = p),
           NEW d, d = Emit(c, e)
    PROVE  /\ Steady(k, from, whole, S, d) /\ Alike(c, d)
           /\ Written(d).stage = s /\ Written(d).phase = p
           /\ Written(d).officials = Written(c).officials
           /\ Written(d).refused = Written(c).refused
<1>. DEFINE r == Written(c)
            q == Apply(r, e)
<1>1. /\ Handling(k, from, c) /\ Told(k, from, r) /\ Counted(k, r, S)
      /\ c.status = r.status /\ r.life = "Active"
      /\ (whole /\ ~r.refused => Exact(k, r, S)) /\ r \in Journals(k.stages)
      BY DEF Steady, Handling, Told
<1>2. s \in Int /\ p \in Phases /\ k.stages \subseteq Int
      BY DEF IsCourse
<1>. HIDE DEF r
<1>3. q = [r EXCEPT !.stage = s, !.phase = p, !.elapsed = r.age]
  <2>1. CASE e = Phase(p, s)
        BY <1>1, <2>1 DEF Apply, Refuses, Reduced, Phase, Journals
  <2>2. CASE e = Entered(s) /\ r.phase = p
        BY <1>1, <2>2 DEF Apply, Refuses, Reduced, Entered, Journals
  <2>. QED  BY <2>1, <2>2 DEF r
<1>. HIDE DEF q
<1>4. q \in Journals(k.stages) /\ Same([r EXCEPT !.stage = s, !.phase = p], q)
      BY <1>1, <1>2, <1>3 DEF Journals, Same
<1>5. Told(k, from, q)
      BY <1>1, <1>2, <1>4, StageIsTold DEF r
<1>6. Handling(k, from, d) /\ Alike(c, d) /\ Written(d) = q
      BY <1>1, <1>5, Emitted DEF r, q
<1>7. /\ q.stage = s /\ q.phase = p /\ q.life = "Active" /\ q.officials = r.officials
      /\ q.status = r.status /\ q.missing = r.missing /\ q.refused = r.refused
      BY <1>1, <1>3 DEF Journals
<1>8. \A t : ShotsOf(q, t) = ShotsOf(r, t) /\ NumbersOf(q, t) = NumbersOf(r, t)
      BY <1>7, SameShots
<1>9. Counted(k, q, S) /\ (whole /\ ~q.refused => Exact(k, q, S))
      BY <1>1, <1>7, <1>8 DEF Counted, Ranked, Covered, Exact
<1>10. d.status = q.status
       BY <1>1, <1>6, <1>7 DEF Alike
<1>. QED  BY <1>6, <1>7, <1>9, <1>10 DEF Steady, r

\* A controller at the end of a handler, or at rest.
Settled(k, from, whole, c) ==
    /\ Handling(k, from, c) /\ c.status = Written(c).status
    /\ whole /\ ~Written(c).refused =>
          Exact(k, Written(c), PassedIn(k, Written(c)))

LEMMA SteadyIsSettled ==
    ASSUME NEW k, NEW from, NEW whole, NEW S, NEW c, Steady(k, from, whole, S, c),
           S = PassedAt(k, Written(c).stage)
    PROVE  Settled(k, from, whole, c)
<1>1. PassedIn(k, Written(c)) = S
      BY DEF Steady, PassedIn
<1>. QED  BY <1>1 DEF Settled, Steady

\* The match is over, all its stages with it.
LEMMA EndSettled ==
    ASSUME NEW k, NEW from, NEW whole, NEW c, Steady(k, from, whole, k.match, c),
           NEW d, d = Emit(c, MatchCompleted)
    PROVE  Settled(k, from, whole, d) /\ Alike(c, d) /\ Beside(c, d)
<1>. DEFINE r == Written(c)
            q == Apply(r, MatchCompleted)
<1>1. /\ Handling(k, from, c) /\ Told(k, from, r) /\ Counted(k, r, k.match)
      /\ c.status = r.status /\ r.life = "Active"
      /\ (whole /\ ~r.refused => Exact(k, r, k.match)) /\ r \in Journals(k.stages)
      BY DEF Steady, Handling, Told
<1>. HIDE DEF r
<1>2. q = [r EXCEPT !.life = "Complete", !.elapsed = r.age]
      BY <1>1 DEF Apply, Refuses, Reduced, MatchCompleted, Journals
<1>. HIDE DEF q
<1>3. /\ q.stage = r.stage /\ q.phase = r.phase /\ q.life = "Complete"
      /\ q.officials = r.officials /\ q.status = r.status /\ q.missing = r.missing
      /\ q.refused = r.refused /\ q \in Journals(k.stages)
      BY <1>1, <1>2 DEF Journals
<1>4. \A t : ShotsOf(q, t) = ShotsOf(r, t) /\ NumbersOf(q, t) = NumbersOf(r, t)
      BY <1>3, SameShots
<1>5. PassedIn(k, q) = k.match
      BY <1>3 DEF PassedIn
<1>6. Counted(k, q, k.match) /\ (whole /\ ~q.refused => Exact(k, q, k.match))
      BY <1>1, <1>3, <1>4 DEF Counted, Ranked, Covered, Exact
<1>7. Placed(k, q) /\ Follows(k, from, q)
      BY <1>1, <1>3 DEF Told, Placed, Follows
<1>8. Told(k, from, q)
      BY <1>1, <1>3, <1>5, <1>6, <1>7 DEF Told
<1>9. Handling(k, from, d) /\ Alike(c, d) /\ Written(d) = q
      BY <1>1, <1>8, Emitted DEF r, q
<1>10. d.status = q.status
       BY <1>1, <1>3, <1>9 DEF Alike
<1>. QED  BY <1>3, <1>5, <1>6, <1>9, <1>10 DEF Settled, Beside, r

LEMMA AddsLikewise ==
    ASSUME NEW r, NEW p, p.officials = r.officials, NEW q, NEW shot, AddsShot(p, q, shot)
    PROVE  AddsShot(r, q, shot)
<1>1. \A s : ShotsOf(p, s) = ShotsOf(r, s) /\ NumbersOf(p, s) = NumbersOf(r, s)
      BY SameShots
<1>. QED  BY <1>1 DEF AddsShot

\* Nothing but the verdicts and the events is new.
Unmoved(c, d) ==
    /\ d.stage = c.stage /\ d.window = c.window /\ d.mode = c.mode
    /\ d.shots = c.shots /\ d.count = c.count
    /\ d.kneeling = c.kneeling /\ d.prone = c.prone /\ d.checkpoints = c.checkpoints

\* A shot that fills its stage, the verdict it brings, and the stages over then.
Fills(k, s, shots, full) == full \in BOOLEAN /\ (full <=> shots + 1 >= k.limit[s])
Judged(c, s, full) == IF full THEN SetStageStatus(c, s, "Complete") ELSE c
OverWith(S, s, full) == IF full THEN S \cup {s} ELSE S

\* acceptShot of an official: the verdict, when the shot fills the stage, then
\* the shot.
LEMMA ShotSteady ==
    ASSUME NEW k, IsCourse(k), NEW from, NEW whole, NEW S, NEW c,
           Steady(k, from, whole, S, c), NEW s \in k.match, s \notin S,
           Written(c).stage = s, NEW shots \in Nat, NEW ext \in Int, shots < k.limit[s],
           ~Written(c).refused => shots = ShotsOf(Written(c), s),
           NEW full, Fills(k, s, shots, full), NEW j, j = Judged(c, s, full),
           NEW n \in Int, n = k.base[s] + (shots + 1),
           NEW d, d = Emit(j, Accepted(n, ext, s))
    PROVE  /\ Steady(k, from, whole, S, d)
           /\ Steady(k, from, whole, OverWith(S, s, full), d)
           /\ Unmoved(c, d)
           /\ Written(d).stage = Written(c).stage /\ Written(d).phase = Written(c).phase
           /\ ~Written(d).refused =>
                 ~Written(c).refused
                 /\ AddsShot(Written(c), Written(d), [n |-> n, ext |-> ext, stage |-> s])
<1>. USE DEF Fills, Judged, OverWith
<1>. DEFINE r == Written(c)
            p == Written(j)
            q == Apply(p, Accepted(n, ext, s))
            shot == [n |-> n, ext |-> ext, stage |-> s]
<1>1. /\ Handling(k, from, c) /\ Told(k, from, r) /\ Counted(k, r, S)
      /\ c.status = r.status /\ r.life = "Active" /\ r.stage = s
      /\ (whole /\ ~r.refused => Exact(k, r, S)) /\ r \in Journals(k.stages)
      BY DEF Steady, Handling, Told
<1>2. s \in k.stages /\ k.limit[s] \in Nat /\ k.base[s] \in Nat
      BY DEF IsCourse
<1>21. full => shots + 1 = k.limit[s]
  <2>1. PICK m \in Nat : m = k.limit[s]
        BY <1>2
  <2>2. (full <=> shots + 1 >= m) /\ shots < m
        BY <2>1
  <2>3. full => shots + 1 = m
        BY <2>2
  <2>. QED  BY <2>1, <2>3
<1>3. /\ Handling(k, from, j) /\ Alike([c EXCEPT !.status = j.status], j)
      /\ Same([r EXCEPT !.status = j.status], p)
      /\ j.status = IF full /\ c.status[s] \notin Verdicts
                    THEN [c.status EXCEPT ![s] = "Complete"] ELSE c.status
  <2>1. CASE full
    <3>1. "Complete" \in Statuses /\ j = SetStageStatus(c, s, "Complete")
          BY <2>1 DEF Statuses, Verdicts
    <3>2. /\ Handling(k, from, j) /\ Alike([c EXCEPT !.status = j.status], j)
          /\ Same([Written(c) EXCEPT !.status = j.status], Written(j))
          /\ j.status = IF c.status[s] \in Verdicts THEN c.status
                        ELSE [c.status EXCEPT ![s] = "Complete"]
          BY <1>1, <1>2, <3>1, StatusSet
    <3>. QED  BY <2>1, <3>2
  <2>2. CASE ~full
    <3>1. j = c /\ p = r /\ j.status = r.status
          BY <1>1, <2>2
    <3>2. Alike([c EXCEPT !.status = c.status], c)
          BY <1>1 DEF Alike, Handling, Controllers
    <3>3. Same([r EXCEPT !.status = r.status], r)
          BY <1>1 DEF Same, Journals
    <3>. QED  BY <1>1, <2>2, <3>1, <3>2, <3>3
  <2>. QED  BY <2>1, <2>2
<1>. HIDE DEF r, p
<1>4. /\ p.stage = s /\ p.phase = r.phase /\ p.life = "Active" /\ p.officials = r.officials
      /\ p.status = j.status /\ p.missing = r.missing /\ p.refused = r.refused
      BY <1>1, <1>3 DEF Same, Journals
<1>5. \A t : ShotsOf(p, t) = ShotsOf(r, t) /\ NumbersOf(p, t) = NumbersOf(r, t)
      BY <1>4, SameShots
<1>6. IsNextNumber(k, p, s, n) /\ Told(k, from, p)
  <2>1. ~p.refused => ShotsOf(p, s) = shots
        BY <1>4, <1>5 DEF r
  <2>2. n = k.base[s] + shots + 1
        BY <1>2
  <2>. QED  BY <1>3, <2>1, <2>2 DEF Handling, p, IsNextNumber
<1>7. /\ Told(k, from, q)
      /\ q.stage = p.stage /\ q.phase = p.phase /\ q.life = p.life
      /\ q.status = p.status /\ q.missing = p.missing
      /\ ~q.refused => ~p.refused /\ AddsShot(p, q, shot)
  <2>. HIDE DEF q, shot
  <2>. QED  BY <1>4, <1>6, ShotIsTold DEF q, shot
<1>8. p \in Journals(k.stages)
      BY <1>6 DEF Told
<1>. HIDE DEF q
<1>9. /\ q.stage = s /\ q.phase = r.phase /\ q.life = "Active" /\ q.status = j.status
      /\ q.missing = r.missing
      BY <1>4, <1>7
<1>10. /\ Handling(k, from, d) /\ Alike(j, d) /\ Written(d) = q
       BY <1>3, <1>7, Emitted DEF p, q
<1>11. d.status = j.status /\ Alike([c EXCEPT !.status = d.status], d)
  <2>1. d.status = j.status
        BY <1>10 DEF Alike
  <2>. QED  BY <1>3, <1>10, <2>1 DEF Alike
<1>. DEFINE T == OverWith(S, s, full)
<1>12. ASSUME ~q.refused
       PROVE  /\ ~r.refused /\ AddsShot(r, q, shot)
              /\ Ranked(k, q) /\ Covered(k, q, S) /\ Covered(k, q, T)
              /\ whole => Exact(k, q, S) /\ Exact(k, q, T)
  <2>1. ~r.refused /\ AddsShot(r, q, shot)
        BY <1>4, <1>7, <1>12, AddsLikewise
  <2>2. Ranked(k, q) /\ Covered(k, r, S) /\ shots = ShotsOf(r, s)
        BY <1>1, <1>7, <1>12, <2>1 DEF Told, Counted, r
  <2>3. shot.stage = s
        OBVIOUS
  <2>. HIDE DEF shot
  <2>4. ShotsOf(q, s) = shots + 1
        BY <2>1, <2>2, <2>3 DEF AddsShot
  <2>5. \A t : NumbersOf(r, t) \subseteq NumbersOf(q, t)
        BY <2>1, <2>3 DEF AddsShot
  <2>6. Covered(k, q, S)
        BY <1>9, <2>2, <2>5 DEF Covered
  <2>7. ASSUME full
        PROVE  ShotsOf(q, s) = k.limit[s] /\ Covered(k, q, {s})
    <3>1. ShotsOf(q, s) = k.limit[s]
          BY <1>21, <2>4, <2>7
    <3>2. NumbersOf(q, s) = NumbersIn(k, s)
          BY <2>2, <3>1 DEF Ranked, NumbersIn
    <3>. QED  BY <3>1, <3>2 DEF Covered
  <2>8. Covered(k, q, T)
        BY <2>6, <2>7 DEF Covered
  <2>9. ASSUME whole
        PROVE  Exact(k, q, S) /\ Exact(k, q, T)
    <3>1. Exact(k, r, S)
          BY <1>1, <2>1, <2>9
    <3>2. \A t \in k.match \ {s} : q.status[t] = r.status[t]
      <4>1. k.match \subseteq k.stages /\ r.status \in [k.stages -> Statuses]
            BY <1>1 DEF IsCourse, Journals
      <4>. QED  BY <1>1, <1>3, <1>9, <4>1
    <3>3. q.status[s] = r.status[s] \/ (q.status[s] = "Complete" /\ shots + 1 = k.limit[s])
      <4>1. r.status \in [k.stages -> Statuses]
            BY <1>1 DEF Journals
      <4>. QED  BY <1>1, <1>2, <1>21, <1>3, <1>9, <4>1
    <3>4. Exact(k, q, S)
          BY <1>9, <2>1, <2>2, <2>3, <3>1, <3>2, <3>3, ShotIsExact
    <3>. QED  BY <3>4 DEF Exact
  <2>. QED  BY <2>1, <2>2, <2>6, <2>8, <2>9
<1>13. Counted(k, q, S) /\ Counted(k, q, T)
       BY <1>12 DEF Counted
<1>14. Unmoved(c, d)
  <2>1. c \in Controllers(k.stages)
        BY <1>1 DEF Handling
  <2>. QED  BY <1>11, <2>1 DEF Alike, Unmoved, Controllers
<1>. HIDE DEF T, shot
<1>15. Steady(k, from, whole, S, d) /\ Steady(k, from, whole, T, d)
  <2>1. /\ d.status = q.status /\ q.life = "Active" /\ Written(d) = q /\ Handling(k, from, d)
        /\ d.status = Written(d).status
        BY <1>9, <1>10, <1>11
  <2>2. whole /\ ~q.refused => Exact(k, q, S) /\ Exact(k, q, T)
        BY <1>12
  <2>. QED  BY <1>13, <2>1, <2>2 DEF Steady
<1>. QED  BY <1>9, <1>10, <1>12, <1>14, <1>15 DEF r, T, shot
-----------------------------------------------------------------------------
(* The two courses.                                                        *)

Sighting3 == {F3!KneelingPrepSight, F3!ProneSighting, F3!StandingSighting}

Course3 ==
    [stages |-> F3!Stages, match |-> F3!MatchStages,
     limit |-> [s \in F3!MatchStages |-> F3!StageShotLimit(s)],
     base |-> [s \in F3!MatchStages |-> F3!StageShotNumberBase(s)],
     over |-> [s \in F3!MatchStages |-> IF s \in F3!Commanded THEN s + 1 ELSE F3!Series1],
     end |-> F3!Complete,
     phases |-> [s \in F3!Stages |->
        IF s \in F3!MatchStages THEN {"OfficialMatch"}
        ELSE IF s \in Sighting3 THEN {"Preparation", "Sighting"} ELSE Phases]]

Course10 ==
    [stages |-> F10!Stages, match |-> F10!Commanded,
     limit |-> [s \in F10!Commanded |-> F10!StageShotLimit(s)],
     base |-> [s \in F10!Commanded |-> F10!StageShotNumberBase(s)],
     over |-> [s \in F10!Commanded |-> s + 1],
     end |-> F10!Complete,
     phases |-> [s \in F10!Stages |->
        IF s \in F10!Commanded THEN {"OfficialMatch"} ELSE Phases]]

LEMMA Multiples ==
    ASSUME NEW a \in Nat, NEW b \in Nat, NEW m \in Nat, a < b
    PROVE  a * m \in Nat /\ b * m \in Nat /\ a * m + m <= b * m
<1>1. PICK d \in Nat : b = a + 1 + d
  <2>1. b - a - 1 \in Nat /\ b = a + 1 + (b - a - 1)
        OBVIOUS
  <2>. QED  BY <2>1
<1>2. b * m = a * m + m + d * m
      BY <1>1
<1>3. d * m \in Nat /\ a * m \in Nat
      OBVIOUS
<1>. QED  BY <1>2, <1>3

LEMMA StagesOf3 ==
    /\ Singles3P \in Nat \ {0}
    /\ F3!Idle = 0 /\ F3!Ceremony = 1 /\ F3!KneelingPrepSight = 2 /\ F3!KneelingMatch = 3
    /\ F3!ProneSighting = 4 /\ F3!ProneMatch = 5 /\ F3!StandingSighting = 6
    /\ F3!Series1 = 7 /\ F3!Single1 = 9 /\ F3!Complete = 9 + Singles3P
    /\ F3!Aborted = 10 + Singles3P /\ F3!Stages = 0 .. 10 + Singles3P
    /\ F3!Commanded = 7 .. 8 + Singles3P /\ F3!Stage1 = {3, 4, 5, 6}
    /\ F3!MatchStages = {3, 5} \cup 7 .. 8 + Singles3P
    /\ \A c : F3!Running(c) <=> c.stage \in 1 .. 8 + Singles3P
BY FinalsAssumption
   DEF F3!Finals3PAssumption, F3!Idle, F3!Ceremony, F3!KneelingPrepSight, F3!KneelingMatch,
       F3!ProneSighting, F3!ProneMatch, F3!StandingSighting, F3!Series1, F3!Single1,
       F3!Complete, F3!Aborted, F3!Stages, F3!Commanded, F3!Stage1, F3!MatchStages, F3!Running

LEMMA StagesOf10 ==
    /\ Singles10m \in Nat \ {0} /\ PerSeries \in Nat \ {0}
    /\ F10!Idle = -1 /\ F10!Presentation = 0 /\ F10!PrepSighting = 1
    /\ F10!Series1 = 2 /\ F10!Single1 = 4 /\ F10!Complete = 4 + Singles10m
    /\ F10!Aborted = 5 + Singles10m /\ F10!Stages = -1 .. 5 + Singles10m
    /\ F10!Commanded = 2 .. 3 + Singles10m
    /\ \A c : F10!Running(c) <=> c.stage \in 0 .. 3 + Singles10m
BY FinalsAssumption
   DEF F10!Finals10mAssumption, F10!Idle, F10!Presentation, F10!PrepSighting, F10!Series1,
       F10!Single1, F10!Complete, F10!Aborted, F10!Stages, F10!Commanded, F10!Running

LEMMA LimitsOf3 ==
    \A s \in F3!MatchStages :
        /\ F3!StageShotLimit(s) \in Nat \ {0} /\ F3!StageShotNumberBase(s) \in Nat
        /\ \A t \in F3!MatchStages : s < t =>
              F3!StageShotNumberBase(s) + F3!StageShotLimit(s) <= F3!StageShotNumberBase(t)
<1>1. PICK kn \in Nat \ {0}, pr \in Nat \ {0}, se \in Nat \ {0}, si \in Nat \ {0} :
         kn = Limit3P["Kneeling"] /\ pr = Limit3P["Prone"] /\ se = Limit3P["Series"]
         /\ si = Limit3P["Single"]
      BY FinalsAssumption DEF F3!Finals3PAssumption
<1>2. \A s \in F3!MatchStages :
        F3!StageShotLimit(s) =
            IF s = 3 THEN kn ELSE IF s = 5 THEN pr ELSE IF s = 7 \/ s = 8 THEN se ELSE si
  <2>1. SUFFICES ASSUME NEW s \in F3!MatchStages
                 PROVE  F3!StageShotLimit(s) = IF s = 3 THEN kn ELSE IF s = 5 THEN pr
                                               ELSE IF s = 7 \/ s = 8 THEN se ELSE si
        OBVIOUS
  <2>2. s \in Int /\ (s = 3 \/ s = 5 \/ s = 7 \/ s = 8 \/ s \in 9 .. 8 + Singles3P)
        /\ 7 .. 9 - 1 = {7, 8} /\ 9 .. (9 + Singles3P) - 1 = 9 .. 8 + Singles3P
        BY StagesOf3
  <2>3. F3!StageShotLimit(s) =
            CASE s = 3 -> kn [] s = 5 -> pr [] s \in {7, 8} -> se
              [] s \in 9 .. 8 + Singles3P -> si [] OTHER -> 0
        BY <1>1, <2>2, StagesOf3 DEF F3!StageShotLimit
  <2>. QED  BY <2>2, <2>3
<1>3. \A s \in F3!MatchStages :
        F3!StageShotNumberBase(s) =
            IF s = 3 THEN 0 ELSE IF s = 5 THEN kn ELSE IF s = 7 THEN kn + pr
            ELSE IF s = 8 THEN kn + pr + se ELSE kn + pr + 2 * se + (s - 9) * si
  <2>1. SUFFICES ASSUME NEW s \in F3!MatchStages
                 PROVE  F3!StageShotNumberBase(s) =
                          IF s = 3 THEN 0 ELSE IF s = 5 THEN kn ELSE IF s = 7 THEN kn + pr
                          ELSE IF s = 8 THEN kn + pr + se
                          ELSE kn + pr + 2 * se + (s - 9) * si
        OBVIOUS
  <2>2. s \in Int /\ (s = 3 \/ s = 5 \/ s = 7 \/ s = 8 \/ s \in 9 .. 8 + Singles3P)
        /\ 7 .. 9 - 1 = {7, 8} /\ 9 .. (9 + Singles3P) - 1 = 9 .. 8 + Singles3P
        BY StagesOf3
  <2>3. F3!StageShotNumberBase(s) =
            CASE s = 5 -> kn [] s \in {7, 8} -> kn + pr + (s - 7) * se
              [] s \in 9 .. 8 + Singles3P -> kn + pr + 2 * se + (s - 9) * si [] OTHER -> 0
        BY <1>1, <2>2, StagesOf3 DEF F3!StageShotNumberBase
  <2>4. (7 - 7) * se = 0 /\ (8 - 7) * se = se
        OBVIOUS
  <2>5. CASE s \in {3, 5}
        BY <2>2, <2>3, <2>5
  <2>6. CASE s = 7
        BY <2>3, <2>4, <2>6
  <2>7. CASE s = 8
        BY <2>3, <2>4, <2>7
  <2>8. CASE s \in 9 .. 8 + Singles3P
        BY <2>3, <2>8
  <2>. QED  BY <2>2, <2>5, <2>6, <2>7, <2>8
<1>4. \A s \in F3!MatchStages : s \notin {3, 5, 7, 8} => s - 9 \in Nat
      BY StagesOf3
<1>5. ASSUME NEW s \in F3!MatchStages
      PROVE  F3!StageShotLimit(s) \in Nat \ {0} /\ F3!StageShotNumberBase(s) \in Nat
  <2>1. s \notin {3, 5, 7, 8} => (s - 9) * si \in Nat
        BY <1>4
  <2>. QED  BY <1>2, <1>3, <2>1
<1>6. ASSUME NEW s \in F3!MatchStages, NEW t \in F3!MatchStages, s < t
      PROVE  F3!StageShotNumberBase(s) + F3!StageShotLimit(s) <= F3!StageShotNumberBase(t)
  <2>1. CASE s \in {3, 5, 7, 8}
    <3>1. t \notin {3, 5, 7, 8} => (t - 9) * si \in Nat
          BY <1>4
    <3>2. PICK m \in Nat : t \notin {3, 5, 7, 8} => m = (t - 9) * si
          BY <3>1
    <3>3. PICK x \in Nat, y \in Nat, z \in Nat :
             x = F3!StageShotLimit(s) /\ y = F3!StageShotNumberBase(s)
             /\ z = F3!StageShotNumberBase(t)
          BY <1>5
    <3>4. /\ s = 3 => x = kn /\ y = 0
          /\ s = 5 => x = pr /\ y = kn
          /\ s = 7 => x = se /\ y = kn + pr
          /\ s = 8 => x = se /\ y = kn + pr + se
      <4>1. /\ s = 3 => x = kn
            /\ s = 5 => x = pr
            /\ s = 7 \/ s = 8 => x = se
            BY <1>2, <3>3
      <4>2. /\ s = 3 => y = 0
            /\ s = 5 => y = kn
            /\ s = 7 => y = kn + pr
            /\ s = 8 => y = kn + pr + se
            BY <1>3, <3>3
      <4>. QED  BY <4>1, <4>2
    <3>5. /\ t = 3 => z = 0
          /\ t = 5 => z = kn
          /\ t = 7 => z = kn + pr
          /\ t = 8 => z = kn + pr + se
          BY <1>3, <3>3
    <3>6. t \notin {3, 5, 7, 8} => z = kn + pr + 2 * se + m
          BY <1>3, <3>2, <3>3
    <3>7. t \in Int /\ s \in Int /\ (t < 9 => t \in {3, 5, 7, 8})
          BY StagesOf3
    <3>8. y + x <= z
      <4>1. CASE t \notin {3, 5, 7, 8}
            BY <2>1, <3>4, <3>6, <4>1
      <4>2. CASE t \in {3, 5, 7, 8}
            BY <1>6, <2>1, <3>4, <3>5, <4>2
      <4>. QED  BY <4>1, <4>2
    <3>. QED  BY <3>3, <3>8
  <2>2. CASE s \notin {3, 5, 7, 8}
    <3>1. t \notin {3, 5, 7, 8} /\ s - 9 \in Nat /\ t - 9 \in Nat /\ s - 9 < t - 9
          BY <1>4, <1>6, <2>2, StagesOf3
    <3>2. (s - 9) * si \in Nat /\ (t - 9) * si \in Nat /\ (s - 9) * si + si <= (t - 9) * si
          BY <3>1, Multiples
    <3>3. F3!StageShotNumberBase(s) = kn + pr + 2 * se + (s - 9) * si
          /\ F3!StageShotNumberBase(t) = kn + pr + 2 * se + (t - 9) * si
          /\ F3!StageShotLimit(s) = si
          BY <1>2, <1>3, <2>2, <3>1
    <3>. QED  BY <3>2, <3>3
  <2>. QED  BY <2>1, <2>2
<1>. QED  BY <1>5, <1>6

LEMMA LimitsOf10 ==
    \A s \in F10!Commanded :
        /\ F10!StageShotLimit(s) \in Nat \ {0} /\ F10!StageShotNumberBase(s) \in Nat
        /\ \A t \in F10!Commanded : s < t =>
              F10!StageShotNumberBase(s) + F10!StageShotLimit(s) <= F10!StageShotNumberBase(t)
<1>1. \A s \in F10!Commanded :
        /\ F10!StageShotLimit(s) = IF s \in 2 .. 3 THEN PerSeries ELSE 1
        /\ F10!StageShotNumberBase(s) =
              IF s = 2 THEN 0 ELSE IF s = 3 THEN PerSeries ELSE 2 * PerSeries + s - 4
      BY StagesOf10 DEF F10!StageShotLimit, F10!StageShotNumberBase, F10!IsSeries
<1>. QED  BY <1>1, StagesOf10

LEMMA CourseOf3 == IsCourse(Course3)
<1>1. Course3.match \subseteq Course3.stages /\ Course3.stages \subseteq Int
      /\ Course3.end \in Int /\ Course3.phases \in [Course3.stages -> SUBSET Phases]
      BY StagesOf3 DEF Course3, Phases
<1>2. ASSUME NEW s \in Course3.match
      PROVE  /\ Course3.limit[s] \in Nat \ {0} /\ Course3.base[s] \in Nat
             /\ \A t \in Course3.match : s < t =>
                    Course3.base[s] + Course3.limit[s] <= Course3.base[t]
      BY LimitsOf3 DEF Course3
<1>3. ASSUME NEW s \in Course3.match
      PROVE  Course3.over[s] \in Int /\ s < Course3.over[s] /\ Course3.over[s] <= Course3.end
      BY StagesOf3 DEF Course3
<1>. QED  BY <1>1, <1>2, <1>3 DEF IsCourse

LEMMA CourseOf10 == IsCourse(Course10)
<1>1. Course10.match \subseteq Course10.stages /\ Course10.stages \subseteq Int
      /\ Course10.end \in Int /\ Course10.phases \in [Course10.stages -> SUBSET Phases]
      BY StagesOf10 DEF Course10, Phases
<1>2. ASSUME NEW s \in Course10.match
      PROVE  /\ Course10.limit[s] \in Nat \ {0} /\ Course10.base[s] \in Nat
             /\ \A t \in Course10.match : s < t =>
                    Course10.base[s] + Course10.limit[s] <= Course10.base[t]
      BY LimitsOf10 DEF Course10
<1>3. ASSUME NEW s \in Course10.match
      PROVE  Course10.over[s] \in Int /\ s < Course10.over[s] /\ Course10.over[s] <= Course10.end
      BY StagesOf10 DEF Course10
<1>. QED  BY <1>1, <1>2, <1>3 DEF IsCourse

\* The helpers of the controllers are those above.
LEMMA SameHelpers3 ==
    /\ \A c, e : F3!Emit(c, e) = Emit(c, e)
    /\ \A c : F3!IssueCommand(c) = IssueCommand(c)
    /\ \A c, w : F3!SetWindow(c, w) = SetWindow(c, w)
    /\ \A c, s, v : F3!SetStageStatus(c, s, v) = SetStageStatus(c, s, v)
    /\ \A c, b, n, m : F3!MissingRange(c, b, n, m) = MissingRange(c, b, n, m)
    /\ \A c, t : F3!BeginCommandSequence(c, t) = BeginCommandSequence(c, t)
    /\ \A c, t : F3!OpenCommandWindow(c, t) = OpenCommandWindow(c, t)
    /\ \A c : F3!CloseWindowAndStop(c) = CloseWindowAndStop(c)
    /\ \A n, ext, s : F3!Accepted(n, ext, s) = Accepted(n, ext, s)
    /\ \A p, s : F3!Phase(p, s) = Phase(p, s)
    /\ \A s : F3!Entered(s) = Entered(s)
    /\ F3!Mark = Mark /\ F3!MatchCompleted = MatchCompleted
    /\ \A stages : F3!NewCtl(stages) = NewCtl(stages) /\ F3!NewRec(stages) = NewRec(stages)
<1>1. \A c : F3!Written(c) = Written(c)
      BY DEF F3!Written, F3!Last, Written, Last
<1>2. \A r, e : F3!Refuses(r, e) <=> Refuses(r, e)
      BY DEF F3!Refuses, Refuses
<1>3. \A r, e : F3!Reduced(r, e) = Reduced(r, e)
      BY DEF F3!Reduced, Reduced
<1>4. \A r, e : F3!Apply(r, e) = Apply(r, e)
      BY <1>2, <1>3 DEF F3!Apply, Apply
<1>5. /\ \A n, ext, s : F3!Accepted(n, ext, s) = Accepted(n, ext, s)
      /\ \A p, s : F3!Phase(p, s) = Phase(p, s)
      /\ \A s : F3!Entered(s) = Entered(s)
      /\ \A s, v : F3!StatusChanged(s, v) = StatusChanged(s, v)
      /\ \A ns : F3!Missing(ns) = Missing(ns)
      /\ F3!Mark = Mark /\ F3!MatchCompleted = MatchCompleted /\ F3!Opened = Opened
      BY DEF F3!Accepted, F3!Phase, F3!Entered, F3!StatusChanged, F3!Missing, F3!Mark,
             F3!MatchCompleted, F3!Opened, Accepted, Phase, Entered, StatusChanged, Missing,
             Mark, MatchCompleted, Opened
<1>6. \A c, e : F3!Emit(c, e) = Emit(c, e)
      BY <1>1, <1>4 DEF F3!Emit, Emit
<1>7. \A c : F3!IssueCommand(c) = IssueCommand(c)
      BY <1>5, <1>6 DEF F3!IssueCommand, IssueCommand
<1>8. \A c, w : F3!SetWindow(c, w) = SetWindow(c, w)
      BY <1>5, <1>6 DEF F3!SetWindow, SetWindow
<1>9. \A c, s, v : F3!SetStageStatus(c, s, v) = SetStageStatus(c, s, v)
      BY <1>5, <1>6 DEF F3!SetStageStatus, SetStageStatus, F3!Verdicts, Verdicts
<1>10. \A c, b, n, m : F3!MissingRange(c, b, n, m) = MissingRange(c, b, n, m)
      BY <1>1, <1>4, <1>5 DEF F3!MissingRange, MissingRange
<1>11. /\ \A c, t : F3!BeginCommandSequence(c, t) = BeginCommandSequence(c, t)
       /\ \A c, t : F3!OpenCommandWindow(c, t) = OpenCommandWindow(c, t)
       /\ \A c : F3!CloseWindowAndStop(c) = CloseWindowAndStop(c)
      BY <1>7, <1>8 DEF F3!BeginCommandSequence, F3!OpenCommandWindow, F3!CloseWindowAndStop,
                        BeginCommandSequence, OpenCommandWindow, CloseWindowAndStop
<1>12. \A stages : F3!NewCtl(stages) = NewCtl(stages) /\ F3!NewRec(stages) = NewRec(stages)
      BY DEF F3!NewCtl, F3!NewRec, NewCtl, NewRec
<1>. QED  BY <1>5, <1>6, <1>7, <1>8, <1>9, <1>10, <1>11, <1>12

LEMMA SameHelpers10 ==
    /\ \A c, e : F10!Emit(c, e) = Emit(c, e)
    /\ \A c : F10!IssueCommand(c) = IssueCommand(c)
    /\ \A c, w : F10!SetWindow(c, w) = SetWindow(c, w)
    /\ \A c, s, v : F10!SetStageStatus(c, s, v) = SetStageStatus(c, s, v)
    /\ \A c, b, n, m : F10!MissingRange(c, b, n, m) = MissingRange(c, b, n, m)
    /\ \A c, t : F10!BeginCommandSequence(c, t) = BeginCommandSequence(c, t)
    /\ \A c, t : F10!OpenCommandWindow(c, t) = OpenCommandWindow(c, t)
    /\ \A c : F10!CloseWindowAndStop(c) = CloseWindowAndStop(c)
    /\ \A n, ext, s : F10!Accepted(n, ext, s) = Accepted(n, ext, s)
    /\ \A p, s : F10!Phase(p, s) = Phase(p, s)
    /\ \A s : F10!Entered(s) = Entered(s)
    /\ F10!Mark = Mark /\ F10!MatchCompleted = MatchCompleted
    /\ \A stages : F10!NewCtl(stages) = NewCtl(stages) /\ F10!NewRec(stages) = NewRec(stages)
<1>1. \A c : F10!Written(c) = Written(c)
      BY DEF F10!Written, F10!Last, Written, Last
<1>2. \A r, e : F10!Refuses(r, e) <=> Refuses(r, e)
      BY DEF F10!Refuses, Refuses
<1>3. \A r, e : F10!Reduced(r, e) = Reduced(r, e)
      BY DEF F10!Reduced, Reduced
<1>4. \A r, e : F10!Apply(r, e) = Apply(r, e)
      BY <1>2, <1>3 DEF F10!Apply, Apply
<1>5. /\ \A n, ext, s : F10!Accepted(n, ext, s) = Accepted(n, ext, s)
      /\ \A p, s : F10!Phase(p, s) = Phase(p, s)
      /\ \A s : F10!Entered(s) = Entered(s)
      /\ \A s, v : F10!StatusChanged(s, v) = StatusChanged(s, v)
      /\ \A ns : F10!Missing(ns) = Missing(ns)
      /\ F10!Mark = Mark /\ F10!MatchCompleted = MatchCompleted /\ F10!Opened = Opened
      BY DEF F10!Accepted, F10!Phase, F10!Entered, F10!StatusChanged, F10!Missing, F10!Mark,
             F10!MatchCompleted, F10!Opened, Accepted, Phase, Entered, StatusChanged, Missing,
             Mark, MatchCompleted, Opened
<1>6. \A c, e : F10!Emit(c, e) = Emit(c, e)
      BY <1>1, <1>4 DEF F10!Emit, Emit
<1>7. \A c : F10!IssueCommand(c) = IssueCommand(c)
      BY <1>5, <1>6 DEF F10!IssueCommand, IssueCommand
<1>8. \A c, w : F10!SetWindow(c, w) = SetWindow(c, w)
      BY <1>5, <1>6 DEF F10!SetWindow, SetWindow
<1>9. \A c, s, v : F10!SetStageStatus(c, s, v) = SetStageStatus(c, s, v)
      BY <1>5, <1>6 DEF F10!SetStageStatus, SetStageStatus, F10!Verdicts, Verdicts
<1>10. \A c, b, n, m : F10!MissingRange(c, b, n, m) = MissingRange(c, b, n, m)
      BY <1>1, <1>4, <1>5 DEF F10!MissingRange, MissingRange
<1>11. /\ \A c, t : F10!BeginCommandSequence(c, t) = BeginCommandSequence(c, t)
       /\ \A c, t : F10!OpenCommandWindow(c, t) = OpenCommandWindow(c, t)
       /\ \A c : F10!CloseWindowAndStop(c) = CloseWindowAndStop(c)
      BY <1>7, <1>8 DEF F10!BeginCommandSequence, F10!OpenCommandWindow, F10!CloseWindowAndStop,
                        BeginCommandSequence, OpenCommandWindow, CloseWindowAndStop
<1>12. \A stages : F10!NewCtl(stages) = NewCtl(stages) /\ F10!NewRec(stages) = NewRec(stages)
      BY DEF F10!NewCtl, F10!NewRec, NewCtl, NewRec
<1>. QED  BY <1>5, <1>6, <1>7, <1>8, <1>9, <1>10, <1>11, <1>12
-----------------------------------------------------------------------------
(* Steps of a handler.                                                     *)

\* From c the handler has come to d: the stage and what is counted are the
\* same, the window is w and the mode m.
Keeps(c, d) ==
    /\ d.stage = c.stage /\ d.shots = c.shots /\ d.count = c.count
    /\ d.kneeling = c.kneeling /\ d.prone = c.prone /\ d.checkpoints = c.checkpoints
    /\ Beside(c, d)
Step(k, from, whole, S, c, d, w, m) ==
    Steady(k, from, whole, S, d) /\ Keeps(c, d) /\ d.window = w /\ d.mode = m

LEMMA StepsCompose ==
    ASSUME NEW k, NEW from, NEW whole, NEW S, NEW c, NEW d, NEW e,
           NEW w, NEW m, NEW v, NEW n, Step(k, from, whole, S, c, d, w, m),
           Step(k, from, whole, S, d, e, v, n)
    PROVE  Step(k, from, whole, S, c, e, v, n)
BY DEF Step, Keeps, Beside

LEMMA CommandStep ==
    ASSUME NEW k, NEW from, NEW whole, NEW S, NEW c, Steady(k, from, whole, S, c),
           NEW d, d = IssueCommand(c)
    PROVE  Step(k, from, whole, S, c, d, c.window, c.mode)
<1>1. Steady(k, from, whole, S, d) /\ Alike(c, d) /\ Beside(c, d)
      BY CommandSteady
<1>. QED  BY <1>1 DEF Step, Keeps, Alike

LEMMA WindowStep ==
    ASSUME NEW k, NEW from, NEW whole, NEW S, NEW c, Steady(k, from, whole, S, c),
           NEW w \in Windows, NEW d, d = SetWindow(c, w)
    PROVE  Step(k, from, whole, S, c, d, w, c.mode)
<1>1. /\ Steady(k, from, whole, S, d) /\ Alike([c EXCEPT !.window = w], d)
      /\ Beside(c, d)
      BY WindowSteady
<1>2. c \in Controllers(k.stages)
      BY DEF Steady, Handling
<1>3. /\ d.stage = c.stage /\ d.shots = c.shots /\ d.count = c.count
      /\ d.kneeling = c.kneeling /\ d.prone = c.prone /\ d.checkpoints = c.checkpoints
      /\ d.window = w /\ d.mode = c.mode
      BY <1>1, <1>2 DEF Alike, Controllers
<1>. QED  BY <1>1, <1>3 DEF Step, Keeps

LEMMA StatusStep ==
    ASSUME NEW k, IsCourse(k), NEW from, NEW whole, NEW S, NEW c,
           Steady(k, from, whole, S, c), NEW s \in k.stages, NEW v \in Statuses,
           ~Written(c).refused /\ s \in k.match =>
              /\ v = "Complete" => ShotsOf(Written(c), s) = k.limit[s]
              /\ v = "Incomplete" => s \in S /\ ShotsOf(Written(c), s) # k.limit[s],
           NEW d, d = SetStageStatus(c, s, v)
    PROVE  Step(k, from, whole, S, c, d, c.window, c.mode)
<1>1. /\ Steady(k, from, whole, S, d) /\ Alike([c EXCEPT !.status = d.status], d)
      /\ Beside(c, d)
      BY StatusSteady
<1>2. c \in Controllers(k.stages)
      BY DEF Steady, Handling
<1>3. /\ d.stage = c.stage /\ d.shots = c.shots /\ d.count = c.count
      /\ d.kneeling = c.kneeling /\ d.prone = c.prone /\ d.checkpoints = c.checkpoints
      /\ d.window = c.window /\ d.mode = c.mode
      BY <1>1, <1>2 DEF Alike, Controllers
<1>. QED  BY <1>1, <1>3 DEF Step, Keeps

LEMMA ModeStep ==
    ASSUME NEW k, NEW from, NEW whole, NEW S, NEW c, Steady(k, from, whole, S, c),
           NEW m \in {"Sighter", "Match"}, NEW d, d = [c EXCEPT !.mode = m]
    PROVE  Step(k, from, whole, S, c, d, c.window, m)
<1>1. c \in Controllers(k.stages)
      BY DEF Steady, Handling
<1>2. d \in Controllers(k.stages) /\ d.out = c.out /\ d.status = c.status
      BY <1>1 DEF Controllers
<1>3. Steady(k, from, whole, S, d) /\ Beside(c, d)
      BY <1>2, AdjustedSteady
<1>. QED  BY <1>1, <1>3 DEF Step, Keeps, Controllers

LEMMA ClockStep ==
    ASSUME NEW k, NEW from, NEW whole, NEW S, NEW c, Steady(k, from, whole, S, c),
           NEW x \in Nat, NEW y \in Nat,
           NEW d, d = [c EXCEPT !.seqStep = x, !.left = y] \/ d = [c EXCEPT !.left = y]
    PROVE  Step(k, from, whole, S, c, d, c.window, c.mode)
<1>1. c \in Controllers(k.stages)
      BY DEF Steady, Handling
<1>2. d \in Controllers(k.stages) /\ d.out = c.out /\ d.status = c.status
      BY <1>1 DEF Controllers
<1>3. Steady(k, from, whole, S, d) /\ Beside(c, d)
      BY <1>2, AdjustedSteady
<1>4. /\ d.stage = c.stage /\ d.shots = c.shots /\ d.count = c.count
      /\ d.kneeling = c.kneeling /\ d.prone = c.prone /\ d.checkpoints = c.checkpoints
      /\ d.window = c.window /\ d.mode = c.mode
      BY <1>1 DEF Controllers
<1>. QED  BY <1>3, <1>4 DEF Step, Keeps

LEMMA DurationsNat == \A g \in Segments : Durations[g] \in Nat
BY FinalBoundsAssumption

LEMMA BeginStep ==
    ASSUME NEW k, NEW from, NEW whole, NEW S, NEW c, Steady(k, from, whole, S, c),
           NEW y \in Nat, NEW d, d = BeginCommandSequence(c, y)
    PROVE  Step(k, from, whole, S, c, d, "Closed", c.mode)
<1>. DEFINE b == SetWindow(c, "Closed")
<1>1. d = [b EXCEPT !.seqStep = 0, !.left = y]
      BY DEF BeginCommandSequence
<1>2. Step(k, from, whole, S, c, b, "Closed", c.mode)
      BY WindowStep DEF Windows
<1>. HIDE DEF b
<1>3. Steady(k, from, whole, S, b) /\ b.window = "Closed" /\ b.mode = c.mode
      BY <1>2 DEF Step
<1>4. Step(k, from, whole, S, b, d, b.window, b.mode)
      BY <1>1, <1>3, ClockStep
<1>. QED  BY <1>2, <1>3, <1>4, StepsCompose

LEMMA OpenStep ==
    ASSUME NEW k, NEW from, NEW whole, NEW S, NEW c, Steady(k, from, whole, S, c),
           NEW y \in Nat, NEW d, d = OpenCommandWindow(c, y)
    PROVE  Step(k, from, whole, S, c, d, "MatchOpen", "Match")
<1>. DEFINE a == [c EXCEPT !.mode = "Match"]
            b == SetWindow(a, "MatchOpen")
<1>1. d = [b EXCEPT !.seqStep = 2, !.left = y]
      BY DEF OpenCommandWindow
<1>2. Step(k, from, whole, S, c, a, c.window, "Match")
      BY ModeStep
<1>. HIDE DEF a
<1>3. Steady(k, from, whole, S, a) /\ a.mode = "Match"
      BY <1>2 DEF Step
<1>4. Step(k, from, whole, S, a, b, "MatchOpen", "Match")
      BY <1>3, WindowStep DEF Windows
<1>. HIDE DEF b
<1>5. Steady(k, from, whole, S, b) /\ b.window = "MatchOpen" /\ b.mode = "Match"
      BY <1>4 DEF Step
<1>6. Step(k, from, whole, S, b, d, "MatchOpen", "Match")
  <2>1. PICK x \in Nat : x = 2
        OBVIOUS
  <2>2. d = [b EXCEPT !.seqStep = x, !.left = y]
        BY <1>1, <2>1
  <2>3. Step(k, from, whole, S, b, d, b.window, b.mode)
        BY <1>5, <2>2, ClockStep
  <2>. QED  BY <1>5, <2>3
<1>. QED  BY <1>2, <1>4, <1>6, StepsCompose

LEMMA StopStep ==
    ASSUME NEW k, NEW from, NEW whole, NEW S, NEW c, Steady(k, from, whole, S, c),
           NEW d, d = CloseWindowAndStop(c)
    PROVE  Step(k, from, whole, S, c, d, "Closed", c.mode)
<1>. DEFINE b == SetWindow(c, "Closed")
<1>1. d = IssueCommand(b)
      BY DEF CloseWindowAndStop
<1>2. Step(k, from, whole, S, c, b, "Closed", c.mode)
      BY WindowStep DEF Windows
<1>. HIDE DEF b
<1>3. Steady(k, from, whole, S, b) /\ b.window = "Closed" /\ b.mode = c.mode
      BY <1>2 DEF Step
<1>4. Step(k, from, whole, S, b, d, b.window, b.mode)
      BY <1>1, <1>3, CommandStep
<1>. QED  BY <1>2, <1>3, <1>4, StepsCompose

\* The journal has come to stage s.
Enters(k, from, whole, S, c, d, s) ==
    /\ Steady(k, from, whole, S, d) /\ Alike(c, d)
    /\ Written(d).stage = s /\ Written(d).phase \in k.phases[s]
    /\ Written(d).officials = Written(c).officials
    /\ Written(d).refused = Written(c).refused

LEMMA PhaseEnters ==
    ASSUME NEW k, IsCourse(k), NEW from, NEW whole, NEW S, NEW c,
           Steady(k, from, whole, S, c), NEW s \in k.stages, s < k.end, S = PassedAt(k, s),
           Written(c).stage <= s, NEW p \in k.phases[s], NEW d, d = Emit(c, Phase(p, s))
    PROVE  Enters(k, from, whole, S, c, d, s)
BY StageSteady DEF Enters

LEMMA StageEnters ==
    ASSUME NEW k, IsCourse(k), NEW from, NEW whole, NEW S, NEW c,
           Steady(k, from, whole, S, c), NEW s \in k.stages, s < k.end, S = PassedAt(k, s),
           Written(c).stage <= s, Written(c).phase \in k.phases[s],
           NEW d, d = Emit(c, Entered(s))
    PROVE  Enters(k, from, whole, S, c, d, s)
BY StageSteady DEF Enters

LEMMA EntersAgain ==
    ASSUME NEW k, NEW from, NEW whole, NEW S, NEW c, NEW d, NEW e, NEW s,
           Enters(k, from, whole, S, c, d, s), Enters(k, from, whole, S, d, e, s)
    PROVE  Enters(k, from, whole, S, c, e, s)
BY DEF Enters, Alike
-----------------------------------------------------------------------------
(* The 3-position final.                                                   *)

\* What the controller counts is in the journal.
Tally3(c, r) ==
    ~r.refused =>
        /\ c.count = Cardinality(r.officials)
        /\ c.kneeling = ShotsOf(r, F3!KneelingMatch)
        /\ c.prone = ShotsOf(r, F3!ProneMatch)

Stands3(c, r) ==
    /\ F3!Running(c) => /\ r.stage = c.stage /\ r.life = "Active"
                        /\ ~r.refused => c.shots = ShotsOf(r, c.stage)
    /\ c.window = "MatchOpen" => c.stage \in F3!MatchStages /\ c.mode = "Match"
    /\ c.window = "SightingOpen" => c.stage \in Sighting3 /\ c.mode = "Sighter"
    /\ c.stage = F3!KneelingMatch => c.mode = "Match"
    /\ Tally3(c, r)

Done3(from, whole, c) ==
    Settled(Course3, from, whole, c) /\ Stands3(c, Written(c))

LEMMA TallyKept3 ==
    ASSUME NEW c, NEW d, Keeps(c, d), Tally3(c, Written(c))
    PROVE  Tally3(d, Written(d))
<1>1. \A s : ShotsOf(Written(d), s) = ShotsOf(Written(c), s)
      BY SameShots DEF Keeps, Beside
<1>. QED  BY <1>1 DEF Tally3, Keeps, Beside

LEMMA Prepared3 ==
    ASSUME NEW from, NEW whole, NEW S, NEW c, Steady(Course3, from, whole, S, c),
           F3!Running(c), NEW ceremony, NEW d, d = F3!Prepared(c, ceremony)
    PROVE  Step(Course3, from, whole, S, c, d,
                IF c.stage \in Sighting3 THEN "SightingOpen"
                ELSE IF c.stage = F3!ProneMatch THEN "MatchOpen" ELSE "Closed",
                IF c.stage = F3!KneelingPrepSight THEN "Sighter" ELSE c.mode)
<1>. DEFINE a == IssueCommand(c)
<1>1. Step(Course3, from, whole, S, c, a, c.window, c.mode)
      BY CommandStep
<1>. HIDE DEF a
<1>2. Steady(Course3, from, whole, S, a) /\ a.mode = c.mode
      BY <1>1 DEF Step
<1>3. "SightingOpen" \in Windows /\ "MatchOpen" \in Windows /\ "Closed" \in Windows
      BY DEF Windows
<1>4. CASE c.stage = F3!Ceremony
  <2>. DEFINE b == SetWindow(a, "Closed")
  <2>1. Step(Course3, from, whole, S, a, b, "Closed", a.mode)
        BY <1>2, <1>3, WindowStep
  <2>2. PICK x \in Nat, y \in Nat :
            x = (IF ceremony = "Full" THEN 0 ELSE 1)
            /\ y = Durations[IF ceremony = "Full" THEN "Intro" ELSE "Hold"]
    <3>1. Durations["Intro"] \in Nat /\ Durations["Hold"] \in Nat
          BY DurationsNat DEF Segments
    <3>. QED  BY <3>1
  <2>3. d = [b EXCEPT !.seqStep = x, !.left = y]
    <3>1. d = [F3!SetWindow(F3!IssueCommand(c), "Closed") EXCEPT
                  !.seqStep = IF ceremony = "Full" THEN 0 ELSE 1,
                  !.left = Durations[IF ceremony = "Full" THEN "Intro" ELSE "Hold"]]
          BY <1>4, StagesOf3 DEF F3!Prepared
    <3>2. F3!SetWindow(F3!IssueCommand(c), "Closed") = b
          BY SameHelpers3 DEF a
    <3>. HIDE DEF b
    <3>3. CASE ceremony = "Full"
          BY <2>2, <3>1, <3>2, <3>3
    <3>4. CASE ceremony # "Full"
          BY <2>2, <3>1, <3>2, <3>4
    <3>. QED  BY <3>3, <3>4
  <2>. HIDE DEF b
  <2>4. Steady(Course3, from, whole, S, b) /\ b.window = "Closed" /\ b.mode = c.mode
        BY <1>2, <2>1 DEF Step
  <2>5. Step(Course3, from, whole, S, b, d, b.window, b.mode)
        BY <2>3, <2>4, ClockStep
  <2>6. Step(Course3, from, whole, S, c, d, "Closed", c.mode)
        BY <1>1, <2>1, <2>4, <2>5, StepsCompose
  <2>. QED  BY <1>4, <2>6, StagesOf3 DEF Sighting3
<1>5. CASE c.stage = F3!KneelingPrepSight
  <2>. DEFINE m == [a EXCEPT !.mode = "Sighter"]
              b == SetWindow(m, "SightingOpen")
  <2>1. Step(Course3, from, whole, S, a, m, a.window, "Sighter")
        BY <1>2, ModeStep
  <2>2. PICK y \in Nat : y = Durations["Prep"]
        BY DurationsNat DEF Segments
  <2>3. d = [b EXCEPT !.left = y]
        BY <1>5, <2>2, SameHelpers3, StagesOf3 DEF F3!Prepared, a
  <2>. HIDE DEF m
  <2>4. Steady(Course3, from, whole, S, m) /\ m.mode = "Sighter"
        BY <2>1 DEF Step
  <2>5. Step(Course3, from, whole, S, m, b, "SightingOpen", "Sighter")
        BY <1>3, <2>4, WindowStep
  <2>. HIDE DEF b
  <2>6. Steady(Course3, from, whole, S, b) /\ b.window = "SightingOpen" /\ b.mode = "Sighter"
        BY <2>5 DEF Step
  <2>7. Step(Course3, from, whole, S, b, d, b.window, b.mode)
        BY <2>3, <2>6, ClockStep
  <2>8. Step(Course3, from, whole, S, c, d, "SightingOpen", "Sighter")
    <3>1. Step(Course3, from, whole, S, c, m, a.window, "Sighter")
          BY <1>1, <2>1, StepsCompose
    <3>2. Step(Course3, from, whole, S, c, b, "SightingOpen", "Sighter")
          BY <2>5, <3>1, StepsCompose
    <3>. QED  BY <2>6, <2>7, <3>2, StepsCompose
  <2>. QED  BY <1>5, <2>8 DEF Sighting3
<1>6. CASE c.stage = F3!KneelingMatch
  <2>. DEFINE b == SetWindow(a, "Closed")
  <2>1. Step(Course3, from, whole, S, a, b, "Closed", a.mode)
        BY <1>2, <1>3, WindowStep
  <2>2. PICK y \in Nat : y = Durations["Load"]
        BY DurationsNat DEF Segments
  <2>3. d = [b EXCEPT !.left = y]
        BY <1>6, <2>2, SameHelpers3, StagesOf3 DEF F3!Prepared, a
  <2>. HIDE DEF b
  <2>4. Steady(Course3, from, whole, S, b) /\ b.window = "Closed" /\ b.mode = c.mode
        BY <1>2, <2>1 DEF Step
  <2>5. Step(Course3, from, whole, S, b, d, b.window, b.mode)
        BY <2>3, <2>4, ClockStep
  <2>6. Step(Course3, from, whole, S, c, d, "Closed", c.mode)
        BY <1>1, <2>1, <2>4, <2>5, StepsCompose
  <2>. QED  BY <1>6, <2>6, StagesOf3 DEF Sighting3
<1>7. CASE c.stage \in {F3!ProneSighting, F3!StandingSighting}
  <2>1. d = SetWindow(c, "SightingOpen")
        BY <1>7, SameHelpers3, StagesOf3 DEF F3!Prepared
  <2>2. Step(Course3, from, whole, S, c, d, "SightingOpen", c.mode)
        BY <1>3, <2>1, WindowStep
  <2>. QED  BY <1>7, <2>2, StagesOf3 DEF Sighting3
<1>8. CASE c.stage = F3!ProneMatch
  <2>1. d = SetWindow(c, "MatchOpen")
        BY <1>8, SameHelpers3, StagesOf3 DEF F3!Prepared
  <2>2. Step(Course3, from, whole, S, c, d, "MatchOpen", c.mode)
        BY <1>3, <2>1, WindowStep
  <2>. QED  BY <1>8, <2>2, StagesOf3 DEF Sighting3
<1>9. CASE c.stage \in F3!Commanded
  <2>1. PICK y \in Nat : y = Durations[IF c.stage = F3!Series1 THEN "PreGap" ELSE "Gap"]
        BY DurationsNat DEF Segments
  <2>2. d = BeginCommandSequence(c, y)
        BY <1>9, <2>1, SameHelpers3, StagesOf3 DEF F3!Prepared
  <2>3. Step(Course3, from, whole, S, c, d, "Closed", c.mode)
        BY <2>2, BeginStep
  <2>. QED  BY <1>9, <2>3, StagesOf3 DEF Sighting3
<1>10. c.stage \in {1, 2, 3, 4, 5, 6} \cup 7 .. 8 + Singles3P
       BY StagesOf3
<1>. QED  BY <1>4, <1>5, <1>6, <1>7, <1>8, <1>9, <1>10, StagesOf3

LEMMA NoShotsYet ==
    ASSUME NEW k, IsCourse(k), NEW r \in Journals(k.stages), Placed(k, r), NEW s \in Int,
           r.stage < s, NEW q, q.officials = r.officials
    PROVE  ShotsOf(q, s) = 0
<1>1. OfStage(q, s) = {}
  <2>1. SUFFICES ASSUME NEW o \in r.officials, o.stage = s PROVE FALSE
        BY DEF OfStage
  <2>2. r.stage \in Int /\ s <= r.stage
        BY <2>1 DEF Placed, Journals
  <2>. QED  BY <2>2
<1>. QED  BY <1>1, FS_EmptySet DEF ShotsOf

\* enterStage(Complete), in both finals.
LEMMA CompletedSettled ==
    ASSUME NEW k, NEW from, NEW whole, NEW c, Steady(k, from, whole, k.match, c),
           NEW d, d = Emit(IssueCommand(IssueCommand([SetWindow(c, "Closed") EXCEPT !.left = 0])),
                           MatchCompleted)
    PROVE  Settled(k, from, whole, d) /\ Keeps(c, d) /\ d.window = "Closed" /\ d.mode = c.mode
<1>. DEFINE b == SetWindow(c, "Closed")
            e == [b EXCEPT !.left = 0]
            f == IssueCommand(e)
            g == IssueCommand(f)
<1>1. Step(k, from, whole, k.match, c, b, "Closed", c.mode)
      BY WindowStep DEF Windows
<1>. HIDE DEF b
<1>2. Steady(k, from, whole, k.match, b) /\ b.window = "Closed" /\ b.mode = c.mode
      BY <1>1 DEF Step
<1>3. Step(k, from, whole, k.match, b, e, "Closed", c.mode)
  <2>1. PICK y \in Nat : y = 0
        OBVIOUS
  <2>2. e = [b EXCEPT !.left = y]
        BY <2>1
  <2>3. Step(k, from, whole, k.match, b, e, b.window, b.mode)
        BY <1>2, <2>2, ClockStep
  <2>. QED  BY <1>2, <2>3
<1>. HIDE DEF e
<1>4. Steady(k, from, whole, k.match, e) /\ e.window = "Closed" /\ e.mode = c.mode
      BY <1>3 DEF Step
<1>5. Step(k, from, whole, k.match, e, f, e.window, e.mode)
      BY <1>4, CommandStep
<1>. HIDE DEF f
<1>6. Steady(k, from, whole, k.match, f) /\ f.window = "Closed" /\ f.mode = c.mode
      BY <1>4, <1>5 DEF Step
<1>7. Step(k, from, whole, k.match, f, g, f.window, f.mode)
      BY <1>6, CommandStep
<1>. HIDE DEF g
<1>8. Step(k, from, whole, k.match, c, g, "Closed", c.mode)
  <2>1. Step(k, from, whole, k.match, c, e, "Closed", c.mode)
        BY <1>1, <1>3, StepsCompose
  <2>2. Step(k, from, whole, k.match, c, f, "Closed", c.mode)
        BY <1>4, <1>5, <2>1, StepsCompose
  <2>. QED  BY <1>6, <1>7, <2>2, StepsCompose
<1>9. Steady(k, from, whole, k.match, g) /\ g.window = "Closed" /\ g.mode = c.mode /\ Keeps(c, g)
      BY <1>8 DEF Step
<1>10. d = Emit(g, MatchCompleted)
       BY DEF g, f, e, b
<1>11. Settled(k, from, whole, d) /\ Alike(g, d) /\ Beside(g, d)
       BY <1>9, <1>10, EndSettled
<1>. QED  BY <1>9, <1>11 DEF Keeps, Beside, Alike

LEMMA PhaseSubmitted3 ==
    ASSUME NEW from, NEW whole, NEW S, NEW c, Steady(Course3, from, whole, S, c),
           NEW s \in 1 .. 8 + Singles3P, S = PassedAt(Course3, s), Written(c).stage <= s,
           NEW d, d = F3!SubmitStagePhase(c, s)
    PROVE  \/ Enters(Course3, from, whole, S, c, d, s)
           \/ d = c /\ Written(c).phase \in Course3.phases[s]
<1>1. s \in Course3.stages /\ s < Course3.end
      BY StagesOf3 DEF Course3
<1>2. CASE s = F3!KneelingPrepSight
  <2>. DEFINE a == Emit(c, Phase("Preparation", s))
  <2>1. d = Emit(a, Phase("Sighting", s))
        BY <1>2, SameHelpers3, StagesOf3 DEF F3!SubmitStagePhase
  <2>2. "Preparation" \in Course3.phases[s] /\ "Sighting" \in Course3.phases[s]
        BY <1>2, StagesOf3 DEF Course3, Sighting3
  <2>3. Enters(Course3, from, whole, S, c, a, s)
        BY <1>1, <2>2, CourseOf3, PhaseEnters
  <2>. HIDE DEF a
  <2>4. Steady(Course3, from, whole, S, a) /\ Written(a).stage <= s
        BY <2>3 DEF Enters
  <2>5. Enters(Course3, from, whole, S, a, d, s)
        BY <1>1, <2>1, <2>2, <2>4, CourseOf3, PhaseEnters
  <2>. QED  BY <2>3, <2>5, EntersAgain
<1>3. CASE s \in {F3!ProneSighting, F3!StandingSighting}
  <2>1. d = Emit(c, Phase("Sighting", s))
        BY <1>3, SameHelpers3, StagesOf3 DEF F3!SubmitStagePhase
  <2>2. "Sighting" \in Course3.phases[s]
        BY <1>3, StagesOf3 DEF Course3, Sighting3
  <2>. QED  BY <1>1, <2>1, <2>2, CourseOf3, PhaseEnters
<1>4. CASE s \in F3!MatchStages
  <2>1. d = Emit(c, Phase("OfficialMatch", s))
        BY <1>4, SameHelpers3, StagesOf3 DEF F3!SubmitStagePhase
  <2>2. "OfficialMatch" \in Course3.phases[s]
        BY <1>4, StagesOf3 DEF Course3
  <2>. QED  BY <1>1, <2>1, <2>2, CourseOf3, PhaseEnters
<1>5. CASE s = 1
  <2>1. d = c
        BY <1>5, StagesOf3 DEF F3!SubmitStagePhase
  <2>2. Course3.phases[s] = Phases
        BY <1>5, StagesOf3 DEF Course3, Sighting3
  <2>3. Written(c).phase \in Phases
        BY DEF Steady, Handling, Told, Journals
  <2>. QED  BY <2>1, <2>2, <2>3
<1>6. s \in {1, 2, 3, 4, 5, 6} \cup 7 .. 8 + Singles3P
      BY StagesOf3
<1>. QED  BY <1>2, <1>3, <1>4, <1>5, <1>6, StagesOf3

\* enterStage.
LEMMA EnterStage3 ==
    ASSUME NEW from, NEW whole, NEW S, NEW c, Steady(Course3, from, whole, S, c),
           Tally3(c, Written(c)), NEW s \in 1 .. 9 + Singles3P, S = PassedAt(Course3, s),
           Written(c).stage < s, s \in {3, 5} => c.mode = "Match",
           s \in {4, 6} => c.mode = "Sighter",
           NEW ceremony, NEW d, d = F3!EnterStageAs(c, s, ceremony)
    PROVE  Done3(from, whole, d)
<1>. DEFINE a == F3!Entering(c, s)
            b == IF F3!StageShotLimit(s) > 0 THEN F3!SetStageStatus(a, s, "InProgress") ELSE a
<1>1. c \in Controllers(Course3.stages) /\ Told(Course3, from, Written(c))
      /\ Written(c) \in Journals(Course3.stages) /\ s \in Course3.stages
      BY StagesOf3 DEF Steady, Handling, Told, Course3
<1>2. /\ a \in Controllers(Course3.stages) /\ a.out = c.out /\ a.status = c.status
      /\ a.stage = s /\ a.shots = 0 /\ a.count = c.count /\ a.kneeling = c.kneeling
      /\ a.prone = c.prone /\ a.mode = c.mode
  <2>1. s \in Int
        BY StagesOf3
  <2>2. a = [c EXCEPT !.stage = s, !.seqStep = 0, !.shots = 0]
        BY DEF F3!Entering
  <2>. HIDE DEF a
  <2>. QED  BY <1>1, <2>1, <2>2 DEF Controllers
<1>. HIDE DEF a
<1>3. Steady(Course3, from, whole, S, a) /\ Beside(c, a)
      BY <1>2, AdjustedSteady
<1>4. Step(Course3, from, whole, S, a, b, a.window, a.mode)
  <2>1. CASE F3!StageShotLimit(s) > 0
    <3>1. b = SetStageStatus(a, s, "InProgress")
          BY <2>1, SameHelpers3
    <3>2. "InProgress" \in Statuses
          BY DEF Statuses
    <3>. HIDE DEF b
    <3>. QED  BY <1>1, <1>3, <3>1, <3>2, CourseOf3, StatusStep
  <2>2. CASE ~(F3!StageShotLimit(s) > 0)
    <3>1. b = a
          BY <2>2
    <3>. QED  BY <1>3, <3>1 DEF Step, Keeps, Beside
  <2>. QED  BY <2>1, <2>2
<1>5. d = IF s = F3!Complete THEN F3!Completed(b)
          ELSE F3!Emit(F3!SubmitStagePhase(F3!Prepared(b, ceremony), s), F3!Entered(s))
      BY DEF F3!EnterStageAs, a
<1>. HIDE DEF b
<1>6. /\ Steady(Course3, from, whole, S, b) /\ b.stage = s /\ b.shots = 0 /\ b.mode = c.mode
      /\ b.count = c.count /\ b.kneeling = c.kneeling /\ b.prone = c.prone /\ Beside(c, b)
      BY <1>2, <1>3, <1>4 DEF Step, Keeps, Beside
<1>7. Tally3(b, Written(b))
  <2>1. \A t : ShotsOf(Written(b), t) = ShotsOf(Written(c), t)
        BY <1>6, SameShots DEF Beside
  <2>. QED  BY <1>6, <2>1 DEF Tally3, Beside
<1>8. CASE s = F3!Complete
  <2>1. S = Course3.match
        BY <1>8, CourseOf3 DEF IsCourse, PassedAt, Course3
  <2>2. d = Emit(IssueCommand(IssueCommand([SetWindow(b, "Closed") EXCEPT !.left = 0])),
                 MatchCompleted)
        BY <1>5, <1>8, SameHelpers3 DEF F3!Completed
  <2>3. Settled(Course3, from, whole, d) /\ Keeps(b, d) /\ d.window = "Closed"
    <3>1. Steady(Course3, from, whole, Course3.match, b)
          BY <1>6, <2>1
    <3>. QED  BY <2>2, <3>1, CompletedSettled
  <2>4. Tally3(d, Written(d))
        BY <1>7, <2>3, TallyKept3
  <2>5. d.stage = s
        BY <1>6, <2>3 DEF Keeps
  <2>. QED  BY <1>8, <2>3, <2>4, <2>5, StagesOf3 DEF Done3, Stands3
<1>9. CASE s # F3!Complete
  <2>. DEFINE e == F3!Prepared(b, ceremony)
              f == F3!SubmitStagePhase(e, s)
              w == IF s \in Sighting3 THEN "SightingOpen"
                   ELSE IF s = F3!ProneMatch THEN "MatchOpen" ELSE "Closed"
              m == IF s = F3!KneelingPrepSight THEN "Sighter" ELSE c.mode
  <2>1. d = Emit(f, Entered(s))
        BY <1>5, <1>9, SameHelpers3
  <2>2. s \in 1 .. 8 + Singles3P /\ F3!Running(b) /\ s < Course3.end
        BY <1>6, <1>9, StagesOf3 DEF Course3
  <2>3. Step(Course3, from, whole, S, b, e, w, m)
        BY <1>6, <2>2, Prepared3
  <2>. HIDE DEF e
  <2>4. Steady(Course3, from, whole, S, e) /\ Keeps(b, e) /\ e.window = w /\ e.mode = m
        BY <2>3 DEF Step
  <2>5. Written(e).stage <= s /\ Written(e).stage < s
    <3>1. Written(e).stage = Written(c).stage /\ Written(c).stage \in Int
          BY <1>1, <1>6, <2>4 DEF Keeps, Beside, Journals
    <3>. QED  BY <3>1
  <2>6. \/ Enters(Course3, from, whole, S, e, f, s)
        \/ f = e /\ Written(e).phase \in Course3.phases[s]
        BY <2>2, <2>4, <2>5, PhaseSubmitted3
  <2>. HIDE DEF f
  <2>7. Enters(Course3, from, whole, S, e, d, s)
    <3>1. CASE Enters(Course3, from, whole, S, e, f, s)
      <4>1. /\ Steady(Course3, from, whole, S, f) /\ Written(f).stage <= s
            /\ Written(f).phase \in Course3.phases[s]
            BY <3>1 DEF Enters
      <4>2. Enters(Course3, from, whole, S, f, d, s)
            BY <1>1, <2>1, <2>2, <4>1, CourseOf3, StageEnters
      <4>. QED  BY <3>1, <4>2, EntersAgain
    <3>2. CASE f = e /\ Written(e).phase \in Course3.phases[s]
          BY <1>1, <2>1, <2>2, <2>4, <2>5, <3>2, CourseOf3, StageEnters
    <3>. QED  BY <2>6, <3>1, <3>2
  <2>8. /\ Steady(Course3, from, whole, S, d) /\ d.stage = s /\ d.shots = 0
        /\ d.window = w /\ d.mode = m
        /\ Written(d).stage = s /\ Written(d).officials = Written(c).officials
        /\ Written(d).refused = Written(c).refused
        /\ d.count = c.count /\ d.kneeling = c.kneeling /\ d.prone = c.prone
        BY <1>6, <2>4, <2>7 DEF Enters, Alike, Keeps, Beside
  <2>9. ShotsOf(Written(d), s) = 0
        BY <1>1, <2>8, CourseOf3, NoShotsYet DEF Told
  <2>10. Tally3(d, Written(d))
    <3>1. \A t : ShotsOf(Written(d), t) = ShotsOf(Written(c), t)
          BY <2>8, SameShots
    <3>. QED  BY <2>8, <3>1 DEF Tally3
  <2>11. Settled(Course3, from, whole, d) /\ Written(d).life = "Active"
         BY <2>8, SteadyIsSettled DEF Steady
  <2>12. /\ d.window = "MatchOpen" => s \in F3!MatchStages /\ d.mode = "Match"
         /\ d.window = "SightingOpen" => s \in Sighting3 /\ d.mode = "Sighter"
         /\ s = F3!KneelingMatch => d.mode = "Match"
    <3>. HIDE DEF w, m
    <3>1. s \in {3, 5} => c.mode = "Match"
          OBVIOUS
    <3>2. s \in {4, 6} => c.mode = "Sighter"
          OBVIOUS
    <3>. QED  BY <2>8, <3>1, <3>2, StagesOf3 DEF w, m, Sighting3
  <2>. QED  BY <2>8, <2>9, <2>10, <2>11, <2>12 DEF Done3, Stands3
<1>. QED  BY <1>8, <1>9
-----------------------------------------------------------------------------
(* The invariant, and what a handler submits.                              *)

Histories == [cut : BOOLEAN, exact : BOOLEAN, left : Nat]

\* The journal is Told, whatever has happened; the verdicts are true, unless a
\* crash has cut a handler short; the controller has the verdicts of the journal.
Sound(k) ==
    /\ Told(k, rec, rec)
    /\ ctl \in Controllers(k.stages) /\ ctl.out = << >>
    /\ hist \in Histories /\ fired \in Nat /\ up \in {"none", "live", "down"}
    /\ ~hist.cut /\ ~rec.refused => Exact(k, rec, PassedIn(k, rec))
    /\ up = "live" => ctl.status = rec.status

\* What the controller of a discipline keeps besides.
FinalInv3 == Sound(Course3) /\ (up = "live" => Stands3(ctl, rec))

LEMMA ToldOfItself ==
    ASSUME NEW k, NEW from, NEW r, Told(k, from, r)
    PROVE  Told(k, r, r)
BY DEF Told, Follows, Journals

LEMMA Begins ==
    ASSUME NEW k, Sound(k), up = "live"
    PROVE  /\ Settled(k, rec, ~hist.cut, ctl) /\ Written(ctl) = rec
           /\ rec.life = "Active" =>
                 Steady(k, rec, ~hist.cut, PassedAt(k, rec.stage), ctl)
<1>1. Written(ctl) = rec
      BY DEF Sound, Written
<1>2. DOMAIN ctl.out = {}
      BY DEF Sound
<1>3. Handling(k, rec, ctl)
      BY <1>1, <1>2 DEF Sound, Handling
<1>4. rec.life = "Active" => PassedIn(k, rec) = PassedAt(k, rec.stage)
      BY DEF PassedIn
<1>. QED  BY <1>1, <1>3, <1>4 DEF Sound, Settled, Steady, Told

LEMMA NewControllers ==
    ASSUME NEW k, NEW c, c = NewCtl(k.stages)
    PROVE  c \in Controllers(k.stages) /\ c.out = << >>
BY DEF NewCtl, Controllers, Statuses, Windows

LEMMA OutCleared ==
    ASSUME NEW stages, NEW c \in Controllers(stages), NEW d, d = [c EXCEPT !.out = << >>]
    PROVE  d \in Controllers(stages) /\ d.out = << >> /\ Alike(c, d)
<1>1. PICK o \in Seq(Journals(stages)) : o = << >>
  <2>. DEFINE J == Journals(stages)
  <2>. HIDE DEF J
  <2>1. << >> \in Seq(J)
        BY EmptySeq
  <2>. QED  BY <2>1 DEF J
<1>2. d = [c EXCEPT !.out = o]
      BY <1>1
<1>. HIDE DEF Journals
<1>3. d \in Controllers(stages) /\ d.out = o
      BY <1>2 DEF Controllers
<1>4. Alike(c, d)
      BY <1>2 DEF Controllers, Alike
<1>. QED  BY <1>1, <1>3, <1>4

\* Whether a handler is cut short or not, the journal is sound.
LEMMA SubmitsSound ==
    ASSUME NEW k, NEW from, NEW c, NEW h \in Histories, NEW anchored, NEW cost,
           Settled(k, from, ~h.cut, c), Submits(c, h, anchored, cost), fired' \in Nat
    PROVE  /\ Sound(k)' /\ Follows(k, from, rec')
           /\ up' = "live" => Alike(c, ctl') /\ rec' = Written(c)
<1>1. /\ c \in Controllers(k.stages) /\ Told(k, from, Written(c))
      /\ c.status = Written(c).status
      BY DEF Settled, Handling
<1>2. CASE /\ rec' = Written(c) /\ ctl' = [c EXCEPT !.out = << >>] /\ up' = "live"
           /\ hist' = Stamped(h, anchored /\ (h.exact \/ c.window # ctl.window), c.left)
  <2>1. Told(k, rec', rec') /\ Follows(k, from, rec')
        BY <1>1, <1>2, ToldOfItself DEF Told
  <2>2. ctl' \in Controllers(k.stages) /\ ctl'.out = << >> /\ Alike(c, ctl')
    <3>1. PICK d : d = [c EXCEPT !.out = << >>]
          OBVIOUS
    <3>2. d \in Controllers(k.stages) /\ d.out = << >> /\ Alike(c, d)
          BY <1>1, <3>1, OutCleared
    <3>. QED  BY <1>2, <3>1, <3>2
  <2>3. c.left \in Nat
        BY <1>1 DEF Controllers
  <2>4. hist' \in Histories /\ hist'.cut = h.cut
    <3>. DEFINE x == anchored /\ (h.exact \/ c.window # ctl.window)
    <3>1. x \in BOOLEAN
          OBVIOUS
    <3>2. hist' = [h EXCEPT !.exact = x, !.left = IF x THEN c.left ELSE 0]
          BY <1>2 DEF Stamped
    <3>. HIDE DEF x
    <3>. QED  BY <2>3, <3>1, <3>2 DEF Histories
  <2>5. ~hist'.cut /\ ~rec'.refused => Exact(k, rec', PassedIn(k, rec'))
        BY <1>2, <2>4 DEF Settled
  <2>6. ctl'.status = rec'.status
        BY <1>1, <1>2, <2>2 DEF Alike
  <2>. QED  BY <1>2, <2>1, <2>2, <2>4, <2>5, <2>6 DEF Sound
<1>3. CASE \E n \in 1 .. Len(c.out) - 1 :
              /\ rec' = c.out[n] /\ Down(DOMAIN c.status) /\ Troubles(cost + 1)
              /\ hist' = [Stamped(h, FALSE, 0) EXCEPT !.cut = TRUE]
  <2>1. PICK n \in 1 .. Len(c.out) - 1 :
            /\ rec' = c.out[n] /\ up' = "down" /\ ctl' = NewCtl(DOMAIN c.status)
            /\ hist' = [Stamped(h, FALSE, 0) EXCEPT !.cut = TRUE]
        BY <1>3 DEF Down
  <2>2. n \in DOMAIN c.out
    <3>1. c.out \in Seq(Journals(k.stages))
          BY <1>1 DEF Controllers
    <3>2. Len(c.out) \in Nat /\ DOMAIN c.out = 1 .. Len(c.out)
          BY <3>1, LenProperties
    <3>. QED  BY <3>2
  <2>3. Told(k, from, rec')
        BY <2>1, <2>2 DEF Settled, Handling
  <2>4. Told(k, rec', rec') /\ Follows(k, from, rec')
        BY <2>3, ToldOfItself DEF Told
  <2>5. DOMAIN c.status = k.stages
        BY <1>1 DEF Controllers
  <2>6. ctl' \in Controllers(k.stages) /\ ctl'.out = << >>
        BY <2>1, <2>5, NewControllers
  <2>7. hist' \in Histories /\ hist'.cut
    <3>1. Stamped(h, FALSE, 0) = [h EXCEPT !.exact = FALSE, !.left = 0]
          BY DEF Stamped
    <3>2. hist' = [[h EXCEPT !.exact = FALSE, !.left = 0] EXCEPT !.cut = TRUE]
          BY <2>1, <3>1
    <3>3. PICK g : g = [[h EXCEPT !.exact = FALSE, !.left = 0] EXCEPT !.cut = TRUE]
          OBVIOUS
    <3>4. g \in Histories /\ g.cut
          BY <3>3 DEF Histories
    <3>. QED  BY <3>2, <3>3, <3>4
  <2>. QED  BY <2>1, <2>4, <2>6, <2>7 DEF Sound
<1>. QED  BY <1>2, <1>3 DEF Submits

LEMMA SubmitsStands3 ==
    ASSUME NEW from, NEW c, NEW h \in Histories, NEW anchored, NEW cost,
           Done3(from, ~h.cut, c), Submits(c, h, anchored, cost), fired' \in Nat
    PROVE  FinalInv3' /\ Follows(Course3, from, rec')
<1>1. /\ Sound(Course3)' /\ Follows(Course3, from, rec')
      /\ up' = "live" => Alike(c, ctl') /\ rec' = Written(c)
      BY SubmitsSound DEF Done3
<1>2. ASSUME up' = "live" PROVE Stands3(ctl', rec')
      BY <1>1, <1>2 DEF Done3, Stands3, Alike, F3!Running, Tally3
<1>. QED  BY <1>1, <1>2 DEF FinalInv3

LEMMA SamePieces3 ==
    /\ \A c : F3!Written(c) = Written(c)
    /\ \A n : F3!Troubles(n) <=> Troubles(n)
    /\ \A stages : F3!Down(stages) <=> Down(stages)
BY DEF F3!Written, F3!Last, F3!Troubles, F3!Down, F3!NewCtl, Written, Last, Troubles, Down, NewCtl

LEMMA SameSubmits3 ==
    ASSUME NEW c, NEW h, NEW anchored, NEW cost, F3!Submits(c, h, anchored, cost)
    PROVE  Submits(c, h, anchored, cost)
<1>1. \A x, y : F3!Stamped(h, x, y) = Stamped(h, x, y)
      BY DEF F3!Stamped, Stamped
<1>. QED  BY <1>1, SamePieces3 DEF F3!Submits, Submits

LEMMA SameActions3 ==
    /\ F3!Crash <=> Crash
    /\ F3!TimePasses <=> TimePasses
    /\ F3!IncidentToggled <=> IncidentToggled
<1>1. F3!Crash <=> Crash
      BY SamePieces3 DEF F3!Crash, Crash
<1>2. F3!Stamped(hist, FALSE, 0) = Stamped(hist, FALSE, 0)
      /\ F3!Stamped(hist, hist.exact, ctl.left) = Stamped(hist, hist.exact, ctl.left)
      BY DEF F3!Stamped, Stamped
<1>3. F3!TimePasses <=> TimePasses
      BY <1>2 DEF F3!TimePasses, TimePasses, F3!Counts, Counts
<1>4. F3!IncidentToggled <=> IncidentToggled
      BY <1>2, SamePieces3 DEF F3!IncidentToggled, IncidentToggled
<1>. QED  BY <1>1, <1>3, <1>4
-----------------------------------------------------------------------------
(* The actions of the 3-position final.                                    *)

LEMMA PassedAt3 ==
    /\ \A s \in -1 .. 6 : PassedAt(Course3, s) = {}
    /\ PassedAt(Course3, 7) = {3, 5}
    /\ \A s \in 7 .. 8 + Singles3P :
          PassedAt(Course3, s + 1) = PassedAt(Course3, s) \cup {s} /\ s \notin PassedAt(Course3, s)
<1>1. /\ Course3.match = {3, 5} \cup 7 .. 8 + Singles3P
      /\ Course3.over[3] = 7 /\ Course3.over[5] = 7
      /\ \A s \in 7 .. 8 + Singles3P : Course3.over[s] = s + 1
      BY StagesOf3 DEF Course3
<1>2. \A s \in Int : PassedAt(Course3, s) =
          (IF 7 <= s THEN {3, 5} ELSE {}) \cup {t \in 7 .. 8 + Singles3P : t + 1 <= s}
  <2>1. SUFFICES ASSUME NEW s \in Int
                 PROVE  \A t : t \in PassedAt(Course3, s) <=>
                           t \in (IF 7 <= s THEN {3, 5} ELSE {})
                                 \cup {u \in 7 .. 8 + Singles3P : u + 1 <= s}
        OBVIOUS
  <2>2. TAKE t
  <2>3. CASE t \in {3, 5}
    <3>1. t \in PassedAt(Course3, s) <=> 7 <= s
          BY <1>1, <2>3 DEF PassedAt
    <3>. QED  BY <2>3, <3>1
  <2>4. CASE t \in 7 .. 8 + Singles3P
    <3>1. t \in PassedAt(Course3, s) <=> t + 1 <= s
          BY <1>1, <2>4 DEF PassedAt
    <3>. QED  BY <2>4, <3>1
  <2>5. CASE t \notin {3, 5} /\ t \notin 7 .. 8 + Singles3P
        BY <1>1, <2>5 DEF PassedAt
  <2>. QED  BY <2>3, <2>4, <2>5
<1>. QED  BY <1>2, StagesOf3

LEMMA InRunning3 ==
    ASSUME FinalInv3, up = "live", F3!Running(ctl)
    PROVE  /\ Written(ctl) = rec /\ rec.stage = ctl.stage /\ rec.life = "Active"
           /\ Steady(Course3, rec, ~hist.cut, PassedAt(Course3, ctl.stage), ctl)
           /\ ~rec.refused => ctl.shots = ShotsOf(rec, ctl.stage)
           /\ Stands3(ctl, rec) /\ Tally3(ctl, Written(ctl))
           /\ ctl.stage \in {1, 2, 3, 4, 5, 6} \cup 7 .. 8 + Singles3P /\ ctl.shots \in Nat
           /\ hist \in Histories /\ fired \in Nat
<1>1. Stands3(ctl, rec) /\ Sound(Course3)
      BY DEF FinalInv3
<1>2. rec.stage = ctl.stage /\ rec.life = "Active" /\ Tally3(ctl, rec)
      /\ (~rec.refused => ctl.shots = ShotsOf(rec, ctl.stage))
      BY <1>1 DEF Stands3
<1>3. Written(ctl) = rec /\ Steady(Course3, rec, ~hist.cut, PassedAt(Course3, ctl.stage), ctl)
      BY <1>1, <1>2, Begins
<1>4. ctl.stage \in {1, 2, 3, 4, 5, 6} \cup 7 .. 8 + Singles3P
      BY StagesOf3
<1>5. ctl.shots \in Nat /\ hist \in Histories /\ fired \in Nat
      BY <1>1 DEF Sound, Controllers
<1>. QED  BY <1>1, <1>2, <1>3, <1>4, <1>5

LEMMA Handled3 ==
    ASSUME FinalInv3, NEW d, Done3(rec, ~hist.cut, d), NEW cost, F3!HandlesAt(d, cost),
           fired' \in Nat
    PROVE  FinalInv3' /\ Follows(Course3, rec, rec')
<1>1. PICK h \in Histories : h = hist
      BY DEF FinalInv3, Sound
<1>2. PICK anchored : anchored = F3!Anchored(d)
      OBVIOUS
<1>3. Submits(d, h, anchored, cost)
      BY <1>1, <1>2, SameSubmits3 DEF F3!HandlesAt
<1>. QED  BY <1>1, <1>3, SubmitsStands3

\* A handler that neither enters a stage nor takes a shot.
LEMMA StepDone3 ==
    ASSUME FinalInv3, up = "live", F3!Running(ctl), NEW d, NEW w, NEW m,
           Step(Course3, rec, ~hist.cut, PassedAt(Course3, ctl.stage), ctl, d, w, m),
           w = "MatchOpen" => ctl.stage \in F3!MatchStages /\ m = "Match",
           w = "SightingOpen" => ctl.stage \in Sighting3 /\ m = "Sighter",
           ctl.stage = F3!KneelingMatch => m = "Match"
    PROVE  Done3(rec, ~hist.cut, d)
<1>1. /\ Steady(Course3, rec, ~hist.cut, PassedAt(Course3, ctl.stage), d)
      /\ Keeps(ctl, d) /\ d.window = w /\ d.mode = m /\ d.stage = ctl.stage
      BY DEF Step, Keeps
<1>2. Written(d).stage = d.stage /\ Written(d).life = "Active"
      BY <1>1, InRunning3 DEF Keeps, Beside, Steady
<1>3. Tally3(d, Written(d))
      BY <1>1, InRunning3, TallyKept3
<1>4. ~Written(d).refused => d.shots = ShotsOf(Written(d), d.stage)
  <2>1. ShotsOf(Written(d), ctl.stage) = ShotsOf(rec, ctl.stage)
        BY <1>1, InRunning3, SameShots DEF Keeps, Beside
  <2>. QED  BY <1>1, <2>1, InRunning3 DEF Keeps, Beside
<1>5. Settled(Course3, rec, ~hist.cut, d)
      BY <1>1, <1>2, SteadyIsSettled
<1>. QED  BY <1>1, <1>2, <1>3, <1>4, <1>5 DEF Done3, Stands3

\* EXCEPT of fields the invariant does not speak of.
LEMMA TimerStep ==
    ASSUME NEW k, NEW from, NEW whole, NEW S, NEW c, Steady(k, from, whole, S, c),
           NEW x \in Nat, NEW y \in Nat, NEW z \in Nat, NEW b \in BOOLEAN, NEW d,
           \/ d = [c EXCEPT !.seqStep = x, !.left = y]
           \/ d = [c EXCEPT !.seqStep = x, !.started1 = b, !.warned = z, !.left = y]
           \/ d = [c EXCEPT !.warned = z]
    PROVE  Step(k, from, whole, S, c, d, c.window, c.mode)
<1>1. c \in Controllers(k.stages)
      BY DEF Steady, Handling
<1>2. d \in Controllers(k.stages) /\ d.out = c.out /\ d.status = c.status
  <2>1. CASE d = [c EXCEPT !.seqStep = x, !.left = y]
    <3>1. d \in Controllers(k.stages)
          BY <1>1, <2>1 DEF Controllers
    <3>2. d.out = c.out /\ d.status = c.status
          BY <1>1, <2>1 DEF Controllers
    <3>. QED  BY <3>1, <3>2
  <2>2. CASE d = [c EXCEPT !.seqStep = x, !.started1 = b, !.warned = z, !.left = y]
    <3>1. d \in Controllers(k.stages)
          BY <1>1, <2>2 DEF Controllers
    <3>2. d.out = c.out /\ d.status = c.status
          BY <1>1, <2>2 DEF Controllers
    <3>. QED  BY <3>1, <3>2
  <2>3. CASE d = [c EXCEPT !.warned = z]
    <3>1. d \in Controllers(k.stages)
          BY <1>1, <2>3 DEF Controllers
    <3>2. d.out = c.out /\ d.status = c.status
          BY <1>1, <2>3 DEF Controllers
    <3>. QED  BY <3>1, <3>2
  <2>. QED  BY <2>1, <2>2, <2>3
<1>3. Steady(k, from, whole, S, d) /\ Beside(c, d)
      BY <1>2, AdjustedSteady
<1>4. /\ d.stage = c.stage /\ d.shots = c.shots /\ d.count = c.count
      /\ d.kneeling = c.kneeling /\ d.prone = c.prone /\ d.checkpoints = c.checkpoints
      /\ d.window = c.window /\ d.mode = c.mode
      BY <1>1 DEF Controllers
<1>. QED  BY <1>3, <1>4 DEF Step, Keeps

LEMMA SkipCeremony3 ==
    ASSUME FinalInv3, F3!SkipCeremony \/ F3!HoldOver
    PROVE  FinalInv3' /\ Follows(Course3, rec, rec')
<1>1. /\ up = "live" /\ ctl.stage = 1 /\ fired' = fired
      /\ F3!HandlesAt(F3!EnterStageAs(ctl, 2, "Full"), 0)
      BY StagesOf3 DEF F3!SkipCeremony, F3!HoldOver, F3!Due, F3!Ticking, F3!Handles, F3!EnterStage
<1>2. F3!Running(ctl)
      BY <1>1, StagesOf3
<1>3. PICK d : d = F3!EnterStageAs(ctl, 2, "Full")
      OBVIOUS
<1>4. PassedAt(Course3, 2) = PassedAt(Course3, ctl.stage) /\ 2 \in 1 .. 9 + Singles3P
  <2>1. 1 \in -1 .. 6 /\ 2 \in -1 .. 6
        OBVIOUS
  <2>2. PassedAt(Course3, 1) = {} /\ PassedAt(Course3, 2) = {}
        BY <2>1, PassedAt3
  <2>3. 2 \in 1 .. 9 + Singles3P
        BY StagesOf3
  <2>. QED  BY <1>1, <2>2, <2>3
<1>5. Written(ctl).stage < 2
      BY <1>1, <1>2, InRunning3
<1>6. Done3(rec, ~hist.cut, d)
      BY <1>1, <1>2, <1>3, <1>4, <1>5, InRunning3, EnterStage3
<1>7. F3!HandlesAt(d, 0)
      BY <1>1, <1>3
<1>. QED  BY <1>1, <1>2, <1>6, <1>7, InRunning3, Handled3

LEMMA AbortFinal3 ==
    ASSUME FinalInv3, F3!AbortFinal
    PROVE  FinalInv3' /\ Follows(Course3, rec, rec')
<1>. DEFINE S == PassedAt(Course3, ctl.stage)
            whole == ~hist.cut
            a == IF F3!StageShotLimit(ctl.stage) > 0
                 THEN F3!SetStageStatus(ctl, ctl.stage, "Aborted") ELSE ctl
            b == SetWindow(a, "Closed")
            d == [b EXCEPT !.stage = F3!Aborted, !.left = 0]
<1>1. up = "live" /\ F3!Running(ctl) /\ F3!HandlesAt(d, 1) /\ fired' = fired
      BY SameHelpers3 DEF F3!AbortFinal
<1>2. Step(Course3, rec, whole, S, ctl, a, ctl.window, ctl.mode)
  <2>1. Steady(Course3, rec, whole, S, ctl)
        BY <1>1, InRunning3
  <2>. HIDE DEF S, whole
  <2>2. CASE F3!StageShotLimit(ctl.stage) > 0
    <3>1. a = SetStageStatus(ctl, ctl.stage, "Aborted")
          BY <2>2, SameHelpers3
    <3>2. "Aborted" \in Statuses /\ ctl.stage \in Course3.stages
          BY <1>1, StagesOf3 DEF Statuses, Verdicts, Course3
    <3>3. PICK v \in Statuses : v = "Aborted"
          BY <3>2
    <3>. HIDE DEF a
    <3>. QED  BY <2>1, <3>1, <3>2, <3>3, CourseOf3, StatusStep
  <2>3. CASE ~(F3!StageShotLimit(ctl.stage) > 0)
    <3>1. a = ctl
          BY <2>3
    <3>. QED  BY <2>1, <3>1 DEF Step, Keeps, Beside
  <2>. QED  BY <2>2, <2>3
<1>. HIDE DEF a
<1>3. Steady(Course3, rec, whole, S, a)
      BY <1>2 DEF Step
<1>4. Step(Course3, rec, whole, S, a, b, "Closed", a.mode)
      BY <1>3, WindowStep DEF Windows
<1>. HIDE DEF b
<1>5. Steady(Course3, rec, whole, S, b) /\ Keeps(ctl, b) /\ b.window = "Closed"
      BY <1>2, <1>4 DEF Step, Keeps, Beside
<1>6. d \in Controllers(Course3.stages) /\ d.out = b.out /\ d.status = b.status
      /\ d.stage = F3!Aborted /\ d.window = "Closed" /\ d.count = b.count
      /\ d.kneeling = b.kneeling /\ d.prone = b.prone
  <2>1. b \in Controllers(Course3.stages) /\ F3!Aborted \in Int
        BY <1>5, StagesOf3 DEF Steady, Handling
  <2>. QED  BY <1>5, <2>1 DEF Controllers
<1>. HIDE DEF d
<1>7. Steady(Course3, rec, whole, S, d) /\ Beside(b, d)
      BY <1>5, <1>6, AdjustedSteady
<1>8. Written(d).stage = ctl.stage
      BY <1>1, <1>5, <1>7, InRunning3 DEF Keeps, Beside
<1>9. Settled(Course3, rec, whole, d)
      BY <1>7, <1>8, SteadyIsSettled
<1>10. Tally3(d, Written(d))
  <2>1. Tally3(b, Written(b))
        BY <1>1, <1>5, InRunning3, TallyKept3
  <2>2. \A s : ShotsOf(Written(d), s) = ShotsOf(Written(b), s)
        BY <1>7, SameShots DEF Beside
  <2>. QED  BY <1>6, <1>7, <2>1, <2>2 DEF Tally3, Beside
<1>11. Stands3(d, Written(d))
       BY <1>6, <1>10, StagesOf3 DEF Stands3
<1>12. Done3(rec, ~hist.cut, d)
       BY <1>9, <1>11 DEF Done3
<1>. QED  BY <1>1, <1>12, InRunning3, Handled3

\* A mark in the journal changes nothing, whatever the state of the match.
LEMMA Marked3 ==
    ASSUME FinalInv3, up = "live", NEW d, d = F3!Emit(ctl, F3!Mark)
    PROVE  Done3(rec, ~hist.cut, d)
<1>1. /\ Settled(Course3, rec, ~hist.cut, ctl) /\ Written(ctl) = rec
      /\ Stands3(ctl, rec)
      BY Begins DEF FinalInv3
<1>2. d = IssueCommand(ctl)
      BY SameHelpers3 DEF IssueCommand
<1>3. /\ Handling(Course3, rec, d) /\ Alike(ctl, d) /\ Same(rec, Written(d))
      BY <1>1, <1>2, CommandIssued DEF Settled
<1>4. PassedIn(Course3, Written(d)) = PassedIn(Course3, rec)
      BY <1>3 DEF PassedIn, Same
<1>5. Settled(Course3, rec, ~hist.cut, d)
      BY <1>1, <1>3, <1>4, SameIsExact DEF Settled, Same, Alike
<1>6. \A s : ShotsOf(Written(d), s) = ShotsOf(rec, s)
      BY <1>3, SameShots DEF Same
<1>7. Stands3(d, Written(d))
      BY <1>1, <1>3, <1>6 DEF Stands3, Tally3, Same, Alike, F3!Running
<1>. QED  BY <1>5, <1>7 DEF Done3

LEMMA ShotOnly3 ==
    ASSUME FinalInv3, F3!RegisterSighter \/ F3!RejectShot
    PROVE  FinalInv3' /\ Follows(Course3, rec, rec')
<1>1. PICK cost : up = "live" /\ fired' = fired + 1
                  /\ F3!HandlesAt(F3!Emit(ctl, F3!Mark), cost)
      BY DEF F3!RegisterSighter, F3!RejectShot, F3!Detected, F3!Handles
<1>2. PICK d : d = F3!Emit(ctl, F3!Mark)
      OBVIOUS
<1>3. Done3(rec, ~hist.cut, d)
      BY <1>1, <1>2, Marked3
<1>4. fired' \in Nat
      BY <1>1 DEF FinalInv3, Sound
<1>. QED  BY <1>1, <1>2, <1>3, <1>4, Handled3

\* The commands of the clock that open or close nothing.
LEMMA ClockOnly3 ==
    ASSUME FinalInv3, F3!TakeYourPositions \/ F3!LoadCommand \/ F3!Warning
    PROVE  FinalInv3' /\ Follows(Course3, rec, rec')
<1>. DEFINE S == PassedAt(Course3, ctl.stage)
            a == IssueCommand(ctl)
<1>1. up = "live" /\ F3!Running(ctl) /\ fired' = fired
  <2>1. CASE F3!TakeYourPositions \/ F3!LoadCommand
        BY <2>1, StagesOf3 DEF F3!TakeYourPositions, F3!LoadCommand, F3!Due, F3!Ticking
  <2>2. CASE F3!Warning
    <3>1. Len(<<>>) = 0
          OBVIOUS
    <3>2. ctl.stage \in {2, 3, 4, 5, 6}
      <4>1. SUFFICES ASSUME ctl.stage \notin {2, 3, 4, 5, 6} PROVE FALSE
            OBVIOUS
      <4>2. F3!Warnings(ctl) = << >>
            BY <4>1, StagesOf3 DEF F3!Warnings
      <4>3. ctl.warned \in Nat /\ ctl.warned < Len(F3!Warnings(ctl))
            BY <2>2 DEF F3!Warning, F3!WarningDue, FinalInv3, Sound, Controllers
      <4>. QED  BY <3>1, <4>2, <4>3
    <3>. QED  BY <2>2, <3>2, StagesOf3 DEF F3!Warning, F3!Ticking
  <2>. QED  BY <2>1, <2>2
<1>2. PICK d : \E x, y, z \in Nat :
         /\ d = [a EXCEPT !.seqStep = x, !.left = y] \/ d = [a EXCEPT !.warned = z]
         /\ F3!HandlesAt(d, 0)
  <2>1. CASE F3!TakeYourPositions
    <3>1. PICK x \in Nat, y \in Nat : x = 1 /\ y = Durations["Hold"]
          BY DurationsNat DEF Segments
    <3>2. F3!HandlesAt([a EXCEPT !.seqStep = x, !.left = y], 0)
          BY <2>1, <3>1, SameHelpers3 DEF F3!TakeYourPositions, F3!Handles
    <3>. QED  BY <3>2
  <2>2. CASE F3!LoadCommand
    <3>1. PICK x \in Nat, y \in Nat : x = 1 /\ y = Durations["Load"]
          BY DurationsNat DEF Segments
    <3>2. F3!HandlesAt([a EXCEPT !.seqStep = x, !.left = y], 0)
          BY <2>2, <3>1, SameHelpers3 DEF F3!LoadCommand, F3!Handles
    <3>. QED  BY <3>2
  <2>3. CASE F3!Warning
    <3>1. Step(Course3, rec, ~hist.cut, S, ctl, a, ctl.window, ctl.mode)
          BY <1>1, InRunning3, CommandStep
    <3>2. a.warned \in Nat
          BY <3>1 DEF Step, Steady, Handling, Controllers
    <3>3. F3!HandlesAt([a EXCEPT !.warned = a.warned + 1], 0)
          BY <2>3, SameHelpers3 DEF F3!Warning, F3!Handles
    <3>4. a.warned + 1 \in Nat
          BY <3>2
    <3>. QED  BY <3>3, <3>4
  <2>. QED  BY <2>1, <2>2, <2>3
<1>3. Step(Course3, rec, ~hist.cut, S, ctl, a, ctl.window, ctl.mode)
      BY <1>1, InRunning3, CommandStep
<1>8. PICK x \in Nat, y \in Nat, z \in Nat :
         d = [a EXCEPT !.seqStep = x, !.left = y] \/ d = [a EXCEPT !.warned = z]
      BY <1>2
<1>9. F3!HandlesAt(d, 0)
      BY <1>2
<1>. HIDE DEF a, S
<1>4. Steady(Course3, rec, ~hist.cut, S, a) /\ a.window = ctl.window /\ a.mode = ctl.mode
      BY <1>3 DEF Step
<1>5. Step(Course3, rec, ~hist.cut, S, a, d, a.window, a.mode)
      BY <1>4, <1>8, TimerStep
<1>6. Step(Course3, rec, ~hist.cut, S, ctl, d, ctl.window, ctl.mode)
      BY <1>3, <1>4, <1>5, StepsCompose
<1>7. Done3(rec, ~hist.cut, d)
  <2>1. Step(Course3, rec, ~hist.cut, PassedAt(Course3, ctl.stage), ctl, d, ctl.window, ctl.mode)
        BY <1>6 DEF S
  <2>2. Stands3(ctl, rec)
        BY <1>1, InRunning3
  <2>. QED  BY <1>1, <2>1, <2>2, StepDone3 DEF Stands3
<1>. QED  BY <1>1, <1>7, <1>9, InRunning3, Handled3

LEMMA WindowOpens3 ==
    ASSUME FinalInv3, F3!MatchFiringStart \/ F3!StartCommand
    PROVE  FinalInv3' /\ Follows(Course3, rec, rec')
<1>. DEFINE S == PassedAt(Course3, ctl.stage)
            a == IssueCommand(ctl)
<1>1. /\ up = "live" /\ F3!Running(ctl) /\ fired' = fired
      /\ ctl.stage \in F3!MatchStages
      BY StagesOf3 DEF F3!MatchFiringStart, F3!StartCommand, F3!Due, F3!Ticking
<1>2. Step(Course3, rec, ~hist.cut, S, ctl, a, ctl.window, ctl.mode)
      BY <1>1, InRunning3, CommandStep
<1>. HIDE DEF a
<1>3. Steady(Course3, rec, ~hist.cut, S, a) /\ a.mode = ctl.mode
      BY <1>2 DEF Step
<1>4. PICK d, m :
         /\ Step(Course3, rec, ~hist.cut, S, a, d, "MatchOpen", m) /\ m = "Match"
         /\ F3!HandlesAt(d, 0)
  <2>1. CASE F3!MatchFiringStart
    <3>. DEFINE b == SetWindow(a, "MatchOpen")
    <3>1. ctl.stage = F3!KneelingMatch
          BY <2>1 DEF F3!MatchFiringStart, F3!Due
    <3>2. a.mode = "Match"
          BY <1>1, <1>3, <3>1, InRunning3 DEF Stands3
    <3>3. Step(Course3, rec, ~hist.cut, S, a, b, "MatchOpen", a.mode)
          BY <1>3, WindowStep DEF Windows
    <3>4. PICK x \in Nat, y \in Nat, z \in Nat, t \in BOOLEAN :
              x = 1 /\ y = Durations["Stage1"] /\ z = 0 /\ t = TRUE
          BY DurationsNat DEF Segments
    <3>5. PICK d : d = [b EXCEPT !.seqStep = x, !.started1 = t, !.warned = z, !.left = y]
          OBVIOUS
    <3>6. F3!HandlesAt(d, 0)
          BY <2>1, <3>4, <3>5, SameHelpers3 DEF F3!MatchFiringStart, F3!Handles, a
    <3>. HIDE DEF b
    <3>7. Steady(Course3, rec, ~hist.cut, S, b) /\ b.window = "MatchOpen" /\ b.mode = "Match"
          BY <3>2, <3>3 DEF Step
    <3>8. Step(Course3, rec, ~hist.cut, S, b, d, b.window, b.mode)
          BY <3>5, <3>7, TimerStep
    <3>9. Step(Course3, rec, ~hist.cut, S, a, d, "MatchOpen", "Match")
          BY <3>3, <3>7, <3>8, StepsCompose
    <3>. QED  BY <3>6, <3>9
  <2>2. CASE F3!StartCommand
    <3>1. PICK y \in Nat : y = F3!WindowMs(ctl.stage)
      <4>1. Durations["Series"] \in Nat /\ Durations["Single"] \in Nat
            BY DurationsNat DEF Segments
      <4>. QED  BY <4>1 DEF F3!WindowMs
    <3>2. PICK d : d = OpenCommandWindow(a, y)
          OBVIOUS
    <3>3. F3!HandlesAt(d, 0)
          BY <2>2, <3>1, <3>2, SameHelpers3 DEF F3!StartCommand, F3!Handles, a
    <3>4. Step(Course3, rec, ~hist.cut, S, a, d, "MatchOpen", "Match")
          BY <1>3, <3>2, OpenStep
    <3>. QED  BY <3>3, <3>4
  <2>. QED  BY <2>1, <2>2
<1>5. Step(Course3, rec, ~hist.cut, S, ctl, d, "MatchOpen", m)
      BY <1>2, <1>4, StepsCompose
<1>6. Done3(rec, ~hist.cut, d)
      BY <1>1, <1>4, <1>5, StepDone3
<1>. QED  BY <1>1, <1>4, <1>6, InRunning3, Handled3

LEMMA PrepStop3 ==
    ASSUME FinalInv3, F3!PrepStop
    PROVE  FinalInv3' /\ Follows(Course3, rec, rec')
<1>. DEFINE S == PassedAt(Course3, ctl.stage)
            a == CloseWindowAndStop(ctl)
            b == [a EXCEPT !.mode = "Match"]
<1>1. /\ up = "live" /\ F3!Running(ctl) /\ fired' = fired /\ ctl.stage = 2
      BY StagesOf3 DEF F3!PrepStop, F3!Due, F3!Ticking
<1>2. Step(Course3, rec, ~hist.cut, S, ctl, a, "Closed", ctl.mode)
      BY <1>1, InRunning3, StopStep
<1>3. F3!HandlesAt(F3!EnterStageAs(b, 3, "Full"), 0)
      BY SameHelpers3, StagesOf3 DEF F3!PrepStop, F3!Handles, F3!EnterStage
<1>. HIDE DEF a
<1>4. Steady(Course3, rec, ~hist.cut, S, a)
      BY <1>2 DEF Step
<1>5. Step(Course3, rec, ~hist.cut, S, a, b, a.window, "Match")
      BY <1>4, ModeStep
<1>. HIDE DEF b
<1>6. Steady(Course3, rec, ~hist.cut, S, b) /\ b.mode = "Match" /\ Keeps(ctl, b)
      BY <1>2, <1>5 DEF Step, Keeps, Beside
<1>7. Tally3(b, Written(b)) /\ Written(b).stage = 2
      BY <1>1, <1>6, InRunning3, TallyKept3 DEF Keeps, Beside
<1>8. S = PassedAt(Course3, 3) /\ 3 \in 1 .. 9 + Singles3P
  <2>1. 2 \in -1 .. 6 /\ 3 \in -1 .. 6
        OBVIOUS
  <2>2. PassedAt(Course3, 2) = {} /\ PassedAt(Course3, 3) = {}
        BY <2>1, PassedAt3
  <2>3. 3 \in 1 .. 9 + Singles3P
        BY StagesOf3
  <2>. QED  BY <1>1, <2>2, <2>3
<1>. HIDE DEF S
<1>9. PICK d : d = F3!EnterStageAs(b, 3, "Full")
      OBVIOUS
<1>10. Done3(rec, ~hist.cut, d)
       BY <1>6, <1>7, <1>8, <1>9, EnterStage3
<1>. QED  BY <1>1, <1>3, <1>9, <1>10, InRunning3, Handled3

\* The athlete goes on to the next position of stage one.
LEMMA Stage1Advance3 ==
    ASSUME FinalInv3, F3!AdvanceStage1 \/ F3!DevForceAdvance
    PROVE  FinalInv3' /\ Follows(Course3, rec, rec')
<1>. DEFINE S == PassedAt(Course3, ctl.stage)
<1>1. PICK cost : /\ up = "live" /\ fired' = fired
                  /\ F3!HandlesAt(F3!Stage1Advance(ctl), cost)
                  /\ ctl.stage \in {3, 4, 5, 6}
      BY StagesOf3 DEF F3!AdvanceStage1, F3!DevForceAdvance, F3!CanAdvance, F3!Handles
<1>2. F3!Running(ctl)
      BY <1>1, StagesOf3
<1>3. PICK d : d = F3!Stage1Advance(ctl)
      OBVIOUS
<1>4. Done3(rec, ~hist.cut, d)
  <2>1. CASE ctl.stage \in {3, 4, 5}
    <3>1. PICK m \in {"Sighter", "Match"}, s \in {4, 5, 6} :
             /\ s = ctl.stage + 1 /\ m = (IF s = 5 THEN "Match" ELSE "Sighter")
             /\ d = F3!EnterStageAs([ctl EXCEPT !.mode = m], s, "Full")
      <4>1. CASE ctl.stage = 3
            BY <1>3, <4>1, StagesOf3 DEF F3!Stage1Advance, F3!EnterStage
      <4>2. CASE ctl.stage = 4
            BY <1>3, <4>2, StagesOf3 DEF F3!Stage1Advance, F3!EnterStage
      <4>3. CASE ctl.stage = 5
            BY <1>3, <4>3, StagesOf3 DEF F3!Stage1Advance, F3!EnterStage
      <4>. QED  BY <2>1, <4>1, <4>2, <4>3
    <3>. DEFINE b == [ctl EXCEPT !.mode = m]
    <3>2. Step(Course3, rec, ~hist.cut, S, ctl, b, ctl.window, m)
          BY <1>1, <1>2, InRunning3, ModeStep
    <3>3. d = F3!EnterStageAs(b, s, "Full")
          BY <3>1
    <3>. HIDE DEF b
    <3>4. Steady(Course3, rec, ~hist.cut, S, b) /\ b.mode = m /\ Keeps(ctl, b)
          BY <3>2 DEF Step
    <3>5. Tally3(b, Written(b)) /\ Written(b).stage = ctl.stage
          BY <1>1, <1>2, <3>4, InRunning3, TallyKept3 DEF Keeps, Beside
    <3>6. S = PassedAt(Course3, s) /\ s \in 1 .. 9 + Singles3P /\ Written(b).stage < s
      <4>1. ctl.stage \in -1 .. 6 /\ s \in -1 .. 6
            BY <1>1
      <4>2. PassedAt(Course3, ctl.stage) = {} /\ PassedAt(Course3, s) = {}
            BY <4>1, PassedAt3
      <4>. QED  BY <1>1, <3>1, <3>5, <4>2, StagesOf3
    <3>. HIDE DEF S
    <3>7. /\ s \in {3, 5} => b.mode = "Match"
          /\ s \in {4, 6} => b.mode = "Sighter"
          BY <3>1, <3>4
    <3>. QED  BY <3>3, <3>4, <3>5, <3>6, <3>7, EnterStage3
  <2>2. CASE ctl.stage = 6
    <3>. DEFINE b == [ctl EXCEPT !.mode = "Match"]
    <3>1. d = SetWindow(b, "Closed")
          BY <1>3, <2>2, SameHelpers3, StagesOf3 DEF F3!Stage1Advance
    <3>2. Step(Course3, rec, ~hist.cut, S, ctl, b, ctl.window, "Match")
          BY <1>1, <1>2, InRunning3, ModeStep
    <3>. HIDE DEF b
    <3>3. Steady(Course3, rec, ~hist.cut, S, b) /\ b.mode = "Match"
          BY <3>2 DEF Step
    <3>4. Step(Course3, rec, ~hist.cut, S, b, d, "Closed", "Match")
          BY <3>1, <3>3, WindowStep DEF Windows
    <3>5. Step(Course3, rec, ~hist.cut, S, ctl, d, "Closed", "Match")
          BY <3>2, <3>4, StepsCompose
    <3>6. PICK w, m : w = "Closed" /\ m = "Match"
          OBVIOUS
    <3>. QED  BY <1>1, <1>2, <3>5, <3>6, StepDone3
  <2>. QED  BY <1>1, <2>1, <2>2
<1>. QED  BY <1>1, <1>2, <1>3, <1>4, InRunning3, Handled3

\* Between the two steps a stage may come to be over.
LEMMA StepsFollow ==
    ASSUME NEW k, NEW from, NEW whole, NEW S, NEW T, NEW c, NEW d, NEW e,
           NEW w, NEW m, NEW v, NEW n, Step(k, from, whole, S, c, d, w, m),
           Step(k, from, whole, T, d, e, v, n)
    PROVE  Step(k, from, whole, T, c, e, v, n)
BY DEF Step, Keeps, Beside

\* addRange: the stage is accounted for.
LEMMA Range3 ==
    ASSUME NEW from, NEW whole, NEW S \in SUBSET F3!MatchStages, NEW c,
           Steady(Course3, from, whole, S, c), NEW s \in F3!MatchStages, s \notin S,
           NEW shots \in Nat, ~Written(c).refused => shots = ShotsOf(Written(c), s),
           NEW d, d = F3!AddRange(c, s, shots)
    PROVE  Step(Course3, from, whole, S \cup {s}, c, d, c.window, c.mode)
<1>1. s \in Course3.match /\ S \in SUBSET Course3.match
      BY DEF Course3
<1>2. Course3.base[s] = F3!StageShotNumberBase(s) /\ Course3.limit[s] = F3!StageShotLimit(s)
      BY DEF Course3
<1>3. d = MissingRange(c, Course3.base[s], shots, Course3.limit[s])
      BY <1>2, SameHelpers3 DEF F3!AddRange
<1>4. Steady(Course3, from, whole, S \cup {s}, d) /\ Alike(c, d) /\ Beside(c, d)
      BY <1>1, <1>3, CourseOf3, MissingSteady
<1>. QED  BY <1>4 DEF Step, Keeps, Alike

\* No stage has more shots than it asks for.
LEMMA AtMostLimit3 ==
    ASSUME NEW from, NEW whole, NEW S, NEW c, Steady(Course3, from, whole, S, c),
           ~Written(c).refused, NEW s \in F3!MatchStages
    PROVE  ShotsOf(Written(c), s) <= F3!StageShotLimit(s)
<1>1. s \in Course3.match /\ Course3.limit[s] = F3!StageShotLimit(s)
      BY DEF Course3
<1>2. Ranked(Course3, Written(c))
      BY DEF Steady, Counted
<1>. QED  BY <1>1, <1>2 DEF Ranked

LEMMA Verdict3 ==
    ASSUME NEW from, NEW whole, NEW S \in SUBSET F3!MatchStages, NEW c,
           Steady(Course3, from, whole, S, c), NEW s \in S,
           NEW shots \in Nat, ~Written(c).refused => shots = ShotsOf(Written(c), s),
           NEW d, d = F3!SetVerdict(c, s, shots)
    PROVE  Step(Course3, from, whole, S, c, d, c.window, c.mode)
<1>1. s \in Course3.match /\ s \in Course3.stages /\ Course3.limit[s] = F3!StageShotLimit(s)
      BY CourseOf3 DEF Course3, IsCourse
<1>2. PICK v \in Statuses : v = F3!Verdict(shots, s)
      BY DEF F3!Verdict, Statuses, Verdicts
<1>3. d = SetStageStatus(c, s, v)
      BY <1>2, SameHelpers3 DEF F3!SetVerdict
<1>4. PICK limit \in Nat : limit = F3!StageShotLimit(s)
      BY LimitsOf3
<1>5. ASSUME ~Written(c).refused
      PROVE  /\ v = "Complete" => ShotsOf(Written(c), s) = Course3.limit[s]
             /\ v = "Incomplete" => ShotsOf(Written(c), s) # Course3.limit[s]
  <2>1. shots = ShotsOf(Written(c), s) /\ shots <= limit
        BY <1>4, <1>5, AtMostLimit3
  <2>2. v = IF shots >= limit THEN "Complete" ELSE "Incomplete"
        BY <1>2, <1>4 DEF F3!Verdict
  <2>3. CASE shots >= limit
        BY <1>1, <1>4, <2>1, <2>2, <2>3
  <2>4. CASE ~(shots >= limit)
        BY <1>1, <1>4, <2>1, <2>2, <2>4
  <2>. QED  BY <2>3, <2>4
<1>. QED  BY <1>1, <1>3, <1>5, CourseOf3, StatusStep

\* The note of the announcer, then the next commanded stage.
LEMMA Advance3 ==
    ASSUME NEW from, NEW whole, NEW c, NEW s \in 7 .. 8 + Singles3P, NEW S,
           S = PassedAt(Course3, s + 1), Steady(Course3, from, whole, S, c),
           Written(c).stage = s, Tally3(c, Written(c)),
           NEW d, d = F3!EnterStage(F3!IssueCommand(c), s + 1)
    PROVE  Done3(from, whole, d)
<1>. DEFINE a == IssueCommand(c)
<1>1. Step(Course3, from, whole, S, c, a, c.window, c.mode)
      BY CommandStep
<1>2. d = F3!EnterStageAs(a, s + 1, "Full")
      BY SameHelpers3 DEF F3!EnterStage
<1>. HIDE DEF a
<1>3. Steady(Course3, from, whole, S, a) /\ Keeps(c, a)
      BY <1>1 DEF Step
<1>4. Tally3(a, Written(a)) /\ Written(a).stage = s
      BY <1>3, TallyKept3 DEF Keeps, Beside
<1>5. PICK t : t = s + 1
      OBVIOUS
<1>6. t \in 1 .. 9 + Singles3P /\ t \notin {3, 4, 5, 6} /\ s < t
      BY <1>5, StagesOf3
<1>. QED  BY <1>2, <1>3, <1>4, <1>5, <1>6, EnterStage3

LEMMA CommandExpired3 ==
    ASSUME FinalInv3, F3!CommandExpired
    PROVE  FinalInv3' /\ Follows(Course3, rec, rec')
<1>1. /\ up = "live" /\ F3!Running(ctl) /\ fired' = fired /\ ctl.stage \in 7 .. 8 + Singles3P
      BY StagesOf3 DEF F3!CommandExpired, F3!Due, F3!Ticking
<1>2. PICK s \in 7 .. 8 + Singles3P : s = ctl.stage
      BY <1>1
<1>. DEFINE S == PassedAt(Course3, s)
            T == PassedAt(Course3, s + 1)
            a == F3!AddRange(ctl, s, ctl.shots)
            b == F3!SetVerdict(a, s, ctl.shots)
            e == CloseWindowAndStop(b)
<1>3. T = S \cup {s} /\ s \notin S /\ S \in SUBSET F3!MatchStages /\ s \in F3!MatchStages
      BY PassedAt3, StagesOf3 DEF PassedAt, Course3
<1>4. /\ Steady(Course3, rec, ~hist.cut, S, ctl) /\ Written(ctl) = rec /\ ctl.shots \in Nat
      /\ ~rec.refused => ctl.shots = ShotsOf(rec, s)
      /\ Tally3(ctl, Written(ctl)) /\ rec.stage = s
      BY <1>1, <1>2, InRunning3
<1>5. F3!HandlesAt(F3!AdvanceAfterCommandStage(e), 0)
      BY <1>2, SameHelpers3 DEF F3!CommandExpired, F3!Handles, F3!RecordMissingShots
<1>. HIDE DEF S, T
<1>6. Step(Course3, rec, ~hist.cut, T, ctl, a, ctl.window, ctl.mode)
      BY <1>3, <1>4, Range3
<1>. HIDE DEF a
<1>7. Steady(Course3, rec, ~hist.cut, T, a) /\ Keeps(ctl, a)
      BY <1>6 DEF Step
<1>8. ~Written(a).refused => ctl.shots = ShotsOf(Written(a), s)
      BY <1>4, <1>7, SameShots DEF Keeps, Beside
<1>9. Step(Course3, rec, ~hist.cut, T, a, b, a.window, a.mode)
      BY <1>3, <1>4, <1>7, <1>8, Verdict3
<1>. HIDE DEF b
<1>10. Steady(Course3, rec, ~hist.cut, T, b)
      BY <1>9 DEF Step
<1>11. Step(Course3, rec, ~hist.cut, T, b, e, "Closed", b.mode)
      BY <1>10, StopStep
<1>. HIDE DEF e
<1>12. Step(Course3, rec, ~hist.cut, T, ctl, e, "Closed", b.mode)
      BY <1>6, <1>9, <1>11, StepsFollow
<1>13. Steady(Course3, rec, ~hist.cut, T, e) /\ Written(e).stage = s /\ Tally3(e, Written(e))
      BY <1>4, <1>12, TallyKept3 DEF Step, Keeps, Beside
<1>14. PICK d : d = F3!AdvanceAfterCommandStage(e)
      OBVIOUS
<1>15. d = F3!EnterStage(F3!IssueCommand(e), s + 1)
      BY <1>2, <1>12, <1>14 DEF F3!AdvanceAfterCommandStage, Step, Keeps
<1>16. Done3(rec, ~hist.cut, d)
      BY <1>13, <1>15, Advance3 DEF T
<1>. QED  BY <1>1, <1>5, <1>14, <1>16, InRunning3, Handled3

\* The clock of stage one has run out: both positions are accounted for.
LEMMA Stage1Stop3 ==
    ASSUME FinalInv3, F3!Stage1Stop
    PROVE  FinalInv3' /\ Follows(Course3, rec, rec')
<1>. DEFINE a == CloseWindowAndStop(ctl)
            b == [a EXCEPT !.mode = "Match"]
            e == F3!AddRange(b, 3, b.kneeling)
            f == F3!AddRange(e, 5, b.prone)
            g == F3!SetVerdict(f, 3, b.kneeling)
            h == F3!SetVerdict(g, 5, b.prone)
<1>1. /\ up = "live" /\ F3!Running(ctl) /\ fired' = fired /\ ctl.stage \in {3, 4, 5, 6}
      BY StagesOf3 DEF F3!Stage1Stop, F3!Ticking
<1>2. F3!HandlesAt(F3!EnterStageAs(h, 7, "Full"), 0)
      BY SameHelpers3, StagesOf3
      DEF F3!Stage1Stop, F3!Handles, F3!EnterStage, F3!RecordMissingStage1
<1>3. PassedAt(Course3, ctl.stage) = {} /\ PassedAt(Course3, 7) = {3, 5}
  <2>1. ctl.stage \in -1 .. 6
        BY <1>1
  <2>. QED  BY <2>1, PassedAt3
<1>4. /\ Steady(Course3, rec, ~hist.cut, {}, ctl) /\ Written(ctl) = rec
      /\ Tally3(ctl, Written(ctl)) /\ rec.stage = ctl.stage
      BY <1>1, <1>3, InRunning3
<1>5. 3 \in F3!MatchStages /\ 5 \in F3!MatchStages /\ F3!KneelingMatch = 3 /\ F3!ProneMatch = 5
      BY StagesOf3
<1>6. Step(Course3, rec, ~hist.cut, {}, ctl, a, "Closed", ctl.mode)
      BY <1>4, StopStep
<1>. HIDE DEF a
<1>7. Step(Course3, rec, ~hist.cut, {}, a, b, a.window, "Match")
      BY <1>6, ModeStep DEF Step
<1>8. Step(Course3, rec, ~hist.cut, {}, ctl, b, a.window, "Match")
      BY <1>6, <1>7, StepsFollow
<1>. HIDE DEF b
<1>9. Steady(Course3, rec, ~hist.cut, {}, b) /\ Keeps(ctl, b) /\ b \in Controllers(F3!Stages)
      BY <1>8 DEF Step, Steady, Handling, Course3
<1>10. Tally3(b, Written(b)) /\ b.kneeling \in Nat /\ b.prone \in Nat
       BY <1>4, <1>9, TallyKept3 DEF Controllers
<1>11. \A c : Keeps(b, c) /\ ~Written(c).refused =>
           b.kneeling = ShotsOf(Written(c), 3) /\ b.prone = ShotsOf(Written(c), 5)
  <2>1. SUFFICES ASSUME NEW c, Keeps(b, c), ~Written(c).refused
                 PROVE  b.kneeling = ShotsOf(Written(c), 3) /\ b.prone = ShotsOf(Written(c), 5)
        OBVIOUS
  <2>2. ~Written(b).refused /\ Written(c).officials = Written(b).officials
        BY <2>1 DEF Keeps, Beside
  <2>3. ShotsOf(Written(c), 3) = ShotsOf(Written(b), 3)
        /\ ShotsOf(Written(c), 5) = ShotsOf(Written(b), 5)
        BY <2>2, SameShots
  <2>. QED  BY <1>5, <1>10, <2>2, <2>3 DEF Tally3
<1>12. ~Written(b).refused => b.kneeling = ShotsOf(Written(b), 3)
       BY <1>5, <1>10 DEF Tally3
<1>13. Step(Course3, rec, ~hist.cut, {3}, b, e, b.window, b.mode)
  <2>1. {} \in SUBSET F3!MatchStages /\ 3 \notin {} /\ {} \cup {3} = {3}
        OBVIOUS
  <2>. QED  BY <1>5, <1>9, <1>10, <1>12, <2>1, Range3
<1>. HIDE DEF e
<1>14. Step(Course3, rec, ~hist.cut, {3, 5}, e, f, e.window, e.mode)
  <2>1. {3} \in SUBSET F3!MatchStages /\ 5 \notin {3} /\ {3} \cup {5} = {3, 5}
        BY <1>5
  <2>2. Steady(Course3, rec, ~hist.cut, {3}, e) /\ Keeps(b, e)
        BY <1>13 DEF Step
  <2>3. ~Written(e).refused => b.prone = ShotsOf(Written(e), 5)
        BY <1>11, <2>2
  <2>4. PICK S : S = {3}
        OBVIOUS
  <2>5. S \in SUBSET F3!MatchStages /\ 5 \notin S /\ S \cup {5} = {3, 5}
        BY <2>1, <2>4
  <2>6. PICK s \in F3!MatchStages, shots \in Nat : s = 5 /\ shots = b.prone
        BY <1>5, <1>10
  <2>7. PICK d : d = F3!AddRange(e, s, shots)
        OBVIOUS
  <2>8. Steady(Course3, rec, ~hist.cut, S, e) /\ s \notin S
        /\ (~Written(e).refused => shots = ShotsOf(Written(e), s))
        BY <2>2, <2>3, <2>4, <2>5, <2>6
  <2>9. Step(Course3, rec, ~hist.cut, S \cup {s}, e, d, e.window, e.mode)
        BY <2>5, <2>6, <2>7, <2>8, Range3
  <2>. QED  BY <2>5, <2>6, <2>7, <2>9
<1>. HIDE DEF f
<1>. DEFINE T == {3, 5}
<1>15. T \in SUBSET F3!MatchStages /\ 3 \in T /\ 5 \in T
       BY <1>5
<1>16. Step(Course3, rec, ~hist.cut, T, b, f, e.window, e.mode)
       BY <1>13, <1>14, StepsFollow
<1>. HIDE DEF T
<1>17. Step(Course3, rec, ~hist.cut, T, f, g, f.window, f.mode)
       BY <1>10, <1>11, <1>15, <1>16, Verdict3 DEF Step
<1>. HIDE DEF g
<1>18. Step(Course3, rec, ~hist.cut, T, b, g, f.window, f.mode)
       BY <1>16, <1>17, StepsFollow
<1>19. Step(Course3, rec, ~hist.cut, T, g, h, g.window, g.mode)
       BY <1>10, <1>11, <1>15, <1>18, Verdict3 DEF Step
<1>. HIDE DEF h
<1>20. Step(Course3, rec, ~hist.cut, T, b, h, g.window, g.mode)
       BY <1>18, <1>19, StepsFollow
<1>21. Step(Course3, rec, ~hist.cut, T, ctl, h, g.window, g.mode)
       BY <1>8, <1>20, StepsFollow
<1>22. Steady(Course3, rec, ~hist.cut, T, h) /\ Written(h).stage = ctl.stage
       /\ Tally3(h, Written(h))
       BY <1>4, <1>21, TallyKept3 DEF Step, Keeps, Beside
<1>23. T = PassedAt(Course3, 7) /\ 7 \in 1 .. 9 + Singles3P /\ Written(h).stage < 7
       BY <1>1, <1>3, <1>22, StagesOf3 DEF T
<1>24. PICK s, d : s = 7 /\ d = F3!EnterStageAs(h, s, "Full")
       OBVIOUS
<1>25. s \notin {3, 5} /\ s \notin {4, 6}
       BY <1>24
<1>26. Done3(rec, ~hist.cut, d)
       BY <1>22, <1>23, <1>24, <1>25, EnterStage3
<1>. QED  BY <1>1, <1>2, <1>24, <1>26, InRunning3, Handled3

\* The shot is counted, in its stage and in all.
CountsShot(c, d, s) ==
    /\ d.out = c.out /\ d.status = c.status
    /\ d.stage = c.stage /\ d.window = c.window /\ d.mode = c.mode
    /\ d.shots = c.shots + 1 /\ d.count = c.count + 1
    /\ d.kneeling = IF s = 3 THEN c.shots + 1 ELSE c.kneeling
    /\ d.prone = IF s = 5 THEN c.shots + 1 ELSE c.prone

\* acceptShot of an official, up to its event.
LEMMA ShotCounted3 ==
    ASSUME FinalInv3, up = "live", F3!Running(ctl), NEW s \in F3!MatchStages, s = ctl.stage,
           ctl.shots < F3!StageShotLimit(s), NEW ext \in Int,
           NEW full, Fills(Course3, s, ctl.shots, full),
           NEW c \in Controllers(Course3.stages), CountsShot(ctl, c, s),
           NEW j, j = Judged(c, s, full),
           NEW d, d = Emit(j, Accepted(F3!StageShotNumberBase(s) + c.shots, ext, s)),
           NEW S, S = PassedAt(Course3, s)
    PROVE  /\ Steady(Course3, rec, ~hist.cut, S, d)
           /\ Steady(Course3, rec, ~hist.cut, OverWith(S, s, full), d)
           /\ d.stage = s /\ d.window = ctl.window /\ d.mode = ctl.mode
           /\ Written(d).stage = s /\ Tally3(d, Written(d))
           /\ ~Written(d).refused => d.shots = ShotsOf(Written(d), s)
<1>1. /\ Steady(Course3, rec, ~hist.cut, S, ctl) /\ Written(ctl) = rec /\ ctl.shots \in Nat
      /\ (~rec.refused => ctl.shots = ShotsOf(rec, s))
      /\ Tally3(ctl, Written(ctl)) /\ rec.stage = s
      BY InRunning3
<1>4. Steady(Course3, rec, ~hist.cut, S, c) /\ Beside(ctl, c)
      BY <1>1, AdjustedSteady DEF CountsShot
<1>5. Written(c).stage = s /\ Written(c).officials = rec.officials
      /\ Written(c).refused = rec.refused
      BY <1>1, <1>4 DEF Beside
<1>6. ~Written(c).refused => ctl.shots = ShotsOf(Written(c), s)
      BY <1>1, <1>5, SameShots
<1>7. s \in Course3.match /\ s \notin S
  <2>1. CASE s \in {3, 5}
    <3>1. s \in -1 .. 6
          BY <2>1
    <3>. QED  BY <3>1, PassedAt3 DEF Course3
  <2>2. CASE s \in 7 .. 8 + Singles3P
        BY <2>2, PassedAt3 DEF Course3
  <2>. QED  BY <2>1, <2>2, StagesOf3
<1>8. Course3.limit[s] = F3!StageShotLimit(s) /\ Course3.base[s] = F3!StageShotNumberBase(s)
      BY DEF Course3
<1>9. PICK shots \in Nat : shots = ctl.shots
      BY <1>1
<1>10. PICK base \in Nat : base = F3!StageShotNumberBase(s)
       BY LimitsOf3
<1>11. PICK n \in Int : n = base + (shots + 1)
       OBVIOUS
<1>12. d = Emit(j, Accepted(n, ext, s)) /\ n = Course3.base[s] + (shots + 1)
       BY <1>8, <1>9, <1>10, <1>11 DEF CountsShot
<1>13. shots < Course3.limit[s] /\ Fills(Course3, s, shots, full)
       BY <1>8, <1>9
<1>. DEFINE shot == [n |-> n, ext |-> ext, stage |-> s]
<1>14. /\ Steady(Course3, rec, ~hist.cut, S, d)
       /\ Steady(Course3, rec, ~hist.cut, OverWith(S, s, full), d)
       /\ Unmoved(c, d)
       /\ Written(d).stage = Written(c).stage
       /\ ~Written(d).refused =>
              ~Written(c).refused /\ AddsShot(Written(c), Written(d), shot)
  <2>1. ~Written(c).refused => shots = ShotsOf(Written(c), s)
        BY <1>6, <1>9
  <2>2. PICK k, from, whole : k = Course3 /\ from = rec /\ whole = ~hist.cut
        OBVIOUS
  <2>3. /\ IsCourse(k) /\ Steady(k, from, whole, S, c) /\ s \in k.match /\ s \notin S
        /\ Written(c).stage = s /\ shots < k.limit[s] /\ Fills(k, s, shots, full)
        /\ n = k.base[s] + (shots + 1)
        BY <1>4, <1>5, <1>7, <1>12, <1>13, <2>2, CourseOf3
  <2>4. /\ Steady(k, from, whole, S, d)
        /\ Steady(k, from, whole, OverWith(S, s, full), d)
        /\ Unmoved(c, d)
        /\ Written(d).stage = Written(c).stage
        /\ ~Written(d).refused =>
               ~Written(c).refused /\ AddsShot(Written(c), Written(d), shot)
        BY <1>9, <1>11, <1>12, <2>1, <2>3, ShotSteady
  <2>. QED  BY <2>2, <2>4
<1>15. /\ d.stage = s /\ d.window = ctl.window /\ d.mode = ctl.mode /\ d.shots = c.shots
       /\ d.count = c.count /\ d.kneeling = c.kneeling /\ d.prone = c.prone
       BY <1>14 DEF Unmoved, CountsShot
<1>16. ASSUME ~Written(d).refused
       PROVE  /\ c.shots = ShotsOf(Written(d), s) /\ c.count = Cardinality(Written(d).officials)
              /\ c.kneeling = ShotsOf(Written(d), 3) /\ c.prone = ShotsOf(Written(d), 5)
  <2>1. shot.stage = s
        OBVIOUS
  <2>. HIDE DEF shot
  <2>2. ~rec.refused /\ AddsShot(Written(c), Written(d), shot)
        BY <1>5, <1>14, <1>16
  <2>3. \A t : ShotsOf(Written(c), t) = ShotsOf(rec, t)
        BY <1>5, SameShots
  <2>4. /\ ctl.count = Cardinality(rec.officials) /\ ctl.kneeling = ShotsOf(rec, 3)
        /\ ctl.prone = ShotsOf(rec, 5) /\ ctl.shots = ShotsOf(rec, s)
        BY <1>1, <2>2, StagesOf3 DEF Tally3
  <2>5. c.shots = ShotsOf(Written(d), s)
        BY <2>1, <2>2, <2>3, <2>4 DEF AddsShot, CountsShot
  <2>6. c.count = Cardinality(Written(d).officials)
        BY <1>5, <2>2, <2>4 DEF AddsShot, CountsShot
  <2>7. \A t : t # s => ShotsOf(Written(d), t) = ShotsOf(rec, t)
        BY <2>1, <2>2, <2>3 DEF AddsShot
  <2>8. c.kneeling = ShotsOf(Written(d), 3)
        BY <2>4, <2>5, <2>7 DEF CountsShot
  <2>9. c.prone = ShotsOf(Written(d), 5)
        BY <2>4, <2>5, <2>7 DEF CountsShot
  <2>. QED  BY <2>5, <2>6, <2>8, <2>9
<1>17. Tally3(d, Written(d))
       BY <1>15, <1>16, StagesOf3 DEF Tally3
<1>. QED  BY <1>5, <1>14, <1>15, <1>16, <1>17

LEMMA RegisterOfficial3 ==
    ASSUME FinalInv3, F3!RegisterOfficial
    PROVE  FinalInv3' /\ Follows(Course3, rec, rec')
<1>1. /\ up = "live" /\ F3!Running(ctl) /\ fired' = fired + 1 /\ ctl.window = "MatchOpen"
      /\ ctl.shots < F3!StageShotLimit(ctl.stage)
      /\ F3!HandlesAt(F3!AcceptOfficial(ctl, fired + 1), 0)
      BY DEF F3!RegisterOfficial, F3!Detected, F3!Admits, F3!Handles
<1>2. /\ ctl.stage \in F3!MatchStages /\ ctl.mode = "Match" /\ ctl.shots \in Nat
      /\ fired \in Nat /\ hist \in Histories
      BY <1>1, InRunning3 DEF Stands3
<1>3. ctl.count \in Nat /\ ctl.kneeling \in Nat /\ ctl.prone \in Nat
      BY DEF FinalInv3, Sound, Controllers
<1>4. PICK s \in F3!MatchStages : s = ctl.stage
      BY <1>2
<1>5. PICK limit \in Nat : limit = F3!StageShotLimit(s)
      BY LimitsOf3
<1>6. PICK ext \in Int : ext = fired + 1
      BY <1>2
<1>7. PICK full \in BOOLEAN : full <=> ctl.shots + 1 >= limit
      OBVIOUS
<1>8. ctl \in Controllers(Course3.stages)
      BY DEF FinalInv3, Sound
<1>9. PICK c : c = [ctl EXCEPT !.shots = @ + 1, !.count = @ + 1,
                        !.kneeling = IF s = F3!KneelingMatch THEN ctl.shots + 1 ELSE @,
                        !.prone = IF s = F3!ProneMatch THEN ctl.shots + 1 ELSE @]
      OBVIOUS
<1>10. c \in Controllers(Course3.stages) /\ CountsShot(ctl, c, s) /\ c.shots = ctl.shots + 1
  <2>1. PICK x \in Nat, y \in Nat : x = ctl.shots + 1 /\ y = ctl.count + 1
        BY <1>2, <1>3
  <2>2. PICK u \in Nat, v \in Nat : /\ u = IF s = 3 THEN x ELSE ctl.kneeling
                                    /\ v = IF s = 5 THEN x ELSE ctl.prone
        BY <1>3, <2>1
  <2>3. c = [ctl EXCEPT !.shots = x, !.count = y, !.kneeling = u, !.prone = v]
        BY <1>9, <2>1, <2>2, StagesOf3
  <2>4. c \in Controllers(Course3.stages) /\ c.shots = x /\ c.count = y
        /\ c.kneeling = u /\ c.prone = v /\ c.out = ctl.out /\ c.status = ctl.status
        /\ c.stage = ctl.stage /\ c.window = ctl.window /\ c.mode = ctl.mode
        BY <1>8, <2>1, <2>2, <2>3 DEF Controllers
  <2>. QED  BY <2>1, <2>2, <2>4 DEF CountsShot
<1>11. PICK j : j = Judged(c, s, full)
       OBVIOUS
<1>12. PICK d : d = Emit(j, Accepted(F3!StageShotNumberBase(s) + c.shots, ext, s))
       OBVIOUS
<1>13. PICK S : S = PassedAt(Course3, s)
       OBVIOUS
<1>14. /\ Steady(Course3, rec, ~hist.cut, S, d)
       /\ Steady(Course3, rec, ~hist.cut, OverWith(S, s, full), d)
       /\ d.stage = s /\ d.window = ctl.window /\ d.mode = ctl.mode
       /\ Written(d).stage = s /\ Tally3(d, Written(d))
       /\ ~Written(d).refused => d.shots = ShotsOf(Written(d), s)
  <2>1. ctl.shots < F3!StageShotLimit(s) /\ Fills(Course3, s, ctl.shots, full)
        BY <1>1, <1>4, <1>5, <1>7 DEF Fills, Course3
  <2>. QED  BY <1>1, <1>4, <1>6, <1>7, <1>10, <1>11, <1>12, <1>13, <2>1, ShotCounted3
<1>. DEFINE final == IF full /\ s \in F3!Commanded
                     THEN F3!AdvanceAfterCommandStage(CloseWindowAndStop(d)) ELSE d
<1>17. F3!AcceptOfficial(ctl, fired + 1) = final
  <2>1. (c.shots >= F3!StageShotLimit(s)) <=> full
        BY <1>5, <1>7, <1>10
  <2>. QED  BY <1>4, <1>6, <1>9, <1>11, <1>12, <2>1, SameHelpers3 DEF F3!AcceptOfficial, Judged
<1>18. Done3(rec, ~hist.cut, final)
  <2>1. CASE full /\ s \in F3!Commanded
    <3>. DEFINE e == CloseWindowAndStop(d)
                T == S \cup {s}
    <3>1. T = PassedAt(Course3, s + 1) /\ s \in 7 .. 8 + Singles3P
          BY <1>13, <2>1, PassedAt3, StagesOf3
    <3>2. Steady(Course3, rec, ~hist.cut, T, d)
          BY <1>14, <2>1 DEF OverWith
    <3>. HIDE DEF T
    <3>3. Step(Course3, rec, ~hist.cut, T, d, e, "Closed", d.mode)
          BY <3>2, StopStep
    <3>4. final = F3!AdvanceAfterCommandStage(e)
          BY <2>1
    <3>. HIDE DEF e
    <3>5. /\ Steady(Course3, rec, ~hist.cut, T, e) /\ Keeps(d, e) /\ e.stage = s
          /\ Written(e).stage = s
          BY <1>14, <3>3 DEF Step, Keeps, Beside
    <3>6. Tally3(e, Written(e))
          BY <1>14, <3>5, TallyKept3
    <3>7. PICK f : f = F3!EnterStage(F3!IssueCommand(e), s + 1)
          OBVIOUS
    <3>8. Done3(rec, ~hist.cut, f)
          BY <3>1, <3>5, <3>6, <3>7, Advance3
    <3>. QED  BY <3>4, <3>5, <3>7, <3>8 DEF F3!AdvanceAfterCommandStage
  <2>2. CASE ~(full /\ s \in F3!Commanded)
    <3>1. final = d
          BY <2>2
    <3>2. Settled(Course3, rec, ~hist.cut, d)
          BY <1>13, <1>14, SteadyIsSettled
    <3>3. Stands3(d, Written(d))
      <4>1. Written(d).life = "Active" /\ d.window = "MatchOpen" /\ d.mode = "Match"
            BY <1>1, <1>2, <1>14 DEF Steady
      <4>. QED  BY <1>4, <1>14, <4>1 DEF Stands3
    <3>. QED  BY <3>1, <3>2, <3>3 DEF Done3
  <2>. QED  BY <2>1, <2>2
<1>19. fired' \in Nat
       BY <1>1, <1>2
<1>. QED  BY <1>1, <1>17, <1>18, <1>19, Handled3
-----------------------------------------------------------------------------
(* What is not a handler: the beginning, time, incidents, crashes, resumes. *)

LEMMA QuietSound ==
    ASSUME NEW k, Sound(k), Same(rec, rec'), rec' \in Journals(k.stages),
           ctl' \in Controllers(k.stages), ctl'.out = << >>, hist' \in Histories,
           hist'.cut = hist.cut, fired' \in Nat, up' \in {"none", "live", "down"},
           up' = "live" => ctl'.status = rec'.status
    PROVE  Sound(k)' /\ Follows(k, rec, rec')
<1>1. Told(k, rec, rec)
      BY DEF Sound
<1>2. Told(k, rec, rec')
      BY <1>1, SameIsTold
<1>3. Told(k, rec', rec') /\ Follows(k, rec, rec')
      BY <1>2, ToldOfItself DEF Told
<1>4. PassedIn(k, rec') = PassedIn(k, rec)
      BY DEF PassedIn, Same
<1>5. ~hist'.cut /\ ~rec'.refused => Exact(k, rec', PassedIn(k, rec'))
  <2>1. SUFFICES ASSUME ~hist'.cut, ~rec'.refused
                 PROVE  Exact(k, rec', PassedIn(k, rec'))
        OBVIOUS
  <2>2. Exact(k, rec, PassedIn(k, rec))
        BY <2>1 DEF Sound, Same
  <2>. QED  BY <1>4, <2>2, SameIsExact
<1>. QED  BY <1>3, <1>5 DEF Sound

LEMMA TimeQuiet ==
    ASSUME NEW k, Sound(k), TimePasses
    PROVE  /\ Sound(k)' /\ Follows(k, rec, rec')
           /\ up = "live" /\ Same(rec, rec') /\ Unmoved(ctl, ctl')
<1>1. rec \in Journals(k.stages) /\ ctl \in Controllers(k.stages) /\ hist \in Histories
      /\ fired \in Nat /\ ctl.out = << >> /\ (up = "live" => ctl.status = rec.status)
      BY DEF Sound, Told
<1>2. PICK age \in Nat : age = IF Counts(rec) THEN rec.age + 1 ELSE rec.age
      BY <1>1 DEF Journals
<1>3. PICK left \in Nat : left = IF ctl.paused \/ ctl.left = 0 THEN ctl.left ELSE ctl.left - 1
      BY <1>1 DEF Controllers
<1>4. rec' = [rec EXCEPT !.age = age] /\ ctl' = [ctl EXCEPT !.left = left]
      BY <1>2, <1>3 DEF TimePasses
<1>5. rec' \in Journals(k.stages) /\ Same(rec, rec')
      BY <1>1, <1>4 DEF Journals, Same
<1>6. ctl' \in Controllers(k.stages) /\ ctl'.out = << >> /\ ctl'.status = ctl.status
      /\ Unmoved(ctl, ctl')
      BY <1>1, <1>4 DEF Controllers, Unmoved
<1>7. hist' \in Histories /\ hist'.cut = hist.cut
  <2>1. CASE ctl.paused
    <3>1. hist' = [hist EXCEPT !.exact = FALSE, !.left = 0]
          BY <2>1 DEF TimePasses, Stamped
    <3>. QED  BY <1>1, <3>1 DEF Histories
  <2>2. CASE ~ctl.paused
        BY <1>1, <2>2 DEF TimePasses
  <2>. QED  BY <2>1, <2>2
<1>8. up = "live" /\ up' = "live" /\ fired' = fired
      BY DEF TimePasses
<1>9. ctl'.status = rec'.status
      BY <1>1, <1>5, <1>6, <1>8 DEF Same
<1>. QED  BY <1>1, <1>5, <1>6, <1>7, <1>8, <1>9, QuietSound

LEMMA IncidentQuiet ==
    ASSUME NEW k, Sound(k), IncidentToggled
    PROVE  /\ Sound(k)' /\ Follows(k, rec, rec')
           /\ up = "live" /\ Same(rec, rec') /\ Unmoved(ctl, ctl')
<1>1. rec \in Journals(k.stages) /\ ctl \in Controllers(k.stages) /\ hist \in Histories
      /\ fired \in Nat /\ ctl.out = << >> /\ (up = "live" => ctl.status = rec.status)
      BY DEF Sound, Told
<1>2. rec.age \in Nat /\ rec.blocked \in BOOLEAN /\ ctl.left \in Nat /\ hist.exact \in BOOLEAN
      BY <1>1 DEF Journals, Controllers, Histories
<1>3. rec' = [rec EXCEPT !.blocked = ~@, !.elapsed = rec.age] /\ ctl' = ctl
      /\ up = "live" /\ up' = "live" /\ fired' = fired
      BY DEF IncidentToggled
<1>4. rec' \in Journals(k.stages) /\ Same(rec, rec')
      BY <1>1, <1>2, <1>3 DEF Journals, Same
<1>5. hist' \in Histories /\ hist'.cut = hist.cut
  <2>1. PICK left \in Nat : left = IF hist.exact THEN ctl.left ELSE 0
        BY <1>2
  <2>2. hist' = [hist EXCEPT !.exact = hist.exact, !.left = left]
        BY <2>1 DEF IncidentToggled, Stamped
  <2>. QED  BY <1>1, <1>2, <2>1, <2>2 DEF Histories
<1>6. Unmoved(ctl, ctl') /\ ctl' \in Controllers(k.stages) /\ ctl'.out = << >>
      BY <1>1, <1>3 DEF Unmoved
<1>7. ctl'.status = rec'.status
      BY <1>1, <1>3, <1>4 DEF Same
<1>. QED  BY <1>1, <1>3, <1>4, <1>5, <1>6, <1>7, QuietSound

LEMMA CrashQuiet ==
    ASSUME NEW k, Sound(k), Crash
    PROVE  Sound(k)' /\ Follows(k, rec, rec') /\ up' = "down"
<1>1. rec \in Journals(k.stages) /\ ctl \in Controllers(k.stages) /\ hist \in Histories
      /\ fired \in Nat
      BY DEF Sound, Told
<1>2. /\ rec' = rec /\ fired' = fired /\ hist' = hist /\ up' = "down"
      /\ ctl' = NewCtl(DOMAIN ctl.status)
      BY DEF Crash, Down
<1>3. DOMAIN ctl.status = k.stages
      BY <1>1 DEF Controllers
<1>4. ctl' \in Controllers(k.stages) /\ ctl'.out = << >>
      BY <1>2, <1>3, NewControllers
<1>5. Same(rec, rec')
      BY <1>2 DEF Same
<1>. QED  BY <1>1, <1>2, <1>4, <1>5, QuietSound

\* Nothing has been written yet.
LEMMA NewJournals ==
    ASSUME NEW k, IsCourse(k), NEW r, r = NewRec(k.stages), PassedAt(k, -1) = {},
           -1 < k.end, -1 \in k.stages => "None" \in k.phases[-1]
    PROVE  /\ Told(k, r, r) /\ Exact(k, r, {}) /\ Counted(k, r, {})
           /\ PassedIn(k, r) = {} /\ r.stage = -1 /\ r.life = "Active" /\ ~r.refused
           /\ r.status = [s \in k.stages |-> "NotStarted"]
           /\ Cardinality(r.officials) = 0 /\ \A s : ShotsOf(r, s) = 0
<1>1. /\ r.stage = -1 /\ r.phase = "None" /\ r.life = "Active" /\ r.officials = {}
      /\ r.missing = << >> /\ r.refused = FALSE
      /\ r.status = [s \in k.stages |-> "NotStarted"]
      BY DEF NewRec
<1>2. r \in Journals(k.stages)
      BY DEF NewRec, Journals, Statuses, Phases
<1>3. Cardinality({}) = 0 /\ IsFiniteSet({})
      BY FS_EmptySet
<1>4. PassedIn(k, r) = {}
      BY <1>1 DEF PassedIn
<1>5. \A s : OfStage(r, s) = {} /\ ShotsOf(r, s) = 0 /\ NumbersOf(r, s) = {}
      BY <1>1, <1>3 DEF OfStage, ShotsOf, NumbersOf
<1>6. Placed(k, r)
      BY <1>1, <1>3 DEF Placed
<1>7. Ranked(k, r)
  <2>1. \A s \in k.match : 0 <= k.limit[s] /\ {} = k.base[s] + 1 .. k.base[s] + 0
    <3>1. SUFFICES ASSUME NEW s \in k.match
                   PROVE  0 <= k.limit[s] /\ {} = k.base[s] + 1 .. k.base[s] + 0
          OBVIOUS
    <3>2. PICK l \in Nat, b \in Nat : l = k.limit[s] /\ b = k.base[s]
          BY DEF IsCourse
    <3>3. 0 <= l /\ {} = b + 1 .. b + 0
          OBVIOUS
    <3>. QED  BY <3>2, <3>3
  <2>. QED  BY <1>1, <1>5, <2>1 DEF Ranked
<1>8. Counted(k, r, {})
      BY <1>7 DEF Counted, Covered
<1>9. Exact(k, r, {})
  <2>1. DOMAIN r.missing = {}
        BY <1>1
  <2>2. \A s \in k.match : r.status[s] = "NotStarted"
        BY <1>1 DEF IsCourse
  <2>. QED  BY <2>1, <2>2 DEF Exact
<1>10. Follows(k, r, r)
       BY <1>1 DEF Follows
<1>. QED  BY <1>1, <1>2, <1>3, <1>4, <1>5, <1>6, <1>8, <1>9, <1>10 DEF Told

\* enterFinalsMode: a session of its own, before its first stage.
LEMMA Starts ==
    ASSUME NEW k, IsCourse(k), NEW r, r = NewRec(k.stages), PassedAt(k, -1) = {},
           -1 < k.end, -1 \in k.stages => "None" \in k.phases[-1],
           NEW c, c = [NewCtl(k.stages) EXCEPT !.out = <<r>>], NEW whole
    PROVE  /\ Steady(k, r, whole, {}, c) /\ Written(c) = r /\ c.count = 0
           /\ c.kneeling = 0 /\ c.prone = 0 /\ c.checkpoints = {} /\ c.mode = "Sighter"
<1>1. /\ Told(k, r, r) /\ Exact(k, r, {}) /\ Counted(k, r, {}) /\ r.life = "Active"
      /\ r.status = [s \in k.stages |-> "NotStarted"]
      BY NewJournals
<1>2. PICK b : b = NewCtl(k.stages)
      OBVIOUS
<1>3. b \in Controllers(k.stages)
      BY <1>2, NewControllers
<1>4. /\ b.count = 0 /\ b.kneeling = 0 /\ b.prone = 0 /\ b.checkpoints = {}
      /\ b.mode = "Sighter" /\ b.status = [s \in k.stages |-> "NotStarted"]
      BY <1>2 DEF NewCtl
<1>5. r \in Journals(k.stages)
      BY <1>1 DEF Told
<1>. DEFINE q == <<r>>
<1>6. q \in Seq(Journals(k.stages)) /\ q # << >> /\ Last(q) = r /\ DOMAIN q = {1} /\ q[1] = r
      BY <1>5 DEF Last
<1>7. c = [b EXCEPT !.out = q]
      BY <1>2
<1>. HIDE DEF q
<1>8. /\ c \in Controllers(k.stages) /\ c.out = q /\ c.count = 0 /\ c.kneeling = 0
      /\ c.prone = 0 /\ c.checkpoints = {} /\ c.mode = "Sighter" /\ c.status = b.status
      BY <1>3, <1>4, <1>6, <1>7 DEF Controllers
<1>9. Written(c) = r
      BY <1>6, <1>8 DEF Written
<1>10. \A n \in DOMAIN c.out : Told(k, r, c.out[n])
       BY <1>1, <1>6, <1>8
<1>. QED  BY <1>1, <1>4, <1>8, <1>9, <1>10 DEF Steady, Handling

LEMMA InitSound ==
    ASSUME NEW k, IsCourse(k), PassedAt(k, -1) = {},
           -1 < k.end, -1 \in k.stages => "None" \in k.phases[-1],
           up = "none", ctl = NewCtl(k.stages), rec = NewRec(k.stages), fired = 0,
           hist = NewHist
    PROVE  Sound(k)
<1>1. Told(k, rec, rec) /\ Exact(k, rec, PassedIn(k, rec))
  <2>1. PICK r : r = NewRec(k.stages)
        OBVIOUS
  <2>2. Told(k, r, r) /\ Exact(k, r, {}) /\ PassedIn(k, r) = {}
        BY <2>1, NewJournals
  <2>. QED  BY <2>1, <2>2
<1>2. ctl \in Controllers(k.stages) /\ ctl.out = << >>
      BY NewControllers
<1>3. hist \in Histories
      BY DEF NewHist, Histories
<1>. QED  BY <1>1, <1>2, <1>3 DEF Sound

LEMMA StartFinal3 ==
    ASSUME FinalInv3, F3!StartFinal
    PROVE  FinalInv3'
<1>1. PICK ceremony, anchored :
         F3!Submits(F3!EnterStageAs([F3!NewCtl(F3!Stages) EXCEPT !.out = <<F3!NewRec(F3!Stages)>>],
                                    IF ceremony = "Skip" THEN F3!KneelingPrepSight
                                    ELSE F3!Ceremony, ceremony),
                    F3!NewHist, anchored, 0)
      BY DEF F3!StartFinal
<1>2. fired' = 0
      BY DEF F3!StartFinal
<1>3. PICK s \in {1, 2} : s = IF ceremony = "Skip" THEN F3!KneelingPrepSight ELSE F3!Ceremony
      BY StagesOf3
<1>4. PICK r : r = NewRec(Course3.stages)
      OBVIOUS
<1>5. PICK c : c = [NewCtl(Course3.stages) EXCEPT !.out = <<r>>]
      OBVIOUS
<1>6. PICK h \in Histories : h = NewHist
      BY DEF NewHist, Histories
<1>7. PICK d : d = F3!EnterStageAs(c, s, ceremony)
      OBVIOUS
<1>8. Submits(d, h, anchored, 0)
  <2>1. F3!NewHist = h
        BY <1>6 DEF F3!NewHist, NewHist
  <2>2. c = [F3!NewCtl(F3!Stages) EXCEPT !.out = <<F3!NewRec(F3!Stages)>>]
        BY <1>4, <1>5, SameHelpers3 DEF Course3
  <2>. QED  BY <1>1, <1>3, <1>7, <2>1, <2>2, SameSubmits3
<1>9. PassedAt(Course3, -1) = {} /\ -1 < Course3.end /\ -1 \notin Course3.stages
  <2>1. -1 \in -1 .. 6
        OBVIOUS
  <2>2. PassedAt(Course3, -1) = {}
        BY <2>1, PassedAt3
  <2>3. Course3.end = 9 + Singles3P /\ Course3.stages = 0 .. 10 + Singles3P
        BY StagesOf3 DEF Course3
  <2>. QED  BY <2>2, <2>3, StagesOf3
<1>10. PICK S : S = {}
       OBVIOUS
<1>11. /\ Steady(Course3, r, ~h.cut, S, c) /\ Written(c) = r /\ c.count = 0
       /\ c.kneeling = 0 /\ c.prone = 0 /\ c.mode = "Sighter"
       BY <1>4, <1>5, <1>9, <1>10, CourseOf3, Starts
<1>12. r.stage = -1 /\ Cardinality(r.officials) = 0 /\ \A t : ShotsOf(r, t) = 0
       BY <1>4, <1>9, CourseOf3, NewJournals
<1>13. Tally3(c, Written(c)) /\ Written(c).stage < s
       BY <1>3, <1>11, <1>12 DEF Tally3
<1>14. S = PassedAt(Course3, s) /\ s \in 1 .. 9 + Singles3P /\ s \notin {3, 5} /\ s \notin {4, 6}
  <2>1. s \in -1 .. 6
        BY <1>3
  <2>. QED  BY <1>3, <1>10, <2>1, PassedAt3, StagesOf3
<1>15. Done3(r, ~h.cut, d)
       BY <1>7, <1>11, <1>13, <1>14, EnterStage3
<1>. QED  BY <1>2, <1>6, <1>8, <1>15, SubmitsStands3

LEMMA RebasedNat ==
    \A e, t \in Nat : Rebased(e, t) \in Nat
BY DEF Rebased

LEMMA SameSizes ==
    \A T : F3!Cardinality(T) = Cardinality(T) /\ F10!Cardinality(T) = Cardinality(T)
BY DEF F3!Cardinality, F10!Cardinality, Cardinality

\* loadRecoveredState: what the controller counts comes back from the journal.
LEMMA Loaded3 ==
    ASSUME NEW r \in Journals(Course3.stages), IsFiniteSet(r.officials),
           NEW c, c = F3!LoadRecoveredState(r)
    PROVE  /\ c \in Controllers(Course3.stages) /\ c.out = << >> /\ c.status = r.status
           /\ c.stage = IF r.stage = -1 THEN 0 ELSE r.stage
           /\ c.shots = ShotsOf(r, c.stage) /\ Tally3(c, r)
           /\ c.window = "Closed" /\ c.mode = "Sighter"
<1>1. r.stage \in Int /\ r.status \in [Course3.stages -> Statuses]
      BY DEF Journals
<1>2. PICK s \in Int : s = IF r.stage = -1 THEN F3!Idle ELSE r.stage
      BY <1>1, StagesOf3
<1>3. \A t : F3!OfficialsOf(r, t) = OfStage(r, t)
      BY DEF F3!OfficialsOf, OfStage
<1>4. \A t : ShotsOf(r, t) \in Nat
  <2>1. \A t : IsFiniteSet(OfStage(r, t))
        BY FS_Subset DEF OfStage
  <2>. QED  BY <2>1, FS_CardinalityType DEF ShotsOf
<1>5. Cardinality(r.officials) \in Nat
      BY FS_CardinalityType
<1>6. PICK shots \in Nat, count \in Nat, kneeling \in Nat, prone \in Nat :
         /\ shots = ShotsOf(r, s) /\ count = Cardinality(r.officials)
         /\ kneeling = ShotsOf(r, F3!KneelingMatch) /\ prone = ShotsOf(r, F3!ProneMatch)
      BY <1>4, <1>5
<1>7. /\ shots = F3!Cardinality(F3!OfficialsOf(r, s)) /\ count = F3!Cardinality(r.officials)
      /\ kneeling = F3!Cardinality(F3!OfficialsOf(r, F3!KneelingMatch))
      /\ prone = F3!Cardinality(F3!OfficialsOf(r, F3!ProneMatch))
      BY <1>3, <1>6, SameSizes DEF ShotsOf
<1>8. PICK status \in [Course3.stages -> Statuses] : status = r.status
      BY <1>1
<1>9. PICK n : n = NewCtl(Course3.stages)
      OBVIOUS
<1>10. n \in Controllers(Course3.stages) /\ n.out = << >> /\ n.window = "Closed"
       /\ n.mode = "Sighter"
       BY <1>9, NewControllers DEF NewCtl
<1>11. n = F3!NewCtl(F3!Stages)
       BY <1>9, SameHelpers3 DEF Course3
<1>12. c = [n EXCEPT !.stage = s, !.status = status, !.shots = shots, !.count = count,
                     !.kneeling = kneeling, !.prone = prone]
  <2>1. s = F3!RecoveredStage(r)
        BY <1>2 DEF F3!RecoveredStage
  <2>2. c = [F3!NewCtl(F3!Stages) EXCEPT !.stage = F3!RecoveredStage(r), !.status = r.status,
              !.shots = F3!Cardinality(F3!OfficialsOf(r, F3!RecoveredStage(r))),
              !.count = F3!Cardinality(r.officials),
              !.kneeling = F3!Cardinality(F3!OfficialsOf(r, F3!KneelingMatch)),
              !.prone = F3!Cardinality(F3!OfficialsOf(r, F3!ProneMatch))]
        BY DEF F3!LoadRecoveredState
  <2>3. c = [n EXCEPT !.stage = F3!RecoveredStage(r), !.status = r.status,
              !.shots = F3!Cardinality(F3!OfficialsOf(r, F3!RecoveredStage(r))),
              !.count = F3!Cardinality(r.officials),
              !.kneeling = F3!Cardinality(F3!OfficialsOf(r, F3!KneelingMatch)),
              !.prone = F3!Cardinality(F3!OfficialsOf(r, F3!ProneMatch))]
        BY <1>11, <2>2
  <2>4. c = [n EXCEPT !.stage = s, !.status = r.status,
              !.shots = F3!Cardinality(F3!OfficialsOf(r, s)),
              !.count = F3!Cardinality(r.officials),
              !.kneeling = F3!Cardinality(F3!OfficialsOf(r, F3!KneelingMatch)),
              !.prone = F3!Cardinality(F3!OfficialsOf(r, F3!ProneMatch))]
        BY <2>1, <2>3
  <2>. QED  BY <1>7, <1>8, <2>4
<1>13. /\ c \in Controllers(Course3.stages) /\ c.out = << >> /\ c.window = "Closed"
       /\ c.mode = "Sighter" /\ c.stage = s /\ c.status = status /\ c.shots = shots
       /\ c.count = count /\ c.kneeling = kneeling /\ c.prone = prone
       BY <1>2, <1>6, <1>8, <1>10, <1>12 DEF Controllers
<1>. QED  BY <1>2, <1>6, <1>8, <1>13, StagesOf3 DEF Tally3

\* What a window restored lets the athlete do.
WindowFits3(c) ==
    /\ c.window = "MatchOpen" => c.stage \in F3!MatchStages /\ c.mode = "Match"
    /\ c.window = "SightingOpen" => c.stage \in Sighting3 /\ c.mode = "Sighter"
    /\ c.stage = F3!KneelingMatch => c.mode = "Match"

\* restoreStageFiringState.
LEMMA Restored3 ==
    ASSUME NEW c \in Controllers(Course3.stages), c.window = "Closed", c.mode = "Sighter",
           NEW elapsed \in Nat, NEW d, d = F3!RestoreStageFiringState(c, elapsed)
    PROVE  /\ d \in Controllers(Course3.stages) /\ d.out = c.out /\ d.status = c.status
           /\ d.stage = c.stage /\ d.shots = c.shots /\ d.count = c.count
           /\ d.kneeling = c.kneeling /\ d.prone = c.prone /\ WindowFits3(d)
<1>0. c \in Controllers(Course3.stages) /\ c.mode = "Sighter"
      OBVIOUS
<1>1. \A g \in Segments : F3!Rebased(elapsed, Durations[g]) \in Nat
      BY DurationsNat DEF F3!Rebased
<1>2. PICK prep \in Nat, shared \in Nat, window \in Nat :
         /\ prep = F3!Rebased(elapsed, Durations["Prep"])
         /\ shared = F3!Rebased(elapsed, Durations["Stage1"])
         /\ window = F3!Rebased(elapsed, F3!WindowMs(c.stage))
      BY <1>1 DEF Segments, F3!WindowMs
<1>3. Sighting3 = {2, 4, 6} /\ F3!MatchStages = {3, 5} \cup 7 .. 8 + Singles3P /\ c.stage \in Int
      BY StagesOf3 DEF Sighting3, Controllers
<1>4. PICK t \in BOOLEAN, w \in Windows, m \in {"Sighter", "Match"}, one \in Nat, two \in Nat :
         t = TRUE /\ w = "MatchOpen" /\ m = "Match" /\ one = 1 /\ two = 2
      BY DEF Windows
<1>5. CASE c.stage = 2
  <2>1. d = [c EXCEPT !.window = "SightingOpen", !.left = prep]
        BY <1>2, <1>5, StagesOf3 DEF F3!RestoreStageFiringState
  <2>2. /\ d \in Controllers(Course3.stages) /\ d.out = c.out /\ d.status = c.status
        /\ d.stage = c.stage /\ d.shots = c.shots /\ d.count = c.count
        /\ d.kneeling = c.kneeling /\ d.prone = c.prone /\ d.window = "SightingOpen" /\ d.mode = "Sighter"
        BY <1>0, <1>2, <1>4, <2>1 DEF Controllers, Windows
  <2>. QED  BY <1>3, <1>5, <2>2, StagesOf3 DEF WindowFits3
<1>6. CASE c.stage \in {4, 6}
  <2>1. d = [c EXCEPT !.window = "SightingOpen", !.started1 = t, !.left = shared]
        BY <1>2, <1>4, <1>6, StagesOf3 DEF F3!RestoreStageFiringState
  <2>2. /\ d \in Controllers(Course3.stages) /\ d.out = c.out /\ d.status = c.status
        /\ d.stage = c.stage /\ d.shots = c.shots /\ d.count = c.count
        /\ d.kneeling = c.kneeling /\ d.prone = c.prone /\ d.window = "SightingOpen" /\ d.mode = "Sighter"
        BY <1>0, <1>2, <1>4, <2>1 DEF Controllers, Windows
  <2>. QED  BY <1>3, <1>6, <2>2, StagesOf3 DEF WindowFits3
<1>7. CASE c.stage \in {3, 5}
  <2>1. d = [c EXCEPT !.window = w, !.mode = m, !.seqStep = one,
                      !.started1 = t, !.left = shared]
        BY <1>2, <1>4, <1>7, StagesOf3 DEF F3!RestoreStageFiringState
  <2>2. /\ d \in Controllers(Course3.stages) /\ d.out = c.out /\ d.status = c.status
        /\ d.stage = c.stage /\ d.shots = c.shots /\ d.count = c.count
        /\ d.kneeling = c.kneeling /\ d.prone = c.prone /\ d.window = "MatchOpen" /\ d.mode = "Match"
        BY <1>0, <1>2, <1>4, <2>1 DEF Controllers
  <2>. QED  BY <1>3, <1>7, <2>2, StagesOf3 DEF WindowFits3
<1>8. CASE c.stage \in 7 .. 8 + Singles3P
  <2>1. d = [c EXCEPT !.window = w, !.mode = m, !.seqStep = two, !.left = window]
        BY <1>2, <1>4, <1>8, StagesOf3 DEF F3!RestoreStageFiringState
  <2>2. /\ d \in Controllers(Course3.stages) /\ d.out = c.out /\ d.status = c.status
        /\ d.stage = c.stage /\ d.shots = c.shots /\ d.count = c.count
        /\ d.kneeling = c.kneeling /\ d.prone = c.prone /\ d.window = "MatchOpen" /\ d.mode = "Match"
        BY <1>0, <1>2, <1>4, <2>1 DEF Controllers
  <2>. QED  BY <1>3, <1>8, <2>2, StagesOf3 DEF WindowFits3
<1>9. CASE c.stage \notin {2, 3, 4, 5, 6} \cup 7 .. 8 + Singles3P
  <2>1. d = c
        BY <1>9, StagesOf3 DEF F3!RestoreStageFiringState
  <2>. QED  BY <1>3, <1>9, <2>1, StagesOf3 DEF WindowFits3
<1>. QED  BY <1>5, <1>6, <1>7, <1>8, <1>9

LEMMA StandsSame3 ==
    ASSUME NEW c, NEW r, NEW q, Stands3(c, r), Same(r, q)
    PROVE  Stands3(c, q)
<1>1. \A s : ShotsOf(q, s) = ShotsOf(r, s)
      BY SameShots DEF Same
<1>. QED  BY <1>1 DEF Stands3, Tally3, Same

LEMMA StandsUnmoved3 ==
    ASSUME NEW c, NEW d, NEW r, Stands3(c, r), Unmoved(c, d)
    PROVE  Stands3(d, r)
<1>1. F3!Running(d) <=> F3!Running(c)
      BY StagesOf3 DEF Unmoved
<1>. QED  BY <1>1 DEF Stands3, Tally3, Unmoved

\* restoreFinals3P, resumeFromRecovery.
LEMMA Resume3 ==
    ASSUME FinalInv3, F3!Resume
    PROVE  FinalInv3' /\ Follows(Course3, rec, rec')
<1>1. /\ Sound(Course3) /\ rec.life = "Active" /\ up' = "live" /\ fired' = 0
      /\ rec' = F3!ResumedRec(rec) /\ hist' = F3!Stamped(hist, FALSE, 0)
      BY DEF FinalInv3, F3!Resume
<1>2. PICK elapsed \in F3!ElapsedAtResume(rec) :
         ctl' = F3!RestoreStageFiringState(F3!LoadRecoveredState(rec), elapsed)
      BY DEF F3!Resume, F3!Restored
<1>3. rec \in Journals(Course3.stages) /\ hist \in Histories /\ Placed(Course3, rec)
      BY <1>1 DEF Sound, Told
<1>4. elapsed \in Nat
  <2>1. rec.elapsed \in Nat /\ rec.anchor \in {"none", "fresh", "stale"}
        BY <1>3 DEF Journals
  <2>. QED  BY <1>2, <2>1 DEF F3!ElapsedAtResume
<1>5. PICK c : c = F3!LoadRecoveredState(rec)
      OBVIOUS
<1>6. /\ c \in Controllers(Course3.stages) /\ c.out = << >> /\ c.status = rec.status
      /\ c.stage = (IF rec.stage = -1 THEN 0 ELSE rec.stage)
      /\ c.shots = ShotsOf(rec, c.stage) /\ Tally3(c, rec)
      /\ c.window = "Closed" /\ c.mode = "Sighter"
  <2>1. IsFiniteSet(rec.officials)
        BY <1>3 DEF Placed
  <2>. QED  BY <1>3, <1>5, <2>1, Loaded3
<1>7. PICK d : d = F3!RestoreStageFiringState(c, elapsed)
      OBVIOUS
<1>8. /\ d \in Controllers(Course3.stages) /\ d.out = c.out /\ d.status = c.status
      /\ d.stage = c.stage /\ d.shots = c.shots /\ d.count = c.count
      /\ d.kneeling = c.kneeling /\ d.prone = c.prone /\ WindowFits3(d)
      BY <1>4, <1>6, <1>7, Restored3
<1>9. ctl' = d
      BY <1>2, <1>5, <1>7
<1>10. rec' \in Journals(Course3.stages) /\ Same(rec, rec')
  <2>1. PICK anchor \in {"none", "fresh", "stale"} :
           anchor = IF rec.anchor = "none" THEN "none" ELSE "stale"
        OBVIOUS
  <2>2. PICK zero \in Nat : zero = 0
        OBVIOUS
  <2>3. rec' = [rec EXCEPT !.age = zero, !.elapsed = zero, !.anchor = anchor]
        BY <1>1, <2>1, <2>2 DEF F3!ResumedRec
  <2>. QED  BY <1>3, <2>1, <2>2, <2>3 DEF Journals, Same
<1>11. hist' \in Histories /\ hist'.cut = hist.cut
  <2>1. hist' = [hist EXCEPT !.exact = FALSE, !.left = 0]
        BY <1>1 DEF F3!Stamped
  <2>. QED  BY <1>3, <2>1 DEF Histories
<1>12. Sound(Course3)' /\ Follows(Course3, rec, rec')
  <2>1. ctl'.out = << >> /\ ctl'.status = rec'.status
        BY <1>6, <1>8, <1>9, <1>10 DEF Same
  <2>. QED  BY <1>1, <1>8, <1>9, <1>10, <1>11, <2>1, QuietSound
<1>13. Stands3(d, rec)
  <2>1. F3!Running(d) => d.stage = rec.stage /\ d.shots = ShotsOf(rec, d.stage)
    <3>1. F3!Running(d) => d.stage # 0
          BY StagesOf3
    <3>. QED  BY <1>6, <1>8, <3>1
  <2>2. Tally3(d, rec)
        BY <1>6, <1>8 DEF Tally3
  <2>. QED  BY <1>1, <1>8, <2>1, <2>2 DEF Stands3, WindowFits3
<1>14. Stands3(d, rec')
       BY <1>10, <1>13, StandsSame3
<1>. QED  BY <1>9, <1>12, <1>14 DEF FinalInv3

LEMMA PauseToggled3 ==
    ASSUME FinalInv3, F3!PauseToggled
    PROVE  FinalInv3' /\ Follows(Course3, rec, rec')
<1>1. /\ Sound(Course3) /\ up = "live" /\ up' = up /\ rec' = rec /\ fired' = fired
      /\ hist' = hist /\ ctl' = [ctl EXCEPT !.paused = ~@] /\ Stands3(ctl, rec)
      BY DEF FinalInv3, F3!PauseToggled
<1>2. /\ rec \in Journals(Course3.stages) /\ ctl \in Controllers(Course3.stages)
      /\ hist \in Histories /\ fired \in Nat /\ ctl.out = << >> /\ ctl.status = rec.status
      BY <1>1 DEF Sound, Told
<1>3. PICK p \in BOOLEAN : p = ~ctl.paused
      OBVIOUS
<1>4. ctl' = [ctl EXCEPT !.paused = p]
      BY <1>1, <1>3
<1>5. /\ ctl' \in Controllers(Course3.stages) /\ ctl'.out = << >>
      /\ ctl'.status = ctl.status /\ Unmoved(ctl, ctl')
      BY <1>2, <1>4 DEF Controllers, Unmoved
<1>6. Same(rec, rec')
      BY <1>1 DEF Same
<1>7. Sound(Course3)' /\ Follows(Course3, rec, rec')
      BY <1>1, <1>2, <1>5, <1>6, QuietSound
<1>8. Stands3(ctl', rec')
      BY <1>1, <1>5, StandsUnmoved3
<1>. QED  BY <1>7, <1>8 DEF FinalInv3

LEMMA Environment3 ==
    ASSUME FinalInv3, F3!TimePasses \/ F3!IncidentToggled \/ F3!Crash
    PROVE  FinalInv3' /\ Follows(Course3, rec, rec')
<1>1. Sound(Course3)
      BY DEF FinalInv3
<1>2. CASE F3!TimePasses \/ F3!IncidentToggled
  <2>1. TimePasses \/ IncidentToggled
        BY <1>2 DEF F3!TimePasses, F3!IncidentToggled, F3!Counts, F3!Stamped, F3!Troubles,
                    TimePasses, IncidentToggled, Counts, Stamped, Troubles
  <2>2. /\ Sound(Course3)' /\ Follows(Course3, rec, rec')
        /\ up = "live" /\ Same(rec, rec') /\ Unmoved(ctl, ctl')
        BY <1>1, <2>1, TimeQuiet, IncidentQuiet
  <2>3. Stands3(ctl', rec')
    <3>1. Stands3(ctl, rec)
          BY <2>2 DEF FinalInv3
    <3>2. Stands3(ctl, rec')
          BY <2>2, <3>1, StandsSame3
    <3>. QED  BY <2>2, <3>2, StandsUnmoved3
  <2>. QED  BY <2>2, <2>3 DEF FinalInv3
<1>3. CASE F3!Crash
  <2>1. Crash
        BY <1>3, SameHelpers3 DEF F3!Crash, F3!Down, F3!Troubles, Crash, Down, Troubles
  <2>2. Sound(Course3)' /\ Follows(Course3, rec, rec') /\ up' = "down"
        BY <1>1, <2>1, CrashQuiet
  <2>. QED  BY <2>2 DEF FinalInv3
<1>. QED  BY <1>2, <1>3

LEMMA Init3 ==
    ASSUME F3!Init
    PROVE  FinalInv3
<1>1. PassedAt(Course3, -1) = {} /\ -1 < Course3.end /\ -1 \notin Course3.stages
  <2>1. -1 \in -1 .. 6
        OBVIOUS
  <2>2. PassedAt(Course3, -1) = {}
        BY <2>1, PassedAt3
  <2>3. Course3.end = 9 + Singles3P /\ Course3.stages = 0 .. 10 + Singles3P
        BY StagesOf3 DEF Course3
  <2>. QED  BY <2>2, <2>3, StagesOf3
<1>2. /\ up = "none" /\ ctl = NewCtl(Course3.stages) /\ rec = NewRec(Course3.stages)
      /\ fired = 0 /\ hist = NewHist
      BY SameHelpers3 DEF F3!Init, F3!NewHist, NewHist, Course3
<1>3. Sound(Course3)
      BY <1>1, <1>2, CourseOf3, InitSound
<1>. QED  BY <1>2, <1>3 DEF FinalInv3

\* Every step of the 3-position final keeps it; and the course goes forward, but
\* for the start of another final.
LEMMA Next3 ==
    ASSUME FinalInv3, F3!Next
    PROVE  FinalInv3' /\ (F3!StartFinal \/ Follows(Course3, rec, rec'))
<1>1. CASE F3!StartFinal
      BY <1>1, StartFinal3
<1>2. CASE F3!Resume \/ F3!PauseToggled
      BY <1>2, Resume3, PauseToggled3
<1>3. CASE F3!SkipCeremony \/ F3!HoldOver
      BY <1>3, SkipCeremony3
<1>4. CASE F3!AbortFinal
      BY <1>4, AbortFinal3
<1>5. CASE F3!AdvanceStage1 \/ F3!DevForceAdvance
      BY <1>5, Stage1Advance3
<1>6. CASE F3!RegisterSighter \/ F3!RejectShot
      BY <1>6, ShotOnly3
<1>7. CASE F3!RegisterOfficial
      BY <1>7, RegisterOfficial3
<1>8. CASE F3!TakeYourPositions \/ F3!LoadCommand \/ F3!Warning
      BY <1>8, ClockOnly3
<1>9. CASE F3!MatchFiringStart \/ F3!StartCommand
      BY <1>9, WindowOpens3
<1>10. CASE F3!PrepStop
       BY <1>10, PrepStop3
<1>11. CASE F3!Stage1Stop
       BY <1>11, Stage1Stop3
<1>12. CASE F3!CommandExpired
       BY <1>12, CommandExpired3
<1>13. CASE F3!TimePasses \/ F3!IncidentToggled \/ F3!Crash
       BY <1>13, Environment3
<1>. QED  BY <1>1, <1>2, <1>3, <1>4, <1>5, <1>6, <1>7, <1>8, <1>9, <1>10, <1>11, <1>12, <1>13
         DEF F3!Next, F3!Tick
-----------------------------------------------------------------------------
(* The 10 m final.                                                         *)

\* What the controller counts is in the journal, and so are the totals it has
\* told at the checkpoints of the course.
Tally10(c, r) ==
    ~r.refused =>
        /\ c.count = Cardinality(r.officials)
        /\ \A p \in c.checkpoints : p.total = Cardinality({o \in r.officials : o.n <= p.n})

\* No checkpoint is beyond the number top.
Below(c, top) == \A p \in c.checkpoints : p.n <= top
Start10(s) == IF s \in F10!Commanded THEN F10!StageShotNumberBase(s) ELSE 0
Top10(c) == Start10(c.stage) + c.shots

\* The stage of the journal is behind when a resume has skipped the ceremony.
Stands10(c, r) ==
    /\ F10!Running(c) => /\ r.stage <= c.stage /\ r.life = "Active"
                         /\ c.stage \in F10!Commanded => r.stage = c.stage
                         /\ ~r.refused => c.shots = ShotsOf(r, c.stage) /\ Below(c, Top10(c))
    /\ c.window = "MatchOpen" => c.stage \in F10!Commanded /\ c.mode = "Match"
    /\ c.window = "SightingOpen" => c.stage = F10!PrepSighting /\ c.mode = "Sighter"
    /\ Tally10(c, r)

Done10(from, whole, c) ==
    Settled(Course10, from, whole, c) /\ Stands10(c, Written(c))

LEMMA TallySame10 ==
    ASSUME NEW c, NEW r, Tally10(c, r), NEW d, d.count = c.count, d.checkpoints = c.checkpoints,
           NEW q, q.officials = r.officials, q.refused = r.refused
    PROVE  Tally10(d, q)
BY DEF Tally10

LEMMA TallyKept10 ==
    ASSUME NEW c, NEW d, Keeps(c, d), Tally10(c, Written(c))
    PROVE  Tally10(d, Written(d))
BY TallySame10 DEF Keeps, Beside

LEMMA Prepared10 ==
    ASSUME NEW from, NEW whole, NEW S, NEW c, Steady(Course10, from, whole, S, c),
           F10!Running(c), NEW ceremony, NEW d, d = F10!Prepared(c, ceremony)
    PROVE  Step(Course10, from, whole, S, c, d,
                IF c.stage = F10!PrepSighting THEN "SightingOpen" ELSE "Closed",
                IF c.stage = F10!PrepSighting THEN "Sighter" ELSE c.mode)
<1>. DEFINE a == IssueCommand(c)
<1>1. Step(Course10, from, whole, S, c, a, c.window, c.mode)
      BY CommandStep
<1>. HIDE DEF a
<1>2. Steady(Course10, from, whole, S, a) /\ a.mode = c.mode
      BY <1>1 DEF Step
<1>3. "SightingOpen" \in Windows /\ "MatchOpen" \in Windows /\ "Closed" \in Windows
      BY DEF Windows
<1>4. CASE c.stage = F10!Presentation
  <2>. DEFINE b == SetWindow(a, "Closed")
  <2>1. Step(Course10, from, whole, S, a, b, "Closed", a.mode)
        BY <1>2, <1>3, WindowStep
  <2>2. PICK x \in Nat, y \in Nat :
            x = (IF ceremony = "Full" THEN 0 ELSE 1)
            /\ y = Durations[IF ceremony = "Full" THEN "Intro" ELSE "Hold"]
    <3>1. Durations["Intro"] \in Nat /\ Durations["Hold"] \in Nat
          BY DurationsNat DEF Segments
    <3>. QED  BY <3>1
  <2>3. d = [b EXCEPT !.seqStep = x, !.left = y]
    <3>1. d = [F10!SetWindow(F10!IssueCommand(c), "Closed") EXCEPT
                  !.seqStep = IF ceremony = "Full" THEN 0 ELSE 1,
                  !.left = Durations[IF ceremony = "Full" THEN "Intro" ELSE "Hold"]]
          BY <1>4, StagesOf10 DEF F10!Prepared
    <3>2. F10!SetWindow(F10!IssueCommand(c), "Closed") = b
          BY SameHelpers10 DEF a
    <3>. HIDE DEF b
    <3>3. CASE ceremony = "Full"
          BY <2>2, <3>1, <3>2, <3>3
    <3>4. CASE ceremony # "Full"
          BY <2>2, <3>1, <3>2, <3>4
    <3>. QED  BY <3>3, <3>4
  <2>. HIDE DEF b
  <2>4. Steady(Course10, from, whole, S, b) /\ b.window = "Closed" /\ b.mode = c.mode
        BY <1>2, <2>1 DEF Step
  <2>5. Step(Course10, from, whole, S, b, d, b.window, b.mode)
        BY <2>3, <2>4, ClockStep
  <2>6. Step(Course10, from, whole, S, c, d, "Closed", c.mode)
        BY <1>1, <2>1, <2>4, <2>5, StepsCompose
  <2>. QED  BY <1>4, <2>6, StagesOf10
<1>5. CASE c.stage = F10!PrepSighting
  <2>. DEFINE m == [a EXCEPT !.mode = "Sighter"]
              b == SetWindow(m, "SightingOpen")
  <2>1. Step(Course10, from, whole, S, a, m, a.window, "Sighter")
        BY <1>2, ModeStep
  <2>2. PICK y \in Nat : y = Durations["Prep"]
        BY DurationsNat DEF Segments
  <2>3. d = [b EXCEPT !.left = y]
        BY <1>5, <2>2, SameHelpers10, StagesOf10 DEF F10!Prepared, a
  <2>. HIDE DEF m
  <2>4. Steady(Course10, from, whole, S, m) /\ m.mode = "Sighter"
        BY <2>1 DEF Step
  <2>5. Step(Course10, from, whole, S, m, b, "SightingOpen", "Sighter")
        BY <1>3, <2>4, WindowStep
  <2>. HIDE DEF b
  <2>6. Steady(Course10, from, whole, S, b) /\ b.window = "SightingOpen" /\ b.mode = "Sighter"
        BY <2>5 DEF Step
  <2>7. Step(Course10, from, whole, S, b, d, b.window, b.mode)
        BY <2>3, <2>6, ClockStep
  <2>8. Step(Course10, from, whole, S, c, d, "SightingOpen", "Sighter")
    <3>1. Step(Course10, from, whole, S, c, m, a.window, "Sighter")
          BY <1>1, <2>1, StepsCompose
    <3>2. Step(Course10, from, whole, S, c, b, "SightingOpen", "Sighter")
          BY <2>5, <3>1, StepsCompose
    <3>. QED  BY <2>6, <2>7, <3>2, StepsCompose
  <2>. QED  BY <1>5, <2>8
<1>6. CASE c.stage \in F10!Commanded
  <2>1. PICK y \in Nat : y = F10!GapMs(c.stage)
    <3>1. Durations["PreGap"] \in Nat /\ Durations["Gap"] \in Nat
          BY DurationsNat DEF Segments
    <3>. QED  BY <3>1 DEF F10!GapMs
  <2>2. d = BeginCommandSequence(c, y)
        BY <1>6, <2>1, SameHelpers10, StagesOf10 DEF F10!Prepared
  <2>3. Step(Course10, from, whole, S, c, d, "Closed", c.mode)
        BY <2>2, BeginStep
  <2>. QED  BY <1>6, <2>3, StagesOf10
<1>7. c.stage \in {0, 1} \cup 2 .. 3 + Singles10m
      BY StagesOf10
<1>. QED  BY <1>4, <1>5, <1>6, <1>7, StagesOf10

LEMMA PhaseSubmitted10 ==
    ASSUME NEW from, NEW whole, NEW S, NEW c, Steady(Course10, from, whole, S, c),
           NEW s \in 0 .. 3 + Singles10m, S = PassedAt(Course10, s), Written(c).stage <= s,
           c.stage = s, NEW d, d = F10!SubmitStagePhase(c)
    PROVE  \/ Enters(Course10, from, whole, S, c, d, s)
           \/ d = c /\ Written(c).phase \in Course10.phases[s]
<1>1. s \in Course10.stages /\ s < Course10.end
      BY StagesOf10 DEF Course10
<1>2. CASE s = F10!PrepSighting
  <2>. DEFINE a == Emit(c, Phase("Preparation", s))
  <2>1. d = Emit(a, Phase("Sighting", s))
        BY <1>2, SameHelpers10, StagesOf10 DEF F10!SubmitStagePhase
  <2>2. "Preparation" \in Course10.phases[s] /\ "Sighting" \in Course10.phases[s]
        BY <1>2, StagesOf10 DEF Course10, Phases
  <2>3. Enters(Course10, from, whole, S, c, a, s)
        BY <1>1, <2>2, CourseOf10, PhaseEnters
  <2>. HIDE DEF a
  <2>4. Steady(Course10, from, whole, S, a) /\ Written(a).stage <= s
        BY <2>3 DEF Enters
  <2>5. Enters(Course10, from, whole, S, a, d, s)
        BY <1>1, <2>1, <2>2, <2>4, CourseOf10, PhaseEnters
  <2>. QED  BY <2>3, <2>5, EntersAgain
<1>3. CASE s \in F10!Commanded
  <2>1. d = Emit(c, Phase("OfficialMatch", s))
        BY <1>3, SameHelpers10, StagesOf10 DEF F10!SubmitStagePhase
  <2>2. "OfficialMatch" \in Course10.phases[s]
        BY <1>3, StagesOf10 DEF Course10
  <2>. QED  BY <1>1, <2>1, <2>2, CourseOf10, PhaseEnters
<1>4. CASE s = 0
  <2>1. d = c
        BY <1>4, StagesOf10 DEF F10!SubmitStagePhase
  <2>2. Course10.phases[s] = Phases
        BY <1>4, StagesOf10 DEF Course10
  <2>3. Written(c).phase \in Phases
        BY DEF Steady, Handling, Told, Journals
  <2>. QED  BY <2>1, <2>2, <2>3
<1>5. s \in {0, 1} \cup 2 .. 3 + Singles10m
      BY StagesOf10
<1>. QED  BY <1>2, <1>3, <1>4, <1>5, StagesOf10

\* enterStage, enterSingle.
LEMMA EnterStage10 ==
    ASSUME NEW from, NEW whole, NEW S, NEW c, Steady(Course10, from, whole, S, c),
           Tally10(c, Written(c)), NEW s \in 0 .. 4 + Singles10m, S = PassedAt(Course10, s),
           Written(c).stage < s,
           s < 4 + Singles10m /\ ~Written(c).refused => Below(c, Start10(s)),
           NEW ceremony, NEW d, d = F10!EnterStageAs(c, s, ceremony)
    PROVE  Done10(from, whole, d)
<1>. DEFINE a == [c EXCEPT !.stage = s, !.seqStep = 0, !.shots = 0, !.warned = 0]
            b == IF F10!StageShotLimit(s) > 0 THEN F10!SetStageStatus(a, s, "InProgress") ELSE a
<1>1. c \in Controllers(Course10.stages) /\ Told(Course10, from, Written(c))
      /\ Written(c) \in Journals(Course10.stages) /\ s \in Course10.stages
      BY StagesOf10 DEF Steady, Handling, Told, Course10
<1>5. d = IF s = F10!Complete THEN F10!Completed(b)
          ELSE F10!Emit(F10!SubmitStagePhase(F10!Prepared(b, ceremony)), F10!Entered(s))
      BY DEF F10!EnterStageAs
<1>2. /\ a \in Controllers(Course10.stages) /\ a.out = c.out /\ a.status = c.status
      /\ a.stage = s /\ a.shots = 0 /\ a.count = c.count /\ a.checkpoints = c.checkpoints
      /\ a.mode = c.mode
  <2>1. s \in Int
        BY StagesOf10
  <2>2. a = [c EXCEPT !.stage = s, !.seqStep = 0, !.shots = 0, !.warned = 0]
        OBVIOUS
  <2>. HIDE DEF a
  <2>. QED  BY <1>1, <2>1, <2>2 DEF Controllers
<1>. HIDE DEF a
<1>3. Steady(Course10, from, whole, S, a) /\ Beside(c, a)
      BY <1>2, AdjustedSteady
<1>4. Step(Course10, from, whole, S, a, b, a.window, a.mode)
  <2>1. CASE F10!StageShotLimit(s) > 0
    <3>1. b = SetStageStatus(a, s, "InProgress")
          BY <2>1, SameHelpers10
    <3>2. "InProgress" \in Statuses
          BY DEF Statuses
    <3>. HIDE DEF b
    <3>. QED  BY <1>1, <1>3, <3>1, <3>2, CourseOf10, StatusStep
  <2>2. CASE ~(F10!StageShotLimit(s) > 0)
    <3>1. b = a
          BY <2>2
    <3>. QED  BY <1>3, <3>1 DEF Step, Keeps, Beside
  <2>. QED  BY <2>1, <2>2
<1>. HIDE DEF b
<1>6. /\ Steady(Course10, from, whole, S, b) /\ b.stage = s /\ b.shots = 0
      /\ b.count = c.count /\ b.checkpoints = c.checkpoints /\ Beside(c, b)
      BY <1>2, <1>3, <1>4 DEF Step, Keeps, Beside
<1>7. Tally10(b, Written(b))
      BY <1>6, TallySame10 DEF Beside
<1>8. CASE s = F10!Complete
  <2>1. S = Course10.match
        BY <1>8, CourseOf10 DEF IsCourse, PassedAt, Course10
  <2>2. d = Emit(IssueCommand(IssueCommand([SetWindow(b, "Closed") EXCEPT !.left = 0])),
                 MatchCompleted)
        BY <1>5, <1>8, SameHelpers10 DEF F10!Completed
  <2>3. Settled(Course10, from, whole, d) /\ Keeps(b, d) /\ d.window = "Closed"
    <3>1. PICK k : k = Course10
          OBVIOUS
    <3>2. Steady(k, from, whole, k.match, b)
          BY <1>6, <2>1, <3>1
    <3>3. Settled(k, from, whole, d) /\ Keeps(b, d) /\ d.window = "Closed"
          BY <2>2, <3>2, CompletedSettled
    <3>. QED  BY <3>1, <3>3
  <2>4. Tally10(d, Written(d))
        BY <1>7, <2>3, TallyKept10
  <2>5. d.stage = s
        BY <1>6, <2>3 DEF Keeps
  <2>. QED  BY <1>8, <2>3, <2>4, <2>5, StagesOf10 DEF Done10, Stands10
<1>9. CASE s # F10!Complete
  <2>. DEFINE e == F10!Prepared(b, ceremony)
              f == F10!SubmitStagePhase(e)
              w == IF s = F10!PrepSighting THEN "SightingOpen" ELSE "Closed"
              m == IF s = F10!PrepSighting THEN "Sighter" ELSE b.mode
  <2>1. d = Emit(f, Entered(s))
        BY <1>5, <1>9, SameHelpers10
  <2>2. s \in 0 .. 3 + Singles10m /\ F10!Running(b) /\ s < Course10.end /\ s < 4 + Singles10m
    <3>1. s \in 0 .. 3 + Singles10m /\ s < 4 + Singles10m
          BY <1>9, StagesOf10
    <3>2. Course10.end = 4 + Singles10m
          BY StagesOf10 DEF Course10
    <3>. QED  BY <1>6, <3>1, <3>2, StagesOf10
  <2>3. Step(Course10, from, whole, S, b, e, w, m)
        BY <1>6, <2>2, Prepared10
  <2>. HIDE DEF e
  <2>4. Steady(Course10, from, whole, S, e) /\ Keeps(b, e) /\ e.window = w /\ e.mode = m
        BY <2>3 DEF Step
  <2>5. Written(e).stage <= s /\ e.stage = s
    <3>1. Written(e).stage = Written(c).stage /\ Written(c).stage \in Int
          BY <1>1, <1>6, <2>4 DEF Keeps, Beside, Journals
    <3>2. e.stage = s
          BY <1>6, <2>4 DEF Keeps
    <3>. QED  BY <3>1, <3>2
  <2>6. \/ Enters(Course10, from, whole, S, e, f, s)
        \/ f = e /\ Written(e).phase \in Course10.phases[s]
        BY <2>2, <2>4, <2>5, PhaseSubmitted10
  <2>. HIDE DEF f
  <2>7. Enters(Course10, from, whole, S, e, d, s)
    <3>1. CASE Enters(Course10, from, whole, S, e, f, s)
      <4>1. /\ Steady(Course10, from, whole, S, f) /\ Written(f).stage <= s
            /\ Written(f).phase \in Course10.phases[s]
            BY <3>1 DEF Enters
      <4>2. Enters(Course10, from, whole, S, f, d, s)
            BY <1>1, <2>1, <2>2, <4>1, CourseOf10, StageEnters
      <4>. QED  BY <3>1, <4>2, EntersAgain
    <3>2. CASE f = e /\ Written(e).phase \in Course10.phases[s]
          BY <1>1, <2>1, <2>2, <2>4, <2>5, <3>2, CourseOf10, StageEnters
    <3>. QED  BY <2>6, <3>1, <3>2
  <2>8. /\ Steady(Course10, from, whole, S, d) /\ d.stage = s /\ d.shots = 0
        /\ d.window = w /\ d.mode = m
        /\ Written(d).stage = s /\ Written(d).officials = Written(c).officials
        /\ Written(d).refused = Written(c).refused
        /\ d.count = c.count /\ d.checkpoints = c.checkpoints
        BY <1>6, <2>4, <2>7 DEF Enters, Alike, Keeps, Beside
  <2>9. ShotsOf(Written(d), s) = 0
        BY <1>1, <2>8, CourseOf10, NoShotsYet DEF Told
  <2>10. Tally10(d, Written(d))
         BY <2>8, TallySame10
  <2>11. Settled(Course10, from, whole, d) /\ Written(d).life = "Active"
         BY <2>8, SteadyIsSettled DEF Steady
  <2>12. /\ d.window # "MatchOpen"
         /\ d.window = "SightingOpen" => s = F10!PrepSighting /\ d.mode = "Sighter"
         BY <2>8
  <2>13. ~Written(d).refused => Below(d, Top10(d))
    <3>1. PICK x \in Nat : x = Start10(s)
          BY LimitsOf10 DEF Start10
    <3>2. Top10(d) = Start10(s)
          BY <2>8, <3>1 DEF Top10
    <3>. QED  BY <2>2, <2>8, <3>2 DEF Below
  <2>. QED  BY <2>8, <2>9, <2>10, <2>11, <2>12, <2>13 DEF Done10, Stands10
<1>. QED  BY <1>8, <1>9
-----------------------------------------------------------------------------
(* The actions of the 10 m final.                                          *)

FinalInv10 == Sound(Course10) /\ (up = "live" => Stands10(ctl, rec))

LEMMA SubmitsStands10 ==
    ASSUME NEW from, NEW c, NEW h \in Histories, NEW anchored, NEW cost,
           Done10(from, ~h.cut, c), Submits(c, h, anchored, cost), fired' \in Nat
    PROVE  FinalInv10' /\ Follows(Course10, from, rec')
<1>1. /\ Sound(Course10)' /\ Follows(Course10, from, rec')
      /\ up' = "live" => Alike(c, ctl') /\ rec' = Written(c)
      BY SubmitsSound DEF Done10
<1>2. ASSUME up' = "live" PROVE Stands10(ctl', rec')
      BY <1>1, <1>2 DEF Done10, Stands10, Alike, F10!Running, Tally10, Below, Top10
<1>. QED  BY <1>1, <1>2 DEF FinalInv10

LEMMA SamePieces10 ==
    /\ \A c : F10!Written(c) = Written(c)
    /\ \A n : F10!Troubles(n) <=> Troubles(n)
    /\ \A stages : F10!Down(stages) <=> Down(stages)
BY DEF F10!Written, F10!Last, F10!Troubles, F10!Down, F10!NewCtl,
       Written, Last, Troubles, Down, NewCtl

LEMMA SameSubmits10 ==
    ASSUME NEW c, NEW h, NEW anchored, NEW cost, F10!Submits(c, h, anchored, cost)
    PROVE  Submits(c, h, anchored, cost)
<1>1. \A x, y : F10!Stamped(h, x, y) = Stamped(h, x, y)
      BY DEF F10!Stamped, Stamped
<1>. QED  BY <1>1, SamePieces10 DEF F10!Submits, Submits

LEMMA PassedAt10 ==
    /\ \A s \in Int : s <= 2 => PassedAt(Course10, s) = {}
    /\ \A s \in 2 .. 3 + Singles10m :
          PassedAt(Course10, s + 1) = PassedAt(Course10, s) \cup {s} /\ s \notin PassedAt(Course10, s)
<1>1. /\ Course10.match = 2 .. 3 + Singles10m
      /\ \A s \in 2 .. 3 + Singles10m : Course10.over[s] = s + 1
      BY StagesOf10 DEF Course10
<1>2. \A s \in Int : PassedAt(Course10, s) = {t \in 2 .. 3 + Singles10m : t + 1 <= s}
      BY <1>1 DEF PassedAt
<1>. QED  BY <1>2, StagesOf10

LEMMA InRunning10 ==
    ASSUME FinalInv10, up = "live", F10!Running(ctl)
    PROVE  /\ Written(ctl) = rec /\ rec.stage <= ctl.stage /\ rec.life = "Active"
           /\ ctl.stage \in F10!Commanded => rec.stage = ctl.stage
           /\ PassedAt(Course10, rec.stage) = PassedAt(Course10, ctl.stage)
           /\ Steady(Course10, rec, ~hist.cut, PassedAt(Course10, ctl.stage), ctl)
           /\ ~rec.refused => ctl.shots = ShotsOf(rec, ctl.stage) /\ Below(ctl, Top10(ctl))
           /\ Stands10(ctl, rec) /\ Tally10(ctl, Written(ctl))
           /\ ctl.stage \in {0, 1} \cup 2 .. 3 + Singles10m /\ ctl.shots \in Nat
           /\ hist \in Histories /\ fired \in Nat
<1>1. Stands10(ctl, rec) /\ Sound(Course10)
      BY DEF FinalInv10
<1>2. /\ rec.stage <= ctl.stage /\ rec.life = "Active" /\ Tally10(ctl, rec)
      /\ (ctl.stage \in F10!Commanded => rec.stage = ctl.stage)
      /\ (~rec.refused => ctl.shots = ShotsOf(rec, ctl.stage) /\ Below(ctl, Top10(ctl)))
      BY <1>1 DEF Stands10
<1>3. ctl.stage \in {0, 1} \cup 2 .. 3 + Singles10m
      BY StagesOf10
<1>4. PassedAt(Course10, rec.stage) = PassedAt(Course10, ctl.stage)
  <2>1. rec.stage \in Int
        BY <1>1 DEF Sound, Told, Journals
  <2>2. CASE ctl.stage \in {0, 1}
    <3>1. rec.stage <= 2 /\ ctl.stage <= 2 /\ ctl.stage \in Int
          BY <1>2, <2>1, <2>2
    <3>. QED  BY <2>1, <3>1, PassedAt10
  <2>3. CASE ctl.stage \in 2 .. 3 + Singles10m
        BY <1>2, <2>3, StagesOf10
  <2>. QED  BY <1>3, <2>2, <2>3
<1>5. Written(ctl) = rec /\ Steady(Course10, rec, ~hist.cut, PassedAt(Course10, ctl.stage), ctl)
      BY <1>1, <1>2, <1>4, Begins
<1>6. ctl.shots \in Nat /\ hist \in Histories /\ fired \in Nat
      BY <1>1 DEF Sound, Controllers
<1>. QED  BY <1>1, <1>2, <1>3, <1>4, <1>5, <1>6

LEMMA Handled10 ==
    ASSUME FinalInv10, NEW d, Done10(rec, ~hist.cut, d), NEW cost, F10!HandlesAt(d, cost),
           fired' \in Nat
    PROVE  FinalInv10' /\ Follows(Course10, rec, rec')
<1>1. PICK h \in Histories : h = hist
      BY DEF FinalInv10, Sound
<1>2. PICK anchored : anchored = F10!Anchored(d)
      OBVIOUS
<1>3. Submits(d, h, anchored, cost)
      BY <1>1, <1>2, SameSubmits10 DEF F10!HandlesAt
<1>. QED  BY <1>1, <1>3, SubmitsStands10

\* A handler that neither enters a stage nor takes a shot.
LEMMA StepDone10 ==
    ASSUME FinalInv10, up = "live", F10!Running(ctl), NEW d, NEW w, NEW m,
           Step(Course10, rec, ~hist.cut, PassedAt(Course10, ctl.stage), ctl, d, w, m),
           w = "MatchOpen" => ctl.stage \in F10!Commanded /\ m = "Match",
           w = "SightingOpen" => ctl.stage = F10!PrepSighting /\ m = "Sighter"
    PROVE  Done10(rec, ~hist.cut, d)
<1>1. /\ Steady(Course10, rec, ~hist.cut, PassedAt(Course10, ctl.stage), d)
      /\ Keeps(ctl, d) /\ d.window = w /\ d.mode = m /\ d.stage = ctl.stage
      /\ d.shots = ctl.shots /\ d.checkpoints = ctl.checkpoints
      BY DEF Step, Keeps
<1>2. /\ Written(d).stage = rec.stage /\ Written(d).officials = rec.officials
      /\ Written(d).refused = rec.refused /\ Written(d).life = "Active"
      BY <1>1, InRunning10 DEF Keeps, Beside, Steady
<1>3. Tally10(d, Written(d))
      BY <1>1, InRunning10, TallyKept10
<1>4. ~Written(d).refused => d.shots = ShotsOf(Written(d), d.stage) /\ Below(d, Top10(d))
  <2>1. ShotsOf(Written(d), ctl.stage) = ShotsOf(rec, ctl.stage)
        BY <1>2, SameShots
  <2>2. Below(ctl, Top10(ctl)) => Below(d, Top10(d))
        BY <1>1 DEF Below, Top10
  <2>. QED  BY <1>1, <1>2, <2>1, <2>2, InRunning10
<1>5. Settled(Course10, rec, ~hist.cut, d)
  <2>1. PassedAt(Course10, Written(d).stage) = PassedAt(Course10, ctl.stage)
        BY <1>2, InRunning10
  <2>. QED  BY <1>1, <2>1, SteadyIsSettled
<1>. QED  BY <1>1, <1>2, <1>3, <1>4, <1>5, InRunning10 DEF Done10, Stands10

LEMMA SkipCeremony10 ==
    ASSUME FinalInv10, F10!SkipCeremony \/ F10!HoldOver
    PROVE  FinalInv10' /\ Follows(Course10, rec, rec')
<1>1. /\ up = "live" /\ ctl.stage = 0 /\ fired' = fired
      /\ F10!HandlesAt(F10!EnterStageAs(ctl, 1, "Full"), 0)
      BY StagesOf10
      DEF F10!SkipCeremony, F10!HoldOver, F10!Due, F10!Ticking, F10!Handles, F10!EnterStage
<1>2. F10!Running(ctl)
      BY <1>1, StagesOf10
<1>3. PICK d, s : s = 1 /\ d = F10!EnterStageAs(ctl, s, "Full")
      OBVIOUS
<1>4. PassedAt(Course10, s) = PassedAt(Course10, ctl.stage) /\ s \in 0 .. 4 + Singles10m
  <2>1. s \in 0 .. 4 + Singles10m /\ s \in Int /\ s <= 2 /\ ctl.stage \in Int /\ ctl.stage <= 2
        BY <1>1, <1>3, StagesOf10
  <2>. QED  BY <2>1, PassedAt10
<1>5. Written(ctl).stage < s
  <2>1. rec.stage \in Int
        BY DEF FinalInv10, Sound, Told, Journals
  <2>. QED  BY <1>1, <1>2, <1>3, <2>1, InRunning10
<1>6. ~Written(ctl).refused => Below(ctl, Start10(s))
  <2>1. Top10(ctl) = ctl.shots /\ Start10(s) = 0
        BY <1>1, <1>2, <1>3, InRunning10, StagesOf10 DEF Top10, Start10
  <2>2. ~rec.refused => ctl.shots = 0
    <3>1. rec \in Journals(Course10.stages) /\ Placed(Course10, rec)
          BY DEF FinalInv10, Sound, Told
    <3>2. rec.stage \in Int /\ rec.stage <= 0
          BY <1>1, <1>2, <3>1, InRunning10 DEF Journals
    <3>3. OfStage(rec, 0) = {}
      <4>1. SUFFICES ASSUME NEW o \in rec.officials, o.stage = 0 PROVE FALSE
            BY DEF OfStage
      <4>2. o.stage \in Course10.match
            BY <3>1 DEF Placed
      <4>. QED  BY <4>1, <4>2, StagesOf10 DEF Course10
    <3>. QED  BY <1>1, <1>2, <3>3, InRunning10, FS_EmptySet DEF ShotsOf
  <2>. QED  BY <1>1, <1>2, <2>1, <2>2, InRunning10
<1>7. Done10(rec, ~hist.cut, d)
  <2>1. Steady(Course10, rec, ~hist.cut, PassedAt(Course10, ctl.stage), ctl)
        /\ Tally10(ctl, Written(ctl))
        BY <1>1, <1>2, InRunning10
  <2>. QED  BY <1>3, <1>4, <1>5, <1>6, <2>1, EnterStage10
<1>8. F10!HandlesAt(d, 0)
      BY <1>1, <1>3
<1>. QED  BY <1>1, <1>2, <1>7, <1>8, InRunning10, Handled10

LEMMA AbortFinal10 ==
    ASSUME FinalInv10, F10!AbortFinal
    PROVE  FinalInv10' /\ Follows(Course10, rec, rec')
<1>. DEFINE S == PassedAt(Course10, ctl.stage)
            whole == ~hist.cut
            a == IF F10!StageShotLimit(ctl.stage) > 0
                 THEN F10!SetStageStatus(ctl, ctl.stage, "Aborted") ELSE ctl
            b == SetWindow(a, "Closed")
            d == [b EXCEPT !.stage = F10!Aborted, !.left = 0]
<1>1. up = "live" /\ F10!Running(ctl) /\ F10!HandlesAt(d, 1) /\ fired' = fired
      BY SameHelpers10 DEF F10!AbortFinal
<1>2. Step(Course10, rec, whole, S, ctl, a, ctl.window, ctl.mode)
  <2>1. Steady(Course10, rec, whole, S, ctl)
        BY <1>1, InRunning10
  <2>. HIDE DEF S, whole
  <2>2. CASE F10!StageShotLimit(ctl.stage) > 0
    <3>1. a = SetStageStatus(ctl, ctl.stage, "Aborted")
          BY <2>2, SameHelpers10
    <3>2. "Aborted" \in Statuses /\ ctl.stage \in Course10.stages
          BY <1>1, StagesOf10 DEF Statuses, Verdicts, Course10
    <3>3. PICK v \in Statuses : v = "Aborted"
          BY <3>2
    <3>. HIDE DEF a
    <3>. QED  BY <2>1, <3>1, <3>2, <3>3, CourseOf10, StatusStep
  <2>3. CASE ~(F10!StageShotLimit(ctl.stage) > 0)
    <3>1. a = ctl
          BY <2>3
    <3>. QED  BY <2>1, <3>1 DEF Step, Keeps, Beside
  <2>. QED  BY <2>2, <2>3
<1>. HIDE DEF a
<1>3. Steady(Course10, rec, whole, S, a)
      BY <1>2 DEF Step
<1>4. Step(Course10, rec, whole, S, a, b, "Closed", a.mode)
      BY <1>3, WindowStep DEF Windows
<1>. HIDE DEF b
<1>5. Steady(Course10, rec, whole, S, b) /\ Keeps(ctl, b) /\ b.window = "Closed"
      BY <1>2, <1>4 DEF Step, Keeps, Beside
<1>6. d \in Controllers(Course10.stages) /\ d.out = b.out /\ d.status = b.status
      /\ d.stage = F10!Aborted /\ d.window = "Closed" /\ d.count = b.count
      /\ d.checkpoints = b.checkpoints
  <2>1. b \in Controllers(Course10.stages) /\ F10!Aborted \in Int
        BY <1>5, StagesOf10 DEF Steady, Handling
  <2>. QED  BY <1>5, <2>1 DEF Controllers
<1>. HIDE DEF d
<1>7. Steady(Course10, rec, whole, S, d) /\ Beside(b, d)
      BY <1>5, <1>6, AdjustedSteady
<1>8. Written(d).stage = rec.stage
      BY <1>1, <1>5, <1>7, InRunning10 DEF Keeps, Beside
<1>9. Settled(Course10, rec, whole, d)
  <2>1. PassedAt(Course10, Written(d).stage) = S
        BY <1>1, <1>8, InRunning10
  <2>. QED  BY <1>7, <2>1, SteadyIsSettled
<1>10. Tally10(d, Written(d))
  <2>1. Tally10(b, Written(b))
        BY <1>1, <1>5, InRunning10, TallyKept10
  <2>. QED  BY <1>6, <1>7, <2>1, TallySame10 DEF Beside
<1>11. Stands10(d, Written(d))
       BY <1>6, <1>10, StagesOf10 DEF Stands10
<1>12. Done10(rec, ~hist.cut, d)
       BY <1>9, <1>11 DEF Done10
<1>. QED  BY <1>1, <1>12, InRunning10, Handled10

LEMMA Marked10 ==
    ASSUME FinalInv10, up = "live", NEW d, d = F10!Emit(ctl, F10!Mark)
    PROVE  Done10(rec, ~hist.cut, d)
<1>1. /\ Settled(Course10, rec, ~hist.cut, ctl) /\ Written(ctl) = rec
      /\ Stands10(ctl, rec)
      BY Begins DEF FinalInv10
<1>2. d = IssueCommand(ctl)
      BY SameHelpers10 DEF IssueCommand
<1>3. /\ Handling(Course10, rec, d) /\ Alike(ctl, d) /\ Same(rec, Written(d))
      BY <1>1, <1>2, CommandIssued DEF Settled
<1>4. PassedIn(Course10, Written(d)) = PassedIn(Course10, rec)
      BY <1>3 DEF PassedIn, Same
<1>5. Settled(Course10, rec, ~hist.cut, d)
      BY <1>1, <1>3, <1>4, SameIsExact DEF Settled, Same, Alike
<1>6. \A s : ShotsOf(Written(d), s) = ShotsOf(rec, s)
      BY <1>3, SameShots DEF Same
<1>7. Stands10(d, Written(d))
      BY <1>1, <1>3, <1>6 DEF Stands10, Tally10, Below, Top10, Same, Alike, F10!Running
<1>. QED  BY <1>5, <1>7 DEF Done10

LEMMA ShotOnly10 ==
    ASSUME FinalInv10, F10!RegisterSighter \/ F10!RejectShot
    PROVE  FinalInv10' /\ Follows(Course10, rec, rec')
<1>1. PICK cost : up = "live" /\ fired' = fired + 1
                  /\ F10!HandlesAt(F10!Emit(ctl, F10!Mark), cost)
      BY DEF F10!RegisterSighter, F10!RejectShot, F10!Detected, F10!Handles
<1>2. PICK d : d = F10!Emit(ctl, F10!Mark)
      OBVIOUS
<1>3. Done10(rec, ~hist.cut, d)
      BY <1>1, <1>2, Marked10
<1>4. fired' \in Nat
      BY <1>1 DEF FinalInv10, Sound
<1>. QED  BY <1>1, <1>2, <1>3, <1>4, Handled10

LEMMA ClockOnly10 ==
    ASSUME FinalInv10, F10!TakeYourPositions \/ F10!LoadCommand \/ F10!Warning
    PROVE  FinalInv10' /\ Follows(Course10, rec, rec')
<1>. DEFINE S == PassedAt(Course10, ctl.stage)
            a == IssueCommand(ctl)
<1>1. up = "live" /\ F10!Running(ctl) /\ fired' = fired
      BY StagesOf10 DEF F10!TakeYourPositions, F10!LoadCommand, F10!Warning, F10!WarningDue,
                        F10!Due, F10!Ticking
<1>2. PICK d : \E x, y, z \in Nat :
         /\ d = [a EXCEPT !.seqStep = x, !.left = y] \/ d = [a EXCEPT !.warned = z]
         /\ F10!HandlesAt(d, 0)
  <2>1. CASE F10!TakeYourPositions
    <3>1. PICK x \in Nat, y \in Nat : x = 1 /\ y = Durations["Hold"]
          BY DurationsNat DEF Segments
    <3>2. F10!HandlesAt([a EXCEPT !.seqStep = x, !.left = y], 0)
          BY <2>1, <3>1, SameHelpers10 DEF F10!TakeYourPositions, F10!Handles
    <3>. QED  BY <3>2
  <2>2. CASE F10!LoadCommand
    <3>1. PICK x \in Nat, y \in Nat : x = 1 /\ y = Durations["Load"]
          BY DurationsNat DEF Segments
    <3>2. F10!HandlesAt([a EXCEPT !.seqStep = x, !.left = y], 0)
          BY <2>2, <3>1, SameHelpers10 DEF F10!LoadCommand, F10!Handles
    <3>. QED  BY <3>2
  <2>3. CASE F10!Warning
    <3>1. Step(Course10, rec, ~hist.cut, S, ctl, a, ctl.window, ctl.mode)
          BY <1>1, InRunning10, CommandStep
    <3>2. a.warned \in Nat
          BY <3>1 DEF Step, Steady, Handling, Controllers
    <3>3. F10!HandlesAt([a EXCEPT !.warned = a.warned + 1], 0)
          BY <2>3, SameHelpers10 DEF F10!Warning, F10!Handles
    <3>4. a.warned + 1 \in Nat
          BY <3>2
    <3>. QED  BY <3>3, <3>4
  <2>. QED  BY <2>1, <2>2, <2>3
<1>8. PICK x \in Nat, y \in Nat, z \in Nat :
         d = [a EXCEPT !.seqStep = x, !.left = y] \/ d = [a EXCEPT !.warned = z]
      BY <1>2
<1>9. F10!HandlesAt(d, 0)
      BY <1>2
<1>3. Step(Course10, rec, ~hist.cut, S, ctl, a, ctl.window, ctl.mode)
      BY <1>1, InRunning10, CommandStep
<1>. HIDE DEF a, S
<1>4. Steady(Course10, rec, ~hist.cut, S, a) /\ a.window = ctl.window /\ a.mode = ctl.mode
      BY <1>3 DEF Step
<1>5. Step(Course10, rec, ~hist.cut, S, a, d, a.window, a.mode)
      BY <1>4, <1>8, TimerStep
<1>6. Step(Course10, rec, ~hist.cut, S, ctl, d, ctl.window, ctl.mode)
      BY <1>3, <1>4, <1>5, StepsCompose
<1>7. Done10(rec, ~hist.cut, d)
  <2>1. Step(Course10, rec, ~hist.cut, PassedAt(Course10, ctl.stage), ctl, d, ctl.window, ctl.mode)
        BY <1>6 DEF S
  <2>2. Stands10(ctl, rec)
        BY <1>1, InRunning10
  <2>. QED  BY <1>1, <2>1, <2>2, StepDone10 DEF Stands10
<1>. QED  BY <1>1, <1>7, <1>9, InRunning10, Handled10

LEMMA WindowOpens10 ==
    ASSUME FinalInv10, F10!StartCommand
    PROVE  FinalInv10' /\ Follows(Course10, rec, rec')
<1>. DEFINE S == PassedAt(Course10, ctl.stage)
            a == IssueCommand(ctl)
<1>1. /\ up = "live" /\ F10!Running(ctl) /\ fired' = fired
      /\ ctl.stage \in F10!Commanded
      BY StagesOf10 DEF F10!StartCommand, F10!Due, F10!Ticking
<1>2. Step(Course10, rec, ~hist.cut, S, ctl, a, ctl.window, ctl.mode)
      BY <1>1, InRunning10, CommandStep
<1>. HIDE DEF a
<1>3. Steady(Course10, rec, ~hist.cut, S, a) /\ a.mode = ctl.mode
      BY <1>2 DEF Step
<1>4. PICK y \in Nat : y = F10!WindowMs(ctl.stage)
  <2>1. Durations["Series"] \in Nat /\ Durations["Single"] \in Nat
        BY DurationsNat DEF Segments
  <2>. QED  BY <2>1 DEF F10!WindowMs
<1>5. PICK d : d = OpenCommandWindow(a, y)
      OBVIOUS
<1>6. F10!HandlesAt(d, 0)
      BY <1>4, <1>5, SameHelpers10 DEF F10!StartCommand, F10!Handles, a
<1>7. Step(Course10, rec, ~hist.cut, S, a, d, "MatchOpen", "Match")
      BY <1>3, <1>5, OpenStep
<1>8. Step(Course10, rec, ~hist.cut, S, ctl, d, "MatchOpen", "Match")
      BY <1>2, <1>7, StepsCompose
<1>9. Done10(rec, ~hist.cut, d)
      BY <1>1, <1>8, StepDone10
<1>. QED  BY <1>1, <1>6, <1>9, InRunning10, Handled10

LEMMA PrepStop10 ==
    ASSUME FinalInv10, F10!PrepStop
    PROVE  FinalInv10' /\ Follows(Course10, rec, rec')
<1>. DEFINE S == PassedAt(Course10, ctl.stage)
            a == CloseWindowAndStop(ctl)
            b == [a EXCEPT !.mode = "Match"]
<1>1. /\ up = "live" /\ F10!Running(ctl) /\ fired' = fired /\ ctl.stage = 1
      BY StagesOf10 DEF F10!PrepStop, F10!Due, F10!Ticking
<1>2. Step(Course10, rec, ~hist.cut, S, ctl, a, "Closed", ctl.mode)
      BY <1>1, InRunning10, StopStep
<1>3. F10!HandlesAt(F10!EnterStageAs(b, 2, "Full"), 0)
      BY SameHelpers10, StagesOf10 DEF F10!PrepStop, F10!Handles, F10!EnterStage
<1>. HIDE DEF a
<1>4. Steady(Course10, rec, ~hist.cut, S, a)
      BY <1>2 DEF Step
<1>5. Step(Course10, rec, ~hist.cut, S, a, b, a.window, "Match")
      BY <1>4, ModeStep
<1>. HIDE DEF b
<1>6. Steady(Course10, rec, ~hist.cut, S, b) /\ Keeps(ctl, b)
      BY <1>2, <1>5 DEF Step, Keeps, Beside
<1>7. PICK d, s : s = 2 /\ d = F10!EnterStageAs(b, s, "Full")
      OBVIOUS
<1>8. S = PassedAt(Course10, s) /\ s \in 0 .. 4 + Singles10m
  <2>1. s \in 0 .. 4 + Singles10m /\ s \in Int /\ s <= 2 /\ ctl.stage \in Int /\ ctl.stage <= 2
        BY <1>1, <1>7, StagesOf10
  <2>. QED  BY <2>1, PassedAt10
<1>9. Tally10(b, Written(b)) /\ Written(b).stage < s
  <2>1. rec.stage \in Int /\ rec.stage <= 1
        BY <1>1, InRunning10 DEF FinalInv10, Sound, Told, Journals
  <2>2. Written(b).stage = rec.stage
        BY <1>1, <1>6, InRunning10 DEF Keeps, Beside
  <2>. QED  BY <1>1, <1>6, <1>7, <2>1, <2>2, InRunning10, TallyKept10
<1>10. ~Written(b).refused => Below(b, Start10(s))
  <2>1. SUFFICES ASSUME ~rec.refused PROVE Below(ctl, Start10(s))
        BY <1>1, <1>6, InRunning10 DEF Keeps, Beside, Below
  <2>2. Start10(s) = 0
    <3>1. s \in F10!Commanded /\ F10!StageShotNumberBase(s) = (2 - 2) * PerSeries
          BY <1>7, StagesOf10 DEF F10!StageShotNumberBase, F10!IsSeries
    <3>2. (2 - 2) * PerSeries = 0
          BY StagesOf10
    <3>. QED  BY <3>1, <3>2 DEF Start10
  <2>3. Below(ctl, ctl.shots)
    <3>1. Top10(ctl) = ctl.shots
          BY <1>1, InRunning10, StagesOf10 DEF Top10, Start10
    <3>. QED  BY <1>1, <2>1, <3>1, InRunning10
  <2>4. ctl.shots = 0
    <3>1. Placed(Course10, rec)
          BY DEF FinalInv10, Sound, Told
    <3>2. OfStage(rec, 1) = {}
      <4>1. SUFFICES ASSUME NEW o \in rec.officials, o.stage = 1 PROVE FALSE
            BY DEF OfStage
      <4>2. o.stage \in Course10.match
            BY <3>1 DEF Placed
      <4>. QED  BY <4>1, <4>2, StagesOf10 DEF Course10
    <3>. QED  BY <1>1, <2>1, <3>2, InRunning10, FS_EmptySet DEF ShotsOf
  <2>. QED  BY <2>2, <2>3, <2>4
<1>. HIDE DEF S
<1>11. Done10(rec, ~hist.cut, d)
       BY <1>6, <1>7, <1>8, <1>9, <1>10, EnterStage10
<1>. QED  BY <1>1, <1>3, <1>7, <1>11, InRunning10, Handled10
\* No number is beyond those of the stage the journal has come to.
LEMMA NumbersBounded ==
    ASSUME NEW k, IsCourse(k), NEW r \in Journals(k.stages), Placed(k, r), Ranked(k, r),
           NEW s \in k.match, r.stage <= s
    PROVE  /\ ShotsOf(r, s) \in Nat
           /\ \A o \in r.officials : o.n \in Int /\ o.n <= k.base[s] + ShotsOf(r, s)
<1>1. \A t : ShotsOf(r, t) \in Nat
  <2>1. \A t : OfStage(r, t) \subseteq r.officials
        BY DEF OfStage
  <2>. QED  BY <2>1, FS_Subset, FS_CardinalityType DEF Placed, ShotsOf
<1>2. SUFFICES ASSUME NEW o \in r.officials
               PROVE  o.n \in Int /\ o.n <= k.base[s] + ShotsOf(r, s)
      BY <1>1
<1>3. PICK t \in k.match : t = o.stage
      BY DEF Placed
<1>4. o.n \in Int /\ t \in Int /\ s \in Int /\ r.stage \in Int /\ t <= r.stage
      BY <1>3 DEF Journals, Placed, IsCourse
<1>5. o.n \in NumbersOf(r, t)
      BY <1>3 DEF NumbersOf, OfStage
<1>6. PICK b \in Nat, m \in Nat : b = k.base[t] /\ m = ShotsOf(r, t)
      BY <1>1 DEF IsCourse
<1>7. o.n <= b + m
  <2>1. o.n \in b + 1 .. b + m
        BY <1>5, <1>6 DEF Ranked
  <2>. QED  BY <1>4, <2>1
<1>8. CASE t = s
      BY <1>4, <1>6, <1>7, <1>8
<1>9. CASE t # s
  <2>1. t < s
        BY <1>4, <1>9
  <2>2. PICK limit \in Nat, top \in Nat, n \in Nat :
            limit = k.limit[t] /\ top = k.base[s] /\ n = ShotsOf(r, s)
        BY <1>1 DEF IsCourse
  <2>3. b + limit <= top /\ m <= limit
        BY <1>6, <2>1, <2>2 DEF IsCourse, Ranked
  <2>4. o.n <= top + n
        BY <1>4, <1>7, <2>2, <2>3
  <2>. QED  BY <1>4, <2>2, <2>4
<1>. QED  BY <1>8, <1>9

LEMMA Range10 ==
    ASSUME NEW from, NEW whole, NEW S \in SUBSET F10!Commanded, NEW c,
           Steady(Course10, from, whole, S, c), NEW s \in F10!Commanded, s \notin S,
           NEW shots \in Nat, ~Written(c).refused => shots = ShotsOf(Written(c), s),
           NEW d, d = MissingRange(c, F10!StageShotNumberBase(s), shots, F10!StageShotLimit(s))
    PROVE  Step(Course10, from, whole, S \cup {s}, c, d, c.window, c.mode)
<1>1. s \in Course10.match /\ S \in SUBSET Course10.match
      BY DEF Course10
<1>2. Course10.base[s] = F10!StageShotNumberBase(s) /\ Course10.limit[s] = F10!StageShotLimit(s)
      BY DEF Course10
<1>3. d = MissingRange(c, Course10.base[s], shots, Course10.limit[s])
      BY <1>2
<1>4. Steady(Course10, from, whole, S \cup {s}, d) /\ Alike(c, d) /\ Beside(c, d)
      BY <1>1, <1>3, CourseOf10, MissingSteady
<1>. QED  BY <1>4 DEF Step, Keeps, Alike

LEMMA AtMostLimit10 ==
    ASSUME NEW r, Ranked(Course10, r), NEW s \in F10!Commanded
    PROVE  ShotsOf(r, s) <= F10!StageShotLimit(s)
<1>1. s \in Course10.match /\ Course10.limit[s] = F10!StageShotLimit(s)
      BY DEF Course10
<1>. QED  BY <1>1 DEF Ranked

\* The verdict of recordMissingShots.
LEMMA Verdict10 ==
    ASSUME NEW from, NEW whole, NEW S \in SUBSET F10!Commanded, NEW c,
           Steady(Course10, from, whole, S, c), NEW s \in S,
           NEW shots \in Nat, ~Written(c).refused => shots = ShotsOf(Written(c), s),
           NEW v \in Statuses,
           v = IF shots >= F10!StageShotLimit(s) THEN "Complete" ELSE "Incomplete",
           NEW d, d = SetStageStatus(c, s, v)
    PROVE  Step(Course10, from, whole, S, c, d, c.window, c.mode)
<1>1. s \in Course10.match /\ s \in Course10.stages /\ Course10.limit[s] = F10!StageShotLimit(s)
      BY CourseOf10 DEF Course10, IsCourse
<1>2. PICK limit \in Nat : limit = F10!StageShotLimit(s)
      BY LimitsOf10
<1>3. ASSUME ~Written(c).refused
      PROVE  /\ v = "Complete" => ShotsOf(Written(c), s) = Course10.limit[s]
             /\ v = "Incomplete" => ShotsOf(Written(c), s) # Course10.limit[s]
  <2>1. Ranked(Course10, Written(c))
        BY <1>3 DEF Steady, Counted
  <2>2. shots = ShotsOf(Written(c), s) /\ shots <= limit
        BY <1>2, <1>3, <2>1, AtMostLimit10
  <2>3. CASE shots >= limit
        BY <1>1, <1>2, <2>2, <2>3
  <2>4. CASE ~(shots >= limit)
        BY <1>1, <1>2, <2>2, <2>4
  <2>. QED  BY <2>3, <2>4
<1>. QED  BY <1>1, <1>3, CourseOf10, StatusStep

\* emitCheckpointIfDue.
LEMMA CheckpointDue10 ==
    ASSUME NEW from, NEW whole, NEW S, NEW c, Steady(Course10, from, whole, S, c),
           NEW s \in F10!Commanded, c.stage = s, Written(c).stage = s,
           Tally10(c, Written(c)),
           ~Written(c).refused => Below(c, Start10(s) + F10!StageShotLimit(s)),
           NEW d, d = F10!EmitCheckpointIfDue(c)
    PROVE  /\ Steady(Course10, from, whole, S, d) /\ Beside(c, d)
           /\ Tally10(d, Written(d))
           /\ ~Written(d).refused => Below(d, Start10(s) + F10!StageShotLimit(s))
<1>1. PICK n : n = F10!StageShotNumberBase(s) + 1
      OBVIOUS
<1>2. CASE s < F10!Single1 \/ n \notin Checkpoints
  <2>1. d = c
        BY <1>1, <1>2 DEF F10!EmitCheckpointIfDue
  <2>. QED  BY <2>1 DEF Beside
<1>3. CASE ~(s < F10!Single1 \/ n \notin Checkpoints)
  <2>. DEFINE a == IssueCommand(c)
              mark == [n |-> n, total |-> c.count]
  <2>1. d = [a EXCEPT !.checkpoints = a.checkpoints \cup {mark}]
    <3>1. F10!IssueCommand(c) = a
          BY SameHelpers10
    <3>2. d = [F10!IssueCommand(c) EXCEPT !.checkpoints = @ \cup {mark}]
          BY <1>1, <1>3, Zenon DEF F10!EmitCheckpointIfDue
    <3>. HIDE DEF a, mark
    <3>. QED  BY <3>1, <3>2, Zenon
  <2>2. Steady(Course10, from, whole, S, a) /\ Alike(c, a) /\ Beside(c, a)
        BY CommandSteady
  <2>. HIDE DEF a
  <2>3. n \in Int /\ c.count \in Int /\ a \in Controllers(Course10.stages)
        /\ c \in Controllers(Course10.stages)
    <3>1. c \in Controllers(Course10.stages) /\ a \in Controllers(Course10.stages)
          BY <2>2 DEF Steady, Handling
    <3>2. n \in Int
          BY <1>1, LimitsOf10
    <3>. QED  BY <3>1, <3>2 DEF Controllers
  <2>4. mark \in [n : Int, total : Int] /\ mark.n = n /\ mark.total = c.count
        BY <2>3
  <2>. HIDE DEF mark
  <2>5. d \in Controllers(Course10.stages) /\ d.out = a.out /\ d.status = a.status
        /\ d.checkpoints = c.checkpoints \cup {mark} /\ d.count = c.count
    <3>1. a.checkpoints = c.checkpoints /\ a.count = c.count
          BY <2>2 DEF Alike
    <3>2. PICK marks \in SUBSET [n : Int, total : Int] : marks = a.checkpoints \cup {mark}
          BY <2>3, <2>4 DEF Controllers
    <3>3. d = [a EXCEPT !.checkpoints = marks]
          BY <2>1, <3>2
    <3>4. d \in Controllers(Course10.stages) /\ d.out = a.out /\ d.status = a.status
          /\ d.checkpoints = marks /\ d.count = a.count
          BY <2>3, <3>2, <3>3 DEF Controllers
    <3>. QED  BY <3>1, <3>2, <3>4
  <2>6. Steady(Course10, from, whole, S, d) /\ Beside(a, d)
        BY <2>2, <2>5, AdjustedSteady
  <2>7. Beside(c, d)
        BY <2>2, <2>6 DEF Beside
  <2>8. ASSUME ~Written(d).refused
        PROVE  Tally10(d, Written(d)) /\ Below(d, Start10(s) + F10!StageShotLimit(s))
    <3>1. PICK r \in Journals(Course10.stages) : r = Written(c)
          BY DEF Steady, Handling, Told
    <3>2. ~r.refused /\ Written(d).officials = r.officials /\ r.stage = s
          BY <2>7, <2>8, <3>1 DEF Beside
    <3>3. Placed(Course10, r) /\ Ranked(Course10, r)
          BY <3>1, <3>2 DEF Steady, Handling, Told, Counted
    <3>4. s \in Course10.match /\ Course10.base[s] = F10!StageShotNumberBase(s) /\ s \in Int
          BY StagesOf10 DEF Course10
    <3>5. PICK b \in Nat : b = F10!StageShotNumberBase(s)
          BY LimitsOf10
    <3>6. F10!StageShotLimit(s) = 1 /\ Start10(s) = b
          BY <1>3, <3>4, <3>5, StagesOf10 DEF F10!StageShotLimit, F10!IsSeries, Start10
    <3>7. PICK shots \in Nat : shots = ShotsOf(r, s) /\ shots <= 1
          BY <3>1, <3>2, <3>3, <3>4, <3>6, CourseOf10, NumbersBounded, AtMostLimit10
    <3>8. \A o \in r.officials : o.n \in Int /\ o.n <= b + shots
      <4>1. r.stage <= s
            BY <3>2, <3>4
      <4>. QED  BY <3>3, <3>4, <3>5, <3>7, <4>1, CourseOf10, NumbersBounded
    <3>9. {o \in r.officials : o.n <= n} = r.officials
          BY <1>1, <3>5, <3>7, <3>8
    <3>10. mark.total = Cardinality({o \in r.officials : o.n <= mark.n})
           BY <2>4, <3>1, <3>2, <3>9 DEF Tally10
    <3>11. Tally10(d, Written(d))
           BY <2>5, <3>1, <3>2, <3>10 DEF Tally10
    <3>12. \A p \in c.checkpoints : p.n <= b + 1
           BY <3>1, <3>2, <3>6 DEF Below
    <3>13. mark.n <= b + 1
           BY <1>1, <2>4, <3>5
    <3>. QED  BY <2>5, <3>6, <3>11, <3>12, <3>13 DEF Below
  <2>. QED  BY <2>6, <2>7, <2>8 DEF Tally10
<1>. QED  BY <1>2, <1>3

\* advanceAfterCommandStage.
LEMMA Advance10 ==
    ASSUME NEW from, NEW whole, NEW c, NEW s \in 2 .. 3 + Singles10m, NEW S,
           S = PassedAt(Course10, s + 1), Steady(Course10, from, whole, S, c),
           c.stage = s, Written(c).stage = s, Tally10(c, Written(c)),
           ~Written(c).refused => Below(c, Start10(s) + F10!StageShotLimit(s)),
           NEW d, d = F10!AdvanceAfterCommandStage(c)
    PROVE  Done10(from, whole, d)
<1>1. PICK a : a = F10!EmitCheckpointIfDue(c)
      OBVIOUS
<1>2. s \in F10!Commanded /\ s \in Int
      BY StagesOf10
<1>3. /\ Steady(Course10, from, whole, S, a) /\ Beside(c, a) /\ Tally10(a, Written(a))
      /\ ~Written(a).refused => Below(a, Start10(s) + F10!StageShotLimit(s))
      BY <1>1, <1>2, CheckpointDue10
<1>4. PICK t : t = s + 1
      OBVIOUS
<1>5. t \in 0 .. 4 + Singles10m /\ s < t
      BY <1>2, <1>4, StagesOf10
<1>6. Written(a).stage < t
      BY <1>3, <1>5 DEF Beside
<1>7. ASSUME t < 4 + Singles10m, ~Written(a).refused PROVE Below(a, Start10(t))
  <2>1. t \in F10!Commanded
        BY <1>4, <1>7, StagesOf10
  <2>2. PICK b \in Nat, limit \in Nat, top \in Nat :
            /\ b = F10!StageShotNumberBase(s) /\ limit = F10!StageShotLimit(s)
            /\ top = F10!StageShotNumberBase(t)
        BY <1>2, <2>1, LimitsOf10
  <2>3. b + limit <= top
        BY <1>2, <1>5, <2>1, <2>2, LimitsOf10
  <2>4. Start10(s) = b /\ Start10(t) = top
        BY <1>2, <2>1, <2>2 DEF Start10
  <2>5. \A p \in a.checkpoints : p.n \in Int /\ p.n <= b + limit
        BY <1>3, <1>7, <2>2, <2>4 DEF Below, Steady, Handling, Controllers
  <2>. QED  BY <2>3, <2>4, <2>5 DEF Below
<1>8. d = F10!EnterStageAs(a, t, "Full")
      BY <1>1, <1>4 DEF F10!AdvanceAfterCommandStage, F10!EnterStage
<1>. QED  BY <1>3, <1>4, <1>5, <1>6, <1>7, <1>8, EnterStage10

LEMMA CommandExpired10 ==
    ASSUME FinalInv10, F10!CommandExpired
    PROVE  FinalInv10' /\ Follows(Course10, rec, rec')
<1>1. /\ up = "live" /\ F10!Running(ctl) /\ fired' = fired /\ ctl.stage \in 2 .. 3 + Singles10m
      BY StagesOf10 DEF F10!CommandExpired, F10!Due, F10!Ticking
<1>2. PICK s \in 2 .. 3 + Singles10m : s = ctl.stage
      BY <1>1
<1>3. PICK v \in Statuses :
         v = IF ctl.shots >= F10!StageShotLimit(s) THEN "Complete" ELSE "Incomplete"
      BY DEF Statuses, Verdicts
<1>. DEFINE S == PassedAt(Course10, s)
            T == PassedAt(Course10, s + 1)
            a == MissingRange(ctl, F10!StageShotNumberBase(s), ctl.shots, F10!StageShotLimit(s))
            b == SetStageStatus(a, s, v)
            e == CloseWindowAndStop(b)
<1>4. T = S \cup {s} /\ s \notin S /\ S \in SUBSET F10!Commanded /\ s \in F10!Commanded
      BY PassedAt10, StagesOf10 DEF PassedAt, Course10
<1>5. /\ Steady(Course10, rec, ~hist.cut, S, ctl) /\ Written(ctl) = rec /\ ctl.shots \in Nat
      /\ ~rec.refused => ctl.shots = ShotsOf(rec, s) /\ Below(ctl, Top10(ctl))
      /\ Tally10(ctl, Written(ctl)) /\ rec.stage = s
      BY <1>1, <1>2, <1>4, InRunning10
<1>6. F10!HandlesAt(F10!AdvanceAfterCommandStage(e), 0)
      BY <1>2, <1>3, SameHelpers10 DEF F10!CommandExpired, F10!Handles, F10!RecordMissingShots
<1>7. ~rec.refused => Below(ctl, Start10(s) + F10!StageShotLimit(s))
  <2>1. SUFFICES ASSUME ~rec.refused, NEW p \in ctl.checkpoints
                 PROVE  p.n <= Start10(s) + F10!StageShotLimit(s)
        BY DEF Below
  <2>2. Ranked(Course10, rec)
        BY <1>5, <2>1 DEF Steady, Counted
  <2>3. PICK bs \in Nat, limit \in Nat : bs = Start10(s) /\ limit = F10!StageShotLimit(s)
        BY <1>4, LimitsOf10 DEF Start10
  <2>4. ctl.shots <= limit /\ p.n <= bs + ctl.shots /\ p.n \in Int
        BY <1>2, <1>4, <1>5, <2>1, <2>2, <2>3, AtMostLimit10
        DEF Below, Top10, FinalInv10, Sound, Controllers
  <2>. QED  BY <1>5, <2>3, <2>4
<1>. HIDE DEF S, T
<1>8. Step(Course10, rec, ~hist.cut, T, ctl, a, ctl.window, ctl.mode)
      BY <1>4, <1>5, Range10
<1>. HIDE DEF a
<1>9. Steady(Course10, rec, ~hist.cut, T, a) /\ Keeps(ctl, a)
      BY <1>8 DEF Step
<1>10. ~Written(a).refused => ctl.shots = ShotsOf(Written(a), s)
       BY <1>5, <1>9, SameShots DEF Keeps, Beside
<1>11. Step(Course10, rec, ~hist.cut, T, a, b, a.window, a.mode)
  <2>1. T \in SUBSET F10!Commanded /\ s \in T
        BY <1>4
  <2>2. PICK shots \in Nat : shots = ctl.shots
        BY <1>5
  <2>. QED  BY <1>3, <1>9, <1>10, <2>1, <2>2, Verdict10
<1>. HIDE DEF b
<1>12. Steady(Course10, rec, ~hist.cut, T, b)
       BY <1>11 DEF Step
<1>13. Step(Course10, rec, ~hist.cut, T, b, e, "Closed", b.mode)
       BY <1>12, StopStep
<1>. HIDE DEF e
<1>14. Step(Course10, rec, ~hist.cut, T, ctl, e, "Closed", b.mode)
       BY <1>8, <1>11, <1>13, StepsFollow
<1>15. /\ Steady(Course10, rec, ~hist.cut, T, e) /\ Keeps(ctl, e)
       /\ Written(e).stage = s /\ e.stage = s /\ Written(e).refused = rec.refused
       /\ e.checkpoints = ctl.checkpoints
       BY <1>2, <1>5, <1>14 DEF Step, Keeps, Beside
<1>16. Tally10(e, Written(e))
       BY <1>5, <1>15, TallyKept10
<1>17. ~Written(e).refused => Below(e, Start10(s) + F10!StageShotLimit(s))
       BY <1>7, <1>15 DEF Below
<1>18. PICK d : d = F10!AdvanceAfterCommandStage(e)
       OBVIOUS
<1>19. Done10(rec, ~hist.cut, d)
       BY <1>15, <1>16, <1>17, <1>18, Advance10 DEF T
<1>. QED  BY <1>1, <1>6, <1>18, <1>19, InRunning10, Handled10
\* The shot is counted, in its stage and in all.
CountsShot10(c, d) ==
    /\ d.out = c.out /\ d.status = c.status /\ d.checkpoints = c.checkpoints
    /\ d.stage = c.stage /\ d.window = c.window /\ d.mode = c.mode
    /\ d.shots = c.shots + 1 /\ d.count = c.count + 1

\* acceptShot of an official, up to its event.
LEMMA ShotCounted10 ==
    ASSUME FinalInv10, up = "live", F10!Running(ctl), NEW s \in 2 .. 3 + Singles10m,
           s = ctl.stage, ctl.shots < F10!StageShotLimit(s), NEW ext \in Int,
           NEW full, Fills(Course10, s, ctl.shots, full),
           NEW c \in Controllers(Course10.stages), CountsShot10(ctl, c),
           NEW j, j = Judged(c, s, full),
           NEW d, d = Emit(j, Accepted(F10!StageShotNumberBase(s) + c.shots, ext, s)),
           NEW S, S = PassedAt(Course10, s)
    PROVE  /\ Steady(Course10, rec, ~hist.cut, S, d)
           /\ Steady(Course10, rec, ~hist.cut, OverWith(S, s, full), d)
           /\ d.stage = s /\ d.window = ctl.window /\ d.mode = ctl.mode
           /\ Written(d).stage = s /\ Tally10(d, Written(d))
           /\ ~Written(d).refused =>
                 /\ d.shots = ShotsOf(Written(d), s) /\ Below(d, Top10(d))
                 /\ Below(d, Start10(s) + F10!StageShotLimit(s))
<1>. s \in F10!Commanded
     BY StagesOf10
<1>1. /\ Steady(Course10, rec, ~hist.cut, S, ctl) /\ Written(ctl) = rec /\ ctl.shots \in Nat
      /\ (~rec.refused => ctl.shots = ShotsOf(rec, s) /\ Below(ctl, Top10(ctl)))
      /\ Tally10(ctl, Written(ctl)) /\ rec.stage = s
      BY InRunning10
<1>4. Steady(Course10, rec, ~hist.cut, S, c) /\ Beside(ctl, c)
      BY <1>1, AdjustedSteady DEF CountsShot10
<1>5. Written(c).stage = s /\ Written(c).officials = rec.officials
      /\ Written(c).refused = rec.refused
      BY <1>1, <1>4 DEF Beside
<1>6. ~Written(c).refused => ctl.shots = ShotsOf(Written(c), s)
      BY <1>1, <1>5, SameShots
<1>7. s \in Course10.match /\ s \notin S
      BY PassedAt10 DEF Course10
<1>8. Course10.limit[s] = F10!StageShotLimit(s) /\ Course10.base[s] = F10!StageShotNumberBase(s)
      BY DEF Course10
<1>9. PICK shots \in Nat : shots = ctl.shots
      BY <1>1
<1>10. PICK base \in Nat, limit \in Nat :
          base = F10!StageShotNumberBase(s) /\ limit = F10!StageShotLimit(s)
       BY LimitsOf10
<1>11. PICK n \in Int : n = base + (shots + 1)
       OBVIOUS
<1>12. d = Emit(j, Accepted(n, ext, s)) /\ n = Course10.base[s] + (shots + 1)
       BY <1>8, <1>9, <1>10, <1>11 DEF CountsShot10
<1>13. shots < Course10.limit[s] /\ Fills(Course10, s, shots, full)
       BY <1>8, <1>9
<1>. DEFINE shot == [n |-> n, ext |-> ext, stage |-> s]
<1>14. /\ Steady(Course10, rec, ~hist.cut, S, d)
       /\ Steady(Course10, rec, ~hist.cut, OverWith(S, s, full), d)
       /\ Unmoved(c, d)
       /\ Written(d).stage = Written(c).stage
       /\ ~Written(d).refused =>
              ~Written(c).refused /\ AddsShot(Written(c), Written(d), shot)
  <2>1. ~Written(c).refused => shots = ShotsOf(Written(c), s)
        BY <1>6, <1>9
  <2>2. PICK k, from, whole : k = Course10 /\ from = rec /\ whole = ~hist.cut
        OBVIOUS
  <2>3. /\ IsCourse(k) /\ Steady(k, from, whole, S, c) /\ s \in k.match /\ s \notin S
        /\ Written(c).stage = s /\ shots < k.limit[s] /\ Fills(k, s, shots, full)
        /\ n = k.base[s] + (shots + 1)
        BY <1>4, <1>5, <1>7, <1>12, <1>13, <2>2, CourseOf10
  <2>4. /\ Steady(k, from, whole, S, d)
        /\ Steady(k, from, whole, OverWith(S, s, full), d)
        /\ Unmoved(c, d)
        /\ Written(d).stage = Written(c).stage
        /\ ~Written(d).refused =>
               ~Written(c).refused /\ AddsShot(Written(c), Written(d), shot)
        BY <1>9, <1>11, <1>12, <2>1, <2>3, ShotSteady
  <2>. QED  BY <2>2, <2>4
<1>15. /\ d.stage = s /\ d.window = ctl.window /\ d.mode = ctl.mode /\ d.shots = shots + 1
       /\ d.count = ctl.count + 1 /\ d.checkpoints = ctl.checkpoints
       BY <1>9, <1>14 DEF Unmoved, CountsShot10
<1>16. ASSUME ~Written(d).refused
       PROVE  /\ d.shots = ShotsOf(Written(d), s) /\ d.count = Cardinality(Written(d).officials)
              /\ Below(d, Top10(d)) /\ Below(d, Start10(s) + F10!StageShotLimit(s))
              /\ \A p \in d.checkpoints :
                    p.total = Cardinality({o \in Written(d).officials : o.n <= p.n})
  <2>1. shot.stage = s /\ shot.n = n
        OBVIOUS
  <2>. HIDE DEF shot
  <2>2. ~rec.refused /\ AddsShot(Written(c), Written(d), shot)
        BY <1>5, <1>14, <1>16
  <2>3. \A t : ShotsOf(Written(c), t) = ShotsOf(rec, t)
        BY <1>5, SameShots
  <2>4. ctl.count = Cardinality(rec.officials) /\ shots = ShotsOf(rec, s)
        /\ Below(ctl, Top10(ctl))
        BY <1>1, <1>9, <2>2 DEF Tally10
  <2>5. d.shots = ShotsOf(Written(d), s)
        BY <1>15, <2>1, <2>2, <2>3, <2>4 DEF AddsShot
  <2>6. d.count = Cardinality(Written(d).officials)
        BY <1>5, <1>15, <2>2, <2>4 DEF AddsShot
  <2>7. Start10(s) = base /\ Top10(ctl) = base + shots /\ Top10(d) = base + (shots + 1)
        BY <1>9, <1>10, <1>15 DEF Start10, Top10
  <2>8. \A p \in d.checkpoints : p.n \in Int /\ p.n <= base + shots
    <3>1. ctl.checkpoints \subseteq [n : Int, total : Int]
          BY DEF FinalInv10, Sound, Controllers
    <3>2. \A p \in ctl.checkpoints : p.n <= base + shots
          BY <2>4, <2>7 DEF Below
    <3>3. \A p \in ctl.checkpoints : p.n \in Int
          BY <3>1
    <3>. QED  BY <1>15, <3>2, <3>3
  <2>9. Below(d, Top10(d)) /\ Below(d, Start10(s) + F10!StageShotLimit(s))
    <3>1. shots < limit
          BY <1>9, <1>10
    <3>. QED  BY <1>10, <2>7, <2>8, <3>1 DEF Below
  <2>10. ASSUME NEW p \in d.checkpoints
         PROVE  p.total = Cardinality({o \in Written(d).officials : o.n <= p.n})
    <3>1. p.total = Cardinality({o \in rec.officials : o.n <= p.n})
          BY <1>1, <1>15, <2>2, <2>10 DEF Tally10
    <3>2. ~(n <= p.n)
          BY <1>11, <2>8, <2>10
    <3>3. Written(d).officials = rec.officials \cup {shot}
          BY <1>5, <2>2 DEF AddsShot
    <3>4. {o \in Written(d).officials : o.n <= p.n} = {o \in rec.officials : o.n <= p.n}
          BY <2>1, <3>2, <3>3
    <3>. QED  BY <3>1, <3>4
  <2>. QED  BY <2>5, <2>6, <2>9, <2>10
<1>17. Tally10(d, Written(d))
       BY <1>16 DEF Tally10
<1>. QED  BY <1>5, <1>14, <1>15, <1>16, <1>17

LEMMA RegisterOfficial10 ==
    ASSUME FinalInv10, F10!RegisterOfficial
    PROVE  FinalInv10' /\ Follows(Course10, rec, rec')
<1>1. /\ up = "live" /\ F10!Running(ctl) /\ fired' = fired + 1 /\ ctl.window = "MatchOpen"
      /\ ctl.shots < F10!StageShotLimit(ctl.stage)
      /\ F10!HandlesAt(F10!AcceptOfficial(ctl, fired + 1), 0)
      BY DEF F10!RegisterOfficial, F10!Detected, F10!Admits, F10!Handles
<1>2. /\ ctl.stage \in 2 .. 3 + Singles10m /\ ctl.mode = "Match" /\ ctl.shots \in Nat
      /\ fired \in Nat /\ hist \in Histories
      BY <1>1, InRunning10, StagesOf10 DEF Stands10
<1>3. ctl.count \in Nat
      BY DEF FinalInv10, Sound, Controllers
<1>4. PICK s \in 2 .. 3 + Singles10m : s = ctl.stage
      BY <1>2
<1>5. PICK limit \in Nat : limit = F10!StageShotLimit(s)
  <2>1. s \in F10!Commanded
        BY StagesOf10
  <2>. QED  BY <2>1, LimitsOf10
<1>6. PICK ext \in Int : ext = fired + 1
      BY <1>2
<1>7. PICK full \in BOOLEAN : full <=> ctl.shots + 1 >= limit
      OBVIOUS
<1>8. ctl \in Controllers(Course10.stages)
      BY DEF FinalInv10, Sound
<1>9. PICK c : c = [ctl EXCEPT !.shots = @ + 1, !.count = @ + 1]
      OBVIOUS
<1>10. c \in Controllers(Course10.stages) /\ CountsShot10(ctl, c) /\ c.shots = ctl.shots + 1
  <2>1. PICK x \in Nat, y \in Nat : x = ctl.shots + 1 /\ y = ctl.count + 1
        BY <1>2, <1>3
  <2>2. c = [ctl EXCEPT !.shots = x, !.count = y]
        BY <1>9, <2>1
  <2>3. c \in Controllers(Course10.stages) /\ c.shots = x /\ c.count = y
        /\ c.checkpoints = ctl.checkpoints /\ c.out = ctl.out /\ c.status = ctl.status
        /\ c.stage = ctl.stage /\ c.window = ctl.window /\ c.mode = ctl.mode
        BY <1>8, <2>1, <2>2 DEF Controllers
  <2>. QED  BY <2>1, <2>3 DEF CountsShot10
<1>11. PICK j : j = Judged(c, s, full)
       OBVIOUS
<1>12. PICK d : d = Emit(j, Accepted(F10!StageShotNumberBase(s) + c.shots, ext, s))
       OBVIOUS
<1>13. PICK S : S = PassedAt(Course10, s)
       OBVIOUS
<1>14. /\ Steady(Course10, rec, ~hist.cut, S, d)
       /\ Steady(Course10, rec, ~hist.cut, OverWith(S, s, full), d)
       /\ d.stage = s /\ d.window = ctl.window /\ d.mode = ctl.mode
       /\ Written(d).stage = s /\ Tally10(d, Written(d))
       /\ ~Written(d).refused =>
             /\ d.shots = ShotsOf(Written(d), s) /\ Below(d, Top10(d))
             /\ Below(d, Start10(s) + F10!StageShotLimit(s))
  <2>1. ctl.shots < F10!StageShotLimit(s) /\ Fills(Course10, s, ctl.shots, full)
        BY <1>1, <1>4, <1>5, <1>7, StagesOf10 DEF Fills, Course10
  <2>. QED  BY <1>1, <1>4, <1>6, <1>7, <1>10, <1>11, <1>12, <1>13, <2>1, ShotCounted10
<1>. DEFINE final == IF full THEN F10!AdvanceAfterCommandStage(CloseWindowAndStop(d)) ELSE d
<1>17. F10!AcceptOfficial(ctl, fired + 1) = final
  <2>1. (c.shots >= F10!StageShotLimit(s)) <=> full
        BY <1>5, <1>7, <1>10
  <2>. QED  BY <1>4, <1>6, <1>9, <1>11, <1>12, <2>1, SameHelpers10 DEF F10!AcceptOfficial, Judged
<1>18. Done10(rec, ~hist.cut, final)
  <2>1. CASE full
    <3>. DEFINE e == CloseWindowAndStop(d)
                T == S \cup {s}
    <3>1. T = PassedAt(Course10, s + 1)
          BY <1>13, PassedAt10
    <3>2. Steady(Course10, rec, ~hist.cut, T, d)
          BY <1>14, <2>1 DEF OverWith
    <3>. HIDE DEF T
    <3>3. Step(Course10, rec, ~hist.cut, T, d, e, "Closed", d.mode)
          BY <3>2, StopStep
    <3>4. final = F10!AdvanceAfterCommandStage(e)
          BY <2>1
    <3>. HIDE DEF e
    <3>5. /\ Steady(Course10, rec, ~hist.cut, T, e) /\ Keeps(d, e) /\ e.stage = s
          /\ Written(e).stage = s /\ Written(e).refused = Written(d).refused
          /\ e.checkpoints = d.checkpoints
          BY <1>14, <3>3 DEF Step, Keeps, Beside
    <3>6. Tally10(e, Written(e))
          BY <1>14, <3>5, TallyKept10
    <3>7. ~Written(e).refused => Below(e, Start10(s) + F10!StageShotLimit(s))
          BY <1>14, <3>5 DEF Below
    <3>8. PICK f : f = F10!AdvanceAfterCommandStage(e)
          OBVIOUS
    <3>9. Done10(rec, ~hist.cut, f)
          BY <3>1, <3>5, <3>6, <3>7, <3>8, Advance10
    <3>. QED  BY <3>4, <3>8, <3>9
  <2>2. CASE ~full
    <3>1. final = d
          BY <2>2
    <3>2. Settled(Course10, rec, ~hist.cut, d)
          BY <1>13, <1>14, SteadyIsSettled
    <3>3. Stands10(d, Written(d))
      <4>1. Written(d).life = "Active" /\ d.window = "MatchOpen" /\ d.mode = "Match"
            BY <1>1, <1>2, <1>14 DEF Steady
      <4>2. Written(d).stage <= d.stage /\ d.stage \in F10!Commanded
            BY <1>14, StagesOf10
      <4>. QED  BY <1>14, <4>1, <4>2 DEF Stands10
    <3>. QED  BY <3>1, <3>2, <3>3 DEF Done10
  <2>. QED  BY <2>1, <2>2
<1>19. fired' \in Nat
       BY <1>1, <1>2
<1>. QED  BY <1>1, <1>17, <1>18, <1>19, Handled10
-----------------------------------------------------------------------------
(* What is not a handler.                                                  *)

LEMMA Fresh10 ==
    /\ PassedAt(Course10, -1) = {} /\ -1 < Course10.end
    /\ -1 \in Course10.stages /\ "None" \in Course10.phases[-1]
<1>1. PassedAt(Course10, -1) = {}
  <2>1. -1 \in Int /\ -1 <= 2
        OBVIOUS
  <2>. QED  BY <2>1, PassedAt10
<1>2. Course10.end = 4 + Singles10m /\ Course10.stages = -1 .. 5 + Singles10m
      BY StagesOf10 DEF Course10
<1>3. -1 \in F10!Stages /\ -1 \notin F10!Commanded
      BY StagesOf10
<1>4. Course10.phases[-1] = Phases
      BY <1>3 DEF Course10
<1>. QED  BY <1>1, <1>2, <1>4, StagesOf10 DEF Phases

LEMMA StartFinal10 ==
    ASSUME FinalInv10, F10!StartFinal
    PROVE  FinalInv10'
<1>1. PICK ceremony, anchored :
         F10!Submits(F10!EnterStageAs([F10!NewCtl(F10!Stages) EXCEPT !.out = <<F10!NewRec(F10!Stages)>>],
                                      IF ceremony = "Skip" THEN F10!PrepSighting
                                      ELSE F10!Presentation, ceremony),
                     F10!NewHist, anchored, 0)
      BY DEF F10!StartFinal
<1>2. fired' = 0
      BY DEF F10!StartFinal
<1>3. PICK s \in {0, 1} : s = IF ceremony = "Skip" THEN F10!PrepSighting ELSE F10!Presentation
      BY StagesOf10
<1>4. PICK r : r = NewRec(Course10.stages)
      OBVIOUS
<1>5. PICK c : c = [NewCtl(Course10.stages) EXCEPT !.out = <<r>>]
      OBVIOUS
<1>6. PICK h \in Histories : h = NewHist
      BY DEF NewHist, Histories
<1>7. PICK d : d = F10!EnterStageAs(c, s, ceremony)
      OBVIOUS
<1>8. Submits(d, h, anchored, 0)
  <2>1. F10!NewHist = h
        BY <1>6 DEF F10!NewHist, NewHist
  <2>2. c = [F10!NewCtl(F10!Stages) EXCEPT !.out = <<F10!NewRec(F10!Stages)>>]
        BY <1>4, <1>5, SameHelpers10 DEF Course10
  <2>. QED  BY <1>1, <1>3, <1>7, <2>1, <2>2, SameSubmits10
<1>10. PICK S : S = {}
       OBVIOUS
<1>11. /\ Steady(Course10, r, ~h.cut, S, c) /\ Written(c) = r /\ c.count = 0
       /\ c.checkpoints = {}
       BY <1>4, <1>5, <1>10, Fresh10, CourseOf10, Starts
<1>12. r.stage = -1 /\ Cardinality(r.officials) = 0
       BY <1>4, Fresh10, CourseOf10, NewJournals
<1>13. Tally10(c, Written(c)) /\ Written(c).stage < s /\ Below(c, Start10(s))
       BY <1>3, <1>11, <1>12 DEF Tally10, Below
<1>14. S = PassedAt(Course10, s) /\ s \in 0 .. 4 + Singles10m
  <2>1. s \in Int /\ s <= 2
        BY <1>3
  <2>. QED  BY <1>3, <1>10, <2>1, PassedAt10, StagesOf10
<1>15. Done10(r, ~h.cut, d)
       BY <1>7, <1>11, <1>13, <1>14, EnterStage10
<1>. QED  BY <1>2, <1>6, <1>8, <1>15, SubmitsStands10

\* The checkpoints that come back are those of the shots in the journal.
LEMMA CheckpointsBack ==
    ASSUME NEW r \in Journals(Course10.stages), IsFiniteSet(r.officials),
           NEW marks, marks = F10!CheckpointsOf(r)
    PROVE  /\ marks \in SUBSET [n : Int, total : Int]
           /\ \A p \in marks : p.total = Cardinality({o \in r.officials : o.n <= p.n})
           /\ \A p \in marks : \E o \in r.officials : p.n = o.n
<1>1. SUFFICES ASSUME NEW p \in marks
               PROVE  /\ p \in [n : Int, total : Int]
                      /\ p.total = Cardinality({o \in r.officials : o.n <= p.n})
                      /\ \E o \in r.officials : p.n = o.n
      OBVIOUS
<1>2. PICK o \in r.officials :
         p = [n |-> o.n, total |-> F10!Cardinality({q \in r.officials : q.n <= o.n})]
      BY DEF F10!CheckpointsOf
<1>3. PICK lower : lower = {q \in r.officials : q.n <= o.n}
      OBVIOUS
<1>4. p = [n |-> o.n, total |-> Cardinality(lower)]
      BY <1>2, <1>3, SameSizes
<1>5. Cardinality(lower) \in Nat
  <2>1. IsFiniteSet(lower)
        BY <1>3, FS_Subset
  <2>. QED  BY <2>1, FS_CardinalityType
<1>6. o.n \in Int
      BY DEF Journals
<1>7. p \in [n : Int, total : Int] /\ p.n = o.n /\ p.total = Cardinality(lower)
      BY <1>4, <1>5, <1>6
<1>. QED  BY <1>3, <1>7

\* loadRecoveredState.
LEMMA Loaded10 ==
    ASSUME NEW r \in Journals(Course10.stages), Placed(Course10, r),
           NEW c, c = F10!LoadRecoveredState(r)
    PROVE  /\ c \in Controllers(Course10.stages) /\ c.out = << >> /\ c.status = r.status
           /\ c.stage = IF r.stage <= 1 THEN 1 ELSE r.stage
           /\ c.shots = ShotsOf(r, c.stage) /\ Tally10(c, r)
           /\ c.checkpoints = F10!CheckpointsOf(r)
           /\ c.window = "Closed" /\ c.mode = "Sighter"
<1>0. IsFiniteSet(r.officials)
      BY DEF Placed
<1>1. r.stage \in Int /\ r.status \in [Course10.stages -> Statuses]
      BY DEF Journals
<1>2. PICK s \in Int : s = IF r.stage <= 1 THEN 1 ELSE r.stage
      BY <1>1
<1>3. \A t : F10!OfficialsOf(r, t) = OfStage(r, t)
      BY DEF F10!OfficialsOf, OfStage
<1>4. ShotsOf(r, s) \in Nat
  <2>1. IsFiniteSet(OfStage(r, s))
        BY <1>0, FS_Subset DEF OfStage
  <2>. QED  BY <2>1, FS_CardinalityType DEF ShotsOf
<1>5. Cardinality(r.officials) \in Nat
      BY <1>0, FS_CardinalityType
<1>6. PICK shots \in Nat, count \in Nat :
         shots = ShotsOf(r, s) /\ count = Cardinality(r.officials)
      BY <1>4, <1>5
<1>7. shots = F10!Cardinality(F10!OfficialsOf(r, s)) /\ count = F10!Cardinality(r.officials)
      BY <1>3, <1>6, SameSizes DEF ShotsOf
<1>8. PICK status \in [Course10.stages -> Statuses] : status = r.status
      BY <1>1
<1>81. PICK marks \in SUBSET [n : Int, total : Int] : marks = F10!CheckpointsOf(r)
       BY <1>0, CheckpointsBack
<1>9. PICK n : n = NewCtl(Course10.stages)
      OBVIOUS
<1>10. n \in Controllers(Course10.stages) /\ n.out = << >> /\ n.window = "Closed"
       /\ n.mode = "Sighter"
       BY <1>9, NewControllers DEF NewCtl
<1>11. n = F10!NewCtl(F10!Stages)
       BY <1>9, SameHelpers10 DEF Course10
<1>12. c = [n EXCEPT !.stage = s, !.status = status, !.shots = shots, !.count = count,
                     !.checkpoints = marks]
  <2>1. s = F10!RecoveredStage(r)
        BY <1>2, StagesOf10 DEF F10!RecoveredStage
  <2>2. c = [F10!NewCtl(F10!Stages) EXCEPT !.stage = F10!RecoveredStage(r), !.status = r.status,
              !.shots = F10!Cardinality(F10!OfficialsOf(r, F10!RecoveredStage(r))),
              !.count = F10!Cardinality(r.officials),
              !.checkpoints = F10!CheckpointsOf(r)]
        BY DEF F10!LoadRecoveredState
  <2>3. c = [n EXCEPT !.stage = F10!RecoveredStage(r), !.status = r.status,
              !.shots = F10!Cardinality(F10!OfficialsOf(r, F10!RecoveredStage(r))),
              !.count = F10!Cardinality(r.officials),
              !.checkpoints = F10!CheckpointsOf(r)]
        BY <1>11, <2>2
  <2>4. c = [n EXCEPT !.stage = s, !.status = r.status,
              !.shots = F10!Cardinality(F10!OfficialsOf(r, s)),
              !.count = F10!Cardinality(r.officials),
              !.checkpoints = F10!CheckpointsOf(r)]
        BY <2>1, <2>3
  <2>. QED  BY <1>7, <1>8, <1>81, <2>4
<1>13. /\ c \in Controllers(Course10.stages) /\ c.out = << >> /\ c.window = "Closed"
       /\ c.mode = "Sighter" /\ c.stage = s /\ c.status = status /\ c.shots = shots
       /\ c.count = count /\ c.checkpoints = marks
       BY <1>2, <1>6, <1>8, <1>81, <1>10, <1>12 DEF Controllers
<1>14. \A p \in marks : p.total = Cardinality({o \in r.officials : o.n <= p.n})
       BY <1>0, <1>81, CheckpointsBack
<1>. QED  BY <1>2, <1>6, <1>8, <1>81, <1>13, <1>14 DEF Tally10

\* restoreStageFiringState.
LEMMA Restored10 ==
    ASSUME NEW c \in Controllers(Course10.stages), c.window = "Closed", c.mode = "Sighter",
           c.stage = 1 \/ c.stage \in 2 .. 3 + Singles10m,
           NEW elapsed \in Nat, NEW d, d = F10!RestoreStageFiringState(c, elapsed)
    PROVE  /\ d \in Controllers(Course10.stages) /\ d.out = c.out /\ d.status = c.status
           /\ d.stage = c.stage /\ d.shots = c.shots /\ d.count = c.count
           /\ d.checkpoints = c.checkpoints
           /\ d.window = "MatchOpen" => c.stage \in F10!Commanded /\ d.mode = "Match"
           /\ d.window = "SightingOpen" => c.stage = F10!PrepSighting /\ d.mode = "Sighter"
<1>0. c \in Controllers(Course10.stages) /\ c.mode = "Sighter"
      OBVIOUS
<1>1. \A g \in Segments : F10!Rebased(elapsed, Durations[g]) \in Nat
      BY DurationsNat DEF F10!Rebased
<1>2. PICK prep \in Nat, window \in Nat :
         /\ prep = F10!Rebased(elapsed, Durations["Prep"])
         /\ window = F10!Rebased(elapsed, F10!WindowMs(c.stage))
      BY <1>1 DEF Segments, F10!WindowMs
<1>4. PICK w \in Windows, m \in {"Sighter", "Match"}, two \in Nat :
         w = "MatchOpen" /\ m = "Match" /\ two = 2
      BY DEF Windows
<1>5. CASE c.stage = 1
  <2>1. d = [c EXCEPT !.window = "SightingOpen", !.left = prep]
        BY <1>2, <1>5, StagesOf10 DEF F10!RestoreStageFiringState
  <2>2. /\ d \in Controllers(Course10.stages) /\ d.out = c.out /\ d.status = c.status
        /\ d.stage = c.stage /\ d.shots = c.shots /\ d.count = c.count
        /\ d.checkpoints = c.checkpoints /\ d.window = "SightingOpen" /\ d.mode = "Sighter"
        BY <1>0, <1>2, <2>1 DEF Controllers, Windows
  <2>. QED  BY <1>5, <2>2, StagesOf10
<1>6. CASE c.stage \in 2 .. 3 + Singles10m
  <2>1. d = [c EXCEPT !.window = w, !.mode = m, !.seqStep = two, !.left = window]
        BY <1>2, <1>4, <1>6, StagesOf10 DEF F10!RestoreStageFiringState
  <2>2. /\ d \in Controllers(Course10.stages) /\ d.out = c.out /\ d.status = c.status
        /\ d.stage = c.stage /\ d.shots = c.shots /\ d.count = c.count
        /\ d.checkpoints = c.checkpoints /\ d.window = "MatchOpen" /\ d.mode = "Match"
        BY <1>0, <1>2, <1>4, <2>1 DEF Controllers
  <2>. QED  BY <1>6, <2>2, StagesOf10
<1>. QED  BY <1>5, <1>6

LEMMA StandsSame10 ==
    ASSUME NEW c, NEW r, NEW q, Stands10(c, r), Same(r, q)
    PROVE  Stands10(c, q)
<1>1. \A s : ShotsOf(q, s) = ShotsOf(r, s)
      BY SameShots DEF Same
<1>. QED  BY <1>1 DEF Stands10, Tally10, Same

LEMMA StandsUnmoved10 ==
    ASSUME NEW c, NEW d, NEW r, Stands10(c, r), Unmoved(c, d)
    PROVE  Stands10(d, r)
<1>1. F10!Running(d) <=> F10!Running(c)
      BY StagesOf10 DEF Unmoved
<1>2. Below(c, Top10(c)) => Below(d, Top10(d))
      BY DEF Below, Top10, Unmoved
<1>3. Tally10(d, r)
      BY TallySame10 DEF Stands10, Unmoved
<1>. QED  BY <1>1, <1>2, <1>3 DEF Stands10, Unmoved

LEMMA PauseToggled10 ==
    ASSUME FinalInv10, F10!PauseToggled
    PROVE  FinalInv10' /\ Follows(Course10, rec, rec')
<1>1. /\ Sound(Course10) /\ up = "live" /\ up' = up /\ rec' = rec /\ fired' = fired
      /\ hist' = hist /\ ctl' = [ctl EXCEPT !.paused = ~@] /\ Stands10(ctl, rec)
      BY DEF FinalInv10, F10!PauseToggled
<1>2. /\ rec \in Journals(Course10.stages) /\ ctl \in Controllers(Course10.stages)
      /\ hist \in Histories /\ fired \in Nat /\ ctl.out = << >> /\ ctl.status = rec.status
      BY <1>1 DEF Sound, Told
<1>3. PICK p \in BOOLEAN : p = ~ctl.paused
      OBVIOUS
<1>4. ctl' = [ctl EXCEPT !.paused = p]
      BY <1>1, <1>3
<1>5. /\ ctl' \in Controllers(Course10.stages) /\ ctl'.out = << >>
      /\ ctl'.status = ctl.status /\ Unmoved(ctl, ctl')
      BY <1>2, <1>4 DEF Controllers, Unmoved
<1>6. Same(rec, rec')
      BY <1>1 DEF Same
<1>7. Sound(Course10)' /\ Follows(Course10, rec, rec')
      BY <1>1, <1>2, <1>5, <1>6, QuietSound
<1>8. Stands10(ctl', rec')
      BY <1>1, <1>5, StandsUnmoved10
<1>. QED  BY <1>7, <1>8 DEF FinalInv10

LEMMA Environment10 ==
    ASSUME FinalInv10, F10!TimePasses \/ F10!IncidentToggled \/ F10!Crash
    PROVE  FinalInv10' /\ Follows(Course10, rec, rec')
<1>1. Sound(Course10)
      BY DEF FinalInv10
<1>2. CASE F10!TimePasses \/ F10!IncidentToggled
  <2>1. TimePasses \/ IncidentToggled
        BY <1>2 DEF F10!TimePasses, F10!IncidentToggled, F10!Counts, F10!Stamped, F10!Troubles,
                    TimePasses, IncidentToggled, Counts, Stamped, Troubles
  <2>2. /\ Sound(Course10)' /\ Follows(Course10, rec, rec')
        /\ up = "live" /\ Same(rec, rec') /\ Unmoved(ctl, ctl')
        BY <1>1, <2>1, TimeQuiet, IncidentQuiet
  <2>3. Stands10(ctl', rec')
    <3>1. Stands10(ctl, rec)
          BY <2>2 DEF FinalInv10
    <3>2. Stands10(ctl, rec')
          BY <2>2, <3>1, StandsSame10
    <3>. QED  BY <2>2, <3>2, StandsUnmoved10
  <2>. QED  BY <2>2, <2>3 DEF FinalInv10
<1>3. CASE F10!Crash
  <2>1. Crash
        BY <1>3, SameHelpers10 DEF F10!Crash, F10!Down, F10!Troubles, Crash, Down, Troubles
  <2>2. Sound(Course10)' /\ Follows(Course10, rec, rec') /\ up' = "down"
        BY <1>1, <2>1, CrashQuiet
  <2>. QED  BY <2>2 DEF FinalInv10
<1>. QED  BY <1>2, <1>3
\* restoreFinals10m, resumeFromRecovery.
LEMMA Resume10 ==
    ASSUME FinalInv10, F10!Resume
    PROVE  FinalInv10' /\ Follows(Course10, rec, rec')
<1>1. /\ Sound(Course10) /\ rec.life = "Active" /\ up' = "live" /\ fired' = 0
      /\ rec' = F10!ResumedRec(rec) /\ hist' = F10!Stamped(hist, FALSE, 0)
      BY DEF FinalInv10, F10!Resume
<1>2. PICK elapsed \in F10!ElapsedAtResume(rec) :
         ctl' = F10!RestoreStageFiringState(F10!LoadRecoveredState(rec), elapsed)
      BY DEF F10!Resume, F10!Restored
<1>3. rec \in Journals(Course10.stages) /\ hist \in Histories /\ Placed(Course10, rec)
      /\ rec.stage \in Int
      BY <1>1 DEF Sound, Told, Journals
<1>4. elapsed \in Nat
  <2>1. rec.elapsed \in Nat /\ rec.anchor \in {"none", "fresh", "stale"}
        BY <1>3 DEF Journals
  <2>. QED  BY <1>2, <2>1 DEF F10!ElapsedAtResume
<1>5. PICK c : c = F10!LoadRecoveredState(rec)
      OBVIOUS
<1>6. /\ c \in Controllers(Course10.stages) /\ c.out = << >> /\ c.status = rec.status
      /\ c.stage = (IF rec.stage <= 1 THEN 1 ELSE rec.stage)
      /\ c.shots = ShotsOf(rec, c.stage) /\ Tally10(c, rec)
      /\ c.checkpoints = F10!CheckpointsOf(rec)
      /\ c.window = "Closed" /\ c.mode = "Sighter"
      BY <1>3, <1>5, Loaded10
<1>61. c.stage = 1 \/ c.stage \in 2 .. 3 + Singles10m
  <2>1. rec.stage < 4 + Singles10m
        BY <1>3, StagesOf10 DEF Placed, Course10
  <2>. QED  BY <1>3, <1>6, <2>1, StagesOf10
<1>7. PICK d : d = F10!RestoreStageFiringState(c, elapsed)
      OBVIOUS
<1>8. /\ d \in Controllers(Course10.stages) /\ d.out = c.out /\ d.status = c.status
      /\ d.stage = c.stage /\ d.shots = c.shots /\ d.count = c.count
      /\ d.checkpoints = c.checkpoints
      /\ d.window = "MatchOpen" => c.stage \in F10!Commanded /\ d.mode = "Match"
      /\ d.window = "SightingOpen" => c.stage = F10!PrepSighting /\ d.mode = "Sighter"
      BY <1>4, <1>6, <1>61, <1>7, Restored10
<1>9. ctl' = d
      BY <1>2, <1>5, <1>7
<1>10. rec' \in Journals(Course10.stages) /\ Same(rec, rec')
  <2>1. PICK anchor \in {"none", "fresh", "stale"} :
           anchor = IF rec.anchor = "none" THEN "none" ELSE "stale"
        OBVIOUS
  <2>2. PICK zero \in Nat : zero = 0
        OBVIOUS
  <2>3. rec' = [rec EXCEPT !.age = zero, !.elapsed = zero, !.anchor = anchor]
        BY <1>1, <2>1, <2>2 DEF F10!ResumedRec
  <2>. QED  BY <1>3, <2>1, <2>2, <2>3 DEF Journals, Same
<1>11. hist' \in Histories /\ hist'.cut = hist.cut
  <2>1. hist' = [hist EXCEPT !.exact = FALSE, !.left = 0]
        BY <1>1 DEF F10!Stamped
  <2>. QED  BY <1>3, <2>1 DEF Histories
<1>12. Sound(Course10)' /\ Follows(Course10, rec, rec')
  <2>1. ctl'.out = << >> /\ ctl'.status = rec'.status
        BY <1>6, <1>8, <1>9, <1>10 DEF Same
  <2>. QED  BY <1>1, <1>8, <1>9, <1>10, <1>11, <2>1, QuietSound
<1>13. ASSUME ~rec.refused PROVE Below(c, Top10(c))
  <2>1. \A p \in c.checkpoints : \E o \in rec.officials : p.n = o.n
    <3>1. IsFiniteSet(rec.officials)
          BY <1>3 DEF Placed
    <3>2. PICK marks : marks = F10!CheckpointsOf(rec)
          OBVIOUS
    <3>3. PICK r \in Journals(Course10.stages) : r = rec
          BY <1>3
    <3>4. IsFiniteSet(r.officials) /\ marks = F10!CheckpointsOf(r)
          BY <3>1, <3>2, <3>3
    <3>5. \A p \in marks : \E o \in r.officials : p.n = o.n
          BY <3>4, CheckpointsBack
    <3>. QED  BY <1>6, <3>2, <3>3, <3>5
  <2>2. CASE rec.stage <= 1
    <3>1. rec.officials = {}
      <4>1. SUFFICES ASSUME NEW o \in rec.officials PROVE FALSE
            OBVIOUS
      <4>2. o.stage \in Course10.match /\ o.stage <= rec.stage
            BY <1>3 DEF Placed
      <4>. QED  BY <1>3, <2>2, <4>2, StagesOf10 DEF Course10
    <3>. QED  BY <2>1, <3>1 DEF Below
  <2>3. CASE ~(rec.stage <= 1)
    <3>1. PICK s \in 2 .. 3 + Singles10m : s = c.stage /\ s = rec.stage
          BY <1>3, <1>6, <1>61, <2>3
    <3>2. s \in Course10.match /\ Course10.base[s] = F10!StageShotNumberBase(s)
          /\ s \in F10!Commanded /\ s \in Int
          BY StagesOf10 DEF Course10
    <3>3. Ranked(Course10, rec)
          BY <1>1, <1>13 DEF Sound, Told, Counted
    <3>4. \A o \in rec.officials : o.n <= Course10.base[s] + ShotsOf(rec, s)
      <4>1. rec.stage <= s
            BY <3>1, <3>2
      <4>. QED  BY <1>3, <3>2, <3>3, <4>1, CourseOf10, NumbersBounded
    <3>5. Top10(c) = Course10.base[s] + ShotsOf(rec, s)
          BY <1>6, <3>1, <3>2 DEF Top10, Start10
    <3>. QED  BY <2>1, <3>4, <3>5 DEF Below
  <2>. QED  BY <2>2, <2>3
<1>14. Stands10(d, rec)
  <2>1. rec.stage <= d.stage /\ (d.stage \in F10!Commanded => rec.stage = d.stage)
        BY <1>3, <1>6, <1>8, StagesOf10
  <2>2. ~rec.refused => d.shots = ShotsOf(rec, d.stage) /\ Below(d, Top10(d))
    <3>1. ~rec.refused => Below(d, Top10(d))
          BY <1>8, <1>13 DEF Below, Top10
    <3>. QED  BY <1>6, <1>8, <3>1
  <2>3. Tally10(d, rec)
        BY <1>6, <1>8, TallySame10
  <2>. QED  BY <1>1, <1>8, <2>1, <2>2, <2>3 DEF Stands10
<1>15. Stands10(d, rec')
       BY <1>10, <1>14, StandsSame10
<1>. QED  BY <1>9, <1>12, <1>15 DEF FinalInv10

LEMMA LeaveCompleted10 ==
    ASSUME FinalInv10, F10!LeaveCompleted
    PROVE  FinalInv10' /\ Follows(Course10, rec, rec')
<1>1. /\ Sound(Course10) /\ up' = "none" /\ UNCHANGED <<ctl, rec, fired, hist>>
      BY DEF FinalInv10, F10!LeaveCompleted
<1>2. /\ rec \in Journals(Course10.stages) /\ ctl \in Controllers(Course10.stages)
      /\ hist \in Histories /\ fired \in Nat /\ ctl.out = << >>
      BY <1>1 DEF Sound, Told
<1>3. Same(rec, rec')
      BY <1>1 DEF Same
<1>4. Sound(Course10)' /\ Follows(Course10, rec, rec')
      BY <1>1, <1>2, <1>3, QuietSound
<1>. QED  BY <1>1, <1>4 DEF FinalInv10

LEMMA Init10 ==
    ASSUME F10!Init
    PROVE  FinalInv10
<1>1. /\ up = "none" /\ ctl = NewCtl(Course10.stages) /\ rec = NewRec(Course10.stages)
      /\ fired = 0 /\ hist = NewHist
      BY SameHelpers10 DEF F10!Init, F10!NewHist, NewHist, Course10
<1>2. Sound(Course10)
      BY <1>1, Fresh10, CourseOf10, InitSound
<1>. QED  BY <1>1, <1>2 DEF FinalInv10

\* Every step of a 10 m final keeps it; and the course goes forward, but for the
\* start of another final.
LEMMA Next10 ==
    ASSUME FinalInv10, F10!Next
    PROVE  FinalInv10' /\ (F10!StartFinal \/ Follows(Course10, rec, rec'))
<1>1. CASE F10!StartFinal
      BY <1>1, StartFinal10
<1>2. CASE F10!Resume
      BY <1>2, Resume10
<1>3. CASE F10!LeaveCompleted
      BY <1>3, LeaveCompleted10
<1>4. CASE F10!SkipCeremony \/ F10!HoldOver
      BY <1>4, SkipCeremony10
<1>5. CASE F10!AbortFinal
      BY <1>5, AbortFinal10
<1>6. CASE F10!PauseToggled
      BY <1>6, PauseToggled10
<1>7. CASE F10!RegisterSighter \/ F10!RejectShot
      BY <1>7, ShotOnly10
<1>8. CASE F10!RegisterOfficial
      BY <1>8, RegisterOfficial10
<1>9. CASE F10!TakeYourPositions \/ F10!LoadCommand \/ F10!Warning
      BY <1>9, ClockOnly10
<1>10. CASE F10!StartCommand
       BY <1>10, WindowOpens10
<1>11. CASE F10!PrepStop
       BY <1>11, PrepStop10
<1>12. CASE F10!CommandExpired
       BY <1>12, CommandExpired10
<1>13. CASE F10!TimePasses \/ F10!IncidentToggled \/ F10!Crash
       BY <1>13, Environment10
<1>. QED  BY <1>1, <1>2, <1>3, <1>4, <1>5, <1>6, <1>7, <1>8, <1>9, <1>10, <1>11, <1>12, <1>13
         DEF F10!Next, F10!Tick
-----------------------------------------------------------------------------
(* The accounts, for any course.                                           *)

LEMMA ShotsNumbered ==
    ASSUME NEW k, IsCourse(k), NEW r, Placed(k, r), Ranked(k, r), NEW s \in k.match
    PROVE  /\ ShotsOf(r, s) \in Nat /\ ShotsOf(r, s) <= k.limit[s]
           /\ NumbersOf(r, s) = k.base[s] + 1 .. k.base[s] + ShotsOf(r, s)
           /\ Cardinality(NumbersOf(r, s)) = ShotsOf(r, s)
<1>1. ShotsOf(r, s) \in Nat
  <2>1. IsFiniteSet(OfStage(r, s))
        BY FS_Subset DEF OfStage, Placed
  <2>. QED  BY <2>1, FS_CardinalityType DEF ShotsOf
<1>2. PICK b \in Nat, m \in Nat : b = k.base[s] /\ m = ShotsOf(r, s)
      BY <1>1 DEF IsCourse
<1>3. NumbersOf(r, s) = b + 1 .. b + m /\ m <= k.limit[s]
      BY <1>2 DEF Ranked
<1>4. Cardinality(b + 1 .. b + m) = m
  <2>1. PICK lo \in Int, hi \in Int : lo = b + 1 /\ hi = b + m
        OBVIOUS
  <2>. QED  BY <2>1, FS_Interval
<1>5. Cardinality(NumbersOf(r, s)) = m
      BY <1>3, <1>4
<1>6. NumbersOf(r, s) = k.base[s] + 1 .. k.base[s] + ShotsOf(r, s)
      BY DEF Ranked
<1>. QED  BY <1>1, <1>2, <1>3, <1>5, <1>6

\* The shots missed are as many as the numbers that no shot has.
LEMMA MissedCounted ==
    ASSUME NEW k, IsCourse(k), NEW r, Placed(k, r), Ranked(k, r),
           NEW S, NEW s \in k.match, s \in S, Covered(k, r, S), Exact(k, r, S),
           NEW missed, missed = {i \in DOMAIN r.missing : r.missing[i] \in NumbersIn(k, s)}
    PROVE  Cardinality(NumbersOf(r, s)) + Cardinality(missed) = k.limit[s]
<1>1. PICK b \in Nat, m \in Nat, limit \in Nat :
         b = k.base[s] /\ m = ShotsOf(r, s) /\ limit = k.limit[s]
      BY ShotsNumbered DEF IsCourse
<1>2. m <= limit /\ NumbersOf(r, s) = b + 1 .. b + m /\ Cardinality(NumbersOf(r, s)) = m
      BY <1>1, ShotsNumbered
<1>3. NumbersIn(k, s) = b + 1 .. b + limit
      BY <1>1 DEF NumbersIn
<1>4. PICK T : T = b + m + 1 .. b + limit
      OBVIOUS
<1>5. IsFiniteSet(T) /\ Cardinality(T) = limit - m
  <2>1. PICK lo \in Int, hi \in Int : lo = b + m + 1 /\ hi = b + limit
        OBVIOUS
  <2>2. T = lo .. hi
        BY <1>4, <2>1
  <2>3. IsFiniteSet(lo .. hi) /\ Cardinality(lo .. hi) = IF lo > hi THEN 0 ELSE hi - lo + 1
        BY FS_Interval
  <2>4. (IF lo > hi THEN 0 ELSE hi - lo + 1) = limit - m
        BY <1>2, <2>1
  <2>. QED  BY <2>2, <2>3, <2>4
<1>6. PICK f : f = [i \in missed |-> r.missing[i]]
      OBVIOUS
<1>7. f \in Injection(missed, T)
  <2>1. ASSUME NEW i \in missed PROVE r.missing[i] \in T
    <3>1. r.missing[i] \in NumbersIn(k, s) /\ r.missing[i] \notin NumbersOf(r, s)
          BY <2>1 DEF Exact
    <3>. QED  BY <1>2, <1>3, <1>4, <3>1
  <2>2. f \in [missed -> T]
        BY <1>6, <2>1
  <2>3. \A i, j \in missed : f[i] = f[j] => i = j
        BY <1>6 DEF Exact
  <2>. QED  BY <2>2, <2>3 DEF Injection, IsInjective
<1>8. f \in Surjection(missed, T)
  <2>1. ASSUME NEW n \in T PROVE \E i \in missed : f[i] = n
    <3>1. n \in NumbersIn(k, s) /\ n \notin NumbersOf(r, s)
          BY <1>2, <1>3, <1>4
    <3>2. PICK i \in DOMAIN r.missing : r.missing[i] = n
          BY <3>1 DEF Covered
    <3>. QED  BY <1>6, <3>1, <3>2
  <2>2. f \in [missed -> T]
        BY <1>7 DEF Injection
  <2>. QED  BY <2>1, <2>2 DEF Surjection
<1>9. Cardinality(missed) = limit - m
      BY <1>5, <1>7, <1>8, FS_Injection
<1>. QED  BY <1>1, <1>2, <1>9

\* The verdicts, as numbers.
LEMMA VerdictNumbers ==
    ASSUME NEW k, IsCourse(k), NEW r, Placed(k, r), Ranked(k, r), NEW S, Exact(k, r, S),
           NEW s \in k.match
    PROVE  /\ r.status[s] = "Complete" => NumbersOf(r, s) = NumbersIn(k, s)
           /\ r.status[s] = "Incomplete" => NumbersOf(r, s) # NumbersIn(k, s)
<1>1. PICK b \in Nat, m \in Nat, limit \in Nat :
         b = k.base[s] /\ m = ShotsOf(r, s) /\ limit = k.limit[s]
      BY ShotsNumbered DEF IsCourse
<1>2. NumbersOf(r, s) = b + 1 .. b + m /\ NumbersIn(k, s) = b + 1 .. b + limit /\ m <= limit
      BY <1>1, ShotsNumbered DEF NumbersIn
<1>3. r.status[s] = "Complete" => m = limit
      BY <1>1 DEF Exact
<1>4. r.status[s] = "Incomplete" => m # limit
      BY <1>1 DEF Exact
<1>5. m # limit => b + limit \in b + 1 .. b + limit /\ b + limit \notin b + 1 .. b + m
      BY <1>2
<1>. QED  BY <1>2, <1>3, <1>4, <1>5

\* m_shotsInStage and the numbers it gives.
LEMMA NumbersUpTo ==
    ASSUME NEW b \in Nat, NEW m \in Nat
    PROVE  b + 1 .. b + m = {b + i : i \in 1 .. m}
<1>1. ASSUME NEW n \in b + 1 .. b + m PROVE n \in {b + i : i \in 1 .. m}
  <2>1. n - b \in 1 .. m /\ b + (n - b) = n
        OBVIOUS
  <2>. QED  BY <2>1
<1>. QED  BY <1>1
-----------------------------------------------------------------------------
(* The theorems.                                                           *)

FinalInv == (which = "3P" /\ FinalInv3) \/ (which = "10m" /\ FinalInv10)

LEMMA FinalSteps ==
    ASSUME FinalInv, [Next]_lvars
    PROVE  FinalInv'
<1>1. CASE which = "3P" /\ F3!Next /\ which' = which
  <2>1. FinalInv3
        BY <1>1 DEF FinalInv
  <2>2. FinalInv3'
        BY <1>1, <2>1, Next3
  <2>. QED  BY <1>1, <2>2 DEF FinalInv
<1>2. CASE which = "10m" /\ F10!Next /\ which' = which
  <2>1. FinalInv10
        BY <1>2 DEF FinalInv
  <2>2. FinalInv10'
        BY <1>2, <2>1, Next10
  <2>. QED  BY <1>2, <2>2 DEF FinalInv
<1>3. CASE UNCHANGED lvars
  <2>1. UNCHANGED <<which, up, ctl, rec, fired, hist>>
        BY <1>3 DEF lvars, fvars
  <2>. QED  BY <2>1 DEF FinalInv, FinalInv3, FinalInv10, Sound
<1>. QED  BY <1>1, <1>2, <1>3 DEF Next

\* The inductive invariant: what is told in the journal at every event, and where
\* the controller stands in it.
THEOREM SpecKeepsFinals == Spec => []FinalInv
<1>1. Init => FinalInv
      BY Init3, Init10 DEF Init, FinalInv
<1>2. FinalInv /\ [Next]_lvars => FinalInv'
      BY FinalSteps
<1>. QED  BY <1>1, <1>2, PTL DEF Spec

LEMMA CourseIsTold ==
    ASSUME FinalInv
    PROVE  /\ which = "3P" \/ which = "10m"
           /\ which = "3P" => Sound(Course3) /\ FinalInv3
           /\ which = "10m" => Sound(Course10) /\ FinalInv10
BY DEF FinalInv, FinalInv3, FinalInv10

\* What Sound says of a stage of the course that is over.
LEMMA AccountsOf ==
    ASSUME NEW k, IsCourse(k), Sound(k), ~rec.refused, NEW s \in k.match,
           rec.life = "Complete" \/ rec.stage >= k.over[s],
           NEW missed, missed = {i \in DOMAIN rec.missing : rec.missing[i] \in NumbersIn(k, s)}
    PROVE  /\ NumbersIn(k, s) \subseteq NumbersOf(rec, s) \cup {rec.missing[i] : i \in missed}
           /\ ~hist.cut =>
                 Cardinality(NumbersOf(rec, s)) + Cardinality(missed) = k.limit[s]
<1>1. PICK S : S = PassedIn(k, rec)
      OBVIOUS
<1>2. Placed(k, rec) /\ Ranked(k, rec) /\ Covered(k, rec, S) /\ rec \in Journals(k.stages)
      BY <1>1 DEF Sound, Told, Counted
<1>3. s \in S
  <2>1. rec.stage \in Int /\ k.over[s] \in Int
        BY <1>2 DEF Journals, IsCourse
  <2>2. rec.life = "Complete" \/ k.over[s] <= rec.stage
        BY <2>1
  <2>. QED  BY <1>1, <2>2 DEF PassedIn, PassedAt
<1>4. NumbersIn(k, s) \subseteq NumbersOf(rec, s) \cup {rec.missing[i] : i \in missed}
      BY <1>2, <1>3 DEF Covered
<1>5. ASSUME ~hist.cut
      PROVE  Cardinality(NumbersOf(rec, s)) + Cardinality(missed) = k.limit[s]
  <2>1. Exact(k, rec, S)
        BY <1>1, <1>5 DEF Sound
  <2>. QED  BY <1>2, <1>3, <2>1, MissedCounted
<1>. QED  BY <1>4, <1>5

\* Numbers of the courses, as the controllers name them.
LEMMA NumbersOf3 ==
    ASSUME NEW s \in F3!MatchStages
    PROVE  /\ s \in Course3.match /\ NumbersIn(Course3, s) = F3!Numbers(s)
           /\ Course3.limit[s] = F3!StageShotLimit(s)
           /\ Course3.base[s] = F3!StageShotNumberBase(s)
BY DEF Course3, NumbersIn, F3!Numbers

LEMMA NumbersOf10 ==
    ASSUME NEW s \in F10!Commanded
    PROVE  /\ s \in Course10.match /\ NumbersIn(Course10, s) = F10!Numbers(s)
           /\ Course10.limit[s] = F10!StageShotLimit(s)
           /\ Course10.base[s] = F10!StageShotNumberBase(s)
BY DEF Course10, NumbersIn, F10!Numbers

LEMMA ShotNumbersSame ==
    \A s : F3!ShotNumbers(s) = NumbersOf(rec, s) /\ F10!ShotNumbers(s) = NumbersOf(rec, s)
BY DEF F3!ShotNumbers, F10!ShotNumbers, F3!OfficialsOf, F10!OfficialsOf, NumbersOf, OfStage

LEMMA Accounts3 ==
    ASSUME Sound(Course3)
    PROVE  F3!ShotsAccountedFor
<1>1. SUFFICES ASSUME NEW s \in F3!MatchStages, F3!Passed(s), ~rec.refused, NEW missed,
                      missed = {i \in DOMAIN rec.missing : rec.missing[i] \in F3!Numbers(s)}
               PROVE  /\ F3!Numbers(s) \subseteq F3!ShotNumbers(s) \cup {rec.missing[i] : i \in missed}
                      /\ ~hist.cut => F3!Cardinality(F3!ShotNumbers(s)) + F3!Cardinality(missed)
                                       = F3!StageShotLimit(s)
      BY DEF F3!ShotsAccountedFor
<1>2. rec.life = "Complete" \/ rec.stage >= Course3.over[s]
  <2>1. Course3.over[s] = IF s \in F3!Commanded THEN s + 1 ELSE F3!Series1
        BY DEF Course3
  <2>2. rec.stage \in Int /\ s \in Int
        BY StagesOf3 DEF Sound, Told, Journals
  <2>3. s \in F3!Stage1 => s \notin F3!Commanded
        BY StagesOf3
  <2>4. CASE s \in F3!Commanded /\ rec.stage > s
        BY <2>1, <2>2, <2>4
  <2>5. CASE s \in F3!Stage1 /\ rec.stage >= F3!Series1
        BY <2>1, <2>3, <2>5
  <2>. QED  BY <1>1, <2>4, <2>5 DEF F3!Passed
<1>3. PICK k : k = Course3
      OBVIOUS
<1>4. /\ NumbersIn(k, s) \subseteq NumbersOf(rec, s) \cup {rec.missing[i] : i \in missed}
      /\ ~hist.cut => Cardinality(NumbersOf(rec, s)) + Cardinality(missed) = k.limit[s]
  <2>1. /\ IsCourse(k) /\ Sound(k) /\ s \in k.match
        /\ rec.life = "Complete" \/ rec.stage >= k.over[s]
        /\ missed = {i \in DOMAIN rec.missing : rec.missing[i] \in NumbersIn(k, s)}
        BY <1>1, <1>2, <1>3, CourseOf3, NumbersOf3
  <2>. QED  BY <1>1, <2>1, AccountsOf
<1>. QED  BY <1>3, <1>4, NumbersOf3, ShotNumbersSame, SameSizes

LEMMA Accounts10 ==
    ASSUME Sound(Course10)
    PROVE  F10!ShotsAccountedFor
<1>1. SUFFICES ASSUME NEW s \in F10!Commanded, F10!Passed(s), ~rec.refused, NEW missed,
                      missed = {i \in DOMAIN rec.missing : rec.missing[i] \in F10!Numbers(s)}
               PROVE  /\ F10!Numbers(s) \subseteq F10!ShotNumbers(s) \cup {rec.missing[i] : i \in missed}
                      /\ ~hist.cut => F10!Cardinality(F10!ShotNumbers(s)) + F10!Cardinality(missed)
                                       = F10!StageShotLimit(s)
      BY DEF F10!ShotsAccountedFor
<1>2. rec.life = "Complete" \/ rec.stage >= Course10.over[s]
  <2>1. Course10.over[s] = s + 1
        BY DEF Course10
  <2>2. rec.stage \in Int /\ s \in Int
        BY StagesOf10 DEF Sound, Told, Journals
  <2>. QED  BY <1>1, <2>1, <2>2 DEF F10!Passed
<1>3. PICK k : k = Course10
      OBVIOUS
<1>4. /\ NumbersIn(k, s) \subseteq NumbersOf(rec, s) \cup {rec.missing[i] : i \in missed}
      /\ ~hist.cut => Cardinality(NumbersOf(rec, s)) + Cardinality(missed) = k.limit[s]
  <2>1. /\ IsCourse(k) /\ Sound(k) /\ s \in k.match
        /\ rec.life = "Complete" \/ rec.stage >= k.over[s]
        /\ missed = {i \in DOMAIN rec.missing : rec.missing[i] \in NumbersIn(k, s)}
        BY <1>1, <1>2, <1>3, CourseOf10, NumbersOf10
  <2>. QED  BY <1>1, <2>1, AccountsOf
<1>. QED  BY <1>3, <1>4, NumbersOf10, ShotNumbersSame, SameSizes

\* Every number of a stage that is over is an official shot or recorded missing,
\* crashes and resumes or not (recordMissingShots).
THEOREM SpecAccountsForShots == Spec => []ShotsAccountedFor
<1>1. FinalInv => ShotsAccountedFor
      BY CourseIsTold, Accounts3, Accounts10 DEF ShotsAccountedFor
<1>. QED  BY <1>1, SpecKeepsFinals, PTL

\* What the controller has counted, against the journal it stands in.
LEMMA Matches3 ==
    ASSUME FinalInv3
    PROVE  F3!ControllerMatchesJournal
<1>1. SUFFICES ASSUME up = "live", ~rec.refused
               PROVE  /\ ctl.count = Cardinality(rec.officials)
                      /\ F3!Running(ctl) => NumbersOf(rec, ctl.stage) =
                            {F3!StageShotNumberBase(ctl.stage) + i : i \in 1 .. ctl.shots}
      BY SameSizes, ShotNumbersSame DEF F3!ControllerMatchesJournal
<1>2. ctl.count = Cardinality(rec.officials)
      BY <1>1 DEF FinalInv3, Stands3, Tally3
<1>3. Placed(Course3, rec) /\ Ranked(Course3, rec)
      BY <1>1 DEF FinalInv3, Sound, Told, Counted
<1>4. ASSUME F3!Running(ctl), ctl.stage \in F3!MatchStages
      PROVE  NumbersOf(rec, ctl.stage) =
                {F3!StageShotNumberBase(ctl.stage) + i : i \in 1 .. ctl.shots}
  <2>1. PICK k : k = Course3
        OBVIOUS
  <2>2. PICK s : s = ctl.stage
        OBVIOUS
  <2>3. ctl.shots = ShotsOf(rec, s) /\ ctl.shots \in Nat
        BY <1>1, <1>4, <2>2, InRunning3
  <2>4. s \in k.match /\ k.base[s] = F3!StageShotNumberBase(s) /\ k.base[s] \in Nat
        BY <1>4, <2>1, <2>2, NumbersOf3, CourseOf3 DEF IsCourse
  <2>5. NumbersOf(rec, s) = k.base[s] + 1 .. k.base[s] + ShotsOf(rec, s)
        BY <1>3, <2>1, <2>4, CourseOf3, ShotsNumbered
  <2>6. PICK b \in Nat, m \in Nat : b = k.base[s] /\ m = ctl.shots
        BY <2>3, <2>4
  <2>7. b + 1 .. b + m = {b + i : i \in 1 .. m}
        BY NumbersUpTo
  <2>. QED  BY <2>2, <2>3, <2>4, <2>5, <2>6, <2>7
<1>5. ASSUME F3!Running(ctl), ctl.stage \notin F3!MatchStages
      PROVE  NumbersOf(rec, ctl.stage) =
                {F3!StageShotNumberBase(ctl.stage) + i : i \in 1 .. ctl.shots}
  <2>1. PICK s : s = ctl.stage
        OBVIOUS
  <2>2. OfStage(rec, s) = {}
        BY <1>3, <1>5, <2>1 DEF OfStage, Placed, Course3
  <2>3. ctl.shots = 0
        BY <1>1, <1>5, <2>1, <2>2, InRunning3, FS_EmptySet DEF ShotsOf
  <2>4. NumbersOf(rec, s) = {} /\ 1 .. ctl.shots = {}
        BY <2>2, <2>3 DEF NumbersOf
  <2>. QED  BY <2>1, <2>4
<1>. QED  BY <1>2, <1>4, <1>5

LEMMA Matches10 ==
    ASSUME FinalInv10
    PROVE  F10!ControllerMatchesJournal
<1>1. SUFFICES ASSUME up = "live", ~rec.refused
               PROVE  /\ ctl.count = Cardinality(rec.officials)
                      /\ ctl.stage \in F10!Commanded => NumbersOf(rec, ctl.stage) =
                            {F10!StageShotNumberBase(ctl.stage) + i : i \in 1 .. ctl.shots}
                      /\ \A p \in ctl.checkpoints :
                            p.total = Cardinality({o \in rec.officials : o.n <= p.n})
      BY SameSizes, ShotNumbersSame DEF F10!ControllerMatchesJournal
<1>2. /\ ctl.count = Cardinality(rec.officials)
      /\ \A p \in ctl.checkpoints : p.total = Cardinality({o \in rec.officials : o.n <= p.n})
      BY <1>1 DEF FinalInv10, Stands10, Tally10
<1>3. Placed(Course10, rec) /\ Ranked(Course10, rec)
      BY <1>1 DEF FinalInv10, Sound, Told, Counted
<1>4. ASSUME ctl.stage \in F10!Commanded
      PROVE  NumbersOf(rec, ctl.stage) =
                {F10!StageShotNumberBase(ctl.stage) + i : i \in 1 .. ctl.shots}
  <2>1. PICK k : k = Course10
        OBVIOUS
  <2>2. PICK s : s = ctl.stage
        OBVIOUS
  <2>3. F10!Running(ctl)
        BY <1>4, StagesOf10
  <2>4. ctl.shots = ShotsOf(rec, s) /\ ctl.shots \in Nat
        BY <1>1, <2>2, <2>3, InRunning10
  <2>5. s \in k.match /\ k.base[s] = F10!StageShotNumberBase(s) /\ k.base[s] \in Nat
        BY <1>4, <2>1, <2>2, NumbersOf10, CourseOf10 DEF IsCourse
  <2>6. NumbersOf(rec, s) = k.base[s] + 1 .. k.base[s] + ShotsOf(rec, s)
        BY <1>3, <2>1, <2>5, CourseOf10, ShotsNumbered
  <2>7. PICK b \in Nat, m \in Nat : b = k.base[s] /\ m = ctl.shots
        BY <2>4, <2>5
  <2>8. b + 1 .. b + m = {b + i : i \in 1 .. m}
        BY NumbersUpTo
  <2>. QED  BY <2>2, <2>4, <2>5, <2>6, <2>7, <2>8
<1>. QED  BY <1>2, <1>4

\* The counters and the checkpoints of the controller are those of the journal,
\* before and after a resume (loadRecoveredState).
THEOREM SpecMatchesJournal == Spec => []ControllerMatchesJournal
<1>1. FinalInv => ControllerMatchesJournal
      BY CourseIsTold, Matches3, Matches10 DEF ControllerMatchesJournal
<1>. QED  BY <1>1, SpecKeepsFinals, PTL

LEMMA VerdictsOf ==
    ASSUME NEW k, IsCourse(k), Sound(k), ~rec.refused, ~hist.cut, NEW s \in k.match
    PROVE  /\ rec.status[s] = "Complete" => NumbersOf(rec, s) = NumbersIn(k, s)
           /\ rec.status[s] = "Incomplete" => NumbersOf(rec, s) # NumbersIn(k, s)
<1>1. PICK S : S = PassedIn(k, rec)
      OBVIOUS
<1>2. Placed(k, rec) /\ Ranked(k, rec) /\ Exact(k, rec, S)
      BY <1>1 DEF Sound, Told, Counted
<1>. QED  BY <1>2, VerdictNumbers

\* A stage marked Complete has all its shots, one marked Incomplete has not
\* (setStageStatus, registerOfficialShot).
THEOREM SpecVerdictsTrue == Spec => []VerdictsTrue
<1>1. ASSUME Sound(Course3) PROVE F3!VerdictsTrue
  <2>1. SUFFICES ASSUME NEW s \in F3!MatchStages, ~rec.refused, ~hist.cut
                 PROVE  /\ rec.status[s] = "Complete" => NumbersOf(rec, s) = F3!Numbers(s)
                        /\ rec.status[s] = "Incomplete" => NumbersOf(rec, s) # F3!Numbers(s)
        BY ShotNumbersSame DEF F3!VerdictsTrue
  <2>. QED  BY <1>1, <2>1, CourseOf3, NumbersOf3, VerdictsOf
<1>2. ASSUME Sound(Course10) PROVE F10!VerdictsTrue
  <2>1. SUFFICES ASSUME NEW s \in F10!Commanded, ~rec.refused, ~hist.cut
                 PROVE  /\ rec.status[s] = "Complete" => NumbersOf(rec, s) = F10!Numbers(s)
                        /\ rec.status[s] = "Incomplete" => NumbersOf(rec, s) # F10!Numbers(s)
        BY ShotNumbersSame DEF F10!VerdictsTrue
  <2>. QED  BY <1>2, <2>1, CourseOf10, NumbersOf10, VerdictsOf
<1>3. FinalInv => VerdictsTrue
      BY <1>1, <1>2, CourseIsTold DEF VerdictsTrue
<1>. QED  BY <1>3, SpecKeepsFinals, PTL

LEMMA Windows3 ==
    ASSUME FinalInv3
    PROVE  F3!WindowsTakeShots
<1>1. SUFFICES ASSUME up = "live", ctl.window # "Closed"
               PROVE  /\ F3!ModeFits(ctl)
                      /\ rec.phase # "None"
                      /\ ctl.window = "MatchOpen" => rec.phase = "OfficialMatch"
      BY DEF F3!WindowsTakeShots
<1>2. ctl.window = "MatchOpen" \/ ctl.window = "SightingOpen"
      BY <1>1 DEF FinalInv3, Sound, Controllers, Windows
<1>3. Placed(Course3, rec) /\ Stands3(ctl, rec)
      BY <1>1 DEF FinalInv3, Sound, Told
<1>4. ASSUME ctl.window = "MatchOpen" PROVE ctl.mode = "Match" /\ rec.phase = "OfficialMatch"
  <2>1. ctl.stage \in F3!MatchStages /\ ctl.mode = "Match"
        BY <1>3, <1>4 DEF Stands3
  <2>2. rec.stage = ctl.stage
        BY <1>3, <2>1, StagesOf3 DEF Stands3
  <2>3. rec.stage \in Course3.stages /\ Course3.phases[rec.stage] = {"OfficialMatch"}
        BY <2>1, <2>2, StagesOf3 DEF Course3
  <2>. QED  BY <1>3, <2>1, <2>3 DEF Placed
<1>5. ASSUME ctl.window = "SightingOpen" PROVE ctl.mode = "Sighter" /\ rec.phase # "None"
  <2>1. ctl.stage \in Sighting3 /\ ctl.mode = "Sighter"
        BY <1>3, <1>5 DEF Stands3
  <2>2. rec.stage = ctl.stage
        BY <1>3, <2>1, StagesOf3 DEF Stands3, Sighting3
  <2>3. rec.stage \in Course3.stages
        BY <2>1, <2>2, StagesOf3 DEF Course3, Sighting3
  <2>4. Course3.phases[rec.stage] = {"Preparation", "Sighting"}
        BY <2>1, <2>2, StagesOf3 DEF Course3, Sighting3
  <2>. QED  BY <1>3, <2>1, <2>3, <2>4 DEF Placed
<1>. QED  BY <1>2, <1>4, <1>5 DEF F3!ModeFits

LEMMA Windows10 ==
    ASSUME FinalInv10
    PROVE  F10!WindowsTakeShots
<1>1. SUFFICES ASSUME up = "live", ctl.window # "Closed"
               PROVE  /\ F10!ModeFits(ctl)
                      /\ ctl.window = "MatchOpen" => rec.phase = "OfficialMatch"
      BY DEF F10!WindowsTakeShots
<1>2. ctl.window = "MatchOpen" \/ ctl.window = "SightingOpen"
      BY <1>1 DEF FinalInv10, Sound, Controllers, Windows
<1>3. Placed(Course10, rec) /\ Stands10(ctl, rec)
      BY <1>1 DEF FinalInv10, Sound, Told
<1>4. ASSUME ctl.window = "MatchOpen" PROVE ctl.mode = "Match" /\ rec.phase = "OfficialMatch"
  <2>1. ctl.stage \in F10!Commanded /\ ctl.mode = "Match"
        BY <1>3, <1>4 DEF Stands10
  <2>2. rec.stage = ctl.stage
        BY <1>3, <2>1, StagesOf10 DEF Stands10
  <2>3. rec.stage \in Course10.stages /\ Course10.phases[rec.stage] = {"OfficialMatch"}
        BY <2>1, <2>2, StagesOf10 DEF Course10
  <2>. QED  BY <1>3, <2>1, <2>3 DEF Placed
<1>5. ctl.window = "SightingOpen" => ctl.mode = "Sighter"
      BY <1>3 DEF Stands10
<1>. QED  BY <1>2, <1>4, <1>5 DEF F10!ModeFits

\* The window that is open, the mode of the target and the phase of the journal
\* agree, so that a shot fired in it counts (setWindow, submitStagePhase).
THEOREM SpecWindowsTakeShots == Spec => []WindowsTakeShots
<1>1. FinalInv => WindowsTakeShots
      BY CourseIsTold, Windows3, Windows10 DEF WindowsTakeShots
<1>. QED  BY <1>1, SpecKeepsFinals, PTL

\* The course never goes back but at a new final, and a verdict is never taken
\* back (setStageStatus), crashes and resumes included.
THEOREM SpecGoesForward == Spec => CourseForward
<1>1. ASSUME FinalInv3, F3!Next PROVE F3!GoesForward
  <2>1. CASE F3!StartFinal
        BY <2>1 DEF F3!GoesForward
  <2>2. CASE Follows(Course3, rec, rec')
    <3>1. FinalInv3'
          BY <1>1, Next3
    <3>2. rec.stage \in Int /\ rec'.stage \in Int
          BY <1>1, <3>1 DEF FinalInv3, Sound, Told, Journals
    <3>. QED  BY <2>2, <3>2 DEF F3!GoesForward, Follows, Course3, F3!Verdicts, Verdicts
  <2>. QED  BY <1>1, <2>1, <2>2, Next3
<1>2. ASSUME FinalInv10, F10!Next PROVE F10!GoesForward
  <2>1. CASE F10!StartFinal
        BY <2>1 DEF F10!GoesForward
  <2>2. CASE Follows(Course10, rec, rec')
    <3>1. FinalInv10'
          BY <1>2, Next10
    <3>2. rec.stage \in Int /\ rec'.stage \in Int
          BY <1>2, <3>1 DEF FinalInv10, Sound, Told, Journals
    <3>. QED  BY <2>2, <3>2 DEF F10!GoesForward, Follows, Course10, F10!Verdicts, Verdicts
  <2>. QED  BY <1>2, <2>1, <2>2, Next10
<1>3. ASSUME FinalInv, [Next]_lvars
      PROVE  [IF which = "3P" THEN F3!GoesForward ELSE F10!GoesForward]_fvars
  <2>1. CASE which = "3P" /\ F3!Next
        BY <1>1, <1>3, <2>1 DEF FinalInv
  <2>2. CASE which = "10m" /\ F10!Next
        BY <1>2, <1>3, <2>2 DEF FinalInv
  <2>3. CASE UNCHANGED lvars
        BY <2>3 DEF lvars
  <2>. QED  BY <1>3, <2>1, <2>2, <2>3 DEF Next
<1>. QED  BY <1>3, SpecKeepsFinals, PTL DEF Spec, CourseForward
-----------------------------------------------------------------------------
(* The clock.                                                              *)

\* What the clock needs of a controller and of a journal: their fields.
Fields == {"stage", "seqStep", "window", "mode", "shots", "count", "kneeling", "prone",
           "started1", "checkpoints", "status", "left", "warned", "paused", "out"}
IsCtl(c) == DOMAIN c = Fields /\ \E S : c.out \in Seq(S)
IsRec(r) == {"stage", "phase", "life", "officials", "status", "missing", "anchor", "age",
             "elapsed", "refused"} \subseteq DOMAIN r

\* The fields of two controllers that a handler's clock depends on.
Level(c, d) ==
    /\ d.stage = c.stage /\ d.seqStep = c.seqStep /\ d.window = c.window
    /\ d.left = c.left

\* The events that leave the clock alone, and where they leave the journal.
Quiet == {Mark} \cup {StatusChanged(s, v) : s \in Int, v \in Statuses}
         \cup {Accepted(n, x, s) : n \in Int, x \in Int, s \in Int}
         \cup {Phase(p, s) : p \in Phases, s \in Int} \cup {Entered(s) : s \in Int}
Whereto(r, e) == IF e.type \in {"Phase", "StageEntered"} THEN e.stage ELSE r.stage

\* A match that runs, whose clock has counted age since its window opened.
Runs(c) == IsCtl(c) /\ IsRec(Written(c)) /\ Written(c).life = "Active"
Ticked(r) == r.refused = TRUE \/ r.elapsed = r.age
Later(r, q) == /\ q.anchor = r.anchor /\ q.age = r.age
               /\ r.refused = TRUE => q.refused = TRUE

LEMMA Extended ==
    ASSUME NEW S, NEW s \in Seq(S), NEW q
    PROVE  /\ Append(s, q) \in Seq(S \cup {q})
           /\ Append(s, q) # << >> /\ Last(Append(s, q)) = q
<1>. DEFINE T == S \cup {q}
<1>1. s \in Seq(T)
      BY SeqDef
<1>. HIDE DEF T
<1>2. q \in T
      BY DEF T
<1>3. Append(s, q) \in Seq(T) /\ Len(Append(s, q)) = Len(s) + 1 /\ Append(s, q)[Len(s) + 1] = q
      BY <1>1, <1>2
<1>4. Len(s) \in Nat
      BY <1>1
<1>5. Append(s, q) # << >>
      BY <1>3, <1>4
<1>. QED  BY <1>3, <1>5 DEF Last, T

LEMMA CtlChanged ==
    ASSUME NEW c, IsCtl(c), NEW e
    PROVE  /\ IsCtl(Emit(c, e)) /\ Level(c, Emit(c, e))
           /\ Written(Emit(c, e)) = Apply(Written(c), e)
<1>. DEFINE q == Apply(Written(c), e)
            o == Append(c.out, q)
<1>1. PICK S : c.out \in Seq(S)
      BY DEF IsCtl
<1>. HIDE DEF q
<1>2. o \in Seq(S \cup {q}) /\ o # << >> /\ Last(o) = q
      BY <1>1, Extended
<1>3. Emit(c, e) = [c EXCEPT !.out = o]
      BY DEF Emit, q
<1>. HIDE DEF o
<1>4. Emit(c, e).out = o /\ DOMAIN Emit(c, e) = Fields /\ Level(c, Emit(c, e))
      BY <1>3 DEF IsCtl, Fields, Level
<1>5. Written(Emit(c, e)) = q
      BY <1>2, <1>4 DEF Written
<1>. QED  BY <1>2, <1>4, <1>5 DEF IsCtl, q

LEMMA QuietApplied ==
    ASSUME NEW r, IsRec(r), r.life = "Active", NEW e \in Quiet, NEW q, q = Apply(r, e)
    PROVE  /\ IsRec(q) /\ q.life = "Active" /\ Later(r, q) /\ Ticked(q)
           /\ q.stage = Whereto(r, e)
<1>1. CASE e = Mark
      BY <1>1 DEF Apply, Refuses, Reduced, Mark, IsRec, Later, Ticked, Whereto
<1>2. CASE \E s \in Int, v \in Statuses : e = StatusChanged(s, v)
      BY <1>2 DEF Apply, Refuses, Reduced, StatusChanged, IsRec, Later, Ticked, Whereto
<1>3. CASE \E n \in Int, x \in Int, s \in Int : e = Accepted(n, x, s)
  <2>1. e.type = "ShotAccepted"
        BY <1>3 DEF Accepted
  <2>2. CASE Refuses(r, e)
        BY <2>1, <2>2 DEF Apply, IsRec, Later, Ticked, Whereto
  <2>3. CASE ~Refuses(r, e)
    <3>1. PICK n : n = [r EXCEPT !.officials = r.officials \cup {e.shot}]
          OBVIOUS
    <3>2. IsRec(n) /\ n.life = "Active" /\ Later(r, n) /\ n.stage = r.stage
          BY <3>1 DEF IsRec, Later
    <3>3. q = [n EXCEPT !.elapsed = n.age]
          BY <2>1, <2>3, <3>1 DEF Apply, Reduced
    <3>. QED  BY <2>1, <3>2, <3>3 DEF IsRec, Later, Ticked, Whereto
  <2>. QED  BY <2>2, <2>3
<1>4. CASE \E p \in Phases, s \in Int : e = Phase(p, s)
  <2>1. e.type = "Phase" /\ ~Refuses(r, e)
        BY <1>4 DEF Phase, Refuses
  <2>2. PICK n : n = [r EXCEPT !.phase = e.phase, !.stage = e.stage]
        OBVIOUS
  <2>3. IsRec(n) /\ n.life = "Active" /\ Later(r, n) /\ n.stage = e.stage
        BY <2>2 DEF IsRec, Later
  <2>4. q = [n EXCEPT !.elapsed = n.age]
        BY <2>1, <2>2 DEF Apply, Reduced
  <2>. QED  BY <2>1, <2>3, <2>4 DEF IsRec, Later, Ticked, Whereto
<1>5. CASE \E s \in Int : e = Entered(s)
      BY <1>5 DEF Apply, Refuses, Reduced, Entered, IsRec, Later, Ticked, Whereto
<1>. QED  BY <1>1, <1>2, <1>3, <1>4, <1>5 DEF Quiet

LEMMA OpenApplied ==
    ASSUME NEW r, IsRec(r), r.life = "Active", NEW q, q = Apply(r, Opened)
    PROVE  /\ IsRec(q) /\ q.life = "Active" /\ Ticked(q) /\ q.stage = r.stage
           /\ q.anchor = "fresh" /\ q.age = 0
BY DEF Apply, Refuses, Reduced, Opened, IsRec, Ticked

\* From c the handler has come to d; the clock has gone on, and the journal is
\* at stage s.
Onward(c, d, s) ==
    /\ Runs(d) /\ Later(Written(c), Written(d)) /\ Written(d).stage = s
    /\ Ticked(Written(c)) => Ticked(Written(d))

LEMMA QuietEmitted ==
    ASSUME NEW c, Runs(c), NEW e \in Quiet, NEW d, d = Emit(c, e)
    PROVE  /\ Onward(c, d, Whereto(Written(c), e)) /\ Ticked(Written(d)) /\ Level(c, d)
<1>1. IsCtl(d) /\ Level(c, d) /\ Written(d) = Apply(Written(c), e)
      BY CtlChanged DEF Runs
<1>. QED  BY <1>1, QuietApplied DEF Runs, Onward

LEMMA OpenEmitted ==
    ASSUME NEW c, Runs(c), NEW d, d = Emit(c, Opened)
    PROVE  /\ Runs(d) /\ Level(c, d) /\ Ticked(Written(d))
           /\ Written(d).stage = Written(c).stage
           /\ Written(d).anchor = "fresh" /\ Written(d).age = 0
<1>1. IsCtl(d) /\ Level(c, d) /\ Written(d) = Apply(Written(c), Opened)
      BY CtlChanged DEF Runs
<1>. QED  BY <1>1, OpenApplied DEF Runs

\* setWindow, whatever it does: the controller has the window.
LEMMA WindowTurned ==
    ASSUME NEW c, IsCtl(c), NEW w, NEW d, d = SetWindow(c, w)
    PROVE  /\ IsCtl(d) /\ d.window = w /\ d.stage = c.stage /\ d.seqStep = c.seqStep
           /\ d.left = c.left
<1>1. CASE c.window = w
      BY <1>1 DEF SetWindow
<1>2. CASE c.window # w
  <2>1. PICK b : b = [c EXCEPT !.window = w]
        OBVIOUS
  <2>2. b.window = w /\ b.stage = c.stage /\ b.seqStep = c.seqStep /\ b.left = c.left
        /\ DOMAIN b = Fields /\ b.out = c.out
        BY <2>1 DEF IsCtl, Fields
  <2>3. IsCtl(b)
        BY <2>2 DEF IsCtl
  <2>4. \E e : d = Emit(b, e)
        BY <1>2, <2>1 DEF SetWindow
  <2>5. IsCtl(d) /\ Level(b, d)
        BY <2>3, <2>4, CtlChanged
  <2>. QED  BY <2>2, <2>5 DEF Level
<1>. QED  BY <1>1, <1>2

\* A window that opens sets the clock to nothing.
LEMMA WindowWinds ==
    ASSUME NEW c, Runs(c), NEW w, w # "Closed", c.window # w, NEW d, d = SetWindow(c, w)
    PROVE  /\ Runs(d) /\ Ticked(Written(d)) /\ Written(d).stage = Written(c).stage
           /\ Written(d).anchor = "fresh" /\ Written(d).age = 0
<1>1. PICK b : b = [c EXCEPT !.window = w]
      OBVIOUS
<1>2. DOMAIN b = Fields /\ b.out = c.out
      BY <1>1 DEF Runs, IsCtl, Fields
<1>3. Runs(b) /\ Written(b) = Written(c)
      BY <1>2 DEF Runs, IsCtl, Written
<1>4. d = Emit(b, Opened)
      BY <1>1 DEF SetWindow
<1>. QED  BY <1>3, <1>4, OpenEmitted

\* setStageStatus.
LEMMA StatusTurned ==
    ASSUME NEW c, IsCtl(c), NEW s, NEW v, NEW d, d = SetStageStatus(c, s, v)
    PROVE  IsCtl(d) /\ Level(c, d)
<1>1. CASE d = c
      BY <1>1 DEF Level
<1>2. CASE d # c
  <2>1. PICK b : b = [c EXCEPT !.status[s] = v]
        OBVIOUS
  <2>2. DOMAIN b = Fields /\ b.out = c.out /\ Level(c, b)
        BY <2>1 DEF IsCtl, Fields, Level
  <2>3. IsCtl(b)
        BY <2>2 DEF IsCtl
  <2>4. \E e : d = Emit(b, e)
        BY <1>2, <2>1 DEF SetStageStatus
  <2>5. IsCtl(d) /\ Level(b, d)
        BY <2>3, <2>4, CtlChanged
  <2>. QED  BY <2>2, <2>5 DEF Level
<1>. QED  BY <1>1, <1>2

LEMMA StatusOnward ==
    ASSUME NEW c, Runs(c), NEW s \in Int, NEW v \in Statuses, NEW d, d = SetStageStatus(c, s, v)
    PROVE  Onward(c, d, Written(c).stage)
<1>1. CASE d = c
      BY <1>1 DEF Onward, Later
<1>2. CASE d # c
  <2>1. PICK b : b = [c EXCEPT !.status[s] = v]
        OBVIOUS
  <2>2. DOMAIN b = Fields /\ b.out = c.out
        BY <2>1 DEF Runs, IsCtl, Fields
  <2>3. Runs(b) /\ Written(b) = Written(c)
        BY <2>2 DEF Runs, IsCtl, Written
  <2>4. d = Emit(b, StatusChanged(s, v))
        BY <1>2, <2>1 DEF SetStageStatus
  <2>5. StatusChanged(s, v) \in Quiet /\ Whereto(Written(b), StatusChanged(s, v)) = Written(b).stage
        BY DEF Quiet, Whereto, StatusChanged
  <2>6. Onward(b, d, Written(b).stage)
        BY <2>3, <2>4, <2>5, QuietEmitted
  <2>. QED  BY <2>3, <2>6 DEF Onward
<1>. QED  BY <1>1, <1>2

\* The clock of a segment that began with its window: seg is how long the segment
\* of each stage lasts.
IsSegments(seg) == \A s \in DOMAIN seg : seg[s] \in 1 .. MaxAge
ClockHolds(seg) ==
    hist.exact /\ ~rec.refused =>
        /\ rec.anchor = "fresh" /\ rec.stage \in DOMAIN seg
        /\ hist.left = Rebased(rec.elapsed, seg[rec.stage])
        /\ up = "live" => /\ ctl.stage = rec.stage
                          /\ ctl.left = Rebased(rec.age, seg[rec.stage])

\* The same of a controller at the end of its handler.
Winds(seg, c) ==
    Written(c).refused # TRUE =>
        /\ Written(c).anchor = "fresh" /\ Written(c).stage = c.stage /\ c.stage \in DOMAIN seg
        /\ Ticked(Written(c)) /\ c.left = Rebased(Written(c).age, seg[c.stage])

LEMMA SubmitsClock ==
    ASSUME NEW seg, NEW c, IsCtl(c), NEW h \in Histories, NEW anchored, NEW cost,
           Submits(c, h, anchored, cost),
           anchored /\ (h.exact \/ c.window # ctl.window) => Winds(seg, c)
    PROVE  ClockHolds(seg)' /\ (up' = "live" => Level(c, ctl'))
<1>1. CASE /\ rec' = Written(c) /\ ctl' = [c EXCEPT !.out = << >>] /\ up' = "live"
           /\ hist' = Stamped(h, anchored /\ (h.exact \/ c.window # ctl.window), c.left)
  <2>1. Level(c, ctl')
        BY <1>1 DEF IsCtl, Fields, Level
  <2>. DEFINE x == anchored /\ (h.exact \/ c.window # ctl.window)
  <2>2. CASE ~x
    <3>1. hist' = [h EXCEPT !.exact = FALSE, !.left = 0]
          BY <1>1, <2>2 DEF Stamped
    <3>2. hist'.exact = FALSE
          BY <3>1 DEF Histories
    <3>. QED  BY <2>1, <3>2 DEF ClockHolds
  <2>3. CASE x
    <3>1. hist' = [h EXCEPT !.exact = TRUE, !.left = c.left]
          BY <1>1, <2>3 DEF Stamped
    <3>2. hist'.left = c.left
          BY <3>1 DEF Histories
    <3>3. Winds(seg, c)
          BY <2>3
    <3>. HIDE DEF x
    <3>. QED  BY <1>1, <2>1, <3>2, <3>3 DEF ClockHolds, Winds, Level, Ticked
  <2>. QED  BY <2>2, <2>3
<1>2. CASE \E n \in 1 .. Len(c.out) - 1 :
              /\ rec' = c.out[n] /\ Down(DOMAIN c.status) /\ Troubles(cost + 1)
              /\ hist' = [Stamped(h, FALSE, 0) EXCEPT !.cut = TRUE]
  <2>1. up' = "down" /\ hist' = [[h EXCEPT !.exact = FALSE, !.left = 0] EXCEPT !.cut = TRUE]
        BY <1>2 DEF Down, Stamped
  <2>2. PICK g : g = [h EXCEPT !.exact = FALSE, !.left = 0]
        OBVIOUS
  <2>3. g \in Histories /\ g.exact = FALSE
        BY <2>2 DEF Histories
  <2>4. hist'.exact = FALSE
        BY <2>1, <2>2, <2>3 DEF Histories
  <2>. QED  BY <2>1, <2>4 DEF ClockHolds
<1>. QED  BY <1>1, <1>2 DEF Submits

\* The clock of the store and that of the segment go alike.
LEMMA TimeTold ==
    ASSUME NEW k, Sound(k), NEW seg, IsSegments(seg), ClockHolds(seg), TimePasses
    PROVE  ClockHolds(seg)'
<1>1. ctl \in Controllers(k.stages) /\ rec \in Journals(k.stages) /\ hist \in Histories
      BY DEF Sound, Told
<1>2. CASE ctl.paused
  <2>1. hist' = [hist EXCEPT !.exact = FALSE, !.left = 0]
        BY <1>2 DEF TimePasses, Stamped
  <2>2. hist'.exact = FALSE
        BY <1>1, <2>1 DEF Histories
  <2>. QED  BY <2>2 DEF ClockHolds
<1>3. CASE ~ctl.paused
  <2>1. hist' = hist /\ up' = up /\ up = "live"
        BY <1>3 DEF TimePasses
  <2>2. /\ rec'.anchor = rec.anchor /\ rec'.stage = rec.stage /\ rec'.refused = rec.refused
        /\ rec'.elapsed = rec.elapsed
        /\ rec'.age = IF Counts(rec) THEN rec.age + 1 ELSE rec.age
        BY <1>1 DEF TimePasses, Journals
  <2>3. /\ ctl'.stage = ctl.stage
        /\ ctl'.left = IF ctl.left = 0 THEN ctl.left ELSE ctl.left - 1
        BY <1>1, <1>3 DEF TimePasses, Controllers
  <2>4. ASSUME hist.exact, ~rec.refused
        PROVE  ctl'.left = Rebased(rec'.age, seg[rec.stage])
    <3>1. /\ rec.anchor = "fresh" /\ rec.stage \in DOMAIN seg
          /\ ctl.left = Rebased(rec.age, seg[rec.stage])
          BY <2>1, <2>4 DEF ClockHolds
    <3>2. PICK d \in 1 .. MaxAge : d = seg[rec.stage]
          BY <3>1 DEF IsSegments
    <3>3. PICK a \in Nat, l \in Nat, m \in Nat : a = rec.age /\ l = ctl.left /\ m = MaxAge
          BY <1>1, FinalBoundsAssumption DEF Journals, Controllers
    <3>4. rec'.age = IF a < m THEN a + 1 ELSE a
          BY <2>2, <3>1, <3>3 DEF Counts
    <3>5. ctl'.left = IF l = 0 THEN 0 ELSE l - 1
          BY <2>3, <3>3
    <3>6. l = IF a >= d THEN 0 ELSE d - a
          BY <3>1, <3>2, <3>3 DEF Rebased
    <3>7. d \in Nat /\ d <= m
          BY <3>2, <3>3
    <3>8. ctl'.left = IF rec'.age >= d THEN 0 ELSE d - rec'.age
          BY <3>4, <3>5, <3>6, <3>7
    <3>. QED  BY <3>2, <3>8 DEF Rebased
  <2>. QED  BY <2>1, <2>2, <2>3, <2>4 DEF ClockHolds
<1>. QED  BY <1>2, <1>3

LEMMA IncidentTold ==
    ASSUME NEW k, Sound(k), NEW seg, ClockHolds(seg), IncidentToggled
    PROVE  ClockHolds(seg)'
<1>1. rec \in Journals(k.stages) /\ hist \in Histories
      BY DEF Sound, Told
<1>2. up = "live" /\ up' = up /\ ctl' = ctl
      BY DEF IncidentToggled
<1>3. /\ rec'.anchor = rec.anchor /\ rec'.stage = rec.stage /\ rec'.refused = rec.refused
      /\ rec'.elapsed = rec.age /\ rec'.age = rec.age
      BY <1>1 DEF IncidentToggled, Journals
<1>4. hist'.exact = hist.exact /\ (hist.exact => hist'.left = ctl.left)
      BY <1>1 DEF IncidentToggled, Stamped, Histories
<1>. QED  BY <1>2, <1>3, <1>4 DEF ClockHolds

\* Whatever leaves journal and history alone, and either the controller or its
\* process.
LEMMA ClockLeft ==
    ASSUME NEW seg, ClockHolds(seg), rec' = rec, hist' = hist,
           up' = "live" => up = "live" /\ ctl'.stage = ctl.stage /\ ctl'.left = ctl.left
    PROVE  ClockHolds(seg)'
BY DEF ClockHolds

\* A resume has the clock of an older process.
LEMMA ClockLost ==
    ASSUME NEW seg, hist \in Histories, hist' = Stamped(hist, FALSE, 0)
    PROVE  ClockHolds(seg)'
<1>1. hist'.exact = FALSE
      BY DEF Stamped, Histories
<1>. QED  BY <1>1 DEF ClockHolds

\* What a live controller's window says of a match that has begun at ctl.
LEMMA ClockAt ==
    ASSUME NEW k, Sound(k), up = "live", rec.life = "Active"
    PROVE  Runs(ctl) /\ Written(ctl) = rec
<1>1. ctl \in Controllers(k.stages) /\ ctl.out = << >> /\ rec \in Journals(k.stages)
      BY DEF Sound, Told
<1>2. Written(ctl) = rec
      BY <1>1 DEF Written
<1>3. DOMAIN ctl = Fields /\ ctl.out \in Seq(Journals(k.stages))
      BY <1>1 DEF Controllers, Fields
<1>4. IsRec(rec)
      BY <1>1 DEF Journals, IsRec
<1>. QED  BY <1>2, <1>3, <1>4 DEF Runs, IsCtl

LEMMA QuietWinds ==
    ASSUME NEW seg, ClockHolds(seg), hist.exact, up = "live", NEW k, Sound(k), Written(ctl) = rec,
           NEW d, Onward(ctl, d, rec.stage), Ticked(Written(d)),
           d.stage = ctl.stage, d.left = ctl.left
    PROVE  Winds(seg, d)
<1>1. SUFFICES ASSUME Written(d).refused # TRUE PROVE Winds(seg, d)
      BY DEF Winds
<1>2. rec.refused \in BOOLEAN /\ rec.refused # TRUE
      BY <1>1 DEF Onward, Later, Sound, Told, Journals
<1>. QED  BY <1>2 DEF ClockHolds, Winds, Onward, Later

\* issueCommand, closeWindowAndStop, and what only adjusts the controller.
LEMMA CommandTurned ==
    ASSUME NEW c, IsCtl(c), NEW d, d = IssueCommand(c)
    PROVE  IsCtl(d) /\ Level(c, d)
BY CtlChanged DEF IssueCommand

LEMMA CommandOnward ==
    ASSUME NEW c, Runs(c), NEW d, d = IssueCommand(c)
    PROVE  Onward(c, d, Written(c).stage) /\ Ticked(Written(d)) /\ Level(c, d)
<1>1. Mark \in Quiet /\ Whereto(Written(c), Mark) = Written(c).stage
      BY DEF Quiet, Whereto, Mark
<1>. QED  BY <1>1, QuietEmitted DEF IssueCommand

LEMMA StopTurned ==
    ASSUME NEW c, IsCtl(c), NEW d, d = CloseWindowAndStop(c)
    PROVE  IsCtl(d) /\ d.window = "Closed" /\ d.stage = c.stage
<1>1. PICK b : b = SetWindow(c, "Closed")
      OBVIOUS
<1>2. IsCtl(b) /\ b.window = "Closed" /\ b.stage = c.stage
      BY <1>1, WindowTurned
<1>3. d = IssueCommand(b)
      BY <1>1 DEF CloseWindowAndStop
<1>. QED  BY <1>2, <1>3, CommandTurned DEF Level

LEMMA LeftAdjusted ==
    ASSUME NEW c, IsCtl(c), NEW y, NEW d, d = [c EXCEPT !.left = y]
    PROVE  IsCtl(d) /\ Written(d) = Written(c) /\ d.stage = c.stage /\ d.window = c.window
           /\ d.left = y
<1>1. DOMAIN d = Fields /\ d.out = c.out /\ d.stage = c.stage /\ d.window = c.window
      /\ d.left = y
      BY DEF IsCtl, Fields
<1>. QED  BY <1>1 DEF IsCtl, Written

LEMMA ModeAdjusted ==
    ASSUME NEW c, IsCtl(c), NEW m, NEW d, d = [c EXCEPT !.mode = m]
    PROVE  IsCtl(d) /\ Written(d) = Written(c) /\ Level(c, d)
<1>1. DOMAIN d = Fields /\ d.out = c.out /\ Level(c, d)
      BY DEF IsCtl, Fields, Level
<1>. QED  BY <1>1 DEF IsCtl, Written
\* A final begins with a journal of its own.
LEMMA BeginningRuns ==
    ASSUME NEW stages, NEW c, c = [NewCtl(stages) EXCEPT !.out = <<NewRec(stages)>>]
    PROVE  Runs(c) /\ c.window = "Closed"
<1>1. PICK r : r = NewRec(stages)
      OBVIOUS
<1>2. IsRec(r) /\ r.life = "Active"
      BY <1>1 DEF NewRec, IsRec
<1>3. DOMAIN c = Fields /\ c.out = <<r>> /\ c.window = "Closed"
      BY <1>1 DEF NewCtl, Fields
<1>4. <<r>> \in Seq({r}) /\ <<r>> # << >> /\ Last(<<r>>) = r
      BY DEF Last
<1>5. IsCtl(c) /\ Written(c) = r
      BY <1>3, <1>4 DEF IsCtl, Written
<1>. QED  BY <1>2, <1>3, <1>5 DEF Runs

-----------------------------------------------------------------------------
(* The clock of the 3-position final.                                      *)

Seg3 == [s \in {2, 3} \cup F3!Commanded |->
            IF s = 2 THEN Durations["Prep"] ELSE IF s = 3 THEN Durations["Stage1"]
            ELSE F3!WindowMs(s)]

\* Before its clock is started a segment has no window.
Shut3(c) ==
    (c.stage = 3 /\ c.seqStep = 0) \/ (c.stage \in F3!Commanded /\ c.seqStep \in {0, 1}) =>
        c.window = "Closed"
Clock3 == ClockHolds(Seg3) /\ (up = "live" => Shut3(ctl))

LEMMA DurationsBounded == \A g \in Segments : Durations[g] \in 1 .. MaxAge
BY FinalBoundsAssumption

LEMMA Segments3 == IsSegments(Seg3) /\ DOMAIN Seg3 = {2, 3} \cup F3!Commanded
<1>1. \A s : F3!WindowMs(s) \in 1 .. MaxAge
      BY DurationsBounded DEF F3!WindowMs, Segments
<1>2. Durations["Prep"] \in 1 .. MaxAge /\ Durations["Stage1"] \in 1 .. MaxAge
      BY DurationsBounded DEF Segments
<1>. QED  BY <1>1, <1>2 DEF Seg3, IsSegments

\* A controller whose segment has no window of its own, or none that is open.
Rests3(c) == c.window = "Closed" \/ c.stage \notin {2, 3} \cup F3!Commanded

LEMMA HandledClock3 ==
    ASSUME FinalInv3, NEW d, IsCtl(d), NEW cost, F3!HandlesAt(d, cost), Shut3(d),
           ~Rests3(d) /\ (hist.exact \/ d.window # ctl.window) => Winds(Seg3, d)
    PROVE  Clock3'
<1>1. PICK h \in Histories : h = hist
      BY DEF FinalInv3, Sound
<1>2. PICK anchored : anchored = F3!Anchored(d)
      OBVIOUS
<1>3. Submits(d, h, anchored, cost)
      BY <1>1, <1>2, SameSubmits3 DEF F3!HandlesAt
<1>4. anchored => ~Rests3(d)
      BY <1>2, StagesOf3 DEF F3!Anchored, Rests3
<1>6. anchored /\ (h.exact \/ d.window # ctl.window) => Winds(Seg3, d)
      BY <1>1, <1>4
<1>5. ClockHolds(Seg3)' /\ (up' = "live" => Level(d, ctl'))
      BY <1>3, <1>6, SubmitsClock
<1>. QED  BY <1>5 DEF Clock3, Shut3, Level

LEMMA RestedClock3 ==
    ASSUME FinalInv3, NEW d, IsCtl(d), Rests3(d), NEW cost, F3!HandlesAt(d, cost)
    PROVE  Clock3'
<1>1. Shut3(d)
      BY DEF Shut3, Rests3
<1>. QED  BY <1>1, HandledClock3

\* enterStage: only the preparation begins with an open window that counts.
LEMMA PhaseTurned3 ==
    ASSUME NEW c, IsCtl(c), NEW s, NEW d, d = F3!SubmitStagePhase(c, s)
    PROVE  IsCtl(d) /\ Level(c, d)
<1>1. d = c \/ (\E e : d = Emit(c, e)) \/ (\E e, f : d = Emit(Emit(c, e), f))
      BY SameHelpers3 DEF F3!SubmitStagePhase
<1>2. Level(c, c)
      BY DEF Level
<1>3. \A e, f : IsCtl(Emit(Emit(c, e), f)) /\ Level(Emit(c, e), Emit(Emit(c, e), f))
      BY CtlChanged
<1>4. \A e : IsCtl(Emit(c, e)) /\ Level(c, Emit(c, e))
      BY CtlChanged
<1>. QED  BY <1>1, <1>2, <1>3, <1>4 DEF Level

LEMMA PreparedRests3 ==
    ASSUME NEW c, IsCtl(c), c.stage \in {1, 2, 3, 4, 5, 6} \cup F3!Commanded, NEW cer, NEW d,
           d = F3!Prepared(c, cer)
    PROVE  IsCtl(d) /\ d.stage = c.stage /\ (d.stage # 2 => Rests3(d))
<1>1. PICK a : a = IssueCommand(c)
      OBVIOUS
<1>2. IsCtl(a) /\ a.stage = c.stage
      BY <1>1, CommandTurned DEF Level
<1>3. PICK m : m = [a EXCEPT !.mode = "Sighter"]
      OBVIOUS
<1>4. IsCtl(m) /\ m.stage = c.stage
      BY <1>2, <1>3, ModeAdjusted DEF Level
<1>5. CASE c.stage \in {4, 5, 6}
  <2>1. PICK w : d = SetWindow(c, w)
    <3>1. d = SetWindow(c, "SightingOpen") \/ d = SetWindow(c, "MatchOpen")
          BY <1>5, StagesOf3, SameHelpers3 DEF F3!Prepared
    <3>. QED  BY <3>1
  <2>2. IsCtl(d) /\ d.stage = c.stage
        BY <2>1, WindowTurned
  <2>. QED  BY <1>5, <2>2, StagesOf3 DEF Rests3
<1>6. CASE c.stage \in {1, 2, 3} \cup F3!Commanded
  <2>1. CASE c.stage = 1
    <3>1. PICK n, t : n = (IF cer = "Full" THEN 0 ELSE 1)
                      /\ t = Durations[IF cer = "Full" THEN "Intro" ELSE "Hold"]
          OBVIOUS
    <3>2. d = [F3!SetWindow(F3!IssueCommand(c), "Closed") EXCEPT !.seqStep = n, !.left = t]
          BY <2>1, <3>1, StagesOf3 DEF F3!Prepared
    <3>3. d = [SetWindow(a, "Closed") EXCEPT !.seqStep = n, !.left = t]
          BY <1>1, <3>2, SameHelpers3
    <3>4. PICK v : v = SetWindow(a, "Closed")
          OBVIOUS
    <3>5. IsCtl(v) /\ v.stage = c.stage /\ v.window = "Closed"
          BY <1>2, <3>4, WindowTurned
    <3>6. d = [v EXCEPT !.seqStep = n, !.left = t]
          BY <3>3, <3>4
    <3>7. DOMAIN d = Fields /\ d.out = v.out /\ d.stage = v.stage /\ d.window = v.window
          BY <3>5, <3>6 DEF IsCtl, Fields
    <3>8. IsCtl(d) /\ d.stage = c.stage /\ d.window = "Closed"
          BY <3>5, <3>7 DEF IsCtl
    <3>. QED  BY <3>8 DEF Rests3
  <2>2. CASE c.stage = 2
    <3>1. PICK t : t = Durations["Prep"]
          OBVIOUS
    <3>2. d = [F3!SetWindow([F3!IssueCommand(c) EXCEPT !.mode = "Sighter"], "SightingOpen")
                  EXCEPT !.left = t]
          BY <2>2, <3>1, StagesOf3 DEF F3!Prepared
    <3>3. d = [SetWindow(m, "SightingOpen") EXCEPT !.left = t]
          BY <1>1, <1>3, <3>2, SameHelpers3
    <3>4. PICK v : v = SetWindow(m, "SightingOpen")
          OBVIOUS
    <3>5. IsCtl(v) /\ v.stage = c.stage /\ v.window = "SightingOpen"
          BY <1>4, <3>4, WindowTurned
    <3>6. d = [v EXCEPT !.left = t]
          BY <3>3, <3>4
    <3>7. IsCtl(d) /\ d.stage = c.stage
          BY <3>5, <3>6, LeftAdjusted
    <3>. QED  BY <2>2, <3>7
  <2>3. CASE c.stage = 3
    <3>1. PICK t : t = Durations["Load"]
          OBVIOUS
    <3>2. d = [SetWindow(a, "Closed") EXCEPT !.left = t]
          BY <1>1, <2>3, <3>1, StagesOf3, SameHelpers3 DEF F3!Prepared
    <3>3. PICK v : v = SetWindow(a, "Closed")
          OBVIOUS
    <3>4. IsCtl(v) /\ v.stage = c.stage /\ v.window = "Closed"
          BY <1>2, <3>3, WindowTurned
    <3>5. d = [v EXCEPT !.left = t]
          BY <3>2, <3>3
    <3>6. IsCtl(d) /\ d.stage = c.stage /\ d.window = "Closed"
          BY <3>4, <3>5, LeftAdjusted
    <3>. QED  BY <3>6 DEF Rests3
  <2>4. CASE c.stage \in F3!Commanded
    <3>1. PICK t : t = Durations[IF c.stage = F3!Series1 THEN "PreGap" ELSE "Gap"]
          OBVIOUS
    <3>2. d = BeginCommandSequence(c, t)
          BY <2>4, <3>1, StagesOf3, SameHelpers3 DEF F3!Prepared
    <3>3. PICK n : d = [SetWindow(c, "Closed") EXCEPT !.seqStep = n, !.left = t]
          BY <3>2 DEF BeginCommandSequence
    <3>4. PICK v : v = SetWindow(c, "Closed")
          OBVIOUS
    <3>5. IsCtl(v) /\ v.stage = c.stage /\ v.window = "Closed"
          BY <3>4, WindowTurned
    <3>6. d = [v EXCEPT !.seqStep = n, !.left = t]
          BY <3>3, <3>4
    <3>7. DOMAIN d = Fields /\ d.out = v.out /\ d.stage = v.stage /\ d.window = v.window
          BY <3>5, <3>6 DEF IsCtl, Fields
    <3>8. IsCtl(d) /\ d.stage = c.stage /\ d.window = "Closed"
          BY <3>5, <3>7 DEF IsCtl
    <3>. QED  BY <3>8 DEF Rests3
  <2>. QED  BY <1>6, <2>1, <2>2, <2>3, <2>4
<1>. QED  BY <1>5, <1>6

LEMMA CompletedRests ==
    ASSUME NEW c, IsCtl(c), NEW d,
           d = Emit(IssueCommand(IssueCommand([SetWindow(c, "Closed") EXCEPT !.left = 0])),
                    MatchCompleted)
    PROVE  IsCtl(d) /\ d.window = "Closed" /\ d.stage = c.stage
<1>1. PICK v : v = SetWindow(c, "Closed")
      OBVIOUS
<1>2. IsCtl(v) /\ v.window = "Closed" /\ v.stage = c.stage
      BY <1>1, WindowTurned
<1>3. PICK l, y : l = [v EXCEPT !.left = y] /\ y = 0
      OBVIOUS
<1>4. IsCtl(l) /\ l.window = "Closed" /\ l.stage = c.stage
      BY <1>2, <1>3, LeftAdjusted
<1>5. PICK a : a = IssueCommand(l)
      OBVIOUS
<1>6. IsCtl(a) /\ Level(l, a)
      BY <1>4, <1>5, CommandTurned
<1>7. PICK b : b = IssueCommand(a)
      OBVIOUS
<1>8. IsCtl(b) /\ Level(a, b)
      BY <1>6, <1>7, CommandTurned
<1>9. d = Emit(b, MatchCompleted)
      BY <1>1, <1>3, <1>5, <1>7
<1>10. IsCtl(d) /\ Level(b, d)
       BY <1>8, <1>9, CtlChanged
<1>. QED  BY <1>4, <1>6, <1>8, <1>10 DEF Level

LEMMA EnterRests3 ==
    ASSUME NEW c, IsCtl(c), NEW s \in 1 .. F3!Complete, NEW cer, NEW d, d = F3!EnterStageAs(c, s, cer)
    PROVE  IsCtl(d) /\ d.stage = s /\ (s # 2 => Rests3(d))
<1>1. PICK a : a = F3!Entering(c, s)
      OBVIOUS
<1>2. IsCtl(a) /\ a.stage = s
  <2>1. DOMAIN a = Fields /\ a.out = c.out /\ a.stage = s
        BY <1>1 DEF IsCtl, Fields, F3!Entering
  <2>. QED  BY <2>1 DEF IsCtl
<1>3. PICK b : b = IF F3!StageShotLimit(s) > 0 THEN SetStageStatus(a, s, "InProgress") ELSE a
      OBVIOUS
<1>4. IsCtl(b) /\ b.stage = s
      BY <1>2, <1>3, StatusTurned DEF Level
<1>5. d = IF s = F3!Complete THEN F3!Completed(b)
          ELSE Emit(F3!SubmitStagePhase(F3!Prepared(b, cer), s), Entered(s))
      BY <1>1, <1>3, SameHelpers3 DEF F3!EnterStageAs
<1>6. CASE s = F3!Complete
  <2>1. d = Emit(IssueCommand(IssueCommand([SetWindow(b, "Closed") EXCEPT !.left = 0])),
                 MatchCompleted)
        BY <1>5, <1>6, SameHelpers3 DEF F3!Completed
  <2>. QED  BY <1>4, <2>1, CompletedRests DEF Rests3
<1>7. CASE s # F3!Complete
  <2>1. s \in {1, 2, 3, 4, 5, 6} \cup F3!Commanded
        BY <1>7, StagesOf3
  <2>2. PICK p : p = F3!Prepared(b, cer)
        OBVIOUS
  <2>3. IsCtl(p) /\ p.stage = s /\ (s # 2 => Rests3(p))
        BY <1>4, <2>1, <2>2, PreparedRests3
  <2>4. PICK q : q = F3!SubmitStagePhase(p, s)
        OBVIOUS
  <2>5. IsCtl(q) /\ Level(p, q)
        BY <2>3, <2>4, PhaseTurned3
  <2>6. d = Emit(q, Entered(s))
        BY <1>5, <1>7, <2>2, <2>4
  <2>7. IsCtl(d) /\ Level(q, d)
        BY <2>5, <2>6, CtlChanged
  <2>. QED  BY <2>3, <2>5, <2>7 DEF Level, Rests3
<1>. QED  BY <1>6, <1>7

\* The preparation: PREPARATION AND SIGHTING starts its clock with its window.
LEMMA EnterPrep3 ==
    ASSUME NEW c, Runs(c), c.window # "SightingOpen", NEW cer, NEW d, d = F3!EnterStageAs(c, 2, cer)
    PROVE  Winds(Seg3, d) /\ d.window = "SightingOpen"
<1>1. PICK a : a = [c EXCEPT !.stage = 2, !.seqStep = 0, !.shots = 0]
      OBVIOUS
<1>2. IsCtl(a) /\ Written(a) = Written(c) /\ a.stage = 2 /\ a.window = c.window
  <2>1. DOMAIN a = Fields /\ a.out = c.out /\ a.stage = 2 /\ a.window = c.window
        BY <1>1 DEF Runs, IsCtl, Fields
  <2>. QED  BY <2>1 DEF Runs, IsCtl, Written
<1>3. F3!StageShotLimit(2) = 0
  <2>1. 2 # 3 /\ 2 # 5 /\ 2 \notin 7 .. 9 - 1 /\ 2 \notin 9 .. (9 + Singles3P) - 1
        BY StagesOf3
  <2>. QED  BY <2>1, StagesOf3 DEF F3!StageShotLimit
<1>4. PICK i : i = IssueCommand(a)
      OBVIOUS
<1>5. Runs(i) /\ i.window = c.window /\ i.stage = 2
  <2>1. Runs(a)
        BY <1>2 DEF Runs
  <2>. QED  BY <1>2, <1>4, <2>1, CommandOnward DEF Onward, Level
<1>6. PICK m : m = [i EXCEPT !.mode = "Sighter"]
      OBVIOUS
<1>7. Runs(m) /\ m.window = c.window /\ m.stage = 2
  <2>1. IsCtl(m) /\ Written(m) = Written(i) /\ Level(i, m)
        BY <1>5, <1>6, ModeAdjusted DEF Runs
  <2>. QED  BY <1>5, <2>1 DEF Runs, Level
<1>8. PICK w : w = SetWindow(m, "SightingOpen")
      OBVIOUS
<1>9. /\ Runs(w) /\ Written(w).anchor = "fresh" /\ Written(w).age = 0
      /\ w.window = "SightingOpen" /\ w.stage = 2
      BY <1>7, <1>8, WindowWinds, WindowTurned DEF Runs
<1>10. PICK l, y : l = [w EXCEPT !.left = y] /\ y = Durations["Prep"]
       OBVIOUS
<1>11. /\ Runs(l) /\ Written(l).anchor = "fresh" /\ Written(l).age = 0
       /\ l.window = "SightingOpen" /\ l.stage = 2 /\ l.left = Durations["Prep"]
  <2>1. IsCtl(l) /\ Written(l) = Written(w) /\ l.stage = 2 /\ l.window = "SightingOpen"
        /\ l.left = y
        BY <1>9, <1>10, LeftAdjusted DEF Runs
  <2>. QED  BY <1>9, <1>10, <2>1 DEF Runs
<1>12. d = Emit(Emit(Emit(l, Phase("Preparation", 2)), Phase("Sighting", 2)), Entered(2))
  <2>1. d = F3!Emit(F3!SubmitStagePhase(F3!Prepared(a, cer), 2), F3!Entered(2))
        BY <1>1, <1>3, StagesOf3 DEF F3!EnterStageAs, F3!Entering
  <2>2. F3!Prepared(a, cer) =
            [F3!SetWindow([F3!IssueCommand(a) EXCEPT !.mode = "Sighter"], "SightingOpen")
                EXCEPT !.left = Durations["Prep"]]
        BY <1>2, StagesOf3 DEF F3!Prepared
  <2>3. F3!Prepared(a, cer) = l
        BY <1>4, <1>6, <1>8, <1>10, <2>2, SameHelpers3
  <2>4. F3!SubmitStagePhase(l, 2) =
            F3!Emit(F3!Emit(l, F3!Phase("Preparation", 2)), F3!Phase("Sighting", 2))
        BY StagesOf3 DEF F3!SubmitStagePhase
  <2>. QED  BY <2>1, <2>3, <2>4, SameHelpers3
<1>13. PICK e : e = Emit(l, Phase("Preparation", 2))
       OBVIOUS
<1>14. PICK f : f = Emit(e, Phase("Sighting", 2))
       OBVIOUS
<1>15. /\ Phase("Preparation", 2) \in Quiet /\ Phase("Sighting", 2) \in Quiet /\ Entered(2) \in Quiet
       /\ \A r : Whereto(r, Entered(2)) = 2
  <2>1. "Preparation" \in Phases /\ "Sighting" \in Phases
        BY DEF Phases
  <2>. QED  BY <2>1 DEF Quiet, Whereto, Entered
<1>16. Runs(e) /\ Later(Written(l), Written(e)) /\ Level(l, e)
       BY <1>11, <1>13, <1>15, QuietEmitted DEF Onward
<1>17. Runs(f) /\ Later(Written(e), Written(f)) /\ Level(e, f)
       BY <1>14, <1>15, <1>16, QuietEmitted DEF Onward
<1>18. d = Emit(f, Entered(2))
       BY <1>12, <1>13, <1>14
<1>19. /\ Later(Written(f), Written(d)) /\ Level(f, d) /\ Ticked(Written(d))
       /\ Written(d).stage = 2
       BY <1>15, <1>17, <1>18, QuietEmitted DEF Onward
<1>20. Written(d).anchor = "fresh" /\ Written(d).age = 0 /\ d.stage = 2
       /\ d.left = Durations["Prep"] /\ d.window = "SightingOpen"
       BY <1>11, <1>16, <1>17, <1>19 DEF Later, Level
<1>21. Rebased(0, Seg3[2]) = Durations["Prep"]
  <2>1. PICK p \in 1 .. MaxAge : p = Durations["Prep"]
        BY DurationsBounded DEF Segments
  <2>2. Seg3[2] = p
        BY <2>1 DEF Seg3
  <2>. QED  BY <2>1, <2>2, FinalBoundsAssumption DEF Rebased
<1>. QED  BY <1>19, <1>20, <1>21, Segments3 DEF Winds

LEMMA CtlOf ==
    ASSUME NEW stages, NEW c \in Controllers(stages)
    PROVE  IsCtl(c)
<1>1. DOMAIN c = Fields /\ c.out \in Seq(Journals(stages))
      BY DEF Controllers, Fields
<1>. QED  BY <1>1 DEF IsCtl

LEMMA MissingTurned ==
    ASSUME NEW c, IsCtl(c), NEW base, NEW shots \in Nat, NEW limit \in Nat,
           NEW d, d = MissingRange(c, base, shots, limit)
    PROVE  IsCtl(d) /\ Level(c, d)
<1>. DEFINE m == limit - shots
            g(i) == Apply(Written(c), Missing([n \in 1 .. i |-> base + shots + n]))
            f == [i \in 1 .. m |-> g(i)]
<1>1. PICK S : c.out \in Seq(S)
      BY DEF IsCtl
<1>2. PICK T : T = S \cup {g(i) : i \in 1 .. m}
      OBVIOUS
<1>3. d = [c EXCEPT !.out = c.out \o f]
      BY DEF MissingRange
<1>. HIDE DEF g
<1>4. PICK n \in Nat : 1 .. m = 1 .. n
  <2>1. CASE m \in Nat
        BY <2>1
  <2>2. CASE m \notin Nat
    <3>1. 1 .. m = 1 .. 0
          BY <2>2
    <3>. QED  BY <3>1
  <2>. QED  BY <2>1, <2>2
<1>5. f \in [1 .. n -> T]
      BY <1>2, <1>4
<1>6. f \in Seq(T)
      BY <1>5, SeqDef
<1>7. c.out \in Seq(T)
      BY <1>1, <1>2, SeqDef
<1>. HIDE DEF f
<1>8. c.out \o f \in Seq(T)
      BY <1>6, <1>7
<1>9. DOMAIN d = Fields /\ d.out = c.out \o f /\ Level(c, d)
      BY <1>3 DEF IsCtl, Fields, Level
<1>. QED  BY <1>8, <1>9 DEF IsCtl

LEMMA LevelRests3 ==
    ASSUME NEW c, NEW d, Level(c, d), Rests3(c)
    PROVE  Rests3(d)
BY DEF Level, Rests3

\* A handler that leaves the clock alone.
LEMMA LevelClock3 ==
    ASSUME FinalInv3, Clock3, up = "live", NEW d, IsCtl(d), Level(ctl, d),
           Runs(ctl) => Onward(ctl, d, rec.stage) /\ Ticked(Written(d)),
           NEW cost, F3!HandlesAt(d, cost)
    PROVE  Clock3'
<1>1. CASE ctl.window = "Closed"
  <2>1. Rests3(d)
        BY <1>1 DEF Rests3, Level
  <2>. QED  BY <2>1, RestedClock3
<1>2. CASE ctl.window # "Closed"
  <2>1. ctl.window \in {"MatchOpen", "SightingOpen"} /\ Stands3(ctl, rec) /\ Sound(Course3)
        BY <1>2 DEF FinalInv3, Sound, Controllers, Windows
  <2>2. ctl.stage \in {2, 3, 4, 5, 6} \cup 7 .. 8 + Singles3P
        BY <2>1, StagesOf3 DEF Stands3, Sighting3
  <2>3. F3!Running(ctl)
        BY <2>2, StagesOf3
  <2>4. Runs(ctl) /\ Written(ctl) = rec
        BY <2>1, <2>3, ClockAt DEF Stands3
  <2>5. Shut3(d)
        BY DEF Clock3, Shut3, Level
  <2>6. hist.exact => Winds(Seg3, d)
        BY <2>1, <2>4, QuietWinds DEF Clock3, Level
  <2>. QED  BY <2>5, <2>6, HandledClock3 DEF Level
<1>. QED  BY <1>1, <1>2

LEMMA ShotOnlyClock3 ==
    ASSUME FinalInv3, Clock3, F3!RegisterSighter \/ F3!RejectShot
    PROVE  Clock3'
<1>1. PICK cost : up = "live" /\ F3!HandlesAt(F3!Emit(ctl, F3!Mark), cost)
      BY DEF F3!RegisterSighter, F3!RejectShot, F3!Detected, F3!Handles
<1>2. PICK d : d = IssueCommand(ctl)
      OBVIOUS
<1>3. F3!HandlesAt(d, cost)
      BY <1>1, <1>2, SameHelpers3 DEF IssueCommand
<1>4. IsCtl(ctl) /\ Written(ctl) = rec
      BY CtlOf, <1>1, Begins DEF FinalInv3, Sound
<1>5. IsCtl(d) /\ Level(ctl, d)
      BY <1>2, <1>4, CommandTurned
<1>6. Runs(ctl) => Onward(ctl, d, rec.stage) /\ Ticked(Written(d))
      BY <1>2, <1>4, CommandOnward
<1>. QED  BY <1>1, <1>3, <1>5, <1>6, LevelClock3

LEMMA WarningClock3 ==
    ASSUME FinalInv3, Clock3, F3!Warning
    PROVE  Clock3'
<1>1. PICK a : a = IssueCommand(ctl)
      OBVIOUS
<1>2. PICK d : d = [a EXCEPT !.warned = @ + 1]
      OBVIOUS
<1>3. up = "live" /\ F3!HandlesAt(d, 0)
      BY <1>1, <1>2, SameHelpers3 DEF F3!Warning, F3!Handles, F3!Ticking
<1>4. IsCtl(ctl) /\ Written(ctl) = rec
      BY CtlOf, <1>3, Begins DEF FinalInv3, Sound
<1>5. IsCtl(a) /\ Level(ctl, a)
      BY <1>1, <1>4, CommandTurned
<1>6. IsCtl(d) /\ Level(a, d) /\ Written(d) = Written(a)
  <2>1. DOMAIN d = Fields /\ d.out = a.out /\ Level(a, d)
        BY <1>2, <1>5 DEF IsCtl, Fields, Level
  <2>. QED  BY <1>5, <2>1 DEF IsCtl, Written
<1>7. ASSUME Runs(ctl) PROVE Onward(ctl, d, rec.stage) /\ Ticked(Written(d))
  <2>1. Onward(ctl, a, rec.stage) /\ Ticked(Written(a))
        BY <1>1, <1>4, <1>7, CommandOnward
  <2>. QED  BY <1>6, <2>1 DEF Onward, Runs
<1>8. Level(ctl, d)
      BY <1>5, <1>6 DEF Level
<1>. QED  BY <1>3, <1>6, <1>7, <1>8, LevelClock3

\* The commands of the clock before a window opens.
LEMMA CommandClock3 ==
    ASSUME FinalInv3, Clock3, F3!TakeYourPositions \/ F3!LoadCommand
    PROVE  Clock3'
<1>1. PICK a : a = IssueCommand(ctl)
      OBVIOUS
<1>2. up = "live" /\ Rests3(ctl)
  <2>1. CASE F3!TakeYourPositions
        BY <2>1, StagesOf3 DEF F3!TakeYourPositions, F3!Due, F3!Ticking, Rests3
  <2>2. CASE F3!LoadCommand
        BY <2>2 DEF F3!LoadCommand, F3!Due, F3!Ticking, Clock3, Shut3, Rests3
  <2>. QED  BY <2>1, <2>2
<1>3. PICK d, x, y : d = [a EXCEPT !.seqStep = x, !.left = y] /\ F3!HandlesAt(d, 0)
  <2>1. CASE F3!TakeYourPositions
        BY <1>1, <2>1, SameHelpers3 DEF F3!TakeYourPositions, F3!Handles
  <2>2. CASE F3!LoadCommand
        BY <1>1, <2>2, SameHelpers3 DEF F3!LoadCommand, F3!Handles
  <2>. QED  BY <2>1, <2>2
<1>4. IsCtl(a) /\ Level(ctl, a)
  <2>1. IsCtl(ctl)
        BY CtlOf DEF FinalInv3, Sound
  <2>. QED  BY <1>1, <2>1, CommandTurned
<1>5. IsCtl(d) /\ d.stage = ctl.stage /\ d.window = ctl.window
  <2>1. DOMAIN d = Fields /\ d.out = a.out /\ d.stage = a.stage /\ d.window = a.window
        BY <1>3, <1>4 DEF IsCtl, Fields
  <2>. QED  BY <1>4, <2>1 DEF IsCtl, Level
<1>. QED  BY <1>2, <1>3, <1>5, RestedClock3 DEF Rests3

\* A window that opens starts the clock of its segment.
LEMMA OpensClock3 ==
    ASSUME FinalInv3, Clock3, F3!MatchFiringStart \/ F3!StartCommand
    PROVE  Clock3'
<1>1. /\ up = "live" /\ F3!Running(ctl) /\ ctl.stage \in {3} \cup F3!Commanded
      /\ ctl.window = "Closed"
      BY StagesOf3 DEF F3!MatchFiringStart, F3!StartCommand, F3!Due, F3!Ticking, Clock3, Shut3
<1>2. Runs(ctl) /\ Written(ctl) = rec /\ rec.stage = ctl.stage
  <2>1. Sound(Course3)
        BY DEF FinalInv3
  <2>. QED  BY <1>1, <2>1, InRunning3, ClockAt
<1>3. PICK a : a = IssueCommand(ctl)
      OBVIOUS
<1>4. Runs(a) /\ Level(ctl, a) /\ Written(a).stage = ctl.stage
      BY <1>2, <1>3, CommandOnward DEF Onward
<1>6. Seg3[ctl.stage] = IF ctl.stage = 3 THEN Durations["Stage1"] ELSE F3!WindowMs(ctl.stage)
      BY <1>1, StagesOf3 DEF Seg3
<1>7. ASSUME NEW m, m = a \/ m = [a EXCEPT !.mode = "Match"],
             NEW w, w = SetWindow(m, "MatchOpen"), NEW d,
             DOMAIN d = DOMAIN w, d.out = w.out, d.stage = w.stage, d.window = w.window,
             d.left = Seg3[ctl.stage],
             IF ctl.stage = 3 THEN d.seqStep = 1 ELSE d.seqStep = 2, F3!HandlesAt(d, 0)
      PROVE  Clock3'
  <2>1. Runs(m) /\ Written(m) = Written(a) /\ m.stage = ctl.stage /\ m.window = "Closed"
    <3>1. CASE m = a
          BY <1>1, <1>4, <3>1 DEF Level
    <3>2. CASE m = [a EXCEPT !.mode = "Match"]
      <4>1. IsCtl(m) /\ Written(m) = Written(a) /\ Level(a, m)
            BY <1>4, <3>2, ModeAdjusted DEF Runs
      <4>. QED  BY <1>1, <1>4, <4>1 DEF Level, Runs
    <3>. QED  BY <1>7, <3>1, <3>2
  <2>2. /\ Runs(w) /\ Ticked(Written(w)) /\ Written(w).stage = ctl.stage
        /\ Written(w).anchor = "fresh" /\ Written(w).age = 0
        BY <1>4, <1>7, <2>1, WindowWinds
  <2>3. IsCtl(w) /\ w.window = "MatchOpen" /\ w.stage = ctl.stage
        BY <1>7, <2>1, WindowTurned DEF Runs
  <2>4. IsCtl(d) /\ Written(d) = Written(w)
        BY <1>7, <2>3 DEF IsCtl, Written
  <2>5. Rebased(0, Seg3[ctl.stage]) = Seg3[ctl.stage]
    <3>1. Seg3[ctl.stage] \in 1 .. MaxAge
          BY <1>1, Segments3 DEF IsSegments
    <3>. QED  BY <3>1, FinalBoundsAssumption DEF Rebased
  <2>6. Winds(Seg3, d)
        BY <1>1, <1>7, <2>2, <2>3, <2>4, <2>5, Segments3 DEF Winds
  <2>7. Shut3(d)
        BY <1>7, <2>3, StagesOf3 DEF Shut3
  <2>. QED  BY <1>7, <2>4, <2>6, <2>7, HandledClock3
<1>8. CASE F3!MatchFiringStart
  <2>1. ctl.stage = 3
        BY <1>8, StagesOf3 DEF F3!MatchFiringStart, F3!Due
  <2>2. PICK w : w = SetWindow(a, "MatchOpen")
        OBVIOUS
  <2>3. PICK d : d = [w EXCEPT !.seqStep = 1, !.started1 = TRUE, !.warned = 0,
                               !.left = Durations["Stage1"]]
        OBVIOUS
  <2>4. F3!HandlesAt(d, 0)
        BY <1>3, <1>8, <2>2, <2>3, SameHelpers3 DEF F3!MatchFiringStart, F3!Handles
  <2>5. IsCtl(w)
        BY <1>4, <2>2, WindowTurned DEF Runs
  <2>6. DOMAIN d = DOMAIN w /\ d.out = w.out /\ d.stage = w.stage /\ d.window = w.window
        /\ d.left = Durations["Stage1"] /\ d.seqStep = 1
        BY <2>3, <2>5 DEF IsCtl, Fields
  <2>. QED  BY <1>6, <1>7, <2>1, <2>2, <2>4, <2>6
<1>9. CASE F3!StartCommand
  <2>1. ctl.stage # 3
        BY <1>9, StagesOf3 DEF F3!StartCommand, F3!Due
  <2>2. PICK m : m = [a EXCEPT !.mode = "Match"]
        OBVIOUS
  <2>3. PICK w : w = SetWindow(m, "MatchOpen")
        OBVIOUS
  <2>4. PICK d : d = [w EXCEPT !.seqStep = 2, !.left = F3!WindowMs(ctl.stage)]
        OBVIOUS
  <2>5. F3!HandlesAt(d, 0)
        BY <1>3, <1>9, <2>2, <2>3, <2>4, SameHelpers3
        DEF F3!StartCommand, F3!Handles, OpenCommandWindow
  <2>6. IsCtl(m)
        BY <1>4, <2>2, ModeAdjusted DEF Runs
  <2>7. IsCtl(w)
        BY <2>3, <2>6, WindowTurned
  <2>8. DOMAIN d = DOMAIN w /\ d.out = w.out /\ d.stage = w.stage /\ d.window = w.window
        /\ d.left = F3!WindowMs(ctl.stage) /\ d.seqStep = 2
        BY <2>4, <2>7 DEF IsCtl, Fields
  <2>. QED  BY <1>6, <1>7, <2>1, <2>2, <2>3, <2>5, <2>8
<1>. QED  BY <1>8, <1>9

LEMMA PrepClock3 ==
    ASSUME FinalInv3, Clock3, F3!SkipCeremony \/ F3!HoldOver
    PROVE  Clock3'
<1>1. /\ up = "live" /\ ctl.stage = 1 /\ F3!HandlesAt(F3!EnterStageAs(ctl, 2, "Full"), 0)
      BY StagesOf3 DEF F3!SkipCeremony, F3!HoldOver, F3!Due, F3!Ticking, F3!Handles, F3!EnterStage
<1>2. PICK d : d = F3!EnterStageAs(ctl, 2, "Full")
      OBVIOUS
<1>3. Sound(Course3) /\ Stands3(ctl, rec) /\ F3!Running(ctl)
      BY <1>1, StagesOf3 DEF FinalInv3
<1>4. Runs(ctl) /\ Written(ctl) = rec /\ rec.stage = ctl.stage
      BY <1>1, <1>3, ClockAt DEF Stands3
<1>5. 2 \in 1 .. F3!Complete
      BY StagesOf3
<1>6. IsCtl(d) /\ d.stage = 2
      BY <1>2, <1>4, <1>5, EnterRests3 DEF Runs
<1>7. Shut3(d)
      BY <1>6, StagesOf3 DEF Shut3
<1>8. CASE ctl.window = "SightingOpen"
  <2>1. ctl.stage \in Sighting3
        BY <1>3, <1>8 DEF Stands3
  <2>. QED  BY <1>1, <2>1, StagesOf3 DEF Sighting3
<1>9. CASE ctl.window # "SightingOpen"
  <2>1. Winds(Seg3, d)
        BY <1>2, <1>4, <1>9, EnterPrep3
  <2>. QED  BY <1>1, <1>2, <1>6, <1>7, <2>1, HandledClock3
<1>. QED  BY <1>8, <1>9

LEMMA PrepStopClock3 ==
    ASSUME FinalInv3, F3!PrepStop
    PROVE  Clock3'
<1>1. PICK a : a = CloseWindowAndStop(ctl)
      OBVIOUS
<1>2. PICK b : b = [a EXCEPT !.mode = "Match"]
      OBVIOUS
<1>3. IsCtl(ctl)
      BY CtlOf DEF FinalInv3, Sound
<1>4. IsCtl(a)
      BY <1>1, <1>3, StopTurned
<1>5. IsCtl(b)
      BY <1>2, <1>4, ModeAdjusted
<1>6. PICK d : d = F3!EnterStageAs(b, 3, "Full")
      OBVIOUS
<1>7. F3!HandlesAt(d, 0)
      BY <1>1, <1>2, <1>6, SameHelpers3, StagesOf3 DEF F3!PrepStop, F3!Handles, F3!EnterStage
<1>8. 3 \in 1 .. F3!Complete
      BY StagesOf3
<1>9. IsCtl(d) /\ Rests3(d)
      BY <1>5, <1>6, <1>8, EnterRests3
<1>. QED  BY <1>7, <1>9, RestedClock3

LEMMA AdvanceClock3 ==
    ASSUME FinalInv3, F3!AdvanceStage1 \/ F3!DevForceAdvance
    PROVE  Clock3'
<1>1. PICK cost : F3!HandlesAt(F3!Stage1Advance(ctl), cost) /\ ctl.stage \in {3, 4, 5, 6}
      BY StagesOf3 DEF F3!AdvanceStage1, F3!DevForceAdvance, F3!CanAdvance, F3!Handles
<1>2. PICK d : d = F3!Stage1Advance(ctl)
      OBVIOUS
<1>3. IsCtl(ctl)
      BY CtlOf DEF FinalInv3, Sound
<1>4. IsCtl(d) /\ Rests3(d)
  <2>1. CASE ctl.stage \in {3, 4, 5}
    <3>1. PICK m \in {"Sighter", "Match"}, s \in {4, 5, 6} :
             /\ s = ctl.stage + 1 /\ m = (IF s = 5 THEN "Match" ELSE "Sighter")
             /\ d = F3!EnterStageAs([ctl EXCEPT !.mode = m], s, "Full")
      <4>1. CASE ctl.stage = 3
            BY <1>2, <4>1, StagesOf3 DEF F3!Stage1Advance, F3!EnterStage
      <4>2. CASE ctl.stage = 4
            BY <1>2, <4>2, StagesOf3 DEF F3!Stage1Advance, F3!EnterStage
      <4>3. CASE ctl.stage = 5
            BY <1>2, <4>3, StagesOf3 DEF F3!Stage1Advance, F3!EnterStage
      <4>. QED  BY <2>1, <4>1, <4>2, <4>3
    <3>2. PICK b : b = [ctl EXCEPT !.mode = m]
          OBVIOUS
    <3>3. IsCtl(b)
          BY <1>3, <3>2, ModeAdjusted
    <3>4. s \in 1 .. F3!Complete /\ s # 2
          BY StagesOf3
    <3>. QED  BY <3>1, <3>2, <3>3, <3>4, EnterRests3
  <2>2. CASE ctl.stage = 6
    <3>1. PICK b : b = [ctl EXCEPT !.mode = "Match"]
          OBVIOUS
    <3>2. IsCtl(b)
          BY <1>3, <3>1, ModeAdjusted
    <3>3. d = SetWindow(b, "Closed")
          BY <1>2, <2>2, <3>1, SameHelpers3, StagesOf3 DEF F3!Stage1Advance
    <3>. QED  BY <3>2, <3>3, WindowTurned DEF Rests3
  <2>. QED  BY <1>1, <2>1, <2>2
<1>. QED  BY <1>1, <1>2, <1>4, RestedClock3

LEMMA VerdictTurned3 ==
    ASSUME NEW c, IsCtl(c), NEW s, NEW n, NEW d, d = F3!SetVerdict(c, s, n)
    PROVE  IsCtl(d) /\ Level(c, d)
<1>1. PICK v : d = SetStageStatus(c, s, v)
      BY SameHelpers3 DEF F3!SetVerdict
<1>. QED  BY <1>1, StatusTurned

LEMMA RangeTurned3 ==
    ASSUME NEW c, IsCtl(c), NEW s \in F3!MatchStages, NEW n \in Nat, NEW d, d = F3!AddRange(c, s, n)
    PROVE  IsCtl(d) /\ Level(c, d)
<1>1. F3!StageShotLimit(s) \in Nat
      BY LimitsOf3
<1>2. d = MissingRange(c, F3!StageShotNumberBase(s), n, F3!StageShotLimit(s))
      BY SameHelpers3 DEF F3!AddRange
<1>. QED  BY <1>1, <1>2, MissingTurned

\* A stage that is over goes on to the next, whose window is still closed.
LEMMA ExpiredClock3 ==
    ASSUME FinalInv3, F3!CommandExpired
    PROVE  Clock3'
<1>1. PICK s \in F3!Commanded : s = ctl.stage
      BY DEF F3!CommandExpired, F3!Due
<1>2. IsCtl(ctl) /\ ctl.shots \in Nat
      BY CtlOf DEF FinalInv3, Sound, Controllers
<1>3. PICK a : a = F3!AddRange(ctl, s, ctl.shots)
      OBVIOUS
<1>4. IsCtl(a)
      BY <1>2, <1>3, StagesOf3, RangeTurned3
<1>5. PICK b : b = F3!SetVerdict(a, s, ctl.shots)
      OBVIOUS
<1>6. IsCtl(b)
      BY <1>4, <1>5, VerdictTurned3
<1>7. PICK e : e = CloseWindowAndStop(b)
      OBVIOUS
<1>8. IsCtl(e) /\ e.stage = s
  <2>1. Level(ctl, a) /\ Level(a, b)
        BY <1>1, <1>2, <1>3, <1>4, <1>5, StagesOf3, RangeTurned3, VerdictTurned3
  <2>. QED  BY <1>1, <1>6, <1>7, <2>1, StopTurned DEF Level
<1>9. PICK f : f = IssueCommand(e)
      OBVIOUS
<1>10. IsCtl(f)
       BY <1>8, <1>9, CommandTurned
<1>11. PICK d, t : d = F3!EnterStageAs(f, t, "Full") /\ t = s + 1
       OBVIOUS
<1>12. F3!HandlesAt(d, 0)
       BY <1>1, <1>3, <1>5, <1>7, <1>8, <1>9, <1>11, SameHelpers3
       DEF F3!CommandExpired, F3!Handles, F3!RecordMissingShots, F3!AdvanceAfterCommandStage,
           F3!EnterStage
<1>13. t \in 1 .. F3!Complete /\ t # 2
       BY <1>11, StagesOf3
<1>14. IsCtl(d) /\ Rests3(d)
       BY <1>10, <1>11, <1>13, EnterRests3
<1>. QED  BY <1>12, <1>14, RestedClock3

LEMMA StopClock3 ==
    ASSUME FinalInv3, F3!Stage1Stop
    PROVE  Clock3'
<1>1. PICK a : a = CloseWindowAndStop(ctl)
      OBVIOUS
<1>2. PICK b : b = [a EXCEPT !.mode = "Match"]
      OBVIOUS
<1>3. b.kneeling \in Nat /\ b.prone \in Nat /\ IsCtl(b)
  <2>1. IsCtl(ctl)
        BY CtlOf DEF FinalInv3, Sound
  <2>2. IsCtl(a)
        BY <1>1, <2>1, StopTurned
  <2>3. IsCtl(b)
        BY <1>2, <2>2, ModeAdjusted
  <2>4. up = "live" /\ F3!Running(ctl)
        BY StagesOf3 DEF F3!Stage1Stop, F3!Ticking
  <2>5. Step(Course3, rec, ~hist.cut, PassedAt(Course3, ctl.stage), ctl, a, "Closed", ctl.mode)
        BY <1>1, <2>4, InRunning3, StopStep
  <2>6. a \in Controllers(Course3.stages)
        BY <2>5 DEF Step, Steady, Handling
  <2>7. b.kneeling = a.kneeling /\ b.prone = a.prone /\ a.kneeling \in Nat /\ a.prone \in Nat
        BY <1>2, <2>6 DEF Controllers
  <2>. QED  BY <2>3, <2>7
<1>4. 3 \in F3!MatchStages /\ 5 \in F3!MatchStages
      BY StagesOf3
<1>5. PICK e : e = F3!AddRange(b, 3, b.kneeling)
      OBVIOUS
<1>6. PICK f : f = F3!AddRange(e, 5, b.prone)
      OBVIOUS
<1>7. PICK g : g = F3!SetVerdict(f, 3, b.kneeling)
      OBVIOUS
<1>8. PICK h : h = F3!SetVerdict(g, 5, b.prone)
      OBVIOUS
<1>9. IsCtl(e)
      BY <1>3, <1>4, <1>5, RangeTurned3
<1>10. IsCtl(f)
       BY <1>3, <1>4, <1>6, <1>9, RangeTurned3
<1>11. IsCtl(g)
       BY <1>7, <1>10, VerdictTurned3
<1>12. IsCtl(h)
       BY <1>8, <1>11, VerdictTurned3
<1>13. PICK d : d = F3!EnterStageAs(h, 7, "Full")
       OBVIOUS
<1>14. F3!HandlesAt(d, 0)
       BY <1>1, <1>2, <1>5, <1>6, <1>7, <1>8, <1>13, SameHelpers3, StagesOf3
       DEF F3!Stage1Stop, F3!Handles, F3!EnterStage, F3!RecordMissingStage1
<1>15. 7 \in 1 .. F3!Complete
       BY StagesOf3
<1>16. IsCtl(d) /\ Rests3(d)
       BY <1>12, <1>13, <1>15, EnterRests3
<1>. QED  BY <1>14, <1>16, RestedClock3

LEMMA AbortClock3 ==
    ASSUME FinalInv3, F3!AbortFinal
    PROVE  Clock3'
<1>1. PICK a : a = IF F3!StageShotLimit(ctl.stage) > 0
                   THEN SetStageStatus(ctl, ctl.stage, "Aborted") ELSE ctl
      OBVIOUS
<1>2. PICK b : b = SetWindow(a, "Closed")
      OBVIOUS
<1>3. PICK d : d = [b EXCEPT !.stage = F3!Aborted, !.left = 0]
      OBVIOUS
<1>4. F3!HandlesAt(d, 1)
      BY <1>1, <1>2, <1>3, SameHelpers3 DEF F3!AbortFinal
<1>5. IsCtl(ctl)
      BY CtlOf DEF FinalInv3, Sound
<1>6. IsCtl(a)
      BY <1>1, <1>5, StatusTurned
<1>7. IsCtl(b) /\ b.window = "Closed"
      BY <1>2, <1>6, WindowTurned
<1>8. DOMAIN d = Fields /\ d.out = b.out /\ d.window = "Closed"
      BY <1>3, <1>7 DEF IsCtl, Fields
<1>9. IsCtl(d) /\ Rests3(d)
      BY <1>7, <1>8 DEF IsCtl, Rests3
<1>. QED  BY <1>4, <1>9, RestedClock3

\* An official shot leaves the clock alone, or ends the stage.
LEMMA OfficialClock3 ==
    ASSUME FinalInv3, Clock3, F3!RegisterOfficial
    PROVE  Clock3'
<1>1. /\ up = "live" /\ F3!HandlesAt(F3!AcceptOfficial(ctl, fired + 1), 0)
      BY DEF F3!RegisterOfficial, F3!Detected, F3!Handles
<1>2. PICK s : s = ctl.stage
      OBVIOUS
<1>3. /\ IsCtl(ctl) /\ Written(ctl) = rec /\ s \in Int /\ ctl.shots \in Nat /\ fired + 1 \in Int
  <2>1. fired \in Nat /\ ctl.stage \in Int /\ ctl.shots \in Nat
        BY DEF FinalInv3, Sound, Controllers
  <2>. QED  BY <1>1, <1>2, <2>1, CtlOf, Begins DEF FinalInv3, Sound
<1>4. s \in F3!MatchStages /\ F3!StageShotNumberBase(s) \in Nat
  <2>1. ctl.window = "MatchOpen"
        BY DEF F3!RegisterOfficial
  <2>2. ctl.stage \in F3!MatchStages
        BY <1>1, <2>1 DEF FinalInv3, Stands3
  <2>. QED  BY <1>2, <2>2, LimitsOf3
<1>5. PICK n : n = [ctl EXCEPT !.shots = @ + 1, !.count = @ + 1,
                     !.kneeling = IF s = F3!KneelingMatch THEN ctl.shots + 1 ELSE @,
                     !.prone = IF s = F3!ProneMatch THEN ctl.shots + 1 ELSE @]
      OBVIOUS
<1>6. IsCtl(n) /\ Level(ctl, n) /\ Written(n) = rec /\ n.shots \in Nat
  <2>1. DOMAIN n = Fields /\ n.out = ctl.out /\ Level(ctl, n) /\ n.shots = ctl.shots + 1
        BY <1>3, <1>5 DEF IsCtl, Fields, Level
  <2>. QED  BY <1>3, <2>1 DEF IsCtl, Written
<1>7. PICK full \in BOOLEAN : (n.shots >= F3!StageShotLimit(s)) <=> full
      OBVIOUS
<1>8. PICK j : j = Judged(n, s, full)
      OBVIOUS
<1>9. IsCtl(j) /\ Level(n, j)
      BY <1>6, <1>8, StatusTurned DEF Level, Judged
<1>10. PICK e : e = Accepted(F3!StageShotNumberBase(s) + n.shots, fired + 1, s)
       OBVIOUS
<1>11. PICK t : t = Emit(j, e)
       OBVIOUS
<1>12. IsCtl(t) /\ Level(ctl, t)
       BY <1>6, <1>9, <1>11, CtlChanged DEF Level
<1>13. F3!AcceptOfficial(ctl, fired + 1) =
           IF full /\ s \in F3!Commanded
           THEN F3!AdvanceAfterCommandStage(CloseWindowAndStop(t)) ELSE t
       BY <1>2, <1>5, <1>7, <1>8, <1>10, <1>11, SameHelpers3 DEF F3!AcceptOfficial, Judged
<1>14. CASE full /\ s \in F3!Commanded
  <2>1. PICK u : u = CloseWindowAndStop(t)
        OBVIOUS
  <2>2. IsCtl(u) /\ u.stage = s
        BY <1>2, <1>12, <2>1, StopTurned DEF Level
  <2>3. PICK f : f = IssueCommand(u)
        OBVIOUS
  <2>4. IsCtl(f)
        BY <2>2, <2>3, CommandTurned
  <2>5. PICK d, x : d = F3!EnterStageAs(f, x, "Full") /\ x = s + 1
        OBVIOUS
  <2>6. F3!HandlesAt(d, 0)
        BY <1>1, <1>13, <1>14, <2>1, <2>2, <2>3, <2>5, SameHelpers3
        DEF F3!AdvanceAfterCommandStage, F3!EnterStage
  <2>7. x \in 1 .. F3!Complete /\ x # 2
        BY <1>14, <2>5, StagesOf3
  <2>8. IsCtl(d) /\ Rests3(d)
        BY <2>4, <2>5, <2>7, EnterRests3
  <2>. QED  BY <2>6, <2>8, RestedClock3
<1>15. CASE ~(full /\ s \in F3!Commanded)
  <2>1. F3!HandlesAt(t, 0)
        BY <1>1, <1>13, <1>15
  <2>2. ASSUME Runs(ctl) PROVE Onward(ctl, t, rec.stage) /\ Ticked(Written(t))
    <3>1. Runs(n)
          BY <1>3, <1>6, <2>2 DEF Runs
    <3>2. Onward(n, j, rec.stage)
      <4>1. "Complete" \in Statuses
            BY DEF Statuses, Verdicts
      <4>2. CASE j = SetStageStatus(n, s, "Complete")
            BY <1>3, <1>6, <3>1, <4>1, <4>2, StatusOnward
      <4>3. CASE j = n
            BY <1>6, <3>1, <4>3 DEF Onward, Later
      <4>. QED  BY <1>8, <4>2, <4>3 DEF Judged
    <3>3. e \in Quiet /\ Whereto(Written(j), e) = Written(j).stage
      <4>1. PICK y \in Int : y = F3!StageShotNumberBase(s) + n.shots
            BY <1>4, <1>6
      <4>. QED  BY <1>3, <1>10, <4>1 DEF Quiet, Whereto, Accepted
    <3>4. Onward(j, t, rec.stage) /\ Ticked(Written(t))
          BY <1>11, <3>2, <3>3, QuietEmitted DEF Onward
    <3>. QED  BY <1>3, <1>6, <3>2, <3>4 DEF Onward, Later
  <2>. QED  BY <1>1, <1>12, <2>1, <2>2, LevelClock3
<1>. QED  BY <1>14, <1>15

\* What a resume makes of the clock.
LEMMA RestoredClock3 ==
    ASSUME NEW c, IsCtl(c), NEW elapsed, NEW d, d = F3!RestoreStageFiringState(c, elapsed)
    PROVE  /\ c.window = "Closed" => Shut3(d)
           /\ c.stage \in DOMAIN Seg3 => d.left = Rebased(elapsed, Seg3[c.stage])
<1>1. PICK prep, shared, window : /\ prep = F3!Rebased(elapsed, Durations["Prep"])
                                  /\ shared = F3!Rebased(elapsed, Durations["Stage1"])
                                  /\ window = F3!Rebased(elapsed, F3!WindowMs(c.stage))
      OBVIOUS
<1>2. \A x : F3!Rebased(elapsed, x) = Rebased(elapsed, x)
      BY DEF F3!Rebased, Rebased
<1>3. CASE c.stage = 2
  <2>1. d = [c EXCEPT !.window = "SightingOpen", !.left = prep]
        BY <1>1, <1>3, StagesOf3 DEF F3!RestoreStageFiringState
  <2>2. d.stage = 2 /\ d.left = prep
        BY <1>3, <2>1 DEF IsCtl, Fields
  <2>3. Seg3[2] = Durations["Prep"]
        BY DEF Seg3
  <2>4. prep = Rebased(elapsed, Seg3[2])
        BY <1>1, <1>2, <2>3
  <2>. QED  BY <1>3, <2>2, <2>4, StagesOf3 DEF Shut3
<1>4. CASE c.stage = 3
  <2>1. d = [c EXCEPT !.window = "MatchOpen", !.mode = "Match", !.seqStep = 1,
                      !.started1 = TRUE, !.left = shared]
        BY <1>1, <1>4, StagesOf3 DEF F3!RestoreStageFiringState
  <2>2. d.stage = 3 /\ d.left = shared /\ d.seqStep = 1
        BY <1>4, <2>1 DEF IsCtl, Fields
  <2>3. Seg3[3] = Durations["Stage1"]
        BY DEF Seg3
  <2>4. shared = Rebased(elapsed, Seg3[3])
        BY <1>1, <1>2, <2>3
  <2>. QED  BY <1>4, <2>2, <2>4, StagesOf3 DEF Shut3
<1>5. CASE c.stage \in F3!Commanded
  <2>1. c.stage \in 7 .. 8 + Singles3P
        BY <1>5, StagesOf3
  <2>2. d = [c EXCEPT !.window = "MatchOpen", !.mode = "Match", !.seqStep = 2, !.left = window]
        BY <1>1, <2>1, StagesOf3 DEF F3!RestoreStageFiringState
  <2>3. d.stage = c.stage /\ d.left = window /\ d.seqStep = 2
        BY <2>2 DEF IsCtl, Fields
  <2>4. Seg3[c.stage] = F3!WindowMs(c.stage)
        BY <1>5, <2>1 DEF Seg3
  <2>5. window = Rebased(elapsed, Seg3[c.stage])
        BY <1>1, <1>2, <2>4
  <2>. QED  BY <2>1, <2>3, <2>5 DEF Shut3
<1>6. CASE c.stage \notin {2, 3} \cup F3!Commanded
  <2>1. d.stage = c.stage
    <3>1. CASE c.stage \in {4, 6}
      <4>1. d = [c EXCEPT !.window = "SightingOpen", !.started1 = TRUE, !.left = shared]
            BY <1>1, <3>1, StagesOf3 DEF F3!RestoreStageFiringState
      <4>. QED  BY <4>1 DEF IsCtl, Fields
    <3>2. CASE c.stage = 5
      <4>1. d = [c EXCEPT !.window = "MatchOpen", !.mode = "Match", !.seqStep = 1,
                          !.started1 = TRUE, !.left = shared]
            BY <1>1, <3>2, StagesOf3 DEF F3!RestoreStageFiringState
      <4>. QED  BY <4>1 DEF IsCtl, Fields
    <3>3. CASE c.stage \notin {4, 5, 6}
      <4>1. d = c
            BY <1>6, <3>3, StagesOf3 DEF F3!RestoreStageFiringState
      <4>. QED  BY <4>1
    <3>. QED  BY <3>1, <3>2, <3>3
  <2>2. c.stage \notin DOMAIN Seg3 /\ c.stage # 3
        BY <1>6, Segments3
  <2>. QED  BY <1>6, <2>1, <2>2 DEF Shut3
<1>. QED  BY <1>3, <1>4, <1>5, <1>6

LEMMA ResumeClock3 ==
    ASSUME FinalInv3, F3!Resume
    PROVE  Clock3'
<1>1. /\ rec \in Journals(Course3.stages) /\ Placed(Course3, rec) /\ hist \in Histories
      BY DEF FinalInv3, Sound, Told
<1>2. PICK elapsed : ctl' = F3!RestoreStageFiringState(F3!LoadRecoveredState(rec), elapsed)
      BY DEF F3!Resume, F3!Restored
<1>3. PICK c : c = F3!LoadRecoveredState(rec)
      OBVIOUS
<1>4. IsCtl(c) /\ c.window = "Closed"
  <2>1. c \in Controllers(Course3.stages) /\ c.window = "Closed"
        BY <1>1, <1>3, Loaded3 DEF Placed
  <2>. QED  BY <2>1, CtlOf
<1>5. Shut3(ctl')
      BY <1>2, <1>3, <1>4, RestoredClock3
<1>6. hist' = Stamped(hist, FALSE, 0)
      BY DEF F3!Resume, F3!Stamped, Stamped
<1>7. ClockHolds(Seg3)'
      BY <1>1, <1>6, ClockLost
<1>. QED  BY <1>5, <1>7 DEF Clock3, Shut3

LEMMA KeepsClock3 ==
    ASSUME FinalInv3, Clock3
    PROVE  F3!KeepsClock
<1>1. SUFFICES ASSUME F3!Resume, hist.exact, ~rec.refused PROVE ctl'.left = hist.left
      BY DEF F3!KeepsClock
<1>2. /\ rec \in Journals(Course3.stages) /\ Placed(Course3, rec)
      BY DEF FinalInv3, Sound, Told
<1>3. /\ rec.anchor = "fresh" /\ rec.stage \in DOMAIN Seg3
      /\ hist.left = Rebased(rec.elapsed, Seg3[rec.stage])
      BY <1>1 DEF Clock3, ClockHolds
<1>4. ctl' = F3!RestoreStageFiringState(F3!LoadRecoveredState(rec), rec.elapsed)
      BY <1>1, <1>3 DEF F3!Resume, F3!Restored, F3!ElapsedAtResume
<1>5. PICK c : c = F3!LoadRecoveredState(rec)
      OBVIOUS
<1>6. IsCtl(c) /\ c.stage = rec.stage
  <2>1. c \in Controllers(Course3.stages) /\ c.stage = IF rec.stage = -1 THEN 0 ELSE rec.stage
        BY <1>2, <1>5, Loaded3 DEF Placed
  <2>2. rec.stage # -1
        BY <1>3, Segments3, StagesOf3
  <2>. QED  BY <2>1, <2>2, CtlOf
<1>. QED  BY <1>3, <1>4, <1>5, <1>6, RestoredClock3

LEMMA StartClock3 ==
    ASSUME F3!StartFinal
    PROVE  Clock3'
<1>1. PICK cer \in {"Full", "Short", "Skip"} :
         F3!Submits(F3!EnterStageAs([F3!NewCtl(F3!Stages) EXCEPT !.out = <<F3!NewRec(F3!Stages)>>],
                                    IF cer = "Skip" THEN F3!KneelingPrepSight ELSE F3!Ceremony,
                                    cer),
                    F3!NewHist, cer = "Skip", 0)
      BY DEF F3!StartFinal
<1>2. PICK s \in {1, 2} : s = IF cer = "Skip" THEN F3!KneelingPrepSight ELSE F3!Ceremony
      BY StagesOf3
<1>3. PICK c : c = [NewCtl(Course3.stages) EXCEPT !.out = <<NewRec(Course3.stages)>>]
      OBVIOUS
<1>4. Runs(c) /\ c.window = "Closed"
      BY <1>3, BeginningRuns
<1>5. PICK h \in Histories : h = NewHist
      BY DEF NewHist, Histories
<1>6. PICK d : d = F3!EnterStageAs(c, s, cer)
      OBVIOUS
<1>7. PICK anchored \in BOOLEAN : anchored <=> cer = "Skip"
      OBVIOUS
<1>8. Submits(d, h, anchored, 0)
  <2>1. F3!NewHist = h
        BY <1>5 DEF F3!NewHist, NewHist
  <2>2. c = [F3!NewCtl(F3!Stages) EXCEPT !.out = <<F3!NewRec(F3!Stages)>>]
        BY <1>3, SameHelpers3 DEF Course3
  <2>3. anchored = (cer = "Skip")
        BY <1>7
  <2>. QED  BY <1>1, <1>2, <1>6, <2>1, <2>2, <2>3, SameSubmits3
<1>9. IsCtl(d) /\ d.stage = s
  <2>1. s \in 1 .. F3!Complete
        BY <1>2, StagesOf3
  <2>. QED  BY <1>4, <1>6, <2>1, EnterRests3 DEF Runs
<1>10. anchored => Winds(Seg3, d)
  <2>1. anchored => s = 2
        BY <1>2, <1>7, StagesOf3
  <2>. QED  BY <1>4, <1>6, <2>1, EnterPrep3
<1>11. ClockHolds(Seg3)' /\ (up' = "live" => Level(d, ctl'))
       BY <1>8, <1>9, <1>10, SubmitsClock
<1>12. up' = "live" => Shut3(ctl')
       BY <1>2, <1>9, <1>11, StagesOf3 DEF Level, Shut3
<1>. QED  BY <1>11, <1>12 DEF Clock3, Shut3

LEMMA PauseClock3 ==
    ASSUME FinalInv3, Clock3, F3!PauseToggled
    PROVE  Clock3'
<1>1. up = "live" /\ up' = up /\ rec' = rec /\ hist' = hist /\ ctl' = [ctl EXCEPT !.paused = ~@]
      BY DEF F3!PauseToggled
<1>2. Level(ctl, ctl')
  <2>1. IsCtl(ctl)
        BY CtlOf DEF FinalInv3, Sound
  <2>. QED  BY <1>1, <2>1 DEF IsCtl, Fields, Level
<1>3. ClockHolds(Seg3)'
      BY <1>1, <1>2, ClockLeft DEF Clock3, Level
<1>. QED  BY <1>1, <1>2, <1>3 DEF Clock3, Shut3, Level

LEMMA EnvironmentClock3 ==
    ASSUME FinalInv3, Clock3, F3!TimePasses \/ F3!IncidentToggled \/ F3!Crash
    PROVE  Clock3'
<1>1. Sound(Course3) /\ ClockHolds(Seg3)
      BY DEF FinalInv3, Clock3
<1>2. CASE F3!TimePasses
  <2>1. TimePasses
        BY <1>2, SameActions3
  <2>2. ClockHolds(Seg3)'
        BY <1>1, <2>1, TimeTold, Segments3
  <2>3. /\ up = "live" /\ ctl'.stage = ctl.stage /\ ctl'.seqStep = ctl.seqStep
        /\ ctl'.window = ctl.window
    <3>1. IsCtl(ctl)
          BY CtlOf, <1>1 DEF Sound
    <3>. QED  BY <2>1, <3>1 DEF TimePasses, IsCtl, Fields
  <2>. QED  BY <2>2, <2>3 DEF Clock3, Shut3
<1>3. CASE F3!IncidentToggled
  <2>1. IncidentToggled
        BY <1>3, SameActions3
  <2>2. ClockHolds(Seg3)'
        BY <1>1, <2>1, IncidentTold
  <2>3. up = "live" /\ ctl' = ctl
        BY <2>1 DEF IncidentToggled
  <2>. QED  BY <2>2, <2>3 DEF Clock3, Shut3
<1>4. CASE F3!Crash
  <2>1. rec' = rec /\ hist' = hist /\ up' = "down"
        BY <1>4, SameActions3 DEF Crash, Down
  <2>2. ClockHolds(Seg3)'
        BY <1>1, <2>1, ClockLeft
  <2>. QED  BY <2>1, <2>2 DEF Clock3
<1>. QED  BY <1>2, <1>3, <1>4

LEMMA InitClock3 ==
    ASSUME F3!Init
    PROVE  Clock3
<1>1. up = "none" /\ hist.exact = FALSE
      BY DEF F3!Init, F3!NewHist
<1>. QED  BY <1>1 DEF Clock3, ClockHolds

LEMMA NextClock3 ==
    ASSUME FinalInv3, Clock3, F3!Next
    PROVE  Clock3'
<1>1. CASE F3!StartFinal
      BY <1>1, StartClock3
<1>2. CASE F3!Resume
      BY <1>2, ResumeClock3
<1>3. CASE F3!PauseToggled
      BY <1>3, PauseClock3
<1>4. CASE F3!SkipCeremony \/ F3!HoldOver
      BY <1>4, PrepClock3
<1>5. CASE F3!AbortFinal
      BY <1>5, AbortClock3
<1>6. CASE F3!AdvanceStage1 \/ F3!DevForceAdvance
      BY <1>6, AdvanceClock3
<1>7. CASE F3!RegisterSighter \/ F3!RejectShot
      BY <1>7, ShotOnlyClock3
<1>8. CASE F3!RegisterOfficial
      BY <1>8, OfficialClock3
<1>9. CASE F3!TakeYourPositions \/ F3!LoadCommand
      BY <1>9, CommandClock3
<1>10. CASE F3!Warning
       BY <1>10, WarningClock3
<1>11. CASE F3!MatchFiringStart \/ F3!StartCommand
       BY <1>11, OpensClock3
<1>12. CASE F3!PrepStop
       BY <1>12, PrepStopClock3
<1>13. CASE F3!Stage1Stop
       BY <1>13, StopClock3
<1>14. CASE F3!CommandExpired
       BY <1>14, ExpiredClock3
<1>15. CASE F3!TimePasses \/ F3!IncidentToggled \/ F3!Crash
       BY <1>15, EnvironmentClock3
<1>. QED  BY <1>1, <1>2, <1>3, <1>4, <1>5, <1>6, <1>7, <1>8, <1>9, <1>10, <1>11, <1>12, <1>13,
            <1>14, <1>15
         DEF F3!Next, F3!Tick
-----------------------------------------------------------------------------

(* The clock of the 10 m final.                                            *)

Seg10 == [s \in {1} \cup F10!Commanded |->
             IF s = 1 THEN Durations["Prep"] ELSE F10!WindowMs(s)]

Shut10(c) == c.stage \in F10!Commanded /\ c.seqStep \in {0, 1} => c.window = "Closed"
Clock10 == ClockHolds(Seg10) /\ (up = "live" => Shut10(ctl))

LEMMA Segments10 == IsSegments(Seg10) /\ DOMAIN Seg10 = {1} \cup F10!Commanded
<1>1. \A s : F10!WindowMs(s) \in 1 .. MaxAge
      BY DurationsBounded DEF F10!WindowMs, Segments
<1>2. Durations["Prep"] \in 1 .. MaxAge
      BY DurationsBounded DEF Segments
<1>. QED  BY <1>1, <1>2 DEF Seg10, IsSegments

LEMMA HandledClock10 ==
    ASSUME FinalInv10, NEW d, IsCtl(d), NEW cost, F10!HandlesAt(d, cost), Shut10(d),
           d.window # "Closed" /\ (hist.exact \/ d.window # ctl.window) => Winds(Seg10, d)
    PROVE  Clock10'
<1>1. PICK h \in Histories : h = hist
      BY DEF FinalInv10, Sound
<1>2. PICK anchored : anchored = F10!Anchored(d)
      OBVIOUS
<1>3. Submits(d, h, anchored, cost)
      BY <1>1, <1>2, SameSubmits10 DEF F10!HandlesAt
<1>4. anchored => d.window # "Closed"
      BY <1>2 DEF F10!Anchored
<1>5. anchored /\ (h.exact \/ d.window # ctl.window) => Winds(Seg10, d)
      BY <1>1, <1>4
<1>6. ClockHolds(Seg10)' /\ (up' = "live" => Level(d, ctl'))
      BY <1>3, <1>5, SubmitsClock
<1>. QED  BY <1>6 DEF Clock10, Shut10, Level

LEMMA RestedClock10 ==
    ASSUME FinalInv10, NEW d, IsCtl(d), d.window = "Closed", NEW cost, F10!HandlesAt(d, cost)
    PROVE  Clock10'
<1>1. Shut10(d)
      BY DEF Shut10
<1>. QED  BY <1>1, HandledClock10

\* enterStage.
LEMMA PhaseTurned10 ==
    ASSUME NEW c, IsCtl(c), NEW d, d = F10!SubmitStagePhase(c)
    PROVE  IsCtl(d) /\ Level(c, d)
<1>1. d = c \/ (\E e : d = Emit(c, e)) \/ (\E e, f : d = Emit(Emit(c, e), f))
      BY SameHelpers10 DEF F10!SubmitStagePhase
<1>2. Level(c, c)
      BY DEF Level
<1>3. \A e, f : IsCtl(Emit(Emit(c, e), f)) /\ Level(Emit(c, e), Emit(Emit(c, e), f))
      BY CtlChanged
<1>4. \A e : IsCtl(Emit(c, e)) /\ Level(c, Emit(c, e))
      BY CtlChanged
<1>. QED  BY <1>1, <1>2, <1>3, <1>4 DEF Level

LEMMA PreparedRests10 ==
    ASSUME NEW c, IsCtl(c), c.stage \in {0, 1} \cup F10!Commanded, NEW cer, NEW d,
           d = F10!Prepared(c, cer)
    PROVE  IsCtl(d) /\ d.stage = c.stage /\ (d.stage # 1 => d.window = "Closed")
<1>1. PICK a : a = IssueCommand(c)
      OBVIOUS
<1>2. IsCtl(a) /\ a.stage = c.stage
      BY <1>1, CommandTurned DEF Level
<1>3. PICK m : m = [a EXCEPT !.mode = "Sighter"]
      OBVIOUS
<1>4. IsCtl(m) /\ m.stage = c.stage
      BY <1>2, <1>3, ModeAdjusted DEF Level
<1>5. CASE c.stage = 0
  <2>1. PICK n, t : n = (IF cer = "Full" THEN 0 ELSE 1)
                    /\ t = Durations[IF cer = "Full" THEN "Intro" ELSE "Hold"]
        OBVIOUS
  <2>2. d = [F10!SetWindow(F10!IssueCommand(c), "Closed") EXCEPT !.seqStep = n, !.left = t]
        BY <1>5, <2>1, StagesOf10 DEF F10!Prepared
  <2>3. d = [SetWindow(a, "Closed") EXCEPT !.seqStep = n, !.left = t]
        BY <1>1, <2>2, SameHelpers10
  <2>4. PICK v : v = SetWindow(a, "Closed")
        OBVIOUS
  <2>5. IsCtl(v) /\ v.stage = c.stage /\ v.window = "Closed"
        BY <1>2, <2>4, WindowTurned
  <2>6. d = [v EXCEPT !.seqStep = n, !.left = t]
        BY <2>3, <2>4
  <2>7. DOMAIN d = Fields /\ d.out = v.out /\ d.stage = v.stage /\ d.window = v.window
        BY <2>5, <2>6 DEF IsCtl, Fields
  <2>8. IsCtl(d) /\ d.stage = c.stage /\ d.window = "Closed"
        BY <2>5, <2>7 DEF IsCtl
  <2>. QED  BY <2>8
<1>6. CASE c.stage = 1
  <2>1. PICK t : t = Durations["Prep"]
        OBVIOUS
  <2>2. d = [F10!SetWindow([F10!IssueCommand(c) EXCEPT !.mode = "Sighter"], "SightingOpen")
                EXCEPT !.left = t]
        BY <1>6, <2>1, StagesOf10 DEF F10!Prepared
  <2>3. d = [SetWindow(m, "SightingOpen") EXCEPT !.left = t]
        BY <1>1, <1>3, <2>2, SameHelpers10
  <2>4. PICK v : v = SetWindow(m, "SightingOpen")
        OBVIOUS
  <2>5. IsCtl(v) /\ v.stage = c.stage /\ v.window = "SightingOpen"
        BY <1>4, <2>4, WindowTurned
  <2>6. d = [v EXCEPT !.left = t]
        BY <2>3, <2>4
  <2>7. IsCtl(d) /\ d.stage = c.stage
        BY <2>5, <2>6, LeftAdjusted
  <2>. QED  BY <1>6, <2>7
<1>7. CASE c.stage \in F10!Commanded
  <2>1. PICK t : t = F10!GapMs(c.stage)
        OBVIOUS
  <2>2. d = BeginCommandSequence(c, t)
        BY <1>7, <2>1, StagesOf10, SameHelpers10 DEF F10!Prepared
  <2>3. PICK n : d = [SetWindow(c, "Closed") EXCEPT !.seqStep = n, !.left = t]
        BY <2>2 DEF BeginCommandSequence
  <2>4. PICK v : v = SetWindow(c, "Closed")
        OBVIOUS
  <2>5. IsCtl(v) /\ v.stage = c.stage /\ v.window = "Closed"
        BY <2>4, WindowTurned
  <2>6. d = [v EXCEPT !.seqStep = n, !.left = t]
        BY <2>3, <2>4
  <2>7. DOMAIN d = Fields /\ d.out = v.out /\ d.stage = v.stage /\ d.window = v.window
        BY <2>5, <2>6 DEF IsCtl, Fields
  <2>8. IsCtl(d) /\ d.stage = c.stage /\ d.window = "Closed"
        BY <2>5, <2>7 DEF IsCtl
  <2>. QED  BY <2>8
<1>. QED  BY <1>5, <1>6, <1>7

LEMMA EnterRests10 ==
    ASSUME NEW c, IsCtl(c), NEW s \in 0 .. F10!Complete, NEW cer, NEW d,
           d = F10!EnterStageAs(c, s, cer)
    PROVE  IsCtl(d) /\ d.stage = s /\ (s # 1 => d.window = "Closed")
<1>1. PICK a : a = [c EXCEPT !.stage = s, !.seqStep = 0, !.shots = 0, !.warned = 0]
      OBVIOUS
<1>2. IsCtl(a) /\ a.stage = s
  <2>1. DOMAIN a = Fields /\ a.out = c.out /\ a.stage = s
        BY <1>1 DEF IsCtl, Fields
  <2>. QED  BY <2>1 DEF IsCtl
<1>3. PICK b : b = IF F10!StageShotLimit(s) > 0 THEN SetStageStatus(a, s, "InProgress") ELSE a
      OBVIOUS
<1>4. IsCtl(b) /\ b.stage = s
      BY <1>2, <1>3, StatusTurned DEF Level
<1>5. d = IF s = F10!Complete THEN F10!Completed(b)
          ELSE Emit(F10!SubmitStagePhase(F10!Prepared(b, cer)), Entered(s))
      BY <1>1, <1>3, SameHelpers10 DEF F10!EnterStageAs
<1>6. CASE s = F10!Complete
  <2>1. d = Emit(IssueCommand(IssueCommand([SetWindow(b, "Closed") EXCEPT !.left = 0])),
                 MatchCompleted)
        BY <1>5, <1>6, SameHelpers10 DEF F10!Completed
  <2>. QED  BY <1>4, <2>1, CompletedRests
<1>7. CASE s # F10!Complete
  <2>1. s \in {0, 1} \cup F10!Commanded
        BY <1>7, StagesOf10
  <2>2. PICK p : p = F10!Prepared(b, cer)
        OBVIOUS
  <2>3. IsCtl(p) /\ p.stage = s /\ (s # 1 => p.window = "Closed")
        BY <1>4, <2>1, <2>2, PreparedRests10
  <2>4. PICK q : q = F10!SubmitStagePhase(p)
        OBVIOUS
  <2>5. IsCtl(q) /\ Level(p, q)
        BY <2>3, <2>4, PhaseTurned10
  <2>6. d = Emit(q, Entered(s))
        BY <1>5, <1>7, <2>2, <2>4
  <2>7. IsCtl(d) /\ Level(q, d)
        BY <2>5, <2>6, CtlChanged
  <2>. QED  BY <2>3, <2>5, <2>7 DEF Level
<1>. QED  BY <1>6, <1>7

\* The preparation: PREPARATION AND SIGHTING starts its clock with its window.
LEMMA EnterPrep10 ==
    ASSUME NEW c, Runs(c), c.window # "SightingOpen", NEW cer, NEW d, d = F10!EnterStageAs(c, 1, cer)
    PROVE  Winds(Seg10, d) /\ d.window = "SightingOpen"
<1>1. PICK a : a = [c EXCEPT !.stage = 1, !.seqStep = 0, !.shots = 0, !.warned = 0]
      OBVIOUS
<1>2. IsCtl(a) /\ Written(a) = Written(c) /\ a.stage = 1 /\ a.window = c.window
  <2>1. DOMAIN a = Fields /\ a.out = c.out /\ a.stage = 1 /\ a.window = c.window
        BY <1>1 DEF Runs, IsCtl, Fields
  <2>. QED  BY <2>1 DEF Runs, IsCtl, Written
<1>3. F10!StageShotLimit(1) = 0
      BY StagesOf10 DEF F10!StageShotLimit, F10!IsSeries
<1>4. PICK i : i = IssueCommand(a)
      OBVIOUS
<1>5. Runs(i) /\ i.window = c.window /\ i.stage = 1
  <2>1. Runs(a)
        BY <1>2 DEF Runs
  <2>. QED  BY <1>2, <1>4, <2>1, CommandOnward DEF Onward, Level
<1>6. PICK m : m = [i EXCEPT !.mode = "Sighter"]
      OBVIOUS
<1>7. Runs(m) /\ m.window = c.window /\ m.stage = 1
  <2>1. IsCtl(m) /\ Written(m) = Written(i) /\ Level(i, m)
        BY <1>5, <1>6, ModeAdjusted DEF Runs
  <2>. QED  BY <1>5, <2>1 DEF Runs, Level
<1>8. PICK w : w = SetWindow(m, "SightingOpen")
      OBVIOUS
<1>9. /\ Runs(w) /\ Written(w).anchor = "fresh" /\ Written(w).age = 0
      /\ w.window = "SightingOpen" /\ w.stage = 1
      BY <1>7, <1>8, WindowWinds, WindowTurned DEF Runs
<1>10. PICK l, y : l = [w EXCEPT !.left = y] /\ y = Durations["Prep"]
       OBVIOUS
<1>11. /\ Runs(l) /\ Written(l).anchor = "fresh" /\ Written(l).age = 0
       /\ l.window = "SightingOpen" /\ l.stage = 1 /\ l.left = Durations["Prep"]
  <2>1. IsCtl(l) /\ Written(l) = Written(w) /\ l.stage = 1 /\ l.window = "SightingOpen"
        /\ l.left = y
        BY <1>9, <1>10, LeftAdjusted DEF Runs
  <2>. QED  BY <1>9, <1>10, <2>1 DEF Runs
<1>12. d = Emit(Emit(Emit(l, Phase("Preparation", 1)), Phase("Sighting", 1)), Entered(1))
  <2>1. d = F10!Emit(F10!SubmitStagePhase(F10!Prepared(a, cer)), F10!Entered(1))
        BY <1>1, <1>3, StagesOf10 DEF F10!EnterStageAs
  <2>2. F10!Prepared(a, cer) =
            [F10!SetWindow([F10!IssueCommand(a) EXCEPT !.mode = "Sighter"], "SightingOpen")
                EXCEPT !.left = Durations["Prep"]]
        BY <1>2, StagesOf10 DEF F10!Prepared
  <2>3. F10!Prepared(a, cer) = l
        BY <1>4, <1>6, <1>8, <1>10, <2>2, SameHelpers10
  <2>4. F10!SubmitStagePhase(l) =
            F10!Emit(F10!Emit(l, F10!Phase("Preparation", 1)), F10!Phase("Sighting", 1))
        BY <1>11, StagesOf10 DEF F10!SubmitStagePhase
  <2>. QED  BY <2>1, <2>3, <2>4, SameHelpers10
<1>13. PICK e : e = Emit(l, Phase("Preparation", 1))
       OBVIOUS
<1>14. PICK f : f = Emit(e, Phase("Sighting", 1))
       OBVIOUS
<1>15. /\ Phase("Preparation", 1) \in Quiet /\ Phase("Sighting", 1) \in Quiet /\ Entered(1) \in Quiet
       /\ \A r : Whereto(r, Entered(1)) = 1
  <2>1. "Preparation" \in Phases /\ "Sighting" \in Phases
        BY DEF Phases
  <2>. QED  BY <2>1 DEF Quiet, Whereto, Entered
<1>16. Runs(e) /\ Later(Written(l), Written(e)) /\ Level(l, e)
       BY <1>11, <1>13, <1>15, QuietEmitted DEF Onward
<1>17. Runs(f) /\ Later(Written(e), Written(f)) /\ Level(e, f)
       BY <1>14, <1>15, <1>16, QuietEmitted DEF Onward
<1>18. d = Emit(f, Entered(1))
       BY <1>12, <1>13, <1>14
<1>19. /\ Later(Written(f), Written(d)) /\ Level(f, d) /\ Ticked(Written(d))
       /\ Written(d).stage = 1
       BY <1>15, <1>17, <1>18, QuietEmitted DEF Onward
<1>20. Written(d).anchor = "fresh" /\ Written(d).age = 0 /\ d.stage = 1
       /\ d.left = Durations["Prep"] /\ d.window = "SightingOpen"
       BY <1>11, <1>16, <1>17, <1>19 DEF Later, Level
<1>21. Rebased(0, Seg10[1]) = Durations["Prep"]
  <2>1. PICK p \in 1 .. MaxAge : p = Durations["Prep"]
        BY DurationsBounded DEF Segments
  <2>2. Seg10[1] = p
        BY <2>1 DEF Seg10
  <2>. QED  BY <2>1, <2>2, FinalBoundsAssumption DEF Rebased
<1>. QED  BY <1>19, <1>20, <1>21, Segments10 DEF Winds

\* A handler that leaves the clock alone.
LEMMA LevelClock10 ==
    ASSUME FinalInv10, Clock10, up = "live", NEW d, IsCtl(d), Level(ctl, d),
           Runs(ctl) => Onward(ctl, d, rec.stage) /\ Ticked(Written(d)),
           NEW cost, F10!HandlesAt(d, cost)
    PROVE  Clock10'
<1>1. CASE ctl.window = "Closed"
      BY <1>1, RestedClock10 DEF Level
<1>2. CASE ctl.window # "Closed"
  <2>1. ctl.window \in {"MatchOpen", "SightingOpen"} /\ Stands10(ctl, rec) /\ Sound(Course10)
        BY <1>2 DEF FinalInv10, Sound, Controllers, Windows
  <2>2. ctl.stage \in {1} \cup 2 .. 3 + Singles10m
        BY <2>1, StagesOf10 DEF Stands10
  <2>3. F10!Running(ctl)
        BY <2>2, StagesOf10
  <2>4. Runs(ctl) /\ Written(ctl) = rec
        BY <2>1, <2>3, ClockAt DEF Stands10
  <2>5. Shut10(d)
        BY DEF Clock10, Shut10, Level
  <2>6. hist.exact => Winds(Seg10, d)
        BY <2>1, <2>4, QuietWinds DEF Clock10, Level
  <2>. QED  BY <2>5, <2>6, HandledClock10 DEF Level
<1>. QED  BY <1>1, <1>2

LEMMA ShotOnlyClock10 ==
    ASSUME FinalInv10, Clock10, F10!RegisterSighter \/ F10!RejectShot
    PROVE  Clock10'
<1>1. PICK cost : up = "live" /\ F10!HandlesAt(F10!Emit(ctl, F10!Mark), cost)
      BY DEF F10!RegisterSighter, F10!RejectShot, F10!Detected, F10!Handles
<1>2. PICK d : d = IssueCommand(ctl)
      OBVIOUS
<1>3. F10!HandlesAt(d, cost)
      BY <1>1, <1>2, SameHelpers10 DEF IssueCommand
<1>4. IsCtl(ctl) /\ Written(ctl) = rec
      BY CtlOf, <1>1, Begins DEF FinalInv10, Sound
<1>5. IsCtl(d) /\ Level(ctl, d)
      BY <1>2, <1>4, CommandTurned
<1>6. Runs(ctl) => Onward(ctl, d, rec.stage) /\ Ticked(Written(d))
      BY <1>2, <1>4, CommandOnward
<1>. QED  BY <1>1, <1>3, <1>5, <1>6, LevelClock10

LEMMA WarningClock10 ==
    ASSUME FinalInv10, Clock10, F10!Warning
    PROVE  Clock10'
<1>1. PICK a : a = IssueCommand(ctl)
      OBVIOUS
<1>2. PICK d : d = [a EXCEPT !.warned = @ + 1]
      OBVIOUS
<1>3. up = "live" /\ F10!HandlesAt(d, 0)
      BY <1>1, <1>2, SameHelpers10 DEF F10!Warning, F10!Handles, F10!Ticking
<1>4. IsCtl(ctl) /\ Written(ctl) = rec
      BY CtlOf, <1>3, Begins DEF FinalInv10, Sound
<1>5. IsCtl(a) /\ Level(ctl, a)
      BY <1>1, <1>4, CommandTurned
<1>6. IsCtl(d) /\ Level(a, d) /\ Written(d) = Written(a)
  <2>1. DOMAIN d = Fields /\ d.out = a.out /\ Level(a, d)
        BY <1>2, <1>5 DEF IsCtl, Fields, Level
  <2>. QED  BY <1>5, <2>1 DEF IsCtl, Written
<1>7. ASSUME Runs(ctl) PROVE Onward(ctl, d, rec.stage) /\ Ticked(Written(d))
  <2>1. Onward(ctl, a, rec.stage) /\ Ticked(Written(a))
        BY <1>1, <1>4, <1>7, CommandOnward
  <2>. QED  BY <1>6, <2>1 DEF Onward, Runs
<1>8. Level(ctl, d)
      BY <1>5, <1>6 DEF Level
<1>. QED  BY <1>3, <1>6, <1>7, <1>8, LevelClock10

LEMMA CommandClock10 ==
    ASSUME FinalInv10, Clock10, F10!TakeYourPositions \/ F10!LoadCommand
    PROVE  Clock10'
<1>1. PICK a : a = IssueCommand(ctl)
      OBVIOUS
<1>2. up = "live" /\ ctl.window = "Closed"
  <2>1. CASE F10!TakeYourPositions
    <3>1. up = "live" /\ ctl.stage = 0
          BY <2>1, StagesOf10 DEF F10!TakeYourPositions, F10!Due, F10!Ticking
    <3>2. ctl.window \in Windows /\ Stands10(ctl, rec)
          BY <3>1 DEF FinalInv10, Sound, Controllers
    <3>. QED  BY <3>1, <3>2, StagesOf10 DEF Stands10, Windows
  <2>2. CASE F10!LoadCommand
        BY <2>2 DEF F10!LoadCommand, F10!Due, F10!Ticking, Clock10, Shut10
  <2>. QED  BY <2>1, <2>2
<1>3. PICK d, x, y : d = [a EXCEPT !.seqStep = x, !.left = y] /\ F10!HandlesAt(d, 0)
  <2>1. CASE F10!TakeYourPositions
        BY <1>1, <2>1, SameHelpers10 DEF F10!TakeYourPositions, F10!Handles
  <2>2. CASE F10!LoadCommand
        BY <1>1, <2>2, SameHelpers10 DEF F10!LoadCommand, F10!Handles
  <2>. QED  BY <2>1, <2>2
<1>4. IsCtl(a) /\ Level(ctl, a)
  <2>1. IsCtl(ctl)
        BY CtlOf DEF FinalInv10, Sound
  <2>. QED  BY <1>1, <2>1, CommandTurned
<1>5. IsCtl(d) /\ d.stage = ctl.stage /\ d.window = ctl.window
  <2>1. DOMAIN d = Fields /\ d.out = a.out /\ d.stage = a.stage /\ d.window = a.window
        BY <1>3, <1>4 DEF IsCtl, Fields
  <2>. QED  BY <1>4, <2>1 DEF IsCtl, Level
<1>. QED  BY <1>2, <1>3, <1>5, RestedClock10

LEMMA OpensClock10 ==
    ASSUME FinalInv10, Clock10, F10!StartCommand
    PROVE  Clock10'
<1>1. /\ up = "live" /\ F10!Running(ctl) /\ ctl.stage \in F10!Commanded
      /\ ctl.window = "Closed"
      BY StagesOf10 DEF F10!StartCommand, F10!Due, F10!Ticking, Clock10, Shut10
<1>2. Runs(ctl) /\ Written(ctl) = rec /\ rec.stage = ctl.stage
  <2>1. Sound(Course10)
        BY DEF FinalInv10
  <2>. QED  BY <1>1, <2>1, InRunning10, ClockAt
<1>3. PICK a : a = IssueCommand(ctl)
      OBVIOUS
<1>4. Runs(a) /\ Level(ctl, a) /\ Written(a).stage = ctl.stage
      BY <1>2, <1>3, CommandOnward DEF Onward
<1>5. PICK m : m = [a EXCEPT !.mode = "Match"]
      OBVIOUS
<1>6. Runs(m) /\ Written(m).stage = ctl.stage /\ m.stage = ctl.stage /\ m.window = "Closed"
  <2>1. IsCtl(m) /\ Written(m) = Written(a) /\ Level(a, m)
        BY <1>4, <1>5, ModeAdjusted DEF Runs
  <2>. QED  BY <1>1, <1>4, <2>1 DEF Level, Runs
<1>7. PICK w : w = SetWindow(m, "MatchOpen")
      OBVIOUS
<1>8. /\ Runs(w) /\ Ticked(Written(w)) /\ Written(w).stage = ctl.stage
      /\ Written(w).anchor = "fresh" /\ Written(w).age = 0
      BY <1>6, <1>7, WindowWinds
<1>9. IsCtl(w) /\ w.window = "MatchOpen" /\ w.stage = ctl.stage
      BY <1>6, <1>7, WindowTurned DEF Runs
<1>10. PICK d : d = [w EXCEPT !.seqStep = 2, !.left = F10!WindowMs(ctl.stage)]
       OBVIOUS
<1>11. F10!HandlesAt(d, 0)
       BY <1>3, <1>5, <1>7, <1>10, SameHelpers10
       DEF F10!StartCommand, F10!Handles, OpenCommandWindow
<1>12. /\ DOMAIN d = DOMAIN w /\ d.out = w.out /\ d.stage = w.stage /\ d.window = w.window
       /\ d.left = F10!WindowMs(ctl.stage) /\ d.seqStep = 2
       BY <1>9, <1>10 DEF IsCtl, Fields
<1>13. IsCtl(d) /\ Written(d) = Written(w)
       BY <1>9, <1>12 DEF IsCtl, Written
<1>14. Seg10[ctl.stage] = F10!WindowMs(ctl.stage) /\ ctl.stage \in DOMAIN Seg10
       BY <1>1, StagesOf10 DEF Seg10
<1>15. Rebased(0, Seg10[ctl.stage]) = Seg10[ctl.stage]
  <2>1. Seg10[ctl.stage] \in 1 .. MaxAge
        BY <1>14, Segments10 DEF IsSegments
  <2>. QED  BY <2>1, FinalBoundsAssumption DEF Rebased
<1>16. Winds(Seg10, d)
       BY <1>8, <1>9, <1>12, <1>13, <1>14, <1>15 DEF Winds
<1>17. Shut10(d)
       BY <1>12 DEF Shut10
<1>. QED  BY <1>11, <1>13, <1>16, <1>17, HandledClock10

LEMMA PrepClock10 ==
    ASSUME FinalInv10, Clock10, F10!SkipCeremony \/ F10!HoldOver
    PROVE  Clock10'
<1>1. /\ up = "live" /\ ctl.stage = 0 /\ F10!HandlesAt(F10!EnterStageAs(ctl, 1, "Full"), 0)
      BY StagesOf10
      DEF F10!SkipCeremony, F10!HoldOver, F10!Due, F10!Ticking, F10!Handles, F10!EnterStage
<1>2. PICK d : d = F10!EnterStageAs(ctl, 1, "Full")
      OBVIOUS
<1>3. Sound(Course10) /\ Stands10(ctl, rec) /\ F10!Running(ctl)
      BY <1>1, StagesOf10 DEF FinalInv10
<1>4. Runs(ctl)
      BY <1>1, <1>3, ClockAt DEF Stands10
<1>5. IsCtl(d) /\ d.stage = 1
  <2>1. 1 \in 0 .. F10!Complete
        BY StagesOf10
  <2>. QED  BY <1>2, <1>4, <2>1, EnterRests10 DEF Runs
<1>6. Shut10(d)
      BY <1>5, StagesOf10 DEF Shut10
<1>7. ctl.window # "SightingOpen"
      BY <1>1, <1>3, StagesOf10 DEF Stands10
<1>8. Winds(Seg10, d)
      BY <1>2, <1>4, <1>7, EnterPrep10
<1>. QED  BY <1>1, <1>2, <1>5, <1>6, <1>8, HandledClock10

LEMMA PrepStopClock10 ==
    ASSUME FinalInv10, F10!PrepStop
    PROVE  Clock10'
<1>1. PICK a : a = CloseWindowAndStop(ctl)
      OBVIOUS
<1>2. PICK b : b = [a EXCEPT !.mode = "Match"]
      OBVIOUS
<1>3. IsCtl(ctl)
      BY CtlOf DEF FinalInv10, Sound
<1>4. IsCtl(a)
      BY <1>1, <1>3, StopTurned
<1>5. IsCtl(b)
      BY <1>2, <1>4, ModeAdjusted
<1>6. PICK d : d = F10!EnterStageAs(b, 2, "Full")
      OBVIOUS
<1>7. F10!HandlesAt(d, 0)
      BY <1>1, <1>2, <1>6, SameHelpers10, StagesOf10 DEF F10!PrepStop, F10!Handles, F10!EnterStage
<1>8. 2 \in 0 .. F10!Complete
      BY StagesOf10
<1>9. IsCtl(d) /\ d.window = "Closed"
      BY <1>5, <1>6, <1>8, EnterRests10
<1>. QED  BY <1>7, <1>9, RestedClock10

LEMMA AdvanceTurned10 ==
    ASSUME NEW c, IsCtl(c), c.stage \in F10!Commanded, NEW d, d = F10!AdvanceAfterCommandStage(c)
    PROVE  IsCtl(d) /\ d.window = "Closed"
<1>1. PICK a : a = F10!EmitCheckpointIfDue(c)
      OBVIOUS
<1>2. IsCtl(a)
  <2>1. CASE a = c
        BY <2>1
  <2>2. CASE a # c
    <3>1. PICK b : b = IssueCommand(c)
          OBVIOUS
    <3>2. IsCtl(b)
          BY <3>1, CommandTurned
    <3>3. PICK marks : a = [b EXCEPT !.checkpoints = marks]
          BY <1>1, <2>2, <3>1, SameHelpers10 DEF F10!EmitCheckpointIfDue
    <3>4. DOMAIN a = Fields /\ a.out = b.out
          BY <3>2, <3>3 DEF IsCtl, Fields
    <3>. QED  BY <3>2, <3>4 DEF IsCtl
  <2>. QED  BY <2>1, <2>2
<1>3. PICK s : s = c.stage + 1
      OBVIOUS
<1>4. s \in 0 .. F10!Complete /\ s # 1
      BY <1>3, StagesOf10
<1>5. d = F10!EnterStageAs(a, s, "Full")
      BY <1>1, <1>3 DEF F10!AdvanceAfterCommandStage, F10!EnterStage
<1>. QED  BY <1>2, <1>4, <1>5, EnterRests10

LEMMA ExpiredClock10 ==
    ASSUME FinalInv10, F10!CommandExpired
    PROVE  Clock10'
<1>1. PICK s \in F10!Commanded : s = ctl.stage
      BY DEF F10!CommandExpired, F10!Due
<1>2. IsCtl(ctl) /\ ctl.shots \in Nat
      BY CtlOf DEF FinalInv10, Sound, Controllers
<1>3. PICK limit \in Nat : limit = F10!StageShotLimit(s)
      BY LimitsOf10
<1>4. PICK v : v = IF ctl.shots >= F10!StageShotLimit(s) THEN "Complete" ELSE "Incomplete"
      OBVIOUS
<1>5. PICK a : a = MissingRange(ctl, F10!StageShotNumberBase(s), ctl.shots, F10!StageShotLimit(s))
      OBVIOUS
<1>6. IsCtl(a) /\ a.stage = s
      BY <1>1, <1>2, <1>3, <1>5, MissingTurned DEF Level
<1>7. PICK b : b = SetStageStatus(a, s, v)
      OBVIOUS
<1>8. IsCtl(b) /\ b.stage = s
      BY <1>6, <1>7, StatusTurned DEF Level
<1>9. PICK e : e = CloseWindowAndStop(b)
      OBVIOUS
<1>10. IsCtl(e) /\ e.stage = s
       BY <1>8, <1>9, StopTurned
<1>11. PICK d : d = F10!AdvanceAfterCommandStage(e)
       OBVIOUS
<1>12. F10!HandlesAt(d, 0)
  <2>1. F10!RecordMissingShots(ctl) = b
        BY <1>1, <1>4, <1>5, <1>7, SameHelpers10 DEF F10!RecordMissingShots
  <2>. QED  BY <1>9, <1>11, <2>1, SameHelpers10 DEF F10!CommandExpired, F10!Handles
<1>13. IsCtl(d) /\ d.window = "Closed"
       BY <1>10, <1>11, AdvanceTurned10
<1>. QED  BY <1>12, <1>13, RestedClock10

LEMMA AbortClock10 ==
    ASSUME FinalInv10, F10!AbortFinal
    PROVE  Clock10'
<1>1. PICK a : a = IF F10!StageShotLimit(ctl.stage) > 0
                   THEN SetStageStatus(ctl, ctl.stage, "Aborted") ELSE ctl
      OBVIOUS
<1>2. PICK b : b = SetWindow(a, "Closed")
      OBVIOUS
<1>3. PICK d : d = [b EXCEPT !.stage = F10!Aborted, !.left = 0]
      OBVIOUS
<1>4. F10!HandlesAt(d, 1)
      BY <1>1, <1>2, <1>3, SameHelpers10 DEF F10!AbortFinal
<1>5. IsCtl(ctl)
      BY CtlOf DEF FinalInv10, Sound
<1>6. IsCtl(a)
      BY <1>1, <1>5, StatusTurned
<1>7. IsCtl(b) /\ b.window = "Closed"
      BY <1>2, <1>6, WindowTurned
<1>8. DOMAIN d = Fields /\ d.out = b.out /\ d.window = "Closed"
      BY <1>3, <1>7 DEF IsCtl, Fields
<1>9. IsCtl(d) /\ d.window = "Closed"
      BY <1>7, <1>8 DEF IsCtl
<1>. QED  BY <1>4, <1>9, RestedClock10

LEMMA OfficialClock10 ==
    ASSUME FinalInv10, Clock10, F10!RegisterOfficial
    PROVE  Clock10'
<1>1. /\ up = "live" /\ F10!HandlesAt(F10!AcceptOfficial(ctl, fired + 1), 0)
      BY DEF F10!RegisterOfficial, F10!Detected, F10!Handles
<1>2. PICK s : s = ctl.stage
      OBVIOUS
<1>3. /\ IsCtl(ctl) /\ Written(ctl) = rec /\ s \in Int /\ ctl.shots \in Nat /\ fired + 1 \in Int
  <2>1. fired \in Nat /\ ctl.stage \in Int /\ ctl.shots \in Nat
        BY DEF FinalInv10, Sound, Controllers
  <2>. QED  BY <1>1, <1>2, <2>1, CtlOf, Begins DEF FinalInv10, Sound
<1>4. s \in F10!Commanded /\ F10!StageShotNumberBase(s) \in Nat
  <2>1. ctl.window = "MatchOpen"
        BY DEF F10!RegisterOfficial
  <2>2. ctl.stage \in F10!Commanded
        BY <1>1, <2>1 DEF FinalInv10, Stands10
  <2>. QED  BY <1>2, <2>2, LimitsOf10
<1>5. PICK n : n = [ctl EXCEPT !.shots = @ + 1, !.count = @ + 1]
      OBVIOUS
<1>6. IsCtl(n) /\ Level(ctl, n) /\ Written(n) = rec /\ n.shots \in Nat
  <2>1. DOMAIN n = Fields /\ n.out = ctl.out /\ Level(ctl, n) /\ n.shots = ctl.shots + 1
        BY <1>3, <1>5 DEF IsCtl, Fields, Level
  <2>. QED  BY <1>3, <2>1 DEF IsCtl, Written
<1>7. PICK full \in BOOLEAN : (n.shots >= F10!StageShotLimit(s)) <=> full
      OBVIOUS
<1>8. PICK j : j = Judged(n, s, full)
      OBVIOUS
<1>9. IsCtl(j) /\ Level(n, j)
      BY <1>6, <1>8, StatusTurned DEF Level, Judged
<1>10. PICK e : e = Accepted(F10!StageShotNumberBase(s) + n.shots, fired + 1, s)
       OBVIOUS
<1>11. PICK t : t = Emit(j, e)
       OBVIOUS
<1>12. IsCtl(t) /\ Level(ctl, t)
       BY <1>6, <1>9, <1>11, CtlChanged DEF Level
<1>13. F10!AcceptOfficial(ctl, fired + 1) =
           IF full THEN F10!AdvanceAfterCommandStage(CloseWindowAndStop(t)) ELSE t
       BY <1>2, <1>5, <1>7, <1>8, <1>10, <1>11, SameHelpers10 DEF F10!AcceptOfficial, Judged
<1>14. CASE full
  <2>1. PICK u : u = CloseWindowAndStop(t)
        OBVIOUS
  <2>2. IsCtl(u) /\ u.stage = s
        BY <1>2, <1>12, <2>1, StopTurned DEF Level
  <2>3. PICK d : d = F10!AdvanceAfterCommandStage(u)
        OBVIOUS
  <2>4. F10!HandlesAt(d, 0)
        BY <1>1, <1>13, <1>14, <2>1, <2>3
  <2>5. IsCtl(d) /\ d.window = "Closed"
        BY <1>4, <2>2, <2>3, AdvanceTurned10
  <2>. QED  BY <2>4, <2>5, RestedClock10
<1>15. CASE ~full
  <2>1. F10!HandlesAt(t, 0)
        BY <1>1, <1>13, <1>15
  <2>2. ASSUME Runs(ctl) PROVE Onward(ctl, t, rec.stage) /\ Ticked(Written(t))
    <3>1. Runs(n)
          BY <1>3, <1>6, <2>2 DEF Runs
    <3>2. Onward(n, j, rec.stage)
      <4>1. "Complete" \in Statuses
            BY DEF Statuses, Verdicts
      <4>2. CASE j = SetStageStatus(n, s, "Complete")
            BY <1>3, <1>6, <3>1, <4>1, <4>2, StatusOnward
      <4>3. CASE j = n
            BY <1>6, <3>1, <4>3 DEF Onward, Later
      <4>. QED  BY <1>8, <4>2, <4>3 DEF Judged
    <3>3. e \in Quiet /\ Whereto(Written(j), e) = Written(j).stage
      <4>1. PICK y \in Int : y = F10!StageShotNumberBase(s) + n.shots
            BY <1>4, <1>6
      <4>. QED  BY <1>3, <1>10, <4>1 DEF Quiet, Whereto, Accepted
    <3>4. Onward(j, t, rec.stage) /\ Ticked(Written(t))
          BY <1>11, <3>2, <3>3, QuietEmitted DEF Onward
    <3>. QED  BY <1>3, <1>6, <3>2, <3>4 DEF Onward, Later
  <2>. QED  BY <1>1, <1>12, <2>1, <2>2, LevelClock10
<1>. QED  BY <1>14, <1>15

LEMMA RestoredClock10 ==
    ASSUME NEW c, IsCtl(c), NEW elapsed, NEW d, d = F10!RestoreStageFiringState(c, elapsed)
    PROVE  Shut10(d) /\ (c.stage \in DOMAIN Seg10 => d.left = Rebased(elapsed, Seg10[c.stage]))
<1>1. PICK prep, window : /\ prep = F10!Rebased(elapsed, Durations["Prep"])
                          /\ window = F10!Rebased(elapsed, F10!WindowMs(c.stage))
      OBVIOUS
<1>2. \A x : F10!Rebased(elapsed, x) = Rebased(elapsed, x)
      BY DEF F10!Rebased, Rebased
<1>3. CASE c.stage = 1
  <2>1. d = [c EXCEPT !.window = "SightingOpen", !.left = prep]
        BY <1>1, <1>3, StagesOf10 DEF F10!RestoreStageFiringState
  <2>2. d.stage = 1 /\ d.left = prep
        BY <1>3, <2>1 DEF IsCtl, Fields
  <2>3. Seg10[1] = Durations["Prep"]
        BY DEF Seg10
  <2>4. prep = Rebased(elapsed, Seg10[1])
        BY <1>1, <1>2, <2>3
  <2>. QED  BY <1>3, <2>2, <2>4, StagesOf10 DEF Shut10
<1>4. CASE c.stage # 1
  <2>1. d = [c EXCEPT !.window = "MatchOpen", !.mode = "Match", !.seqStep = 2, !.left = window]
        BY <1>1, <1>4, StagesOf10 DEF F10!RestoreStageFiringState
  <2>2. d.left = window /\ d.seqStep = 2
        BY <2>1 DEF IsCtl, Fields
  <2>3. c.stage \in DOMAIN Seg10 => Seg10[c.stage] = F10!WindowMs(c.stage)
        BY <1>4 DEF Seg10
  <2>4. c.stage \in DOMAIN Seg10 => window = Rebased(elapsed, Seg10[c.stage])
        BY <1>1, <1>2, <2>3
  <2>. QED  BY <2>2, <2>4 DEF Shut10
<1>. QED  BY <1>3, <1>4

LEMMA ResumeClock10 ==
    ASSUME FinalInv10, F10!Resume
    PROVE  Clock10'
<1>1. /\ rec \in Journals(Course10.stages) /\ Placed(Course10, rec) /\ hist \in Histories
      BY DEF FinalInv10, Sound, Told
<1>2. PICK elapsed : ctl' = F10!RestoreStageFiringState(F10!LoadRecoveredState(rec), elapsed)
      BY DEF F10!Resume, F10!Restored
<1>3. PICK c : c = F10!LoadRecoveredState(rec)
      OBVIOUS
<1>4. IsCtl(c)
  <2>1. c \in Controllers(Course10.stages)
        BY <1>1, <1>3, Loaded10
  <2>. QED  BY <2>1, CtlOf
<1>5. Shut10(ctl')
      BY <1>2, <1>3, <1>4, RestoredClock10
<1>6. hist' = Stamped(hist, FALSE, 0)
      BY DEF F10!Resume, F10!Stamped, Stamped
<1>7. ClockHolds(Seg10)'
      BY <1>1, <1>6, ClockLost
<1>. QED  BY <1>5, <1>7 DEF Clock10, Shut10

LEMMA KeepsClock10 ==
    ASSUME FinalInv10, Clock10
    PROVE  F10!KeepsClock
<1>1. SUFFICES ASSUME F10!Resume, hist.exact, ~rec.refused PROVE ctl'.left = hist.left
      BY DEF F10!KeepsClock
<1>2. /\ rec \in Journals(Course10.stages) /\ Placed(Course10, rec)
      BY DEF FinalInv10, Sound, Told
<1>3. /\ rec.anchor = "fresh" /\ rec.stage \in DOMAIN Seg10
      /\ hist.left = Rebased(rec.elapsed, Seg10[rec.stage])
      BY <1>1 DEF Clock10, ClockHolds
<1>4. ctl' = F10!RestoreStageFiringState(F10!LoadRecoveredState(rec), rec.elapsed)
      BY <1>1, <1>3 DEF F10!Resume, F10!Restored, F10!ElapsedAtResume
<1>5. PICK c : c = F10!LoadRecoveredState(rec)
      OBVIOUS
<1>6. IsCtl(c) /\ c.stage = rec.stage
  <2>1. c \in Controllers(Course10.stages) /\ c.stage = IF rec.stage <= 1 THEN 1 ELSE rec.stage
        BY <1>2, <1>5, Loaded10
  <2>2. rec.stage = 1 \/ ~(rec.stage <= 1)
        BY <1>3, Segments10, StagesOf10
  <2>. QED  BY <2>1, <2>2, CtlOf
<1>. QED  BY <1>3, <1>4, <1>5, <1>6, RestoredClock10

LEMMA StartClock10 ==
    ASSUME F10!StartFinal
    PROVE  Clock10'
<1>1. PICK cer \in {"Full", "Short", "Skip"} :
         F10!Submits(F10!EnterStageAs([F10!NewCtl(F10!Stages) EXCEPT !.out = <<F10!NewRec(F10!Stages)>>],
                                    IF cer = "Skip" THEN F10!PrepSighting ELSE F10!Presentation,
                                    cer),
                    F10!NewHist, cer = "Skip", 0)
      BY DEF F10!StartFinal
<1>2. PICK s \in {0, 1} : s = IF cer = "Skip" THEN F10!PrepSighting ELSE F10!Presentation
      BY StagesOf10
<1>3. PICK c : c = [NewCtl(Course10.stages) EXCEPT !.out = <<NewRec(Course10.stages)>>]
      OBVIOUS
<1>4. Runs(c) /\ c.window = "Closed"
      BY <1>3, BeginningRuns
<1>5. PICK h \in Histories : h = NewHist
      BY DEF NewHist, Histories
<1>6. PICK d : d = F10!EnterStageAs(c, s, cer)
      OBVIOUS
<1>7. PICK anchored \in BOOLEAN : anchored <=> cer = "Skip"
      OBVIOUS
<1>8. Submits(d, h, anchored, 0)
  <2>1. F10!NewHist = h
        BY <1>5 DEF F10!NewHist, NewHist
  <2>2. c = [F10!NewCtl(F10!Stages) EXCEPT !.out = <<F10!NewRec(F10!Stages)>>]
        BY <1>3, SameHelpers10 DEF Course10
  <2>3. anchored = (cer = "Skip")
        BY <1>7
  <2>. QED  BY <1>1, <1>2, <1>6, <2>1, <2>2, <2>3, SameSubmits10
<1>9. IsCtl(d) /\ d.stage = s
  <2>1. s \in 0 .. F10!Complete
        BY <1>2, StagesOf10
  <2>. QED  BY <1>4, <1>6, <2>1, EnterRests10 DEF Runs
<1>10. anchored => Winds(Seg10, d)
  <2>1. anchored => s = 1
        BY <1>2, <1>7, StagesOf10
  <2>. QED  BY <1>4, <1>6, <2>1, EnterPrep10
<1>11. ClockHolds(Seg10)' /\ (up' = "live" => Level(d, ctl'))
       BY <1>8, <1>9, <1>10, SubmitsClock
<1>12. up' = "live" => Shut10(ctl')
       BY <1>2, <1>9, <1>11, StagesOf10 DEF Level, Shut10
<1>. QED  BY <1>11, <1>12 DEF Clock10, Shut10

LEMMA PauseClock10 ==
    ASSUME FinalInv10, Clock10, F10!PauseToggled
    PROVE  Clock10'
<1>1. up = "live" /\ up' = up /\ rec' = rec /\ hist' = hist /\ ctl' = [ctl EXCEPT !.paused = ~@]
      BY DEF F10!PauseToggled
<1>2. Level(ctl, ctl')
  <2>1. IsCtl(ctl)
        BY CtlOf DEF FinalInv10, Sound
  <2>. QED  BY <1>1, <2>1 DEF IsCtl, Fields, Level
<1>3. ClockHolds(Seg10)'
      BY <1>1, <1>2, ClockLeft DEF Clock10, Level
<1>. QED  BY <1>1, <1>2, <1>3 DEF Clock10, Shut10, Level

LEMMA SameActions10 ==
    /\ F10!Crash <=> Crash
    /\ F10!TimePasses <=> TimePasses
    /\ F10!IncidentToggled <=> IncidentToggled
<1>1. F10!Crash <=> Crash
      BY SamePieces10 DEF F10!Crash, Crash
<1>2. F10!Stamped(hist, FALSE, 0) = Stamped(hist, FALSE, 0)
      /\ F10!Stamped(hist, hist.exact, ctl.left) = Stamped(hist, hist.exact, ctl.left)
      BY DEF F10!Stamped, Stamped
<1>3. F10!TimePasses <=> TimePasses
      BY <1>2 DEF F10!TimePasses, TimePasses, F10!Counts, Counts
<1>4. F10!IncidentToggled <=> IncidentToggled
      BY <1>2, SamePieces10 DEF F10!IncidentToggled, IncidentToggled
<1>. QED  BY <1>1, <1>3, <1>4

LEMMA LeaveClock10 ==
    ASSUME Clock10, F10!LeaveCompleted
    PROVE  Clock10'
<1>1. rec' = rec /\ hist' = hist /\ up' = "none"
      BY DEF F10!LeaveCompleted
<1>2. ClockHolds(Seg10)'
      BY <1>1, ClockLeft DEF Clock10
<1>. QED  BY <1>1, <1>2 DEF Clock10

LEMMA EnvironmentClock10 ==
    ASSUME FinalInv10, Clock10, F10!TimePasses \/ F10!IncidentToggled \/ F10!Crash
    PROVE  Clock10'
<1>1. Sound(Course10) /\ ClockHolds(Seg10)
      BY DEF FinalInv10, Clock10
<1>2. CASE F10!TimePasses
  <2>1. TimePasses
        BY <1>2, SameActions10
  <2>2. ClockHolds(Seg10)'
        BY <1>1, <2>1, TimeTold, Segments10
  <2>3. /\ up = "live" /\ ctl'.stage = ctl.stage /\ ctl'.seqStep = ctl.seqStep
        /\ ctl'.window = ctl.window
    <3>1. IsCtl(ctl)
          BY CtlOf, <1>1 DEF Sound
    <3>. QED  BY <2>1, <3>1 DEF TimePasses, IsCtl, Fields
  <2>. QED  BY <2>2, <2>3 DEF Clock10, Shut10
<1>3. CASE F10!IncidentToggled
  <2>1. IncidentToggled
        BY <1>3, SameActions10
  <2>2. ClockHolds(Seg10)'
        BY <1>1, <2>1, IncidentTold
  <2>3. up = "live" /\ ctl' = ctl
        BY <2>1 DEF IncidentToggled
  <2>. QED  BY <2>2, <2>3 DEF Clock10, Shut10
<1>4. CASE F10!Crash
  <2>1. rec' = rec /\ hist' = hist /\ up' = "down"
        BY <1>4, SameActions10 DEF Crash, Down
  <2>2. ClockHolds(Seg10)'
        BY <1>1, <2>1, ClockLeft
  <2>. QED  BY <2>1, <2>2 DEF Clock10
<1>. QED  BY <1>2, <1>3, <1>4

LEMMA InitClock10 ==
    ASSUME F10!Init
    PROVE  Clock10
<1>1. up = "none" /\ hist.exact = FALSE
      BY DEF F10!Init, F10!NewHist
<1>. QED  BY <1>1 DEF Clock10, ClockHolds

LEMMA NextClock10 ==
    ASSUME FinalInv10, Clock10, F10!Next
    PROVE  Clock10'
<1>1. CASE F10!StartFinal
      BY <1>1, StartClock10
<1>2. CASE F10!Resume
      BY <1>2, ResumeClock10
<1>3. CASE F10!LeaveCompleted
      BY <1>3, LeaveClock10
<1>4. CASE F10!SkipCeremony \/ F10!HoldOver
      BY <1>4, PrepClock10
<1>5. CASE F10!AbortFinal
      BY <1>5, AbortClock10
<1>6. CASE F10!PauseToggled
      BY <1>6, PauseClock10
<1>7. CASE F10!RegisterSighter \/ F10!RejectShot
      BY <1>7, ShotOnlyClock10
<1>8. CASE F10!RegisterOfficial
      BY <1>8, OfficialClock10
<1>9. CASE F10!TakeYourPositions \/ F10!LoadCommand
      BY <1>9, CommandClock10
<1>10. CASE F10!Warning
       BY <1>10, WarningClock10
<1>11. CASE F10!StartCommand
       BY <1>11, OpensClock10
<1>12. CASE F10!PrepStop
       BY <1>12, PrepStopClock10
<1>13. CASE F10!CommandExpired
       BY <1>13, ExpiredClock10
<1>14. CASE F10!TimePasses \/ F10!IncidentToggled \/ F10!Crash
       BY <1>14, EnvironmentClock10
<1>. QED  BY <1>1, <1>2, <1>3, <1>4, <1>5, <1>6, <1>7, <1>8, <1>9, <1>10, <1>11, <1>12, <1>13,
            <1>14
         DEF F10!Next, F10!Tick
-----------------------------------------------------------------------------
(* A resume keeps the clock.                                               *)

ClockInv == (which = "3P" => Clock3) /\ (which = "10m" => Clock10)

\* A crash in a segment that began with its window costs no time and gives none
\* (rebasedEnd), for every duration.  ClockInv says that while the clock of such a
\* segment runs, what the controller has left is what the journal's window, at
\* the age the store's clock gives it, leaves of the segment; and that a window
\* is shut until its segment begins.
THEOREM SpecKeepsClock == Spec => ResumeKeepsClock
<1>1. Init => ClockInv
      BY InitClock3, InitClock10 DEF Init, ClockInv
<1>2. FinalInv /\ ClockInv /\ [Next]_lvars => ClockInv'
  <2>1. SUFFICES ASSUME FinalInv, ClockInv, [Next]_lvars PROVE ClockInv'
        OBVIOUS
  <2>2. CASE which = "3P" /\ F3!Next /\ which' = which
    <3>1. FinalInv3 /\ Clock3
          BY <2>1, <2>2 DEF FinalInv, ClockInv
    <3>2. Clock3'
          BY <2>2, <3>1, NextClock3
    <3>. QED  BY <2>2, <3>2 DEF ClockInv
  <2>3. CASE which = "10m" /\ F10!Next /\ which' = which
    <3>1. FinalInv10 /\ Clock10
          BY <2>1, <2>3 DEF FinalInv, ClockInv
    <3>2. Clock10'
          BY <2>3, <3>1, NextClock10
    <3>. QED  BY <2>3, <3>2 DEF ClockInv
  <2>4. CASE UNCHANGED lvars
    <3>1. UNCHANGED <<which, up, ctl, rec, hist>>
          BY <2>4 DEF lvars, fvars
    <3>. QED  BY <2>1, <3>1 DEF ClockInv, Clock3, Clock10, ClockHolds, Shut3, Shut10
  <2>. QED  BY <2>1, <2>2, <2>3, <2>4 DEF Next
<1>3. FinalInv /\ ClockInv /\ [Next]_lvars =>
        [IF which = "3P" THEN F3!KeepsClock ELSE F10!KeepsClock]_fvars
      BY KeepsClock3, KeepsClock10 DEF FinalInv, ClockInv
<1>. QED  BY <1>1, <1>2, <1>3, SpecKeepsFinals, PTL DEF Spec, ResumeKeepsClock
=============================================================================
