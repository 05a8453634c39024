--------------------------- MODULE TrainingBlocks ---------------------------
(***************************************************************************)
(* TrainingProgramController: Technical Blocks.  Sighters, then blocks of  *)
(* shots, each followed by its review; in three positions the first block  *)
(* of a position is preceded by sighters again.                            *)
(***************************************************************************)
EXTENDS TrainingSession

CONSTANTS
    BlockCount,    \* blockCount
    ShotsPerBlock,
    FiredInBlocks  \* bound: shots fired in a session

BlocksAssumption ==
    BlockCount \in Nat \ {0} /\ ShotsPerBlock \in Nat \ {0} /\ FiredInBlocks \in Nat

BlockIds == 1 .. BlockCount
Idle == [phase |-> 0, block |-> 0, last |-> 0]
NoRec == [on |-> FALSE, done |-> FALSE, threeP |-> FALSE, sighting |-> FALSE,
          before |-> 1, block |-> 0, begun |-> {}, full |-> {}, noted |-> {},
          sighters |-> {}, shots |-> [b \in BlockIds |-> {}]]

PositionForBlock(b) == IF rec.threeP THEN (b - 1) \div (BlockCount \div 3) ELSE 0
PendingBlock == IF ctl.block < BlockCount THEN ctl.block + 1 ELSE BlockCount
ShotsInBlock == Cardinality(rec.shots[ctl.block])
RoomOfOneMore == ShotsInBlock <= ShotsPerBlock
RoomInBlock == ShotsInBlock < ShotsPerBlock
-----------------------------------------------------------------------------
(* Events.                                                                 *)
TrainingSessionStarted(r, threeP) ==
    [r EXCEPT !.on = TRUE, !.threeP = threeP, !.sighting = TRUE, !.before = 1]
TrainingSighterPhaseStarted(r, b) == [r EXCEPT !.sighting = TRUE, !.before = b]
TrainingSighterAccepted(r, id) == [r EXCEPT !.sighters = @ \union {id}]
TrainingBlockStarted(r, b) ==
    [r EXCEPT !.block = b, !.sighting = FALSE, !.begun = @ \union {b}]
TrainingShotAccepted(r, b, id) ==
    [r EXCEPT !.shots[b] = @ \union {id}, !.begun = @ \union {b}]
TrainingBlockCompleted(r, b) == [r EXCEPT !.full = @ \union ({b} \intersect r.begun)]
TrainingNoteSaved(r, b) == [r EXCEPT !.noted = @ \union ({b} \intersect r.begun)]
TrainingCompleted(r) == [r EXCEPT !.done = TRUE]
-----------------------------------------------------------------------------
(* Operations.                                                             *)
Init == /\ up = "none" /\ ctl = Idle /\ rec = NoRec /\ fired = 0
        /\ hist = NewHist /\ crashes = 0

\* validate: in three positions the blocks divide evenly among them.
StartTraining ==
    \E threeP \in BOOLEAN :
        /\ threeP => BlockCount % 3 = 0
        /\ Starts([Idle EXCEPT !.phase = 1], <<NoRec, TrainingSessionStarted(NoRec, threeP)>>)

StartBlock ==
    /\ ctl.phase = 1
    /\ Does([ctl EXCEPT !.phase = 2, !.block = PendingBlock],
            <<TrainingBlockStarted(rec, PendingBlock)>>)

\* registerShot.  The last shot of a block completes it, an event of its own.
AcceptSighter(id) ==
    /\ ctl.phase = 1 /\ ~Repeated(id)
    /\ Submits([ctl EXCEPT !.last = id], <<TrainingSighterAccepted(rec, id)>>)
AcceptShot(id) ==
    /\ ctl.phase = 2 /\ ~Repeated(id) /\ RoomInBlock
    /\ LET shot == TrainingShotAccepted(rec, ctl.block, id)
           taken == [ctl EXCEPT !.last = id]
       IN  IF ShotsInBlock + 1 < ShotsPerBlock THEN Submits(taken, <<shot>>)
           ELSE Submits([taken EXCEPT !.phase = 3],
                        <<shot, TrainingBlockCompleted(shot, ctl.block)>>)
RefuseShot(id) ==
    /\ \/ ctl.phase \notin {1, 2} \/ Repeated(id)
       \/ ctl.phase = 2 /\ ~RoomInBlock
    /\ Submits(ctl, <<>>)
RegisterShot ==
    /\ Detected(FiredInBlocks)
    /\ AcceptSighter(fired + 1) \/ AcceptShot(fired + 1) \/ RefuseShot(fired + 1)

SaveNote ==
    /\ ctl.phase \in {3, 4} /\ Does(ctl, <<TrainingNoteSaved(rec, ctl.block)>>)

ContinueToNextBlock ==
    LET next == ctl.block + 1
    IN  /\ ctl.phase = 3
        /\ IF ctl.block >= BlockCount
           THEN Does([ctl EXCEPT !.phase = 4], <<TrainingCompleted(rec)>>)
           ELSE IF PositionForBlock(next) # PositionForBlock(ctl.block)
           THEN Does([ctl EXCEPT !.phase = 1], <<TrainingSighterPhaseStarted(rec, next)>>)
           ELSE Does([ctl EXCEPT !.phase = 2, !.block = next],
                     <<TrainingBlockStarted(rec, next)>>)

EndTrainingEarly ==
    ctl.phase = 3 /\ Does([ctl EXCEPT !.phase = 4], <<TrainingCompleted(rec)>>)

CloseCleanly == Closes(Idle, NoRec)

\* resumeFromRecovery: block and phase are derived from the record.
BlockPastSighters(r) == IF r.sighting THEN r.before ELSE Max({1, r.block})
BlockRecovered(r) == IF r.sighting THEN r.before - 1 ELSE Max({1, r.block})
PhaseNeverReview(r) == IF r.sighting THEN 1 ELSE 2
PhaseRecovered(r) ==
    IF r.sighting THEN 1 ELSE IF BlockRecovered(r) \in r.full THEN 3 ELSE 2
Recovered(r) == [Idle EXCEPT !.block = BlockRecovered(r), !.phase = PhaseRecovered(r)]
RecordedIds == rec.sighters \union UNION {rec.shots[b] : b \in BlockIds}
Resume == Resumes(Recovered(rec), RecordedIds)

Next == \/ StartTraining \/ StartBlock \/ RegisterShot \/ SaveNote
        \/ ContinueToNextBlock \/ EndTrainingEarly \/ CloseCleanly \/ Resume \/ Crash

Spec == Init /\ [][Next]_tvars
-----------------------------------------------------------------------------
(* Properties.                                                             *)
\* No shot is both a sighter and counted, or in two blocks.
ShotsRecordedOnce ==
    /\ \A b \in BlockIds : /\ rec.shots[b] \intersect rec.sighters = {}
                           /\ \A a \in 1 .. b - 1 : rec.shots[a] \intersect rec.shots[b] = {}
    /\ up = "live" => ctl.last = MaxId(RecordedIds)

\* No block spills over, and the ones that are complete have all their shots.
WithinPlan ==
    \A b \in BlockIds : /\ Cardinality(rec.shots[b]) <= ShotsPerBlock
                        /\ b \in rec.full => Cardinality(rec.shots[b]) = ShotsPerBlock

\* A block that waits for shots has room for one, unless a crash came between
\* its last shot and TrainingBlockCompleted.
RoomForShots ==
    up = "live" /\ ctl.phase = 2 /\ ~hist.cut => ShotsInBlock < ShotsPerBlock

\* A block begins after the earlier ones are complete, and a note is about a
\* block that is.
InOrder ==
    /\ \A b \in rec.begun : 1 .. b - 1 \subseteq rec.full
    /\ rec.noted \subseteq rec.full

\* A resume gives the phase and the block back, unless a handler was cut.
ResumesInPlace ==
    Resume /\ ~hist.cut => ctl'.phase = ctl.phase /\ ctl'.block = ctl.block
=============================================================================
