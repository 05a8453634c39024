---------------------------- MODULE CallDiagnose ----------------------------
(***************************************************************************)
(* CallDiagnoseController: the athlete calls each shot before its impact   *)
(* is shown.  A shot that was received waits, hidden, for its call.        *)
(***************************************************************************)
EXTENDS TrainingSession

CONSTANTS
    ShotCount,    \* shots to be called in a position
    FiredInCalls  \* bound: shots fired in a session

CallsAssumption == ShotCount \in Nat \ {0} /\ FiredInCalls \in Nat

Sighters == 1
AwaitingShot == 2
AwaitingCall == 3
Reveal == 4
Complete == 5

Idle == [phase |-> 0, pos |-> 0, last |-> 0, placed |-> FALSE, shot |-> 0]
NoRec == [on |-> FALSE, done |-> FALSE, threeP |-> FALSE, sighting |-> FALSE,
          calling |-> FALSE, pos |-> 0, sighters |-> {}, shots |-> <<>>]

Received(r, p) == Cardinality({i \in DOMAIN r.shots : r.shots[i].pos = p})
Completed(r, p) ==
    Cardinality({i \in DOMAIN r.shots : r.shots[i].pos = p /\ r.shots[i].called})
\* currentUnresolvedShot and lastResolvedShot look from the end.
LastWhere(r, called) == SelectLastInSeq(r.shots, LAMBDA s : s.called = called)
-----------------------------------------------------------------------------
(* Events.                                                                 *)
CallDiagnoseSessionStarted(r, threeP) ==
    [r EXCEPT !.on = TRUE, !.threeP = threeP, !.pos = 0, !.calling = FALSE,
              !.sighting = TRUE]
CallDiagnoseStarted(r, p) ==
    [r EXCEPT !.calling = TRUE, !.pos = p, !.sighting = FALSE]
TrainingSighterPhaseStarted(r) == [r EXCEPT !.sighting = TRUE]
TrainingSighterAccepted(r, id) == [r EXCEPT !.sighters = @ \union {id}]
CallDiagnoseShotReceived(r, p, n, id) ==
    [r EXCEPT !.shots =
        Append(@, [pos |-> p, n |-> n, id |-> id, called |-> FALSE, noted |-> FALSE])]
\* The first shot with that number in that position.
CallDiagnoseCallRecorded(r, p, n) ==
    [r EXCEPT !.shots[SelectInSeq(r.shots, LAMBDA s : s.pos = p /\ s.n = n)].called = TRUE]
CallDiagnoseNoteSaved(r, p, n) ==
    [r EXCEPT !.shots[SelectInSeq(r.shots, LAMBDA s : s.pos = p /\ s.n = n)].noted = TRUE]
CallDiagnoseCompleted(r) == [r EXCEPT !.done = TRUE]
-----------------------------------------------------------------------------
(* Operations.                                                             *)
Init == /\ up = "none" /\ ctl = Idle /\ rec = NoRec /\ fired = 0
        /\ hist = NewHist /\ crashes = 0

StartCallDiagnose ==
    \E threeP \in BOOLEAN :
        Starts([Idle EXCEPT !.phase = Sighters],
               <<NoRec, CallDiagnoseSessionStarted(NoRec, threeP)>>)

StartProgramme ==
    /\ ctl.phase = Sighters
    /\ Does([ctl EXCEPT !.phase = AwaitingShot], <<CallDiagnoseStarted(rec, ctl.pos)>>)

\* registerShot: no shot is taken while one waits for its call or is shown.
AcceptSighter(id) ==
    /\ ctl.phase = Sighters /\ ~Repeated(id)
    /\ Submits([ctl EXCEPT !.last = id], <<TrainingSighterAccepted(rec, id)>>)
AcceptActualShot(id) ==
    LET n == Received(rec, ctl.pos) + 1
    IN  /\ ctl.phase = AwaitingShot /\ ~Repeated(id)
        /\ Submits([ctl EXCEPT !.phase = AwaitingCall, !.last = id, !.placed = FALSE,
                               !.shot = n],
                   <<CallDiagnoseShotReceived(rec, ctl.pos, n, id)>>)
RefuseShot(id) ==
    /\ ctl.phase \notin {Sighters, AwaitingShot} \/ Repeated(id)
    /\ Submits(ctl, <<>>)
RegisterShot ==
    /\ Detected(FiredInCalls)
    /\ AcceptSighter(fired + 1) \/ AcceptActualShot(fired + 1) \/ RefuseShot(fired + 1)

SubmitCall ==
    ctl.phase = AwaitingCall /\ ~ctl.placed /\ Does([ctl EXCEPT !.placed = TRUE], <<>>)
ClearCall == ctl.placed /\ Does([ctl EXCEPT !.placed = FALSE], <<>>)
ConfirmCall ==
    /\ ctl.phase = AwaitingCall /\ ctl.placed
    /\ Does([ctl EXCEPT !.phase = Reveal, !.placed = FALSE],
            <<CallDiagnoseCallRecorded(rec, ctl.pos, ctl.shot)>>)

SaveShotNote ==
    LET i == LastWhere(rec, TRUE)
    IN  /\ ctl.phase \in {Reveal, Complete} /\ i # 0
        /\ Does(ctl, <<CallDiagnoseNoteSaved(rec, rec.shots[i].pos, rec.shots[i].n)>>)

ContinueToNext ==
    /\ ctl.phase = Reveal
    /\ IF Completed(rec, ctl.pos) < ShotCount
       THEN Does([ctl EXCEPT !.phase = AwaitingShot], <<>>)
       ELSE IF rec.threeP /\ ctl.pos < 2
       THEN Does([ctl EXCEPT !.phase = Sighters, !.pos = @ + 1],
                 <<TrainingSighterPhaseStarted(rec)>>)
       ELSE Does([ctl EXCEPT !.phase = Complete], <<CallDiagnoseCompleted(rec)>>)

EndEarly ==
    /\ ctl.phase \in {Sighters, AwaitingShot, Reveal}
    /\ Does([ctl EXCEPT !.phase = Complete], <<CallDiagnoseCompleted(rec)>>)

CloseCleanly == Closes(Idle, NoRec)

\* resumeFromRecovery: a shot without a call waits for it again.
RecoveredResolved(r) ==
    [Idle EXCEPT !.pos = r.pos,
                 !.phase = IF r.sighting \/ ~r.calling THEN Sighters ELSE AwaitingShot]
Recovered(r) ==
    LET i == LastWhere(r, FALSE)
    IN  IF i = 0 THEN RecoveredResolved(r)
        ELSE [Idle EXCEPT !.phase = AwaitingCall, !.pos = r.shots[i].pos,
                          !.shot = r.shots[i].n]
RecordedIds == rec.sighters \union {rec.shots[i].id : i \in DOMAIN rec.shots}
Resume == Resumes(Recovered(rec), RecordedIds)

Next == \/ StartCallDiagnose \/ StartProgramme \/ RegisterShot \/ SubmitCall
        \/ ClearCall \/ ConfirmCall \/ SaveShotNote \/ ContinueToNext \/ EndEarly
        \/ CloseCleanly \/ Resume \/ Crash

Spec == Init /\ [][Next]_tvars
-----------------------------------------------------------------------------
(* Properties.                                                             *)
\* At most one shot waits for its call, exactly while the controller awaits
\* one, and the call will go to that shot, resumes included.
OneUnresolvedShot ==
    LET waiting == {i \in DOMAIN rec.shots : ~rec.shots[i].called}
    IN  /\ Cardinality(waiting) <= 1
        /\ up = "live" => (ctl.phase = AwaitingCall <=> waiting # {})
        /\ up = "live" => \A i \in waiting :
               rec.shots[i].pos = ctl.pos /\ rec.shots[i].n = ctl.shot

\* No shot is recorded twice, as a sighter or as one to be called.
ShotsRecordedOnce ==
    /\ \A i \in DOMAIN rec.shots : /\ rec.shots[i].id \notin rec.sighters
                                   /\ \A j \in 1 .. i - 1 : rec.shots[j].id # rec.shots[i].id
    /\ up = "live" => ctl.last = MaxId(RecordedIds)

\* A position takes the planned shots, and at most one more for each resume:
\* one from the reveal of the last shot, or from the sighters of the next
\* position, goes on in the position that was over.
WithinPlan == \A p \in 0 .. 2 : Received(rec, p) <= ShotCount + hist.resumes

\* Shots are numbered without gaps in each position, and those of a position
\* come after all of the one before it.
InOrder ==
    /\ \A i \in DOMAIN rec.shots :
           rec.shots[i].n = Cardinality({j \in 1 .. i : rec.shots[j].pos = rec.shots[i].pos})
    /\ \A i \in DOMAIN rec.shots :
           rec.shots[i].pos > 0 => Completed(rec, rec.shots[i].pos - 1) >= ShotCount
    /\ \A i \in DOMAIN rec.shots : rec.shots[i].noted => rec.shots[i].called

\* A resume gives phase and position back, except that it passes over the
\* reveal, and returns from the sighters to the position last called in.
ResumesInPlace ==
    Resume => /\ ctl'.phase = IF ctl.phase = Reveal THEN AwaitingShot ELSE ctl.phase
              /\ ctl.phase # Sighters => ctl'.pos = ctl.pos
=============================================================================
