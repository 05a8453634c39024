----------------------------- MODULE TargetLink -----------------------------
(***************************************************************************)
(* The electronic target and its acquisition: the poll of the shot         *)
(* counter, the loss and the recovery of the link, the resets of the       *)
(* numbering, the swap between sighters and match, the page that takes the *)
(* shots, and the paper feed.                                              *)
(*                                                                         *)
(* The target counts shots in a register and keeps the coordinates of the  *)
(* n-th in slot n.  A shot is its number in the order of firing; 0 is one  *)
(* of an earlier session, Nowhere the coordinates (-1, -1) that getXCord   *)
(* gives when it has none, and Centre the zeros of a read that failed.     *)
(* All handlers run on one thread and poll every 100 ms.  A feed blocks    *)
(* that thread; it takes no step here.                                     *)
(***************************************************************************)
EXTENDS Integers, Sequences, SequencesExt

CONSTANTS
    Residue,          \* counts that the target may hold when the program starts
    FlushShootCount,  \* FLUSH_SHOOT_COUNT, 10
    RecentIdentities, \* kRecentIdentityLimit, 512
    ReadFailures,     \* kReadFailuresBeforeLinkLost, 3
    LivenessPolls,    \* kLoginLivenessPolls, 10
    FeedSeconds,      \* the configured feed of each kind of shot
    MaxShots,         \* bound: shots fired
    MaxFaults         \* bound: cables pulled, disconnections, power failures, failed reads and writes

LinkAssumption ==
    /\ Residue \in Nat /\ MaxShots \in Nat /\ MaxFaults \in Nat
    /\ {FlushShootCount, RecentIdentities, ReadFailures, LivenessPolls} \subseteq Nat \ {0}
    /\ DOMAIN FeedSeconds = {"Sighter", "Counted"}

VARIABLES
    hw,     \* the target: plugged in or not, counter, slots
    app,    \* TachusWidget, the page and the feed coordinator
    shots,  \* shots fired
    faults  \* faults so far

avars == <<hw, app, shots, faults>>

Nowhere == -1
Centre == -2
NoShot == [shot |-> Nowhere]
-----------------------------------------------------------------------------
(* Pieces of handlers: functions of the application.                       *)
\* last: the shot that the last step acquired.
Now == [app EXCEPT !.last = NoShot]

\* sound: the numbering was last reset with success on a fresh page, and
\* since then every shot has found the application listening and was read
\* before the next shot and before the link was lost, no read of coordinates
\* has failed, the target has kept its counter, and neither a flush, nor a
\* connection made by hand, nor a return to the sighters has moved the
\* baseline.
Spoilt(a) == [a EXCEPT !.sound = FALSE]

\* onTargetLinkLost: the handle is released.
LinkLossIgnored(a) == a
OnTargetLinkLost(a) ==
    IF a.link # "Connected" THEN a
    ELSE [a EXCEPT !.link = "Reconnecting", !.modbus = "closed"]

ShootCount(a) == a.old + a.base
XCord(a, n) == IF n \in DOMAIN a.coords THEN a.coords[n] ELSE Nowhere
KindOf(a) == IF a.sighter THEN "Sighter" ELSE "Counted"

\* PaperFeedCoordinator.rememberIdentity: a first-in first-out memory.
Identity(a, n) == <<KindOf(a), n>>
Remembered(ids, id) ==
    LET all == Append(ids, id)
    IN  IF Len(all) > RecentIdentities THEN Tail(all) ELSE all
Feeds(a, n) ==
    /\ a.modbus # "closed" /\ ~Contains(a.ids, Identity(a, n))
    /\ FeedSeconds[KindOf(a)] > 0

\* onShootCountChanged of the page: a number it has passed is ignored.
Takes(a, n) == a.seen < n

\* The coordinates have arrived; shot number n is announced to the page, and
\* then to the feed.
Announced(a, b, coordinates, n) ==
    [b EXCEPT !.seen = IF Takes(b, n) THEN ShootCount(b) ELSE @,
              !.last = [shot |-> coordinates, kind |-> KindOf(b), sound |-> b.sound,
                        at |-> IF Takes(b, n) THEN XCord(a, n) ELSE Nowhere,
                        fed |-> b.live /\ Feeds(b, n)],
              !.ids = IF ~b.live \/ b.modbus = "closed" \/ Contains(@, Identity(b, n))
                      THEN @ ELSE Remembered(@, Identity(b, n))]
AnnounceFirst(a, coordinates, n) ==
    Announced(a, [a EXCEPT !.coords = Append(@, coordinates)], coordinates, n)
Announce(a, coordinates, n) ==
    LET b == [a EXCEPT !.coords = Append(@, coordinates)]
    IN  Announced(b, b, coordinates, n)

\* After the tenth shot the counter is to be flushed, by a thread.
FlushIfFull(a) ==
    IF a.base # FlushShootCount THEN a
    ELSE Spoilt([a EXCEPT !.old = @ + a.base, !.base = 0, !.flush = TRUE])

\* decidePoll.
DecidePollFromZero(state, baseline, counter) ==
    IF state = "Synchronizing" THEN IF counter = 0 THEN "Synchronized" ELSE "Fault"
    ELSE CASE state = "Acquiring" /\ counter = baseline -> "NoChange"
           [] state = "Acquiring" /\ counter = baseline + 1 -> "NewShots"
           [] OTHER -> "Fault"
DecidePoll(state, baseline, counter) ==
    IF state = "Synchronizing" THEN "Synchronized"
    ELSE CASE state = "Acquiring" /\ counter = baseline -> "NoChange"
           [] state = "Acquiring" /\ counter = baseline + 1 -> "NewShots"
           [] OTHER -> "Fault"

ReadFailed(a) ==
    LET b == [a EXCEPT !.failures = @ + 1]
    IN  IF b.failures >= ReadFailures THEN OnTargetLinkLost(b) ELSE b

\* Acquire: checkForNewShots, and what its result is used for.  slot is what
\* the read of the new slot returns.
Acquired(a, counter, slot) ==
    LET b == [a EXCEPT !.failures = 0, !.tick = 0]
        kind == DecidePoll(a.acq, a.base, counter)
    IN  CASE kind = "Synchronized" ->
                 [b EXCEPT !.acq = "Acquiring", !.base = counter,
                           !.sound = @ /\ a.base = counter]
          [] kind = "NoChange" -> b
          [] kind = "Fault" -> [b EXCEPT !.acq = "Fault"]
          [] kind = "NewShots" ->
                 LET c == [b EXCEPT !.base = counter, !.sound = @ /\ slot # Centre]
                 IN  FlushIfFull(Announce(c, slot, ShootCount(c)))

\* resetShootinCount; counter is what the target then holds, read whether it
\* could be read back.
ResetKeepingFeeds(a, counter, read) ==
    [a EXCEPT !.base = IF a.live /\ read THEN counter ELSE 0,
              !.old = 0, !.acq = "Synchronizing", !.coords = <<>>,
              !.sound = ~a.flush /\ (a.live => counter = 0)]
ResetShootinCount(a, counter, read) ==
    [a EXCEPT !.base = IF a.live /\ read THEN counter ELSE 0,
              !.old = 0, !.ids = <<>>, !.acq = "Synchronizing", !.coords = <<>>,
              !.sound = ~a.flush /\ (a.live => counter = 0)]

\* clearShootCount: the register is left alone (m_hardwareCheckDisabled).
ClearShootCount(a) ==
    [a EXCEPT !.old = @ + a.base, !.base = 0, !.sound = @ /\ a.base = 0]

\* changeSighterMode(true): the counters of the last sighting come back.  The
\* lists come back too, but every reset clears both.
ChangeToSighters(a) ==
    IF a.sighter THEN a
    ELSE Spoilt([a EXCEPT !.sighter = TRUE, !.coords = <<>>,
                          !.base = a.saved.base, !.old = a.saved.old])
\* changeSighterMode(false), up to the reset it ends with.
ChangeToMatch(a) ==
    [a EXCEPT !.sighter = FALSE, !.saved = [base |-> a.base, old |-> a.old]]
-----------------------------------------------------------------------------
\* What a read or a write can come to: outcomes with their cost in faults.  A
\* handle that died with the cable still counts as connected
\* (isModBusConnected is a cached flag), and answers nothing.
Answers(a) == a.modbus = "open"
Outcome(a, cost) == [app |-> a, cost |-> cost]
ReadOutcomes(a, Then(_), Else(_)) ==
    IF Answers(a) THEN {Outcome(Then(a), 0), Outcome(Else(a), 1)}
    ELSE {Outcome(Else(a), 0)}

\* attemptTargetReconnect: too early or no candidate; or opened, and proved by
\* a read.  The counter is adopted.
Reconnected(a) ==
    [a EXCEPT !.base = hw.counter, !.failures = 0, !.link = "Connected",
              !.acq = "Synchronizing", !.sound = @ /\ a.base = hw.counter]
Stays(a) == a
ReconnectOutcomes(a) ==
    {Outcome(a, 0)} \union
    IF hw.plugged THEN ReadOutcomes([a EXCEPT !.modbus = "open"], Reconnected, Stays)
    ELSE {}

\* The new slot is read without a look at the result: zeros if that fails.
AcquireOutcomes(a) ==
    LET Read(slot) == Acquired(a, hw.counter, slot)
        new == DecidePoll(a.acq, a.base, hw.counter) = "NewShots"
    IN  {Outcome(ReadFailed([a EXCEPT !.tick = 0]), IF Answers(a) THEN 1 ELSE 0)}
        \union
        CASE ~Answers(a) -> {}
          [] Answers(a) /\ ~new -> {Outcome(Read(Nowhere), 0)}
          [] Answers(a) /\ new -> {Outcome(Read(hw.slots[hw.counter]), 0),
                                  Outcome(Read(Centre), 1)}

\* on_pushButton_2_clicked, with decidePollAction.
PollOutcomes(a) ==
    CASE ~a.live -> {Outcome(a, 0)}
      [] a.live /\ a.link # "Connected" -> ReconnectOutcomes(a)
      [] a.live /\ a.link = "Connected" /\ a.home ->
             IF a.tick + 1 < LivenessPolls THEN {Outcome([a EXCEPT !.tick = @ + 1], 0)}
             ELSE ReadOutcomes([a EXCEPT !.tick = 0], Stays, OnTargetLinkLost)
      [] a.live /\ a.link = "Connected" /\ ~a.home ->
             IF a.modbus = "closed" THEN {Outcome([a EXCEPT !.tick = 0], 0)}
             ELSE AcquireOutcomes(a)

\* The numbering is reset.  The write of 0 may not be honoured, and the read
\* of the counter that follows may fail.
ResetOutcomes(a) ==
    LET tries == IF a.live /\ Answers(a) THEN BOOLEAN ELSE {FALSE}
        Cost(done) == IF TRUE \in tries /\ ~done THEN 1 ELSE 0
        left(honoured) == IF honoured THEN 0 ELSE hw.counter
    IN  {[app |-> ResetShootinCount(a, left(honoured), read), counter |-> left(honoured),
          cost |-> Cost(honoured) + Cost(read)] : honoured \in tries, read \in tries}
-----------------------------------------------------------------------------
NewApp(live, counter) ==
    [live |-> live, home |-> TRUE, seen |-> 0,
     modbus |-> "closed", link |-> "Connected", failures |-> 0, tick |-> 0,
     acq |-> "Synchronizing", base |-> 0, old |-> 0, coords |-> <<>>,
     sighter |-> TRUE, saved |-> [base |-> 0, old |-> 0], flush |-> FALSE,
     ids |-> <<>>, last |-> NoShot, sound |-> live => counter = 0]

Slots == 1 .. Residue + MaxShots

Init ==
    /\ \E live \in BOOLEAN, counter \in 0 .. Residue :
        /\ hw = [plugged |-> TRUE, counter |-> counter, slots |-> [n \in Slots |-> 0]]
        /\ app = NewApp(live, counter)
    /\ shots = 0 /\ faults = 0

Faults(n) == faults + n <= MaxFaults /\ faults' = faults + n

(* The target.                                                             *)
\* Somebody shoots.  The target counts whether or not anybody listens.
Listening == /\ app.acq = "Acquiring" /\ app.link = "Connected" /\ Answers(app)
             /\ ~app.home /\ hw.counter = app.base
Fire ==
    /\ app.live /\ shots < MaxShots /\ hw.counter + 1 \in Slots
    /\ shots' = shots + 1
    /\ hw' = [hw EXCEPT !.counter = @ + 1, !.slots[hw.counter + 1] = shots + 1]
    /\ app' = [Now EXCEPT !.sound = @ /\ Listening]
    /\ UNCHANGED faults

PowerFails ==
    /\ app.live /\ Faults(1)
    /\ hw' = [hw EXCEPT !.counter = 0, !.slots = [n \in Slots |-> 0]]
    /\ app' = [Now EXCEPT !.sound = @ /\ hw.counter = 0]
    /\ UNCHANGED shots

CablePulled ==
    /\ app.live /\ hw.plugged /\ Faults(1)
    /\ hw' = [hw EXCEPT !.plugged = FALSE]
    /\ app' = [Now EXCEPT !.modbus = IF @ = "open" THEN "dead" ELSE @]
    /\ UNCHANGED shots
CablePlugged ==
    /\ ~hw.plugged
    /\ hw' = [hw EXCEPT !.plugged = TRUE] /\ app' = Now /\ UNCHANGED <<shots, faults>>

\* WorkerThread.run, 2.6 s after the tenth shot.
FlushWritten ==
    /\ app.flush
    /\ app' = [Now EXCEPT !.flush = FALSE]
    /\ \/ Answers(app) /\ hw' = [hw EXCEPT !.counter = 0] /\ UNCHANGED faults
       \/ ~Answers(app) /\ UNCHANGED <<hw, faults>>
       \/ Answers(app) /\ Faults(1) /\ UNCHANGED hw
    /\ UNCHANGED shots
-----------------------------------------------------------------------------
(* The application.                                                        *)
Poll ==
    /\ app.live
    /\ \E p \in PollOutcomes(Now) : app' = p.app /\ Faults(p.cost)
    /\ UNCHANGED <<hw, shots>>

\* connectedModbus: a handle that is open is kept, a dead one as well if the
\* port has kept its name.
Connect ==
    /\ app.live /\ app.home /\ hw.plugged /\ ~Answers(app)
    /\ app' = ClearShootCount([Now EXCEPT !.modbus = "open"])
    /\ UNCHANGED <<hw, shots, faults>>
DisconnectModbus ==
    /\ app.live /\ app.home /\ app.modbus # "closed" /\ Faults(1)
    /\ app' = [Now EXCEPT !.modbus = "closed"] /\ UNCHANGED <<hw, shots>>

\* Start of a match or of a final; a match begins with sighters.  In Live the
\* target must answer, or the page stays.  Then follow one poll and the reset;
\* a shot that this poll finds has been shown, and the page counts on from it.
Entered(a, sighters) ==
    LET b == [a EXCEPT !.home = FALSE] IN IF sighters THEN ChangeToSighters(b) ELSE b
Entries(sighters) ==
    LET Enters(a) == Entered(a, sighters)
    IN  IF app.live THEN ReadOutcomes(Now, Enters, Stays) ELSE {Outcome(Enters(Now), 0)}
Start ==
    /\ app.home
    /\ \E sighters \in BOOLEAN : \E e \in Entries(sighters) :
       \E p \in IF e.app.modbus = "closed" THEN {Outcome(e.app, 0)} ELSE PollOutcomes(e.app) :
       \E r \in ResetOutcomes(p.app) :
          /\ Faults(e.cost + p.cost + r.cost)
          /\ app' = [r.app EXCEPT !.sound = @ /\ r.app.seen = 0]
          /\ hw' = [hw EXCEPT !.counter = r.counter]
    /\ UNCHANGED shots

\* Training, and the resume of a final: neither resets, or asks the target.
StartTraining ==
    /\ app.home /\ app' = Entered(Now, TRUE) /\ UNCHANGED <<hw, shots, faults>>
ResumeFinal ==
    /\ app.home /\ app' = Entered(Now, FALSE) /\ UNCHANGED <<hw, shots, faults>>

GoHome ==
    /\ ~app.home
    /\ app' = [Now EXCEPT !.home = TRUE, !.seen = 0] /\ UNCHANGED <<hw, shots, faults>>

\* changedToMatchMode and changedToSigherMode of the page.
ChangedToMatch ==
    /\ ~app.home
    /\ IF app.sighter
       THEN \E r \in ResetOutcomes(ChangeToMatch(Now)) :
               /\ Faults(r.cost) /\ app' = [r.app EXCEPT !.seen = 0]
               /\ hw' = [hw EXCEPT !.counter = r.counter]
       ELSE app' = [Now EXCEPT !.seen = 0] /\ UNCHANGED <<hw, faults>>
    /\ UNCHANGED shots
ChangedToSighters ==
    /\ ~app.home /\ app' = ChangeToSighters(Now) /\ UNCHANGED <<hw, shots, faults>>

\* uxShoot: in Demo the operator clicks a shot.
UxShoot ==
    /\ ~app.live /\ ~app.home /\ shots < MaxShots
    /\ shots' = shots + 1
    /\ app' = Announce([Now EXCEPT !.old = @ + 1], shots + 1, app.old + 1)
    /\ UNCHANGED <<hw, faults>>

Next == \/ Fire \/ PowerFails \/ CablePulled \/ CablePlugged \/ FlushWritten
        \/ Poll \/ Connect \/ DisconnectModbus \/ Start \/ StartTraining \/ ResumeFinal
        \/ GoHome \/ ChangedToMatch \/ ChangedToSighters \/ UxShoot

Spec == Init /\ [][Next]_avars

\* The poll is a timer of the user interface.
PollFairness == WF_avars(Poll)
-----------------------------------------------------------------------------
(* Properties.                                                             *)
\* As long as nothing has spoilt the numbering, the page marks each shot where
\* it fell, each once, and none is missing.
ShotsCorrect ==
    /\ app.last # NoShot /\ app.last.sound =>
          app.last.shot = shots /\ app.last.at = app.last.shot
    /\ app.sound /\ app.live /\ app.acq = "Acquiring" =>
          /\ app.coords = [n \in 1 .. app.base |-> hw.slots[n]]
          /\ hw.counter - app.base \in {0, 1}

\* Acquisition stops only if something has: no false alarm.
FaultsExplained == app.acq = "Fault" => ~app.sound

\* Paper is fed for every shot, though numbers begin again at 1 all the time.
FedOnce ==
    app.last # NoShot /\ app.last.sound /\ app.live =>
        (app.last.fed <=> FeedSeconds[app.last.kind] > 0)

\* A cable that is pulled is noticed, on any page, and the link comes back
\* when the cable does.
LinkIsKept ==
    /\ (app.modbus = "dead" /\ app.link = "Connected") ~>
           (app.modbus # "dead" \/ app.link # "Connected")
    /\ app.link = "Reconnecting" ~> (app.link = "Connected" \/ ~hw.plugged)
=============================================================================
