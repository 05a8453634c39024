---------------------------- MODULE SessionStore ----------------------------
(***************************************************************************)
(* The event store of one lane: SessionStore over JournalManager,          *)
(* JournalWriter and PersistenceRetryQueue, the JournalValidator and the   *)
(* recovery path that reads the file back (RecoveryCoordinator,            *)
(* ReplayEngine, SessionStore::resumeSession).                             *)
(*                                                                         *)
(* An event is reduced first (it is scored whatever storage does) and then *)
(* written; what cannot be written waits in the retry queue.  A handler is *)
(* one action: the outcome of every write it makes is chosen inside it.  A *)
(* crash in the middle of a handler leaves the file as if the interrupted  *)
(* write had failed (or torn) and the process had died afterwards, and the *)
(* file is all that outlives the process, so Crash between actions covers  *)
(* crashes inside them.                                                    *)
(*                                                                         *)
(* Abstracted: the payload, the wall clock and the hash chain (one writer  *)
(* appends, the chain follows the order of the lines, and only storage     *)
(* that altered bytes in place would break it).                            *)
(***************************************************************************)
EXTENDS Integers, Sequences, FiniteSets, SequencesExt

CONSTANTS
    AuxCap,       \* PersistenceRetryQueue::kAuxCap (4096 in production)
    Submitted,    \* the kinds of event the controllers submit
    Faults,       \* the write failures storage may produce
    MaxSeq,       \* bound: controllers submit while nextSeq < MaxSeq
    MaxCrashes    \* bound: number of crashes

\* The three ways JournalWriter::appendSeq fails: nothing reached the file,
\* the whole line did but flush/fsync failed, part of a line did.
AllFaults == {"clean", "unsynced", "torn"}

\* EventRegistry: the durability class of each kind of event.
SyncKinds == {"SessionStarted", "ShotAccepted", "TimerPaused", "MatchCompleted",
              "PersistenceDegraded", "AuxEventsDropped", "RecoveryStarted",
              "RecoveryCompleted", "SessionClosed", "CleanShutdown"}
FlushKinds == {"TimerStarted", "PersistenceRestored"}
AppendKinds == {"ShotRejected"}
Kinds == SyncKinds \cup FlushKinds \cup AppendKinds

\* What producers submit; every other kind is a marker of the store itself.
ProducerKinds == {"ShotAccepted", "TimerPaused", "MatchCompleted",
                  "TimerStarted", "ShotRejected"}

ASSUME AuxCapAssumption == AuxCap \in Nat \ {0}
ASSUME SubmittedAssumption == Submitted \subseteq ProducerKinds
ASSUME FaultsAssumption == Faults \subseteq AllFaults
ASSUME BoundsAssumption == MaxSeq \in Nat /\ MaxCrashes \in Nat

\* One event with its sequence number: a line of the journal, or an entry of
\* the queue.  drops is the set of sequence numbers an AuxEventsDropped
\* declares and is empty for every other kind.
Line == [seq : Nat, kind : Kinds, drops : SUBSET Nat]
Event(s, k, d) == [seq |-> s, kind |-> k, drops |-> d]

VARIABLES
    phase,      \* "idle", "active", "down", "closed", "discarded"
    journal,    \* the complete lines of the file, in write order
    torn,       \* the file ends in part of a line
    synced,     \* how many lines are certain to survive a power loss
    poisoned,   \* JournalWriter::m_poisoned
    queue,      \* PersistenceRetryQueue::m_items
    dropped,    \* PersistenceRetryQueue::m_droppedSeqs
    nextSeq,    \* SessionStore::m_nextSeq
    health,     \* SessionStore::m_health
    pending,    \* SessionStore::m_degradedMarkerPending
    ram,        \* the events m_state is the fold of
    acked,      \* history: the events whose submit reported persistedDurably
    lost,       \* history: numbers that neither the file nor the queue explains
    crashes     \* number of crashes so far

vars == <<phase, journal, torn, synced, poisoned, queue, dropped, nextSeq,
          health, pending, ram, acked, lost, crashes>>
-----------------------------------------------------------------------------
OfficialButCompletion(line) == line.kind \in SyncKinds \ {"MatchCompleted"}
Official(line) == line.kind \in SyncKinds
SeqsOf(lines) == {lines[i].seq : i \in DOMAIN lines}
LinesOf(lines) == {lines[i] : i \in DOMAIN lines}
Declared(lines) == UNION {lines[i].drops : i \in DOMAIN lines}
Ascending(lines) ==
    \A i, j \in DOMAIN lines : i < j => lines[i].seq < lines[j].seq

\* SessionReducer::apply, the legality conditions: may an event of kind k
\* follow the events in past?
Completed(past) == \E e \in past : e.kind = "MatchCompleted"
Started(past) == \E e \in past : e.kind = "SessionStarted"
TimerRuns(past) ==
    \E e \in past : /\ e.kind = "TimerStarted"
                    /\ \A p \in past : p.kind = "TimerPaused" => p.seq < e.seq
Legal(k, past) ==
    /\ k = "SessionStarted" <=> ~Started(past)
    /\ k \in ProducerKinds => ~Completed(past)
    /\ k = "TimerPaused" => TimerRuns(past)
-----------------------------------------------------------------------------
(* JournalValidator::validate and RecoveryCoordinator's mapClass.          *)

LastSeq(lines) == lines[Len(lines)].seq

\* The forward gaps of the scan, and what is left of them once every
\* AuxEventsDropped line is taken into account (and the other way round).
Gapped(lines) ==
    IF lines = <<>> THEN {} ELSE (0 .. LastSeq(lines)) \ SeqsOf(lines)
Reconciled(lines) == Gapped(lines) = Declared(lines)

\* The classification if every failing line counted alike, the last one included.
StrictRecoveryClass(lines, isTorn) ==
    IF lines = <<>> THEN "Fatal"
    ELSE IF isTorn \/ ~Ascending(lines) \/ ~Reconciled(lines) THEN "Corrupt" ELSE "Clean"

\* A failure on the last line wins over the reconciliation at the end.
RecoveryClass(lines, isTorn) ==
    IF lines = <<>> THEN "Fatal"
    ELSE IF ~Ascending(lines) THEN "Corrupt"
    ELSE IF isTorn THEN "Recoverable"
    ELSE IF Reconciled(lines) THEN "Clean" ELSE "Corrupt"

\* ReplayEngine: the reducer accepts every line, given the ones before it.
Replays(lines) ==
    \A i \in DOMAIN lines :
        Legal(lines[i].kind, LinesOf(SubSeq(lines, 1, i - 1)))

Resumable(lines, isTorn) ==
    RecoveryClass(lines, isTorn) \in {"Clean", "Recoverable"}
-----------------------------------------------------------------------------
(* JournalWriter::appendSeq and the file.                                  *)

\* What a run of independent writes of the lines s may leave in the file:
\* each line is written or not, and after a torn write none is.
Increasing(m, n) ==
    {f \in [1 .. m -> 1 .. n] : \A i, j \in 1 .. m : i < j => f[i] < f[j]}
Subsequences(s) ==
    UNION {{[i \in 1 .. m |-> s[f[i]]] : f \in Increasing(m, Len(s))} :
              m \in 0 .. Len(s)}
Writes(s) ==
    {w \in [lines : Subsequences(s), torn : BOOLEAN] :
        /\ w.torn => "torn" \in Faults /\ s[Len(s)] \notin LinesOf(w.lines)
        /\ w.lines = s \/ "clean" \in Faults
           \/ (w.torn /\ w.lines = SubSeq(s, 1, Len(w.lines)))}
NoWrites == {[lines |-> <<>>, torn |-> FALSE]}

\* Counts what the pump set out to write as synced.
SyncedInAttempted(file) == {Len(journal) + Len(queue)}

\* How far the file is known to be on the medium once it has grown from
\* journal to file: to the last line an fsync followed, or less if it failed.
SyncedIn(file) ==
    LET reached == {synced} \cup {i \in Len(journal) + 1 .. Len(file) :
                                     Official(file[i])}
    IN  {n \in reached : "unsynced" \in Faults \/ \A m \in reached : m <= n}
-----------------------------------------------------------------------------
(* PersistenceRetryQueue::enqueue: at the cap the oldest event that is not *)
(* official gives way and its number is remembered.                        *)
AuxIn(q) == {i \in DOMAIN q : ~Official(q[i])}
Overflows(q, item) == ~Official(item) /\ Cardinality(AuxIn(q)) >= AuxCap
OldestOfAny(q) == 1
OldestAux(q) == CHOOSE i \in AuxIn(q) : \A j \in AuxIn(q) : i <= j
EnqueuedInFront(q, item) == <<item>> \o q
Enqueued(q, item) ==
    Append(IF Overflows(q, item) THEN RemoveAt(q, OldestAux(q)) ELSE q, item)
DroppedUnrecorded(q, item) == {}
DroppedBy(q, item) ==
    IF Overflows(q, item) THEN {q[OldestAux(q)].seq} ELSE {}

\* takeDroppedRuns: the maximal runs of consecutive numbers in D, ascending.
OneRun(D) ==
    IF D = {} THEN {}
    ELSE {{s \in 0 .. nextSeq : \E a, b \in D : a <= s /\ s <= b}}
Runs(D) ==
    {r \in {a .. b : a \in D, b \in D} :
        /\ r # {} /\ r \subseteq D
        /\ \A s \in r : (s + 1 \in D => s + 1 \in r)
                     /\ (s - 1 \in D => s - 1 \in r)}
RunsInOrder(D) ==
    {runs \in [1 .. Cardinality(Runs(D)) -> Runs(D)] :
        \A i, j \in DOMAIN runs : i < j => \A s \in runs[i], t \in runs[j] : s < t}
-----------------------------------------------------------------------------
Init ==
    /\ phase = "idle"
    /\ journal = <<>> /\ torn = FALSE /\ synced = 0 /\ poisoned = FALSE
    /\ queue = <<>> /\ dropped = {}
    /\ nextSeq = 0 /\ health = "Healthy" /\ pending = FALSE
    /\ ram = {} /\ acked = {} /\ lost = {} /\ crashes = 0

\* beginSession: the header must be durable, or the session does not start.
\* What it may have left in the file is then all that exists of the session.
BeginSession ==
    /\ phase = "idle"
    /\ LET header == Event(0, "SessionStarted", {}) IN
       \/ /\ phase' = "active" /\ journal' = <<header>> /\ synced' = 1
          /\ ram' = {header} /\ nextSeq' = 1
          /\ UNCHANGED torn
       \/ /\ phase' = "down"
          /\ \/ "clean" \in Faults /\ UNCHANGED <<journal, torn>>
             \/ "torn" \in Faults /\ torn' = TRUE /\ UNCHANGED journal
             \/ "unsynced" \in Faults /\ journal' \in {<<>>, <<header>>}
                /\ UNCHANGED torn
          /\ UNCHANGED <<synced, ram, nextSeq>>
    /\ UNCHANGED <<poisoned, queue, dropped, health, pending, acked, lost, crashes>>
-----------------------------------------------------------------------------
(* submit(event).  A rejected event changes nothing and is not an action.  *)

Reduce(k) ==
    /\ phase = "active" /\ nextSeq < MaxSeq /\ Legal(k, ram)
    /\ UNCHANGED <<phase, lost, crashes>>

\* Earlier events still wait: queue behind them.
SubmitBehindQueue(k) ==
    LET item == Event(nextSeq, k, {}) IN
    /\ Reduce(k) /\ queue # <<>>
    /\ queue' = Enqueued(queue, item)
    /\ dropped' = dropped \cup DroppedBy(queue, item)
    /\ nextSeq' = nextSeq + 1 /\ ram' = ram \cup {item}
    /\ UNCHANGED <<journal, torn, synced, poisoned, health, pending, acked>>

\* The line is written and, as far as its class asks, flushed and synced.
\* The caller is told that the event is durable.
SubmitDurable(k) ==
    LET item == Event(nextSeq, k, {}) IN
    /\ Reduce(k) /\ queue = <<>> /\ ~poisoned
    /\ journal' = Append(journal, item)
    /\ synced' = IF Official(item) THEN Len(journal) + 1 ELSE synced
    /\ acked' = acked \cup {item}
    /\ nextSeq' = nextSeq + 1 /\ ram' = ram \cup {item}
    /\ UNCHANGED <<torn, poisoned, queue, dropped, health, pending>>

\* The line is in the file but flush or fsync failed: Degraded, not queued.
SubmitUnsynced(k) ==
    LET item == Event(nextSeq, k, {}) IN
    /\ Reduce(k) /\ queue = <<>> /\ ~poisoned
    /\ "unsynced" \in Faults /\ k \notin AppendKinds
    /\ journal' = Append(journal, item)
    /\ health' = "Degraded"
    /\ nextSeq' = nextSeq + 1 /\ ram' = ram \cup {item}
    /\ UNCHANGED <<torn, synced, poisoned, queue, dropped, pending, acked>>

\* A torn write, now or earlier: the file is given up, memory only.
SubmitPoisoned(k) ==
    LET item == Event(nextSeq, k, {}) IN
    /\ Reduce(k) /\ queue = <<>>
    /\ poisoned \/ "torn" \in Faults
    /\ poisoned' = TRUE /\ torn' = TRUE
    /\ queue' = Enqueued(queue, item)
    /\ dropped' = dropped \cup DroppedBy(queue, item)
    /\ health' = "Failed"
    /\ nextSeq' = nextSeq + 1 /\ ram' = ram \cup {item}
    /\ UNCHANGED <<journal, synced, pending, acked>>

\* Nothing was written: queue the event and, once per episode, the marker
\* that opens it (enterDegradedOnce, emitMarker with writeNow = false).
SubmitFailed(k) ==
    LET item   == Event(nextSeq, k, {})
        marker == Event(nextSeq + 1, "PersistenceDegraded", {})
        q      == Enqueued(queue, item)
    IN
    /\ Reduce(k) /\ queue = <<>> /\ ~poisoned /\ "clean" \in Faults
    /\ queue' = IF pending THEN q ELSE Enqueued(q, marker)
    /\ dropped' = dropped \cup DroppedBy(queue, item)
    /\ ram' = ram \cup {item} \cup (IF pending THEN {} ELSE {marker})
    /\ nextSeq' = IF pending THEN nextSeq + 1 ELSE nextSeq + 2
    /\ health' = "Degraded" /\ pending' = TRUE
    /\ UNCHANGED <<journal, torn, synced, poisoned, acked>>

Submit(k) ==
    \/ SubmitBehindQueue(k)
    \/ SubmitDurable(k)
    \/ SubmitUnsynced(k)
    \/ SubmitPoisoned(k)
    \/ SubmitFailed(k)
-----------------------------------------------------------------------------
(* pumpRetryQueue and onDrainComplete.                                     *)

\* The markers that end an episode: one per run of dropped events, then
\* PersistenceRestored.
DrainMarkers(runs) ==
    [i \in 1 .. Len(runs) + 1 |->
        IF i <= Len(runs)
        THEN Event(nextSeq + i - 1, "AuxEventsDropped", runs[i])
        ELSE Event(nextSeq + i - 1, "PersistenceRestored", {})]

\* The pump writes in order and stops at the first write that fails; once
\* the queue is empty the markers are written, whatever becomes of each.
PumpStalledButRestored ==
    {[sent |-> SubSeq(queue, 1, n), kept |-> SubSeq(queue, n + 1, Len(queue)),
      markers |-> <<Event(nextSeq, "PersistenceRestored", {})>>, torn |-> FALSE] :
        n \in 0 .. Len(queue) - 1}
PumpStalled ==
    {[sent |-> SubSeq(queue, 1, n), kept |-> SubSeq(queue, n + 1, Len(queue)),
      markers |-> <<>>, torn |-> t] :
        n \in 0 .. Len(queue) - 1,
        t \in {b \in BOOLEAN : IF b THEN "torn" \in Faults ELSE "clean" \in Faults}}
PumpDrained ==
    UNION {{[sent |-> queue \o w.lines, kept |-> <<>>, markers |-> m,
             torn |-> w.torn] : w \in Writes(m)} :
              m \in {DrainMarkers(runs) : runs \in RunsInOrder(dropped)}}
PumpIdle == {[sent |-> <<>>, kept |-> queue, markers |-> <<>>, torn |-> FALSE]}
PumpOutcomes ==
    IF queue = <<>> \/ poisoned THEN PumpIdle ELSE PumpStalled \cup PumpDrained

\* What the file does not tell of when of all the lines m only w was written.
Untold(m, w) ==
    LET gone == LinesOf(m) \ LinesOf(w)
    IN  UNION {{e.seq} \cup e.drops : e \in gone}

PumpRetryQueue ==
    /\ phase = "active" /\ queue # <<>> /\ ~poisoned
    /\ \E p \in PumpOutcomes :
        /\ journal' = journal \o p.sent
        /\ synced' \in SyncedIn(journal')
        /\ torn' = p.torn /\ poisoned' = p.torn
        /\ queue' = p.kept
        /\ ram' = ram \cup LinesOf(p.markers)
        /\ nextSeq' = nextSeq + Len(p.markers)
        /\ lost' = lost \cup Untold(p.markers, p.sent)
        /\ IF p.markers = <<>>
           THEN UNCHANGED <<dropped, health, pending>>
           ELSE dropped' = {} /\ health' = "Healthy" /\ pending' = FALSE
    /\ UNCHANGED <<phase, acked, crashes>>

\* closeSession: one pump, then both closing events straight to the file,
\* even when the queue did not drain; their results are not looked at.
CloseSession ==
    /\ phase = "active"
    /\ \E p \in PumpOutcomes :
        LET n       == nextSeq + Len(p.markers)
            closing == <<Event(n, "SessionClosed", {}),
                         Event(n + 1, "CleanShutdown", {})>>
        IN \E w \in IF poisoned \/ p.torn THEN NoWrites ELSE Writes(closing) :
            /\ journal' = journal \o p.sent \o w.lines
            /\ synced' \in SyncedIn(journal')
            /\ torn' = (torn \/ p.torn \/ w.torn)
            /\ poisoned' = (poisoned \/ p.torn \/ w.torn)
            /\ queue' = p.kept
            /\ ram' = ram \cup LinesOf(p.markers) \cup LinesOf(closing)
            /\ nextSeq' = n + 2
            /\ lost' = lost \cup Untold(p.markers, p.sent)
                            \cup Untold(closing, w.lines)
            /\ IF p.markers = <<>>
               THEN UNCHANGED <<dropped, health, pending>>
               ELSE dropped' = {} /\ health' = "Healthy" /\ pending' = FALSE
    /\ phase' = "closed"
    /\ UNCHANGED <<acked, crashes>>
-----------------------------------------------------------------------------
\* The process or the machine dies.  The file keeps what was synced and any
\* part of the rest; its last bytes may be part of a line.
Crash ==
    /\ phase = "active" /\ crashes < MaxCrashes
    /\ phase' = "down" /\ crashes' = crashes + 1
    /\ \E n \in synced .. Len(journal) : journal' = SubSeq(journal, 1, n)
    /\ torn' \in BOOLEAN
    /\ lost' = Gapped(journal') \ Declared(journal')
    /\ queue' = <<>> /\ dropped' = {} /\ poisoned' = FALSE
    /\ nextSeq' = 0 /\ health' = "Healthy" /\ pending' = FALSE /\ ram' = {}
    /\ UNCHANGED <<synced, acked>>

\* buildRecoveredState and resumeSession: the torn tail is cut off, the state
\* is the fold of the lines that are left, and two markers bracket the
\* resume.  They are written directly, and a failure is only signalled.
ResumeSession ==
    /\ phase = "down"
    /\ Resumable(journal, torn) /\ ~Completed(LinesOf(journal)) /\ Replays(journal)
    /\ LET n       == LastSeq(journal) + 1
           markers == <<Event(n, "RecoveryStarted", {}),
                        Event(n + 1, "RecoveryCompleted", {})>>
       IN \E w \in Writes(markers) :
           /\ journal' = journal \o w.lines
           /\ synced' \in SyncedIn(journal')
           /\ torn' = w.torn /\ poisoned' = w.torn
           /\ ram' = LinesOf(journal) \cup LinesOf(markers)
           /\ nextSeq' = n + 2
           /\ lost' = lost \cup Untold(markers, w.lines)
    /\ phase' = "active"
    /\ queue' = <<>> /\ dropped' = {} /\ health' = "Healthy" /\ pending' = FALSE
    /\ UNCHANGED <<acked, crashes>>

\* archiveOrDiscard: the operator declines to resume, the file is moved away.
Discard ==
    /\ phase = "down" /\ phase' = "discarded"
    /\ UNCHANGED <<journal, torn, synced, poisoned, queue, dropped, nextSeq,
                   health, pending, ram, acked, lost, crashes>>

Next ==
    \/ BeginSession
    \/ \E k \in Submitted : Submit(k)
    \/ PumpRetryQueue
    \/ CloseSession
    \/ Crash
    \/ ResumeSession
    \/ Discard

Spec == Init /\ [][Next]_vars

\* Finals3PController::tick and Finals10mController::tick: while a final runs
\* they pump on every tick, as long as the store is not Healthy.  The tick is
\* stopped before MatchCompleted is submitted.
FinalTicks == health # "Healthy" /\ ~Completed(ram) /\ PumpRetryQueue

\* Of a final that stays running the ticks go on, and storage that fails lets
\* a line through now and then (a pump that writes nothing is a stutter).
FairSpec == Spec /\ WF_vars(FinalTicks)
-----------------------------------------------------------------------------
TypeOK ==
    /\ phase \in {"idle", "active", "down", "closed", "discarded"}
    /\ journal \in Seq(Line) /\ torn \in BOOLEAN /\ poisoned \in BOOLEAN
    /\ synced \in 0 .. Len(journal)
    /\ queue \in Seq(Line) /\ dropped \in SUBSET Nat
    /\ nextSeq \in Nat
    /\ health \in {"Healthy", "Degraded", "Failed"} /\ pending \in BOOLEAN
    /\ ram \in SUBSET Line /\ acked \in SUBSET Line /\ lost \in SUBSET Nat
    /\ crashes \in Nat

\* The journal, followed by what waits to be appended to it, is in strictly
\* ascending order of sequence number: no drain, marker or resume can write a
\* line that the validator would reject as repeated or out of order.
WriteOrder ==
    IF phase = "active" THEN Ascending(journal \o queue) ELSE Ascending(journal)

\* Never refuse to score, never lose a score: every official event the reducer
\* accepted is in the file or in the queue for as long as the session runs,
\* whatever storage does, and nothing is in them that was not reduced.
ScoreKinds == {"ShotAccepted", "TimerPaused", "MatchCompleted"}
Scores(events) == {e \in events : e.kind \in ScoreKinds}
OfficialsHeld ==
    phase = "active" =>
        LET held == LinesOf(journal) \cup LinesOf(queue)
        IN  Scores(ram) \subseteq held /\ held \subseteq ram

\* An official event that submit reported as durable is in the part of the
\* file no crash can take away, through drains, crashes and resumes.
AckedSurvive ==
    Scores(acked) \subseteq LinesOf(SubSeq(journal, 1, synced))

\* Loss is recorded: every number given out is in the file, in the queue, on
\* the list of drops to declare, declared by an AuxEventsDropped line, or
\* belongs to a marker whose write failed (or was cut off by a crash), also
\* when a session has been closed over a queue that did not drain.
Accounted ==
    phase \in {"active", "closed"} =>
        LET told == SeqsOf(journal) \cup SeqsOf(queue)
            gaps == dropped \cup Declared(journal) \cup lost
        IN  told \cup gaps = 0 .. nextSeq - 1 /\ told \cap gaps = {}

\* A session that holds nothing back and has lost no marker would be found
\* Clean: the live side and the validator agree on what a gap may be.  One that
\* was closed with events still in the queue, its CleanShutdown in the file, is
\* not: the archive of a session that forgot something never passes for whole.
CleanOnceDrained ==
    /\ phase \in {"active", "closed"} /\ queue = <<>> /\ lost = {} /\ ~torn =>
          RecoveryClass(journal, torn) = "Clean"
    /\ /\ phase = "closed" /\ LastSeq(journal) = nextSeq - 1
       /\ RecoveryClass(journal, torn) = "Clean"
       => queue = <<>>

\* Whatever a crash cuts off, a journal without gaps can be resumed: it is
\* classified Clean or Recoverable and the reducer accepts it again.
DenseJournalResumes ==
    phase = "down" /\ journal # <<>> /\ Gapped(journal) = {} =>
        Resumable(journal, torn) /\ Replays(journal)

\* The operator is never shown Healthy while events wait in memory.
HealthTellsQueue == phase = "active" /\ queue # <<>> => health # "Healthy"

\* An event that waits does not wait for ever while its final runs: it reaches
\* the file, or gives way at the capacity and is noted for declaration, unless
\* the file is torn for good or the match or the session ends before that.
\* Controllers submit numbers below MaxSeq, a marker queued with them one more.
WaitingIsWritten ==
    \A s \in 1 .. MaxSeq :
        phase = "active" /\ s \in SeqsOf(queue)
            ~> \/ s \in SeqsOf(journal) \cup dropped
               \/ poisoned \/ phase # "active" \/ Completed(ram)

\* Stated by docs/session-reliability-implementation-spec.md, section on the
\* power-loss sweep ("never interior corruption, resume succeeds"), and not
\* what the code does: see the findings in the README.
CrashedJournalIsResumable ==
    phase = "down" /\ journal # <<>> => Resumable(journal, torn)

\* Stated by docs/session-reliability-m2-finals-write-path.md ("a torn tail
\* goes Failed (RAM only)") and not what the code does when the pump tears it.
TornIsFailed ==
    phase = "active" /\ poisoned /\ queue # <<>> => health = "Failed"
=============================================================================
