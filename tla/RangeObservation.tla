-------------------------- MODULE RangeObservation --------------------------
(***************************************************************************)
(* The range management observes a target station: datagrams that may be   *)
(* lost, doubled and reordered, a station that restarts, its mirror        *)
(* (RangeMonitor, TargetNodeRecord, ShotLedger), and the field-test log    *)
(* (FieldTestService, FieldTestRecorder) of what the mirror has shown.     *)
(*                                                                         *)
(* One station: the records of two share nothing.  The wording of the log, *)
(* lane numbers and scores are left out; `told` is what a reader of the    *)
(* log knows.  The clock is left out too: a tick finds a station silent    *)
(* (6 s), if it has not been heard since an earlier tick (250 ms).         *)
(***************************************************************************)
EXTENDS Integers, FiniteSets, FiniteSetsExt, Functions

CONSTANTS
    MaxChanges,   \* bound: restarts of the station and new sessions
    MaxStatuses,  \* bound: heartbeats sent in one run
    MaxShots,     \* bound: shots sent
    MaxSilences   \* bound: episodes of silence

ObservationAssumption == {MaxChanges, MaxStatuses, MaxShots, MaxSilences} \subseteq Nat

VARIABLES
    node,  \* the station: run, heartbeat, session, shots accepted, shots sent
    net,   \* datagrams sent; one may arrive late, twice or never
    mirror,   \* TargetNodeRecord; boot 0 while the station has not been heard
    newest, \* of each run of the station, the newest heartbeat received
    snap,  \* m_snapshots: the record as the last poll saw it
    log    \* the field-test log

ovars == <<node, net, mirror, newest, snap, log>>

-----------------------------------------------------------------------------
(* The station.  It hears nothing from the range management, and its       *)
(* datagrams may be late: it does all it does in the first place.          *)
Changes == (node.boot - 1) + (node.session - 1)
Finished ==
    /\ Changes = MaxChanges /\ node.seq = MaxStatuses /\ node.sent = MaxShots

Send(messages) == net' = net \union messages /\ UNCHANGED <<mirror, newest, snap, log>>

Announcement(boot) == [kind |-> "Announce", boot |-> boot]

\* The target is found by the second heartbeat of a run.
EmitStatus ==
    /\ node.seq < MaxStatuses
    /\ node' = [node EXCEPT !.seq = @ + 1]
    /\ Send({[kind |-> "Status", boot |-> node.boot, seq |-> node.seq + 1,
              session |-> node.session, accepted |-> node.accepted,
              connection |-> IF node.seq = 0 THEN "TargetDisconnected"
                             ELSE "TargetConnected"]})

\* Bound: the shots of a run fall between its heartbeats.
EmitShot ==
    /\ node.sent < MaxShots /\ node.seq \in 1 .. MaxStatuses - 1
    /\ node' = [node EXCEPT !.accepted = @ + 1, !.sent = @ + 1]
    /\ Send({[kind |-> "Shot", boot |-> node.boot, session |-> node.session,
              number |-> node.accepted + 1, id |-> node.sent + 1]})

SessionStarts ==
    /\ Changes < MaxChanges
    /\ node' = [node EXCEPT !.session = @ + 1, !.accepted = 0]
    /\ UNCHANGED <<net, mirror, newest, snap, log>>

\* A new run announces itself and recovers the session, all of it or all but
\* the last shot.
NodeRestarts ==
    /\ Changes < MaxChanges /\ node.seq = MaxStatuses
    /\ \E lost \in {0, 1} \cap 0 .. node.accepted :
          node' = [node EXCEPT !.boot = @ + 1, !.seq = 0, !.accepted = @ - lost]
    /\ Send({Announcement(node.boot + 1)})
-----------------------------------------------------------------------------
(* The mirror.                                                             *)
\* ShotLedger.rebase; ids and slots hold the shots of one session.  offered:
\* the shots, kept or not, that came since.
EmptyLedger(session) ==
    [session |-> session, ids |-> {}, slots |-> << >>, conflict |-> FALSE, offered |-> {}]
Offered(ledger, m) ==
    LET own == IF ledger.session = m.session THEN ledger
               ELSE [EmptyLedger(m.session) EXCEPT !.conflict = ledger.conflict]
    IN  [own EXCEPT !.offered = @ \union {m}]

Slotted(slots, m) ==
    [n \in DOMAIN slots \union {m.number} |-> IF n = m.number THEN m.id ELSE slots[n]]

\* The first shot seen under a number is kept.
IngestOverwriting(ledger, m) ==
    LET own == Offered(ledger, m)
    IN  IF m.id \in own.ids THEN own
        ELSE [own EXCEPT !.ids = @ \union {m.id}, !.slots = Slotted(@, m)]
Ingest(ledger, m) ==
    LET own == Offered(ledger, m)
    IN  CASE m.id \in own.ids -> own
          [] m.id \notin own.ids /\ m.number \in DOMAIN own.slots ->
                [own EXCEPT !.conflict = TRUE]
          [] OTHER -> [own EXCEPT !.ids = @ \union {m.id},
                                  !.slots = Slotted(@, m)]

NoRecord ==
    [boot |-> 0, prior |-> {}, seq |-> 0, connection |-> "Unknown", quiet |-> FALSE,
     session |-> 0, accepted |-> 0, ledger |-> EmptyLedger(0), episodes |-> 0]

\* applyBoot.
StaleNever(r, boot) == FALSE
Stale(r, boot) == boot # r.boot /\ boot \in r.prior
ApplyBoot(r, boot) ==
    CASE r.boot = boot -> r
      [] r.boot = 0 -> [r EXCEPT !.boot = boot]
      [] OTHER -> [r EXCEPT !.prior = @ \union {r.boot}, !.seq = 0, !.boot = boot]

Lifted(connection) == IF connection \in {"Offline", "Unknown"} THEN "Online" ELSE connection

\* ingestDatagram, for each kind of message.
Announced(r) == [r EXCEPT !.connection = Lifted(@), !.quiet = FALSE]
StatusSeen(r, m) ==
    IF m.seq <= r.seq THEN [r EXCEPT !.quiet = FALSE]
    ELSE [r EXCEPT !.seq = m.seq, !.session = m.session, !.accepted = m.accepted,
                   !.connection = m.connection, !.quiet = FALSE]
ShotSeen(r, m) ==
    [r EXCEPT !.connection = Lifted(@), !.quiet = FALSE, !.ledger = Ingest(@, m)]
IngestDatagram(r, m) ==
    LET b == ApplyBoot(r, m.boot)
    IN  CASE Stale(r, m.boot) -> r
          [] ~Stale(r, m.boot) /\ m.kind = "Announce" -> Announced(b)
          [] ~Stale(r, m.boot) /\ m.kind = "Status" -> StatusSeen(b, m)
          [] ~Stale(r, m.boot) /\ m.kind = "Shot" -> ShotSeen(b, m)

NothingHeard == [boot \in 1 .. MaxChanges + 1 |-> [seq |-> 0]]
Newer(m) == IF m.kind = "Status" /\ m.seq > newest[m.boot].seq
            THEN [newest EXCEPT ![m.boot] = m] ELSE newest

\* A station discovered, and a shot, are logged; they tell nothing of the
\* station's state.
Receive ==
    /\ Finished
    /\ \E m \in net :
          /\ mirror' = IngestDatagram(mirror, m)
          /\ newest' = Newer(m)
    /\ UNCHANGED <<node, net, snap, log>>

MissingSequences(ledger) ==
    (1 .. Max(DOMAIN ledger.slots \union {0})) \ DOMAIN ledger.slots
Unseen(r) == Max({0, r.accepted - Cardinality(DOMAIN r.ledger.slots)})
-----------------------------------------------------------------------------
(* The field-test log.                                                     *)
NoSnapshot == [boot |-> 0, connection |-> "Unknown", worst |-> 0]
Worst(r) == IF Unseen(r) = 0 THEN 0 ELSE Max({snap.worst, Unseen(r)})
SnapshotOf(r) == [boot |-> r.boot, connection |-> r.connection, worst |-> Worst(r)]

Unlogged == [active |-> FALSE]

\* The records of one poll: a connection, a restart, a new worst gap or the
\* closing of the gap, each against the last snapshot.
LoggedButBoot(l, r) ==
    [l EXCEPT !.connection = IF snap.connection # r.connection THEN r.connection ELSE @,
              !.offlines = IF snap.connection # r.connection /\ r.connection = "Offline"
                           THEN @ + 1 ELSE @,
              !.worst = CASE Unseen(r) > snap.worst -> Unseen(r)
                          [] Unseen(r) = 0 /\ snap.worst > 0 -> 0
                          [] OTHER -> @]
Logged(l, r) ==
    [LoggedButBoot(l, r) EXCEPT !.boot = IF snap.boot # r.boot THEN r.boot ELSE @]

\* The first snapshot of a station is taken without a record.
Poll(l, r) ==
    /\ snap' = IF r.boot = 0 THEN snap ELSE SnapshotOf(r)
    /\ log' = CASE l.active /\ snap.boot # 0 -> Logged(l, r)
                [] l.active /\ snap.boot = 0 -> [l EXCEPT !.carried = Worst(r)]
                [] OTHER -> l

\* FieldTestRecorder.start, then noteLogStarted: a station already known is
\* told first.  carried: the gap that the snapshot then has, told or not;
\* begun: the episodes by then.
StartLog ==
    /\ Finished /\ ~log.active
    /\ Poll([active |-> TRUE, boot |-> mirror.boot,
             connection |-> IF mirror.boot = 0 THEN "Untold" ELSE mirror.connection,
             worst |-> Unseen(mirror), offlines |-> 0, carried |-> snap.worst,
             begun |-> mirror.episodes], mirror)
    /\ UNCHANGED <<node, net, mirror, newest>>

StopLog ==
    /\ log.active
    /\ log' = Unlogged /\ UNCHANGED <<node, net, mirror, newest, snap>>

\* The timer of 250 ms: evaluateLiveness, then poll.
EvaluateLiveness(r, silent) ==
    CASE r.boot = 0 -> r
      [] r.boot # 0 /\ silent /\ r.connection # "Offline" ->
            [r EXCEPT !.connection = "Offline", !.episodes = @ + 1]
      [] OTHER -> [r EXCEPT !.quiet = TRUE]
Tick ==
    /\ Finished
    /\ \E silent \in BOOLEAN :
          /\ silent => mirror.quiet /\ mirror.episodes < MaxSilences
          /\ mirror' = EvaluateLiveness(mirror, silent)
    /\ Poll(log, mirror')
    /\ UNCHANGED <<node, net, newest>>

\* The program is closed and started again: it remembers nothing.
RmsRestarts ==
    /\ mirror' = NoRecord /\ newest' = NothingHeard /\ snap' = NoSnapshot /\ log' = Unlogged
    /\ UNCHANGED <<node, net>>
-----------------------------------------------------------------------------
Init ==
    /\ node = [boot |-> 1, seq |-> 0, session |-> 1, accepted |-> 0, sent |-> 0]
    /\ net = {Announcement(1)} /\ mirror = NoRecord /\ newest = NothingHeard /\ snap = NoSnapshot /\ log = Unlogged

Next == \/ EmitStatus \/ EmitShot \/ SessionStarts \/ NodeRestarts
        \/ Receive \/ StartLog \/ StopLog \/ Tick \/ RmsRestarts

Spec == Init /\ [][Next]_ovars
-----------------------------------------------------------------------------
(* Properties.                                                             *)
\* Of the run of the station that it follows, the mirror shows the newest
\* heartbeat that has been heard; a run it has left does not come back.
NewestShown ==
    mirror.boot # 0 =>
        LET m == newest[mirror.boot]
        IN  /\ mirror.boot \notin mirror.prior
            /\ m.seq > 0 =>
                  /\ <<mirror.seq, mirror.session, mirror.accepted>> = <<m.seq, m.session, m.accepted>>
                  /\ mirror.connection \in {m.connection, "Offline", "Online"}

\* The ledger holds a shot under each number that has been heard, the first
\* one, and calls missing no number that has; two shots under one number are
\* a conflict.
LedgerHonest ==
    LET ledger == mirror.ledger
        numbers == {m.number : m \in ledger.offered}
    IN  /\ DOMAIN ledger.slots = numbers
        /\ MissingSequences(ledger) \cap numbers = {}
        /\ Range(ledger.slots) = ledger.ids
        /\ \A m \in ledger.offered : ledger.slots[m.number] # m.id => ledger.conflict

\* What the mirror shows of the station is what has been heard of it.
ObservedTrue == NewestShown /\ LedgerHonest

\* A reader of the log knows the station's connection and run as the last poll
\* saw them, every episode of silence, and a gap that is larger than any that
\* stood before.
TimelineTrue ==
    log.active =>
        /\ log.connection \in {"Untold", snap.connection}
        /\ log.boot \in {0, snap.boot}
        /\ log.begun + log.offlines = mirror.episodes
        /\ log.worst <= snap.worst
        /\ log.worst < snap.worst => snap.worst <= log.carried
=============================================================================
