---------------------------- MODULE RecoveryScan ----------------------------
(***************************************************************************)
(* The journals in the directory of current sessions, the scan that offers *)
(* the unfinished ones for resume (RecoveryCoordinator), and how a journal *)
(* is put away, by a rename or else by a copy, each of which may fail.     *)
(*                                                                         *)
(* A journal is the class that its validation gives it, whether its match  *)
(* or its training has been completed, and whether anything in it can be   *)
(* used.  Its session's identity is its own.                               *)
(***************************************************************************)
EXTENDS Integers, FiniteSets

CONSTANTS
    Competitions, Trainings,  \* journals, one per session
    MaxDamage,                \* bound: crashes and damages
    MaxFailures               \* bound: failures of the file system

ScanAssumption ==
    /\ IsFiniteSet(Competitions) /\ IsFiniteSet(Trainings)
    /\ Competitions \cap Trainings = {} /\ {MaxDamage, MaxFailures} \subseteq Nat

VARIABLES
    file,        \* the journals
    current,     \* those in the directory of current sessions
    away,        \* copies of each under Sessions/Corrupt and in the archive
    put,         \* ghost: times that a journal has been put away
    candidates,  \* m_candidates of the last scan
    fresh,       \* ghost: nothing has changed since
    damage, fsFaults

rvars == <<file, current, away, put, candidates, fresh, damage, fsFaults>>
counters == <<damage, fsFaults>>

Journals == Competitions \union Trainings
Dirs == {"Corrupt", "Archive"}
-----------------------------------------------------------------------------
(* What the application and the disk do to a journal.                      *)
SessionStarts ==
    \E j \in Journals :
        /\ file[j].class = "Absent"
        /\ file' = [file EXCEPT ![j] = [class |-> "Clean", done |-> FALSE, usable |-> TRUE]]
        /\ current' = current \union {j} /\ fresh' = FALSE
        /\ UNCHANGED <<away, put, candidates, counters>>

SessionCompletes ==
    \E j \in current :
        /\ file[j].class = "Clean" /\ ~file[j].done
        /\ file' = [file EXCEPT ![j].done = TRUE] /\ fresh' = FALSE
        /\ UNCHANGED <<current, away, put, candidates, counters>>

\* A torn tail, damage inside, a file of a newer version or another session, or
\* a header that never reached the disk.  What is read is the part before the
\* damage, in which the completion may be missing.
JournalDamaged ==
    \E j \in current, class \in {"Recoverable", "Corrupt", "Fatal"}, usable, done \in BOOLEAN :
        /\ damage < MaxDamage /\ damage' = damage + 1
        /\ file[j].class = "Clean" /\ (class # "Fatal" => usable)
        /\ done => file[j].done /\ usable
        /\ file' = [file EXCEPT ![j] = [class |-> class, done |-> done, usable |-> usable]]
        /\ fresh' = FALSE
        /\ UNCHANGED <<current, away, put, candidates, fsFaults>>
-----------------------------------------------------------------------------
(* RecoveryCoordinator.                                                    *)
\* classifyFile: completed by MatchCompleted, or, replayed, by
\* TrainingCompleted.
MatchCompleted(j) == j \in Competitions /\ file[j].done
Complete(j) == file[j].done

Offerable(j) ==
    /\ ~Complete(j)
    /\ ~(file[j].class = "Fatal" /\ ~file[j].usable)

\* find: a session is looked for among the candidates.
Find(j, known) == j \in known

\* scan, and what archiveOrDiscard of a completed session comes to then: it is
\* given its identity, and finds the file only by a candidate of this scan.
Scanned == {j \in current : Offerable(j)}
AutoArchived == {j \in current : Complete(j) /\ Find(j, Scanned)}
Scan ==
    /\ candidates' = Scanned /\ fresh' = TRUE
    /\ current' = current \ AutoArchived
    /\ away' = [j \in Journals |-> IF j \in AutoArchived
                                   THEN [away[j] EXCEPT !["Archive"] = @ + 1] ELSE away[j]]
    /\ put' = [j \in Journals |-> IF j \in AutoArchived THEN put[j] + 1 ELSE put[j]]
    /\ UNCHANGED <<file, counters>>

\* archiveOrDiscard of the file of j.  A name that is taken gets a suffix; a
\* copy that is not whole is removed.
Taken(j, dir) == away[j][dir] > 0
PutAwayBare(j, dir) ==
    \/ ~Taken(j, dir) /\ current' = current \ {j} /\ away' = [away EXCEPT ![j][dir] = @ + 1]
       /\ put' = [put EXCEPT ![j] = @ + 1] /\ UNCHANGED fsFaults
    \/ fsFaults < MaxFailures /\ fsFaults' = fsFaults + 1 /\ ~Taken(j, dir)
       /\ away' = [away EXCEPT ![j][dir] = @ + 1] /\ put' = [put EXCEPT ![j] = @ + 1]
       /\ UNCHANGED current
    \/ Taken(j, dir) /\ away' = [away EXCEPT ![j][dir] = 0] /\ UNCHANGED <<current, put, fsFaults>>
PutAway(j, dir) ==
    \/ \* moved, or copied and removed
       /\ current' = current \ {j} /\ away' = [away EXCEPT ![j][dir] = @ + 1]
       /\ put' = [put EXCEPT ![j] = @ + 1] /\ UNCHANGED fsFaults
    \/ \* copied, and not removed
       /\ fsFaults < MaxFailures /\ fsFaults' = fsFaults + 1
       /\ away' = [away EXCEPT ![j][dir] = @ + 1] /\ put' = [put EXCEPT ![j] = @ + 1]
       /\ UNCHANGED current
    \/ \* neither: what there is of the copy is removed
       /\ fsFaults < MaxFailures /\ fsFaults' = fsFaults + 1
       /\ UNCHANGED <<current, away, put>>

\* discardRecovery of a controller scans first.
Discard ==
    \E j \in current :
        /\ Find(j, Scanned)
        /\ candidates' = Scanned /\ fresh' = FALSE
        /\ PutAway(j, "Corrupt")
        /\ UNCHANGED <<file, damage>>

\* buildRecoveredState, and resumeExisting, which truncates a torn tail.
Resume ==
    \E j \in candidates \cap current :
        /\ file[j].class \in {"Clean", "Recoverable"}
        /\ file' = [file EXCEPT ![j].class = "Clean"] /\ fresh' = FALSE
        /\ UNCHANGED <<current, away, put, candidates, counters>>
-----------------------------------------------------------------------------
Init ==
    /\ file = [j \in Journals |-> [class |-> "Absent", done |-> FALSE, usable |-> FALSE]]
    /\ current = {} /\ candidates = {} /\ fresh = TRUE /\ damage = 0 /\ fsFaults = 0
    /\ away = [j \in Journals |-> [dir \in Dirs |-> 0]] /\ put = [j \in Journals |-> 0]

Next == \/ SessionStarts \/ SessionCompletes \/ JournalDamaged \/ Scan \/ Discard \/ Resume

Spec == Init /\ [][Next]_rvars
-----------------------------------------------------------------------------
(* Properties.                                                             *)
\* A journal is in its directory or put away, and a copy that was put away
\* stays.  A scan offers every session that is unfinished and of use, a
\* training as well as a competition, and no other.
OfferedIsUnfinished ==
    /\ \A j \in Journals :
          /\ file[j].class # "Absent" => j \in current \/ put[j] > 0
          /\ away[j]["Corrupt"] + away[j]["Archive"] = put[j]
    /\ fresh => \A j \in current :
          j \in candidates <=> ~file[j].done /\ (file[j].class = "Fatal" => file[j].usable)
=============================================================================
