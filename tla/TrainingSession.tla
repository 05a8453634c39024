-------------------------- MODULE TrainingSession --------------------------
(***************************************************************************)
(* What the four programmes of the Training Lab have in common: a          *)
(* controller, the journal of its session, the page that numbers the       *)
(* shots, crashes and resumes.  Each programme extends this module.        *)
(*                                                                         *)
(* Storage is healthy here (SessionStore models the rest).  A handler is   *)
(* given by the controller it leaves and by the records that the journal   *)
(* folds to after each of the events it submits.  The effect of one event  *)
(* in the reducer is an operator on records, named for the event.          *)
(***************************************************************************)
EXTENDS Integers, Sequences, FiniteSets, SequencesExt

CONSTANT MaxCrashes  \* bound: crashes of a run

TrainingBoundsAssumption == MaxCrashes \in Nat

VARIABLES
    up,      \* "none", "live", or "down" after a crash: ctl is then what was lost
    ctl,     \* the controller: phase, last (m_lastExternalId), and more
    rec,     \* the journal, folded: on, done, and more
    fired,   \* ShootingPage.*ShotSeq: shots detected, the last external id
    hist,    \* cut: a crash has cut a handler; resumes; told: the wind last noted
    crashes

tvars == <<up, ctl, rec, fired, hist, crashes>>

NewHist == [cut |-> FALSE, resumes |-> 0, told |-> "noReading"]

\* The process dies between two handlers.
Crash ==
    /\ up = "live" /\ crashes < MaxCrashes
    /\ up' = "down" /\ crashes' = crashes + 1
    /\ UNCHANGED <<ctl, rec, fired, hist>>

\* The process lives and submits all of records, or dies between two of them.
SubmitsFrom(h, c, records) ==
    \/ /\ ctl' = c /\ up' = "live" /\ hist' = h
       /\ rec' = IF records = <<>> THEN rec ELSE Last(records)
       /\ UNCHANGED crashes
    \/ /\ crashes < MaxCrashes
       /\ \E n \in 1 .. Len(records) - 1 : rec' = records[n]
       /\ up' = "down" /\ hist' = [h EXCEPT !.cut = TRUE]
       /\ crashes' = crashes + 1 /\ UNCHANGED ctl
Submits(c, records) == up = "live" /\ SubmitsFrom(hist, c, records)

\* A command that is not a shot.
Does(c, records) == Submits(c, records) /\ UNCHANGED fired

\* A start: enter*Mode numbers the shots from 1.  A session that was open is
\* closed first, one that a crash has left is not resumed.
Starts(c, records) == SubmitsFrom(NewHist, c, records) /\ fired' = 0

\* Home: closeCleanly archives the journal.
Closes(idle, none) ==
    /\ up = "live" /\ up' = "none" /\ ctl' = idle /\ rec' = none
    /\ fired' = 0 /\ hist' = NewHist /\ UNCHANGED crashes

\* Of the external ids of a journal, recoveredMaxExternalId (0 for none).
MaxId(ids) == Max(ids \union {0})

\* restore*Session: the page numbers on from the last shot of the journal.
NumbersFromOne(ids) == fired' = 0
NumbersOn(ids) == fired' = MaxId(ids)

\* A session that is complete is not offered again, and the owner of one
\* without a programme is unknown.
Resumes(c, ids) ==
    /\ up = "down" /\ rec.on /\ ~rec.done
    /\ up' = "live" /\ ctl' = [c EXCEPT !.last = MaxId(ids)]
    /\ NumbersOn(ids)
    /\ hist' = [hist EXCEPT !.resumes = @ + 1]
    /\ UNCHANGED <<rec, crashes>>

\* The page passes every shot on, with the next external id; the guard
\* against repeated ones.
Detected(bound) == up = "live" /\ fired < bound /\ fired' = fired + 1
Repeated(id) == id <= ctl.last
=============================================================================
