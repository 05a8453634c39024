----------------------- MODULE SessionStoreRefinement -----------------------
(* SessionStore implements ScoreLog.  While the session runs the shots it  *)
(* knows are those of the reduced state; once it has stopped, those of the *)
(* file.  Safe are the shots of the synced part of the file.               *)
EXTENDS SessionStore

ShotSeqs(events) == {e.seq : e \in {x \in events : x.kind = "ShotAccepted"}}

Log == INSTANCE ScoreLog WITH
    live   <- phase = "active",
    scores <- IF phase = "active" THEN ShotSeqs(ram) ELSE ShotSeqs(LinesOf(journal)),
    safe   <- ShotSeqs(LinesOf(SubSeq(journal, 1, synced)))

\* A shot is never refused or forgotten while the session runs, and what a
\* stop or a crash forgets are the latest shots that were not yet safe.
ImplementsScoreLog == Log!Spec
=============================================================================
