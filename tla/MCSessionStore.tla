--------------------------- MODULE MCSessionStore ---------------------------
(* SessionStore on a small instance.  One auxiliary event fits the queue,  *)
(* so that a second one makes it drop the first.                           *)
EXTENDS SessionStoreRefinement

EveryKind == ProducerKinds
ShotsAndRejects == {"ShotAccepted", "ShotRejected"}
ShotsAndCompletion == {"ShotAccepted", "ShotRejected", "MatchCompleted"}
=============================================================================
