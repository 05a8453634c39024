------------------------------ MODULE ScoreLog ------------------------------
(***************************************************************************)
(* What the event store promises about official shots, with no journal, no *)
(* queue and no markers: a live session always accepts the next shot, and  *)
(* never forgets one; a session that stops may forget its latest shots,    *)
(* but none that was safe, and none older than one it still knows.         *)
(***************************************************************************)
EXTENDS Integers

VARIABLES
    live,     \* a session is accepting shots
    scores,   \* the numbers of the shots it knows
    safe      \* those no crash can take away

logVars == <<live, scores, safe>>

\* S is T without some of its latest members.
IsOlderPart(S, T) == S \subseteq T /\ \A s \in S, t \in T \ S : s < t

Init == live = FALSE /\ scores = {} /\ safe = {}

Begin == ~live /\ live' = TRUE /\ UNCHANGED <<scores, safe>>

\* The shot is known at once; it, and all before it, may become safe.
Score ==
    /\ live
    /\ \E n \in scores' : (\A s \in scores : s < n) /\ scores' = scores \cup {n}
    /\ safe' = safe \/ safe' = scores'
    /\ UNCHANGED live

\* Some shots become safe later, oldest first.
Secure ==
    /\ safe \subseteq safe' /\ IsOlderPart(safe', scores)
    /\ UNCHANGED <<live, scores>>

\* The session is closed, or dies.
Stop ==
    /\ live /\ live' = FALSE
    /\ safe \subseteq safe' /\ safe' \subseteq scores'
    /\ IsOlderPart(scores', scores) /\ IsOlderPart(safe', scores')

\* It is resumed with every shot that was left.
Restart ==
    /\ ~live /\ live' = TRUE
    /\ safe \subseteq safe' /\ IsOlderPart(safe', scores)
    /\ UNCHANGED scores

Next == Begin \/ Score \/ Secure \/ Stop \/ Restart
Spec == Init /\ [][Next]_logVars
=============================================================================
