------------------------------ MODULE MCFinals ------------------------------
(* Values of the constants of FinalsLane for TLC.                          *)
EXTENDS FinalsLane

MCDurations ==
    [Intro |-> 1, Hold |-> 1, Prep |-> 1, Stage1 |-> 2, Load |-> 1,
     PreGap |-> 1, Gap |-> 1, Series |-> 1, Single |-> 1]
MCLimit3P == [Kneeling |-> 1, Prone |-> 1, Series |-> 1, Single |-> 1]
MCWarnings == <<1>>
=============================================================================
