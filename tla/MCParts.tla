------------------------------ MODULE MCParts ------------------------------
(* Values of the constants of Parts for TLC.                               *)
EXTENDS Parts

MCFeedSeconds == [Sighter |-> 1, Counted |-> 2]

MCReports == {[target |-> "TargetConnected", programme |-> "rifle", athlete |-> "Anna",
               active |-> TRUE],
              [target |-> "TargetDisconnected", programme |-> "pistol", athlete |-> "",
               active |-> FALSE]}
MCPlans == {[programme |-> "", lanes |-> << >>, status |-> "None"],
            [programme |-> "rifle", lanes |-> 1 :> 1, status |-> "Ready"],
            [programme |-> "rifle", lanes |-> 1 :> 0 @@ 2 :> 1, status |-> "Archived"]}
MCStartLists == {<< >>, 1 :> "Anna", 1 :> "Bea"}
=============================================================================
