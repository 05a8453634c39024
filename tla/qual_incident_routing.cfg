SPECIFICATION Spec
CONSTANTS
    MatchMs = 3
    PrepMs = 2
    OfficialShots = 1
    CreditMs = 2
    MaxTime = 3
    MaxShots = 2
    MaxIncidents = 1
    MaxCrashes = 0
INVARIANTS
    RoutingMatchesPhase
CHECK_DEADLOCK FALSE
