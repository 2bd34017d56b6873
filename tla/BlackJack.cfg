SPECIFICATION Spec
CONSTANTS
    Ranks <- MCRanks
    Chips = 3
    Stakes = {1, 2}
    MaxCards = 4
    MaxPress = 2
    MaxFlight = 3
CHECK_DEADLOCK FALSE
INVARIANTS
    RoundSettledOnce
    NextMeansStanding
PROPERTIES
    DealerStands
    RoundRefinement
