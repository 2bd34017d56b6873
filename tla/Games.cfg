SPECIFICATION GamesSpec
CONSTANTS
    Stakes <- MCStakes
    MaxRolls = 7
    MaxPress = 1
    Digits = {0, 1, 2}
    Dif = 2
    AacBets <- MCAacBets
    PayRate <- MCPayRate
    MaxTurns = 6
    Numbers <- MCNumbers
    Decimals <- MCDecimals
    Root <- MCRoot
    Half = 300
CHECK_DEADLOCK FALSE
INVARIANTS
    FloorKept
    FitsInt
    ResultIsRules
    VerdictIsExact
PROPERTIES
    AllStrikesWin
    ForecastKept
    WinsGrow
    RoundRefinement
    AacRefinement
