SPECIFICATION EconomySpec
CONSTANTS
    Members = {m1}
    NoRec = NoRec
    Names = {given}
    Username = own
    Room <- MCRoom
    Period = 2
    MaxLag = 1
    MaxTime = 12
    MaxRename = 1
    MaxCrash = 1
    StockCount = 2
    Dev <- MCDev
    Ceiling = 3
    Openings = {3}
    Garbage <- MCGarbage
    Half = 4000
    ShareCounts <- MCShareCounts
    Capital = 36
    Missing = Missing
    Torn = Torn
    MaxUpdates = 3
    MaxTrades = 2
    MaxDeaths = 1
CHECK_DEADLOCK FALSE
INVARIANTS
    MarkIsFlagged
    StripsOnlyMarks
    Solvent
PROPERTIES
    GiftsApart
    MarkComesOff
    JumpsBounded
    TradesGainNothing
