SPECIFICATION BotSpec
CONSTANTS
    u1 = u1
    u2 = u2
    Users = {u1, u2}
    Channels = {c1}
    NoRec = NoRec
    NoGame = NoGame
    Vacant = Vacant
    InitRecs <- MCInitRecs
    Bets = {20}
    Payouts = {40}
    Sums = {}
    Amounts = {1000}
    Counts = {1}
    MaxGames = 1
    MaxPress = 1
    Half = 131072
    MaxServed = 2
    MaxCrash = 1
SYMMETRY Alike
INVARIANT GameChipsFresh
