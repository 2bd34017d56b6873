SPECIFICATION Spec
CONSTANTS
    u1 = u1
    u2 = u2
    c1 = c1
    c2 = c2
    Users = {u1}
    Channels = {c1, c2}
    NoRec = NoRec
    NoGame = NoGame
    Vacant = Vacant
    InitRecs <- MCInitRecs
    Bets = {15, 20}
    Payouts = {40}
    Sums = {500}
    MaxGames = 2
    MaxPress = 2
    MaxCrash = 1
INVARIANTS
    StakeCovered
    CacheFresh
    SettledOnce
PROPERTY SettlementUnlocks
