SPECIFICATION Spec
CONSTANTS
    u1 = u1
    u2 = u2
    c1 = c1
    c2 = c2
    Users = {u1, u2}
    Channels = {c1, c2}
    NoRec = NoRec
    NoGame = NoGame
    Vacant = Vacant
    InitRecs <- MCInitRecs
    Bets = {20}
    Payouts = {40}
    Sums = {}
    MaxGames = 2
    MaxPress = 1
    MaxCrash = 1
SYMMETRY Alike
INVARIANTS
    ChannelExclusive
    OneGamePerUser
    NoLockout
PROPERTY SeatRefinement
