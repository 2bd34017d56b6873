SPECIFICATION Spec
CONSTANTS
    u1 = u1
    u2 = u2
    Users = {u1, u2}
    NoRec = NoRec
    InitRecs <- MCInitRecs
    Amounts <- MCAmounts
    Counts <- MCCounts
    MaxServed = 3
    Half = 131072
    MaxCrash = 1
PROPERTY SendConserves
