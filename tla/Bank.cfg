SPECIFICATION Spec
CONSTANTS
    u1 = u1
    u2 = u2
    Users = {u1, u2}
    NoRec = NoRec
    InitRecs <- MCWideRecs
    Amounts <- MCAmounts
    Counts <- MCCounts
    MaxServed = 2
    Half = 131072
    MaxCrash = 1
INVARIANT TypeOK
PROPERTIES
    LedgerRefinement
    DebtHasCause
