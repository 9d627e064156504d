CONSTANTS
    Proc = {s1, s2}
    AccountID = {1, 2}
    Added = 2
    NoTable = NoTable
    NoProc = NoProc
SPECIFICATION FairSpec
INVARIANTS ValuesKept ReadySchema
PROPERTIES OnlyDisplayNameGoes StartsSucceed
