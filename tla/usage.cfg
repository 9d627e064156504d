CONSTANTS
    AccountID = {1, 2}
    Profile = {p, q}
    NamesOf <- Names
    p = p  q = q
    Handler = {h1}
    Ticker = ticker
    MaxSeq = 2
    NoRow = NoRow
    NoRecord = NoRecord
    NoThread = NoThread
    IOFaults = TRUE
SPECIFICATION FairSpec
INVARIANTS CacheNotBehindTable DeletedNotServed
PROPERTIES UsageNeverGoesBack WriteBackKeepsRegistry RequestsAnswered CacheSettles OwnUsageSettles
CHECK_DEADLOCK FALSE
