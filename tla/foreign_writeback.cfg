CONSTANTS
    pa = pa  pb = pb  pe = pe
    accA = accA  accB = accB  accC = accC
    AccountID = {1, 2}
    Profile = {pa, pe}
    Dir = {pa, pe}
    ImportPath = {ext}
    Status = {"ready", "active"}
    NoRow = NoRow
    Handler = {h1}
    Ticker = ticker
    Live = live
    LoginProfile = {pa}
    SafeProfileName <- SafeNames
    AddPath = {ext}
    Selector = {pa, pe}
    Acct = {accA, accC}
    NoAcct = NoAcct
    Owner <- DistinctOwners
    Cfg = {1}
    MaxVer = 2
    NoFile = NoFile
    OneAtATime = FALSE
    CliAtRest = TRUE
    IOFaults = FALSE
SPECIFICATION Spec
INVARIANTS ProfileHoldsOwnCredentials
CHECK_DEADLOCK FALSE
