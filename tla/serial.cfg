CONSTANTS
    pa = pa  pb = pb  pe = pe
    accA = accA  accB = accB  accC = accC
    AccountID = {1, 2}
    Profile = {pa, pb, pe}
    Dir = {pa, pb, pe}
    ImportPath = {ext}
    Status = {"ready", "active"}
    NoRow = NoRow
    Handler = {h1}
    Ticker = ticker
    Live = live
    LoginProfile = {pa, pb}
    SafeProfileName <- SafeNames
    AddPath = {ext}
    Selector = {pa, pb}
    Acct = {accA, accB, accC}
    NoAcct = NoAcct
    Owner <- DistinctOwners
    Cfg = {1, 2}
    MaxVer = 2
    NoFile = NoFile
    OneAtATime = TRUE
    CliAtRest = TRUE
    IOFaults = FALSE
SPECIFICATION Spec
INVARIANTS SyncSettles RegistryExact ProfileHoldsOwnCredentials ListedProfilesExist KeysStayHome
PROPERTIES RenewedTokenSaved ListingKeepsSwitch
CHECK_DEADLOCK FALSE
