SPECIFICATION Spec
CONSTANTS
    h1 = h1
    h2 = h2
    n1 = n1
    n2 = n2
    n3 = n3
    a1 = a1
    a2 = a2
    b1 = b1
    b2 = b2
    txt = txt
    Host <- MCHost
    NoHost = NoHost
    Name <- MCName
    Fqdn <- MCFqdn
    V4 <- MCV4
    V6 <- MCV6
    Text = {txt}
    TTL = {60}
    Batches <- MCBatches
    InitialZones <- MCInitialZones
    NoCache = NoCache
    Position <- MCPosition
    PageSize = 2
    EnabledModes = {TRUE, FALSE}
    NameModes = {TRUE, FALSE}
    CleanModes = {TRUE, FALSE}
INVARIANTS
    CacheCoherent
    NoStaleAddress
    ReportedHostsHaveRecords
    AAAAIsExact
PROPERTIES
    WritesOnlyReports
    UpdateReturns
