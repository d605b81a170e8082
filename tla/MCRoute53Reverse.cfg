SPECIFICATION Spec
CONSTANTS
    h1 = h1
    h2 = h2
    old = old
    Label <- MCLabel
    Address <- MCAddress
    Zone <- MCZone
    Prefix = Prefix
    At = At
    Host <- MCHost
    NoHost = NoHost
    FullName <- MCFullName
    TTL = {60}
    Batches <- MCBatches
    HostedModes <- MCHostedModes
    InitialZones <- MCInitialZones
    Position <- MCPosition
    PageSize = 2
    EnabledModes <- MCEnabledModes
    NameModes <- MCNameModes
    CleanModes <- MCCleanModes
INVARIANTS
    NamesPointHome
PROPERTIES
    ReportedKept
    WritesOnlyReports
    UpdateReturns
