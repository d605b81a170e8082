SPECIFICATION SyncSpec
CONSTANTS
    h1 = h1
    n1 = n1
    a1 = a1
    a2 = a2
    b1 = b1
    txt = txt
    NSources = 2
    Answers <- MCAnswers
    Interval = 0
    TickPeriod = 1
    MaxKills = 1
    Nothing = Nothing
    NilEndpoint = NilEndpoint
    Batches = {}
    EnabledModes = {TRUE, FALSE}
    Host = {h1}
    NoHost = NoHost
    Name = {n1}
    Fqdn <- MCFqdn
    V4 = {a1, a2}
    V6 = {b1}
    Text = {txt}
    TTL = {60}
    InitialZones <- MCInitialZones
    NoCache = NoCache
    Position <- MCPosition
    PageSize = 1
    NameModes = {TRUE}
    CleanModes = {FALSE, TRUE}
    Unsettled = Unsettled
PROPERTIES
    ZoneTellsTheSources
    Converges
