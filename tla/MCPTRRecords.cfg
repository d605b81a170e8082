SPECIFICATION PTRSpec
CONSTANTS
    h1 = h1
    h2 = h2
    Label <- MCLabel
    Address <- MCAddress
    Zone <- MCZone
    Prefix = Prefix
    At = At
    Host <- MCHost
    NoHost = NoHost
    Batches <- MCBatches
    NoZone = NoZone
INVARIANTS
    FirstClaimantWins
    EveryAddressNamed
    RecordsInZone
    FailuresExplained
