SPECIFICATION Spec
CONSTANTS
    s1 = s1
    s2 = s2
    h1 = h1
    h2 = h2
    bad = bad
    a1 = a1
    a2 = a2
    b1 = b1
    b2 = b2
    Scrape <- MCScrape
    Host <- MCHost
    V4 = {a1, a2}
    V6 = {b1, b2}
    NoAddress = NoAddress
    Refused = {bad}
    Batches <- MCBatches
INVARIANTS
    ScrapesAreSnapshots
    UpdateShowsAll
PROPERTIES
    EveryoneReturns
