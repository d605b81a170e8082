SPECIFICATION Spec
CONSTANTS
    zones = zones
    hosts = hosts
    NoName = NoName
    FileName <- MCFileName
    Batch = {b1, b2}
    Setups <- MCSetups
INVARIANTS
    OkMeansWritten
    ConnectionsClosed
PROPERTIES
    RenderedBeforeWritten
    Heals
