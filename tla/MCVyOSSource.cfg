SPECIFICATION Spec
CONSTANTS
    Byte <- MCByte
    Fold <- MCFold
    LinkLocal <- MCLinkLocal
    Routers <- MCRouters
    Trims = {TRUE, FALSE}
    CollectModes = {TRUE, FALSE}
INVARIANTS
    TypeOK
    ConnectionsClosed
    CompleteOrError
    PanicsExplained
