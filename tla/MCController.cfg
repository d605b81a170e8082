SPECIFICATION Spec
CONSTANTS
    e1 = e1
    nil = nil
    NSources = 2
    NProviders = 2
    Endpoint <- MCEndpoint
    NilEndpoint = nil
    Answers <- MCAnswers
    Nothing = Nothing
    Interval = 3
    TickPeriod = 2
    OnceModes = {FALSE, TRUE}
    DryRunModes = {FALSE, TRUE}
    MaxKills = 1
INVARIANTS
    UpMeansCurrent
    StatusMatchesGauges
    BatchIsWhole
PROPERTIES
    DeliversHealthyRounds
    AtMostOncePerInterval
    ImplementsReconciliation
    CancelStops
    KeepsReconciling
