SPECIFICATION Spec
CONSTANTS
    p1 = p1
    p2 = p2
    Procs = {p1, p2}
    Backends = {"memory", "json", "sqlite"}
    Menu <- MCMenu
    MaxCalls <- MCMaxCalls
    AllowClearAll = TRUE
    TextNegates <- MCTextNegates
    DefaultContext = "default"
    Views <- MCViews
INVARIANTS
    TypeOK
    NoAliasConflict
    GroupsAreWhole
    ClassifyMeansEntailment
    CounterfactualSound
    ContradictionsExact
    ExportRoundTrips
PROPERTIES
    RemovalExplained
    RejectHolds
    JsonAcknowledgedIsDurable
