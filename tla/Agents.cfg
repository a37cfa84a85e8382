CONSTANTS
    Payloads <- PayloadsOffered
    Zero <- ZeroPayload
    MaxDim = 1
    MaxHistory = 2
    MaxUpdates = 4
    Config <- BudgetConfig
    Signals <- SignalsOffered
    Measurements <- MeasurementsOffered
    Modes = {text, latent}
    None = silence
    Unmeasured = unmeasured
    Gains <- GainsOffered
    Costs = {0, 1, 2}
    Resolution = 2
    MaxCandidates = 3
    Nodes = {"n1", "n2", "n3"}
    Keys = {k1}
    Posts = {p1, p2}
    NoRule = norule
    Clusters = {"west", "east"}
    ClusterOf <- Federated
    MinHoldout = 2
    MaxEdits = 2
    MaxObserved = 2
    Agents <- ThreeAgents
    Mandatory <- ControlEdge
    Verified <- UsefulEdges
    Cap = 1
    MutationsPerChild = 1
    ForeignRecords <- RecordsOfOthers
    MaxRecords = 2
    MaxUses = 2
    Ids = {"a", "b"}
    CausalValues = {0, 1}
    CausalNaN = notanumber
    RawFloor = 1
    Offers <- RecordsOffered
    PromotionUses = 2
    MaxFailures = 1
    MaxSequence = 8
    ModelEdges <- BothEdges
    CeilingOf <- Ceilings
    Transforms = {t1, t2}
    KnownTransforms = {t1}
    RiskThreshold = 40
    Confidences = {10, 60, 95}
    Depths = {0}
    Alpha = 50
    ThresholdOf <- DefaultThresholds
    MinFrames = 2
SPECIFICATION
    Spec
INVARIANTS
    LineageIntact
    CeilingHolds
    VerificationProtected
    RouteIsBest
    ScopesKept
    ConstitutionKept
    AuditIsClean
    LineageHeld
    NothingUnaccounted
    RungsStand
PROPERTIES
    UndoStack
    RulesSettle
    OnlyFades
CHECK_DEADLOCK
    FALSE
