CONSTANTS
    Symbol = {a, b}
    Contract = {x, y}
    Closing = FALSE
    MaxSignals = 2
    Worker = {w1, w2}
    QueueDepth = 1
    Faults = {"store", "review", "panic", "cancel"}
    None = None
    Underlying = {"A", "B"}
    Chain <- MCChain
    ContractOf <- MCContractOf
    Position <- MCPosition
    CodeOrder <- MCCodeOrder
    Letters <- MCLetters
    SpotPrice <- MCSpotPrice
    Target <- MCTarget
    TradeGap = 1
    Radius = 2
    MinQuality = 1
    CallPct = 10
    Good = {"p7", "p8", "c11"}
    GreeksTTL = 1
    MaxAge = 1
    MaxTime = 4
    MaxPasses = 2
    Pass = {1, 2}
    BatchSize = 2
    MaxBatches = 3
    QueueSize = 1
SPECIFICATION RunnerSpec
CHECK_DEADLOCK FALSE
INVARIANTS
    AuditsAreExact
    VerdictEndsAudit
    AttributionSound
    QuotesAreSound
    RecorderIsSafe
PROPERTIES
    AuditsEnd
