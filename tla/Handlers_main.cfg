SPECIFICATION HandlersSpec
CONSTANTS
    Sources = {a, b}
    Targets = {x, y}
    Times = {1, 2, 3, 5}
    Span = 2
    MaxIdle = 2
    FloodSpan = 1
    BeaconSpan = 3
    Keep = 3
    ScanHosts = 2
    ExfilFlows = 2
    FloodSources = 2
    HalfOpen = {x}
    Infra = {y}
    SampleEvery = 1
    KeepSamples = 2
    MinSamples = 2
    Spike = 2
    BeaconHits = 3
    Cooldown <- MCCooldown
    FeatureEvery = 2
    FloodEvery = 4
    EvictEvery = 2
    MaxFlows = 4
    Lookups <- MCLookups
    NoSource = "none"
    QueryTimes = {1, 3}
    Verdict <- MCVerdict
    SecondLevel = {"co"}
    LocalTlds = {"local"}
    QuerySpan = 1
    TunMin = 2
    TunCooldown = 2
    TunEvery = 2
    MaxQueries = 4
    Sessions <- MCSessions
    SessionTimes = {0, 1, 3}
    NoFingerprint = "none"
    KnownClients = {"browser"}
    LearnWindow = 2
    RareLimit = 2
    TlsCooldown = 2
    MaxSessions = 4
    Streams <- MCStreams
SYMMETRY MCSymmetry
INVARIANTS
    HandlersTypeOK
    NothingFreshIsLost
    SweepLeavesNothing
    SpikeHasHistory
    DomainsReportedOnce
    RareFewTimes
    LatencyIsSound
PROPERTIES
    BeaconSeenAtOnce
    NoScanTwice
CHECK_DEADLOCK FALSE
