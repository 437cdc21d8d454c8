SPECIFICATION Spec
CONSTANTS
    Sources = {a, b}
    Targets = {x, y}
    Times = {1, 2, 3, 5}
    Span = 2
    MaxIdle = 2
    FloodSpan = 1
    BeaconSpan = 3
    Keep = 3
    ScanHosts = 2
    ExfilFlows = 2
    FloodSources = 2
    HalfOpen = {x}
    Infra = {y}
    SampleEvery = 1
    KeepSamples = 2
    MinSamples = 2
    Spike = 2
    BeaconHits = 3
    Cooldown <- MCCooldown
    FeatureEvery = 2
    FloodEvery = 4
    EvictEvery = 4
    MaxFlows = 4
PROPERTIES
    NoExfilTwice
CHECK_DEADLOCK FALSE
