SPECIFICATION Spec
CONSTANTS
    None = None
    AlphaNum = 1
    AlphaDen = 2
    Sigma = 3
    WarmupSamples = 2
    ErrorRatePercent = 20
    ErrorRateMinEvents = 1
    LogSeverityThreshold = 3
    Thresholds <- MCThresholds
    Events <- MCEvents
    MaxEvents = 3
    MaxCrashes = 2
PROPERTY
    AlertsAreNotDropped
