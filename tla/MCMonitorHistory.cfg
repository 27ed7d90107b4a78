SPECIFICATION HSpec
CONSTANTS
    Fingerprints = {f1, f2}
    Values <- MCValues
    NoValue = NoValue
    OngoingGap = 1
    WorsenNum = 1
    WorsenDen = 4
    Dedup = TRUE
    None = None
    Diagnoses <- MCDiagnoses
    MaxRetries = 0
    MaxCycles = 4
    MaxRestarts = 0
INVARIANTS
    AnnouncedAtMostGapPlusOne
PROPERTIES
    ResolvedThenFresh
    NewIfResolvedOrMissed
    ReportedOnceWhileStanding
