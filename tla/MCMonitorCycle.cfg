SPECIFICATION FairSpec
CONSTANTS
    Fingerprints = {f1, f2}
    Values <- MCValues
    NoValue = NoValue
    OngoingGap = 1
    WorsenNum = 1
    WorsenDen = 4
    Dedup = TRUE
    None = None
    Diagnoses <- MCDiagnoses
    MaxRetries = 1
    MaxCycles = 3
    MaxRestarts = 1
INVARIANTS
    TypeOK
    ReportedOncePerOccurrence
    ReturnedIffFiled
    FallbackAfterRetries
    PromptAgreesWithGauge
PROPERTIES
    SuppressedIsOnFile
    FiledIsSubstantiated
    AskedExactlyOnce
    CycleEnds
    RefinesReporting
