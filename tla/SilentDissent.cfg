SPECIFICATION Spec
CONSTANTS
    None = None
    MaxForks = 3
    MaxRetries = 1
    Types = {"latency", "skew"}
    Ids = {"C1", "C2", "s1"}
    Findings <- MCFindings
INVARIANTS
    DissentIsRecorded
