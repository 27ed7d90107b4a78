SPECIFICATION Spec
CONSTANTS
    NumPartitions = 1
    Requests = {1}
    MaxCount = 2
    EmptyPolls = 2
    ScanDepth = 3
    Capacity = 3
INVARIANT MostRecentReturned
