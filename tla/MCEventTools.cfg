SPECIFICATION FairSpec
CONSTANTS
    NumPartitions = 2
    Requests = {3}
    MaxCount = 2
    EmptyPolls = 2
    ScanDepth = 5
    Capacity = 2
INVARIANTS
    TypeOK
    SearchMissesNothing
PROPERTIES
    SearchEnds
    RecentEnds
