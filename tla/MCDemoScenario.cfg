SPECIFICATION FairSpec
CONSTANTS
    Scenarios <- MCScenarios
    Anomaly <- MCAnomaly
    ErrorBurst <- MCErrorBurst
    Duration <- MCDuration
    FirstRun <- MCFirstRun
    Period <- MCPeriod
    ShutdownTimeout = 1
    MaxBoot = 1
    Order <- MCOrder
    Wait <- MCWait
    StopTimeout = 2
    Cooldown = 2
INVARIANTS
    TypeOK
    OneSimulator
    InjectedHasEnd
PROPERTIES
    AgentSeesScenario
    KilledOnlyByBroker
    DemoFinishes
