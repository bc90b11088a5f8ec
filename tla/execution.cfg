SPECIFICATION Spec
CONSTANTS
    Sessions <- MCSessions
    Projects <- MCProjects
    Tenants <- MCTenants
    ProjectOf <- MCProjectOf
    TenantOf <- MCTenantOf
    MaxConcurrent <- MCQuota
    Keys <- MCKeys
    Workers = {w1, w2}
    NoWorker = NoWorker
    NoSession = NoSession
    Devices = {d1}
    MaxRuns = 1
    MaxGen = 3
    MaxRepairs = 1
SYMMETRY Symmetry
INVARIANTS TypeOK RepairBudget ParkedHasQuestion CompletedIsTold CancelledStaysQuiet
PROPERTIES UsesCoordinator
\* The system stops when all runs are finished and all keys used.
CHECK_DEADLOCK FALSE
