SPECIFICATION Spec
CONSTANTS
    Sessions <- MCSessions
    Projects <- MCProjects
    Tenants <- MCTenants
    ProjectOf <- MCProjectOf
    TenantOf <- MCTenantOf
    MaxConcurrent <- MCQuota
    Keys <- MCKeys
    Workers = {w1, w2}
    NoWorker = NoWorker
    NoSession = NoSession
    Devices = {d1}
    MaxRuns = 1
    MaxGen = 2
    MaxRepairs = 1
SYMMETRY Symmetry
INVARIANTS VersionsFenced
\* The system stops when all runs are finished and all keys used.
CHECK_DEADLOCK FALSE
