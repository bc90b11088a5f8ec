SPECIFICATION FairSpec
CONSTANTS
    s1 = s1
    s2 = s2
    s3 = s3
    s4 = s4
    Sessions <- MCSessions
    Projects <- MCProjects
    Tenants <- MCTenants
    ProjectOf <- MCProjectOf
    TenantOf <- MCTenantOf
    MaxConcurrent <- MCQuotaOne
    Keys <- MCKeys
    Workers = {w1, w2}
    NoWorker = NoWorker
    NoSession = NoSession
    MaxRuns = 2
    MaxGen = 3
INVARIANTS TypeOK NoLimbo LeaseIdentifiesHolder KeysMatchRuns
PROPERTIES TerminalIsFinal LostLeaseStaysLost EveryRunSettles
\* The system stops when all runs are finished and all keys used.
CHECK_DEADLOCK FALSE
