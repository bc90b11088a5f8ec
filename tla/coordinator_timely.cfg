SPECIFICATION TimelySpec
CONSTANTS
    s1 = s1
    s2 = s2
    s3 = s3
    s4 = s4
    Sessions <- MCFourSessions
    Projects <- MCThreeProjects
    Tenants <- MCTwoTenants
    ProjectOf <- MCFourProjectOf
    TenantOf <- MCThreeTenantOf
    MaxConcurrent <- MCQuotaMixed
    Keys <- MCOneKey
    Workers = {w1, w2}
    NoWorker = NoWorker
    NoSession = NoSession
    MaxRuns = 3
    MaxGen = 2
SYMMETRY TurnsSymmetry
INVARIANTS OneOwnerPerProject TenantWithinQuota
PROPERTIES TakesTurns
\* The system stops when all runs are finished and all keys used.
CHECK_DEADLOCK FALSE
