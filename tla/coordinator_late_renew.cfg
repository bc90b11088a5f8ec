SPECIFICATION Spec
CONSTANTS
    s1 = s1
    s2 = s2
    s3 = s3
    s4 = s4
    Sessions <- MCOneSession
    Projects <- MCOneProject
    Tenants <- MCTenants
    ProjectOf <- MCOneProjectOf
    TenantOf <- MCOneTenantOf
    MaxConcurrent <- MCQuotaTwo
    Keys <- MCKeys
    Workers = {w1, w2}
    NoWorker = NoWorker
    NoSession = NoSession
    MaxRuns = 2
    MaxGen = 2
SYMMETRY WorkerSymmetry
INVARIANTS OneActiveLeasePerProject
\* The system stops when all runs are finished and all keys used.
CHECK_DEADLOCK FALSE
