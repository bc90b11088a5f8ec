SPECIFICATION AllSpec
CONSTANTS
    Tenants = {t1}
    Workers = {w1, w2}
    Blobs = {x1, x2, x3, x4, x5}
    TokenLimit <- MCTokenLimit
    StorageLimit <- MCStorageLimit
    MaxUse = 1
    MaxFiles = 2
    NoTenant = NoTenant
    Users = {u1, u2}
    Flows = {f1, f2}
    Sessions = {s1, s2}
    Tokens = {k1}
    Browsers = {b1, b2}
    Handlers = {h1, h2}
    NoUser = NoUser
    NoFlow = NoFlow
    NoSession = NoSession
    Projects = {p1, p2}
    Secrets = {c1, c2, c3}
    NoSecret = NoSecret
    NoProject = NoProject
    Openers = {o1, o2, o3}
    Scripts = 3
    PerScript = 2
    Tasks = {a1, a2}
    MaxEvents = 2
    MaxSends = 1
    Base = 3
    TTL = 15
    MaxClock = 60
INVARIANTS AllTypeOK BudgetOvershoot StorageOvershoot FlowUsedOnce LinksOpen OpenSeesWholeSchema PageShowsItsSession LeaseExpiryIsRead
PROPERTIES DisabledForGood RevokedForGood
SYMMETRY Symmetry
\* Ids run out, and requests with them.
CHECK_DEADLOCK FALSE
