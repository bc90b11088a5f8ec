--------------------------- MODULE SpendingProofs ---------------------------
(* Theorems about Spending, for any tenants, workers, contents and limits.  *)
EXTENDS Spending, FiniteSetTheorems, TLAPS

Worker == [at : Stages, tenant : Tenants \cup {NoTenant}, used : Nat, blobs : SUBSET Blobs]

LEMMA Typed == SpendingTypeOK <=>
    /\ spent \in [Tenants -> Nat] /\ early \in BOOLEAN /\ held \in [Tenants -> SUBSET Blobs]
    /\ worker \in [Workers -> Worker]
    /\ \A w \in Workers : worker[w].at = "idle" <=> worker[w].tenant = NoTenant
BY DEF SpendingTypeOK, Worker, At, Tenant

LEMMA IdleIsWorker == Idle \in Worker /\ Idle.at = "idle" /\ Idle.tenant = NoTenant
BY DEF Idle, Worker, Stages

LEMMA SizesAreNumbers ==
    ASSUME SpendingTypeOK, NEW t \in Tenants
    PROVE  /\ IsFiniteSet(held[t]) /\ Cardinality(held[t]) \in Nat
           /\ IsFiniteSet(Calling(t)) /\ Cardinality(Calling(t)) \in Nat
           /\ Cardinality(Calling(t)) <= Cardinality(Workers) /\ Cardinality(Workers) \in Nat
<1>1. held[t] \subseteq Blobs /\ Calling(t) \subseteq Workers BY DEF SpendingTypeOK, Calling
<1>2. IsFiniteSet(Workers) /\ IsFiniteSet(Blobs) BY SpendingAssumption
<1> QED BY <1>1, <1>2, FS_Subset, FS_CardinalityType

\* What each action makes of the worker that takes it.
Change(w) ==
    \/ \E t \in Tenants : worker' = [worker EXCEPT ![w] = [Idle EXCEPT !.at = "running", !.tenant = t]]
    \/ worker' = [worker EXCEPT ![w] = Idle]
    \/ \E p \in {"running", "calling", "storing"} :
         ~At(w, "idle") /\ worker' = [worker EXCEPT ![w].at = p]
    \/ \E B \in SUBSET Blobs : \E n \in Nat :
         ~At(w, "idle") /\ worker' = [worker EXCEPT ![w].at = "pricing", ![w].blobs = B,
                                                    ![w].used = n]

LEMMA WorkChanges ==
    ASSUME SpendingTypeOK, NEW w \in Workers, Work(w)
    PROVE  Change(w) /\ worker' \in [Workers -> Worker]
           /\ (\A v \in Workers : v # w => worker'[v] = worker[v])
           /\ (worker'[w].at = "idle" <=> worker'[w].tenant = NoTenant)
<1>t. worker \in [Workers -> Worker] /\ (At(w, "idle") <=> Tenant(w) = NoTenant)
  BY Typed DEF At, Tenant
<1>1. Change(w)
  <2>1. ASSUME NEW B \in SUBSET Blobs, ReadStorage(w, B) PROVE Change(w)
    <3>1. Tenant(w) \in Tenants
      BY <1>t, <2>1 DEF ReadStorage, At, Tenant, Worker
    <3>2. Cardinality(held[Tenant(w)]) \in Nat BY <3>1, SizesAreNumbers
    <3>3. ~At(w, "idle") BY <2>1 DEF ReadStorage, At
    <3> QED BY <2>1, <3>2, <3>3 DEF ReadStorage, Change
  <2>2. ASSUME InsertFiles(w) PROVE Change(w)
    <3>1. Tenant(w) \in Tenants BY <1>t, <2>2 DEF InsertFiles, At, Tenant, Worker
    <3> QED BY <2>2, <3>1 DEF InsertFiles, Change
  <2>3. ASSUME \/ \E t \in Tenants : TakeRun(w, t)
               \/ LeaveRun(w)
        PROVE  Change(w)
    BY <2>3 DEF TakeRun, LeaveRun, Change
  <2>4. ASSUME CheckBudget(w) \/ (\E n \in 0 .. MaxUse : RecordUsage(w, n)) \/ PriceCommit(w)
        PROVE  Change(w)
    BY <2>4 DEF CheckBudget, RecordUsage, PriceCommit, Change, At
  <2> QED BY <2>1, <2>2, <2>3, <2>4 DEF Work
<1>2. PICK r : worker' = [worker EXCEPT ![w] = r] /\ r \in Worker
               /\ (r.at = "idle" <=> r.tenant = NoTenant)
  <2>1. ASSUME NEW t \in Tenants,
               worker' = [worker EXCEPT ![w] = [Idle EXCEPT !.at = "running", !.tenant = t]]
        PROVE  \E r : worker' = [worker EXCEPT ![w] = r] /\ r \in Worker
                      /\ (r.at = "idle" <=> r.tenant = NoTenant)
    <3> DEFINE r == [Idle EXCEPT !.at = "running", !.tenant = t]
    <3>1. r \in Worker /\ r.at = "running" /\ r.tenant = t BY DEF Idle, Worker, Stages
    <3>2. t # NoTenant BY SpendingAssumption
    <3>3. worker' = [worker EXCEPT ![w] = r] BY <2>1
    <3> HIDE DEF r
    <3> QED BY <3>1, <3>2, <3>3
  <2>2. ASSUME NEW p \in {"running", "calling", "storing"}, ~At(w, "idle"),
               worker' = [worker EXCEPT ![w].at = p]
        PROVE  \E r : worker' = [worker EXCEPT ![w] = r] /\ r \in Worker
                      /\ (r.at = "idle" <=> r.tenant = NoTenant)
    <3> DEFINE r == [worker[w] EXCEPT !.at = p]
    <3>1. r \in Worker /\ r.at = p /\ r.tenant = Tenant(w)
      BY <1>t DEF Worker, Stages, Tenant
    <3>2. worker' = [worker EXCEPT ![w] = r] BY <2>2
    <3> HIDE DEF r
    <3> QED BY <1>t, <2>2, <3>1, <3>2
  <2>3. ASSUME NEW B \in SUBSET Blobs, NEW n \in Nat, ~At(w, "idle"),
               worker' = [worker EXCEPT ![w].at = "pricing", ![w].blobs = B, ![w].used = n]
        PROVE  \E r : worker' = [worker EXCEPT ![w] = r] /\ r \in Worker
                      /\ (r.at = "idle" <=> r.tenant = NoTenant)
    <3> DEFINE r == [worker[w] EXCEPT !.at = "pricing", !.blobs = B, !.used = n]
    <3>1. r \in Worker /\ r.at = "pricing" /\ r.tenant = Tenant(w)
      BY <1>t DEF Worker, Stages, Tenant
    <3>2. worker' = [worker EXCEPT ![w] = r] BY <2>3
    <3> HIDE DEF r
    <3> QED BY <1>t, <2>3, <3>1, <3>2
  <2>4. ASSUME worker' = [worker EXCEPT ![w] = Idle]
        PROVE  \E r : worker' = [worker EXCEPT ![w] = r] /\ r \in Worker
                      /\ (r.at = "idle" <=> r.tenant = NoTenant)
    BY <2>4, IdleIsWorker
  <2> QED BY <1>1, <2>1, <2>2, <2>3, <2>4 DEF Change
<1>3. worker' \in [Workers -> Worker] /\ worker'[w] = r
      /\ \A v \in Workers : v # w => worker'[v] = worker[v]
  BY <1>2, <1>t
<1> QED BY <1>1, <1>2, <1>3

LEMMA TypeStep == SpendingTypeOK /\ [SpendingNext]_spendingVars => SpendingTypeOK'
<1> SUFFICES ASSUME SpendingTypeOK, [SpendingNext]_spendingVars PROVE SpendingTypeOK'
  OBVIOUS
<1>n. MaxUse \in Nat BY SpendingAssumption
<1>t. spent \in [Tenants -> Nat] /\ early \in BOOLEAN /\ held \in [Tenants -> SUBSET Blobs]
      /\ worker \in [Workers -> Worker]
  BY Typed
<1>1. ASSUME NEW w \in Workers, Work(w) PROVE SpendingTypeOK'
  <2>1. /\ worker' \in [Workers -> Worker]
        /\ \A v \in Workers : worker'[v].at = "idle" <=> worker'[v].tenant = NoTenant
    BY <1>1, WorkChanges, Typed
  <2>2. early' \in BOOLEAN
    BY <1>1, <1>t DEF Work, TakeRun, LeaveRun, CheckBudget, RecordUsage, ReadStorage,
                      PriceCommit, InsertFiles
  <2>3. spent' \in [Tenants -> Nat]
    <3>1. ASSUME NEW n \in 0 .. MaxUse, RecordUsage(w, n) PROVE spent' \in [Tenants -> Nat]
      BY <1>n, <1>t, <3>1 DEF RecordUsage
    <3> QED
      BY <1>1, <1>t, <3>1 DEF Work, TakeRun, LeaveRun, CheckBudget, ReadStorage, PriceCommit,
                              InsertFiles
  <2>4. held' \in [Tenants -> SUBSET Blobs]
    <3>1. ASSUME InsertFiles(w) PROVE held' \in [Tenants -> SUBSET Blobs]
      <4>1. worker[w].blobs \subseteq Blobs BY <1>t DEF Worker
      <4> QED BY <1>t, <3>1, <4>1 DEF InsertFiles
    <3> QED
      BY <1>1, <1>t, <3>1 DEF Work, TakeRun, LeaveRun, CheckBudget, RecordUsage, ReadStorage,
                              PriceCommit
  <2> QED BY <2>1, <2>2, <2>3, <2>4 DEF SpendingTypeOK, Worker, At, Tenant
<1>2. ASSUME Midnight \/ FirstSecondPasses PROVE SpendingTypeOK'
  <2>1. worker' = worker /\ held' = held BY <1>2 DEF Midnight, FirstSecondPasses
  <2>2. early' \in BOOLEAN BY <1>2, Zenon DEF Midnight, FirstSecondPasses
  <2>3. spent' \in [Tenants -> Nat] BY <1>2, <1>t DEF Midnight, FirstSecondPasses
  <2> QED BY <2>1, <2>2, <2>3 DEF SpendingTypeOK, At, Tenant
<1>3. ASSUME UNCHANGED spendingVars PROVE SpendingTypeOK'
  BY <1>3 DEF spendingVars, SpendingTypeOK, At, Tenant
<1> QED BY <1>1, <1>2, <1>3 DEF SpendingNext

LEMMA InitTyped == SpendingInit => SpendingTypeOK
<1> SUFFICES ASSUME SpendingInit PROVE SpendingTypeOK OBVIOUS
<1>1. worker \in [Workers -> Worker] /\ \A w \in Workers : worker[w] = Idle
  BY IdleIsWorker DEF SpendingInit
<1>2. /\ spent \in [Tenants -> Nat] /\ early \in BOOLEAN /\ held \in [Tenants -> SUBSET Blobs]
  BY DEF SpendingInit
<1> QED BY <1>1, <1>2, IdleIsWorker, Typed

\* Counts, holdings and workers keep their types.
THEOREM SpendingTyped == SpendingSpec => []SpendingTypeOK
BY InitTyped, TypeStep, PTL DEF SpendingSpec

-----------------------------------------------------------------------------
(* The budget.                                                              *)

Sum(t) == spent[t] + MaxUse * Cardinality(Calling(t))

\* Fewer calls weigh no more.
LEMMA Weighs ==
    ASSUME NEW a \in Nat, NEW b \in Nat, a <= b
    PROVE  MaxUse * a \in Nat /\ MaxUse * b \in Nat /\ MaxUse * a <= MaxUse * b
<1>1. MaxUse \in Nat BY SpendingAssumption
<1> QED BY <1>1

\* A call less weighs one call less.
LEMMA OneLess ==
    ASSUME NEW a \in Nat, NEW b \in Nat, b = a - 1
    PROVE  MaxUse * a = MaxUse * b + MaxUse
<1>1. MaxUse \in Nat BY SpendingAssumption
<1>2. a = b + 1 OBVIOUS
<1>3. MaxUse * (b + 1) = MaxUse * b + MaxUse BY <1>1
<1> QED BY <1>2, <1>3

\* The bound of one tenant.
Bounded(t) ==
    \/ spent[t] = 0 /\ Calling(t) = {}
    \/ Sum(t) < TokenLimit[t] + MaxUse * Cardinality(Workers)

\* A step that makes no call and spends nothing keeps the bound.
LEMMA NoNewCall ==
    ASSUME SpendingTypeOK, SpendingTypeOK', NEW t \in Tenants, Bounded(t),
           Calling(t)' \subseteq Calling(t), spent'[t] <= spent[t]
    PROVE  Bounded(t)'
<1>1. /\ spent[t] \in Nat /\ spent'[t] \in Nat BY DEF SpendingTypeOK
<1>2. IsFiniteSet(Calling(t)) /\ Cardinality(Calling(t)) \in Nat BY SizesAreNumbers
<1>3. Cardinality(Calling(t)') <= Cardinality(Calling(t)) /\ Cardinality(Calling(t)') \in Nat
  BY <1>2, FS_Subset, FS_CardinalityType
<1>4. CASE spent[t] = 0 /\ Calling(t) = {} BY <1>1, <1>4 DEF Bounded
<1>5. CASE Sum(t) < TokenLimit[t] + MaxUse * Cardinality(Workers)
  <2>1. /\ MaxUse * Cardinality(Calling(t)') \in Nat
        /\ MaxUse * Cardinality(Calling(t)) \in Nat
        /\ MaxUse * Cardinality(Calling(t)') <= MaxUse * Cardinality(Calling(t))
    BY <1>2, <1>3, Weighs
  <2>2. TokenLimit[t] \in Nat BY SpendingAssumption
  <2>3. MaxUse * Cardinality(Workers) \in Nat BY SizesAreNumbers, Weighs
  <2>4. spent'[t] + MaxUse * Cardinality(Calling(t)')
        < TokenLimit[t] + MaxUse * Cardinality(Workers)
    BY <1>1, <1>5, <2>1, <2>2, <2>3 DEF Sum
  <2> QED BY <2>4 DEF Bounded, Sum
<1> QED BY <1>4, <1>5 DEF Bounded

LEMMA BoundStep ==
    ASSUME SpendingTypeOK, SpendingTypeOK', [SpendingNext]_spendingVars,
           NEW t \in Tenants, Bounded(t)
    PROVE  Bounded(t)'
<1>t. worker \in [Workers -> Worker] /\ spent \in [Tenants -> Nat] /\ MaxUse \in Nat
      /\ spent[t] \in Nat /\ spent'[t] \in Nat
  BY Typed, SpendingAssumption DEF SpendingTypeOK
<1>1. ASSUME NEW w \in Workers, CheckBudget(w) PROVE Bounded(t)'
  <2>1. CASE Tenant(w) = t
    <3>1. spent[t] < TokenLimit[t] /\ spent' = spent BY <1>1, <2>1 DEF CheckBudget
    <3>2. /\ Cardinality(Calling(t)') \in Nat /\ Cardinality(Workers) \in Nat
          /\ Cardinality(Calling(t)') <= Cardinality(Workers)
      <4>1. Calling(t)' \subseteq Workers BY DEF Calling
      <4>2. IsFiniteSet(Workers) BY SpendingAssumption
      <4> QED BY <4>1, <4>2, FS_Subset, FS_CardinalityType
    <3>3. /\ MaxUse * Cardinality(Calling(t)') \in Nat
          /\ MaxUse * Cardinality(Workers) \in Nat
          /\ MaxUse * Cardinality(Calling(t)') <= MaxUse * Cardinality(Workers)
      BY <3>2, Weighs
    <3>4. TokenLimit[t] \in Nat BY SpendingAssumption
    <3>5. spent'[t] + MaxUse * Cardinality(Calling(t)')
          < TokenLimit[t] + MaxUse * Cardinality(Workers)
      BY <1>t, <3>1, <3>3, <3>4
    <3> QED BY <3>5 DEF Bounded, Sum
  <2>2. CASE Tenant(w) # t
    <3>1. Calling(t)' \subseteq Calling(t)
      BY <1>1, <1>t, <2>2 DEF CheckBudget, Calling, At, Tenant, Worker
    <3> QED BY <1>1, <1>t, <3>1, NoNewCall DEF CheckBudget
  <2> QED BY <2>1, <2>2
<1>2. ASSUME NEW w \in Workers, NEW n \in 0 .. MaxUse, RecordUsage(w, n) PROVE Bounded(t)'
  <2>1. Calling(t)' = Calling(t) \ {w}
    BY <1>2, <1>t DEF RecordUsage, Calling, At, Tenant, Worker
  <2>2. CASE spent'[t] <= spent[t] BY <2>1, <2>2, NoNewCall
  <2>3. CASE ~(spent'[t] <= spent[t])
    <3>1. Tenant(w) = t /\ spent'[t] = spent[t] + n
      BY <1>2, <1>t, <2>3 DEF RecordUsage
    <3>2. w \in Calling(t) BY <1>2, <3>1 DEF RecordUsage, Calling
    <3>3. /\ Cardinality(Calling(t)') = Cardinality(Calling(t)) - 1
          /\ Cardinality(Calling(t)') \in Nat /\ Cardinality(Calling(t)) \in Nat
      BY <2>1, <3>2, SizesAreNumbers, FS_RemoveElement, FS_CardinalityType
    <3>4. MaxUse * Cardinality(Calling(t)) = MaxUse * Cardinality(Calling(t)') + MaxUse
          /\ MaxUse * Cardinality(Calling(t)') \in Nat
      BY <3>3, OneLess, Weighs
    <3>5. Sum(t) < TokenLimit[t] + MaxUse * Cardinality(Workers) BY <3>2 DEF Bounded
    <3>6. TokenLimit[t] \in Nat /\ MaxUse * Cardinality(Workers) \in Nat
      BY SpendingAssumption, SizesAreNumbers, Weighs
    <3>7. spent'[t] + MaxUse * Cardinality(Calling(t)')
          < TokenLimit[t] + MaxUse * Cardinality(Workers)
      BY <1>t, <3>1, <3>4, <3>5, <3>6 DEF Sum
    <3> QED BY <3>7 DEF Bounded, Sum
  <2> QED BY <2>2, <2>3
<1>3. ASSUME NEW w \in Workers,
             \/ \E q \in Tenants : TakeRun(w, q)
             \/ LeaveRun(w)
             \/ \E B \in SUBSET Blobs : ReadStorage(w, B)
             \/ PriceCommit(w) \/ InsertFiles(w)
      PROVE  Bounded(t)'
  <2>1. spent' = spent
    BY <1>3 DEF TakeRun, LeaveRun, ReadStorage, PriceCommit, InsertFiles
  <2>2. \A v \in Workers : v # w => worker'[v] = worker[v]
    BY <1>3, WorkChanges DEF Work
  <2>3. worker'[w].at # "calling"
    <3>1. ASSUME NEW q \in Tenants, TakeRun(w, q) PROVE worker'[w].at # "calling"
      BY <3>1, <1>t DEF TakeRun, Idle
    <3>2. ASSUME LeaveRun(w) PROVE worker'[w].at # "calling"
      BY <3>2, <1>t DEF LeaveRun, Idle
    <3>3. ASSUME NEW B \in SUBSET Blobs, ReadStorage(w, B) PROVE worker'[w].at # "calling"
      BY <3>3, <1>t DEF ReadStorage, Worker
    <3>4. ASSUME PriceCommit(w) PROVE worker'[w].at # "calling"
      BY <3>4, <1>t DEF PriceCommit, Worker
    <3>5. ASSUME InsertFiles(w) PROVE worker'[w].at # "calling"
      BY <3>5, <1>t DEF InsertFiles, Idle
    <3> QED BY <1>3, <3>1, <3>2, <3>3, <3>4, <3>5
  <2>4. Calling(t)' \subseteq Calling(t) BY <2>2, <2>3 DEF Calling, At, Tenant
  <2> QED BY <1>t, <2>1, <2>4, NoNewCall
<1>4. ASSUME Midnight \/ FirstSecondPasses PROVE Bounded(t)'
  <2>1. worker' = worker /\ spent'[t] <= spent[t]
    BY <1>4, <1>t DEF Midnight, FirstSecondPasses
  <2>2. Calling(t)' = Calling(t) BY <2>1 DEF Calling, At, Tenant
  <2> QED BY <2>1, <2>2, NoNewCall
<1>5. ASSUME UNCHANGED spendingVars PROVE Bounded(t)'
  BY <1>5 DEF spendingVars, Bounded, Sum, Calling, At, Tenant
<1> QED BY <1>1, <1>2, <1>3, <1>4, <1>5 DEF SpendingNext, Work

LEMMA BudgetIsBounds == BudgetOvershoot <=> \A t \in Tenants : Bounded(t)
BY DEF BudgetOvershoot, Bounded, Sum

\* The daily budget is exceeded by one call for each worker at the most: below
\* the limit any number of workers may pass the check before the first of them
\* records what its call cost, and at the limit none does.
THEOREM BudgetKept == SpendingSpec => []BudgetOvershoot
<1>1. SpendingInit => BudgetOvershoot
  <2> SUFFICES ASSUME SpendingInit, NEW t \in Tenants PROVE Bounded(t) BY BudgetIsBounds
  <2>1. spent[t] = 0 /\ Calling(t) = {} BY IdleIsWorker DEF SpendingInit, Calling, At
  <2> QED BY <2>1 DEF Bounded
<1>2. SpendingTypeOK /\ SpendingTypeOK' /\ BudgetOvershoot /\ [SpendingNext]_spendingVars
      => BudgetOvershoot'
  <2> SUFFICES ASSUME SpendingTypeOK, SpendingTypeOK', BudgetOvershoot,
                      [SpendingNext]_spendingVars
               PROVE  BudgetOvershoot'
    OBVIOUS
  <2>1. \A t \in Tenants : Bounded(t)' BY BudgetIsBounds, BoundStep
  <2> QED BY <2>1 DEF BudgetOvershoot, Bounded, Sum
<1> QED BY <1>1, <1>2, SpendingTyped, PTL DEF SpendingSpec
-----------------------------------------------------------------------------
(* The storage limit.                                                       *)

\* Workers of a tenant between their read of what is stored and their commit,
\* which may still come to a commit.
Storing(t) == {w \in Workers : /\ worker[w].at \in {"pricing", "storing"}
                               /\ worker[w].tenant = t
                               /\ worker[w].used <= StorageLimit[t]}

Most(t) == StorageLimit[t] + MaxFiles * Cardinality(Workers) - MaxFiles

\* If each of them brings in a whole workspace the tenant is within the bound;
\* or all but one do, and that one keeps to the limit as it has read it.
Room(t) ==
    LET h == Cardinality(held[t])
        load == MaxFiles * Cardinality(Storing(t))
    IN  \/ h + load <= Most(t)
        \/ \E w \in Storing(t) :
             h + load - MaxFiles + StorageLimit[t] - worker[w].used <= Most(t)

\* A workspace has its size, and one that may be stored fits what was read.
Fits(w) ==
    /\ worker[w].at \in {"pricing", "storing"} => Cardinality(worker[w].blobs) <= MaxFiles
    /\ worker[w].at = "storing" =>
         worker[w].used + Cardinality(worker[w].blobs \ held[worker[w].tenant])
           <= StorageLimit[worker[w].tenant]

LEMMA Storers ==
    ASSUME NEW t \in Tenants
    PROVE  /\ IsFiniteSet(Storing(t)) /\ Cardinality(Storing(t)) \in Nat
           /\ MaxFiles * Cardinality(Storing(t)) \in Nat
<1>1. Storing(t) \subseteq Workers /\ IsFiniteSet(Workers) BY SpendingAssumption DEF Storing
<1>2. IsFiniteSet(Storing(t)) /\ Cardinality(Storing(t)) \in Nat
  BY <1>1, FS_Subset, FS_CardinalityType
<1>3. MaxFiles \in Nat BY SpendingAssumption
<1> QED BY <1>2, <1>3

LEMMA StorageNumbers ==
    ASSUME SpendingTypeOK, NEW t \in Tenants
    PROVE  /\ Cardinality(held[t]) \in Nat /\ StorageLimit[t] \in Nat /\ MaxFiles \in Nat
           /\ MaxFiles * Cardinality(Workers) \in Nat /\ Cardinality(Workers) \in Nat
           /\ Most(t) \in Int
<1>1. Cardinality(held[t]) \in Nat /\ Cardinality(Workers) \in Nat BY SizesAreNumbers
<1>2. StorageLimit[t] \in Nat /\ MaxFiles \in Nat BY SpendingAssumption
<1>3. MaxFiles * Cardinality(Workers) \in Nat BY <1>1, <1>2
<1> QED BY <1>1, <1>2, <1>3 DEF Most

LEMMA WorkerFields ==
    ASSUME SpendingTypeOK, NEW w \in Workers
    PROVE  /\ worker[w].used \in Nat /\ worker[w].blobs \subseteq Blobs
           /\ worker[w].at \in Stages
           /\ worker[w].at # "idle" => worker[w].tenant \in Tenants
           /\ IsFiniteSet(worker[w].blobs) /\ Cardinality(worker[w].blobs) \in Nat
<1>1. worker[w] \in Worker /\ (worker[w].at = "idle" <=> worker[w].tenant = NoTenant)
  BY Typed
<1>2. /\ worker[w].used \in Nat /\ worker[w].blobs \subseteq Blobs /\ worker[w].at \in Stages
      /\ worker[w].tenant \in Tenants \cup {NoTenant}
  BY <1>1 DEF Worker
<1>3. IsFiniteSet(Blobs) BY SpendingAssumption
<1> QED BY <1>1, <1>2, <1>3, FS_Subset, FS_CardinalityType

\* A step that changes neither what a tenant holds nor who is storing.
LEMMA RoomKept ==
    ASSUME NEW t \in Tenants, Room(t), held'[t] = held[t], Storing(t)' = Storing(t),
           \A w \in Storing(t) : worker'[w].used = worker[w].used
    PROVE  Room(t)'
BY DEF Room, Most

\* A storing worker leaves, and brings in n contents, which fit.
LEMMA RoomLeft ==
    ASSUME SpendingTypeOK, SpendingTypeOK', NEW t \in Tenants, Room(t),
           NEW w \in Storing(t), Storing(t)' = Storing(t) \ {w},
           \A v \in Workers \ {w} : worker'[v] = worker[v],
           NEW n \in Nat, n <= MaxFiles, n <= StorageLimit[t] - worker[w].used,
           Cardinality(held'[t]) <= Cardinality(held[t]) + n
    PROVE  Room(t)'
<1> DEFINE h == Cardinality(held[t])
           k == Cardinality(Storing(t))
           j == Cardinality(Storing(t)')
<1>1. /\ h \in Nat /\ Cardinality(held'[t]) \in Nat /\ StorageLimit[t] \in Nat
      /\ MaxFiles \in Nat /\ Most(t) \in Int
  <2>1. Cardinality(held'[t]) \in Nat
    <3>1. held'[t] \subseteq Blobs /\ IsFiniteSet(Blobs) BY SpendingAssumption DEF SpendingTypeOK
    <3> QED BY <3>1, FS_Subset, FS_CardinalityType
  <2> QED BY <2>1, StorageNumbers
<1>2. \A v \in Workers : worker[v].used \in Nat BY WorkerFields
<1>3. /\ IsFiniteSet(Storing(t)) /\ k \in Nat /\ j = k - 1 /\ j \in Nat
  BY Storers, FS_RemoveElement, FS_CardinalityType
<1>4. MaxFiles * k = MaxFiles * j + MaxFiles /\ MaxFiles * j \in Nat
  <2>1. k = j + 1 BY <1>3
  <2>2. MaxFiles * (j + 1) = MaxFiles * j + MaxFiles /\ MaxFiles * j \in Nat BY <1>1, <1>3
  <2> QED BY <2>1, <2>2
<1>5. Storing(t) \subseteq Workers BY DEF Storing
<1> HIDE DEF h, k, j
<1>6. Cardinality(held'[t]) <= h + n BY DEF h
<1>7. CASE h + MaxFiles * k <= Most(t)
  <2>1. Cardinality(held'[t]) + MaxFiles * j <= Most(t) BY <1>1, <1>4, <1>6, <1>7
  <2> QED BY <2>1 DEF Room, Most, j
<1>8. ASSUME NEW v \in Storing(t),
             h + MaxFiles * k - MaxFiles + StorageLimit[t] - worker[v].used <= Most(t)
      PROVE  Room(t)'
  <2>1. worker[v].used \in Nat BY <1>2, <1>5
  <2>2. CASE v = w
    <3>1. Cardinality(held'[t]) + MaxFiles * j <= Most(t)
      BY <1>1, <1>4, <1>6, <1>8, <2>1, <2>2
    <3> QED BY <3>1 DEF Room, Most, j
  <2>3. CASE v # w
    <3>1. v \in Storing(t)' /\ worker'[v].used = worker[v].used BY <1>5, <2>3
    <3>2. Cardinality(held'[t]) + MaxFiles * j - MaxFiles + StorageLimit[t] - worker'[v].used
          <= Most(t)
      BY <1>1, <1>4, <1>6, <1>8, <2>1, <3>1
    <3> QED BY <3>1, <3>2 DEF Room, Most, j
  <2> QED BY <2>2, <2>3
<1> QED BY <1>7, <1>8 DEF Room, h, k

\* A worker reads what is stored and finds the tenant within its limit.
LEMMA RoomTaken ==
    ASSUME SpendingTypeOK, NEW t \in Tenants, NEW w \in Workers, w \notin Storing(t),
           Storing(t)' = Storing(t) \cup {w}, held' = held,
           worker'[w].used = Cardinality(held[t])
    PROVE  Room(t)'
<1> DEFINE h == Cardinality(held[t])
           k == Cardinality(Storing(t))
           N == Cardinality(Workers)
<1>1. /\ h \in Nat /\ StorageLimit[t] \in Nat /\ MaxFiles \in Nat /\ N \in Nat
      /\ MaxFiles * N \in Nat
  BY StorageNumbers
<1>2. /\ IsFiniteSet(Storing(t)) /\ k \in Nat /\ Cardinality(Storing(t)') = k + 1
  BY Storers, FS_AddElement
<1>3. k + 1 <= N
  <2>1. Storing(t)' \subseteq Workers /\ IsFiniteSet(Workers) BY SpendingAssumption DEF Storing
  <2> QED BY <1>2, <2>1, FS_Subset
<1> HIDE DEF h, k, N
<1>4. MaxFiles * (k + 1) <= MaxFiles * N /\ MaxFiles * (k + 1) \in Nat BY <1>1, <1>2, <1>3
<1>5. h + MaxFiles * (k + 1) - MaxFiles + StorageLimit[t] - h
      <= StorageLimit[t] + MaxFiles * N - MaxFiles
  BY <1>1, <1>4
<1>6. /\ Cardinality(held'[t]) = h /\ worker'[w].used = h
      /\ Cardinality(Storing(t)') = k + 1 /\ w \in Storing(t)'
  BY <1>2 DEF h
<1> QED BY <1>5, <1>6 DEF Room, Most, N

LEMMA FitsStep ==
    ASSUME SpendingTypeOK, SpendingTypeOK', [SpendingNext]_spendingVars,
           \A w \in Workers : Fits(w)
    PROVE  \A w \in Workers : Fits(w)'
<1> SUFFICES ASSUME NEW v \in Workers PROVE Fits(v)'
  OBVIOUS
<1>t. worker \in [Workers -> Worker] /\ held \in [Tenants -> SUBSET Blobs] BY Typed
<1>f. Fits(v) OBVIOUS
\* The worker is as it was; what its tenant holds may have grown.
<1>1. ASSUME worker'[v] = worker[v], \A t \in Tenants : held[t] \subseteq held'[t]
      PROVE  Fits(v)'
  <2>1. CASE worker[v].at # "storing" BY <1>1, <1>f, <2>1 DEF Fits
  <2>2. CASE worker[v].at = "storing"
    <3> DEFINE t == worker[v].tenant
               B == worker[v].blobs
    <3>1. t \in Tenants /\ IsFiniteSet(B) /\ worker[v].used \in Nat
      BY <2>2, WorkerFields
    <3>2. B \ held'[t] \subseteq B \ held[t] /\ B \ held[t] \subseteq B BY <1>1, <3>1
    <3>3. /\ Cardinality(B \ held'[t]) <= Cardinality(B \ held[t])
          /\ Cardinality(B \ held'[t]) \in Nat /\ Cardinality(B \ held[t]) \in Nat
      BY <3>1, <3>2, FS_Subset, FS_CardinalityType
    <3>4. StorageLimit[t] \in Nat BY <3>1, SpendingAssumption
    <3>5. worker[v].used + Cardinality(B \ held[t]) <= StorageLimit[t] BY <1>f, <2>2 DEF Fits
    <3>6. worker[v].used + Cardinality(B \ held'[t]) <= StorageLimit[t]
      BY <3>1, <3>3, <3>4, <3>5
    <3> QED BY <1>1, <1>f, <3>6 DEF Fits
  <2> QED BY <2>1, <2>2
<1>2. ASSUME NEW w \in Workers, Work(w) PROVE Fits(v)'
  <2>1. \A t \in Tenants : held[t] \subseteq held'[t]
    BY <1>2, <1>t DEF Work, TakeRun, LeaveRun, CheckBudget, RecordUsage, ReadStorage,
                      PriceCommit, InsertFiles
  <2>2. CASE v # w BY <1>1, <1>2, <2>1, <2>2, WorkChanges
  <2>3. ASSUME worker'[v].at \notin {"pricing", "storing"} PROVE Fits(v)'
    BY <2>3 DEF Fits
  <2>4. ASSUME NEW t \in Tenants, TakeRun(v, t) PROVE Fits(v)'
    BY <1>t, <2>3, <2>4 DEF TakeRun, Idle
  <2>5. ASSUME LeaveRun(v) PROVE Fits(v)'
    BY <1>t, <2>3, <2>5 DEF LeaveRun, Idle
  <2>6. ASSUME CheckBudget(v) \/ (\E n \in 0 .. MaxUse : RecordUsage(v, n)) PROVE Fits(v)'
    BY <1>t, <2>3, <2>6 DEF CheckBudget, RecordUsage, Worker
  <2>7. ASSUME InsertFiles(v) PROVE Fits(v)'
    BY <1>t, <2>3, <2>7 DEF InsertFiles, Idle
  <2>8. ASSUME NEW B \in SUBSET Blobs, ReadStorage(v, B) PROVE Fits(v)'
    <3>1. worker'[v].at = "pricing" /\ worker'[v].blobs = B
      BY <1>t, <2>8 DEF ReadStorage, Worker
    <3> QED BY <2>8, <3>1 DEF ReadStorage, Fits
  <2>9. ASSUME PriceCommit(v) PROVE Fits(v)'
    <3>1. /\ worker'[v].at = "storing" /\ worker'[v].blobs = worker[v].blobs
          /\ worker'[v].used = worker[v].used /\ worker'[v].tenant = worker[v].tenant
          /\ held' = held
      BY <1>t, <2>9 DEF PriceCommit, Worker
    <3> QED BY <1>f, <2>9, <3>1 DEF PriceCommit, Fits, At, Tenant
  <2> QED BY <1>2, <2>2, <2>4, <2>5, <2>6, <2>7, <2>8, <2>9 DEF Work
<1>3. ASSUME Midnight \/ FirstSecondPasses \/ UNCHANGED spendingVars PROVE Fits(v)'
  BY <1>1, <1>3 DEF Midnight, FirstSecondPasses, spendingVars
<1> QED BY <1>2, <1>3 DEF SpendingNext

LEMMA RoomStep ==
    ASSUME SpendingTypeOK, SpendingTypeOK', [SpendingNext]_spendingVars,
           \A w \in Workers : Fits(w), NEW t \in Tenants, Room(t)
    PROVE  Room(t)'
<1>t. worker \in [Workers -> Worker] /\ held \in [Tenants -> SUBSET Blobs] BY Typed
\* Steps of a worker that is storing for the tenant neither before nor after.
<1>1. ASSUME NEW w \in Workers, Work(w), held'[t] = held[t],
             w \in Storing(t) <=> w \in Storing(t)',
             w \in Storing(t) => worker'[w].used = worker[w].used
      PROVE  Room(t)'
  <2>1. \A v \in Workers : v # w => worker'[v] = worker[v] BY <1>1, WorkChanges
  <2>2. Storing(t)' = Storing(t) BY <1>1, <2>1 DEF Storing
  <2>3. \A v \in Storing(t) : worker'[v].used = worker[v].used BY <1>1, <2>1 DEF Storing
  <2> QED BY <1>1, <2>2, <2>3, RoomKept
\* A storing worker gives up.
<1>2. ASSUME NEW w \in Workers, LeaveRun(w) PROVE Room(t)'
  <2>1. Work(w) /\ held' = held /\ worker'[w] = Idle BY <1>2, <1>t DEF LeaveRun, Work
  <2>2. w \notin Storing(t)' BY <2>1 DEF Storing, Idle
  <2>3. CASE w \notin Storing(t) BY <1>1, <2>1, <2>2, <2>3
  <2>4. CASE w \in Storing(t)
    <3>1. \A v \in Workers \ {w} : worker'[v] = worker[v] BY <2>1, WorkChanges
    <3>2. Storing(t)' = Storing(t) \ {w} BY <2>2, <3>1 DEF Storing
    <3>3. Cardinality(held'[t]) <= Cardinality(held[t]) + 0 BY <2>1, StorageNumbers
    <3>4. 0 <= MaxFiles /\ 0 <= StorageLimit[t] - worker[w].used
      BY <2>4, StorageNumbers, WorkerFields DEF Storing
    <3> QED BY <2>4, <3>1, <3>2, <3>3, <3>4, RoomLeft
  <2> QED BY <2>3, <2>4
<1>3. ASSUME NEW w \in Workers, InsertFiles(w) PROVE Room(t)'
  <2> DEFINE q == worker[w].tenant
             B == worker[w].blobs
  <2>1. /\ Work(w) /\ worker[w].at = "storing" /\ q \in Tenants
        /\ held' = [held EXCEPT ![q] = held[q] \cup B] /\ worker'[w].at = "running"
    BY <1>3, <1>t, WorkerFields DEF InsertFiles, Work, At, Tenant, Idle
  <2>2. w \notin Storing(t)' BY <2>1 DEF Storing
  <2>3. CASE q # t
    <3>1. w \notin Storing(t) /\ held'[t] = held[t] BY <1>t, <2>1, <2>3 DEF Storing
    <3> QED BY <1>1, <2>1, <2>2, <3>1
  <2>4. CASE q = t
    <3>1. /\ IsFiniteSet(B) /\ Cardinality(B) \in Nat /\ Cardinality(B) <= MaxFiles
          /\ worker[w].used \in Nat
      BY <2>1, WorkerFields DEF Fits
    <3>2. B \ held[t] \subseteq B OBVIOUS
    <3>3. /\ IsFiniteSet(B \ held[t]) /\ Cardinality(B \ held[t]) \in Nat
          /\ Cardinality(B \ held[t]) <= Cardinality(B)
      BY <3>1, <3>2, FS_Subset, FS_CardinalityType
    <3>4. worker[w].used + Cardinality(B \ held[t]) <= StorageLimit[t]
      BY <2>1, <2>4 DEF Fits
    <3>5. /\ Cardinality(B \ held[t]) <= MaxFiles /\ worker[w].used <= StorageLimit[t]
          /\ Cardinality(B \ held[t]) <= StorageLimit[t] - worker[w].used
      BY <3>1, <3>3, <3>4, StorageNumbers
    <3>6. Cardinality(held'[t]) <= Cardinality(held[t]) + Cardinality(B \ held[t])
      <4>1. held'[t] = held[t] \cup (B \ held[t]) BY <1>t, <2>1, <2>4
      <4>2. IsFiniteSet(held[t]) BY SizesAreNumbers
      <4>3. Cardinality(held[t] \cap (B \ held[t])) = 0
        <5>1. held[t] \cap (B \ held[t]) = {} OBVIOUS
        <5> QED BY <5>1, FS_EmptySet
      <4>4. Cardinality(held[t] \cup (B \ held[t]))
            = Cardinality(held[t]) + Cardinality(B \ held[t])
                - Cardinality(held[t] \cap (B \ held[t]))
        BY <3>3, <4>2, FS_Union
      <4> QED BY <3>3, <4>1, <4>3, <4>4, StorageNumbers
    <3>7. w \in Storing(t) BY <2>1, <2>4, <3>5 DEF Storing
    <3>8. \A v \in Workers \ {w} : worker'[v] = worker[v] BY <2>1, WorkChanges
    <3>9. Storing(t)' = Storing(t) \ {w} BY <2>2, <3>8 DEF Storing
    <3> HIDE DEF B
    <3> QED BY <3>3, <3>5, <3>6, <3>7, <3>8, <3>9, RoomLeft
  <2> QED BY <2>3, <2>4
<1>4. ASSUME NEW w \in Workers, NEW B \in SUBSET Blobs, ReadStorage(w, B) PROVE Room(t)'
  <2>1. /\ Work(w) /\ held' = held /\ worker[w].at = "running"
        /\ worker'[w].at = "pricing" /\ worker'[w].tenant = worker[w].tenant
        /\ worker'[w].used = Cardinality(held[worker[w].tenant])
    BY <1>4, <1>t DEF ReadStorage, Work, At, Tenant, Worker
  <2>2. w \notin Storing(t) BY <2>1 DEF Storing
  <2>3. CASE w \notin Storing(t)' BY <1>1, <2>1, <2>2, <2>3
  <2>4. CASE w \in Storing(t)'
    <3>1. \A v \in Workers : v # w => worker'[v] = worker[v] BY <2>1, WorkChanges
    <3>2. Storing(t)' = Storing(t) \cup {w} BY <2>4, <3>1 DEF Storing
    <3>3. worker'[w].used = Cardinality(held[t]) BY <2>1, <2>4 DEF Storing
    <3> QED BY <2>1, <2>2, <3>2, <3>3, RoomTaken
  <2> QED BY <2>3, <2>4
<1>5. ASSUME NEW w \in Workers, PriceCommit(w) PROVE Room(t)'
  <2>1. /\ Work(w) /\ held' = held /\ worker[w].at = "pricing"
        /\ worker'[w].at = "storing" /\ worker'[w].tenant = worker[w].tenant
        /\ worker'[w].used = worker[w].used
    BY <1>5, <1>t DEF PriceCommit, Work, At, Worker
  <2>2. w \in Storing(t) <=> w \in Storing(t)' BY <2>1 DEF Storing
  <2> QED BY <1>1, <2>1, <2>2
<1>6. ASSUME NEW w \in Workers,
             \/ \E q \in Tenants : TakeRun(w, q)
             \/ CheckBudget(w)
             \/ \E n \in 0 .. MaxUse : RecordUsage(w, n)
      PROVE  Room(t)'
  <2>1. Work(w) /\ held' = held
    BY <1>6 DEF Work, TakeRun, CheckBudget, RecordUsage
  <2>2. worker[w].at \notin {"pricing", "storing"}
    BY <1>6 DEF TakeRun, CheckBudget, RecordUsage, At
  <2>3. worker'[w].at \notin {"pricing", "storing"}
    <3>1. ASSUME NEW q \in Tenants, TakeRun(w, q) PROVE worker'[w].at = "running"
      BY <1>t, <3>1 DEF TakeRun, Idle
    <3>2. ASSUME CheckBudget(w) \/ (\E n \in 0 .. MaxUse : RecordUsage(w, n))
          PROVE  worker'[w].at \in {"running", "calling"}
      BY <1>t, <3>2 DEF CheckBudget, RecordUsage, Worker
    <3> QED BY <1>6, <3>1, <3>2
  <2>4. w \notin Storing(t) /\ w \notin Storing(t)' BY <2>2, <2>3 DEF Storing
  <2> QED BY <1>1, <2>1, <2>4
<1>7. ASSUME Midnight \/ FirstSecondPasses \/ UNCHANGED spendingVars PROVE Room(t)'
  <2>1. worker' = worker /\ held' = held
    BY <1>7 DEF Midnight, FirstSecondPasses, spendingVars
  <2> QED BY <2>1 DEF Room, Most, Storing
<1> QED BY <1>2, <1>3, <1>4, <1>5, <1>6, <1>7 DEF SpendingNext, Work

StorageInv == SpendingTypeOK /\ (\A w \in Workers : Fits(w)) /\ (\A t \in Tenants : Room(t))

\* A tenant holds its limit and one workspace for every worker but one at the
\* most: all may read what is stored before the first of them commits, and the
\* last to have read finds what it can bring in within the limit.
THEOREM StorageKept == SpendingSpec => []StorageOvershoot
<1>1. SpendingInit => StorageInv
  <2> SUFFICES ASSUME SpendingInit PROVE StorageInv OBVIOUS
  <2>1. SpendingTypeOK BY InitTyped
  <2>2. \A w \in Workers : worker[w].at = "idle" BY IdleIsWorker DEF SpendingInit
  <2>3. \A w \in Workers : Fits(w) BY <2>2 DEF Fits
  <2>4. ASSUME NEW t \in Tenants PROVE Room(t)
    <3>1. held[t] = {} /\ Storing(t) = {} BY <2>2 DEF SpendingInit, Storing
    <3>2. Cardinality(held[t]) = 0 /\ Cardinality(Storing(t)) = 0 BY <3>1, FS_EmptySet
    <3>3. Cardinality(Workers) \in Nat /\ Cardinality(Workers) # 0
      BY SpendingAssumption, FS_CardinalityType, FS_EmptySet
    <3>4. StorageLimit[t] \in Nat /\ MaxFiles \in Nat BY SpendingAssumption
    <3> DEFINE N == Cardinality(Workers)
    <3>5. MaxFiles <= MaxFiles * N
      <4>1. PICK m \in Nat : N = m + 1 BY <3>3
      <4>2. MaxFiles * (m + 1) = MaxFiles * m + MaxFiles /\ MaxFiles * m \in Nat BY <3>4
      <4> QED BY <3>4, <4>1, <4>2
    <3>6. MaxFiles * 0 = 0 /\ MaxFiles * N \in Nat BY <3>3, <3>4
    <3>7. 0 + MaxFiles * 0 <= StorageLimit[t] + MaxFiles * N - MaxFiles
      BY <3>4, <3>5, <3>6
    <3> QED BY <3>2, <3>7 DEF Room, Most
  <2> QED BY <2>1, <2>3, <2>4 DEF StorageInv
<1>2. StorageInv /\ [SpendingNext]_spendingVars => StorageInv'
  <2> SUFFICES ASSUME StorageInv, [SpendingNext]_spendingVars PROVE StorageInv'
    OBVIOUS
  <2>1. SpendingTypeOK /\ SpendingTypeOK' BY TypeStep DEF StorageInv
  <2>2. \A w \in Workers : Fits(w)' BY <2>1, FitsStep DEF StorageInv
  <2>3. \A t \in Tenants : Room(t)' BY <2>1, RoomStep DEF StorageInv
  <2> QED BY <2>1, <2>2, <2>3 DEF StorageInv
<1>3. StorageInv => StorageOvershoot
  <2> SUFFICES ASSUME StorageInv, NEW t \in Tenants
               PROVE  Cardinality(held[t])
                      <= StorageLimit[t] + MaxFiles * (Cardinality(Workers) - 1)
    BY DEF StorageOvershoot
  <2> DEFINE N == Cardinality(Workers)
             k == Cardinality(Storing(t))
  <2>1. /\ SpendingTypeOK /\ Room(t) /\ Cardinality(held[t]) \in Nat /\ StorageLimit[t] \in Nat
        /\ MaxFiles \in Nat /\ N \in Nat /\ MaxFiles * N \in Nat
    BY StorageNumbers DEF StorageInv
  <2>2. k \in Nat /\ MaxFiles * k \in Nat /\ IsFiniteSet(Storing(t)) BY Storers
  <2>3. Cardinality(held[t]) <= StorageLimit[t] + MaxFiles * N - MaxFiles
    <3>1. CASE Cardinality(held[t]) + MaxFiles * k <= Most(t)
      BY <2>1, <2>2, <3>1 DEF Most
    <3>2. ASSUME NEW w \in Storing(t),
                 Cardinality(held[t]) + MaxFiles * k - MaxFiles + StorageLimit[t] - worker[w].used
                   <= Most(t)
          PROVE  Cardinality(held[t]) <= StorageLimit[t] + MaxFiles * N - MaxFiles
      <4>1. worker[w].used \in Nat /\ worker[w].used <= StorageLimit[t]
        BY <2>1, WorkerFields DEF Storing
      <4>2. MaxFiles <= MaxFiles * k
        <5>1. k # 0 BY <2>2, FS_EmptySet
        <5>2. PICK m \in Nat : k = m + 1 BY <2>2, <5>1
        <5>3. MaxFiles * (m + 1) = MaxFiles * m + MaxFiles /\ MaxFiles * m \in Nat BY <2>1
        <5> QED BY <2>1, <5>2, <5>3
      <4> HIDE DEF N, k
      <4> QED BY <2>1, <2>2, <3>2, <4>1, <4>2 DEF Most, N
    <3> QED BY <2>1, <3>1, <3>2 DEF Room
  <2>4. MaxFiles * (N - 1) = MaxFiles * N - MaxFiles
    <3> HIDE DEF N
    <3> QED BY <2>1
  <2> QED BY <2>3, <2>4
<1> QED BY <1>1, <1>2, <1>3, PTL DEF SpendingSpec
=============================================================================
