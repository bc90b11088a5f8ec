------------------------------ MODULE Spending ------------------------------
(***************************************************************************)
(* What a tenant may spend: the daily token budget, checked by             *)
(* internal/tenant before each call that Metered of internal/model lets    *)
(* through, and the storage limit, checked by Commit of internal/project   *)
(* before it writes.  Both are checked first and spent later, in another   *)
(* transaction, by several workers at once.                                *)
(***************************************************************************)
EXTENDS Integers, FiniteSets

CONSTANTS
    Tenants,
    Workers,        \* goroutines at a run, superseded ones included
    Blobs,          \* contents by hash, each of size 1
    TokenLimit,     \* of each tenant: daily_token_limit
    StorageLimit,   \* of each tenant: max_storage_bytes
    MaxUse,         \* bound: tokens of one call
    MaxFiles,       \* bound: contents of one workspace
    NoTenant

ASSUME SpendingAssumption ==
    /\ IsFiniteSet(Workers) /\ Workers # {} /\ IsFiniteSet(Blobs) /\ NoTenant \notin Tenants
    /\ TokenLimit \in [Tenants -> Nat] /\ StorageLimit \in [Tenants -> Nat]
    /\ MaxUse \in Nat /\ MaxFiles \in Nat

VARIABLES
    spent,    \* of each tenant, what SpentToday counts
    early,    \* the first second of the UTC day has not passed
    held,     \* of each tenant, the blobs its version_files name
    worker    \* [at, tenant, used, blobs]: what each worker is doing

spendingVars == <<spent, early, held, worker>>

Idle == [at |-> "idle", tenant |-> NoTenant, used |-> 0, blobs |-> {}]

SpendingInit ==
    /\ spent = [t \in Tenants |-> 0]
    /\ early = FALSE
    /\ held = [t \in Tenants |-> {}]
    /\ worker = [w \in Workers |-> Idle]

At(w, p) == worker[w].at = p
Tenant(w) == worker[w].tenant

\* A run is the project's, and the project the tenant's, for ever.
TakeRun(w, t) ==
    /\ At(w, "idle")
    /\ worker' = [worker EXCEPT ![w] = [Idle EXCEPT !.at = "running", !.tenant = t]]
    /\ UNCHANGED <<spent, early, held>>

\* The run ends, fails on a refusal, or dies with the process, at any step.
LeaveRun(w) ==
    /\ ~At(w, "idle")
    /\ worker' = [worker EXCEPT ![w] = Idle]
    /\ UNCHANGED <<spent, early, held>>

-----------------------------------------------------------------------------
(* The model gateway.                                                       *)

\* Fault: a tenant at its limit may make one more call.
CheckBudgetAtLimit(w) ==
    /\ At(w, "running")
    /\ spent[Tenant(w)] <= TokenLimit[Tenant(w)]
    /\ worker' = [worker EXCEPT ![w].at = "calling"]
    /\ UNCHANGED <<spent, early, held>>

\* CheckBudget of Metered.Complete; a refusal is a LeaveRun.
CheckBudget(w) ==
    /\ At(w, "running")
    /\ spent[Tenant(w)] < TokenLimit[Tenant(w)]
    /\ worker' = [worker EXCEPT ![w].at = "calling"]
    /\ UNCHANGED <<spent, early, held>>

\* The answer's usage row, for a failed call with zeros.  created_at is compared
\* as a string with midnight, whose fraction is left out: in the day's first
\* second a fraction sorts before it, and the row belongs to no day.
RecordUsage(w, n) ==
    /\ At(w, "calling")
    /\ \/ spent' = [spent EXCEPT ![Tenant(w)] = @ + n]
       \/ early /\ UNCHANGED spent
    /\ worker' = [worker EXCEPT ![w].at = "running"]
    /\ UNCHANGED <<early, held>>

Midnight ==
    /\ spent' = [t \in Tenants |-> 0]
    /\ early' = TRUE
    /\ UNCHANGED <<held, worker>>

FirstSecondPasses ==
    /\ early
    /\ early' = FALSE
    /\ UNCHANGED <<spent, held, worker>>

-----------------------------------------------------------------------------
(* The storage limit.                                                       *)

\* CheckStorage's first read, for the commit of a workspace of these contents.
ReadStorage(w, B) ==
    /\ At(w, "running")
    /\ B # {} /\ Cardinality(B) <= MaxFiles
    /\ worker' = [worker EXCEPT ![w].at = "pricing", ![w].blobs = B,
                                ![w].used = Cardinality(held[Tenant(w)])]
    /\ UNCHANGED <<spent, early, held>>

\* Fault: only the commit's own contents are counted.
PriceCommitAlone(w) ==
    /\ At(w, "pricing")
    /\ Cardinality(worker[w].blobs \ held[Tenant(w)]) <= StorageLimit[Tenant(w)]
    /\ worker' = [worker EXCEPT ![w].at = "storing"]
    /\ UNCHANGED <<spent, early, held>>

\* Then a read per blob: what the tenant holds by now costs nothing.
PriceCommit(w) ==
    /\ At(w, "pricing")
    /\ worker[w].used + Cardinality(worker[w].blobs \ held[Tenant(w)])
       <= StorageLimit[Tenant(w)]
    /\ worker' = [worker EXCEPT ![w].at = "storing"]
    /\ UNCHANGED <<spent, early, held>>

\* Commit's transaction.
InsertFiles(w) ==
    /\ At(w, "storing")
    /\ held' = [held EXCEPT ![Tenant(w)] = @ \cup worker[w].blobs]
    /\ worker' = [worker EXCEPT ![w] = [Idle EXCEPT !.at = "running", !.tenant = Tenant(w)]]
    /\ UNCHANGED <<spent, early>>

Work(w) ==
    \/ \E t \in Tenants : TakeRun(w, t)
    \/ LeaveRun(w)
    \/ CheckBudget(w) \/ (\E n \in 0 .. MaxUse : RecordUsage(w, n))
    \/ (\E B \in SUBSET Blobs : ReadStorage(w, B)) \/ PriceCommit(w) \/ InsertFiles(w)

SpendingNext == (\E w \in Workers : Work(w)) \/ Midnight \/ FirstSecondPasses

SpendingSpec == SpendingInit /\ [][SpendingNext]_spendingVars

-----------------------------------------------------------------------------
(* Properties.                                                              *)

Stages == {"idle", "running", "calling", "pricing", "storing"}

\* Counts, holdings and workers have their types; a worker that is not idle is
\* at a run of a tenant.
SpendingTypeOK ==
    /\ spent \in [Tenants -> Nat]
    /\ early \in BOOLEAN
    /\ held \in [Tenants -> SUBSET Blobs]
    /\ worker \in [Workers -> [at : Stages, tenant : Tenants \cup {NoTenant},
                               used : Nat, blobs : SUBSET Blobs]]
    /\ \A w \in Workers : At(w, "idle") <=> Tenant(w) = NoTenant

Calling(t) == {w \in Workers : At(w, "calling") /\ Tenant(w) = t}

\* The hard stop is hard up to the calls under way when it is reached: what a
\* tenant has spent on a day stays below its limit and one call more for each
\* worker, those not yet recorded included (tenant.go:153).
BudgetOvershoot ==
    \A t \in Tenants :
        \/ spent[t] = 0 /\ Calling(t) = {}
        \/ spent[t] + MaxUse * Cardinality(Calling(t))
           < TokenLimit[t] + MaxUse * Cardinality(Workers)

\* So is the storage limit: workers that have read what is stored before the
\* others' commits each bring in at most one workspace more (tenant.go:188).
StorageOvershoot ==
    \A t \in Tenants :
        Cardinality(held[t]) <= StorageLimit[t] + MaxFiles * (Cardinality(Workers) - 1)
=============================================================================
