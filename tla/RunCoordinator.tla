--------------------------- MODULE RunCoordinator ---------------------------
(***************************************************************************)
(* The run coordinator, internal/run/coordinator.go: the rows of the       *)
(* `runs` and `idempotency_keys` tables, the lease tokens the workers of   *)
(* internal/server/server.go hold in memory, and one action for every      *)
(* operation.  Each operation is one SQLite write transaction on the single *)
(* writer connection, so each is one atomic step here.                     *)
(*                                                                         *)
(* Time is abstracted to what the guards compare: `lease_expires_at` is    *)
(* empty ("none"), later than now ("live") or not later than now           *)
(* ("expired"), and Expire is the passing of a lease's deadline.           *)
(***************************************************************************)
EXTENDS Integers, FiniteSets

CONSTANTS
    Sessions,       \* session ids
    Projects,       \* project ids
    Tenants,        \* tenant ids
    ProjectOf,      \* the project a session belongs to
    TenantOf,       \* the tenant a project belongs to
    MaxConcurrent,  \* tenants.max_concurrent_runs, per tenant
    Keys,           \* idempotency keys a client sends
    Workers,        \* worker ids
    NoWorker,       \* lease_worker = ''
    NoSession,      \* the session of a row that does not exist yet
    MaxRuns,        \* bound: rows in `runs`
    MaxGen          \* bound: how often one run is handed to a worker

ASSUME CoordinatorAssumption ==
    /\ ProjectOf \in [Sessions -> Projects]
    /\ TenantOf \in [Projects -> Tenants]
    /\ MaxConcurrent \in [Tenants -> Nat]
    /\ NoWorker \notin Workers
    /\ NoSession \notin Sessions
    /\ MaxRuns \in Nat
    /\ MaxGen \in Nat

VARIABLES
    status,   \* runs.status, "absent" before the row is inserted
    session,  \* runs.session_id (and, through ProjectOf, runs.project_id)
    holder,   \* runs.lease_worker
    gen,      \* runs.lease_gen
    expiry,   \* runs.lease_expires_at against the clock
    keys,     \* idempotency_keys.run_id, 0 for no row
    held      \* the eventlog.Lease each worker carries through executeRun

rowVars == <<status, session, holder, gen, expiry>>
vars == <<rowVars, keys, held>>

\* Rows in the order of created_at: run n is the n-th one inserted.
RunIds == 1 .. MaxRuns

Final == {"completed", "failed", "cancelled"}
Statuses == {"queued", "running", "recovering", "waiting_for_input"} \cup Final

\* The tokens.  `claim` is history: whether the claim that made the token was
\* committed.  The worker does not know, and no guard reads it.
NoLease == [run |-> 0, gen |-> 0, claim |-> "none"]
Leases == [run : 0 .. MaxRuns, gen : Nat, claim : {"none", "committed", "failed"}]

Granted(w) == held[w].claim = "committed"

-----------------------------------------------------------------------------
\* Conditions of the SQL statements.

Exists(r) == status[r] # "absent"
Terminal(r) == status[r] \in Final

\* Unexpired lease: status = running AND lease_expires_at > now.
Active(r) == status[r] = "running" /\ expiry[r] = "live"

Project(r) == ProjectOf[session[r]]
Tenant(r) == TenantOf[Project(r)]

Siblings(r) ==
    {q \in RunIds \ {r} : Exists(q) /\ Exists(r) /\ Project(q) = Project(r)}

ActiveInTenant(t) == {q \in RunIds : Active(q) /\ Tenant(q) = t}

\* Fault: a parked run does not keep its project.
ClaimableBesideParked(r) ==
    /\ status[r] \in {"queued", "recovering"}
    /\ \A q \in Siblings(r) : ~Active(q)
    /\ Cardinality(ActiveInTenant(Tenant(r))) < MaxConcurrent[Tenant(r)]

\* Fault: a run at work does not keep its project.
ClaimableBesideActive(r) ==
    /\ status[r] \in {"queued", "recovering"}
    /\ \A q \in Siblings(r) : status[q] # "waiting_for_input"
    /\ Cardinality(ActiveInTenant(Tenant(r))) < MaxConcurrent[Tenant(r)]

\* Fault: the quota is one too many.
ClaimableOverQuota(r) ==
    /\ status[r] \in {"queued", "recovering"}
    /\ \A q \in Siblings(r) : ~Active(q) /\ status[q] # "waiting_for_input"
    /\ Cardinality(ActiveInTenant(Tenant(r))) <= MaxConcurrent[Tenant(r)]

Claimable(r) ==
    /\ status[r] \in {"queued", "recovering"}
    /\ \A q \in Siblings(r) : ~Active(q) /\ status[q] # "waiting_for_input"
    /\ Cardinality(ActiveInTenant(Tenant(r))) < MaxConcurrent[Tenant(r)]

\* Fault: the fence compares the generation only.
CurrentByGeneration(w) ==
    /\ held[w] # NoLease
    /\ gen[held[w].run] = held[w].gen

\* The fence of an append: the token's generation and worker are the row's.
Current(w) ==
    /\ held[w] # NoLease
    /\ holder[held[w].run] = w
    /\ gen[held[w].run] = held[w].gen

\* The fence of a lease operation also asks for status = running.
Holds(w) == Current(w) /\ status[held[w].run] = "running"

Orphaned(r) ==
    status[r] = "running" /\ ~ \E w \in Workers : Current(w) /\ held[w].run = r

-----------------------------------------------------------------------------
Init ==
    /\ status = [r \in RunIds |-> "absent"]
    /\ session = [r \in RunIds |-> NoSession]
    /\ holder = [r \in RunIds |-> NoWorker]
    /\ gen = [r \in RunIds |-> 0]
    /\ expiry = [r \in RunIds |-> "none"]
    /\ keys = [s \in Sessions |-> [k \in Keys |-> 0]]
    /\ held = [w \in Workers |-> NoLease]

\* Fault: the key is not looked up.
RequestRunOnReplay(s, k) ==
    /\ \E r \in RunIds :
        /\ ~Exists(r) /\ \A q \in 1 .. (r - 1) : Exists(q)
        /\ status' = [status EXCEPT ![r] = "queued"]
        /\ session' = [session EXCEPT ![r] = s]
        /\ keys' = [keys EXCEPT ![s][k] = r]
    /\ UNCHANGED <<holder, gen, expiry, held>>

\* Fault: the row is inserted without its session.
RequestRunForNobody(s, k) ==
    /\ keys[s][k] = 0
    /\ \E r \in RunIds :
        /\ ~Exists(r) /\ \A q \in 1 .. (r - 1) : Exists(q)
        /\ status' = [status EXCEPT ![r] = "queued"]
        /\ keys' = [keys EXCEPT ![s][k] = r]
    /\ UNCHANGED <<session, holder, gen, expiry, held>>

\* RC-1.  A replay finds its key's row and changes nothing: a stuttering step.
RequestRun(s, k) ==
    /\ keys[s][k] = 0
    /\ \E r \in RunIds :
        /\ ~Exists(r) /\ \A q \in 1 .. (r - 1) : Exists(q)
        /\ status' = [status EXCEPT ![r] = "queued"]
        /\ session' = [session EXCEPT ![r] = s]
        /\ keys' = [keys EXCEPT ![s][k] = r]
    /\ UNCHANGED <<holder, gen, expiry, held>>

\* Fault: a takeover keeps the generation.
ClaimSameGeneration(w) ==
    /\ held[w] = NoLease
    /\ \E r \in RunIds :
        /\ Claimable(r) /\ \A q \in 1 .. (r - 1) : ~Claimable(q)
        /\ status' = [status EXCEPT ![r] = "running"]
        /\ holder' = [holder EXCEPT ![r] = w]
        /\ gen' = [gen EXCEPT ![r] = IF @ = 0 THEN 1 ELSE @]
        /\ expiry' = [expiry EXCEPT ![r] = "live"]
        /\ held' = [held EXCEPT ![w] = [run |-> r, gen |-> gen'[r], claim |-> "committed"]]
    /\ UNCHANGED <<session, keys>>

\* ORDER BY created_at LIMIT 1: the oldest claimable run.
Claim(w) ==
    /\ held[w] = NoLease
    /\ \E r \in RunIds :
        /\ Claimable(r) /\ \A q \in 1 .. (r - 1) : ~Claimable(q)
        /\ status' = [status EXCEPT ![r] = "running"]
        /\ holder' = [holder EXCEPT ![r] = w]
        /\ gen' = [gen EXCEPT ![r] = @ + 1]
        /\ expiry' = [expiry EXCEPT ![r] = "live"]
        /\ held' = [held EXCEPT ![w] = [run |-> r, gen |-> gen[r] + 1, claim |-> "committed"]]
    /\ UNCHANGED <<session, keys>>

\* The commit of a claim fails: the row is rolled back, but Claim returns the
\* run beside the error and the worker executes it.  It carries a generation no
\* row has, and the next claim hands the same one out.
ClaimFails(w) ==
    /\ held[w] = NoLease
    /\ \E r \in RunIds :
        /\ Claimable(r) /\ \A q \in 1 .. (r - 1) : ~Claimable(q)
        /\ held' = [held EXCEPT ![w] = [run |-> r, gen |-> gen[r] + 1, claim |-> "failed"]]
    /\ UNCHANGED <<rowVars, keys>>

\* The UPDATE asks for worker, generation and status, not for an unexpired
\* lease: a late renewal revives a lease that has expired.
Renew(w) ==
    /\ Holds(w)
    /\ expiry' = [expiry EXCEPT ![held[w].run] = "live"]
    /\ UNCHANGED <<status, session, holder, gen, keys, held>>

\* Fault: lease_expires_at is not emptied.
ReleaseKeepingDeadline(w, st) ==
    /\ Holds(w)
    /\ status' = [status EXCEPT ![held[w].run] = st]
    /\ held' = [held EXCEPT ![w] = NoLease]
    /\ UNCHANGED <<session, holder, gen, expiry, keys>>

\* The worker ends its run: executeRun returns and the token is forgotten.
ReleaseAs(w, st) ==
    /\ Holds(w)
    /\ status' = [status EXCEPT ![held[w].run] = st]
    /\ expiry' = [expiry EXCEPT ![held[w].run] = "none"]
    /\ held' = [held EXCEPT ![w] = NoLease]
    /\ UNCHANGED <<session, holder, gen, keys>>

Complete(w, st) == st \in {"completed", "failed"} /\ ReleaseAs(w, st)

\* The run can be handed out again.  Bound: MaxGen.
MayReturn(r) == gen[r] < MaxGen

Relinquish(w) == Holds(w) /\ MayReturn(held[w].run) /\ ReleaseAs(w, "recovering")

Await(w) == Holds(w) /\ MayReturn(held[w].run) /\ ReleaseAs(w, "waiting_for_input")

Resume(r) ==
    /\ status[r] = "waiting_for_input"
    /\ status' = [status EXCEPT ![r] = "queued"]
    /\ UNCHANGED <<session, holder, gen, expiry, keys, held>>

\* Fault: a finished run can be cancelled.
CancelFinished(r) ==
    /\ Exists(r)
    /\ status' = [status EXCEPT ![r] = "cancelled"]
    /\ gen' = [gen EXCEPT ![r] = @ + 1]
    /\ holder' = [holder EXCEPT ![r] = NoWorker]
    /\ expiry' = [expiry EXCEPT ![r] = "none"]
    /\ UNCHANGED <<session, keys, held>>

\* Fault: only the status is flipped, the lease stays.
CancelByStatus(r) ==
    /\ Exists(r) /\ ~Terminal(r)
    /\ status' = [status EXCEPT ![r] = "cancelled"]
    /\ expiry' = [expiry EXCEPT ![r] = "none"]
    /\ UNCHANGED <<session, holder, gen, keys, held>>

Cancel(r) ==
    /\ Exists(r) /\ ~Terminal(r)
    /\ status' = [status EXCEPT ![r] = "cancelled"]
    /\ gen' = [gen EXCEPT ![r] = @ + 1]
    /\ holder' = [holder EXCEPT ![r] = NoWorker]
    /\ expiry' = [expiry EXCEPT ![r] = "none"]
    /\ UNCHANGED <<session, keys, held>>

\* Fault: the scan misses a run with a deadline.
LapsedWithoutDeadline(r) == status[r] = "running" /\ expiry[r] = "none"

Lapsed(r) == status[r] = "running" /\ expiry[r] = "expired"

\* RC-4, RC-5: one UPDATE for every lapsed run; lease_worker, lease_gen and
\* lease_expires_at stay as they were.
RecoverOrphans ==
    /\ \E r \in RunIds : Lapsed(r)
    /\ status' = [r \in RunIds |-> IF Lapsed(r) THEN "recovering" ELSE status[r]]
    /\ UNCHANGED <<session, holder, gen, expiry, keys, held>>

\* A fenced call of the worker was refused, or its renewer saw it refused:
\* executeRun returns without a transition of its own.
StandDown(w) ==
    /\ held[w] # NoLease /\ ~Holds(w)
    /\ held' = [held EXCEPT ![w] = NoLease]
    /\ UNCHANGED <<rowVars, keys>>

\* A worker gives its run up although the row still names it: the write of its
\* transition failed, or a renewal failed for a reason other than the fence.
GiveUp(w) ==
    /\ Holds(w) /\ MayReturn(held[w].run)
    /\ held' = [held EXCEPT ![w] = NoLease]
    /\ UNCHANGED <<rowVars, keys>>

\* The process dies and starts again: the rows survive, the tokens do not.
Crash ==
    /\ \E w \in Workers : held[w] # NoLease
    /\ \A w \in Workers : Holds(w) => MayReturn(held[w].run)
    /\ held' = [w \in Workers |-> NoLease]
    /\ UNCHANGED <<rowVars, keys>>

\* A lease's deadline passes.  Bound: not for a run's last permitted holder.
Expire(r) ==
    /\ Active(r) /\ MayReturn(r)
    /\ expiry' = [expiry EXCEPT ![r] = "expired"]
    /\ UNCHANGED <<status, session, holder, gen, keys, held>>

-----------------------------------------------------------------------------
\* The calls a worker makes on the lease it carries.
LeaseCall(w) ==
    \/ Renew(w)
    \/ \E st \in {"completed", "failed"} : Complete(w, st)
    \/ Relinquish(w)
    \/ Await(w)

OtherStep ==
    \/ \E s \in Sessions, k \in Keys : RequestRun(s, k)
    \/ \E w \in Workers : Claim(w) \/ ClaimFails(w) \/ StandDown(w) \/ GiveUp(w)
    \/ \E r \in RunIds : Resume(r) \/ Cancel(r) \/ Expire(r)
    \/ RecoverOrphans
    \/ Crash

Next == OtherStep \/ \E w \in Workers : LeaseCall(w)

Spec == Init /\ [][Next]_vars

\* Environment assumption, not enforced by the code: no worker is so slow that
\* it makes a lease call after its lease's deadline.
OnTime(w) == expiry[held[w].run] = "live"

TimelyNext == OtherStep \/ \E w \in Workers : held[w] # NoLease /\ OnTime(w) /\ LeaseCall(w)

TimelySpec == Init /\ [][TimelyNext]_vars

\* executeRun ends: the harness has a step limit, and a lost lease stops it.
FinishRun(w) ==
    \/ StandDown(w)
    \/ \E st \in {"completed", "failed"} : Complete(w, st)
    \/ Await(w)

\* Workers poll Claim every 500ms and on Poke, and of claims tried again and
\* again one commits at last; the recovery ticker runs every TTL/2; an
\* abandoned lease reaches its deadline because nobody renews it.
\* Users (RequestRun, Resume, Cancel) and failures are not fair.
Fairness ==
    /\ SF_vars(\E w \in Workers : Claim(w))
    /\ \A w \in Workers : WF_vars(FinishRun(w))
    /\ \A r \in RunIds : WF_vars(Orphaned(r) /\ Expire(r))
    /\ WF_vars(RecoverOrphans)

FairSpec == Spec /\ Fairness

-----------------------------------------------------------------------------
\* Every row, key and token has its type; tokens name rows.
TypeOK ==
    /\ status \in [RunIds -> Statuses \cup {"absent"}]
    /\ session \in [RunIds -> Sessions \cup {NoSession}]
    /\ \A r \in RunIds : Exists(r) => session[r] \in Sessions
    /\ holder \in [RunIds -> Workers \cup {NoWorker}]
    /\ gen \in [RunIds -> Nat]
    /\ expiry \in [RunIds -> {"none", "live", "expired"}]
    /\ keys \in [Sessions -> [Keys -> 0 .. MaxRuns]]
    /\ held \in [Workers -> Leases]
    /\ \A w \in Workers : held[w] # NoLease => held[w].run \in RunIds

\* RC-4: no run is stuck in a state no scan and no claim can see.  A running
\* row names a worker and carries a deadline (RecoverOrphans skips the empty
\* one), and a parked, queued or finished row carries no lease that a later
\* Claim of a sibling or the tenant's quota would count.
NoLimbo ==
    \A r \in RunIds :
        /\ status[r] = "running" => holder[r] \in Workers /\ expiry[r] # "none"
        /\ status[r] \notin {"running", "recovering"} => expiry[r] = "none"
        /\ expiry[r] = "live" => status[r] = "running"

\* RC-3: a lease that was granted is granted once.  Two workers may carry the
\* same generation of a run, when the commit of one's claim failed; but two
\* committed claims never share one, and the token of the failed claim never
\* passes the fence, not even when the row reaches its generation.
LeaseIdentifiesHolder ==
    /\ \A v, w \in Workers : Granted(v) /\ held[v] = held[w] => v = w
    /\ \A w \in Workers : Current(w) => Granted(w)

\* RC-1: the key table and the run table agree.  A run has exactly one key, a
\* key of the run's own session, so no replay can find another run or none.
KeysMatchRuns ==
    /\ \A s \in Sessions, k \in Keys : keys[s][k] # 0 =>
        /\ Exists(keys[s][k])
        /\ session[keys[s][k]] = s
        /\ \A t \in Sessions, j \in Keys : keys[t][j] = keys[s][k] => t = s /\ j = k
    /\ \A r \in RunIds : Exists(r) => \E k \in Keys : keys[session[r]][k] = r

\* A finished run stays as it finished, whichever of completion, cancel, late
\* renewal, resume and recovery scan comes after.
TerminalIsFinal ==
    [][\A r \in RunIds : Terminal(r) => status'[r] = status[r] /\ gen'[r] = gen[r]]_vars

\* RC-3, SL-3: a worker whose token does not pass the fence (takeover, cancel,
\* a claim that was not committed) never passes it with that token, whatever
\* happens to the row; a lease once granted stays behind the run's generation.
LostLeaseStaysLost ==
    [][\A w \in Workers :
        held[w] # NoLease /\ ~Current(w) /\ held'[w] = held[w] =>
            /\ ~Current(w)'
            /\ Granted(w) => gen'[held[w].run] > held[w].gen]_vars

\* RC-2: at most one active lease per project.
OneActiveLeasePerProject ==
    \A r \in RunIds : Active(r) => \A q \in Siblings(r) : ~Active(q)

\* What a project's other runs must stay away from: a run at work, or one that
\* is parked on a question (the parked conversation still owns the project).
OwnsProject(r) == Active(r) \/ status[r] = "waiting_for_input"

\* RC-2 with parked runs, when lease calls are on time.
OneOwnerPerProject ==
    \A r \in RunIds : OwnsProject(r) => \A q \in Siblings(r) : ~OwnsProject(q)

\* The per-tenant quota, when lease calls are on time.
TenantWithinQuota ==
    \A t \in Tenants : Cardinality(ActiveInTenant(t)) <= MaxConcurrent[t]

\* The refinement: a run whose lease has lapsed is one that waits for its turn,
\* so the recovery scan and the renewals are invisible.
PhaseOf(r) ==
    CASE Active(r) -> "active"
      [] status[r] = "waiting_for_input" -> "parked"
      [] Terminal(r) -> "ended"
      [] status[r] = "absent" -> "absent"
      [] OTHER -> "ready"

TurnOf(p) ==
    IF \E r \in RunIds : OwnsProject(r) /\ Project(r) = p
    THEN CHOOSE r \in RunIds : OwnsProject(r) /\ Project(r) = p
    ELSE 0

Turns == INSTANCE ProjectTurns WITH
    Runs <- RunIds,
    NoRun <- 0,
    NoProject <- NoSession,
    phase <- [r \in RunIds |-> PhaseOf(r)],
    project <- [r \in RunIds |-> IF Exists(r) THEN Project(r) ELSE NoSession],
    turn <- [p \in Projects |-> TurnOf(p)]

\* With lease calls on time, the coordinator's runs take turns as ProjectTurns
\* says: no claim, renewal, answer or scan lets a run barge in.
TakesTurns == Turns!Spec

\* RC-4: every accepted run ends or parks, through crashes, lost leases and
\* takeovers, unless a sibling's unanswered question keeps the project.
EveryRunSettles ==
    \A r \in RunIds :
        Exists(r) ~> \/ Terminal(r)
                     \/ status[r] = "waiting_for_input"
                     \/ \E q \in Siblings(r) : status[q] = "waiting_for_input"
=============================================================================
