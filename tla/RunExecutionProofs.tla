------------------------- MODULE RunExecutionProofs -------------------------
(* Proofs about RunExecution: it uses the run rows as RunCoordinator says,  *)
(* and its own invariants, for any number of workers, devices and runs.     *)
EXTENDS RunExecution, TLAPS

LEMMA SameRuns == RC!RunIds = RunIds
BY DEF RC!RunIds, RunIds

\* The rows, as far as the workers' state depends on them: their types, that a
\* run that can be claimed again has a generation left, and that no worker is
\* named by a cancelled run.
RowTypes ==
    /\ status \in [RunIds -> RC!Statuses \cup {"absent"}]
    /\ holder \in [RunIds -> Workers \cup {NoWorker}]
    /\ gen \in [RunIds -> Nat]
    /\ expiry \in [RunIds -> {"none", "live", "expired"}]
    /\ held \in [Workers -> RC!Leases]

Tokens == \A w \in Workers : held[w] # RC!NoLease => held[w].run \in RunIds /\ held[w].gen \in 1 .. MaxGen

Returnable ==
    \A r \in RunIds :
        \/ status[r] \in {"absent", "queued", "recovering", "waiting_for_input"}
        \/ status[r] = "running" /\ expiry[r] = "expired"
        => gen[r] < MaxGen

NobodyHolds == \A r \in RunIds : status[r] = "cancelled" => holder[r] = NoWorker

RowInv == RowTypes /\ Tokens /\ Returnable /\ NobodyHolds

\* No worker but those of S gains or changes anything.
Untouched(S) ==
    \A v \in Workers \ S : held'[v] = held[v] /\ (RC!Current(v)' => RC!Current(v))

\* What a step of the rows keeps, given what it changes.
LEMMA RowInvInit == RC!Init => RowInv
BY ExecutionAssumption, SameRuns DEF RC!Init, RowInv, RowTypes, Tokens, Returnable, NobodyHolds,
    RC!Statuses, RC!Leases, RC!NoLease, RunIds, RC!Final

LEMMA ClaimStep ==
    ASSUME RowInv, NEW w \in Workers, RC!Claim(w)
    PROVE  /\ RowInv' /\ Untouched({w})
           /\ held[w] = RC!NoLease /\ held'[w] # RC!NoLease
           /\ held'[w].run \in RunIds /\ held'[w].gen \in 1 .. MaxGen
           /\ \A r \in RunIds : status'[r] # status[r] => status'[r] = "running"
<1>t. RowTypes /\ Tokens /\ Returnable /\ NobodyHolds
  BY DEF RowInv
<1>1. PICK r \in RunIds :
        /\ status[r] \in {"queued", "recovering"}
        /\ status' = [status EXCEPT ![r] = "running"]
        /\ holder' = [holder EXCEPT ![r] = w]
        /\ gen' = [gen EXCEPT ![r] = gen[r] + 1]
        /\ expiry' = [expiry EXCEPT ![r] = "live"]
        /\ held' = [held EXCEPT ![w] = [run |-> r, gen |-> gen[r] + 1, claim |-> "committed"]]
  BY SameRuns DEF RC!Claim, RC!Claimable
<1>2. gen[r] < MaxGen /\ gen[r] \in Nat /\ gen[r] + 1 \in 1 .. MaxGen
  BY <1>t, <1>1, ExecutionAssumption DEF Returnable, RowTypes
<1>3. /\ held'[w] = [run |-> r, gen |-> gen[r] + 1, claim |-> "committed"]
      /\ \A v \in Workers \ {w} : held'[v] = held[v]
      /\ held[w] = RC!NoLease
  BY <1>t, <1>1 DEF RowTypes, RC!Claim
<1>4. /\ \A q \in RunIds : status'[q] = IF q = r THEN "running" ELSE status[q]
      /\ \A q \in RunIds : holder'[q] = IF q = r THEN w ELSE holder[q]
      /\ \A q \in RunIds : gen'[q] = IF q = r THEN gen[r] + 1 ELSE gen[q]
      /\ \A q \in RunIds : expiry'[q] = IF q = r THEN "live" ELSE expiry[q]
  BY <1>t, <1>1 DEF RowTypes
<1>5. RowTypes'
  BY <1>t, <1>1, <1>2, SameRuns DEF RowTypes, RC!Leases, RC!Statuses, RunIds
<1>6. Tokens'
  BY <1>t, <1>2, <1>3 DEF Tokens
<1>7. Returnable'
  BY <1>t, <1>4 DEF Returnable
<1>8. NobodyHolds'
  BY <1>t, <1>4 DEF NobodyHolds
<1>9. Untouched({w})
  <2> SUFFICES ASSUME NEW v \in Workers \ {w}, RC!Current(v)' PROVE RC!Current(v)
    BY <1>3 DEF Untouched
  <2>1. held'[v] = held[v] /\ held[v] # RC!NoLease /\ held[v].run \in RunIds
    BY <1>t, <1>3 DEF RC!Current, Tokens
  <2>2. holder'[held[v].run] = v /\ gen'[held[v].run] = held[v].gen
    BY <2>1 DEF RC!Current
  <2> QED BY <1>4, <2>1, <2>2 DEF RC!Current
<1>10. held'[w] # RC!NoLease
  BY <1>3, <1>2 DEF RC!NoLease
<1> QED BY <1>2, <1>3, <1>4, <1>5, <1>6, <1>7, <1>8, <1>9, <1>10 DEF RowInv

\* A claim that is not committed changes a token and no row.
LEMMA ClaimFailsStep ==
    ASSUME RowInv, NEW w \in Workers, RC!ClaimFails(w)
    PROVE  /\ RowInv' /\ Untouched({w})
           /\ held'[w] # RC!NoLease /\ held'[w].run \in RunIds
           /\ status' = status /\ gen' = gen
<1>t. RowTypes /\ Tokens /\ Returnable /\ NobodyHolds
  BY DEF RowInv
<1>1. PICK r \in RunIds :
        /\ status[r] \in {"queued", "recovering"}
        /\ held' = [held EXCEPT ![w] = [run |-> r, gen |-> gen[r] + 1, claim |-> "failed"]]
  BY SameRuns DEF RC!ClaimFails, RC!Claimable
<1>2. UNCHANGED <<status, holder, gen, expiry>>
  BY DEF RC!ClaimFails, RC!rowVars
<1>3. gen[r] + 1 \in 1 .. MaxGen
  BY <1>t, <1>1, ExecutionAssumption DEF Returnable, RowTypes
<1>4. /\ held'[w] = [run |-> r, gen |-> gen[r] + 1, claim |-> "failed"]
      /\ \A v \in Workers \ {w} : held'[v] = held[v]
  BY <1>t, <1>1 DEF RowTypes
<1>5. RowTypes'
  <2>1. held'[w] \in RC!Leases
    BY <1>3, <1>4 DEF RC!Leases, RunIds
  <2> QED BY <1>t, <1>1, <1>2, <1>4, <2>1 DEF RowTypes
<1>6. Tokens'
  BY <1>t, <1>3, <1>4 DEF Tokens
<1>7. Returnable' /\ NobodyHolds'
  BY <1>t, <1>2 DEF Returnable, NobodyHolds
<1>8. Untouched({w})
  BY <1>2, <1>4 DEF Untouched, RC!Current
<1>9. held'[w] # RC!NoLease
  BY <1>4 DEF RC!NoLease
<1> QED BY <1>2, <1>4, <1>5, <1>6, <1>7, <1>8, <1>9 DEF RowInv

\* The worker's transition gives the lease back.
LEMMA ReleaseStep ==
    ASSUME RowInv, NEW w \in Workers, NEW st, RC!ReleaseAs(w, st),
           st \in {"completed", "failed", "recovering", "waiting_for_input"},
           st \in {"recovering", "waiting_for_input"} => RC!MayReturn(held[w].run)
    PROVE  /\ RowInv' /\ Untouched({w}) /\ held'[w] = RC!NoLease
           /\ held[w].run \in RunIds /\ RC!Current(w) /\ gen' = gen
           /\ \A r \in RunIds : status'[r] = IF r = held[w].run THEN st ELSE status[r]
<1>t. RowTypes /\ Tokens /\ Returnable /\ NobodyHolds
  BY DEF RowInv
<1> DEFINE r == held[w].run
<1>1. r \in RunIds /\ RC!Current(w) /\ status[r] = "running" /\ holder[r] = w
  BY <1>t DEF RC!ReleaseAs, RC!Holds, RC!Current, Tokens
<1>2. /\ status' = [status EXCEPT ![r] = st] /\ expiry' = [expiry EXCEPT ![r] = "none"]
      /\ held' = [held EXCEPT ![w] = RC!NoLease] /\ UNCHANGED <<holder, gen>>
  BY DEF RC!ReleaseAs
<1>3. st \in {"recovering", "waiting_for_input"} => gen[r] < MaxGen
  BY DEF RC!MayReturn
<1> HIDE DEF r
<1>4. /\ held'[w] = RC!NoLease /\ \A v \in Workers \ {w} : held'[v] = held[v]
      /\ \A q \in RunIds : status'[q] = IF q = r THEN st ELSE status[q]
      /\ \A q \in RunIds : expiry'[q] = IF q = r THEN "none" ELSE expiry[q]
  BY <1>t, <1>1, <1>2 DEF RowTypes
<1>5. RowTypes'
  BY <1>t, <1>1, <1>2, ExecutionAssumption DEF RowTypes, RC!Leases, RC!NoLease, RC!Statuses, RC!Final, RunIds
<1>6. Tokens'
  BY <1>t, <1>4 DEF Tokens
<1>7. Returnable'
  BY <1>t, <1>2, <1>3, <1>4 DEF Returnable
<1>8. NobodyHolds'
  BY <1>t, <1>2, <1>4 DEF NobodyHolds
<1>9. Untouched({w})
  BY <1>2, <1>4 DEF Untouched, RC!Current
<1> QED BY <1>1, <1>2, <1>4, <1>5, <1>6, <1>7, <1>8, <1>9 DEF RowInv, r

\* A token is dropped.
LEMMA DropStep ==
    ASSUME RowInv, NEW w \in Workers, RC!StandDown(w) \/ RC!GiveUp(w)
    PROVE  RowInv' /\ Untouched({w}) /\ held'[w] = RC!NoLease /\ status' = status /\ gen' = gen
<1>t. RowTypes /\ Tokens /\ Returnable /\ NobodyHolds
  BY DEF RowInv
<1>1. held' = [held EXCEPT ![w] = RC!NoLease] /\ UNCHANGED <<status, holder, gen, expiry>>
  BY DEF RC!StandDown, RC!GiveUp, RC!rowVars
<1>2. held'[w] = RC!NoLease /\ \A v \in Workers \ {w} : held'[v] = held[v]
  BY <1>t, <1>1 DEF RowTypes
<1>3. RowTypes'
  BY <1>t, <1>1, ExecutionAssumption DEF RowTypes, RC!Leases, RC!NoLease
<1>4. Tokens' /\ Returnable' /\ NobodyHolds'
  BY <1>t, <1>1, <1>2 DEF Tokens, Returnable, NobodyHolds
<1>5. Untouched({w})
  BY <1>1, <1>2 DEF Untouched, RC!Current
<1> QED BY <1>1, <1>2, <1>3, <1>4, <1>5 DEF RowInv

\* Steps of the rows alone: no token changes hands.
LEMMA RowStep ==
    ASSUME RowInv,
           \/ \E s \in Sessions, k \in Keys : RC!RequestRun(s, k)
           \/ \E r \in RunIds : RC!Resume(r) \/ RC!Cancel(r) \/ RC!Expire(r)
           \/ \E w \in Workers : RC!Renew(w)
           \/ RC!RecoverOrphans
    PROVE  /\ RowInv' /\ Untouched({})
           /\ \A r \in RunIds :
                /\ status'[r] \in {"waiting_for_input", "completed"} => status'[r] = status[r]
                /\ status'[r] = "waiting_for_input" => gen'[r] = gen[r]
<1>t. RowTypes /\ Tokens /\ Returnable /\ NobodyHolds
  BY DEF RowInv
<1>u. status \in [RunIds -> RC!Statuses \cup {"absent"}] /\ gen \in [RunIds -> Nat]
  BY <1>t DEF RowTypes
\* Rows that keep holder and generation.
<1>0. ASSUME UNCHANGED <<held, holder, gen>> PROVE Tokens' /\ Untouched({})
  BY <1>0, <1>t DEF Tokens, Untouched, RC!Current
<1>1. ASSUME NEW s \in Sessions, NEW k \in Keys, RC!RequestRun(s, k) PROVE RowInv' /\ Untouched({})
           /\ \A r \in RunIds : status'[r] # status[r] => status'[r] = "queued"
  <2>1. PICK r \in RunIds : status[r] = "absent" /\ status' = [status EXCEPT ![r] = "queued"]
    BY <1>1, SameRuns DEF RC!RequestRun, RC!Exists
  <2>2. UNCHANGED <<held, holder, gen, expiry>>
    BY <1>1 DEF RC!RequestRun
  <2>3. \A q \in RunIds : status'[q] = IF q = r THEN "queued" ELSE status[q]
    BY <1>u, <2>1
  <2>4. RowTypes'
    BY <1>t, <2>1, <2>2 DEF RowTypes, RC!Statuses
  <2>5. Returnable' /\ NobodyHolds'
    BY <1>t, <2>1, <2>2, <2>3 DEF Returnable, NobodyHolds
  <2> QED BY <1>0, <2>2, <2>3, <2>4, <2>5 DEF RowInv
<1>2. ASSUME NEW r \in RunIds, RC!Resume(r) PROVE RowInv' /\ Untouched({})
           /\ \A q \in RunIds : status'[q] # status[q] => status'[q] = "queued"
  <2>1. /\ status[r] = "waiting_for_input" /\ status' = [status EXCEPT ![r] = "queued"]
        /\ UNCHANGED <<held, holder, gen, expiry>>
    BY <1>2 DEF RC!Resume
  <2>2. \A q \in RunIds : status'[q] = IF q = r THEN "queued" ELSE status[q]
    BY <1>u, <2>1
  <2>3. RowTypes'
    BY <1>t, <2>1 DEF RowTypes, RC!Statuses
  <2>4. Returnable' /\ NobodyHolds'
    BY <1>t, <2>1, <2>2 DEF Returnable, NobodyHolds
  <2> QED BY <1>0, <2>1, <2>2, <2>3, <2>4 DEF RowInv
<1>3. ASSUME NEW r \in RunIds, RC!Cancel(r) PROVE RowInv' /\ Untouched({})
           /\ \A q \in RunIds : (q # r => status'[q] = status[q] /\ gen'[q] = gen[q])
                                /\ (q = r => status'[q] = "cancelled")
  <2>1. /\ status' = [status EXCEPT ![r] = "cancelled"] /\ gen' = [gen EXCEPT ![r] = gen[r] + 1]
        /\ holder' = [holder EXCEPT ![r] = NoWorker] /\ expiry' = [expiry EXCEPT ![r] = "none"]
        /\ UNCHANGED held
    BY <1>3 DEF RC!Cancel
  <2>2. /\ \A q \in RunIds : status'[q] = IF q = r THEN "cancelled" ELSE status[q]
        /\ \A q \in RunIds : gen'[q] = IF q = r THEN gen[r] + 1 ELSE gen[q]
        /\ \A q \in RunIds : holder'[q] = IF q = r THEN NoWorker ELSE holder[q]
        /\ \A q \in RunIds : expiry'[q] = IF q = r THEN "none" ELSE expiry[q]
    BY <1>t, <2>1 DEF RowTypes
  <2>3. RowTypes'
    BY <1>t, <2>1 DEF RowTypes, RC!Statuses, RC!Final
  <2>4. Tokens' /\ Returnable' /\ NobodyHolds'
    BY <1>t, <2>1, <2>2 DEF Tokens, Returnable, NobodyHolds
  <2>5. Untouched({})
    <3> SUFFICES ASSUME NEW v \in Workers, RC!Current(v)' PROVE RC!Current(v)
      BY <2>1 DEF Untouched
    <3>1. held[v] # RC!NoLease /\ held[v].run \in RunIds
      BY <1>t, <2>1 DEF RC!Current, Tokens
    <3>2. holder'[held[v].run] = v /\ gen'[held[v].run] = held[v].gen
      BY <2>1 DEF RC!Current
    <3> QED BY <2>2, <3>1, <3>2, ExecutionAssumption DEF RC!Current
  <2> QED BY <2>2, <2>3, <2>4, <2>5 DEF RowInv
<1>4. ASSUME NEW r \in RunIds, RC!Expire(r) PROVE RowInv' /\ Untouched({}) /\ UNCHANGED <<status, gen>>
  <2>1. /\ expiry' = [expiry EXCEPT ![r] = "expired"] /\ gen[r] < MaxGen
        /\ UNCHANGED <<held, holder, gen, status>>
    BY <1>4 DEF RC!Expire, RC!MayReturn
  <2>2. \A q \in RunIds : expiry'[q] = IF q = r THEN "expired" ELSE expiry[q]
    BY <1>t, <2>1 DEF RowTypes
  <2>3. RowTypes'
    BY <1>t, <2>1 DEF RowTypes
  <2>4. Returnable' /\ NobodyHolds'
    BY <1>t, <2>1, <2>2 DEF Returnable, NobodyHolds
  <2> QED BY <1>0, <2>1, <2>3, <2>4 DEF RowInv
<1>5. ASSUME NEW w \in Workers, RC!Renew(w) PROVE RowInv' /\ Untouched({}) /\ UNCHANGED <<status, gen>>
  <2>1. expiry' = [expiry EXCEPT ![held[w].run] = "live"] /\ UNCHANGED <<held, holder, gen, status>>
    BY <1>5 DEF RC!Renew
  <2>2. held[w].run \in RunIds
    BY <1>5, <1>t DEF RC!Renew, RC!Holds, RC!Current, Tokens
  <2>3. \A q \in RunIds : expiry'[q] \in {"live", expiry[q]}
    BY <1>t, <2>1, <2>2 DEF RowTypes
  <2>4. RowTypes'
    BY <1>t, <2>1, <2>2 DEF RowTypes
  <2>5. Returnable' /\ NobodyHolds'
    BY <1>t, <2>1, <2>3 DEF Returnable, NobodyHolds
  <2> QED BY <1>0, <2>1, <2>4, <2>5 DEF RowInv
<1>6. ASSUME RC!RecoverOrphans PROVE RowInv' /\ Untouched({}) /\ UNCHANGED gen
           /\ \A q \in RunIds : status'[q] # status[q] => status'[q] = "recovering"
  <2>1. /\ status' = [r \in RunIds |-> IF RC!Lapsed(r) THEN "recovering" ELSE status[r]]
        /\ UNCHANGED <<held, holder, gen, expiry>>
    BY <1>6, SameRuns DEF RC!RecoverOrphans
  <2>2. \A q \in RunIds : status'[q] = IF status[q] = "running" /\ expiry[q] = "expired"
                                       THEN "recovering" ELSE status[q]
    BY <2>1 DEF RC!Lapsed
  <2>3. RowTypes'
    BY <1>t, <2>1 DEF RowTypes, RC!Statuses
  <2>4. Returnable' /\ NobodyHolds'
    BY <1>t, <2>1, <2>2 DEF Returnable, NobodyHolds
  <2> QED BY <1>0, <2>1, <2>2, <2>3, <2>4 DEF RowInv
<1>7. ASSUME NEW r \in RunIds, RC!Resume(r) PROVE UNCHANGED gen
  BY <1>7 DEF RC!Resume
<1>8. ASSUME NEW s \in Sessions, NEW k \in Keys, RC!RequestRun(s, k) PROVE UNCHANGED gen
  BY <1>8 DEF RC!RequestRun
<1> QED BY <1>1, <1>2, <1>3, <1>4, <1>5, <1>6, <1>7, <1>8

LEMMA NothingStep ==
    ASSUME RowInv, UNCHANGED <<rowVars, held>>
    PROVE  RowInv' /\ Untouched({})
BY DEF RowInv, RowTypes, Tokens, Returnable, NobodyHolds, Untouched, RC!Current, rowVars

LEMMA RestartStep ==
    ASSUME RowInv, held' = [w \in Workers |-> RC!NoLease], UNCHANGED rowVars
    PROVE  RowInv' /\ \A w \in Workers : held'[w] = RC!NoLease
BY ExecutionAssumption DEF RowInv, RowTypes, Tokens, Returnable, NobodyHolds, rowVars, RC!Leases, RC!NoLease

-----------------------------------------------------------------------------
\* The types of the workers' memory and of everything else.
Mems == [pc : Executing \cup Ending \cup {"idle", "telling"}, run : 0 .. MaxRuns,
         repairs : 0 .. MaxRepairs, calls : Calls \cup {None}]

\* The log but for `late`, which has an invariant of its own below.
readVars == <<convVars, repaired, closed>>

LogTypes ==
    /\ request \in [Devices -> [step : {"none", "submit", "answer", "resume"},
                                run : 0 .. MaxRuns, question : Calls \cup {None}]]
    /\ \A d \in Devices : request[d].step \in {"answer", "resume"} => request[d].run \in RunIds
    /\ stopping \in BOOLEAN
    /\ calls \in Calls \cup {None}
    /\ question \in {c \in Calls : c.kind = "ask"} \cup {None}
    /\ stray \subseteq RunIds

Counts ==
    /\ asked \in [RunIds -> 0 .. MaxGen]
    /\ repaired \in [RunIds -> Nat]
    /\ closed \in [RunIds -> Nat]

\* What a worker knows of its run while it still holds it: the repairs the log
\* counts, and its question once it is about to park.
Fine(w) ==
    /\ mem[w].pc \in {"idle", "telling"} => held[w] = RC!NoLease
    /\ mem[w].pc # "idle" => mem[w].run \in RunIds
    /\ mem[w].pc \in Executing \cup Ending => held[w].run = mem[w].run
    /\ mem[w].pc \in {"saved", "asking"} => mem[w].calls.kind = "ask"
    /\ mem[w].pc \in Executing \ {"reading"} /\ RC!Current(w) => mem[w].repairs = repaired[mem[w].run]
    /\ mem[w].pc = "parking" /\ RC!Current(w) => asked[mem[w].run] = held[w].gen
    /\ mem[w].pc = "closed" => closed[mem[w].run] > 0

Logged == RepairBudget /\ ParkedHasQuestion /\ CompletedIsTold

\* The inductive invariant.
Inv ==
    /\ RowInv /\ mem \in [Workers -> Mems] /\ LogTypes /\ Counts
    /\ \A w \in Workers : Fine(w)
    /\ Logged

\* What w writes under its lease is about its own run.
Writes(w) ==
    \A r \in RunIds :
        repaired'[r] # repaired[r] \/ closed'[r] # closed[r] \/ asked'[r] # asked[r]
        => RC!Current(w) /\ r = mem[w].run

LEMMA InvInit == Init => Inv
<1> SUFFICES ASSUME Init PROVE Inv
  OBVIOUS
<1>1. RowInv
  BY RowInvInit DEF Init
<1>2. None \in Calls \cup {None} /\ 0 \in 0 .. MaxRuns /\ 0 \in 0 .. MaxRepairs
  BY ExecutionAssumption
<1>3. mem \in [Workers -> Mems]
  BY <1>2 DEF Init, Idle, Mems
<1>4. LogTypes
  BY <1>2 DEF Init, LogTypes, NoRequest
<1>5. Counts
  BY ExecutionAssumption DEF Init, Counts
<1>6. \A w \in Workers : Fine(w)
  BY DEF Init, RC!Init, Fine, Idle, Executing, Ending
<1>7. Logged
  BY ExecutionAssumption, SameRuns
     DEF Init, RC!Init, Logged, RepairBudget, ParkedHasQuestion, CompletedIsTold
<1> QED BY <1>1, <1>3, <1>4, <1>5, <1>6, <1>7 DEF Inv

\* Two workers that pass the fence of one run are one.
LEMMA OneHolder ==
    ASSUME NEW v \in Workers, NEW w \in Workers, RC!Current(v), RC!Current(w), held[v].run = held[w].run
    PROVE  v = w
BY DEF RC!Current

\* Workers whose memory does not change stay fine.
LEMMA OthersFine ==
    ASSUME Inv, NEW S \in SUBSET Workers, Untouched(S),
           \A v \in Workers \ S : mem'[v] = mem[v],
           \A v \in Workers \ S : mem[v].pc \in Executing \cup Ending /\ RC!Current(v) =>
               repaired'[mem[v].run] = repaired[mem[v].run] /\ asked'[mem[v].run] = asked[mem[v].run],
           \A r \in RunIds : closed[r] > 0 => closed'[r] > 0
    PROVE  \A v \in Workers \ S : Fine(v)'
<1> SUFFICES ASSUME NEW v \in Workers \ S PROVE Fine(v)'
  OBVIOUS
<1>1. Fine(v)
  BY DEF Inv
<1>2. mem'[v] = mem[v] /\ held'[v] = held[v] /\ (RC!Current(v)' => RC!Current(v))
  BY DEF Untouched
<1>3. mem[v].pc # "idle" => mem[v].run \in RunIds
  BY <1>1 DEF Fine
<1>4. Executing \ {"reading"} \subseteq Executing /\ "parking" \in Ending
  BY DEF Ending
<1> QED BY <1>1, <1>2, <1>3, <1>4 DEF Fine

\* A step of a worker that leaves the rows alone.
LEMMA WorkerStep ==
    ASSUME Inv, NEW w \in Workers, UNCHANGED coordVars, NEW m \in Mems,
           mem' = [mem EXCEPT ![w] = m], m.run = mem[w].run,
           m.pc \in Executing \cup Ending, mem[w].pc \in Executing \cup Ending,
           LogTypes', Counts', Writes(w),
           \A r \in RunIds : repaired'[r] <= MaxRepairs /\ closed'[r] >= closed[r],
           \A r \in RunIds : asked'[r] # asked[r] => asked'[r] = held[w].gen,
           m.pc \in {"saved", "asking"} => m.calls.kind = "ask",
           m.pc \in Executing \ {"reading"} /\ RC!Current(w) => m.repairs = repaired'[m.run],
           m.pc = "parking" /\ RC!Current(w) => asked'[m.run] = held[w].gen,
           m.pc = "closed" => closed'[m.run] > 0
    PROVE  Inv'
<1>1. RowInv' /\ Untouched({}) /\ Untouched({w})
  BY NothingStep DEF Inv, coordVars, rowVars, Untouched
<1>2. mem'[w] = m /\ mem' \in [Workers -> Mems] /\ \A v \in Workers \ {w} : mem'[v] = mem[v]
  BY DEF Inv
<1>3. Fine(w)
  BY DEF Inv
<1>4. held' = held /\ status' = status /\ gen' = gen /\ holder' = holder
  BY DEF coordVars, rowVars
<1>5. RC!Current(w)' => RC!Current(w)
  BY <1>4 DEF RC!Current
<1>p. m.pc \notin {"idle", "telling"} /\ mem[w].pc \notin {"idle", "telling"}
  BY DEF Executing, Ending
<1>6. Fine(w)'
  BY <1>p, <1>2, <1>3, <1>4, <1>5 DEF Fine
<1>7. ASSUME NEW v \in Workers \ {w}, mem[v].pc \in Executing \cup Ending, RC!Current(v)
      PROVE  repaired'[mem[v].run] = repaired[mem[v].run] /\ asked'[mem[v].run] = asked[mem[v].run]
  <2>1. Fine(v)
    BY DEF Inv
  <2>2. mem[v].run \in RunIds /\ held[v].run = mem[v].run /\ held[w].run = mem[w].run
    BY <1>3, <1>7, <2>1 DEF Fine, Executing, Ending
  <2>3. ~(RC!Current(w) /\ mem[v].run = mem[w].run)
    BY <1>7, <2>2, OneHolder
  <2> QED BY <2>2, <2>3 DEF Writes
<1>8. \A r \in RunIds : closed[r] > 0 => closed'[r] > 0
  BY DEF Inv, Counts
<1>9. \A v \in Workers \ {w} : Fine(v)'
  BY <1>1, <1>2, <1>7, <1>8, OthersFine
<1>10. ASSUME NEW r \in RunIds, status[r] = "waiting_for_input" PROVE asked'[r] = gen[r]
  <2>1. asked[r] = gen[r]
    BY <1>10 DEF Inv, Logged, ParkedHasQuestion
  <2>2. CASE asked'[r] # asked[r]
    <3>1. RC!Current(w) /\ r = mem[w].run /\ asked'[r] = held[w].gen
      BY <2>2 DEF Writes
    <3>2. held[w].run = r
      BY <1>3, <3>1 DEF Fine
    <3> QED BY <3>1, <3>2 DEF RC!Current
  <2> QED BY <2>1, <2>2
<1>11. Logged'
  BY <1>4, <1>8, <1>10 DEF Inv, Logged, RepairBudget, ParkedHasQuestion, CompletedIsTold
<1> QED BY <1>1, <1>2, <1>6, <1>9, <1>11 DEF Inv

\* A worker moves on without a word to the log.
LEMMA ControlStep ==
    ASSUME Inv, NEW w \in Workers, UNCHANGED <<coordVars, request, stopping, readVars>>, NEW m \in Mems,
           mem' = [mem EXCEPT ![w] = m], m.run = mem[w].run,
           m.pc \in Executing \cup Ending, mem[w].pc \in Executing \cup Ending,
           stray' \in {stray, stray \cup {mem[w].run}},
           m.pc \in {"saved", "asking"} => m.calls.kind = "ask",
           m.pc \in Executing \ {"reading"} =>
               \/ m.repairs = repaired[m.run]
               \/ m.repairs = mem[w].repairs /\ mem[w].pc \in Executing \ {"reading"},
           m.pc \notin {"parking", "closed"}
    PROVE  Inv'
<1>0. UNCHANGED <<request, stopping, calls, question, asked, repaired, closed>>
  BY DEF readVars, convVars
<1>1. Fine(w) /\ LogTypes /\ Counts /\ RepairBudget
  BY DEF Inv, Logged
<1>2. mem[w].run \in RunIds
  BY <1>1 DEF Fine, Executing, Ending
<1>3. LogTypes'
  BY <1>0, <1>1, <1>2 DEF LogTypes
<1>4. Counts' /\ Writes(w)
  BY <1>0, <1>1 DEF Counts, Writes
<1>5. \A r \in RunIds : repaired'[r] <= MaxRepairs /\ closed'[r] >= closed[r]
  BY <1>0, <1>1 DEF Counts, RepairBudget
<1>6. m.pc \in Executing \ {"reading"} /\ RC!Current(w) => m.repairs = repaired'[m.run]
  BY <1>0, <1>1 DEF Fine
<1> QED BY <1>0, <1>3, <1>4, <1>5, <1>6, WorkerStep

\* Steps of the rows that the logs do not see.
LEMMA SilentStep ==
    ASSUME Inv, UNCHANGED <<stopping, readVars, stray>>, LogTypes', RowInv', NEW S \in SUBSET Workers,
           Untouched(S), mem' \in [Workers -> Mems],
           \A v \in Workers \ S : mem'[v] = mem[v],
           \A v \in S : Fine(v)',
           \A r \in RunIds : status'[r] = "waiting_for_input" => asked[r] = gen'[r],
           \A r \in RunIds : status'[r] = "completed" => closed[r] > 0
    PROVE  Inv'
<1>0. UNCHANGED <<stopping, calls, question, asked, repaired, closed, stray>>
  BY DEF readVars, convVars
<1>1. \A v \in Workers \ S : Fine(v)'
  BY <1>0, OthersFine
<1>2. Counts' /\ Logged'
  BY <1>0 DEF Inv, Counts, Logged, RepairBudget, ParkedHasQuestion, CompletedIsTold
<1> QED BY <1>0, <1>1, <1>2 DEF Inv

\* A worker is done with its run, but for telling of it.
LEMMA LeaveStep ==
    ASSUME Inv, NEW w \in Workers, NEW m \in Mems, mem' = [mem EXCEPT ![w] = m],
           m.pc \in {"idle", "telling"}, m.pc = "telling" => m.run \in RunIds,
           UNCHANGED <<request, stopping, readVars, stray>>,
           RowInv', Untouched({w}), held'[w] = RC!NoLease,
           \A r \in RunIds : status'[r] = "waiting_for_input" => asked[r] = gen'[r],
           \A r \in RunIds : status'[r] = "completed" => closed[r] > 0
    PROVE  Inv'
<1>1. mem'[w] = m /\ mem' \in [Workers -> Mems] /\ \A v \in Workers \ {w} : mem'[v] = mem[v]
  BY DEF Inv
<1>2. Fine(w)'
  BY <1>1 DEF Fine, Executing, Ending
<1>3. LogTypes'
  BY DEF Inv, LogTypes, readVars, convVars
<1> QED BY <1>1, <1>2, <1>3, SilentStep

LEMMA LeavingMemory ==
    ASSUME Inv, NEW w \in Workers, Leave(w) \/ (mem[w].pc # "idle" /\ Goto(w, "telling"))
    PROVE  \E m \in Mems : /\ mem' = [mem EXCEPT ![w] = m]
                           /\ m.pc \in {"idle", "telling"} /\ (m.pc = "telling" => m.run \in RunIds)
<1>1. CASE Leave(w)
  <2>1. Idle \in Mems /\ Idle.pc = "idle"
    BY ExecutionAssumption DEF Idle, Mems
  <2> QED BY <1>1, <2>1 DEF Leave
<1>2. CASE mem[w].pc # "idle" /\ Goto(w, "telling")
  <2> DEFINE m == [mem[w] EXCEPT !.pc = "telling"]
  <2>1. mem[w] \in Mems /\ mem[w].run \in RunIds
    BY <1>2 DEF Inv, Fine
  <2>2. m \in Mems /\ m.pc = "telling" /\ m.run \in RunIds
    BY <2>1 DEF Mems
  <2>3. mem' = [mem EXCEPT ![w] = m]
    BY <1>2 DEF Goto
  <2> HIDE DEF m
  <2> QED BY <2>2, <2>3
<1> QED BY <1>1, <1>2

\* A token is dropped by a worker that is done.
LEMMA LeaveDropping ==
    ASSUME Inv, NEW w \in Workers, RC!StandDown(w) \/ RC!GiveUp(w),
           Leave(w) \/ (mem[w].pc # "idle" /\ Goto(w, "telling")),
           UNCHANGED <<request, stopping, readVars, stray>>
    PROVE  Inv'
<1>1. RowInv' /\ Untouched({w}) /\ held'[w] = RC!NoLease /\ status' = status /\ gen' = gen
  BY DropStep DEF Inv
<1>2. PICK m \in Mems : /\ mem' = [mem EXCEPT ![w] = m]
                        /\ m.pc \in {"idle", "telling"} /\ (m.pc = "telling" => m.run \in RunIds)
  BY LeavingMemory
<1> QED BY <1>1, <1>2, LeaveStep DEF Inv, Logged, ParkedHasQuestion, CompletedIsTold

\* A worker's transition gives its lease back.
LEMMA LeaveReleasing ==
    ASSUME Inv, NEW w \in Workers, NEW st, RC!ReleaseAs(w, st),
           st \in {"completed", "failed", "recovering", "waiting_for_input"},
           st \in {"recovering", "waiting_for_input"} => RC!MayReturn(held[w].run),
           Leave(w) \/ (mem[w].pc # "idle" /\ Goto(w, "telling")),
           UNCHANGED <<request, stopping, readVars, stray>>,
           st = "completed" => closed[held[w].run] > 0,
           st = "waiting_for_input" => asked[held[w].run] = held[w].gen
    PROVE  Inv'
<1>0. RowInv /\ ParkedHasQuestion /\ CompletedIsTold
  BY DEF Inv, Logged
<1>1. /\ RowInv' /\ Untouched({w}) /\ held'[w] = RC!NoLease /\ gen' = gen /\ RC!Current(w)
      /\ \A r \in RunIds : status'[r] = IF r = held[w].run THEN st ELSE status[r]
  BY <1>0, ReleaseStep
<1>2. PICK m \in Mems : /\ mem' = [mem EXCEPT ![w] = m]
                        /\ m.pc \in {"idle", "telling"} /\ (m.pc = "telling" => m.run \in RunIds)
  BY LeavingMemory
<1>3. \A r \in RunIds : status'[r] = "waiting_for_input" => asked[r] = gen'[r]
  BY <1>0, <1>1 DEF ParkedHasQuestion, RC!Current
<1>4. \A r \in RunIds : status'[r] = "completed" => closed[r] > 0
  BY <1>0, <1>1 DEF CompletedIsTold
<1> QED BY <1>1, <1>2, <1>3, <1>4, LeaveStep

\* The rows move, the workers and the log do not.
LEMMA RowsOnly ==
    ASSUME Inv, RowInv', Untouched({}), UNCHANGED <<mem, stopping, readVars, stray>>, LogTypes',
           \A r \in RunIds :
                /\ status'[r] \in {"waiting_for_input", "completed"} => status'[r] = status[r]
                /\ status'[r] = "waiting_for_input" => gen'[r] = gen[r]
    PROVE  Inv'
<1>1. mem' \in [Workers -> Mems] /\ \A v \in Workers \ {} : mem'[v] = mem[v]
  BY DEF Inv
<1>2. \A r \in RunIds : status'[r] = "waiting_for_input" => asked[r] = gen'[r]
  BY DEF Inv, Logged, ParkedHasQuestion
<1>3. \A r \in RunIds : status'[r] = "completed" => closed[r] > 0
  BY DEF Inv, Logged, CompletedIsTold
<1> QED BY <1>1, <1>2, <1>3, SilentStep

\* What ReadLog makes of a worker's memory.
LEMMA RereadRecord ==
    ASSUME NEW P, NEW R, NEW Q, NEW C, NEW x \in [pc : P, run : R, repairs : Q, calls : C],
           NEW pc \in P, NEW n \in Q, NEW c \in C
    PROVE  LET m == [x EXCEPT !.pc = pc, !.repairs = n, !.calls = c]
           IN  /\ m \in [pc : P, run : R, repairs : Q, calls : C]
               /\ m.pc = pc /\ m.run = x.run /\ m.repairs = n /\ m.calls = c
OBVIOUS

\* The workers' control steps, and the appends that no code reads back.
LEMMA ControlActions ==
    ASSUME Inv, NEW w \in Workers,
           \/ ReadLog(w) \/ AppendStart(w) \/ CommitFinal(w) \/ Snapshot(w) \/ AppendProgress(w)
           \/ Fail(w) \/ AppendFailure(w)
    PROVE  Inv'
<1>0. mem[w] \in Mems /\ Fine(w) /\ Counts /\ RepairBudget /\ calls \in Calls \cup {None}
  BY DEF Inv, Logged, LogTypes
<1>1. CASE ReadLog(w)
  <2> DEFINE m == [mem[w] EXCEPT !.pc = "starting", !.repairs = repaired[mem[w].run], !.calls = calls]
  <2>1. mem' = [mem EXCEPT ![w] = m] /\ mem[w].pc = "reading"
    BY <1>1 DEF ReadLog, At, Inv
  <2>2. repaired[mem[w].run] \in 0 .. MaxRepairs
    BY <1>0, <2>1, ExecutionAssumption DEF Counts, RepairBudget, Fine
  <2>3. m \in Mems /\ m.pc = "starting" /\ m.run = mem[w].run /\ m.repairs = repaired[mem[w].run]
    <3>1. "starting" \in Executing \cup Ending \cup {"idle", "telling"}
      BY DEF Executing
    <3> QED BY <1>0, <2>2, <3>1, RereadRecord DEF Mems
  <2>4. UNCHANGED <<coordVars, request, stopping, readVars, stray>>
    BY <1>1 DEF ReadLog, readVars
  <2>5. {"starting", "reading"} \subseteq Executing
    BY DEF Executing
  <2> HIDE DEF m
  <2> QED BY <2>1, <2>3, <2>4, <2>5, ControlStep
\* Only the program counter moves.
<1>2. ASSUME NEW pc \in (Executing \cup Ending) \ {"reading", "parking", "closed"}, Goto(w, pc),
             mem[w].pc \in Executing \cup Ending,
             pc \in Executing => mem[w].pc \in Executing \ {"reading"},
             UNCHANGED <<coordVars, request, stopping, readVars>>,
             stray' \in {stray, stray \cup {mem[w].run}},
             pc \in {"saved", "asking"} => mem[w].calls.kind = "ask"
      PROVE  Inv'
  <2> DEFINE m == [mem[w] EXCEPT !.pc = pc]
  <2>1. mem' = [mem EXCEPT ![w] = m]
    BY <1>2 DEF Goto
  <2>2. m \in Mems /\ m.pc = pc /\ m.run = mem[w].run /\ m.repairs = mem[w].repairs
        /\ m.calls = mem[w].calls
    BY <1>0 DEF Mems
  <2> HIDE DEF m
  <2> QED BY <1>2, <2>1, <2>2, ControlStep
<1>3. CASE AppendStart(w)
  BY <1>2, <1>3 DEF AppendStart, At, Executing, readVars
<1>4. CASE CommitFinal(w)
  <2>1. stray' \in {stray, stray \cup {mem[w].run}}
    BY <1>4 DEF CommitFinal, CommitVersion
  <2>2. UNCHANGED <<coordVars, request, stopping, readVars>>
    BY <1>4 DEF CommitFinal, CommitVersion, logVars, readVars
  <2> QED BY <1>2, <1>4, <2>1, <2>2 DEF CommitFinal, CommitVersion, LoopEnds, Executing
<1>5. CASE Snapshot(w)
  <2>1. stray' \in {stray, stray \cup {mem[w].run}}
    BY <1>5 DEF Snapshot, CommitVersion
  <2>2. UNCHANGED <<coordVars, request, stopping, readVars>>
    BY <1>5 DEF Snapshot, CommitVersion, logVars, readVars
  <2>3. Goto(w, "saved") \/ Goto(w, "asking")
    BY <1>5 DEF Snapshot, CommitVersion
  <2> QED BY <1>2, <1>5, <2>1, <2>2, <2>3 DEF Snapshot, Asking, Looping, Executing
<1>6. CASE AppendProgress(w)
  BY <1>0, <1>2, <1>6 DEF AppendProgress, At, Executing, Fine, readVars
<1>7. CASE Fail(w)
  <2> DEFINE m == [Idle EXCEPT !.pc = "failing", !.run = mem[w].run]
  <2>0. mem[w].run \in 0 .. MaxRuns /\ 0 \in 0 .. MaxRepairs /\ None \in Calls \cup {None}
    BY <1>0, ExecutionAssumption DEF Mems
  <2>1. m \in Mems /\ m.pc = "failing" /\ m.run = mem[w].run
    BY <2>0 DEF Idle, Mems, Ending
  <2>2. mem' = [mem EXCEPT ![w] = m] /\ mem[w].pc \in Executing
    BY <1>7 DEF Fail, Return
  <2>3. UNCHANGED <<coordVars, request, stopping, readVars, stray>>
    BY <1>7 DEF Fail, logVars, readVars
  <2>4. "failing" \in Ending \ Executing
    BY DEF Ending, Executing
  <2> HIDE DEF m
  <2> QED BY <2>1, <2>2, <2>3, <2>4, ControlStep
<1>8. CASE AppendFailure(w)
  BY <1>2, <1>8 DEF AppendFailure, At, Executing, Ending, readVars
<1> QED BY <1>1, <1>3, <1>4, <1>5, <1>6, <1>7, <1>8

\* The workers' appends.  A step that sets a worker's tool calls sets the log's.
LEMMA CallsStep ==
    ASSUME Inv, NEW w \in Workers, RC!Current(w), mem[w].pc \in Looping, NEW c \in Calls \cup {None},
           NEW pc \in {"working", "committing"}, c # None => c.run = mem[w].run,
           mem' = [mem EXCEPT ![w].pc = pc, ![w].calls = c], calls' = c,
           UNCHANGED <<coordVars, request, stopping, asked, question, repaired, closed, stray>>
    PROVE  Inv'
<1> DEFINE m == [mem[w] EXCEPT !.pc = pc, !.calls = c]
<1>0. mem[w] \in Mems /\ Fine(w) /\ Counts /\ RepairBudget /\ LogTypes
  BY DEF Inv, Logged
<1>1. mem' = [mem EXCEPT ![w] = m]
  BY DEF Inv
<1>2. pc \in Executing
  BY DEF Executing
<1>3. m \in Mems /\ m.pc = pc /\ m.run = mem[w].run /\ m.repairs = mem[w].repairs
  BY <1>0, <1>2 DEF Mems
<1>4. LogTypes'
  BY <1>0 DEF LogTypes
<1>5. Counts' /\ \A r \in RunIds : repaired'[r] <= MaxRepairs /\ closed'[r] >= closed[r]
  BY <1>0 DEF Counts, RepairBudget
<1>6. mem[w].pc \in Executing \ {"reading"}
  BY DEF Looping, Executing
<1>7. m.repairs = repaired'[m.run]
  BY <1>0, <1>3, <1>6 DEF Fine
<1>8. Writes(w)
  BY DEF Writes, None, RunIds
<1>9. m.pc \in Executing \cup Ending /\ m.pc \notin {"saved", "asking", "parking", "closed"}
  BY <1>2, <1>3
<1> HIDE DEF m
<1> QED BY <1>9, <1>1, <1>3, <1>4, <1>5, <1>6, <1>7, <1>8, WorkerStep

LEMMA AppendActions ==
    ASSUME Inv, NEW w \in Workers,
           \/ RunTools(w) \/ \E kind \in {"tools", "ask", "final"} : ModelTurn(w, kind)
           \/ AppendRepair(w) \/ AppendClosing(w) \/ AppendQuestion(w)
    PROVE  Inv'
<1>0. mem[w] \in Mems /\ Fine(w) /\ Counts /\ RepairBudget /\ LogTypes /\ Tokens
  BY DEF Inv, Logged, RowInv
<1>t. mem[w].pc \in Executing =>
          mem[w].run \in RunIds /\ held[w].gen \in 1 .. MaxGen /\ held[w].run = mem[w].run
  BY <1>0 DEF Fine, Tokens, RC!NoLease, RunIds, Executing
<1>1. CASE RunTools(w)
  BY <1>1, CallsStep DEF RunTools, Passes
<1>2. ASSUME NEW kind \in {"tools", "ask", "final"}, ModelTurn(w, kind) PROVE Inv'
  <2> DEFINE c == IF kind = "final" THEN None ELSE [kind |-> kind, run |-> mem[w].run, gen |-> held[w].gen]
  <2>1. c \in Calls \cup {None} /\ (c # None => c.run = mem[w].run)
    BY <1>2, <1>t DEF ModelTurn, Looping, Executing, Calls
  <2>2. /\ calls' = c
        /\ mem' = [mem EXCEPT ![w].pc = IF kind = "final" THEN "committing" ELSE "working", ![w].calls = c]
    <3>1. mem' = [mem EXCEPT ![w].calls = c, ![w].pc = IF kind = "final" THEN "committing" ELSE "working"]
      BY <1>2 DEF ModelTurn
    <3>2. calls' = c
      BY <1>2 DEF ModelTurn
    <3> HIDE DEF c
    <3> QED BY <3>1, <3>2, <1>0 DEF Inv, Mems
  <2>3. (IF kind = "final" THEN "committing" ELSE "working") \in {"working", "committing"}
    OBVIOUS
  <2> HIDE DEF c
  <2> QED BY <1>2, <2>1, <2>2, <2>3, CallsStep DEF ModelTurn, Passes
<1>3. CASE AppendRepair(w)
  <2> DEFINE r == mem[w].run
             m == [mem[w] EXCEPT !.pc = "working", !.repairs = @ + 1]
  <2>1. /\ mem' = [mem EXCEPT ![w] = m] /\ mem[w].pc = "committing" /\ RC!Current(w)
        /\ mem[w].repairs < MaxRepairs
        /\ repaired' = [repaired EXCEPT ![r] = @ + 1]
        /\ UNCHANGED <<coordVars, request, stopping, calls, asked, question, closed, stray>>
    BY <1>3 DEF AppendRepair, Passes, At, Inv, convVars
  <2>2. r \in RunIds /\ mem[w].repairs = repaired[r] /\ repaired[r] < MaxRepairs
    BY <1>0, <1>t, <2>1 DEF Fine, Executing
  <2>3. mem[w].repairs + 1 \in 0 .. MaxRepairs
    BY <1>0, <2>2, ExecutionAssumption DEF Mems
  <2>4. m \in Mems /\ m.pc = "working" /\ m.run = r /\ m.repairs = repaired[r] + 1
    BY <1>0, <2>2, <2>3 DEF Mems, Executing
  <2>5. /\ repaired'[r] = repaired[r] + 1 /\ repaired' \in [RunIds -> Nat]
        /\ \A q \in RunIds : q # r => repaired'[q] = repaired[q]
    BY <1>0, <2>1, <2>2 DEF Counts
  <2>6. LogTypes'
    BY <1>0, <2>1 DEF LogTypes
  <2>7. Counts'
    BY <1>0, <2>1, <2>5 DEF Counts
  <2>8. \A q \in RunIds : repaired'[q] <= MaxRepairs /\ closed'[q] >= closed[q]
    BY <1>0, <2>1, <2>2, <2>5, ExecutionAssumption DEF Counts, RepairBudget
  <2>9. Writes(w)
    BY <2>1, <2>5 DEF Writes
  <2>10. {"working", "committing"} \subseteq Executing
    BY DEF Executing
  <2> HIDE DEF m
  <2> QED BY <2>1, <2>4, <2>5, <2>6, <2>7, <2>8, <2>9, <2>10, WorkerStep
<1>4. CASE AppendClosing(w)
  <2> DEFINE r == mem[w].run
             m == [Idle EXCEPT !.pc = "closed", !.run = r]
  <2>1. /\ mem' = [mem EXCEPT ![w] = m] /\ mem[w].pc = "closing" /\ RC!Current(w)
        /\ closed' = [closed EXCEPT ![r] = @ + 1]
        /\ UNCHANGED <<coordVars, request, stopping, calls, asked, question, repaired, stray>>
    BY <1>4 DEF AppendClosing, Passes, At, convVars, Return
  <2>2. r \in RunIds /\ mem[w].repairs = repaired[r]
    BY <1>0, <1>t, <2>1 DEF Fine, Executing
  <2>m. r \in 0 .. MaxRuns /\ 0 \in 0 .. MaxRepairs /\ None \in Calls \cup {None}
    BY <1>0, ExecutionAssumption DEF Mems
  <2>3. m \in Mems /\ m.pc = "closed" /\ m.run = r
    BY <2>m DEF Mems, Idle, Ending
  <2>4. /\ closed'[r] = closed[r] + 1 /\ closed' \in [RunIds -> Nat]
        /\ \A q \in RunIds : q # r => closed'[q] = closed[q]
    BY <1>0, <2>1, <2>2 DEF Counts
  <2>5. LogTypes'
    BY <1>0, <2>1 DEF LogTypes
  <2>6. Counts'
    BY <1>0, <2>1, <2>4 DEF Counts
  <2>7. \A q \in RunIds : repaired'[q] <= MaxRepairs /\ closed'[q] >= closed[q]
    BY <1>0, <2>1, <2>2, <2>4 DEF Counts, RepairBudget
  <2>8. closed'[r] > 0
    BY <1>0, <2>2, <2>4 DEF Counts
  <2>9. Writes(w)
    BY <2>1, <2>4 DEF Writes
  <2>p. m.pc \in Ending \ Executing /\ mem[w].pc \in Executing
    BY <2>1, <2>3 DEF Executing, Ending
  <2> HIDE DEF m
  <2> QED BY <2>p, <2>1, <2>2, <2>3, <2>5, <2>6, <2>7, <2>8, <2>9, WorkerStep
<1>5. CASE AppendQuestion(w)
  <2> DEFINE r == mem[w].run
             m == [Idle EXCEPT !.pc = "parking", !.run = r]
  <2>1. /\ mem' = [mem EXCEPT ![w] = m] /\ mem[w].pc = "asking" /\ RC!Current(w)
        /\ asked' = [asked EXCEPT ![r] = held[w].gen] /\ question' = mem[w].calls
        /\ UNCHANGED <<coordVars, request, stopping, calls, closed, repaired, stray>>
    BY <1>5 DEF AppendQuestion, Passes, At, Return
  <2>2. r \in RunIds /\ mem[w].repairs = repaired[r] /\ mem[w].calls.kind = "ask" /\ held[w].gen \in 1 .. MaxGen
    BY <1>0, <1>t, <2>1 DEF Fine, Executing
  <2>m. r \in 0 .. MaxRuns /\ 0 \in 0 .. MaxRepairs /\ None \in Calls \cup {None}
    BY <1>0, ExecutionAssumption DEF Mems
  <2>3. m \in Mems /\ m.pc = "parking" /\ m.run = r
    BY <2>m DEF Mems, Idle, Ending
  <2>4. /\ asked'[r] = held[w].gen /\ asked' \in [RunIds -> 0 .. MaxGen]
        /\ \A q \in RunIds : q # r => asked'[q] = asked[q]
    BY <1>0, <2>1, <2>2 DEF Counts
  <2>5. mem[w].calls \in {c \in Calls : c.kind = "ask"} \cup {None}
    BY <1>0, <2>2 DEF Mems, None
  <2>6. LogTypes'
    BY <1>0, <2>1, <2>5 DEF LogTypes
  <2>7. Counts'
    BY <1>0, <2>1, <2>4 DEF Counts
  <2>8. \A q \in RunIds : repaired'[q] <= MaxRepairs /\ closed'[q] >= closed[q]
    BY <1>0, <2>1 DEF Counts, RepairBudget
  <2>9. Writes(w)
    BY <2>1, <2>4 DEF Writes
  <2>10. \A q \in RunIds : asked'[q] # asked[q] => asked'[q] = held[w].gen
    BY <2>4
  <2>p. m.pc \in Ending \ Executing /\ mem[w].pc \in Executing
    BY <2>1, <2>3 DEF Executing, Ending
  <2> HIDE DEF m
  <2> QED BY <2>p, <2>1, <2>2, <2>3, <2>4, <2>6, <2>7, <2>8, <2>9, <2>10, WorkerStep
<1> QED BY <1>1, <1>2, <1>3, <1>4, <1>5

\* The ends of executeRun.
LEMMA EndActions ==
    ASSUME Inv, NEW w \in Workers,
           StandDown(w) \/ Yield(w) \/ Finish(w) \/ FinishRefused(w) \/ EmitState(w)
    PROVE  Inv'
<1>0. Fine(w) /\ RowInv /\ ParkedHasQuestion /\ CompletedIsTold
  BY DEF Inv, Logged
<1>1. CASE StandDown(w)
  BY <1>1, LeaveDropping DEF StandDown, logVars, readVars
<1>2. CASE FinishRefused(w)
  <2>1. /\ RC!StandDown(w) \/ RC!GiveUp(w)
        /\ Leave(w) \/ (mem[w].pc # "idle" /\ Goto(w, "telling"))
    BY <1>2 DEF FinishRefused, At
  <2>2. UNCHANGED <<request, stopping, readVars, stray>>
    BY <1>2 DEF FinishRefused, logVars, readVars
  <2> QED BY <2>1, <2>2, LeaveDropping
<1>3. CASE Yield(w)
  <2>1. RC!ReleaseAs(w, "recovering") /\ RC!MayReturn(held[w].run) /\ Leave(w)
    BY <1>3 DEF Yield, RC!Relinquish
  <2>2. UNCHANGED <<request, stopping, readVars, stray>>
    BY <1>3 DEF Yield, logVars, readVars
  <2> QED BY <2>1, <2>2, LeaveReleasing
<1>4. ASSUME NEW pc, NEW st, Transition(w, pc, st)
      PROVE  /\ mem[w].pc = pc /\ Goto(w, "telling")
             /\ UNCHANGED <<request, stopping, readVars, stray>>
             /\ IF st = "waiting_for_input" THEN RC!Await(w) ELSE RC!Complete(w, st)
  BY <1>4 DEF Transition, At, logVars, readVars
<1>5. CASE Transition(w, "closed", "completed")
  <2>1. RC!ReleaseAs(w, "completed") /\ mem[w].pc = "closed"
    BY <1>4, <1>5 DEF RC!Complete
  <2>2. closed[held[w].run] > 0
    BY <1>0, <2>1 DEF Fine, Ending
  <2> QED BY <1>4, <1>5, <2>1, <2>2, LeaveReleasing
<1>6. CASE Transition(w, "failed", "failed")
  <2>1. RC!ReleaseAs(w, "failed") /\ mem[w].pc = "failed"
    BY <1>4, <1>6 DEF RC!Complete
  <2> QED BY <1>4, <1>6, <2>1, LeaveReleasing
<1>7. CASE Transition(w, "parking", "waiting_for_input")
  <2>1. RC!ReleaseAs(w, "waiting_for_input") /\ RC!MayReturn(held[w].run) /\ mem[w].pc = "parking"
    BY <1>4, <1>7 DEF RC!Await
  <2>2. asked[held[w].run] = held[w].gen
    BY <1>0, <2>1 DEF Fine, Ending, RC!ReleaseAs, RC!Holds
  <2> QED BY <1>4, <1>7, <2>1, <2>2, LeaveReleasing
<1>8. CASE EmitState(w)
  <2>1. mem[w].pc = "telling" /\ Leave(w)
        /\ UNCHANGED <<coordVars, request, stopping, readVars, stray>>
    BY <1>8 DEF EmitState, At, readVars
  <2>2. held[w] = RC!NoLease
    BY <1>0, <2>1 DEF Fine
  <2>3. RowInv' /\ Untouched({w}) /\ held' = held /\ status' = status /\ gen' = gen
    BY <1>0, <2>1, NothingStep DEF coordVars, rowVars, Untouched
  <2>4. PICK m \in Mems : /\ mem' = [mem EXCEPT ![w] = m]
                          /\ m.pc \in {"idle", "telling"} /\ (m.pc = "telling" => m.run \in RunIds)
    BY <2>1, LeavingMemory
  <2> QED BY <1>0, <2>1, <2>2, <2>3, <2>4, LeaveStep DEF ParkedHasQuestion, CompletedIsTold
<1> QED BY <1>1, <1>2, <1>3, <1>5, <1>6, <1>7, <1>8 DEF Finish

LEMMA ClaimAction ==
    ASSUME Inv, NEW w \in Workers, Claim(w)
    PROVE  Inv'
<1> DEFINE m == [Idle EXCEPT !.pc = "reading", !.run = held'[w].run]
<1>0. RowInv /\ ParkedHasQuestion /\ CompletedIsTold /\ LogTypes
  BY DEF Inv, Logged
<1>1. /\ RowInv' /\ Untouched({w}) /\ held'[w].run \in RunIds
      /\ \A r \in RunIds : status'[r] # status[r] => status'[r] = "running"
      /\ \A r \in RunIds : gen'[r] = gen[r] \/ status'[r] = "running"
  <2>1. CASE RC!Claim(w)
    <3>1. PICK r \in RunIds : status' = [status EXCEPT ![r] = "running"] /\ gen' = [gen EXCEPT ![r] = gen[r] + 1]
      BY <2>1, SameRuns DEF RC!Claim
    <3>2. \A q \in RunIds : gen'[q] = gen[q] \/ status'[q] = "running"
      BY <1>0, <3>1 DEF RowInv, RowTypes
    <3> QED BY <1>0, <2>1, <3>2, ClaimStep
  <2>2. CASE RC!ClaimFails(w)
    BY <1>0, <2>2, ClaimFailsStep
  <2> QED BY <2>1, <2>2 DEF Claim
<1>2. mem' = [mem EXCEPT ![w] = m] /\ UNCHANGED <<request, stopping, readVars, stray>>
  BY DEF Claim, logVars, readVars
<1>3. m \in Mems /\ m.pc = "reading" /\ m.run = held'[w].run
  <2>1. "reading" \in Executing /\ None \in Calls \cup {None} /\ held'[w].run \in 0 .. MaxRuns
    BY <1>1 DEF Executing, RunIds
  <2>2. 0 \in 0 .. MaxRepairs
    BY ExecutionAssumption
  <2> QED BY <2>1, <2>2 DEF Mems, Idle
<1>4. LogTypes'
  BY <1>0, <1>2 DEF LogTypes, readVars, convVars
<1> HIDE DEF m
<1>5. mem'[w] = m /\ mem' \in [Workers -> Mems] /\ \A v \in Workers \ {w} : mem'[v] = mem[v]
  BY <1>2, <1>3 DEF Inv
<1>6. Fine(w)'
  BY <1>1, <1>3, <1>5 DEF Fine
<1> QED BY <1>0, <1>1, <1>2, <1>4, <1>5, <1>6, SilentStep DEF ParkedHasQuestion, CompletedIsTold

Requests == [step : {"none", "submit", "answer", "resume"}, run : 0 .. MaxRuns,
             question : Calls \cup {None}]

LEMMA RequestStep ==
    ASSUME LogTypes, request' = request \/ \E d \in Devices : request' = [request EXCEPT ![d] = NoRequest]
    PROVE  /\ request' \in [Devices -> [step : {"none", "submit", "answer", "resume"},
                                        run : 0 .. MaxRuns, question : Calls \cup {None}]]
           /\ \A d \in Devices : request'[d].step \in {"answer", "resume"} => request'[d].run \in RunIds
<1>1. NoRequest \in Requests /\ NoRequest.step = "none"
  BY ExecutionAssumption DEF NoRequest, Requests
<1>2. request \in [Devices -> Requests]
  BY DEF LogTypes, Requests
<1>3. request' \in [Devices -> Requests]
  BY <1>1, <1>2
<1>4. \A d \in Devices : request'[d] \in {request[d], NoRequest}
  BY <1>2
<1> QED BY <1>1, <1>3, <1>4 DEF LogTypes, Requests

\* The handlers' steps that do not touch the rows.
LEMMA HandlerActions ==
    ASSUME Inv, NEW d \in Devices, Post(d) \/ ProvideInput(d) \/ Abort(d)
    PROVE  Inv'
<1>0. LogTypes /\ RowInv
  BY DEF Inv
<1>1. UNCHANGED <<coordVars, mem, stopping, asked, question, repaired, closed, stray>>
  BY DEF Post, ProvideInput, Abort, logVars, convVars
<1>2. calls' \in {calls, None}
  BY DEF Post, ProvideInput, Abort, logVars, convVars
<1>3. /\ request' \in [Devices -> Requests]
      /\ \A e \in Devices : request'[e].step \in {"answer", "resume"} => request'[e].run \in RunIds
  <2>0. request \in [Devices -> Requests]
    BY <1>0 DEF LogTypes, Requests
  <2>1. CASE Abort(d)
    BY <1>0, <2>1, RequestStep DEF Abort, Requests
  <2>2. ASSUME NEW m \in Requests, request' = [request EXCEPT ![d] = m],
               m.step \in {"answer", "resume"} => m.run \in RunIds
        PROVE  /\ request' \in [Devices -> Requests]
               /\ \A e \in Devices : request'[e].step \in {"answer", "resume"} => request'[e].run \in RunIds
    <3>1. \A e \in Devices : request'[e] = IF e = d THEN m ELSE request[e]
      BY <2>0, <2>2
    <3> QED BY <1>0, <2>0, <2>2, <3>1 DEF LogTypes
  <2>3. CASE ProvideInput(d)
    <3> DEFINE m == [request[d] EXCEPT !.step = "resume"]
    <3>1. request' = [request EXCEPT ![d] = m] /\ request[d].step = "answer"
      BY <2>0, <2>3 DEF ProvideInput
    <3>2. m \in Requests /\ m.run = request[d].run
      BY <2>0 DEF Requests
    <3>3. m.run \in RunIds
      BY <1>0, <3>1, <3>2 DEF LogTypes
    <3> HIDE DEF m
    <3> QED BY <2>2, <3>1, <3>2, <3>3
  <2>4. ASSUME NEW r \in WaitingRuns,
               request' = [request EXCEPT ![d] = [step |-> "answer", run |-> r, question |-> question]]
        PROVE  /\ request' \in [Devices -> Requests]
               /\ \A e \in Devices : request'[e].step \in {"answer", "resume"} => request'[e].run \in RunIds
    <3> DEFINE m == [step |-> "answer", run |-> r, question |-> question]
    <3>1. r \in RunIds /\ r \in 0 .. MaxRuns /\ question \in Calls \cup {None}
      BY <1>0 DEF WaitingRuns, RunIds, LogTypes
    <3>2. m \in Requests /\ m.run \in RunIds
      BY <3>1 DEF Requests
    <3>3. request' = [request EXCEPT ![d] = m]
      BY <2>4
    <3> HIDE DEF m
    <3> QED BY <2>2, <3>2, <3>3
  <2>5. ASSUME request' = [request EXCEPT ![d].step = "submit"]
        PROVE  /\ request' \in [Devices -> Requests]
               /\ \A e \in Devices : request'[e].step \in {"answer", "resume"} => request'[e].run \in RunIds
    <3> DEFINE m == [request[d] EXCEPT !.step = "submit"]
    <3>1. m \in Requests /\ m.step = "submit"
      BY <2>0 DEF Requests
    <3>2. request' = [request EXCEPT ![d] = m]
      BY <2>0, <2>5
    <3> HIDE DEF m
    <3> QED BY <2>2, <3>1, <3>2
  <2> QED BY <2>1, <2>3, <2>4, <2>5 DEF Post
<1>4. LogTypes'
  BY <1>0, <1>1, <1>2, <1>3 DEF LogTypes, Requests
<1>5. RowInv' /\ Untouched({}) /\ status' = status /\ gen' = gen
  BY <1>0, <1>1, NothingStep DEF coordVars, rowVars
<1>6. mem' \in [Workers -> Mems] /\ \A v \in Workers \ {} : Fine(v)'
  BY <1>1, <1>5, OthersFine DEF Inv
<1>7. Counts' /\ Logged'
  BY <1>1, <1>5 DEF Inv, Counts, Logged, RepairBudget, ParkedHasQuestion, CompletedIsTold
<1> QED BY <1>4, <1>5, <1>6, <1>7 DEF Inv

\* Renewals, transactions of the handlers, the recovery scan and the
\* clock: no worker is involved.
LEMMA RowActions ==
    ASSUME Inv,
           \/ \E w \in Workers : Renew(w)
           \/ \E d \in Devices : Submit(d) \/ ResumeRun(d)
           \/ \E r \in RunIds : CancelRun(r) \/ Expire(r)
           \/ RecoverOrphans
    PROVE  Inv'
<1>0. RowInv /\ LogTypes
  BY DEF Inv
<1>1. UNCHANGED <<mem, stopping, readVars, stray>>
  BY DEF Renew, Submit, ResumeRun, CancelRun, Expire, RecoverOrphans, logVars, readVars
<1>2. request' = request \/ \E d \in Devices : request' = [request EXCEPT ![d] = NoRequest]
  BY DEF Renew, Submit, ResumeRun, CancelRun, Expire, RecoverOrphans
<1>3. LogTypes'
  BY <1>0, <1>1, <1>2, RequestStep DEF LogTypes, readVars, convVars
<1>4. \/ \E s \in Sessions, k \in Keys : RC!RequestRun(s, k)
      \/ \E r \in RunIds : RC!Resume(r) \/ RC!Cancel(r) \/ RC!Expire(r)
      \/ \E w \in Workers : RC!Renew(w)
      \/ RC!RecoverOrphans
      \/ UNCHANGED coordVars
  <2>1. ASSUME NEW d \in Devices, ResumeRun(d) PROVE (\E r \in RunIds : RC!Resume(r)) \/ UNCHANGED coordVars
    <3>1. CASE UNCHANGED coordVars
      BY <3>1
    <3>2. CASE RC!Resume(request[d].run)
      BY <1>0, <2>1, <3>2 DEF LogTypes, ResumeRun
    <3> QED BY <2>1, <3>1, <3>2 DEF ResumeRun
  <2> QED BY <2>1 DEF Renew, Submit, CancelRun, Expire, RecoverOrphans
<1>5. CASE UNCHANGED coordVars
  <2>1. RowInv' /\ Untouched({}) /\ status' = status /\ gen' = gen
    BY <1>0, <1>5, NothingStep DEF coordVars, rowVars
  <2> QED BY <1>1, <1>3, <2>1, RowsOnly
<1> QED BY <1>0, <1>1, <1>3, <1>4, <1>5, RowStep, RowsOnly

LEMMA ProcessActions ==
    ASSUME Inv, Stop \/ Restart \/ UNCHANGED vars
    PROVE  Inv'
<1>0. LogTypes /\ RowInv
  BY DEF Inv
<1>1. ASSUME UNCHANGED <<coordVars, mem, request, readVars, stray>>, stopping' \in BOOLEAN
      PROVE  Inv'
  <2>1. RowInv' /\ Untouched({}) /\ status' = status /\ gen' = gen
    BY <1>0, <1>1, NothingStep DEF coordVars, rowVars
  <2>2. UNCHANGED <<mem, request, calls, question, asked, repaired, closed, stray>>
    BY <1>1 DEF readVars, convVars
  <2>3. LogTypes'
    BY <1>0, <1>1, <2>2 DEF LogTypes
  <2>4. \A v \in Workers \ {} : Fine(v)'
    BY <2>1, <2>2, OthersFine
  <2>5. Counts' /\ Logged'
    BY <2>1, <2>2 DEF Inv, Counts, Logged, RepairBudget, ParkedHasQuestion, CompletedIsTold
  <2> QED BY <2>1, <2>2, <2>3, <2>4, <2>5 DEF Inv
<1>2. CASE Stop
  BY <1>1, <1>2 DEF Stop, logVars, readVars
<1>3. CASE UNCHANGED vars
  BY <1>0, <1>1, <1>3 DEF vars, LogTypes, logVars, readVars
<1>4. CASE Restart
  <2>1. RowInv' /\ \A w \in Workers : held'[w] = RC!NoLease
    BY <1>0, <1>4, RestartStep DEF Restart
  <2>2. /\ mem' = [w \in Workers |-> Idle] /\ request' = [d \in Devices |-> NoRequest] /\ stopping' = FALSE
        /\ UNCHANGED <<status, gen, calls, question, asked, repaired, closed, stray>>
    BY <1>4 DEF Restart, logVars, convVars, rowVars
  <2>3. mem' \in [Workers -> Mems] /\ \A w \in Workers : mem'[w] = Idle
    <3>1. Idle \in Mems
      BY ExecutionAssumption DEF Idle, Mems
    <3> QED BY <2>2, <3>1
  <2>4. LogTypes'
    <3>1. NoRequest \in Requests
      BY ExecutionAssumption DEF NoRequest, Requests
    <3>2. request' \in [Devices -> Requests] /\ \A d \in Devices : request'[d].step = "none"
      BY <2>2, <3>1 DEF NoRequest
    <3> QED BY <1>0, <2>2, <3>2 DEF LogTypes, Requests
  <2>5. \A w \in Workers : Fine(w)'
    BY <2>1, <2>3 DEF Fine, Idle, Executing, Ending
  <2>6. Counts' /\ Logged'
    BY <2>2 DEF Inv, Counts, Logged, RepairBudget, ParkedHasQuestion, CompletedIsTold
  <2> QED BY <2>1, <2>2, <2>3, <2>4, <2>5, <2>6 DEF Inv
<1> QED BY <1>2, <1>3, <1>4

LEMMA InvStep == Inv /\ [Next]_vars => Inv'
<1> SUFFICES ASSUME Inv, [Next]_vars PROVE Inv'
  OBVIOUS
<1>1. ASSUME NEW w \in Workers, Execute(w) PROVE Inv'
  BY <1>1, ControlActions, AppendActions, EndActions DEF Execute
<1>2. ASSUME NEW w \in Workers, Claim(w) PROVE Inv'
  BY <1>2, ClaimAction
<1>3. ASSUME NEW d \in Devices, Handle(d) PROVE Inv'
  BY <1>3, HandlerActions, RowActions DEF Handle
<1>4. ASSUME \/ \E w \in Workers : Renew(w)
             \/ \E r \in RunIds : CancelRun(r) \/ Expire(r)
             \/ RecoverOrphans
      PROVE  Inv'
  BY <1>4, RowActions
<1>5. CASE Stop \/ Restart \/ UNCHANGED vars
  BY <1>5, ProcessActions
<1> QED BY <1>1, <1>2, <1>3, <1>4, <1>5 DEF Next

LEMMA Invariance == Spec => []Inv
<1>1. Inv /\ [Next]_vars => Inv'
  BY InvStep
<1> QED BY InvInit, <1>1, PTL DEF Spec

-----------------------------------------------------------------------------
\* What is appended in the name of stopped runs.
Lates == late \in [RunIds -> SUBSET Kinds] /\ CancelledStaysQuiet

LEMMA LogStep ==
    ASSUME Inv, Lates, NEW r \in RunIds, NEW kind \in Kinds, Log(r, kind),
           kind = "notice" \/ \E w \in Workers : RC!Current(w) /\ held[w].run = r
    PROVE  Lates'
<1>1. CASE status[r] = "cancelled"
  <2>1. holder[r] = NoWorker
    BY <1>1 DEF Inv, RowInv, NobodyHolds
  <2>2. kind = "notice"
    BY <2>1, ExecutionAssumption DEF RC!Current
  <2>3. late' = [late EXCEPT ![r] = @ \cup {"notice"}]
    BY <1>1, <2>2 DEF Log
  <2> QED BY <2>2, <2>3 DEF Lates, CancelledStaysQuiet
<1>2. CASE status[r] # "cancelled"
  BY <1>2 DEF Log, Lates, CancelledStaysQuiet
<1> QED BY <1>1, <1>2

LEMMA LatesInit == Init => Lates
BY DEF Init, Lates, CancelledStaysQuiet

LEMMA LatesStep == Inv /\ Lates /\ [Next]_vars => Lates'
<1> SUFFICES ASSUME Inv, Lates, [Next]_vars PROVE Lates'
  OBVIOUS
<1>u. ASSUME UNCHANGED late PROVE Lates'
  BY <1>u DEF Lates, CancelledStaysQuiet
<1>l. UNCHANGED logVars => UNCHANGED late
  BY DEF logVars
<1>1. ASSUME NEW w \in Workers, Execute(w) PROVE Lates'
  <2>0. Fine(w)
    BY DEF Inv
  \* Under the lease.
  <2>1. ASSUME NEW kind \in Kinds, mem[w].pc \in Executing \cup Ending, RC!Current(w), Log(mem[w].run, kind)
        PROVE  Lates'
    <3>1. mem[w].run \in RunIds /\ held[w].run = mem[w].run
      BY <2>0, <2>1 DEF Fine, Executing, Ending
    <3> QED BY <2>1, <3>1, LogStep
  \* Without it.
  <2>2. ASSUME mem[w].pc # "idle", TryLog(mem[w].run, "notice") PROVE Lates'
    <3>1. mem[w].run \in RunIds
      BY <2>0, <2>2 DEF Fine
    <3>2. "notice" \in Kinds
      BY DEF Kinds
    <3> QED BY <1>u, <2>2, <3>1, <3>2, LogStep DEF TryLog
  <2>3. CASE ReadLog(w) \/ EmitState(w)
    BY <2>2, <2>3 DEF ReadLog, EmitState, At
  <2>4. CASE AppendStart(w)
    BY <2>1, <2>4 DEF AppendStart, At, Passes, Executing, Kinds
  <2>5. CASE RunTools(w)
    BY <2>1, <2>5 DEF RunTools, Looping, Passes, Executing, Kinds
  <2>6. CASE \E kind \in {"tools", "ask", "final"} : ModelTurn(w, kind)
    BY <2>1, <2>6 DEF ModelTurn, Looping, Passes, Executing, Kinds
  <2>7. CASE AppendRepair(w)
    BY <2>1, <2>7 DEF AppendRepair, At, Passes, Executing, Kinds
  <2>8. CASE AppendClosing(w)
    BY <2>1, <2>8 DEF AppendClosing, At, Passes, Executing, Kinds
  <2>9. CASE AppendProgress(w)
    BY <2>1, <2>9 DEF AppendProgress, At, Passes, Executing, Kinds
  <2>10. CASE AppendQuestion(w)
    BY <2>1, <2>10 DEF AppendQuestion, At, Passes, Executing, Kinds
  <2>11. CASE AppendFailure(w)
    BY <1>u, <2>1, <2>11 DEF AppendFailure, At, Ending, Kinds
  <2>12. CASE CommitFinal(w) \/ Snapshot(w) \/ Fail(w)
    BY <1>u, <1>l, <2>12 DEF CommitFinal, Snapshot, CommitVersion, Fail
  <2>13. CASE StandDown(w) \/ Yield(w) \/ Finish(w) \/ FinishRefused(w)
    BY <1>u, <1>l, <2>13 DEF StandDown, Yield, Finish, Transition, FinishRefused
  <2> QED BY <1>1, <2>3, <2>4, <2>5, <2>6, <2>7, <2>8, <2>9, <2>10, <2>11, <2>12, <2>13 DEF Execute
<1>2. ASSUME NEW d \in Devices, ProvideInput(d) PROVE Lates'
  <2>1. request[d].run \in RunIds
    BY <1>2 DEF ProvideInput, Inv, LogTypes
  <2> QED BY <1>2, <2>1, LogStep DEF ProvideInput, Kinds
<1>3. ASSUME NEW r \in RunIds, CancelRun(r) PROVE Lates'
  <2>1. late' \in {late, [late EXCEPT ![r] = @ \cup {"notice"}]}
    BY <1>3 DEF CancelRun
  <2> QED BY <2>1 DEF Lates, CancelledStaysQuiet, Kinds
<1>4. CASE \/ \E w \in Workers : Claim(w) \/ Renew(w)
           \/ \E d \in Devices : Post(d) \/ Submit(d) \/ ResumeRun(d) \/ Abort(d)
           \/ \E r \in RunIds : Expire(r)
           \/ RecoverOrphans \/ Stop \/ Restart \/ UNCHANGED vars
  BY <1>u, <1>l, <1>4 DEF Claim, Renew, Post, Submit, ResumeRun, Abort, Expire, RecoverOrphans,
                          Stop, Restart, vars
<1> QED BY <1>1, <1>2, <1>3, <1>4 DEF Next, Handle

LEMMA LatesInvariant == Spec => []Lates
<1>1. Init => Inv /\ Lates
  BY InvInit, LatesInit
<1>2. Inv /\ Lates /\ [Next]_vars => (Inv /\ Lates)'
  BY InvStep, LatesStep
<1> QED BY <1>1, <1>2, PTL DEF Spec

-----------------------------------------------------------------------------
\* Type correctness, and that a worker between its claim and its transition
\* carries the lease of the run it works on (server.go:368).
THEOREM TypeCorrect == Spec => []TypeOK
<1>1. Inv /\ Lates => TypeOK
  BY DEF Inv, Lates, TypeOK, Mems, LogTypes, Counts, Fine
<1> QED BY Invariance, LatesInvariant, <1>1, PTL

\* The repair budget holds across takeovers, lost leases and restarts, because
\* a holder's count is the log's (harness.go:156).
THEOREM BudgetCorrect == Spec => []RepairBudget
<1>1. Inv => RepairBudget
  BY DEF Inv, Logged
<1> QED BY Invariance, <1>1, PTL

\* A parked run's question is in the log, asked under the generation it parked
\* with (harness.go:346, coordinator.go:264).
THEOREM ParkingCorrect == Spec => []ParkedHasQuestion
<1>1. Inv => ParkedHasQuestion
  BY DEF Inv, Logged
<1> QED BY Invariance, <1>1, PTL

\* No run is completed whose run.completed is not in the log (server.go:416).
THEOREM CompletionCorrect == Spec => []CompletedIsTold
<1>1. Inv => CompletedIsTold
  BY DEF Inv, Logged
<1> QED BY Invariance, <1>1, PTL

\* Nothing that a worker logs under its lease is logged in the name of a run
\* that the user has stopped: the fence refuses it, because Cancel empties the
\* row's worker (coordinator.go:328).  Only what is appended without a lease can
\* follow a stop: the state events, the stop's own and an answer on its way.
THEOREM CancelCorrect == Spec => []CancelledStaysQuiet
<1>1. Lates => CancelledStaysQuiet
  BY DEF Lates
<1> QED BY LatesInvariant, <1>1, PTL

-----------------------------------------------------------------------------
\* The refinement: what the workers and handlers do to the rows is a step of
\* RunCoordinator, or nothing.
LEMMA CoordinatorStep == Inv /\ [Next]_vars => [RC!Next]_(RC!vars)
<1> SUFFICES ASSUME Inv, [Next]_vars PROVE [RC!Next]_(RC!vars)
  OBVIOUS
<1> USE SameRuns
<1>u. ASSUME UNCHANGED coordVars PROVE [RC!Next]_(RC!vars)
  BY <1>u DEF RC!vars, RC!rowVars, coordVars, rowVars
<1>o. RC!OtherStep => RC!Next
  BY DEF RC!Next
<1>l. ASSUME NEW w \in Workers, RC!LeaseCall(w) PROVE RC!Next
  BY <1>l DEF RC!Next
<1>1. ASSUME NEW w \in Workers, Claim(w) \/ Renew(w) PROVE [RC!Next]_(RC!vars)
  BY <1>1, <1>o, <1>l DEF Claim, Renew, RC!OtherStep, RC!LeaseCall
<1>2. ASSUME NEW w \in Workers, Execute(w) PROVE [RC!Next]_(RC!vars)
  <2>1. CASE RC!StandDown(w) \/ RC!GiveUp(w)
    BY <2>1, <1>o DEF RC!OtherStep
  <2>2. CASE Yield(w)
    BY <2>2, <1>l DEF Yield, RC!LeaseCall
  <2>3. CASE Finish(w)
    <3>1. RC!Await(w) \/ RC!Complete(w, "completed") \/ RC!Complete(w, "failed")
      BY <2>3 DEF Finish, Transition
    <3>2. RC!LeaseCall(w)
      BY <3>1 DEF RC!LeaseCall
    <3> QED BY <3>2, <1>l
  <2>4. CASE StandDown(w) \/ FinishRefused(w)
    BY <2>1, <2>4 DEF StandDown, FinishRefused
  <2>5. CASE ReadLog(w) \/ CommitFinal(w) \/ Snapshot(w) \/ Fail(w)
    BY <2>5, <1>u DEF ReadLog, CommitFinal, CommitVersion, Snapshot, Fail
  <2>6. CASE AppendStart(w) \/ RunTools(w) \/ \E kind \in {"tools", "ask", "final"} : ModelTurn(w, kind)
    BY <2>6, <1>u DEF AppendStart, RunTools, ModelTurn
  <2>7. CASE AppendRepair(w) \/ AppendClosing(w) \/ AppendProgress(w) \/ AppendQuestion(w)
    BY <2>7, <1>u DEF AppendRepair, AppendClosing, AppendProgress, AppendQuestion
  <2>8. CASE AppendFailure(w) \/ EmitState(w)
    BY <2>8, <1>u DEF AppendFailure, EmitState
  <2> QED BY <1>2, <2>2, <2>3, <2>4, <2>5, <2>6, <2>7, <2>8 DEF Execute
<1>3. ASSUME NEW d \in Devices, Handle(d) PROVE [RC!Next]_(RC!vars)
  <2>1. CASE Post(d) \/ ProvideInput(d) \/ Abort(d)
    BY <2>1, <1>u DEF Post, ProvideInput, Abort
  <2>2. CASE Submit(d)
    BY <2>2, <1>o DEF Submit, RC!OtherStep
  <2>3. CASE ResumeRun(d)
    <3>1. request[d].run \in RunIds
      BY <2>3 DEF ResumeRun, Inv, LogTypes
    <3> QED BY <2>3, <3>1, <1>o, <1>u DEF ResumeRun, RC!OtherStep
  <2> QED BY <1>3, <2>1, <2>2, <2>3 DEF Handle
<1>4. ASSUME NEW r \in RunIds, CancelRun(r) \/ Expire(r) PROVE [RC!Next]_(RC!vars)
  BY <1>4, <1>o DEF CancelRun, Expire, RC!OtherStep
<1>5. CASE RecoverOrphans
  BY <1>5, <1>o DEF RecoverOrphans, RC!OtherStep
<1>6. CASE Stop \/ UNCHANGED vars
  BY <1>6, <1>u DEF Stop, vars
<1>7. CASE Restart
  <2>1. /\ \A w \in Workers : RC!Holds(w) => RC!MayReturn(held[w].run)
        /\ held' = [w \in Workers |-> RC!NoLease] /\ UNCHANGED <<rowVars, keys>>
    BY <1>7 DEF Restart
  <2>2. CASE \E w \in Workers : held[w] # RC!NoLease
    <3>1. RC!Crash
      BY <2>1, <2>2 DEF RC!Crash, RC!rowVars, rowVars
    <3> QED BY <3>1, <1>o DEF RC!OtherStep
  <2>3. CASE \A w \in Workers : held[w] = RC!NoLease
    <3>1. held' = held
      BY <2>1, <2>3 DEF Inv, RowInv, RowTypes
    <3> QED BY <2>1, <3>1, <1>u DEF coordVars
  <2> QED BY <2>2, <2>3
<1> QED BY <1>1, <1>2, <1>3, <1>4, <1>5, <1>6, <1>7 DEF Next

\* Workers and handlers implement the coordinator: whatever is proved of
\* RunCoordinator's rows holds of a session at work.
THEOREM CoordinatorImplemented == Spec => UsesCoordinator
<1>1. Init => RC!Init
  BY DEF Init
<1>2. Spec => [][RC!Next]_(RC!vars)
  BY Invariance, CoordinatorStep, PTL DEF Spec
<1> QED BY <1>1, <1>2, PTL DEF Spec, UsesCoordinator, RC!Spec

-----------------------------------------------------------------------------
(***************************************************************************)
(* What RunCoordinatorProofs proves, said of the rows of a session at work. *)
(* RC and RCP are two names of one module.                                  *)
(***************************************************************************)
RCP == INSTANCE RunCoordinatorProofs

LEMMA ConstantsFit == RCP!CoordinatorAssumption
BY ExecutionAssumption DEF RCP!CoordinatorAssumption

LEMMA OneInit == RC!Init => RCP!Init
BY DEF RC!Init, RCP!Init, RC!RunIds, RCP!RunIds, RC!NoLease, RCP!NoLease

LEMMA OneNext ==
    /\ [RC!Next]_(RC!vars) <=> [RCP!Next]_(RCP!vars)
    /\ \A w : RC!LeaseCall(w) <=> RCP!LeaseCall(w)
<1>1. /\ RC!RunIds = RCP!RunIds /\ RC!NoLease = RCP!NoLease /\ RC!Final = RCP!Final
      /\ RC!rowVars = RCP!rowVars /\ RC!vars = RCP!vars
      /\ (UNCHANGED RC!rowVars <=> UNCHANGED RCP!rowVars)
      /\ (UNCHANGED RC!vars <=> UNCHANGED RCP!vars)
  BY DEF RC!RunIds, RCP!RunIds, RC!NoLease, RCP!NoLease, RC!Final, RCP!Final,
         RC!rowVars, RCP!rowVars, RC!vars, RCP!vars
<1>2. \A r : /\ RC!Exists(r) = RCP!Exists(r) /\ RC!Active(r) = RCP!Active(r)
             /\ RC!Terminal(r) = RCP!Terminal(r) /\ RC!Lapsed(r) = RCP!Lapsed(r)
             /\ RC!MayReturn(r) = RCP!MayReturn(r)
             /\ RC!Project(r) = RCP!Project(r) /\ RC!Tenant(r) = RCP!Tenant(r)
  BY <1>1
  DEF RC!Exists, RCP!Exists, RC!Active, RCP!Active, RC!Terminal, RCP!Terminal,
      RC!Lapsed, RCP!Lapsed, RC!MayReturn, RCP!MayReturn, RC!Project, RCP!Project,
      RC!Tenant, RCP!Tenant
<1>3. /\ \A r : RC!Siblings(r) = RCP!Siblings(r)
      /\ \A t : RC!ActiveInTenant(t) = RCP!ActiveInTenant(t)
  BY <1>1, <1>2 DEF RC!Siblings, RCP!Siblings, RC!ActiveInTenant, RCP!ActiveInTenant
<1>4. \A r : RC!Claimable(r) = RCP!Claimable(r)
  <2>1. \A S : RC!Cardinality(S) = RCP!Cardinality(S)
    BY DEF RC!Cardinality, RCP!Cardinality
  <2> QED BY <2>1, <1>2, <1>3 DEF RC!Claimable, RCP!Claimable
<1>5. \A w : RC!Current(w) = RCP!Current(w) /\ RC!Holds(w) = RCP!Holds(w)
  BY <1>1 DEF RC!Current, RCP!Current, RC!Holds, RCP!Holds
<1>6. \A s, k : RC!RequestRun(s, k) <=> RCP!RequestRun(s, k)
  BY <1>1, <1>2 DEF RC!RequestRun, RCP!RequestRun
<1>7. \A w : RC!Claim(w) <=> RCP!Claim(w)
  BY <1>1, <1>4 DEF RC!Claim, RCP!Claim
<1>f. \A w : RC!ClaimFails(w) <=> RCP!ClaimFails(w)
  BY <1>1, <1>4 DEF RC!ClaimFails, RCP!ClaimFails
<1>8. \A w : /\ RC!Renew(w) <=> RCP!Renew(w)
             /\ \A st : RC!Complete(w, st) <=> RCP!Complete(w, st)
             /\ RC!Relinquish(w) <=> RCP!Relinquish(w)
             /\ RC!Await(w) <=> RCP!Await(w)
             /\ RC!StandDown(w) <=> RCP!StandDown(w)
             /\ RC!GiveUp(w) <=> RCP!GiveUp(w)
  BY <1>1, <1>2, <1>5
  DEF RC!Renew, RCP!Renew, RC!Complete, RCP!Complete, RC!ReleaseAs, RCP!ReleaseAs,
      RC!Relinquish, RCP!Relinquish, RC!Await, RCP!Await, RC!StandDown, RCP!StandDown,
      RC!GiveUp, RCP!GiveUp
<1>9. \A r : /\ RC!Resume(r) <=> RCP!Resume(r)
             /\ RC!Cancel(r) <=> RCP!Cancel(r)
             /\ RC!Expire(r) <=> RCP!Expire(r)
  BY <1>1, <1>2 DEF RC!Resume, RCP!Resume, RC!Cancel, RCP!Cancel, RC!Expire, RCP!Expire
<1>10. RC!RecoverOrphans <=> RCP!RecoverOrphans
  BY <1>1, <1>2 DEF RC!RecoverOrphans, RCP!RecoverOrphans
<1>11. RC!Crash <=> RCP!Crash
  BY <1>1, <1>2, <1>5 DEF RC!Crash, RCP!Crash
<1>12. RC!OtherStep <=> RCP!OtherStep
  BY <1>1, <1>6, <1>7, <1>f, <1>8, <1>9, <1>10, <1>11 DEF RC!OtherStep, RCP!OtherStep
<1>13. \A w : RC!LeaseCall(w) <=> RCP!LeaseCall(w)
  BY <1>8 DEF RC!LeaseCall, RCP!LeaseCall
<1> QED BY <1>1, <1>12, <1>13 DEF RC!Next, RCP!Next

LEMMA OneSpec == RC!Spec => RCP!Spec
BY OneInit, OneNext, PTL DEF RC!Spec, RCP!Spec

\* What the coordinator promises is kept while workers, handlers and restarts
\* share its rows: no run is where no scan and no claim sees it, a lease that
\* was granted was granted once and only such a lease passes the fence, and every
\* key finds its run.
THEOREM RowsKept == Spec => [](RC!NoLimbo /\ RC!LeaseIdentifiesHolder /\ RC!KeysMatchRuns)
<1>1. Spec => RCP!Spec
  BY CoordinatorImplemented, OneSpec DEF UsesCoordinator
<1>2. Spec => [](RCP!NoLimbo /\ RCP!LeaseIdentifiesHolder /\ RCP!KeysMatchRuns)
  BY <1>1, ConstantsFit, RCP!NoRunInLimbo, RCP!LeasesIdentifyHolders, RCP!KeysAgree, PTL
<1>3. RCP!NoLimbo => RC!NoLimbo
  BY DEF RC!NoLimbo, RCP!NoLimbo, RC!RunIds, RCP!RunIds
<1>4. RCP!LeaseIdentifiesHolder => RC!LeaseIdentifiesHolder
  BY DEF RC!LeaseIdentifiesHolder, RCP!LeaseIdentifiesHolder, RC!Granted, RCP!Granted,
         RC!Current, RCP!Current, RC!NoLease, RCP!NoLease
<1>5. RCP!KeysMatchRuns => RC!KeysMatchRuns
  BY DEF RC!KeysMatchRuns, RCP!KeysMatchRuns, RC!RunIds, RCP!RunIds, RC!Exists, RCP!Exists
<1> QED BY <1>2, <1>3, <1>4, <1>5, PTL

\* A finished run of a session stays as it finished, and a worker whose lease
\* was superseded stays behind, whatever workers, devices and restarts do.
THEOREM FinishedAndSuperseded == Spec => RC!TerminalIsFinal /\ RC!LostLeaseStaysLost
<1>1. Spec => RCP!Spec
  BY CoordinatorImplemented, OneSpec DEF UsesCoordinator
<1>2. Spec => RCP!TerminalIsFinal /\ RCP!LostLeaseStaysLost
  BY <1>1, ConstantsFit, RCP!FinishedForGood, RCP!SupersededForGood
<1>v. RC!vars = RCP!vars /\ (UNCHANGED RC!vars <=> UNCHANGED RCP!vars)
  BY DEF RC!vars, RCP!vars, RC!rowVars, RCP!rowVars
<1>3. RCP!TerminalIsFinal => RC!TerminalIsFinal
  <2>1. [\A r \in RCP!RunIds : RCP!Terminal(r) => status'[r] = status[r] /\ gen'[r] = gen[r]]_(RCP!vars)
          => [\A r \in RC!RunIds : RC!Terminal(r) => status'[r] = status[r] /\ gen'[r] = gen[r]]_(RC!vars)
    BY <1>v DEF RC!RunIds, RCP!RunIds, RC!Terminal, RCP!Terminal, RC!Final, RCP!Final
  <2> QED BY <2>1, PTL DEF RC!TerminalIsFinal, RCP!TerminalIsFinal
<1>4. RCP!LostLeaseStaysLost => RC!LostLeaseStaysLost
  <2>0. \A w : /\ RC!Granted(w) = RCP!Granted(w) /\ RC!NoLease = RCP!NoLease
               /\ RC!Current(w) = RCP!Current(w)
    BY DEF RC!Granted, RCP!Granted, RC!NoLease, RCP!NoLease, RC!Current, RCP!Current
  <2>c. \A w : RC!Current(w)' <=> RCP!Current(w)'
    BY DEF RC!Current, RCP!Current, RC!NoLease, RCP!NoLease
  <2>1. [\A w \in Workers : held[w] # RCP!NoLease /\ ~RCP!Current(w) /\ held'[w] = held[w]
            => /\ ~RCP!Current(w)'
               /\ RCP!Granted(w) => gen'[held[w].run] > held[w].gen]_(RCP!vars)
          => [\A w \in Workers : held[w] # RC!NoLease /\ ~RC!Current(w) /\ held'[w] = held[w]
                => /\ ~RC!Current(w)'
                   /\ RC!Granted(w) => gen'[held[w].run] > held[w].gen]_(RC!vars)
    BY <1>v, <2>0, <2>c
  <2> QED BY <2>1, PTL DEF RC!LostLeaseStaysLost, RCP!LostLeaseStaysLost
<1> QED BY <1>2, <1>3, <1>4
-----------------------------------------------------------------------------
(* The coordinator's environment assumption, said of a session at work. *)

\* No worker renews or ends its run after its lease's deadline.
CallsOnTime == [][\A w \in Workers : RC!LeaseCall(w) => RC!OnTime(w)]_vars

LEMMA OneTimely == Spec /\ CallsOnTime => RCP!TimelySpec
<1> DEFINE InTime == \A w \in Workers : RC!LeaseCall(w) => RC!OnTime(w)
<1>1. [RC!Next]_(RC!vars) /\ [InTime]_vars => [RCP!TimelyNext]_(RCP!vars)
  <2> SUFFICES ASSUME [RC!Next]_(RC!vars), [InTime]_vars, ~UNCHANGED RCP!vars
               PROVE  RCP!TimelyNext
    OBVIOUS
  <2>1. RCP!Next
    BY OneNext
  <2>2. InTime
    BY DEF vars, coordVars, rowVars, RCP!vars, RCP!rowVars
  <2>3. ASSUME NEW w \in Workers, RCP!LeaseCall(w)
        PROVE  held[w] # RCP!NoLease /\ RCP!OnTime(w)
    <3>1. RC!LeaseCall(w)
      BY <2>3, OneNext
    <3>2. RC!OnTime(w)
      BY <2>2, <3>1
    <3>. QED BY <3>2, <2>3
         DEF RC!OnTime, RCP!OnTime, RCP!LeaseCall, RCP!Renew, RCP!Complete, RCP!Relinquish,
             RCP!Await, RCP!ReleaseAs, RCP!Holds, RCP!Current
  <2>. QED BY <2>1, <2>3 DEF RCP!Next, RCP!TimelyNext
<1>2. Spec => RC!Spec
  BY CoordinatorImplemented DEF UsesCoordinator
<1>. QED BY <1>1, <1>2, OneInit, PTL DEF RC!Spec, RCP!TimelySpec, CallsOnTime

\* While workers, devices and restarts share its rows, the coordinator gives a
\* project to one run at a time, a parked one included, and no tenant more runs
\* than its quota, provided that lease calls are on time.
THEOREM ProjectsExclusive ==
    Spec /\ CallsOnTime => [](RC!OneOwnerPerProject /\ RC!TenantWithinQuota)
<1>1. Spec /\ CallsOnTime => [](RCP!OneOwnerPerProject /\ RCP!TenantWithinQuota)
  BY OneTimely, ConstantsFit, RCP!OneOwner, RCP!QuotaKept, PTL
<1>2. RCP!OneOwnerPerProject => RC!OneOwnerPerProject
  BY DEF RC!OneOwnerPerProject, RCP!OneOwnerPerProject, RC!OwnsProject, RCP!OwnsProject,
         RC!Active, RCP!Active, RC!Siblings, RCP!Siblings, RC!RunIds, RCP!RunIds,
         RC!Exists, RCP!Exists, RC!Project, RCP!Project
<1>3. RCP!TenantWithinQuota => RC!TenantWithinQuota
  <2>1. \A t : RC!ActiveInTenant(t) = RCP!ActiveInTenant(t)
    BY DEF RC!ActiveInTenant, RCP!ActiveInTenant, RC!Active, RCP!Active, RC!RunIds, RCP!RunIds,
           RC!Tenant, RCP!Tenant, RC!Project, RCP!Project
  <2>2. \A S : RC!Cardinality(S) = RCP!Cardinality(S)
    BY DEF RC!Cardinality, RCP!Cardinality
  <2>. QED BY <2>1, <2>2 DEF RC!TenantWithinQuota, RCP!TenantWithinQuota
<1>. QED BY <1>1, <1>2, <1>3, PTL

\* So the runs of a project's sessions take turns as ProjectTurns says.
THEOREM ExecutionTakesTurns == Spec /\ CallsOnTime => RC!TakesTurns
<1>1. Spec /\ CallsOnTime => RCP!TakesTurns
  BY OneTimely, ConstantsFit, RCP!TakingTurns
<1>2. RCP!Turns!Init => RC!Turns!Init
  BY DEF RC!RunIds, RCP!RunIds, RC!Exists, RCP!Exists, RC!Active, RCP!Active, RC!Terminal,
         RCP!Terminal, RC!Final, RCP!Final, RC!Project, RCP!Project, RC!OwnsProject,
         RCP!OwnsProject, RC!PhaseOf, RCP!PhaseOf, RC!TurnOf, RCP!TurnOf, RC!Turns!Init,
         RCP!Turns!Init
<1>3. [RCP!Turns!Next]_(RCP!Turns!vars) => [RC!Turns!Next]_(RC!Turns!vars)
  BY DEF RC!RunIds, RCP!RunIds, RC!Exists, RCP!Exists, RC!Active, RCP!Active, RC!Terminal,
         RCP!Terminal, RC!Final, RCP!Final, RC!Project, RCP!Project, RC!OwnsProject,
         RCP!OwnsProject, RC!PhaseOf, RCP!PhaseOf, RC!TurnOf, RCP!TurnOf, RC!Turns!Accept,
         RCP!Turns!Accept, RC!Turns!Start, RCP!Turns!Start, RC!Turns!Park, RCP!Turns!Park,
         RC!Turns!GiveBack, RCP!Turns!GiveBack, RC!Turns!Withdraw, RCP!Turns!Withdraw,
         RC!Turns!Next, RCP!Turns!Next, RC!Turns!vars, RCP!Turns!vars
<1>4. RCP!TakesTurns => RC!TakesTurns
  BY <1>2, <1>3, PTL DEF RC!TakesTurns, RCP!TakesTurns, RC!Turns!Spec, RCP!Turns!Spec
<1>. QED BY <1>1, <1>4
=============================================================================
