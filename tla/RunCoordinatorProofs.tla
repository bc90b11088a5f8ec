------------------------ MODULE RunCoordinatorProofs ------------------------
(***************************************************************************)
(* Theorems about RunCoordinator, for every number of runs, workers,       *)
(* sessions and projects and every bound on the generations.               *)
(***************************************************************************)
EXTENDS RunCoordinator, FiniteSetTheorems, TLAPS

\* What a granted token says of its run: it is never ahead of the row, and if
\* it is level with the row, the row names the worker.
TokensBehind ==
    \A w \in Workers : Granted(w) =>
        /\ held[w].gen <= gen[held[w].run]
        /\ held[w].gen = gen[held[w].run] => holder[held[w].run] = w

\* The inductive invariant.  Granted tokens differ because a new one is ahead of
\* every granted token of its run, which is what TokensBehind says; a token that
\* was not granted never passes the fence because a row reaches its generation
\* only by a claim of another worker or by a cancel.
IInv == TypeOK /\ NoLimbo /\ TokensBehind /\ LeaseIdentifiesHolder

\* StandDown, GiveUp: one token is dropped; Crash drops them all.
Drop(w) == held' = [held EXCEPT ![w] = NoLease] /\ UNCHANGED <<rowVars, keys>>
DropAll == held' = [w \in Workers |-> NoLease] /\ UNCHANGED <<rowVars, keys>>

-----------------------------------------------------------------------------
LEMMA TypeInit == Init => TypeOK
  BY CoordinatorAssumption
  DEF Init, TypeOK, RunIds, Leases, NoLease, Statuses, Final, Exists

\* Every step preserves the types.
LEMMA TypeStep == TypeOK /\ [Next]_vars => TypeOK'
  <1> SUFFICES ASSUME TypeOK, [Next]_vars PROVE TypeOK'
    OBVIOUS
  <1> USE DEF TypeOK, Exists
  <1>1. ASSUME NEW s \in Sessions, NEW k \in Keys, RequestRun(s, k) PROVE TypeOK'
    BY <1>1 DEF RequestRun, RunIds, Statuses
  <1>2. ASSUME NEW w \in Workers, Claim(w) PROVE TypeOK'
    <2>1. PICK r \in RunIds :
            /\ Claimable(r)
            /\ status' = [status EXCEPT ![r] = "running"]
            /\ holder' = [holder EXCEPT ![r] = w]
            /\ gen' = [gen EXCEPT ![r] = @ + 1]
            /\ expiry' = [expiry EXCEPT ![r] = "live"]
            /\ held' = [held EXCEPT ![w] = [run |-> r, gen |-> gen[r] + 1, claim |-> "committed"]]
      BY <1>2 DEF Claim
    <2>2. session' = session /\ keys' = keys
      BY <1>2 DEF Claim
    <2>3. r \in 0 .. MaxRuns /\ gen[r] + 1 \in Nat
      BY CoordinatorAssumption DEF RunIds
    <2>4. held' \in [Workers -> Leases]
      BY <2>1, <2>3 DEF Leases
    <2>5. status' \in [RunIds -> Statuses \cup {"absent"}] /\ gen' \in [RunIds -> Nat]
      BY <2>1, <2>3 DEF Statuses
    <2>6. \A q \in RunIds : Exists(q)' => session'[q] \in Sessions
      BY <2>1, <2>2 DEF Claimable
    <2>7. \A v \in Workers : held'[v] # NoLease => held'[v].run \in RunIds
      BY <2>1
    <2>. QED BY <2>1, <2>2, <2>4, <2>5, <2>6, <2>7
  <1>2b. ASSUME NEW w \in Workers, ClaimFails(w) PROVE TypeOK'
    <2>1. PICK r \in RunIds :
            held' = [held EXCEPT ![w] = [run |-> r, gen |-> gen[r] + 1, claim |-> "failed"]]
      BY <1>2b DEF ClaimFails
    <2>2. r \in 0 .. MaxRuns /\ gen[r] + 1 \in Nat
      BY CoordinatorAssumption DEF RunIds
    <2>3. held' \in [Workers -> Leases]
      BY <2>1, <2>2 DEF Leases
    <2>4. \A v \in Workers : held'[v] # NoLease => held'[v].run \in RunIds
      BY <2>1
    <2>. QED BY <1>2b, <2>3, <2>4 DEF ClaimFails, rowVars
  <1>3. ASSUME NEW w \in Workers, Renew(w) PROVE TypeOK'
    BY <1>3 DEF Renew
  <1>4. ASSUME NEW w \in Workers, NEW st \in Statuses, ReleaseAs(w, st) PROVE TypeOK'
    <2>1. held[w].run \in RunIds /\ Exists(held[w].run)
      BY <1>4 DEF ReleaseAs, Holds, Current
    <2>2. NoLease \in Leases
      BY CoordinatorAssumption DEF NoLease, Leases
    <2>. QED BY <1>4, <2>1, <2>2 DEF ReleaseAs, Statuses, Final
  <1>5. ASSUME NEW r \in RunIds, Resume(r) PROVE TypeOK'
    BY <1>5 DEF Resume, Statuses
  <1>6. ASSUME NEW r \in RunIds, Cancel(r) PROVE TypeOK'
    BY <1>6 DEF Cancel, Statuses, Final
  <1>7. ASSUME NEW r \in RunIds, Expire(r) PROVE TypeOK'
    BY <1>7 DEF Expire
  <1>8. CASE RecoverOrphans
    BY <1>8 DEF RecoverOrphans, Lapsed, Statuses
  <1>9. ASSUME NEW w \in Workers, Drop(w) PROVE TypeOK'
    BY <1>9, CoordinatorAssumption DEF Drop, rowVars, NoLease, Leases
  <1>10. CASE DropAll
    BY <1>10, CoordinatorAssumption DEF DropAll, rowVars, NoLease, Leases
  <1>11. CASE UNCHANGED vars
    BY <1>11 DEF vars, rowVars
  <1>. QED
    BY <1>1, <1>2, <1>2b, <1>3, <1>4, <1>5, <1>6, <1>7, <1>8, <1>9, <1>10, <1>11
    DEF Next, OtherStep, LeaseCall, Complete, Relinquish, Await, StandDown,
        GiveUp, Crash, Drop, DropAll, Statuses, Final

\* Type correctness: every row, key and token keeps its type.
THEOREM TypeCorrect == Spec => []TypeOK
  BY TypeInit, TypeStep, PTL DEF Spec

-----------------------------------------------------------------------------
LEMMA InvInit == Init => NoLimbo /\ TokensBehind /\ LeaseIdentifiesHolder
  BY DEF Init, NoLimbo, TokensBehind, LeaseIdentifiesHolder, Granted, Current, NoLease

\* Steps that change no generation and no holder, and at most drop tokens.
LEMMA TokensKept ==
    ASSUME IInv, gen' = gen, holder' = holder,
           \A w \in Workers : held'[w] = held[w] \/ held'[w] = NoLease
    PROVE  TokensBehind' /\ LeaseIdentifiesHolder'
  <1>1. \A w \in Workers : Granted(w)' => Granted(w) /\ held'[w] = held[w]
    BY DEF Granted, NoLease
  <1>2. \A w \in Workers : Current(w)' => Current(w) /\ held'[w] = held[w]
    BY DEF Current
  <1>. QED BY <1>1, <1>2 DEF IInv, TokensBehind, LeaseIdentifiesHolder, Granted

\* Every step preserves the inductive invariant.
LEMMA InvStep == IInv /\ [Next]_vars => IInv'
  <1> SUFFICES ASSUME IInv, [Next]_vars PROVE IInv'
    OBVIOUS
  <1>0. TypeOK'
    BY TypeStep DEF IInv
  <1> DEFINE Rest == NoLimbo /\ TokensBehind /\ LeaseIdentifiesHolder
  <1> USE DEF IInv, TypeOK, NoLimbo, TokensBehind, LeaseIdentifiesHolder, Granted
  <1>1. ASSUME NEW s \in Sessions, NEW k \in Keys, RequestRun(s, k) PROVE Rest'
    BY <1>1, TokensKept DEF RequestRun, Exists
  <1>2. ASSUME NEW w \in Workers, Claim(w) PROVE Rest'
    <2>1. PICK r \in RunIds :
            /\ Claimable(r)
            /\ status' = [status EXCEPT ![r] = "running"]
            /\ holder' = [holder EXCEPT ![r] = w]
            /\ gen' = [gen EXCEPT ![r] = @ + 1]
            /\ expiry' = [expiry EXCEPT ![r] = "live"]
            /\ held' = [held EXCEPT ![w] = [run |-> r, gen |-> gen[r] + 1, claim |-> "committed"]]
      BY <1>2 DEF Claim
    <2>2. NoLimbo'
      BY <2>1
    <2>3. \A v \in Workers \ {w} : held'[v] = held[v]
      BY <2>1
    <2>4. /\ held'[w] = [run |-> r, gen |-> gen[r] + 1, claim |-> "committed"]
          /\ gen'[r] = gen[r] + 1
      BY <2>1
    <2>5. \A q \in RunIds : gen'[q] >= gen[q]
      BY <2>1
    <2>6. TokensBehind'
      <3>1. ASSUME NEW v \in Workers, Granted(v)'
            PROVE  /\ held'[v].gen <= gen'[held'[v].run]
                   /\ held'[v].gen = gen'[held'[v].run] => holder'[held'[v].run] = v
        <4>1. CASE v = w
          BY <2>1, <2>4, <4>1
        <4>2. CASE v # w
          <5>1. held'[v] = held[v] /\ Granted(v) /\ held[v].run \in RunIds
            BY <2>3, <3>1, <4>2 DEF NoLease
          <5>2. held[v].gen \in Nat /\ gen[held[v].run] \in Nat
            BY <5>1 DEF Leases
          <5>3. CASE held[v].run = r
            BY <2>1, <5>1, <5>2, <5>3
          <5>4. CASE held[v].run # r
            BY <2>1, <5>1, <5>2, <5>4
          <5>. QED BY <5>3, <5>4
        <4>. QED BY <4>1, <4>2
      <3>. QED BY <3>1
    <2>7. LeaseIdentifiesHolder'
      <3>1. \A v \in Workers \ {w} : held'[v] # held'[w]
        <4> SUFFICES ASSUME NEW v \in Workers \ {w}, held'[v] = held'[w] PROVE FALSE
          OBVIOUS
        <4>1. held[v].run = r /\ held[v].gen = gen[r] + 1 /\ Granted(v)
          BY <2>3, <2>4
        <4>2. gen[r] \in Nat
          OBVIOUS
        <4>. QED BY <4>1, <4>2
      <3>2. \A v \in Workers \ {w} : Current(v)' => Current(v)
        BY <2>1, <2>3 DEF Current
      <3>3. Granted(w)'
        BY <2>4
      <3>4. \A v \in Workers : Current(v)' => Granted(v)'
        BY <2>3, <3>2, <3>3
      <3>. QED BY <2>3, <3>1, <3>4
    <2>. QED BY <2>2, <2>6, <2>7
  <1>2b. ASSUME NEW w \in Workers, ClaimFails(w) PROVE Rest'
    <2>1. PICK r \in RunIds :
            held' = [held EXCEPT ![w] = [run |-> r, gen |-> gen[r] + 1, claim |-> "failed"]]
      BY <1>2b DEF ClaimFails
    <2>2. UNCHANGED rowVars
      BY <1>2b DEF ClaimFails
    <2>3. /\ held'[w] = [run |-> r, gen |-> gen[r] + 1, claim |-> "failed"]
          /\ \A v \in Workers \ {w} : held'[v] = held[v]
      BY <2>1
    <2>4. ~Current(w)'
      <3>1. gen[r] \in Nat /\ gen' = gen
        BY <2>2 DEF rowVars
      <3>. QED BY <2>3, <3>1 DEF Current
    <2>5. \A v \in Workers \ {w} : Current(v)' => Current(v)
      BY <2>2, <2>3 DEF Current, rowVars
    <2>. QED BY <2>2, <2>3, <2>4, <2>5 DEF rowVars
  <1>3. ASSUME NEW w \in Workers, Renew(w) PROVE Rest'
    BY <1>3, TokensKept DEF Renew, Holds, Current
  <1>4. ASSUME NEW w \in Workers, NEW st \in Statuses \ {"running"}, ReleaseAs(w, st)
        PROVE  Rest'
    BY <1>4, TokensKept DEF ReleaseAs, Holds, Current
  <1>5. ASSUME NEW r \in RunIds, Resume(r) PROVE Rest'
    BY <1>5, TokensKept DEF Resume
  <1>6. ASSUME NEW r \in RunIds, Cancel(r) PROVE Rest'
    <2>1. NoLimbo'
      BY <1>6 DEF Cancel, Exists, Terminal, Final
    <2>2. TokensBehind'
      <3>1. ASSUME NEW v \in Workers, Granted(v)
            PROVE  held[v].gen <= gen'[held[v].run]
                   /\ (held[v].gen = gen'[held[v].run] => holder'[held[v].run] = v)
        <4>1. held[v].gen \in Nat /\ gen[held[v].run] \in Nat /\ held[v].run \in RunIds
          BY <3>1 DEF Leases, NoLease
        <4>. QED BY <1>6, <3>1, <4>1 DEF Cancel
      <3>. QED BY <1>6, <3>1 DEF Cancel
    <2>3. LeaseIdentifiesHolder'
      <3>1. \A v \in Workers : Current(v)' => Current(v)
        BY <1>6, CoordinatorAssumption DEF Cancel, Current
      <3>. QED BY <1>6, <3>1 DEF Cancel
    <2>. QED BY <2>1, <2>2, <2>3
  <1>7. ASSUME NEW r \in RunIds, Expire(r) PROVE Rest'
    BY <1>7, TokensKept DEF Expire, Active
  <1>8. ASSUME RecoverOrphans PROVE Rest'
    BY <1>8, TokensKept DEF RecoverOrphans, Lapsed
  <1>9. ASSUME NEW w \in Workers, Drop(w) PROVE Rest'
    BY <1>9, TokensKept DEF Drop, rowVars
  <1>10. ASSUME DropAll PROVE Rest'
    BY <1>10, TokensKept DEF DropAll, rowVars
  <1>11. ASSUME UNCHANGED vars PROVE Rest'
    BY <1>11, TokensKept DEF vars, rowVars
  <1>12. Rest'
    BY <1>1, <1>2, <1>2b, <1>3, <1>4, <1>5, <1>6, <1>7, <1>8, <1>9, <1>10, <1>11
    DEF Next, OtherStep, LeaseCall, Complete, Relinquish, Await, StandDown,
        GiveUp, Crash, Drop, DropAll, Statuses, Final
  <1>. QED BY <1>0, <1>12

LEMMA Inductive == Spec => []IInv
  BY TypeInit, InvInit, InvStep, PTL DEF Spec, IInv

\* RC-4: no row is ever in a state that neither Claim nor RecoverOrphans sees.
THEOREM NoRunInLimbo == Spec => []NoLimbo
  BY Inductive, PTL DEF IInv

\* RC-3: no two workers are ever granted the same lease, and one that was not
\* granted never passes the fence, though the code lets its worker carry on.
THEOREM LeasesIdentifyHolders == Spec => []LeaseIdentifiesHolder
  BY Inductive, PTL DEF IInv

-----------------------------------------------------------------------------
\* Every step leaves the generation of a row alone or raises it.
LEMMA GenerationsRise ==
    ASSUME TypeOK, [Next]_vars, NEW r \in RunIds
    PROVE  gen'[r] \in Nat /\ gen'[r] >= gen[r]
  <1>1. gen[r] \in Nat
    BY DEF TypeOK
  <1>2. CASE gen' = gen
    BY <1>1, <1>2
  <1>3. ASSUME NEW q \in RunIds, gen' = [gen EXCEPT ![q] = @ + 1]
        PROVE  gen'[r] \in Nat /\ gen'[r] >= gen[r]
    BY <1>1, <1>3 DEF TypeOK
  <1>. QED
    BY <1>2, <1>3
    DEF Next, OtherStep, LeaseCall, Complete, Relinquish, Await, StandDown,
        GiveUp, Crash, rowVars, vars, RequestRun, Claim, ClaimFails, Renew, ReleaseAs,
        Resume, Cancel, Expire, RecoverOrphans

\* A step gives no token that a worker already carries the pass.
LEMMA NoneRegains ==
    ASSUME IInv, [Next]_vars, NEW w \in Workers,
           held[w] # NoLease, ~Current(w), held'[w] = held[w]
    PROVE  ~Current(w)'
  <1>0. TypeOK /\ held[w].run \in RunIds
    BY DEF IInv, TypeOK
  <1>1. CASE gen' = gen /\ holder' = holder
    BY <1>1 DEF Current
  <1>2. ASSUME NEW v \in Workers, Claim(v) PROVE ~Current(w)'
    <2>1. v # w
      BY <1>2, <1>0 DEF Claim, Claimable
    <2>. QED BY <1>2, <1>0, <2>1 DEF Claim, Current, TypeOK
  <1>3. ASSUME NEW r \in RunIds, Cancel(r) PROVE ~Current(w)'
    BY <1>3, <1>0, CoordinatorAssumption DEF Cancel, Current, TypeOK
  <1>. QED
    BY <1>1, <1>2, <1>3
    DEF Next, OtherStep, LeaseCall, Complete, Relinquish, Await, StandDown,
        GiveUp, Crash, rowVars, vars, RequestRun, ClaimFails, Renew, ReleaseAs,
        Resume, Expire, RecoverOrphans

\* RC-3, SL-3: a superseded lease is superseded for good.  The row comes to name
\* a worker only by that worker's own claim; the token of a granted lease is
\* behind the row's generation, and generations only rise.
THEOREM SupersededForGood == Spec => LostLeaseStaysLost
  <1> DEFINE Step == \A w \in Workers :
        held[w] # NoLease /\ ~Current(w) /\ held'[w] = held[w] =>
            /\ ~Current(w)'
            /\ Granted(w) => gen'[held[w].run] > held[w].gen
  <1>1. IInv /\ [Next]_vars => [Step]_vars
    <2> SUFFICES ASSUME IInv, [Next]_vars, NEW w \in Workers,
                        held[w] # NoLease, ~Current(w), held'[w] = held[w]
                 PROVE  /\ ~Current(w)'
                        /\ Granted(w) => gen'[held[w].run] > held[w].gen
      OBVIOUS
    <2>1. held[w].run \in RunIds /\ held[w].gen \in Nat /\ gen[held[w].run] \in Nat
      BY DEF IInv, TypeOK, Leases
    <2>2. Granted(w) => held[w].gen < gen[held[w].run]
      BY <2>1 DEF IInv, TokensBehind, Granted, Current
    <2>3. gen'[held[w].run] \in Nat /\ gen'[held[w].run] >= gen[held[w].run]
      BY <2>1, GenerationsRise DEF IInv
    <2>4. ~Current(w)'
      BY NoneRegains
    <2>. QED BY <2>1, <2>2, <2>3, <2>4
  <1>2. Spec => [][Step]_vars
    BY <1>1, Inductive, PTL DEF Spec
  <1>. QED BY <1>2 DEF LostLeaseStaysLost

\* A finished run stays as it finished: no action is enabled on its row.
THEOREM FinishedForGood == Spec => TerminalIsFinal
  <1> DEFINE Step == \A r \in RunIds :
        Terminal(r) => status'[r] = status[r] /\ gen'[r] = gen[r]
  <1>1. IInv /\ [Next]_vars => [Step]_vars
    <2> SUFFICES ASSUME IInv, Next, NEW r \in RunIds, Terminal(r)
                 PROVE  status'[r] = status[r] /\ gen'[r] = gen[r]
      BY DEF vars, rowVars
    <2>1. TypeOK
      BY DEF IInv
    <2>2. ASSUME NEW s \in Sessions, NEW k \in Keys, RequestRun(s, k)
          PROVE  status'[r] = status[r] /\ gen'[r] = gen[r]
      BY <2>1, <2>2 DEF RequestRun, Exists, Terminal, Final, TypeOK
    <2>3. ASSUME NEW w \in Workers, Claim(w)
          PROVE  status'[r] = status[r] /\ gen'[r] = gen[r]
      BY <2>1, <2>3 DEF Claim, Claimable, Terminal, Final, TypeOK
    <2>4. ASSUME NEW w \in Workers, NEW st \in Statuses, ReleaseAs(w, st)
          PROVE  status'[r] = status[r] /\ gen'[r] = gen[r]
      BY <2>1, <2>4 DEF ReleaseAs, Holds, Current, Terminal, Final, TypeOK
    <2>5. ASSUME NEW q \in RunIds, Resume(q) \/ Cancel(q) \/ Expire(q)
          PROVE  status'[r] = status[r] /\ gen'[r] = gen[r]
      BY <2>1, <2>5 DEF Resume, Cancel, Expire, Terminal, Final, TypeOK
    <2>6. ASSUME RecoverOrphans
          PROVE  status'[r] = status[r] /\ gen'[r] = gen[r]
      BY <2>1, <2>6 DEF RecoverOrphans, Lapsed, Terminal, Final, TypeOK
    <2>. QED
      BY <2>2, <2>3, <2>4, <2>5, <2>6
      DEF Next, OtherStep, LeaseCall, Complete, Relinquish, Await, StandDown,
          GiveUp, Crash, rowVars, ClaimFails, Renew, Statuses, Final
  <1>2. Spec => [][Step]_vars
    BY <1>1, Inductive, PTL DEF Spec
  <1>. QED BY <1>2 DEF TerminalIsFinal

-----------------------------------------------------------------------------
LEMMA TimelyIsNext == [TimelyNext]_vars => [Next]_vars
  BY DEF TimelyNext, Next

LEMMA TimelyInductive == TimelySpec => []IInv
  BY TypeInit, InvInit, InvStep, TimelyIsNext, PTL DEF TimelySpec, IInv

\* A step that makes no run an owner, and moves no run to another project,
\* cannot give a project a second owner.
LEMMA NoNewOwner ==
    ASSUME OneOwnerPerProject,
           \A r \in RunIds : OwnsProject(r)' => OwnsProject(r),
           \A r \in RunIds : OwnsProject(r) => session'[r] = session[r],
           \A r \in RunIds : OwnsProject(r) => Exists(r)
    PROVE  OneOwnerPerProject'
  BY DEF OneOwnerPerProject, Siblings, Project, Exists, OwnsProject, Active

\* On-time steps keep the project's single owner: only Claim makes an owner,
\* and it looks at every sibling first.
LEMMA OneOwnerStep == IInv /\ OneOwnerPerProject /\ [TimelyNext]_vars => OneOwnerPerProject'
  <1> SUFFICES ASSUME IInv, OneOwnerPerProject, [TimelyNext]_vars
               PROVE  OneOwnerPerProject'
    OBVIOUS
  <1>0. TypeOK /\ NoLimbo
    BY DEF IInv
  <1>a. \A r \in RunIds : OwnsProject(r) => Exists(r)
    BY DEF OwnsProject, Active, Exists
  <1> DEFINE NoNew ==
        /\ \A r \in RunIds : OwnsProject(r)' => OwnsProject(r)
        /\ \A r \in RunIds : OwnsProject(r) => session'[r] = session[r]
  <1>1. ASSUME NEW s \in Sessions, NEW k \in Keys, RequestRun(s, k) PROVE NoNew
    BY <1>0, <1>1 DEF RequestRun, OwnsProject, Active, Exists, TypeOK
  <1>2. ASSUME NEW w \in Workers, Claim(w) PROVE OneOwnerPerProject'
    <2>1. PICK r \in RunIds :
            /\ Claimable(r)
            /\ status' = [status EXCEPT ![r] = "running"]
            /\ expiry' = [expiry EXCEPT ![r] = "live"]
      BY <1>2 DEF Claim
    <2>2. session' = session
      BY <1>2 DEF Claim
    <2>3. \A q \in RunIds \ {r} : /\ OwnsProject(q)' <=> OwnsProject(q)
                                 /\ Exists(q)' <=> Exists(q)
      BY <1>0, <2>1 DEF OwnsProject, Active, Exists, TypeOK
    <2>4. \A q \in Siblings(r) : ~OwnsProject(q)
      BY <2>1 DEF Claimable, OwnsProject
    <2>5. Exists(r) /\ Exists(r)'
      BY <1>0, <2>1 DEF Claimable, Exists, TypeOK
    <2>6. \A p, q \in RunIds : q \in Siblings(p)' <=> q \in Siblings(p)
      BY <1>0, <2>1, <2>2, <2>5 DEF Siblings, Project, Exists, TypeOK
    <2>7. \A p, q \in RunIds : q \in Siblings(p) => p \in Siblings(q)
      BY DEF Siblings
    <2>8. \A p \in RunIds : Siblings(p) \subseteq RunIds /\ Siblings(p)' \subseteq RunIds
      BY DEF Siblings, RunIds
    <2>9. ASSUME NEW p \in RunIds, NEW q \in RunIds, q \in Siblings(p), OwnsProject(p)'
          PROVE  ~OwnsProject(q)'
      <3>1. p # q
        BY <2>9 DEF Siblings
      <3>2. CASE p = r
        BY <2>3, <2>4, <2>9, <3>1, <3>2 DEF OwnsProject, Active, Siblings
      <3>3. CASE q = r
        BY <2>3, <2>4, <2>7, <2>9, <3>1, <3>3 DEF OwnsProject, Active, Siblings
      <3>4. CASE p # r /\ q # r
        BY <2>3, <2>9, <3>4 DEF OneOwnerPerProject, OwnsProject, Active, Siblings
      <3>. QED BY <3>2, <3>3, <3>4
    <2>. QED BY <2>6, <2>8, <2>9 DEF OneOwnerPerProject
  <1>3. ASSUME NEW w \in Workers, OnTime(w), Renew(w) PROVE NoNew
    BY <1>0, <1>3 DEF Renew, OnTime, Holds, Current, OwnsProject, Active, TypeOK
  <1>4. ASSUME NEW w \in Workers, NEW st \in Statuses \ {"running"},
               OnTime(w), ReleaseAs(w, st)
        PROVE  NoNew
    BY <1>0, <1>4 DEF ReleaseAs, OnTime, Holds, Current, OwnsProject, Active, TypeOK
  <1>5. ASSUME NEW r \in RunIds, Resume(r) \/ Cancel(r) \/ Expire(r) PROVE NoNew
    BY <1>0, <1>5
    DEF Resume, Cancel, Expire, OwnsProject, Active, TypeOK, Exists, Terminal, Final
  <1>6. ASSUME RecoverOrphans PROVE NoNew
    BY <1>0, <1>6 DEF RecoverOrphans, Lapsed, OwnsProject, Active, TypeOK
  <1>7. ASSUME UNCHANGED rowVars PROVE NoNew
    BY <1>7 DEF rowVars, OwnsProject, Active
  <1>8. NoNew => OneOwnerPerProject'
    BY <1>a, NoNewOwner
  <1>. QED
    BY <1>1, <1>2, <1>3, <1>4, <1>5, <1>6, <1>7, <1>8
    DEF TimelyNext, OtherStep, LeaseCall, Complete, Relinquish, Await, StandDown,
        GiveUp, Crash, ClaimFails, vars, Statuses, Final

\* RC-2 for every instance, from the assumption that lease calls are on time:
\* a project never has two runs at work, or one at work and one parked.
THEOREM OneOwner == TimelySpec => []OneOwnerPerProject
  <1>1. Init => OneOwnerPerProject
    BY DEF Init, OneOwnerPerProject, OwnsProject, Active
  <1>. QED BY <1>1, OneOwnerStep, TimelyInductive, PTL DEF TimelySpec

-----------------------------------------------------------------------------
\* A step that inserts no row and touches no key.
LEMMA KeysKept ==
    ASSUME TypeOK, KeysMatchRuns, UNCHANGED <<session, keys>>,
           \A r \in RunIds : Exists(r)' <=> Exists(r)
    PROVE  KeysMatchRuns'
  <1>1. \A s \in Sessions, k \in Keys : keys[s][k] # 0 => keys[s][k] \in RunIds
    BY DEF TypeOK, RunIds
  <1>. QED BY <1>1 DEF KeysMatchRuns

LEMMA KeysStep == TypeOK /\ KeysMatchRuns /\ [Next]_vars => KeysMatchRuns'
  <1> SUFFICES ASSUME TypeOK, KeysMatchRuns, [Next]_vars PROVE KeysMatchRuns'
    OBVIOUS
  <1> DEFINE Kept == UNCHANGED <<session, keys>> /\ \A r \in RunIds : Exists(r)' <=> Exists(r)
  <1>1. ASSUME NEW s \in Sessions, NEW k \in Keys, RequestRun(s, k) PROVE KeysMatchRuns'
    <2>1. PICK r \in RunIds :
            /\ ~Exists(r)
            /\ status' = [status EXCEPT ![r] = "queued"]
            /\ session' = [session EXCEPT ![r] = s]
            /\ keys' = [keys EXCEPT ![s][k] = r]
      BY <1>1 DEF RequestRun
    <2>2. /\ \A q \in RunIds : Exists(q)' <=> Exists(q) \/ q = r
          /\ \A q \in RunIds \ {r} : session'[q] = session[q]
          /\ session'[r] = s
      BY <2>1 DEF TypeOK, Exists
    <2>3. /\ keys'[s][k] = r
          /\ \A t \in Sessions, j \in Keys : t # s \/ j # k => keys'[t][j] = keys[t][j]
      BY <2>1 DEF TypeOK
    <2>4. \A t \in Sessions, j \in Keys : keys[t][j] # 0 => keys[t][j] \in RunIds \ {r}
      BY <2>1 DEF TypeOK, RunIds, KeysMatchRuns
    <2>5. r # 0
      BY DEF RunIds
    <2>6. ASSUME NEW t \in Sessions, NEW j \in Keys, keys'[t][j] # 0
          PROVE  /\ status'[keys'[t][j]] # "absent"
                 /\ session'[keys'[t][j]] = t
                 /\ \A u \in Sessions, i \in Keys : keys'[u][i] = keys'[t][j] => u = t /\ i = j
      <3>1. CASE t = s /\ j = k
        <4>1. keys'[t][j] = r /\ status'[r] # "absent" /\ session'[r] = t
          BY <2>2, <2>3, <3>1 DEF Exists
        <4>2. \A u \in Sessions, i \in Keys : ~(u = t /\ i = j) => keys'[u][i] # r
          BY <2>3, <2>4, <2>5, <3>1
        <4>. QED BY <4>1, <4>2
      <3>2. CASE ~(t = s /\ j = k)
        <4>1. keys'[t][j] = keys[t][j] /\ keys[t][j] \in RunIds \ {r}
          BY <2>3, <2>4, <2>6, <3>2
        <4>2. /\ Exists(keys[t][j]) /\ session[keys[t][j]] = t
              /\ \A u \in Sessions, i \in Keys : keys[u][i] = keys[t][j] => u = t /\ i = j
          BY <2>6, <4>1 DEF KeysMatchRuns
        <4>3. status'[keys[t][j]] # "absent" /\ session'[keys[t][j]] = t
          BY <2>2, <4>1, <4>2 DEF Exists
        <4>4. \A u \in Sessions, i \in Keys : keys'[u][i] = keys[t][j] => keys[u][i] = keys[t][j]
          BY <2>3, <4>1
        <4>. QED BY <4>1, <4>2, <4>3, <4>4
      <3>. QED BY <3>1, <3>2
    <2>7. ASSUME NEW q \in RunIds, Exists(q)' PROVE \E i \in Keys : keys'[session'[q]][i] = q
      <3>1. CASE q = r
        BY <2>2, <2>3, <3>1
      <3>2. CASE q # r
        <4>1. Exists(q) /\ session'[q] = session[q] /\ session[q] \in Sessions
          BY <2>2, <2>7, <3>2 DEF TypeOK
        <4>2. PICK i \in Keys : keys[session[q]][i] = q
          BY <4>1 DEF KeysMatchRuns
        <4>3. ~(session[q] = s /\ i = k)
          BY <1>1, <4>2 DEF RequestRun, RunIds
        <4>. QED BY <2>3, <4>1, <4>2, <4>3
      <3>. QED BY <3>1, <3>2
    <2>. QED BY <2>6, <2>7 DEF KeysMatchRuns, Exists
  <1>2. ASSUME NEW w \in Workers, Claim(w) PROVE Kept
    BY <1>2 DEF Claim, Claimable, TypeOK, Exists
  <1>3. ASSUME NEW w \in Workers, NEW st \in Statuses, ReleaseAs(w, st) PROVE Kept
    BY <1>3 DEF ReleaseAs, Holds, Current, TypeOK, Exists, Statuses, Final
  <1>4. ASSUME NEW r \in RunIds, Resume(r) \/ Cancel(r) PROVE Kept
    BY <1>4 DEF Resume, Cancel, TypeOK, Exists
  <1>5. ASSUME RecoverOrphans PROVE Kept
    BY <1>5 DEF RecoverOrphans, Lapsed, TypeOK, Exists
  <1>6. ASSUME UNCHANGED <<status, session, keys>> PROVE Kept
    BY <1>6 DEF Exists
  <1>7. Kept => KeysMatchRuns'
    BY KeysKept
  <1>. QED
    BY <1>1, <1>2, <1>3, <1>4, <1>5, <1>6, <1>7
    DEF Next, OtherStep, LeaseCall, Renew, Complete, Relinquish, Await, StandDown,
        GiveUp, Crash, ClaimFails, Expire, vars, rowVars, Statuses, Final

\* RC-1 for every instance: a retried request finds its run, and no other.
THEOREM KeysAgree == Spec => []KeysMatchRuns
  <1>1. Init => KeysMatchRuns
    BY DEF Init, KeysMatchRuns, Exists
  <1>. QED BY <1>1, KeysStep, TypeCorrect, PTL DEF Spec

-----------------------------------------------------------------------------
LEMMA ActiveFinite ==
    ASSUME NEW t
    PROVE  IsFiniteSet(ActiveInTenant(t)) /\ Cardinality(ActiveInTenant(t)) \in Nat
  <1>1. IsFiniteSet(RunIds)
    BY CoordinatorAssumption, FS_Interval DEF RunIds
  <1>2. ActiveInTenant(t) \subseteq RunIds
    BY DEF ActiveInTenant
  <1>. QED BY <1>1, <1>2, FS_Subset, FS_CardinalityType

LEMMA QuotaStep == IInv /\ TenantWithinQuota /\ [TimelyNext]_vars => TenantWithinQuota'
  <1> SUFFICES ASSUME IInv, TenantWithinQuota, [TimelyNext]_vars, NEW t \in Tenants
               PROVE  Cardinality(ActiveInTenant(t)') <= MaxConcurrent[t]
    BY DEF TenantWithinQuota
  <1>0. TypeOK /\ MaxConcurrent[t] \in Nat
    BY CoordinatorAssumption DEF IInv
  <1> DEFINE Fewer == ActiveInTenant(t)' \subseteq ActiveInTenant(t)
  <1>1. ASSUME NEW s \in Sessions, NEW k \in Keys, RequestRun(s, k) PROVE Fewer
    BY <1>0, <1>1 DEF RequestRun, ActiveInTenant, Active, Tenant, Project, Exists, TypeOK
  <1>2. ASSUME NEW w \in Workers, Claim(w)
        PROVE  Cardinality(ActiveInTenant(t)') <= MaxConcurrent[t]
    <2>1. PICK r \in RunIds :
            /\ Claimable(r)
            /\ status' = [status EXCEPT ![r] = "running"]
            /\ expiry' = [expiry EXCEPT ![r] = "live"]
      BY <1>2 DEF Claim
    <2>2. session' = session
      BY <1>2 DEF Claim
    <2>3. ActiveInTenant(t)' \subseteq ActiveInTenant(t) \cup {r}
      BY <1>0, <2>1, <2>2 DEF ActiveInTenant, Active, Tenant, Project, TypeOK
    <2>4. CASE Tenant(r) = t
      <3>1. Cardinality(ActiveInTenant(t)) < MaxConcurrent[t]
        BY <2>1, <2>4 DEF Claimable
      <3>2. /\ IsFiniteSet(ActiveInTenant(t) \cup {r})
            /\ Cardinality(ActiveInTenant(t) \cup {r}) <= Cardinality(ActiveInTenant(t)) + 1
            /\ Cardinality(ActiveInTenant(t) \cup {r}) \in Nat
        <4>1. IsFiniteSet(ActiveInTenant(t)) /\ Cardinality(ActiveInTenant(t)) \in Nat
          BY ActiveFinite
        <4>2. /\ IsFiniteSet(ActiveInTenant(t) \cup {r})
              /\ Cardinality(ActiveInTenant(t) \cup {r}) =
                    IF r \in ActiveInTenant(t) THEN Cardinality(ActiveInTenant(t))
                    ELSE Cardinality(ActiveInTenant(t)) + 1
          BY <4>1, FS_AddElement
        <4>. QED BY <4>1, <4>2
      <3>3. /\ Cardinality(ActiveInTenant(t)') <= Cardinality(ActiveInTenant(t) \cup {r})
            /\ Cardinality(ActiveInTenant(t)') \in Nat
        BY <2>3, <3>2, FS_Subset, FS_CardinalityType
      <3>. QED BY <1>0, <3>1, <3>2, <3>3, ActiveFinite
    <2>5. CASE Tenant(r) # t
      <3>1. r \notin ActiveInTenant(t)'
        BY <2>2, <2>5 DEF ActiveInTenant, Tenant, Project
      <3>2. Fewer
        BY <2>3, <3>1
      <3>3. /\ Cardinality(ActiveInTenant(t)') <= Cardinality(ActiveInTenant(t))
            /\ Cardinality(ActiveInTenant(t)') \in Nat
        BY <3>2, ActiveFinite, FS_Subset, FS_CardinalityType
      <3>. QED BY <1>0, <3>3, ActiveFinite DEF TenantWithinQuota
    <2>. QED BY <2>4, <2>5
  <1>3. ASSUME NEW w \in Workers, OnTime(w), Renew(w) PROVE Fewer
    BY <1>0, <1>3 DEF Renew, OnTime, Holds, Current, ActiveInTenant, Active, Tenant, Project, TypeOK
  <1>4. ASSUME NEW w \in Workers, NEW st \in Statuses \ {"running"}, ReleaseAs(w, st)
        PROVE  Fewer
    BY <1>0, <1>4
    DEF ReleaseAs, Holds, Current, ActiveInTenant, Active, Tenant, Project, TypeOK
  <1>5. ASSUME NEW r \in RunIds, Resume(r) \/ Cancel(r) \/ Expire(r) PROVE Fewer
    BY <1>0, <1>5
    DEF Resume, Cancel, Expire, ActiveInTenant, Active, Tenant, Project, TypeOK
  <1>6. ASSUME RecoverOrphans PROVE Fewer
    BY <1>0, <1>6 DEF RecoverOrphans, Lapsed, ActiveInTenant, Active, Tenant, Project, TypeOK
  <1>7. ASSUME UNCHANGED rowVars PROVE Fewer
    BY <1>7 DEF rowVars, ActiveInTenant, Active, Tenant, Project
  <1>8. Fewer => Cardinality(ActiveInTenant(t)') <= MaxConcurrent[t]
    <2> SUFFICES ASSUME Fewer PROVE Cardinality(ActiveInTenant(t)') <= MaxConcurrent[t]
      OBVIOUS
    <2>1. /\ Cardinality(ActiveInTenant(t)') <= Cardinality(ActiveInTenant(t))
          /\ Cardinality(ActiveInTenant(t)') \in Nat
      BY ActiveFinite, FS_Subset, FS_CardinalityType
    <2>. QED BY <1>0, <2>1, ActiveFinite DEF TenantWithinQuota
  <1>. QED
    BY <1>1, <1>2, <1>3, <1>4, <1>5, <1>6, <1>7, <1>8
    DEF TimelyNext, OtherStep, LeaseCall, Complete, Relinquish, Await, StandDown,
        GiveUp, Crash, ClaimFails, vars, Statuses, Final

\* The per-tenant quota for every instance, when lease calls are on time: a
\* claim counts first, and no other step puts a run to work.
THEOREM QuotaKept == TimelySpec => []TenantWithinQuota
  <1>1. Init => TenantWithinQuota
    <2> SUFFICES ASSUME Init, NEW t \in Tenants
                 PROVE  Cardinality(ActiveInTenant(t)) <= MaxConcurrent[t]
      BY DEF TenantWithinQuota
    <2>1. ActiveInTenant(t) = {}
      BY DEF Init, ActiveInTenant, Active
    <2>. QED BY <2>1, FS_EmptySet, CoordinatorAssumption
  <1>. QED BY <1>1, QuotaStep, TimelyInductive, PTL DEF TimelySpec

-----------------------------------------------------------------------------
(***************************************************************************)
(* RunCoordinator implements ProjectTurns when lease calls are on time.     *)
(***************************************************************************)

\* The three variables of ProjectTurns.
Phase == [r \in RunIds |-> PhaseOf(r)]
ProjectColumn == [r \in RunIds |-> IF Exists(r) THEN Project(r) ELSE NoSession]
Turn == [p \in Projects |-> TurnOf(p)]

Owner(r, p) == OwnsProject(r) /\ Project(r) = p

\* TurnOf says who owns the project, if anyone does.
TurnsMeanOwners ==
    \A p \in Projects :
        /\ \A r \in RunIds : Owner(r, p) => TurnOf(p) = r
        /\ (\A r \in RunIds : ~Owner(r, p)) => TurnOf(p) = 0

LEMMA TurnIsOwner == OneOwnerPerProject => TurnsMeanOwners
  <1> SUFFICES ASSUME OneOwnerPerProject, NEW p \in Projects
               PROVE  /\ \A r \in RunIds : Owner(r, p) => TurnOf(p) = r
                      /\ (\A r \in RunIds : ~Owner(r, p)) => TurnOf(p) = 0
    BY DEF TurnsMeanOwners
  <1>1. ASSUME NEW r \in RunIds, Owner(r, p) PROVE TurnOf(p) = r
    <2>1. \A q \in RunIds : Owner(q, p) => q = r
      BY <1>1 DEF Owner, OneOwnerPerProject, Siblings, Exists, OwnsProject, Active
    <2>2. TurnOf(p) = CHOOSE q \in RunIds : OwnsProject(q) /\ Project(q) = p
      BY <1>1 DEF TurnOf, Owner
    <2>3. TurnOf(p) \in RunIds /\ Owner(TurnOf(p), p)
      BY <1>1, <2>2 DEF Owner
    <2>. QED BY <2>1, <2>3
  <1>2. (\A r \in RunIds : ~Owner(r, p)) => TurnOf(p) = 0
    BY DEF TurnOf, Owner
  <1>. QED BY <1>1, <1>2

\* The same owners, the same turns.
LEMMA SameTurns ==
    ASSUME TurnsMeanOwners, TurnsMeanOwners',
           \A r \in RunIds, p \in Projects : Owner(r, p)' <=> Owner(r, p)
    PROVE  Turn' = Turn
  <1>1. \A p \in Projects : TurnOf(p)' = TurnOf(p)
    BY DEF TurnsMeanOwners
  <1>. QED BY <1>1 DEF Turn

\* A run gives its project back.
LEMMA TurnGivenBack ==
    ASSUME TurnsMeanOwners, TurnsMeanOwners', OneOwnerPerProject,
           NEW r \in RunIds, NEW p \in Projects, Owner(r, p), ~OwnsProject(r)',
           \A q \in RunIds \ {r}, u \in Projects : Owner(q, u)' <=> Owner(q, u)
    PROVE  Turn' = [Turn EXCEPT ![p] = 0]
  <1>1. ASSUME NEW u \in Projects, u # p PROVE TurnOf(u)' = TurnOf(u)
    <2>1. ~Owner(r, u) /\ ~Owner(r, u)'
      BY <1>1 DEF Owner
    <2>. QED BY <2>1 DEF TurnsMeanOwners
  <1>2. TurnOf(p)' = 0
    <2>1. \A q \in RunIds \ {r} : ~Owner(q, p)
      BY DEF Owner, OneOwnerPerProject, Siblings, Exists, OwnsProject, Active
    <2>2. \A q \in RunIds : ~Owner(q, p)'
      BY <2>1 DEF Owner
    <2>. QED BY <2>2 DEF TurnsMeanOwners
  <1>. QED BY <1>1, <1>2 DEF Turn

\* A run takes a project nobody has.
LEMMA TurnTaken ==
    ASSUME TurnsMeanOwners, TurnsMeanOwners',
           NEW r \in RunIds, NEW p \in Projects, Owner(r, p)', ~OwnsProject(r),
           \A q \in RunIds : ~Owner(q, p),
           \A q \in RunIds \ {r}, u \in Projects : Owner(q, u)' <=> Owner(q, u)
    PROVE  TurnOf(p) = 0 /\ Turn' = [Turn EXCEPT ![p] = r]
  <1>1. ASSUME NEW u \in Projects, u # p PROVE TurnOf(u)' = TurnOf(u)
    <2>1. ~Owner(r, u) /\ ~Owner(r, u)'
      BY <1>1 DEF Owner
    <2>. QED BY <2>1 DEF TurnsMeanOwners
  <1>2. TurnOf(p) = 0 /\ TurnOf(p)' = r
    BY DEF TurnsMeanOwners
  <1>. QED BY <1>1, <1>2 DEF Turn

-----------------------------------------------------------------------------
LEMMA InitTurns == Init => Turns!Init
  <1> SUFFICES ASSUME Init PROVE Turns!Init
    OBVIOUS
  <1>1. \A r \in RunIds : PhaseOf(r) = "absent" /\ ~Exists(r) /\ ~OwnsProject(r)
    BY DEF Init, PhaseOf, Active, Terminal, Final, Exists, OwnsProject
  <1>2. \A p \in Projects : TurnOf(p) = 0
    BY <1>1 DEF TurnOf
  <1>. QED BY <1>1, <1>2 DEF Turns!Init

\* One row changes, and stays where it is.
LEMMA OneRow ==
    ASSUME TypeOK, TypeOK', NEW r \in RunIds, Exists(r), Exists(r)', session' = session,
           \A q \in RunIds \ {r} : status'[q] = status[q] /\ expiry'[q] = expiry[q]
    PROVE  /\ Phase' = [Phase EXCEPT ![r] = PhaseOf(r)']
           /\ ProjectColumn' = ProjectColumn
           /\ \A q \in RunIds \ {r}, u \in Projects : Owner(q, u)' <=> Owner(q, u)
           /\ Project(r) \in Projects /\ Project(r)' = Project(r)
  <1>1. \A q \in RunIds \ {r} : PhaseOf(q)' = PhaseOf(q) /\ (Exists(q)' <=> Exists(q))
    BY DEF PhaseOf, Active, Terminal, Exists
  <1>2. Phase' = [Phase EXCEPT ![r] = PhaseOf(r)']
    BY <1>1 DEF Phase
  <1>3. ProjectColumn' = ProjectColumn
    BY <1>1 DEF ProjectColumn, Project
  <1>4. \A q \in RunIds \ {r}, u \in Projects : Owner(q, u)' <=> Owner(q, u)
    BY DEF Owner, OwnsProject, Active, Project
  <1>5. Project(r) \in Projects /\ Project(r)' = Project(r)
    BY CoordinatorAssumption DEF TypeOK, Project
  <1>. QED BY <1>2, <1>3, <1>4, <1>5

\* What the run's own change does to its project's turn.
LEMMA RowSteps ==
    ASSUME TypeOK, TypeOK', TurnsMeanOwners, TurnsMeanOwners', OneOwnerPerProject,
           NEW r \in RunIds, Exists(r), Exists(r)', session' = session,
           \A q \in RunIds \ {r} : status'[q] = status[q] /\ expiry'[q] = expiry[q]
    PROVE  /\ PhaseOf(r) \in {"active", "parked"} /\ PhaseOf(r)' \in {"ready", "ended"}
                => Turns!GiveBack(r, PhaseOf(r)')
           /\ PhaseOf(r) = "active" /\ PhaseOf(r)' = "parked" => Turns!Park(r)
           /\ PhaseOf(r) = "ready" /\ PhaseOf(r)' = "ended" => Turns!Withdraw(r)
           /\ PhaseOf(r) = PhaseOf(r)' => UNCHANGED Turns!vars
  <1>1. /\ Phase' = [Phase EXCEPT ![r] = PhaseOf(r)']
        /\ ProjectColumn' = ProjectColumn
        /\ \A q \in RunIds \ {r}, u \in Projects : Owner(q, u)' <=> Owner(q, u)
        /\ Project(r) \in Projects /\ Project(r)' = Project(r)
    BY OneRow
  <1>2. OwnsProject(r) <=> PhaseOf(r) \in {"active", "parked"}
    BY DEF OwnsProject, PhaseOf, Active, Terminal, Final
  <1>3. OwnsProject(r)' <=> PhaseOf(r)' \in {"active", "parked"}
    BY DEF OwnsProject, PhaseOf, Active, Terminal, Final
  <1>4. Phase[r] = PhaseOf(r) /\ ProjectColumn[r] = Project(r)
    BY DEF Phase, ProjectColumn
  <1>5. (OwnsProject(r)' <=> OwnsProject(r)) => Turn' = Turn
    <2> SUFFICES ASSUME OwnsProject(r)' <=> OwnsProject(r) PROVE Turn' = Turn
      OBVIOUS
    <2>1. \A u \in Projects : Owner(r, u)' <=> Owner(r, u)
      BY <1>1 DEF Owner
    <2>. QED BY <1>1, <2>1, SameTurns
  <1>6. ASSUME PhaseOf(r) \in {"active", "parked"}, PhaseOf(r)' \in {"ready", "ended"}
        PROVE  Turns!GiveBack(r, PhaseOf(r)')
    <2>1. PICK p \in Projects : p = Project(r)
      BY <1>1
    <2>2. Turn' = [Turn EXCEPT ![p] = 0]
      <3>1. Owner(r, p) /\ ~OwnsProject(r)'
        BY <1>2, <1>3, <1>6, <2>1 DEF Owner
      <3>. QED BY <1>1, <3>1, TurnGivenBack
    <2>. QED BY <1>1, <1>4, <1>6, <2>1, <2>2 DEF Turns!GiveBack, Phase, ProjectColumn, Turn
  <1>7. ASSUME PhaseOf(r) = "active", PhaseOf(r)' = "parked" PROVE Turns!Park(r)
    BY <1>1, <1>2, <1>3, <1>4, <1>5, <1>7 DEF Turns!Park, Phase, ProjectColumn, Turn
  <1>8. ASSUME PhaseOf(r) = "ready", PhaseOf(r)' = "ended" PROVE Turns!Withdraw(r)
    BY <1>1, <1>2, <1>3, <1>4, <1>5, <1>8 DEF Turns!Withdraw, Phase, ProjectColumn, Turn
  <1>9. ASSUME PhaseOf(r) = PhaseOf(r)' PROVE UNCHANGED Turns!vars
    <2>1. Phase' = Phase
      BY <1>1, <1>4, <1>9 DEF Phase
    <2>2. Turn' = Turn
      BY <1>2, <1>3, <1>5, <1>9
    <2>. QED BY <1>1, <2>1, <2>2 DEF Turns!vars, Phase, ProjectColumn, Turn
  <1>. QED BY <1>6, <1>7, <1>8, <1>9

\* The steps that leave rows other than r alone, and do not claim.
LEMMA TurnsOfRow ==
    ASSUME TypeOK, TypeOK', TurnsMeanOwners, TurnsMeanOwners', OneOwnerPerProject,
           NEW r \in RunIds, Exists(r), Exists(r)', session' = session,
           \A q \in RunIds \ {r} : status'[q] = status[q] /\ expiry'[q] = expiry[q],
           \/ PhaseOf(r) \in {"active", "parked"} /\ PhaseOf(r)' \in {"ready", "ended"}
           \/ PhaseOf(r) = "active" /\ PhaseOf(r)' = "parked"
           \/ PhaseOf(r) = "ready" /\ PhaseOf(r)' = "ended"
           \/ PhaseOf(r) = PhaseOf(r)'
    PROVE  [Turns!Next]_Turns!vars
  <1>1. \A next \in {"ready", "ended"} : Turns!GiveBack(r, next) => Turns!Next
    BY DEF Turns!Next
  <1>2. Turns!Park(r) \/ Turns!Withdraw(r) => Turns!Next
    BY DEF Turns!Next
  <1>. QED BY <1>1, <1>2, RowSteps

\* Every step of the coordinator with lease calls on time is a step of
\* ProjectTurns or none.
LEMMA TurnsStep ==
    ASSUME IInv, TypeOK', OneOwnerPerProject, TurnsMeanOwners, TurnsMeanOwners',
           [TimelyNext]_vars
    PROVE  [Turns!Next]_Turns!vars
  <1>0. TypeOK /\ NoLimbo
    BY DEF IInv
  <1> DEFINE Goal == [Turns!Next]_Turns!vars
  <1>1. ASSUME NEW s \in Sessions, NEW k \in Keys, RequestRun(s, k) PROVE Goal
    <2>1. PICK r \in RunIds :
            /\ ~Exists(r)
            /\ status' = [status EXCEPT ![r] = "queued"]
            /\ session' = [session EXCEPT ![r] = s]
      BY <1>1 DEF RequestRun
    <2>2. expiry' = expiry
      BY <1>1 DEF RequestRun
    <2>3. /\ \A q \in RunIds \ {r} : /\ status'[q] = status[q] /\ session'[q] = session[q]
                                     /\ Exists(q)' <=> Exists(q)
          /\ status'[r] = "queued" /\ session'[r] = s /\ status[r] = "absent"
      BY <1>0, <2>1 DEF TypeOK, Exists
    <2>4. Phase' = [Phase EXCEPT ![r] = "ready"] /\ PhaseOf(r) = "absent"
      <3>1. \A q \in RunIds \ {r} : PhaseOf(q)' = PhaseOf(q)
        BY <2>2, <2>3 DEF PhaseOf, Active, Terminal
      <3>2. PhaseOf(r)' = "ready" /\ PhaseOf(r) = "absent"
        BY <2>3 DEF PhaseOf, Active, Terminal, Final
      <3>. QED BY <3>1, <3>2 DEF Phase
    <2>5. ProjectColumn' = [ProjectColumn EXCEPT ![r] = ProjectOf[s]]
      <3>1. \A q \in RunIds \ {r} : Project(q)' = Project(q)
        BY <2>3 DEF Project
      <3>2. Exists(r)' /\ Project(r)' = ProjectOf[s]
        BY <2>3 DEF Exists, Project
      <3>. QED BY <2>3, <3>1, <3>2 DEF ProjectColumn
    <2>6. Turn' = Turn
      <3>1. \A q \in RunIds, p \in Projects : Owner(q, p)' <=> Owner(q, p)
        BY <2>2, <2>3 DEF Owner, OwnsProject, Active, Project
      <3>. QED BY <3>1, SameTurns
    <2>7. ProjectOf[s] \in Projects
      BY CoordinatorAssumption
    <2>8. Turns!Accept(r, ProjectOf[s])
      BY <2>4, <2>5, <2>6 DEF Turns!Accept, Phase, ProjectColumn, Turn
    <2>. QED BY <2>7, <2>8 DEF Turns!Next
  <1>2. ASSUME NEW w \in Workers, Claim(w) PROVE Goal
    <2>1. PICK r \in RunIds :
            /\ Claimable(r)
            /\ status' = [status EXCEPT ![r] = "running"]
            /\ expiry' = [expiry EXCEPT ![r] = "live"]
      BY <1>2 DEF Claim
    <2>2. session' = session
      BY <1>2 DEF Claim
    <2>3. /\ \A q \in RunIds \ {r} : status'[q] = status[q] /\ expiry'[q] = expiry[q]
          /\ Exists(r) /\ Exists(r)'
          /\ PhaseOf(r) = "ready" /\ PhaseOf(r)' = "active"
          /\ ~OwnsProject(r) /\ OwnsProject(r)'
      BY <1>0, <2>1
      DEF TypeOK, Claimable, Exists, PhaseOf, Active, Terminal, Final, OwnsProject
    <2>4. /\ Phase' = [Phase EXCEPT ![r] = PhaseOf(r)']
          /\ ProjectColumn' = ProjectColumn
          /\ \A q \in RunIds \ {r}, u \in Projects : Owner(q, u)' <=> Owner(q, u)
          /\ Project(r) \in Projects /\ Project(r)' = Project(r)
      BY <1>0, <2>2, <2>3, OneRow
    <2>5. PICK p \in Projects : p = Project(r)
      BY <2>4
    <2>6. \A q \in RunIds : ~Owner(q, p)
      BY <2>1, <2>3, <2>5
      DEF Claimable, Owner, OwnsProject, Siblings, Active, Exists
    <2>7. TurnOf(p) = 0 /\ Turn' = [Turn EXCEPT ![p] = r]
      <3>1. Owner(r, p)'
        BY <2>3, <2>4, <2>5 DEF Owner
      <3>. QED BY <2>3, <2>4, <2>6, <3>1, TurnTaken
    <2>8. Turns!Start(r)
      <3>1. Phase[r] = "ready" /\ ProjectColumn[r] = p /\ Turn[p] = 0
        BY <2>3, <2>5, <2>7 DEF Phase, ProjectColumn, Turn
      <3>. QED BY <2>3, <2>4, <2>7, <3>1 DEF Turns!Start, Phase, ProjectColumn, Turn
    <2>. QED BY <2>8 DEF Turns!Next
  <1>3. ASSUME NEW w \in Workers, OnTime(w), Renew(w) PROVE Goal
    <2>1. expiry' = expiry /\ UNCHANGED <<status, session>>
      BY <1>0, <1>3 DEF Renew, OnTime, Holds, Current, TypeOK
    <2>. QED BY <2>1 DEF Turns!vars, PhaseOf, Active, Terminal, Exists, Project, TurnOf, OwnsProject
  <1>4. ASSUME NEW w \in Workers,
               NEW st \in {"completed", "failed", "recovering", "waiting_for_input"},
               OnTime(w), ReleaseAs(w, st)
        PROVE  Goal
    <2>1. PICK r \in RunIds : r = held[w].run /\ status[r] = "running" /\ expiry[r] = "live"
      BY <1>0, <1>4 DEF ReleaseAs, Holds, Current, OnTime, TypeOK
    <2>2. /\ status' = [status EXCEPT ![r] = st] /\ expiry' = [expiry EXCEPT ![r] = "none"]
          /\ session' = session
      BY <1>4, <2>1 DEF ReleaseAs
    <2>3. status'[r] = st /\ \A q \in RunIds \ {r} : status'[q] = status[q] /\ expiry'[q] = expiry[q]
      BY <1>0, <2>1, <2>2 DEF TypeOK
    <2>4. Exists(r) /\ Exists(r)' /\ PhaseOf(r) = "active" /\ PhaseOf(r)' \in {"ready", "ended", "parked"}
      BY <2>1, <2>3 DEF Exists, PhaseOf, Active, Terminal, Final
    <2>. QED BY <1>0, <2>1, <2>2, <2>3, <2>4, TurnsOfRow
  <1>5. ASSUME NEW r \in RunIds, Resume(r) \/ Cancel(r) \/ Expire(r) PROVE Goal
    <2>1. /\ session' = session /\ Exists(r) /\ Exists(r)'
          /\ \A q \in RunIds \ {r} : status'[q] = status[q] /\ expiry'[q] = expiry[q]
      BY <1>0, <1>5 DEF Resume, Cancel, Expire, TypeOK, Exists, Active
    <2>2. \/ PhaseOf(r) \in {"active", "parked"} /\ PhaseOf(r)' \in {"ready", "ended"}
          \/ PhaseOf(r) = "ready" /\ PhaseOf(r)' = "ended"
      <3>1. CASE Resume(r)
        BY <1>0, <3>1 DEF Resume, PhaseOf, Active, Terminal, Final, TypeOK
      <3>2. CASE Cancel(r)
        BY <1>0, <3>2 DEF Cancel, PhaseOf, Active, Terminal, Final, TypeOK, Exists
      <3>3. CASE Expire(r)
        BY <1>0, <3>3 DEF Expire, PhaseOf, Active, Terminal, Final, TypeOK
      <3>. QED BY <1>5, <3>1, <3>2, <3>3
    <2>. QED BY <1>0, <2>1, <2>2, TurnsOfRow
  <1>6. ASSUME RecoverOrphans PROVE Goal
    <2>1. /\ \A q \in RunIds : status'[q] = IF Lapsed(q) THEN "recovering" ELSE status[q]
          /\ UNCHANGED <<session, expiry>>
      BY <1>6 DEF RecoverOrphans
    <2>2. \A q \in RunIds : PhaseOf(q)' = PhaseOf(q) /\ (Exists(q)' <=> Exists(q))
      BY <2>1 DEF PhaseOf, Active, Terminal, Final, Lapsed, Exists
    <2>3. \A q \in RunIds, p \in Projects : Owner(q, p)' <=> Owner(q, p)
      BY <2>1 DEF Owner, OwnsProject, Active, Lapsed, Project
    <2>4. Phase' = Phase /\ ProjectColumn' = ProjectColumn /\ Turn' = Turn
      BY <2>1, <2>2, <2>3, SameTurns DEF Phase, ProjectColumn, Project
    <2>. QED BY <2>4 DEF Turns!vars, Phase, ProjectColumn, Turn
  <1>7. ASSUME UNCHANGED rowVars PROVE Goal
    BY <1>7 DEF rowVars, Turns!vars, PhaseOf, Active, Terminal, Exists, Project, TurnOf, OwnsProject
  <1>. QED
    BY <1>1, <1>2, <1>3, <1>4, <1>5, <1>6, <1>7
    DEF TimelyNext, OtherStep, LeaseCall, Complete, Relinquish, Await, StandDown,
        GiveUp, Crash, ClaimFails, vars

\* With lease calls on time the runs of a project take turns: the coordinator
\* implements ProjectTurns, recovery scans and renewals being stuttering steps.
THEOREM TakingTurns == TimelySpec => TakesTurns
  <1> DEFINE Inv == IInv /\ OneOwnerPerProject
  <1>1. TimelySpec => []Inv
    BY TimelyInductive, OneOwner, PTL
  <1>2. Inv /\ Inv' /\ TurnsMeanOwners /\ TurnsMeanOwners' /\ [TimelyNext]_vars
            => [Turns!Next]_Turns!vars
    BY TurnsStep DEF IInv
  <1>3. Inv => TurnsMeanOwners
    BY TurnIsOwner
  <1>. QED BY <1>1, <1>2, <1>3, InitTurns, PTL DEF TakesTurns, Turns!Spec, TimelySpec
=============================================================================
