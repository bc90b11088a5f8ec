--------------------------- MODULE FrontDoorProofs ---------------------------
(* Theorems about the components that MCFrontDoor instantiates, Preview,    *)
(* Migrations, Deadlines and WebClient, each by itself, and about the       *)
(* instance as a whole.                                                     *)
EXTENDS MCFrontDoor, AccessProofs, SpendingProofs, SequenceTheorems

-----------------------------------------------------------------------------
(* Preview *)

\* A handler that is minting has drawn a secret for a project.
MintingDrawn ==
    \A h \in Handlers : minting[h] # Pre!Rested =>
        minting[h].project \in Projects /\ minting[h].secret \in Secrets

PreviewInv == Pre!TypeOK /\ MintingDrawn /\ LinksOpen

LEMMA PreviewInvInit == Pre!Init => PreviewInv
BY PreviewAssumption
DEF Pre!Init, PreviewInv, Pre!TypeOK, MintingDrawn, LinksOpen, Pre!LinksOpen, Pre!Rested

\* A project's secret changes once, from none, when no link names the project.
LEMMA PreviewInvStep == PreviewInv /\ [Pre!Next]_(Pre!vars) => PreviewInv'
<1> SUFFICES ASSUME PreviewInv, [Pre!Next]_(Pre!vars) PROVE PreviewInv'
  OBVIOUS
<1> USE PreviewAssumption DEF PreviewInv, Pre!TypeOK, MintingDrawn, LinksOpen, Pre!LinksOpen, Pre!Opens
<1>1. ASSUME NEW h \in Handlers, NEW p \in Projects, Pre!ReuseSecret(h, p) PROVE PreviewInv'
  BY <1>1 DEF Pre!ReuseSecret
<1>2. ASSUME NEW h \in Handlers, NEW p \in Projects, NEW k \in Secrets, Pre!MintSecret(h, p, k)
      PROVE  PreviewInv'
  BY <1>2 DEF Pre!MintSecret
<1>3. ASSUME NEW h \in Handlers, Pre!StoreSecret(h) PROVE PreviewInv'
  <2> DEFINE p == minting[h].project
  <2>1. p \in Projects /\ minting[h].secret \in Secrets
    BY <1>3 DEF Pre!StoreSecret
  <2>2. Pre!TypeOK' /\ MintingDrawn'
    BY <1>3, <2>1 DEF Pre!StoreSecret, Pre!Rested
  <2>3. LinksOpen'
    <3>1. secret'[p] \in Secrets /\ links' = links \cup {<<p, secret'[p]>>}
      BY <1>3, <2>1 DEF Pre!StoreSecret
    <3>2. \A l \in links : l[1] \in Projects /\ secret'[l[1]] = secret[l[1]]
      BY <1>3, <2>1 DEF Pre!StoreSecret
    <3>. QED BY <3>1, <3>2
  <2>. QED BY <2>2, <2>3
<1>4. ASSUME NEW h \in Handlers, Pre!DropRequest(h) PROVE PreviewInv'
  BY <1>4 DEF Pre!DropRequest, Pre!Rested
<1>5. CASE UNCHANGED Pre!vars
  BY <1>5 DEF Pre!vars
<1>. QED BY <1>1, <1>2, <1>3, <1>4, <1>5 DEF Pre!Next

\* Every preview link that was handed out opens, for any number of devices that
\* ask for a project's first link at once (publish.go:59).
THEOREM EveryLinkOpens == Pre!Spec => []LinksOpen
<1>1. PreviewInv => LinksOpen BY DEF PreviewInv
<1>. QED BY <1>1, PreviewInvInit, PreviewInvStep, PTL DEF Pre!Spec

-----------------------------------------------------------------------------
(* Migrations *)

\* The statements of the scripts up to s, and of script s up to n.
Upto(s, n) == ((1 .. s - 1) \X (1 .. PerScript)) \cup ({s} \X (1 .. n))

\* What the version says has been applied, and what a process has gone through:
\* the scripts before its own, and of that one the statements that are done.
VersionApplied == (1 .. userVersion) \X (1 .. PerScript) \subseteq applied
OpenersApplied ==
    \A o \in Openers : opener[o].at # "closed" =>
        /\ opener[o].script \in 1 .. Scripts + 1
        /\ Upto(opener[o].script, opener[o].done) \subseteq applied
        /\ opener[o].at = "open" => opener[o].script > opener[o].release

MigrationsInv == Mig!TypeOK /\ VersionApplied /\ OpenersApplied

LEMMA MigrationsInvInit == Mig!Init => MigrationsInv
BY MigrationsAssumption
DEF Mig!Init, MigrationsInv, Mig!TypeOK, VersionApplied, OpenersApplied, Mig!Closed

\* Nothing is ever taken back, so a process that does not move knows what it knew.
LEMMA MigrationsInvStep == MigrationsInv /\ [Mig!Next]_(Mig!vars) => MigrationsInv'
<1> SUFFICES ASSUME MigrationsInv, [Mig!Next]_(Mig!vars) PROVE MigrationsInv'
  OBVIOUS
<1> USE MigrationsAssumption
    DEF MigrationsInv, Mig!TypeOK, VersionApplied, OpenersApplied, Upto
<1>1. ASSUME NEW o \in Openers, NEW release \in 1 .. Scripts, Mig!ReadVersion(o, release)
      PROVE  MigrationsInv'
  BY <1>1 DEF Mig!ReadVersion
<1>2. ASSUME NEW o \in Openers, Mig!ExecStatement(o) PROVE MigrationsInv'
  BY <1>2 DEF Mig!ExecStatement, Mig!AtScript
<1>3. ASSUME NEW o \in Openers, Mig!RefuseStatement(o) \/ Mig!Leave(o) PROVE MigrationsInv'
  BY <1>3 DEF Mig!RefuseStatement, Mig!Leave, Mig!Closed
<1>4. ASSUME NEW o \in Openers, Mig!SetVersion(o) PROVE MigrationsInv'
  <2> DEFINE s == opener[o].script
  <2>1. /\ s \in 1 .. Scripts /\ s + 1 \in 1 .. Scripts + 1
        /\ ((1 .. s - 1) \X (1 .. PerScript)) \cup ({s} \X (1 .. PerScript)) \subseteq applied
    BY <1>4 DEF Mig!SetVersion, Mig!AtScript
  <2>2. (1 .. s) \X (1 .. PerScript) \subseteq applied
    BY <2>1
  <2>3. Upto(s + 1, 0) \subseteq applied
    BY <2>1, <2>2
  <2>4. /\ opener'[o].script = s + 1 /\ opener'[o].done = 0 /\ opener'[o].at = "migrating"
        /\ \A q \in Openers \ {o} : opener'[q] = opener[q]
        /\ userVersion' = s /\ applied' = applied
    BY <1>4 DEF Mig!SetVersion, Mig!AtScript
  <2>5. Mig!TypeOK'
    <3> DEFINE Opener == [at : {"closed", "migrating", "open"}, release : 0 .. Scripts,
                          script : 0 .. Scripts + 1, done : 0 .. PerScript]
    <3>0. opener[o] \in Opener /\ s + 1 \in 0 .. Scripts + 1 /\ 0 \in 0 .. PerScript
      BY <2>1
    <3>1. opener'[o] \in Opener
      <4>1. opener'[o] = [opener[o] EXCEPT !.script = s + 1, !.done = 0]
        BY <1>4 DEF Mig!SetVersion
      <4>. QED BY <3>0, <4>1
    <3>2. opener' = [opener EXCEPT ![o] = opener'[o]]
      BY <1>4 DEF Mig!SetVersion
    <3>. QED BY <2>1, <2>4, <3>1, <3>2
  <2>6. VersionApplied'
    BY <2>2, <2>4
  <2>7. OpenersApplied'
    BY <2>1, <2>3, <2>4
  <2>. QED BY <2>5, <2>6, <2>7
<1>5. ASSUME NEW o \in Openers, Mig!FinishOpen(o) PROVE MigrationsInv'
  BY <1>5 DEF Mig!FinishOpen
<1>6. CASE UNCHANGED Mig!vars
  BY <1>6 DEF Mig!vars
<1>. QED BY <1>1, <1>2, <1>3, <1>4, <1>5, <1>6 DEF Mig!Next

\* A process that has the database open finds every statement of its release
\* applied, for any number of processes, releases and statements (store.go:46).
THEOREM SchemaIsWhole == Mig!Spec => []OpenSeesWholeSchema
<1>1. MigrationsInv => OpenSeesWholeSchema
  BY DEF MigrationsInv, Mig!TypeOK, OpenersApplied, Upto, OpenSeesWholeSchema,
         Mig!OpenSeesWholeSchema
<1>. QED BY <1>1, MigrationsInvInit, MigrationsInvStep, PTL DEF Mig!Spec

-----------------------------------------------------------------------------
(* Deadlines *)

\* Times that are a second apart differ in their seconds.
LEMMA SecondsApart ==
    ASSUME NEW a \in Nat, NEW b \in Nat, a + Ddl!Second <= b
    PROVE  a \div Ddl!Second < b \div Ddl!Second
<1> DEFINE S == Ddl!Second
<1>1. S \in Nat \ {0}
  BY DeadlinesAssumption DEF Ddl!Second
<1> HIDE DEF S
<1> DEFINE x == a \div S
           y == b \div S
<1>2. /\ x \in Nat /\ y \in Nat
      /\ S * x <= a /\ b < S * y + S
  BY <1>1
<1> HIDE DEF x, y
<1>3. S * x + S < S * y + S
  BY <1>1, <1>2 DEF S
<1>4. ~(y <= x)
  <2> SUFFICES ASSUME y <= x PROVE FALSE
    OBVIOUS
  <2>1. S * y <= S * x
    BY <1>1, <1>2
  <2>. QED BY <1>1, <1>2, <1>3, <2>1
<1>. QED BY <1>2, <1>4 DEF S, x, y

LEMMA TextBeforeApart ==
    ASSUME NEW a \in Nat, NEW b \in Nat, a + Ddl!Second <= b
    PROVE  Ddl!TextBefore(a, b) /\ ~Ddl!TextBefore(b, a)
<1>1. a \div Ddl!Second < b \div Ddl!Second
  BY SecondsApart
<1>2. a \div Ddl!Second \in Int /\ b \div Ddl!Second \in Int
  BY DeadlinesAssumption DEF Ddl!Second
<1>. QED BY <1>1, <1>2 DEF Ddl!TextBefore

\* What the proofs use of the constants, without the product.
LEMMA LeaseBounds ==
    /\ TTL \in Nat /\ MaxClock \in Nat /\ TTL \div 3 \in Nat
    /\ Ddl!Second \in Nat /\ TTL \div 3 + Ddl!Second <= TTL
<1>1. Base \in Nat /\ TTL \in Nat /\ Ddl!Second = Base * Base
  BY DeadlinesAssumption DEF Ddl!Second
<1>2. Base * Base \in Nat
  BY <1>1
<1>3. TTL \div 3 \in Nat
  BY <1>1
<1> HIDE DEF Ddl!Second
<1>. QED BY <1>1, <1>2, <1>3, DeadlinesAssumption

\* While the renewer runs, the last renewal is at most a third of the TTL ago.
RenewedInTime ==
    /\ renewed <= clock
    /\ renewing => clock - renewed <= TTL \div 3
    /\ status = "running" => expires = renewed + TTL

DeadlinesInv == Ddl!TypeOK /\ RenewedInTime

LEMMA DeadlinesInvInit == Ddl!Init => DeadlinesInv
<1> SUFFICES ASSUME Ddl!Init PROVE DeadlinesInv
  OBVIOUS
<1>1. clock \in 0 .. MaxClock /\ expires = clock /\ renewed = clock /\ status = "queued"
  BY DEF Ddl!Init
<1>2. renewing \in BOOLEAN /\ ~renewing
  BY DEF Ddl!Init
<1>3. expires \in 0 .. MaxClock + TTL /\ renewed <= clock
  BY <1>1, LeaseBounds
<1>. QED BY <1>1, <1>2, <1>3 DEF DeadlinesInv, Ddl!TypeOK, RenewedInTime

LEMMA DeadlinesInvStep == DeadlinesInv /\ [Ddl!Next]_(Ddl!vars) => DeadlinesInv'
<1> SUFFICES ASSUME DeadlinesInv, [Ddl!Next]_(Ddl!vars) PROVE DeadlinesInv'
  OBVIOUS
<1> USE LeaseBounds DEF DeadlinesInv, Ddl!TypeOK, RenewedInTime
<1>1. CASE Ddl!Claim
  BY <1>1 DEF Ddl!Claim
<1>2. CASE Ddl!Renew
  <2>1. CASE status = "running"
    BY <1>2, <2>1 DEF Ddl!Renew, Ddl!RenewIsDue
  <2>2. CASE status # "running"
    BY <1>2, <2>2 DEF Ddl!Renew, Ddl!RenewIsDue
  <2>. QED BY <2>1, <2>2
<1>3. CASE Ddl!Die
  BY <1>3 DEF Ddl!Die
<1>4. CASE Ddl!RecoverOrphans
  BY <1>4 DEF Ddl!RecoverOrphans
<1>5. CASE Ddl!Tick
  BY <1>5 DEF Ddl!Tick, Ddl!RenewIsDue
<1>6. CASE UNCHANGED Ddl!vars
  BY <1>6 DEF Ddl!vars
<1>. QED BY <1>1, <1>2, <1>3, <1>4, <1>5, <1>6 DEF Ddl!Next

\* A renewed lease has a second or more before it, an overdue one has a second
\* or more behind it, and there the texts are in the order of the times
\* (coordinator.go:149).
LEMMA ReadRight == DeadlinesInv => LeaseExpiryIsRead
<1> SUFFICES ASSUME DeadlinesInv, status = "running"
             PROVE  /\ renewing => ~Ddl!SeenExpired
                    /\ clock >= expires + Ddl!Second => Ddl!SeenExpired
  BY DEF LeaseExpiryIsRead, Ddl!LeaseExpiryIsRead
<1>1. clock \in Nat /\ expires \in Nat /\ Ddl!Second \in Nat
  BY LeaseBounds DEF DeadlinesInv, Ddl!TypeOK
<1>2. renewing => clock + Ddl!Second <= expires
  BY LeaseBounds DEF DeadlinesInv, Ddl!TypeOK, RenewedInTime
<1>. QED BY <1>1, <1>2, TextBeforeApart DEF Ddl!SeenExpired

\* Leases expire by the texts of their deadlines when they should, for every
\* TTL whose last two thirds are a second or more.
THEOREM ExpiryIsRead == Ddl!Spec => []LeaseExpiryIsRead
BY DeadlinesInvInit, DeadlinesInvStep, ReadRight, PTL DEF Ddl!Spec

-----------------------------------------------------------------------------
(* WebClient *)

Entries == Projects \X (1 .. MaxEvents)

\* The first event that is handled of those up to n: none above lastSeq is skipped.
FirstOf(from) == IF lastSeq > from THEN lastSeq + 1 ELSE from + 1

LEMMA EventsTyped ==
    ASSUME Web!TypeOK, log \in Seq(Entries),
           NEW p \in Projects, NEW from \in 0 .. MaxEvents, NEW n \in 0 .. MaxEvents,
           Web!HandleEvents(p, from, n)
    PROVE  log' \in Seq(Entries) /\ lastSeq' \in 0 .. MaxEvents /\ runId' \in Projects \cup {NoProject}
<1> DEFINE first == FirstOf(from)
           new == [i \in 1 .. n - first + 1 |-> <<p, first + i - 1>>]
<1>1. first \in Nat \ {0}
  BY PageAssumption DEF Web!TypeOK, FirstOf
<1>2. CASE first > n
  BY <1>2 DEF Web!HandleEvents, FirstOf, Web!TypeOK
<1>3. CASE ~(first > n)
  <2>1. log' = log \o new /\ lastSeq' = n /\ runId' = p
    BY <1>3 DEF Web!HandleEvents, FirstOf
  <2>2. n - first + 1 \in Nat
    BY <1>1, <1>3, PageAssumption
  <2>3. \A i \in 1 .. n - first + 1 : <<p, first + i - 1>> \in Entries
    BY <1>1, <1>3, PageAssumption DEF Entries
  <2>4. new \in Seq(Entries)
    BY <2>2, <2>3
  <2>. QED BY <2>1, <2>4
<1>. QED BY <1>2, <1>3

\* The transcript of the first n events of a site.
Transcript(p, n) == [i \in 1 .. n |-> <<p, i>>]

LEMMA TranscriptGrows ==
    ASSUME NEW p, NEW m \in Nat, NEW n \in Nat, m <= n
    PROVE  Transcript(p, m) \o [i \in 1 .. n - m |-> <<p, m + i>>] = Transcript(p, n)
<1> DEFINE old == Transcript(p, m)
           new == [i \in 1 .. n - m |-> <<p, m + i>>]
           pairs == {p} \X Nat
<1>1. old \in Seq(pairs) /\ Len(old) = m
  BY DEF Transcript
<1>2. new \in Seq(pairs) /\ Len(new) = n - m
  BY DEF Transcript
<1>3. /\ \A i \in 1 .. m : old[i] = <<p, i>>
      /\ \A i \in 1 .. n - m : new[i] = <<p, m + i>>
  BY DEF Transcript
<1> HIDE DEF old, new, pairs
<1>4. /\ old \o new \in Seq(pairs) /\ Len(old \o new) = n
      /\ \A i \in 1 .. n : (old \o new)[i] = IF i <= m THEN old[i] ELSE new[i - m]
  BY <1>1, <1>2, ConcatProperties
<1>5. ASSUME NEW i \in 1 .. n PROVE (old \o new)[i] = <<p, i>>
  <2>1. CASE i <= m
    BY <1>3, <1>4, <2>1
  <2>2. CASE ~(i <= m)
    <3>1. i - m \in 1 .. n - m /\ m + (i - m) = i
      BY <2>2
    <3>2. (old \o new)[i] = new[i - m]
      BY <1>4, <2>2
    <3>. QED BY <1>3, <3>1, <3>2
  <2>. QED BY <2>1, <2>2
<1>6. /\ Transcript(p, n) \in Seq(pairs) /\ Len(Transcript(p, n)) = n
      /\ \A i \in 1 .. n : Transcript(p, n)[i] = <<p, i>>
  BY DEF Transcript, pairs
<1>7. old \o new = Transcript(p, n)
  BY <1>4, <1>5, <1>6, SeqEqual
<1>. QED BY <1>7 DEF old, new

\* Events of the site whose transcript is shown continue it, if they begin where
\* it ends or before.
LEMMA EventsContinue ==
    ASSUME Web!TypeOK, NEW p \in Projects, NEW from \in 0 .. MaxEvents, NEW n \in 0 .. MaxEvents,
           from <= lastSeq, log = Transcript(p, lastSeq), Web!HandleEvents(p, from, n)
    PROVE  /\ log' = Transcript(p, lastSeq')
           /\ lastSeq' >= lastSeq /\ lastSeq' >= n /\ runId' \in {runId, p}
<1>1. lastSeq \in Nat /\ from \in Nat /\ n \in Nat
  BY PageAssumption DEF Web!TypeOK
<1>2. FirstOf(from) = lastSeq + 1
  BY <1>1 DEF FirstOf
<1>3. CASE lastSeq + 1 > n
  BY <1>1, <1>2, <1>3 DEF Web!HandleEvents, FirstOf
<1>4. CASE lastSeq + 1 <= n
  <2> DEFINE first == FirstOf(from)
  <2>1. /\ log' = log \o [i \in 1 .. n - first + 1 |-> <<p, first + i - 1>>]
        /\ lastSeq' = n /\ runId' = p
    <3>1. ~(first > n)
      BY <1>1, <1>2, <1>4
    <3>. QED BY <3>1 DEF Web!HandleEvents, FirstOf
  <2>2. first = lastSeq + 1
    BY <1>2
  <2> HIDE DEF first
  <2>3. [i \in 1 .. n - first + 1 |-> <<p, first + i - 1>>]
        = [i \in 1 .. n - lastSeq |-> <<p, lastSeq + i>>]
    BY <1>1, <2>2
  <2>4. log' = Transcript(p, lastSeq) \o [i \in 1 .. n - lastSeq |-> <<p, lastSeq + i>>]
    BY <2>1, <2>3
  <2>5. lastSeq <= n
    BY <1>1, <1>4
  <2>6. log' = Transcript(p, n)
    BY <1>1, <2>4, <2>5, TranscriptGrows
  <2>7. log' = Transcript(p, lastSeq') /\ runId' \in {runId, p}
    BY <2>1, <2>6
  <2>8. lastSeq' >= lastSeq /\ lastSeq' >= n
    BY <1>1, <2>1, <2>5
  <2>. QED BY <2>7, <2>8
<1>. QED BY <1>1, <1>3, <1>4

\* A function that goes on with a site has one.
TasksKnow ==
    \A t \in Tasks : task[t].at \in {"events", "session", "send"} => task[t].site \in Projects

TaskRecord ==
    [at : {"done", "events", "session", "create", "home", "createAndSend", "send"},
     site : Projects \cup {NoProject}, seen : 0 .. MaxEvents]
StreamRecord ==
    [site : Projects \cup {NoProject}, after : 0 .. MaxEvents, at : 0 .. MaxEvents]

PageTyped ==
    /\ written \in [Projects -> 0 .. MaxEvents] /\ screen \in {"home", "workspace"}
    /\ shown \in Projects \cup {NoProject} /\ runId \in Projects \cup {NoProject}
    /\ lastSeq \in 0 .. MaxEvents /\ log \in Seq(Entries)
    /\ streams \subseteq StreamRecord
    /\ task \in [Tasks -> TaskRecord] /\ TasksKnow
    /\ sends \in 0 .. MaxSends /\ hurried \in BOOLEAN

LEMMA PageTypedIsTyped == PageTyped => Web!TypeOK
<1>1. log \in Seq(Entries) => \A i \in DOMAIN log : log[i] \in Projects \X (1 .. MaxEvents)
  BY DEF Entries
<1>. QED BY <1>1 DEF PageTyped, Web!TypeOK, TaskRecord, StreamRecord

\* A step in which a function goes on, or begins, as r.
LEMMA OneTask ==
    ASSUME PageTyped, NEW t \in Tasks, NEW r \in TaskRecord,
           r.at \in {"events", "session", "send"} => r.site \in Projects,
           task' = [task EXCEPT ![t] = r]
    PROVE  /\ task' \in [Tasks -> TaskRecord] /\ TasksKnow'
           /\ task'[t] = r /\ \A u \in Tasks \ {t} : task'[u] = task[u]
BY DEF PageTyped, TasksKnow, TaskRecord

\* What a function begins with, or goes on as, is a task.
LEMMA TaskRecords ==
    ASSUME PageTyped
    PROVE  /\ Web!Done \in TaskRecord /\ Web!Done.at = "done"
           /\ \A p \in Projects, n \in 0 .. MaxEvents :
                [at |-> "events", site |-> p, seen |-> n] \in TaskRecord
           /\ \A a \in {"create", "home", "createAndSend"} :
                [at |-> a, site |-> NoProject, seen |-> 0] \in TaskRecord
           /\ \A p \in Projects : [at |-> "send", site |-> p, seen |-> 0] \in TaskRecord
BY PageAssumption DEF TaskRecord, Web!Done

LEMMA BeginOpenTyped ==
    ASSUME PageTyped, NEW t \in Tasks, NEW p \in Projects, Web!BeginOpen(t, p),
           UNCHANGED <<written, streams, sends>>, hurried' \in BOOLEAN
    PROVE  PageTyped'
<1>1. written[p] \in 0 .. MaxEvents
  BY DEF PageTyped
<1>2. task' \in [Tasks -> TaskRecord] /\ TasksKnow'
  BY <1>1, OneTask, TaskRecords DEF Web!BeginOpen
<1>3. /\ lastSeq' \in 0 .. MaxEvents /\ log' \in Seq(Entries) /\ screen' \in {"home", "workspace"}
      /\ shown' \in Projects \cup {NoProject} /\ runId' \in Projects \cup {NoProject}
  BY PageAssumption DEF Web!BeginOpen
<1>4. /\ written' \in [Projects -> 0 .. MaxEvents] /\ sends' \in 0 .. MaxSends
      /\ streams' \subseteq StreamRecord
  BY DEF PageTyped
<1>. QED BY <1>2, <1>3, <1>4 DEF PageTyped

\* What the user does.
LEMMA UserTyped ==
    ASSUME PageTyped, NEW t \in Tasks,
           \/ \E p \in Projects : Web!OpenProject(t, p)
           \/ Web!NewProject(t) \/ Web!Back(t) \/ Web!Send(t)
    PROVE  PageTyped'
<1>h. hurried \in BOOLEAN
  BY DEF PageTyped
<1>1. ASSUME NEW p \in Projects, Web!OpenProject(t, p) PROVE PageTyped'
  BY <1>1, <1>h, BeginOpenTyped DEF Web!OpenProject
<1>2. CASE Web!NewProject(t)
  <2>1. task' \in [Tasks -> TaskRecord] /\ TasksKnow'
    BY <1>2, OneTask, TaskRecords DEF Web!NewProject
  <2>2. hurried' \in BOOLEAN
    BY <1>2 DEF Web!NewProject
  <2>3. /\ UNCHANGED <<written, screen, lastSeq, runId, log, sends>>
        /\ shown' \in {shown, NoProject} /\ streams' \subseteq streams
    BY <1>2 DEF Web!NewProject
  <2>. QED BY <2>1, <2>2, <2>3 DEF PageTyped
<1>3. CASE Web!Back(t)
  <2>1. task' \in [Tasks -> TaskRecord] /\ TasksKnow'
    BY <1>3, OneTask, TaskRecords DEF Web!Back
  <2>2. hurried' \in BOOLEAN
    BY <1>3 DEF Web!Back
  <2>3. /\ UNCHANGED <<written, screen, lastSeq, runId, log, sends>>
        /\ shown' \in {shown, NoProject} /\ streams' \subseteq streams
    BY <1>3 DEF Web!Back
  <2>. QED BY <2>1, <2>2, <2>3 DEF PageTyped
<1>4. CASE Web!Send(t)
  <2>1. shown # NoProject => shown \in Projects
    BY DEF PageTyped
  <2>2. task' \in [Tasks -> TaskRecord] /\ TasksKnow'
    <3>1. CASE shown = NoProject
      BY <1>4, <3>1, OneTask, TaskRecords DEF Web!Send
    <3>2. CASE shown # NoProject
      BY <1>4, <2>1, <3>2, OneTask, TaskRecords DEF Web!Send
    <3>. QED BY <3>1, <3>2
  <2>3. sends' \in 0 .. MaxSends
    BY <1>4, PageAssumption DEF PageTyped, Web!Send
  <2>4. hurried' \in BOOLEAN
    BY <1>4 DEF Web!Send
  <2>5. UNCHANGED <<written, screen, shown, lastSeq, runId, log, streams>>
    BY <1>4 DEF Web!Send
  <2>. QED BY <2>2, <2>3, <2>4, <2>5 DEF PageTyped
<1>. QED BY <1>1, <1>2, <1>3, <1>4

LEMMA SubscribeTyped ==
    ASSUME PageTyped, NEW p \in Projects \cup {NoProject}, Web!Subscribe(p)
    PROVE  streams' \subseteq StreamRecord
BY DEF PageTyped, Web!Subscribe, StreamRecord

\* The functions go on.
LEMMA TaskTyped ==
    ASSUME PageTyped, NEW t \in Tasks,
           \/ \E p \in Projects : Web!ProjectCreated(t, p) \/ Web!CreatedForSend(t, p)
           \/ Web!ReplayEvents(t) \/ Web!ShowSession(t) \/ Web!ShowHome(t) \/ Web!Sent(t)
    PROVE  PageTyped'
<1>h. hurried \in BOOLEAN /\ task[t] \in TaskRecord
  BY DEF PageTyped
<1>1. ASSUME NEW p \in Projects, Web!ProjectCreated(t, p) PROVE PageTyped'
  <2>1. CASE Web!BeginOpen(t, p)
    BY <1>1, <1>h, <2>1, BeginOpenTyped DEF Web!ProjectCreated
  <2>2. CASE task' = [task EXCEPT ![t] = Web!Done] /\ UNCHANGED <<screen, shown, lastSeq, runId, log>>
    <3>1. task' \in [Tasks -> TaskRecord] /\ TasksKnow'
      BY <2>2, OneTask, TaskRecords
    <3>. QED BY <1>1, <1>h, <2>2, <3>1 DEF PageTyped, Web!ProjectCreated
  <2>. QED BY <1>1, <2>1, <2>2 DEF Web!ProjectCreated
<1>2. ASSUME NEW p \in Projects, Web!CreatedForSend(t, p) PROVE PageTyped'
  <2>1. task' \in [Tasks -> TaskRecord] /\ TasksKnow'
    BY <1>2, OneTask, TaskRecords DEF Web!CreatedForSend
  <2>2. streams' \subseteq StreamRecord /\ shown' \in Projects \cup {NoProject}
    <3>1. CASE Web!Subscribe(p) /\ shown' = p
      BY <3>1, SubscribeTyped
    <3>2. CASE UNCHANGED <<shown, streams>>
      BY <3>2 DEF PageTyped
    <3>. QED BY <1>2, <3>1, <3>2 DEF Web!CreatedForSend
  <2>. QED BY <1>2, <1>h, <2>1, <2>2 DEF PageTyped, Web!CreatedForSend
<1>3. CASE Web!ReplayEvents(t)
  <2> DEFINE p == task[t].site
             r == [task[t] EXCEPT !.at = "session"]
  <2>1. p \in Projects
    BY <1>3 DEF Web!ReplayEvents, PageTyped, TasksKnow
  <2>2. r \in TaskRecord /\ r.at = "session" /\ r.site = p
    BY <1>h DEF TaskRecord
  <2>3. task' \in [Tasks -> TaskRecord] /\ TasksKnow'
    <3>1. task' = [task EXCEPT ![t] = r]
      BY <1>3 DEF Web!ReplayEvents
    <3> HIDE DEF r
    <3>. QED BY <2>1, <2>2, <3>1, OneTask
  <2>4. log' \in Seq(Entries) /\ lastSeq' \in 0 .. MaxEvents /\ runId' \in Projects \cup {NoProject}
    <3>1. CASE UNCHANGED <<log, lastSeq, runId>>
      BY <3>1 DEF PageTyped
    <3>2. ASSUME NEW n \in task[t].seen .. written[p], Web!HandleEvents(p, 0, n)
          PROVE  /\ log' \in Seq(Entries) /\ lastSeq' \in 0 .. MaxEvents
                 /\ runId' \in Projects \cup {NoProject}
      <4>1. task[t].seen \in 0 .. MaxEvents /\ written[p] \in 0 .. MaxEvents
        BY <1>h, <2>1 DEF PageTyped, TaskRecord
      <4>2. n \in 0 .. MaxEvents /\ 0 \in 0 .. MaxEvents
        BY <4>1, PageAssumption
      <4>. QED BY <2>1, <3>2, <4>2, EventsTyped, PageTypedIsTyped DEF PageTyped
    <3>. QED BY <1>3, <3>1, <3>2 DEF Web!ReplayEvents
  <2>. QED BY <1>3, <1>h, <2>3, <2>4 DEF PageTyped, Web!ReplayEvents
<1>4. CASE Web!ShowSession(t)
  <2>1. task' \in [Tasks -> TaskRecord] /\ TasksKnow'
    BY <1>4, OneTask, TaskRecords DEF Web!ShowSession
  <2>2. streams' \subseteq StreamRecord
    BY <1>4, SubscribeTyped DEF PageTyped, Web!ShowSession
  <2>3. runId' \in Projects \cup {NoProject}
    BY <1>4, <1>h DEF PageTyped, Web!ShowSession, TaskRecord
  <2>. QED BY <1>4, <1>h, <2>1, <2>2, <2>3 DEF PageTyped, Web!ShowSession
<1>5. CASE Web!ShowHome(t)
  <2>1. task' \in [Tasks -> TaskRecord] /\ TasksKnow'
    BY <1>5, OneTask, TaskRecords DEF Web!ShowHome
  <2>. QED BY <1>5, <1>h, <2>1 DEF PageTyped, Web!ShowHome
<1>6. CASE Web!Sent(t)
  <2> DEFINE p == task[t].site
  <2>1. p \in Projects
    BY <1>6 DEF Web!Sent, PageTyped, TasksKnow
  <2>2. task' \in [Tasks -> TaskRecord] /\ TasksKnow'
    BY <1>6, OneTask, TaskRecords DEF Web!Sent
  <2>3. written' \in [Projects -> 0 .. MaxEvents] /\ runId' \in Projects \cup {NoProject}
    BY <1>6, <2>1, PageAssumption DEF PageTyped, Web!Sent
  <2>. QED BY <1>6, <1>h, <2>2, <2>3 DEF PageTyped, Web!Sent
<1>. QED BY <1>1, <1>2, <1>3, <1>4, <1>5, <1>6

\* The server and the network.
LEMMA ServerTyped ==
    ASSUME PageTyped,
           \/ \E p \in Projects : Web!AppendEvent(p)
           \/ \E s \in streams : Web!Deliver(s) \/ Web!Reconnect(s)
    PROVE  PageTyped'
<1>1. ASSUME NEW p \in Projects, Web!AppendEvent(p) PROVE PageTyped'
  <2>1. written' \in [Projects -> 0 .. MaxEvents]
    BY <1>1, PageAssumption DEF Web!AppendEvent, PageTyped
  <2>2. UNCHANGED <<screen, shown, lastSeq, runId, log, streams, task, sends, hurried>>
    BY <1>1 DEF Web!AppendEvent
  <2>. QED BY <2>1, <2>2 DEF PageTyped, TasksKnow
<1>2. ASSUME NEW s \in streams, Web!Deliver(s) PROVE PageTyped'
  <2>1. /\ s \in StreamRecord /\ s.site \in Projects
        /\ s.at \in 0 .. MaxEvents /\ s.at + 1 \in 0 .. MaxEvents
    BY <1>2, PageAssumption DEF Web!Deliver, PageTyped, StreamRecord
  <2>2. log' \in Seq(Entries) /\ lastSeq' \in 0 .. MaxEvents /\ runId' \in Projects \cup {NoProject}
    BY <1>2, <2>1, EventsTyped, PageTypedIsTyped DEF Web!Deliver, PageTyped
  <2>3. [s EXCEPT !.at = @ + 1] \in StreamRecord
    BY <2>1 DEF StreamRecord
  <2>4. streams' \subseteq StreamRecord
    BY <1>2, <2>3 DEF Web!Deliver, PageTyped
  <2>5. UNCHANGED <<written, screen, shown, task, sends, hurried>>
    BY <1>2 DEF Web!Deliver
  <2>. QED BY <2>2, <2>4, <2>5 DEF PageTyped, TasksKnow
<1>3. ASSUME NEW s \in streams, Web!Reconnect(s) PROVE PageTyped'
  <2>1. [s EXCEPT !.at = s.after] \in StreamRecord
    BY DEF StreamRecord, PageTyped
  <2>2. streams' \subseteq StreamRecord
    BY <1>3, <2>1 DEF Web!Reconnect, PageTyped
  <2>3. UNCHANGED <<written, screen, shown, lastSeq, runId, log, task, sends, hurried>>
    BY <1>3 DEF Web!Reconnect
  <2>. QED BY <2>2, <2>3 DEF PageTyped, TasksKnow
<1>. QED BY <1>1, <1>2, <1>3

LEMMA PageTypedStep == PageTyped /\ [Web!Next]_(Web!vars) => PageTyped'
<1>1. CASE UNCHANGED Web!vars
  BY <1>1 DEF Web!vars, PageTyped, TasksKnow
<1>. QED BY <1>1, UserTyped, TaskTyped, ServerTyped DEF Web!Next

-----------------------------------------------------------------------------
\* A function that will subscribe when it is done.
Opening(t) == task[t].at \in {"events", "session"}

\* There is one stream at most; it is the shown site's unless a function will
\* replace it.
StreamsInv ==
    /\ \A s, r \in streams : s = r
    /\ (\A t \in Tasks : ~Opening(t)) => \A s \in streams : s.site = shown

LEMMA StreamsStep == PageTyped /\ StreamsInv /\ [Web!Next]_(Web!vars) => StreamsInv'
<1> SUFFICES ASSUME PageTyped, StreamsInv, [Web!Next]_(Web!vars) PROVE StreamsInv'
  OBVIOUS
<1>t. task \in [Tasks -> TaskRecord]
  BY DEF PageTyped
<1>1. ASSUME NEW t \in Tasks, NEW p \in Projects, Web!BeginOpen(t, p), UNCHANGED streams
      PROVE  StreamsInv'
  BY <1>t, <1>1 DEF Web!BeginOpen, StreamsInv, Opening
<1>2. ASSUME NEW p \in Projects \cup {NoProject}, Web!Subscribe(p), shown' = p PROVE StreamsInv'
  BY <1>2 DEF Web!Subscribe, StreamsInv
<1>3. ASSUME NEW t \in Tasks, Web!Back(t) PROVE StreamsInv'
  BY <1>3 DEF Web!Back, StreamsInv
<1>4. ASSUME NEW t \in Tasks, ~Opening(t) \/ Opening(t)', UNCHANGED <<streams, shown>>,
             \A u \in Tasks \ {t} : task'[u] = task[u]
      PROVE  StreamsInv'
  BY <1>4 DEF StreamsInv, Opening
<1>5. ASSUME NEW t \in Tasks, Web!NewProject(t) \/ Web!Send(t) \/ Web!ShowHome(t) \/ Web!Sent(t)
      PROVE  StreamsInv'
  <2>1. ~Opening(t)
    BY <1>5 DEF Web!NewProject, Web!Send, Web!ShowHome, Web!Sent, Web!Done, Opening
  <2>2. UNCHANGED <<streams, shown>> /\ \A u \in Tasks \ {t} : task'[u] = task[u]
    BY <1>t, <1>5 DEF Web!NewProject, Web!Send, Web!ShowHome, Web!Sent
  <2>. QED BY <1>4, <2>1, <2>2
<1>6. ASSUME NEW t \in Tasks, Web!ReplayEvents(t) PROVE StreamsInv'
  <2>1. Opening(t)' /\ \A u \in Tasks \ {t} : task'[u] = task[u]
    BY <1>t, <1>6 DEF Web!ReplayEvents, Opening, TaskRecord
  <2>. QED BY <1>4, <1>6, <2>1 DEF Web!ReplayEvents
<1>7. ASSUME NEW t \in Tasks, NEW p \in Projects, Web!ProjectCreated(t, p) PROVE StreamsInv'
  <2>1. CASE Web!BeginOpen(t, p)
    BY <1>1, <1>7, <2>1 DEF Web!ProjectCreated
  <2>2. CASE task' = [task EXCEPT ![t] = Web!Done] /\ UNCHANGED shown
    <3>1. ~Opening(t) /\ \A u \in Tasks \ {t} : task'[u] = task[u]
      BY <1>t, <1>7, <2>2 DEF Web!ProjectCreated, Opening
    <3>. QED BY <1>4, <1>7, <2>2, <3>1 DEF Web!ProjectCreated
  <2>. QED BY <1>7, <2>1, <2>2 DEF Web!ProjectCreated
<1>8. ASSUME NEW s \in streams, NEW q \in 0 .. MaxEvents, UNCHANGED <<task, shown>>,
             streams' = (streams \ {s}) \cup {[s EXCEPT !.at = q]}
      PROVE  StreamsInv'
  <2>1. streams' = {[s EXCEPT !.at = q]}
    BY <1>8 DEF StreamsInv
  <2>2. [s EXCEPT !.at = q].site = s.site
    BY DEF PageTyped, StreamRecord
  <2>. QED BY <1>8, <2>1, <2>2 DEF StreamsInv, Opening
<1>9. ASSUME NEW s \in streams, Web!Deliver(s) \/ Web!Reconnect(s) PROVE StreamsInv'
  <2>1. s \in StreamRecord
    BY DEF PageTyped
  <2>2. CASE Web!Deliver(s)
    <3>1. s.at + 1 \in 0 .. MaxEvents
      BY <2>1, <2>2, PageAssumption DEF Web!Deliver, PageTyped, StreamRecord
    <3>. QED BY <1>8, <2>2, <3>1 DEF Web!Deliver
  <2>3. CASE Web!Reconnect(s)
    <3>1. s.after \in 0 .. MaxEvents
      BY <2>1 DEF StreamRecord
    <3>. QED BY <1>8, <2>3, <3>1 DEF Web!Reconnect
  <2>. QED BY <1>9, <2>2, <2>3
<1>10. CASE UNCHANGED <<streams, shown, task>>
  BY <1>10 DEF StreamsInv, Opening
<1>11. ASSUME NEW t \in Tasks, NEW p \in Projects, Web!OpenProject(t, p) PROVE StreamsInv'
  BY <1>1, <1>11 DEF Web!OpenProject
<1>12. ASSUME NEW t \in Tasks, Web!ShowSession(t) PROVE StreamsInv'
  BY <1>2, <1>12 DEF Web!ShowSession, PageTyped
<1>13. ASSUME NEW t \in Tasks, NEW p \in Projects, Web!CreatedForSend(t, p) PROVE StreamsInv'
  <2>1. CASE Web!Subscribe(p) /\ shown' = p
    BY <1>2, <2>1
  <2>2. CASE task' = [task EXCEPT ![t] = Web!Done] /\ UNCHANGED <<shown, streams>>
    <3>1. ~Opening(t) /\ \A u \in Tasks \ {t} : task'[u] = task[u]
      BY <1>t, <1>13, <2>2 DEF Web!CreatedForSend, Opening
    <3>. QED BY <1>4, <2>2, <3>1
  <2>. QED BY <1>13, <2>1, <2>2 DEF Web!CreatedForSend
<1>14. ASSUME NEW p \in Projects, Web!AppendEvent(p) PROVE StreamsInv'
  BY <1>10, <1>14 DEF Web!AppendEvent
<1>. QED
  BY <1>3, <1>5, <1>6, <1>7, <1>9, <1>10, <1>11, <1>12, <1>13, <1>14 DEF Web!Next, Web!vars

-----------------------------------------------------------------------------
\* A user who waits has one function at a time that changes what is shown, and
\* the others are about the site that is.
Moving(t) == Opening(t) \/ task[t].at \in {"create", "home"}
CalmTasks ==
    /\ \A t, u \in Tasks : Moving(t) /\ Moving(u) => t = u
    /\ \A t \in Tasks :
        /\ task[t].at # "createAndSend"
        /\ task[t].at \in {"create", "home"} => Web!Pending = {t} /\ shown = NoProject
        /\ task[t].at = "create" => screen = "home"
        /\ Opening(t) \/ task[t].at = "send" => task[t].site = shown

\* The stream is of the site that is shown and brings nothing that leaves a gap.
CalmPage ==
    /\ screen = "home" => shown = NoProject
    /\ \A s \in streams :
        s.site = shown /\ s.site # NoProject /\ s.at <= lastSeq /\ s.after <= lastSeq
    /\ shown # NoProject => log = Transcript(shown, lastSeq) /\ runId \in {NoProject, shown}

Calm == CalmTasks /\ CalmPage

LEMMA OpenCalm ==
    ASSUME PageTyped, Calm, screen = "home", NEW t \in Tasks, NEW p \in Projects,
           Web!BeginOpen(t, p), UNCHANGED streams, \A u \in Tasks \ {t} : task[u] = Web!Done
    PROVE  Calm'
<1>1. streams' = {}
  BY DEF Calm, CalmPage
<1>2. /\ task'[t].at = "events" /\ task'[t].site = p
      /\ \A u \in Tasks \ {t} : task'[u].at = "done"
  BY DEF Web!BeginOpen, Web!Done, PageTyped
<1>3. CalmTasks'
  BY <1>2 DEF CalmTasks, Moving, Opening, Web!BeginOpen
<1>4. log' = Transcript(p, 0)
  BY DEF Web!BeginOpen, Transcript
<1>5. CalmPage'
  BY <1>1, <1>4, PageAssumption DEF CalmPage, Web!BeginOpen
<1>. QED BY <1>3, <1>5 DEF Calm

\* A function is done, and what is shown stays.
LEMMA DoneCalm ==
    ASSUME PageTyped, CalmTasks, NEW t \in Tasks, task[t] # Web!Done,
           task' = [task EXCEPT ![t] = Web!Done], UNCHANGED shown,
           UNCHANGED screen \/ task[t].at = "home"
    PROVE  CalmTasks'
<1>1. task'[t] = Web!Done /\ \A u \in Tasks \ {t} : task'[u] = task[u]
  BY DEF PageTyped
<1>2. Web!Done.at = "done"
  BY DEF Web!Done
<1>3. ASSUME NEW u \in Tasks, task'[u].at \in {"create", "home"} PROVE FALSE
  <2>1. u # t /\ task[u].at \in {"create", "home"}
    BY <1>1, <1>2, <1>3
  <2>2. Web!Pending = {u} /\ t \in Web!Pending
    BY <2>1 DEF CalmTasks, Web!Pending
  <2>. QED BY <2>1, <2>2
<1>. QED BY <1>1, <1>2, <1>3 DEF CalmTasks, Moving, Opening

\* What the user does without being in a hurry.
LEMMA UserCalm ==
    ASSUME PageTyped, Calm, ~hurried', NEW t \in Tasks,
           \/ \E p \in Projects : Web!OpenProject(t, p)
           \/ Web!NewProject(t) \/ Web!Back(t) \/ Web!Send(t)
    PROVE  Calm'
<1>d. Web!Done.at = "done" /\ task \in [Tasks -> TaskRecord]
  BY DEF Web!Done, PageTyped
<1>1. ASSUME NEW p \in Projects, Web!OpenProject(t, p) PROVE Calm'
  <2>1. \A u \in Tasks : task[u] = Web!Done
    BY <1>1 DEF Web!OpenProject, Web!Pending
  <2>. QED BY <1>1, <2>1, OpenCalm DEF Web!OpenProject
<1>2. CASE Web!NewProject(t) \/ Web!Back(t)
  <2>1. \A u \in Tasks : task[u] = Web!Done
    BY <1>2 DEF Web!NewProject, Web!Back, Web!Pending
  <2>2. /\ task'[t].at \in {"create", "home"} /\ task'[t] # Web!Done
        /\ \A u \in Tasks \ {t} : task'[u] = Web!Done
        /\ task'[t].at = "create" => screen' = "home"
    BY <1>d, <1>2, <2>1 DEF Web!NewProject, Web!Back
  <2>3. Web!Pending' = {t}
    BY <2>2 DEF Web!Pending, Web!Done
  <2>4. shown' = NoProject
    BY <1>2 DEF Web!NewProject, Web!Back, Calm, CalmPage
  <2>5. CalmTasks'
    BY <1>d, <2>2, <2>3, <2>4 DEF CalmTasks, Moving, Opening, Web!Done
  <2>6. CalmPage'
    BY <1>2, <2>4 DEF Calm, CalmPage, Web!NewProject, Web!Back
  <2>. QED BY <2>5, <2>6 DEF Calm
<1>3. CASE Web!Send(t)
  <2>1. shown # NoProject
    BY <1>3 DEF Web!Send
  <2>2. /\ task'[t].at = "send" /\ task'[t].site = shown
        /\ \A u \in Tasks \ {t} : task'[u] = task[u]
    BY <1>d, <1>3, <2>1 DEF Web!Send
  <2>3. \A u \in Tasks : task[u].at \notin {"create", "home"}
    BY <2>1 DEF Calm, CalmTasks
  <2>4. UNCHANGED <<screen, shown, lastSeq, runId, log, streams>>
    BY <1>3 DEF Web!Send
  <2>5. CalmTasks'
    BY <2>2, <2>3, <2>4 DEF Calm, CalmTasks, Moving, Opening
  <2>. QED BY <2>4, <2>5 DEF Calm, CalmPage
<1>. QED BY <1>1, <1>2, <1>3

LEMMA TaskCalm ==
    ASSUME PageTyped, Calm, NEW t \in Tasks,
           \/ \E p \in Projects : Web!ProjectCreated(t, p) \/ Web!CreatedForSend(t, p)
           \/ Web!ReplayEvents(t) \/ Web!ShowSession(t) \/ Web!ShowHome(t) \/ Web!Sent(t)
    PROVE  Calm'
<1>d. Web!Done.at = "done" /\ task \in [Tasks -> TaskRecord]
  BY DEF Web!Done, PageTyped
<1>1. ASSUME NEW p \in Projects, Web!ProjectCreated(t, p) PROVE Calm'
  <2>1. task[t] # Web!Done /\ screen = "home" /\ Web!Pending = {t}
    BY <1>d, <1>1 DEF Web!ProjectCreated, Calm, CalmTasks
  <2>2. CASE Web!BeginOpen(t, p)
    BY <1>1, <2>1, <2>2, OpenCalm DEF Web!ProjectCreated, Web!Pending
  <2>3. CASE task' = [task EXCEPT ![t] = Web!Done] /\ UNCHANGED <<screen, shown, lastSeq, runId, log>>
    <3>1. CalmTasks'
      BY <2>1, <2>3, DoneCalm DEF Calm
    <3>. QED BY <1>1, <2>3, <3>1 DEF Calm, CalmPage, Web!ProjectCreated
  <2>. QED BY <1>1, <2>2, <2>3 DEF Web!ProjectCreated
<1>2. ASSUME NEW p \in Projects, Web!CreatedForSend(t, p) PROVE Calm'
  BY <1>2 DEF Web!CreatedForSend, Calm, CalmTasks
<1>3. CASE Web!ReplayEvents(t)
  <2>1. task[t].site = shown /\ shown \in Projects /\ shown # NoProject
    BY <1>3, PageAssumption
    DEF Web!ReplayEvents, Calm, CalmTasks, Opening, PageTyped, TasksKnow
  <2>2. /\ log' = Transcript(shown, lastSeq') /\ lastSeq' >= lastSeq
        /\ runId' \in {NoProject, shown}
    <3>1. log = Transcript(shown, lastSeq) /\ runId \in {NoProject, shown} /\ lastSeq \in Nat
      BY <2>1, PageAssumption DEF Calm, CalmPage, PageTyped
    <3>2. ASSUME NEW n \in task[t].seen .. written[shown], Web!HandleEvents(shown, 0, n)
          PROVE  log' = Transcript(shown, lastSeq') /\ lastSeq' >= lastSeq /\ runId' \in {runId, shown}
      <4>1. task[t].seen \in 0 .. MaxEvents /\ written[shown] \in 0 .. MaxEvents
        BY <1>d, <2>1 DEF TaskRecord, PageTyped
      <4>2. n \in 0 .. MaxEvents /\ 0 \in 0 .. MaxEvents /\ 0 <= lastSeq
        BY <3>1, <4>1, PageAssumption
      <4>. QED BY <2>1, <3>1, <3>2, <4>2, EventsContinue, PageTypedIsTyped
    <3>3. CASE UNCHANGED <<log, lastSeq, runId>>
      BY <3>1, <3>3
    <3>4. CASE \E n \in task[t].seen .. written[shown] : Web!HandleEvents(shown, 0, n)
      BY <3>1, <3>2, <3>4
    <3>. QED BY <1>3, <2>1, <3>3, <3>4 DEF Web!ReplayEvents
  <2>3. /\ task'[t].at = "session" /\ task'[t].site = shown
        /\ \A u \in Tasks \ {t} : task'[u] = task[u]
    BY <1>d, <1>3, <2>1 DEF Web!ReplayEvents, TaskRecord
  <2>4. \A u \in Tasks : task[u].at \notin {"create", "home"}
    BY <2>1 DEF Calm, CalmTasks
  <2>5. UNCHANGED <<screen, shown, streams>>
    BY <1>3 DEF Web!ReplayEvents
  <2>6. CalmTasks'
    BY <1>3, <2>3, <2>4, <2>5 DEF Calm, CalmTasks, Moving, Opening, Web!ReplayEvents
  <2>7. CalmPage'
    <3>1. lastSeq \in Nat /\ lastSeq' \in Int
      BY <1>3, <2>1, TaskTyped, PageAssumption DEF PageTyped
    <3>2. \A s \in streams : s.at \in Nat /\ s.after \in Nat
      BY PageAssumption DEF PageTyped, StreamRecord
    <3>. QED BY <2>2, <2>5, <3>1, <3>2 DEF Calm, CalmPage
  <2>. QED BY <2>6, <2>7 DEF Calm
<1>4. CASE Web!ShowSession(t)
  <2>1. task[t].site = shown /\ shown \in Projects /\ shown # NoProject /\ task[t] # Web!Done
    BY <1>d, <1>4, PageAssumption
    DEF Web!ShowSession, Calm, CalmTasks, Opening, PageTyped, TasksKnow
  <2>2. CalmTasks'
    BY <1>4, <2>1, DoneCalm DEF Calm, Web!ShowSession
  <2>3. runId' \in {NoProject, shown}
    BY <1>4, <2>1 DEF Calm, CalmPage, Web!ShowSession
  <2>4. streams' = {[site |-> shown, after |-> lastSeq, at |-> lastSeq]} /\ lastSeq \in Nat
    BY <1>4, PageAssumption DEF Web!ShowSession, Web!Subscribe, PageTyped
  <2>5. CalmPage'
    BY <1>4, <2>1, <2>3, <2>4 DEF Calm, CalmPage, Web!ShowSession
  <2>. QED BY <2>2, <2>5 DEF Calm
<1>5. CASE Web!ShowHome(t)
  <2>1. task[t] # Web!Done /\ shown = NoProject
    BY <1>d, <1>5 DEF Web!ShowHome, Calm, CalmTasks
  <2>2. CalmTasks'
    BY <1>5, <2>1, DoneCalm DEF Calm, Web!ShowHome
  <2>. QED BY <1>5, <2>1, <2>2 DEF Calm, CalmPage, Web!ShowHome
<1>6. CASE Web!Sent(t)
  <2>1. task[t].site = shown /\ task[t] # Web!Done
    BY <1>d, <1>6 DEF Web!Sent, Calm, CalmTasks
  <2>2. CalmTasks'
    BY <1>6, <2>1, DoneCalm DEF Calm, Web!Sent
  <2>3. runId' \in {runId, shown}
    BY <1>6, <2>1 DEF Web!Sent
  <2>. QED BY <1>6, <2>2, <2>3 DEF Calm, CalmPage, Web!Sent
<1>. QED BY <1>1, <1>2, <1>3, <1>4, <1>5, <1>6

LEMMA ServerCalm ==
    ASSUME PageTyped, StreamsInv, Calm,
           \/ \E p \in Projects : Web!AppendEvent(p)
           \/ \E s \in streams : Web!Deliver(s) \/ Web!Reconnect(s)
    PROVE  Calm'
<1>1. ASSUME UNCHANGED <<screen, shown, task>> PROVE CalmTasks'
  BY <1>1 DEF Calm, CalmTasks, Moving, Opening, Web!Pending
<1>2. ASSUME NEW p \in Projects, Web!AppendEvent(p) PROVE Calm'
  BY <1>1, <1>2 DEF Web!AppendEvent, Calm, CalmPage
<1>3. ASSUME NEW s \in streams, Web!Deliver(s) PROVE Calm'
  <2>1. /\ s \in StreamRecord /\ s.site = shown /\ shown \in Projects /\ shown # NoProject
        /\ s.at \in Nat /\ s.after \in Nat /\ lastSeq \in Nat
        /\ s.at \in 0 .. MaxEvents /\ s.at + 1 \in 0 .. MaxEvents /\ s.at <= lastSeq
    BY <1>3, PageAssumption DEF Web!Deliver, PageTyped, StreamRecord, Calm, CalmPage
  <2>2. /\ log' = Transcript(shown, lastSeq') /\ lastSeq' >= lastSeq /\ lastSeq' >= s.at + 1
        /\ runId' \in {runId, shown}
    BY <1>3, <2>1, EventsContinue, PageTypedIsTyped DEF Web!Deliver, Calm, CalmPage
  <2>3. /\ streams' = {[s EXCEPT !.at = s.at + 1]} /\ UNCHANGED <<screen, shown, task>>
    BY <1>3 DEF Web!Deliver, StreamsInv
  <2>4. /\ [s EXCEPT !.at = s.at + 1].at = s.at + 1 /\ [s EXCEPT !.at = s.at + 1].after = s.after
        /\ [s EXCEPT !.at = s.at + 1].site = shown
    BY <2>1 DEF StreamRecord
  <2>5. lastSeq' \in Nat /\ s.after <= lastSeq
    BY <1>3, ServerTyped, PageAssumption DEF PageTyped, Calm, CalmPage
  <2>6. CalmPage'
    BY <2>1, <2>2, <2>3, <2>4, <2>5 DEF Calm, CalmPage
  <2>. QED BY <1>1, <2>3, <2>6 DEF Calm
<1>4. ASSUME NEW s \in streams, Web!Reconnect(s) PROVE Calm'
  <2>1. /\ streams' = {[s EXCEPT !.at = s.after]}
        /\ UNCHANGED <<screen, shown, lastSeq, runId, log, task>>
    BY <1>4 DEF Web!Reconnect, StreamsInv
  <2>2. /\ [s EXCEPT !.at = s.after].at = s.after /\ [s EXCEPT !.at = s.after].after = s.after
        /\ [s EXCEPT !.at = s.after].site = s.site
    BY DEF PageTyped, StreamRecord
  <2>3. CalmPage'
    BY <2>1, <2>2 DEF Calm, CalmPage
  <2>. QED BY <1>1, <2>1, <2>3 DEF Calm
<1>. QED BY <1>2, <1>3, <1>4

\* The inductive invariant: of a user in a hurry only the stream is known.
PageInv == PageTyped /\ StreamsInv /\ (~hurried => Calm)

LEMMA PageInvInit == Web!Init => PageInv
<1> SUFFICES ASSUME Web!Init PROVE PageInv
  OBVIOUS
<1> USE PageAssumption DEF Web!Init
<1>1. Web!Done \in TaskRecord /\ Web!Done.at = "done"
  BY DEF Web!Done, TaskRecord
<1>2. PageTyped
  <2>1. hurried \in BOOLEAN
    OBVIOUS
  <2>2. TasksKnow
    BY <1>1 DEF TasksKnow
  <2>3. /\ written \in [Projects -> 0 .. MaxEvents] /\ log \in Seq(Entries)
        /\ lastSeq \in 0 .. MaxEvents /\ sends \in 0 .. MaxSends
    OBVIOUS
  <2>4. streams \subseteq StreamRecord /\ task \in [Tasks -> TaskRecord]
    BY <1>1
  <2>. QED BY <2>1, <2>2, <2>3, <2>4 DEF PageTyped
<1>3. StreamsInv
  BY DEF StreamsInv
<1>4. Calm
  BY <1>1 DEF Calm, CalmTasks, CalmPage, Moving, Opening
<1>. QED BY <1>2, <1>3, <1>4 DEF PageInv

\* Who was in a hurry once stays so.
LEMMA HurryStays == [Web!Next]_(Web!vars) /\ ~hurried' => ~hurried
<1>1. ASSUME NEW t \in Tasks, NEW p \in Projects,
             Web!OpenProject(t, p) \/ Web!ProjectCreated(t, p) \/ Web!CreatedForSend(t, p), ~hurried'
      PROVE  ~hurried
  BY <1>1 DEF Web!OpenProject, Web!ProjectCreated, Web!CreatedForSend
<1>2. ASSUME NEW t \in Tasks, Web!NewProject(t) \/ Web!Back(t) \/ Web!Send(t), ~hurried'
      PROVE  ~hurried
  BY <1>2 DEF Web!NewProject, Web!Back, Web!Send
<1>3. ASSUME NEW t \in Tasks,
             Web!ReplayEvents(t) \/ Web!ShowSession(t) \/ Web!ShowHome(t) \/ Web!Sent(t), ~hurried'
      PROVE  ~hurried
  BY <1>3 DEF Web!ReplayEvents, Web!ShowSession, Web!ShowHome, Web!Sent
<1>4. ASSUME NEW p \in Projects, Web!AppendEvent(p), ~hurried' PROVE ~hurried
  BY <1>4 DEF Web!AppendEvent
<1>5. ASSUME NEW s \in streams, Web!Deliver(s) \/ Web!Reconnect(s), ~hurried' PROVE ~hurried
  BY <1>5 DEF Web!Deliver, Web!Reconnect
<1>6. ASSUME UNCHANGED Web!vars, ~hurried' PROVE ~hurried
  BY <1>6 DEF Web!vars
<1>. QED BY <1>1, <1>2, <1>3, <1>4, <1>5, <1>6 DEF Web!Next

LEMMA PageInvStep == PageInv /\ [Web!Next]_(Web!vars) => PageInv'
<1> SUFFICES ASSUME PageInv, [Web!Next]_(Web!vars) PROVE PageInv'
  OBVIOUS
<1>1. PageTyped' /\ StreamsInv'
  BY PageTypedStep, StreamsStep DEF PageInv
<1>2. ASSUME ~hurried' PROVE Calm'
  <2>1. Calm
    BY <1>2, HurryStays DEF PageInv
  <2>2. CASE UNCHANGED Web!vars
    BY <2>1, <2>2
    DEF Calm, CalmTasks, CalmPage, Moving, Opening, Web!Pending, Web!vars
  <2>. QED BY <1>2, <2>1, <2>2, UserCalm, TaskCalm, ServerCalm DEF PageInv, Web!Next
<1>. QED BY <1>1, <1>2 DEF PageInv

LEMMA PageInvShows == PageInv => PageShowsItsSession
<1> SUFFICES ASSUME PageInv PROVE PageShowsItsSession
  OBVIOUS
<1>1. Web!StreamIsCurrent
  <2>1. Web!Pending = {} => \A t \in Tasks : ~Opening(t)
    BY DEF Web!Pending, Web!Done, Opening
  <2>. QED BY <2>1 DEF PageInv, StreamsInv, Web!StreamIsCurrent
<1>2. ~hurried /\ shown # NoProject =>
        log = [i \in 1 .. lastSeq |-> <<shown, i>>] /\ runId \in {NoProject, shown}
  BY DEF PageInv, Calm, CalmPage, Transcript
<1>. QED BY <1>1, <1>2 DEF PageShowsItsSession, Web!PageShowsItsSession

\* The page shows the session it is on, for any number of sites, events, calls
\* in flight and messages (app.ts:3, app.ts:409).
THEOREM PageIsTrue == Web!Spec => []PageShowsItsSession
BY PageInvInit, PageInvStep, PageInvShows, PTL DEF Web!Spec

-----------------------------------------------------------------------------
(* The instance as a whole. *)

AllInv ==
    /\ AccessInv /\ SpendingTypeOK
    /\ PreviewInv /\ MigrationsInv /\ PageInv /\ DeadlinesInv

allVars == <<vars, spendingVars, previewVars, migrationVars, pageVars, deadlineVars, part>>

\* One component moves, the others rest.
LEMMA ComponentSteps ==
    [AllNext]_allVars =>
        /\ [Next]_vars /\ [SpendingNext]_spendingVars
        /\ [Pre!Next]_(Pre!vars) /\ [Mig!Next]_(Mig!vars)
        /\ [Web!Next]_(Web!vars) /\ [Ddl!Next]_(Ddl!vars)
BY DEF AllNext, AccessStep, SpendingStep, PreviewStep, MigrationStep, PageStep, DeadlineStep,
       allVars, previewVars, migrationVars, pageVars, deadlineVars,
       Pre!vars, Mig!vars, Web!vars, Ddl!vars

LEMMA AllInvInit == AllInit => AllInv
<1> SUFFICES ASSUME AllInit PROVE AllInv
  OBVIOUS
<1>1. AccessInv /\ SpendingTypeOK /\ PreviewInv /\ MigrationsInv /\ PageInv
  BY InitInv, InitTyped, PreviewInvInit, MigrationsInvInit, PageInvInit DEF AllInit
<1>2. DeadlinesInv
  <2>1. CASE part = "deadlines"
    BY <2>1, DeadlinesInvInit DEF AllInit
  <2>2. CASE part # "deadlines"
    <3>1. clock = 0 /\ expires = 0 /\ renewed = 0 /\ status = "queued"
      BY <2>2 DEF AllInit
    <3>2. renewing \in BOOLEAN /\ ~renewing
      BY <2>2 DEF AllInit
    <3>3. 0 \in 0 .. MaxClock /\ 0 \in 0 .. MaxClock + TTL
      BY LeaseBounds
    <3>. QED BY <3>1, <3>2, <3>3 DEF DeadlinesInv, Ddl!TypeOK, RenewedInTime
  <2>. QED BY <2>1, <2>2
<1>. QED BY <1>1, <1>2 DEF AllInv

LEMMA AllInvStep == AllInv /\ [AllNext]_allVars => AllInv'
BY ComponentSteps, InvStep, TypeStep, PreviewInvStep, MigrationsInvStep, PageInvStep,
   DeadlinesInvStep
DEF AllInv

LEMMA AllInvAlways == AllSpec => []AllInv
BY AllInvInit, AllInvStep, PTL DEF AllSpec, allVars

\* The types of every component, in the instance that TLC checks.
THEOREM AllTyped == AllSpec => []AllTypeOK
<1>1. AllInv => AllTypeOK
  BY PageTypedIsTyped
  DEF AllInv, AccessInv, PreviewInv, MigrationsInv, PageInv, DeadlinesInv, AllTypeOK
<1>. QED BY <1>1, AllInvAlways, PTL

\* Links, schemas, pages and leases, in the instance that TLC checks.
THEOREM AllKept ==
    AllSpec => [](LinksOpen /\ OpenSeesWholeSchema /\ PageShowsItsSession /\ LeaseExpiryIsRead)
<1>1. MigrationsInv => OpenSeesWholeSchema
  BY DEF MigrationsInv, Mig!TypeOK, OpenersApplied, Upto, OpenSeesWholeSchema,
         Mig!OpenSeesWholeSchema
<1>2. AllInv => LinksOpen /\ OpenSeesWholeSchema /\ PageShowsItsSession /\ LeaseExpiryIsRead
  BY <1>1, PageInvShows, ReadRight DEF AllInv, PreviewInv
<1>. QED BY <1>2, AllInvAlways, PTL
=============================================================================
