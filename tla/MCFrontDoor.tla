----------------------------- MODULE MCFrontDoor -----------------------------
(* An instance for TLC of the components around the core that share no      *)
(* state with it or with each other: sign-in (Access), limits (Spending),   *)
(* preview links (Preview), the migrations (Migrations), the web page       *)
(* (WebClient) and deadlines in the database (Deadlines).  In a behaviour   *)
(* one of them runs and the others rest; which one is chosen in the initial *)
(* state, so the state graph is the sum of theirs and not their product.    *)
EXTENDS Access, Spending, TLC

CONSTANTS
    Projects, Secrets, NoSecret, NoProject,
    Openers, Scripts, PerScript,
    Tasks, MaxEvents, MaxSends,
    Base, TTL, MaxClock

VARIABLES
    secret, links, minting,
    userVersion, applied, opener,
    written, screen, shown, lastSeq, runId, log, streams, task, sends, hurried,
    clock, expires, renewed, status, renewing,
    part

previewVars == <<secret, links, minting>>
migrationVars == <<userVersion, applied, opener>>
pageVars == <<written, screen, shown, lastSeq, runId, log, streams, task, sends, hurried>>
deadlineVars == <<clock, expires, renewed, status, renewing>>

ASSUME PreviewAssumption == NoSecret \notin Secrets
ASSUME MigrationsAssumption == Scripts \in Nat /\ PerScript \in Nat
ASSUME PageAssumption == NoProject \notin Projects /\ MaxEvents \in Nat /\ MaxSends \in Nat
\* Renewals come every third of the TTL, and what is left of it then is a second
\* or more.  The flag may be set lower; the default is 15 s.
ASSUME DeadlinesAssumption ==
    /\ Base \in Nat \ {0} /\ TTL \in Nat /\ MaxClock \in Nat
    /\ TTL - TTL \div 3 >= Base * Base

Pre == INSTANCE Preview
Mig == INSTANCE Migrations
Web == INSTANCE WebClient WITH Sites <- Projects, NoSite <- NoProject
Ddl == INSTANCE Deadlines

MCTokenLimit == [t \in Tenants |-> 2]
MCStorageLimit == [t \in Tenants |-> 2]

AllInit ==
    /\ Init /\ SpendingInit /\ Pre!Init /\ Mig!Init /\ Web!Init
    /\ part \in {"access", "spending", "preview", "migrations", "page", "deadlines"}
    /\ IF part = "deadlines" THEN Ddl!Init
       ELSE clock = 0 /\ expires = 0 /\ renewed = 0 /\ status = "queued" /\ renewing = FALSE

AccessStep ==
    /\ part = "access" /\ Next
    /\ UNCHANGED <<spendingVars, previewVars, migrationVars, pageVars, deadlineVars>>
SpendingStep ==
    /\ part = "spending" /\ SpendingNext
    /\ UNCHANGED <<vars, previewVars, migrationVars, pageVars, deadlineVars>>
PreviewStep ==
    /\ part = "preview" /\ Pre!Next
    /\ UNCHANGED <<vars, spendingVars, migrationVars, pageVars, deadlineVars>>
MigrationStep ==
    /\ part = "migrations" /\ Mig!Next
    /\ UNCHANGED <<vars, spendingVars, previewVars, pageVars, deadlineVars>>
PageStep ==
    /\ part = "page" /\ Web!Next
    /\ UNCHANGED <<vars, spendingVars, previewVars, migrationVars, deadlineVars>>
DeadlineStep ==
    /\ part = "deadlines" /\ Ddl!Next
    /\ UNCHANGED <<vars, spendingVars, previewVars, migrationVars, pageVars>>

AllNext ==
    /\ \/ AccessStep \/ SpendingStep \/ PreviewStep
       \/ MigrationStep \/ PageStep \/ DeadlineStep
    /\ UNCHANGED part

AllSpec ==
    /\ AllInit
    /\ [][AllNext]_<<vars, spendingVars, previewVars, migrationVars, pageVars, deadlineVars, part>>

\* Each component's state has its types.
AllTypeOK ==
    TypeOK /\ SpendingTypeOK /\ Pre!TypeOK /\ Mig!TypeOK /\ Web!TypeOK /\ Ddl!TypeOK

\* Every preview link that was handed out opens.
LinksOpen == Pre!LinksOpen

\* An open database has all that the release that opened it knows.
OpenSeesWholeSchema == Mig!OpenSeesWholeSchema

\* The page shows the session it is on, and nothing else.
PageShowsItsSession == Web!PageShowsItsSession

\* Leases expire by the texts of their deadlines when they should.
LeaseExpiryIsRead == Ddl!LeaseExpiryIsRead

Symmetry ==
    Permutations(Workers) \cup Permutations(Users) \cup Permutations(Flows)
    \cup Permutations(Sessions) \cup Permutations(Browsers)
=============================================================================
