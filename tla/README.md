# A formal model of creo

TLA+ modules, TLC instances and TLAPS proofs for creo, the self-hosted platform
that turns conversations into published web artefacts. All paths below are
relative to `src/`; `internal/run/coordinator.go:130` is a file and a line there.
`PROJECT.json` maps every definition that models code to the lines it stands for
and lists the runs, the faults, the findings, the hazards and the theorems.

## The system

creo is one Go process on one SQLite database. `internal/store/store.go` opens a
writer connection pool of size one and a reader pool; `DB.Write` runs a function
in a transaction on the writer, so **write transactions are serial and each is one
atomic step** in every module. What is not atomic is a sequence of them, a read
followed by a write, and anything that follows the commit: publishing events to
streams, transitions, calls of the model.

A user posts a message to a project's session. The API queues a *run*. A pool of
workers claims runs under a *lease* (worker, generation, deadline), executes the
agent loop of the harness against a workspace directory, appends every event to the
session's log under the lease, commits the workspace as a *version* and completes
the run. Browsers follow the log over server-sent events. A run may park on a
question to the user; a lost lease, a crash or a shutdown hands it to another worker.

| component | state | operations | meets others through |
|---|---|---|---|
| run coordinator, `run/coordinator.go` | rows of `runs`, `idempotency_keys` | RequestRun, Claim, Renew, Complete, Relinquish, Await, Resume, Cancel, RecoverOrphans, Poke | leases carried by workers; the fence of the log |
| event log, `eventlog/eventlog.go` | rows of `events`, live channels | Append, AppendTx, Publish, Read, Subscribe | fence on `runs.lease_gen`; streams of the API |
| server, `server/server.go` | worker goroutines, renewers, the recovery ticker | Run, worker, executeRun, emitState | coordinator, harness, log |
| harness, `harness/harness.go` | local variables of Execute; the rest is rebuilt from the log | Execute, reconstruct, pendingTools, commitProgress, EmitFailure | log (fenced), project store (not fenced), model |
| session API, `api/api.go` | none between requests | postMessage, submit, answerRun, provideInput, cancelRun, streamEvents, publish, export, … | coordinator, log |
| project store, `project/store.go` | `versions`, `files`, the blob directory | Create, Commit, Materialize, Latest, Open, … | workspace, tenant quota |
| workspace, `workspace/local.go` | a directory per project | file tools, ListFiles, Clear | harness, store |
| publish and preview, `publish/`, `serving/` | pointer to the published version, preview secret | Publish, Rollback, EnsurePreviewSecret, serve | project store |
| tenants, `tenant/tenant.go` | tenants, tokens, spending | Create, CreateToken, RevokeToken, CheckBudget, CheckStorage | API, model gateway, store |
| identity, `identity/` | users, login flows, sessions | BeginLogin, CompleteLogin, Authenticate, RevokeSession, DisableUser | API |
| model gateway, `model/` | usage rows | Metered.Complete, adapters | harness, tenants |
| store, `store/` | schema version | Open, migrate, Write | everything |
| web client, `web/src/` | cursor, open stream, project | openProject, handleEvent, send | API |
| profile, exposure fence, embedded UI, command line | none | pure functions, a client | |

### What is hard about it

* Leases: expiry while the holder is alive, late renewals, takeovers, zombies that
  go on appending, cancels in the middle of a model call.
* Parking: a question is logged in one transaction and the run parked in another;
  an answer is checked, logged and resumed in three.
* Recovery: Execute keeps nothing but what it re-reads from the log, so every point
  between two of its appends is a place where a takeover may start.
* Delivery: an append publishes after its commit; a subscriber registers, reads and
  goes live in steps; pages reconnect with the cursor they were opened with.
* Checks outside the transaction that acts: storage and budget quotas, the parked
  run an answer is for, the version a commit replaces.

### What makes each component correct

* coordinator: no run is lost or stuck; the runs of a project take turns, parked
  ones included; a superseded lease is superseded for ever; a finished run stays as
  it finished; a retried request finds its run; tenants stay within their quota.
* event log: no append by a superseded holder; every committed event is delivered to
  every stream that stays open, in order and once.
* execution: a user always sees the question a run waits for and the end of a
  completed run; repairs are bounded however often a run changes hands; a stopped run
  falls silent; only the holder changes the log and the versions.
* project store: a version is exactly the workspace that was committed; the newest
  version is what a new worker starts from.
* publish: visitors see a version of the project, the one last chosen.
* identity: a login flow is used once; a disabled user has no way in.

## Modules

| module | what it is |
|---|---|
| `RunCoordinator` | the run and key rows, the workers' tokens, one action per coordinator operation, crash and deadline |
| `ProjectTurns` | abstract: the runs of a project take turns |
| `RunCoordinatorProofs` | the theorems about `RunCoordinator`, its refinement of `ProjectTurns` included |
| `MCRunCoordinator` | its instances |
| `EventLog` | one session's log: appenders, live channels, subscriptions, pages; checked as it stands |
| `SessionFeed` | abstract: a log that grows, and pages that show it event by event |
| `EventLogProofs` | the theorems about `EventLog`, its refinement of `SessionFeed` included |
| `RunExecution` | workers in executeRun and Execute, devices in the API handlers, on the rows of `RunCoordinator` (`RC == INSTANCE RunCoordinator`) |
| `MCRunExecution` | its instances |
| `RunExecutionProofs` | the theorems about `RunExecution`, its refinement of `RunCoordinator` included |
| `Conversation` | what several runs of a session say to the model: the log as reconstruct folds it, a worker's memory, the handlers in between |
| `MCConversation` | its instances |
| `ConversationProofs` | the theorems about `Conversation` |
| `ProjectStore` | workspaces, the shared blob directory, version rows and the live pointer, one action per step of a run, a commit, a restore or a publication |
| `MCProjectStore` | its instances |
| `ArtifactHistory` | abstract: histories of whole versions, and the one that is live |
| `ProjectStoreProofs` | the theorems about `ProjectStore`, its refinement of `ArtifactHistory` included |
| `Access` | accounts, sign-ins, browser sessions, cookies and API tokens |
| `AccessProofs` | the theorems about `Access` |
| `Spending` | the daily token budget and the storage limit against the workers that spend |
| `SpendingProofs` | the theorems about `Spending` |
| `Preview` | the preview secret of a project and the links made with it |
| `Migrations` | opening the database: scripts, their statements, `user_version`, several processes |
| `WebClient` | the page: one state, one stream, and functions that go on after an await |
| `Deadlines` | a lease's deadline as the text that SQLite compares |
| `MCFrontDoor` | one instance of `Access`, `Spending`, `Preview`, `Migrations`, `WebClient` and `Deadlines` |
| `FrontDoorProofs` | the theorems about `Preview`, `Migrations`, `WebClient` and `Deadlines`, and about the instance as a whole |

Definitions whose comment starts with **Fault:** are not part of the model. Each is a
definition of the module with one plausible bug put in (a dropped condition, a kept
deadline, a local counter). Put in the place of the definition it resembles it makes
one property fail; `PROJECT.json` pairs them ("mutants"). They show that a property
would notice such a change of the code.

### RunCoordinator

`status`, `session`, `holder`, `gen`, `expiry` are columns of `runs`; run *n* is the
*n*-th row inserted, so ORDER BY created_at is the order of the numbers. `keys` is
`idempotency_keys`. `held` is the `eventlog.Lease` value a worker goroutine carries:
it is memory and survives neither a crash nor the end of executeRun. Every action is
one transaction of the operation of its name; its guard is the WHERE clause, and a
refused operation changes nothing. A claim may also fail to commit (`ClaimFails`): `Coordinator.Claim` fills in the
run inside the transaction and returns it beside the error of the commit, and the worker logs the error and executes
the run. It then carries a generation that no row has, and the next claim hands out the same number. A token's field
`claim` is history and says which of the two it is. Time is what the guards compare: a deadline is
"none", "live" or "expired" and `Expire` lets one pass, at any moment, holder alive or
not. `StandDown` and `GiveUp` are the returns of executeRun without a transition;
`Crash` drops all tokens. The wake channel (`Poke`) has no state here: a worker polls
every 500 ms anyway, which is the fairness of `Claim`.

`TimelySpec` restricts the calls on a lease (Renew, Complete, Relinquish, Await) to
holders whose deadline has not passed. The code does not enforce this; with a TTL of
15 s and a renewal every TTL/3 it is the normal case. It is stated as an assumption
because the exclusion properties need it (see *late renewal* under Findings).

`ProjectTurns` knows phases (ready, active, parked, ended) and a turn per project.
`TakesTurns` says that the timely coordinator implements it: an expired lease maps to
a run that is ready again, so recovery scans and renewals are stuttering steps.

### EventLog

`log` is the session's rows, an event being the generation it was appended under (0
for an API append without a lease). `toPublish` is what an appender has committed and
not yet published, and how often it will be: emitState and provideInput call Publish
for what Append has published already. A subscription goes through "registered" (the
channel exists), "backfill" (rows read, being sent) and "live". `after` is the cursor in
the page's URL, which a reconnecting EventSource repeats; `last` is the goroutine's
variable; `lastSeq` the page's. `OrderedSpec` assumes, beyond fairness, that an append
is published before the next commits (`InOrder`) and that channels have room (`Room`;
1024 in the code): without the first `NoGap` fails (see Findings), without the
second the documented dropping for slow subscribers does the same.

`SessionFeed` is what a page's user is promised: `log` grows, no superseded holder adds to it,
and what a page shows grows by the next event only, unless the page is loaded anew (from 0, or
from the end of the log). `FeedKept` maps `shown` to `lastSeq`, so registering, backfilling,
publishing, dropping a connection and taking over are stuttering steps.

### RunExecution

`mem` is each worker's goroutine: where it is in Execute and executeRun, the number of
repairs and the pending calls it read from the log at its start. `request` is a device's request
between two transactions. `calls`, `asked`, `question`, `repaired`, `closed` are what is in
the log, reduced to what some code reads back or a property speaks of. `Passes` is the
fence of an append: it is that of `AppendTx`, which asks for worker and generation and
not for the run's status. A model turn is a choice (tools, a question, a final message).
`CommitVersion` may or may not make a version (the content may be known) and is not
fenced. A claim that was not committed (`ClaimFails`) is executed like any other, but gets no further than its first fenced append:
it tells the state "running", reads the log, and its `run.started` is refused. `StandDown` covers every way a worker learns that its run is gone: its own
refused append, its renewer, a cancel seen by executeRun. `Stop` is the graceful
shutdown: contexts are cancelled and workers `Yield`; `Restart` ends the process at
any moment. `UsesCoordinator` says the whole is an implementation of
`RunCoordinator`, so what is proved there holds here.

`late` collects the kinds of the events that are appended in a run's name after its cancel (`Log`). Most
appends are made under the lease. Some are not, and are kind "notice": the state events of `emitState`, one before
Execute (in `ReadLog`) and one after the transition (`EmitState`), even when the transition was refused
(`FinishRefused`); those of the handlers; `input.provided` and `run.cancelled`. So a stopped run is still named in the
log, and `CancelledStaysQuiet` says that notices are all it is named in. `stray` are the runs for which a
worker that did not hold the run made a version.

The closing events and the transition to completed are two steps, and so are the check for a parked
run and the append of an answer. So a log may have `run.completed` twice, when a shutdown refuses the
transition, and two answers to one question, when two devices pass the check together. The model has
both; no property forbids them, since no code relies on their absence.
`EventLog` and `Conversation` have no worker with a claim that was not committed: nothing it appends gets past the
fence, so their logs are the same without it.

### Conversation

`RunExecution` follows one run through its rows and fences; `Conversation` follows what the runs of
one session say. `log` is the session's events, already folded by reconstruct: the messages, and the
results that wait for the next flush (`AddMessage`, `AddResults`, `Rebuilt`). `mem.msgs` is the
local variable of Execute, which the harness extends on its own (`AppendToolResults`), so that
`MemoryIsLog` compares two computations of one conversation. A message is its kind and its calls; a
call is its turn and its place in it, since providers give every call an id of its own.

There is one worker. A superseded one appends nothing (the fence, `NoStaleAppend` and
`CancelledStaysQuiet` in the other modules), so it leaves the model when it is superseded: `LoseRun` is
every way to lose a run, and `Start` the next claim with its read of the log. The handlers keep their
steps: `Post` decides between an answer and a new run, `Submit`, `ProvideInput` and `ResumeRun` act on that
later, `Abort` drops a request anywhere.

`ModelTurn` takes the stop reason and the calls apart. The OpenAI adapter lets calls decide
(`stopReasonFor`); the Anthropic adapter passes the provider's reason on, so that a turn cut off by
`max_tokens` is final with calls in it. `FinalShapes` says which of the two is in use.

`orderly` is history: no message was posted while another request or a run was under way, nobody
stopped a run, no answer was lost halfway, no turn was cut off, no run ended with calls pending.
`TakeoverIsInvisible` is about these behaviours, in which workers may still be lost at any step, runs park
and are repaired. The other properties are about all behaviours.

### ProjectStore

`ws` is a project's workspace directory, `versions` its rows in the order of seq. A version's
id is the hash of its manifest, so a version *is* its manifest here: a function from paths to
contents. parent_id is the newest version at the time of the insert, hence the row before.
`phase` and `todo` are the one worker a project has at a time (`OneOwnerPerProject` of
`RunCoordinator`; a superseded worker that goes on committing is in `RunExecution`).

Blobs are files of one directory for all projects and are named by their content, so two
projects with a common content share a file. `Commit` asks whether the file exists, and if not
writes `<name>.tmp` and renames it. `OpenBlob`, `WriteBlob` and `RenameBlob` are these steps;
`fd` is where the file a worker has open lies by now, since a rename by another worker
moves it under the writer. A crash leaves files as they are: a temporary file may be
cut short for ever, a blob may be without a row.

The temporary name is the same for all writers. `Spec` lets two commits write one
blob at the same time, and there a row can be inserted whose blob is short: one worker renames what
the other has just cut to nothing. `AloneSpec` excludes exactly that (`Alone`); it is an
assumption about the environment, the code does not enforce it. Everything said of whole
versions is said under it.

`TearFile` is a restore that is cut short within a file, by an error or by the death of the process: the stump stays,
and so do the files before it.

`LoseWorkspace` stands for a directory removed between runs. `Publish` takes any version id,
known or not, as clients send it; `VersionFiles` of an unknown one is empty and the profile
refuses it.

`ArtifactHistory` is what readers are promised: a project has a history of whole artefacts, each
with the required file, which only grows and has none twice; a version reads the same for ever;
the public address shows one of them. `KeepsHistory` maps `history` to `Readable`, which is not the rows
but what a reader gets for them (`Served`): the manifest of the row, each path with the blob that its
name leads to, torn when the file is short or missing. So a blob that changes under an old version
is a step the abstract specification does not allow.

### Access

`account` and `token` are rows of `users` and `api_tokens` reduced to their life; `flow` is the
map of the static driver, which is memory and dies with the process; `session` is
`web_sessions`, its age reduced to what the code compares (above or below the renewal point,
expired). `flow` in a session is history: which sign-in it came from. `req` is a handler
goroutine. A sign-in is "claimed" after the driver's unlock, "verified" after the driver's
read of the accounts, "minting" after the service's, "minted" after the insert: at each of
these the command line, a process of its own on the same database, may disable the account.
`Enter` is the auth middleware; a session that has run below its renewal point is "renewing"
before it is "inside". `CookieExpires` may take a cookie at any time, which covers that a renewal
never sets it anew.

A session may be inserted after its account was disabled and its sessions revoked; nothing
revokes it later. What keeps such a user out is that Authenticate reads `disabled_at` with every
request. And a request that was let in before may still be about to renew its session: there it is the revocation that
counts, since the renewal asks for `revoked_at` and not for the account. `DisabledForGood` needs both: no request
begins with a session of a disabled account, and the session is not made fresh. A request that was let in before the
disabling is served to its end, renewal or not.

### Spending

`spent` is what `SpentToday` returns, `held` the blobs which the tenant's `version_files` name,
each of size 1. A worker is "calling" between Metered's check and its usage row, "pricing" between
`CheckStorage`'s sum and its reads per blob, "storing" between these and Commit's transaction. A
worker belongs to a tenant while it has a run; how many workers a tenant may have at once is
`TenantWithinQuota`, and that bound does not hold of superseded workers, so here any number of
workers may be at one tenant's runs.

`early` is the first second of a UTC day. `dayStart` is formatted without a fraction and
`created_at` with one, and the two are compared as strings: '.' sorts before 'Z', so a row of that
second is before midnight for the query and is counted on no day.

The limits are checked before and outside the transaction that spends. `BudgetOvershoot` and
`StorageOvershoot` say how far over them a tenant can get by that: one call, or one workspace,
per worker.

### Preview

`EnsurePreviewSecret` reads the secret, mints one outside of any transaction when there is none,
and stores it only where there still is none. `links` is every link ever answered; `LinksOpen`
says each of them opens, so a secret must never change once a link was answered with it.

### Migrations

`migrate` reads `user_version` once and executes the scripts above it. A script is one Exec of several
statements that commit one by one, and `user_version` follows in another, so `applied` is a set of
statements. An `opener` is a process: the server, or a command of the command line on the same file, of this
release or an older one. None of the statements can be executed twice, so a process that meets one
another has executed fails (`RefuseStatement`). That is also why a death inside a script is not repaired
by opening the file again: what holds is `OpenSeesWholeSchema`, never half a schema.

### WebClient

`shown`, `lastSeq`, `runId`, `log` are the page's one `state` and its transcript, `streams` its open
EventSources, `task` the functions that wait for an answer: opening a site waits twice ("events",
"session"), going home once, sending once, or twice when the project must be created first. Each goes
on with the state it finds. The page offers the home screen's cards while an earlier call is in flight, and the back
arrow as soon as the workspace is shown; `hurried` is history and says that the user did either before
the page was done.

`PageShowsItsSession` says of every user that the stream which stays open is the shown site's, because
`subscribe` reads the state it finds, and of a user who waits that the transcript is the shown session's,
without a gap or a repetition. A hurried user may see another site's events below the shown one's title, lose
events of the shown one (`lastSeq` was raised by the other's), or stop the other site's run.

Every call may fail: a project is not created, a replay or the session's state is not there, the list of sites is empty,
or the session is over and the home screen does not come (`ShowHome`). `Deliver` takes a stream to be contiguous. That is `NoGap` of `EventLog`, hence holds
only while appends are published in the order of their numbers.

### Deadlines

Deadlines are stored in the layout RFC3339Nano and compared as texts. The layout drops trailing zeros and
the point, and "." < "0" < "Z", so within one second 12:00:00Z comes after 12:00:00.5Z. `TextBefore` is that comparison,
with two digits to base `Base` for the fraction. The error is below a second and a lease is
renewed with two thirds of its time left, so `LeaseExpiryIsRead` holds when two thirds of the TTL are a
second or more. With 9 ticks to the second TLC finds it violated for a TTL of up to 12 ticks and true from
13 on: `--lease-ttl` (15 s by default) must not be set below 1.5 s.

## Runs

| run | bounds | shows |
|---|---|---|
| `coordinator` | 2 workers, 2 runs, 2 projects with one session each, 2 keys, 3 generations, quota 1 | `TypeOK`; no row that no scan sees; no lease is granted twice and none passes the fence ungranted; keys and runs agree; a finished run is final; a superseded lease stays so; every run ends, parks or waits for a parked sibling |
| `coordinator_timely` | 2 workers, 3 runs, 3 projects (one with two sessions), 2 tenants with quotas 2 and 1, 2 generations | one owner per project, tenants within quota, `TakesTurns` |
| `coordinator_late_renew` | 2 workers, 2 runs, 1 project | violation: two active leases in a project |
| `eventlog` | 2 writers, 1 page, 3 events, batches of 1 or 2, channel of 4, 2 generations | `TypeOK`, no gap under the cursor, refinement of `SessionFeed` (the fence among its guards), delivery |
| `eventlog_publish_order` | the same without `InOrder` | violation: an event is never delivered |
| `execution` | 2 workers, 1 device, 1 run, 3 generations, 1 repair | `TypeOK`, repair budget, parked runs have their question, completed runs are told, cancelled runs leave nothing but notices, refinement of the coordinator |
| `execution_versions` | as above, 2 generations | violation: a version by a superseded worker |
| `conversation` | 2 devices, 2 runs, 3 turns of up to 2 calls, 3 posts, 1 repair; turns may be cut off | `TypeOK`; memory is the log, no dangling call, no second tool result, answers go to a question of the last turn, takeovers do not show |
| `conversation_pairing` | the same with 2 turns, none cut off | violation: a text between a question and its answer |
| `artifacts` | 2 projects, 2 paths, 2 contents, 2 rows in all; commits do not write one blob together | `TypeOK`, versions stay whole through crashes, a restore reproduces the newest version, refinement of `ArtifactHistory` (the servable live version among its guards) |
| `artifacts_return` | 1 project | violation: after a commit the newest version is another one |
| `frontdoor` | 2 users, flows, sessions, browsers and handlers, 1 token; 2 workers, 5 blobs, limits of 2, calls of 1, workspaces of 2; 2 projects, 3 secrets; 3 processes, 3 scripts of 2 statements; 2 sites with 2 events, 2 calls in flight, 1 message; 9 ticks to a second, TTL of 15, 60 ticks | types; flows are used once, sessions of disabled accounts and revoked sessions stay out and are not renewed; overshoot of budget and storage is bounded; preview links open; no process opens half a schema; the page shows its session; leases expire when they should |

The passing runs take from a few seconds to three minutes; the largest are `artifacts` (about 980 000 states),
`execution` (about 820 000), `frontdoor` (about 550 000), `coordinator_timely` (about 440 000), `coordinator` (about
250 000), `eventlog` (about 230 000) and `conversation` (about 130 000).

### Bounds, and why they are enough

`MaxRuns` is the number of rows, `MaxGen` how often a run may be handed out: an action
that would put a run back is disabled for the holder of the last generation (`MayReturn`),
so that the liveness property is about the code and not about the bound. Two
workers are a holder and its successor; a third plays no role no second one can, as
every guard speaks of the row's holder and one token. Three generations are a zombie, its
successor and a successor's successor, so a token can be two takeovers behind. The
exclusion properties need three runs: a parked one, a working one and a claimant. The
page of `eventlog` cannot interact with another page, so one is enough; three
events with batches of two put one event in the backfill, one on both sides and one in
the channel. `execution` has one run: workers of different
runs share only the conversation, and an instance with two runs exceeds ten million states. What needs two
runs of a session is in `conversation`: a call inherited from a stopped run, a message between a question
and its parking. There three turns are one that is answered, one with calls pending and one after it;
three posts are the message that starts a run, one that comes at the wrong time and an answer; two calls
are a question with a tool or a second question beside it. `artifacts`
has two rows in all: two projects with one version each share blobs, or one
project has two and rolls back; a third row adds no new pair. `frontdoor` chooses in its initial state which of its six
components runs, since they share no state: the state graph is the sum of the six. Two handlers
are a sign-in and the one that races it, two sessions a browser's old and new one; five blobs are
two workspaces, with or without a common content, and one more, so that `StorageLimit + MaxFiles`
is reached and could be passed; three secrets let two minters race and one start again; three processes
are one that dies inside a script and two that race behind it; two calls in flight on the page are the one the user did
not wait for and the next. 60 ticks are six seconds and four leases, and every
initial time is tried. Two contents are a
common one and one that differs; two paths are the required file and another. Symmetry is
used on workers, devices, projects and contents, only in runs without liveness properties.

### Fairness

`FairSpec` (coordinator): `Claim` of some worker, because each polls every 500 ms and is
poked by RequestRun, Resume and recovery. This one is strong fairness: a worker whose claim did not commit is off
executing what it was handed, and comes back; commits that fail again and again for ever are a broken disk, not this
program. The end of executeRun (`FinishRun`), because
the harness has a bound on its iterations and calls have timeouts; the expiry of a
lease whose holder is gone (nobody renews it); `RecoverOrphans`, a ticker every TTL/2.
Users and failures are not fair. `OrderedSpec` (log): a goroutine that has
committed publishes, an open stream's goroutine runs. All but that of `Claim` are weak fairness: a crash or a
reconnect may intervene, but not the system's own steps.

## Theorems

`RunCoordinatorProofs` proves, for every number of sessions, projects, workers, keys and
runs, from `CoordinatorAssumption` (types of the constants; no worker is called "no
worker"):

* `TypeCorrect`: `Spec => []TypeOK`.
* `NoRunInLimbo`, `LeasesIdentifyHolders`: `Spec => []NoLimbo` and `[]LeaseIdentifiesHolder`.
* `SupersededForGood`, `FinishedForGood`: the action properties `LostLeaseStaysLost` and
  `TerminalIsFinal`.
* `KeysAgree`: `Spec => []KeysMatchRuns`.
* `OneOwner`, `QuotaKept`: `TimelySpec => []OneOwnerPerProject` and `[]TenantWithinQuota`.
* `TakingTurns`: `TimelySpec => TakesTurns`, the refinement of `ProjectTurns`.

`EventLogProofs` proves, for every number of writers, pages, events and generations and every
size of a channel, from `EventLogAssumption`:

* `LogTyped`, `StaleNeverAppends`: `Spec => []TypeOK` and `[]NoStaleAppend`.
* `NothingSkipped`: `OrderedSpec => []NoGap`.
* `FeedImplemented`: `OrderedSpec => FeedKept`, the refinement of `SessionFeed`.

`AccessProofs` proves, for any sets of ids, from `AccessAssumption` ("none" is no id):
`AccessTyped`, `OneSignInPerFlow`, `DisabledKeptOut` and `RevokedKeptOut`, that is `TypeOK`,
`FlowUsedOnce`, `DisabledForGood` and `RevokedForGood` for `Spec`.

`SpendingProofs` proves, for any tenants and limits and any finite number of workers and blobs, from
`SpendingAssumption` (there is a worker): `SpendingTyped`, `BudgetKept` and `StorageKept`, that is `SpendingTypeOK`,
`BudgetOvershoot` and `StorageOvershoot` for `SpendingSpec`.

`RunExecutionProofs` proves, for every number of workers, devices, runs, generations and repairs, from
`ExecutionAssumption`:

* `TypeCorrect`, `BudgetCorrect`, `ParkingCorrect`, `CompletionCorrect`, `CancelCorrect`: `Spec` implies
  `[]TypeOK`, `[]RepairBudget`, `[]ParkedHasQuestion`, `[]CompletedIsTold` and `[]CancelledStaysQuiet`.
* `CoordinatorImplemented`: `Spec => UsesCoordinator`, so the theorems about `RunCoordinator!Spec` hold of the
  rows the workers and handlers share.
* `RowsKept`, `FinishedAndSuperseded`: those theorems, as what `Spec` implies of these rows: `NoLimbo`,
  `LeaseIdentifiesHolder`, `KeysMatchRuns`, `TerminalIsFinal` and `LostLeaseStaysLost`.
* `ProjectsExclusive`, `ExecutionTakesTurns`: with `CallsOnTime` (no worker makes a lease call after its lease's
  deadline, the assumption of `TimelySpec` as a property of the larger system's steps), `OneOwnerPerProject`,
  `TenantWithinQuota` and `TakesTurns` hold of these rows too.

`ConversationProofs` proves, for every number of devices, runs, turns, posts and repairs and any shapes of turns,
from `BoundsAssumption`: `TypeCorrect`, `MemoryCorrect`, `NothingDanglesCorrect`, `ToolsOnce`, `QuestionCorrect` and
`TakeoverCorrect`, that is all the properties of the run `conversation`.

`ProjectStoreProofs` proves, for every set of projects, paths and contents and any number of
rows, from `StoreAssumption` (the required file is a path, "no file" and "torn" are no
contents):

* `StoreTyped`: `Spec => []TypeOK`.
* `ServableOnly`: `Spec => [](CommitsServable /\ LiveIsServable)`: what is being committed and what is live have
  the required file. This needs no assumption on who writes which blob.
* `VersionsWhole`, `Restored`: `AloneSpec => []VersionsAreWhole` and `RestoreReproduces`.
* `HistoryKept`: `AloneSpec => KeepsHistory`, the refinement of `ArtifactHistory`.

`FrontDoorProofs` proves, for all the components of `MCFrontDoor` that have no proof module of their own:

* `EveryLinkOpens`: `Pre!Spec => []LinksOpen`, for any handlers, projects and secrets, from `PreviewAssumption`
  ("none" is no secret).
* `SchemaIsWhole`: `Mig!Spec => []OpenSeesWholeSchema`, for any processes, scripts and statements, from
  `MigrationsAssumption` (the numbers of scripts and statements are numbers).
* `PageIsTrue`: `Web!Spec => []PageShowsItsSession`, for any sites, events, messages and calls in flight, from
  `PageAssumption` ("no site" is no site).
* `ExpiryIsRead`: `Ddl!Spec => []LeaseExpiryIsRead`, for every base, TTL and horizon, from
  `DeadlinesAssumption`: two thirds of the TTL are a second or more. The default of 15 s meets it; the flag is not
  checked by the code, and below it the property fails.
* `AllTyped`, `AllKept`: the types of all six components and the four invariants above, for `AllSpec`, the instance
  that `frontdoor` runs.

### The arguments

Coordinator. `LeaseIdentifiesHolder` is not inductive: a claim could hand out a generation that
some worker was granted already. The strengthening is `TokensBehind`: every granted token is at most
its row's generation, and one that is level with the row is the row's holder's. Then
`Claim` hands out a generation above every granted token, and `Cancel` puts them all
behind. Of a token that was not granted `TokensBehind` says nothing: it may be one ahead of the row, and level with it when
the next claim has been made. What stops it is the other half of the fence, the worker's id (`CurrentByGeneration` is the fault
without it): a row names the worker of its last claim, who had no token before.
`IInv == TypeOK /\ NoLimbo /\ TokensBehind /\ LeaseIdentifiesHolder` is inductive
(`InvStep`), and `SupersededForGood` follows from it because generations only rise
(`GenerationsRise`) and a row gets a holder only by the claim that gives the worker a new token (`NoneRegains`). `OneOwner` rests on `IInv` too: only `Claim` makes an owner and it has
looked at every sibling (`NoNewOwner` covers all other steps); being on time is what
keeps Renew and Await from making one. `QuotaKept` is the same argument over the set of a
tenant's unexpired leases, which only `Claim` enlarges, by one and below the quota.

Turns. With one owner per project `TurnOf`, a CHOOSE, is that owner or nobody
(`TurnIsOwner`), so a step maps by what it does to the owners: none changes them
(`SameTurns`), or a run gives its project back, or takes one nobody has. `RowSteps` does this for
the changes of a single row.

Event log. `NoStaleAppend` needs that no event is of a generation above the row's. `NoGap` speaks
of a page's cursor and needs to know what its stream will still be sent. `Reach` is how
far a stream gets with its backfill; every published event is within the reach or has one above
it in the channel (`HandedOver`); the channel never jumps (`NoHoles`); what one writer has yet to
publish is the newest of the log (`NewestPending`), which is where the order of publication
comes in. `StreamInv` is inductive for `OrderedSpec`. For the refinement it remains that pages and backfills are
not ahead of the log (`Behind`): an event a stream sends is then the page's next one, or one it has already and
ignores (`TakeInShows`), and every other step changes neither side (`FeedStep`).

Access. `FlowUsedOnce` needs `SpentFlows`: a flow that a handler holds or a session came from is
gone from the driver's map, so no second handler claims it. `RevokedForGood`
and `DisabledForGood` are one argument (`KeptOut`): a session that Authenticate does not accept lets nobody in, and stays as
old as it is unless a renewal is under way for it, which asks for `revoked_at` in its own statement. For a disabled account the second
half is not obvious, since a session minted after the disabling is not revoked. `RenewalsFade` says why: a
request renews only a session that was accepted, so its account was enabled then, and the disabling that came since has found
the row and revoked it.

Spending. The bound counts the calls under way with their largest cost. A check adds one call
and finds the tenant below its limit, so all workers together stay below limit plus one call
each; a recorded call costs at most what it was counted with.
Storage has no such sum, since a read may be older than others' commits. `Room` counts a whole workspace for every worker
that has read and may still commit (`Storing`), and allows one of them, whichever read last, what the limit leaves
over its own read instead. A new read makes its worker that one; a commit of that one gives up no more than it had.

Execution. The three state invariants are about rows and the log; what a worker is about to write is in its
memory. `Fine(w)` ties the two together for a worker whose token is still the row's: the repairs it counts are the
log's (`repaired`), the question it parks with was asked under its generation, and when it completes the closing
events are logged. A worker that was superseded is refused wherever it counts, so nothing is said of it. `RowInv`
is what makes that stable: a row has one holder (`OneHolder`), so a worker's step leaves the
others fine (`OthersFine`), and coordinator steps leave whatever they do not touch (`Untouched`). `CancelledStaysQuiet`
is kept apart (`Lates`): an append of another kind than notice needs a worker whose token is the row's, and a cancelled
row names no worker (`NobodyHolds`). The refinement is
one step per action: the row part of a worker's or a handler's step is an action of `RunCoordinator` or
nothing; `Restart` is its `Crash`, or nothing when no worker holds a token. `RowsKept` and the three theorems after it
compose that with the theorems of `RunCoordinatorProofs`, instantiated as `RCP`: `OneSpec` says
that the coordinator of `RC` and that of `RCP` are one, `OneTimely` that it is a timely one when lease calls are on time.

Conversation. pendingTools looks at the last turn only, and at the worker's memory, while `NothingDangles` is about
the log. A turn is added when nothing is pending in memory, so `MemoryInv` says what ties the two together when others
have written meanwhile: both have the same last turn, and what is pending in the log is pending in memory.
`ResultsInv` counts: the calls of a turn are new, so none has a result yet, and a tool call with a result is
pending neither in the log nor in memory, so nobody gives it another. `QuestionInv` follows the newest question from
AskUser to the parked row: a parked run keeps the project, so no later turn can come. `OrderlyInv` is for the orderly
behaviours: the messages are paired, the last turn's results possibly incomplete, no pending call has a result, and
while some are pending a run is open (`Paired`); nobody has written beside the worker (`Working`); and there is
at most one request, and a parked run's question is pending unless its answer has just been logged (`Answering`).

Project store. `VersionsAreWhole` speaks of rows, and a row is inserted from what a commit
has stored so far. `StoredSoFar` says that a storing worker's contents which are no longer to do
are whole blobs; for a rename to keep that, the file under the temporary name must
be whole when its writer has written (`WritersApart`: open files are of different contents; and a
blob that exists is whole, `BlobsAreWhole`). `RestoredSoFar` is the same for a restore: the files
no longer to do are those of the newest version, which holds at its end for all of them.
`RowsAreWhole` is what the rows need in order to be restored without a torn file. `IInv` is the conjunction; it
is proved with one step per action, grouped by what the action touches (files, rows, the
pointer). `ServableOnly` follows what a commit has vetted from `BeginCommit` to the row (`CommitsServable`).
For the refinement, rows are read as they stand when the blobs they name are whole (`RowsRead`), so `Readable` is
`versions` in every reachable state and changes with `InsertVersion` only; with `ServableOnly` that step is
`Add` and a publication is `GoLive` (`HistoryStep`).

Preview. `StoreSecret` may find a secret that another handler stored meanwhile, and then answers with that one, so a
project's secret changes once, from none, when no link names the project. A link is made from the secret that is in
the row after the update, not from the one its handler drew (`MintingDrawn` only says what was drawn).

Migrations. `user_version` is read once and the statements of a script commit one by one, so neither is an
invariant of the other while somebody migrates. `VersionApplied` says that scripts up to the version are applied in
full, `OpenersApplied` that what a process has behind it is: the scripts below its own and the statements it has
executed in this one. Nothing removes a statement, so other processes' steps keep both.

Deadlines. The comparison of two texts errs only within one second (`TextBefore` looks at the seconds first). While a
renewer runs, the clock is at most a third of the TTL past the last renewal (`RenewedInTime`), so the deadline is two thirds of the TTL ahead, which is a second by assumption: the seconds
differ and the texts compare as the times do. `LeaseExpiryIsRead` holds of such states without another step.

Web client. Of every user: there is one stream at most, and it is the shown site's unless a call that will
subscribe anew is under way (`StreamsInv`), since `subscribe` closes the stream before. Of a user who waits (`~hurried`):
at most one call is moving the page and the others are about the site that is shown (`CalmTasks`), and the stream is
not past `lastSeq`, so what it brings is the next event or one the page has; hence the
transcript is the shown site's events 1 to `lastSeq` (`CalmPage`). `PageInv` joins them; a step that makes the user
hurried has only `StreamsInv` to keep.

Only model-checked: liveness (`EveryRunSettles`, `EventuallyDelivered`), which is beyond
the prover. Every other property of a passing run is a theorem. That a stream delivers at all is therefore
TLC's; that what it delivers is right is proved.

## Findings

Violations TLC shows; each run checks one sentence of the repository.

* **Late renewal** (`coordinator_late_renew`): Renew does not ask that the lease is still
  unexpired (`coordinator.go:192`). A worker that comes late revives a lease after a
  sibling was claimed: two active leases in one project, against RC-2.
* **Publication order** (`eventlog_publish_order`): Append publishes outside its
  transaction; published in the other order, the lower event is skipped by
  `e.Seq <= last` and never delivered to open streams, against SL-4.
* **Versions are not fenced** (`execution_versions`): Projects.Commit knows no lease, so
  a superseded or cancelled worker makes the newest version, against `harness.go:104-108`.
* **The pause shows** (`conversation_pairing`): a message posted while a run asks its question, before it has
  parked, finds no parked run and is logged as a message. The answer's result then comes after it, so the model is sent
  a text between its calls and their results, against `harness.go:504` and `docs/plans/m4-blueprint.md:44`.
* **Returning to earlier content** (`artifacts_return`): a commit whose manifest is that of an
  older version inserts no row and moves nothing (`store.go:140`). After A, then B, then A
  again the newest version is B: publish, preview and a rebuilt workspace use B, against
  `PRD.md:170`.

Two more disagreements have no run of their own:

* The comment on `emitState` (`server.go:462-464`) says it is called "after the fenced transition it describes has already
  succeeded". `server.go:451` and `:458` call it after a refused one too, and `:392` after a claim that may have
  been rolled back. `FinishRefused` and `ReadLog` have it.
* A claim whose commit failed is executed (`coordinator.go:181-184`, `server.go:371-384`), so "a generation is handed out once" is not true of this code,
  and the page may be told that a run is at work which is still queued. `LeaseIdentifiesHolder` says what is true
  instead; the fence refuses the worker's first append.

## Not modelled, and why

* Which state a state event names (`emitState`, the handlers): nothing reads it back but the page's
  status line, and the session's status is answered from the rows. That the events are appended is modelled
  (`EmitState`).
* The embedded UI, the exposure fence and the command line keep no state; the administrative calls of the
  latter are single transactions (accounts and tokens are in `Access`, limits are constants in `Spending`).
* The wire formats of the model adapters, prompts, progress phrases and titles are data. Of an adapter what counts is the
  stop reason and the calls of a turn (`ModelTurn`).
* Creating projects, exporting and the lists are single transactions or reads.
* The rendering of the page, its publish and history dialogs.
* A visitor's load of a page: its files are independent requests, each served from the version that is live when it
  comes.
* Waking workers (`Poke`): a poll every 500 ms makes a lost signal harmless.

## Plan

What could follow, in this order:

1. Restores that a crash cuts off: `ProjectStore` has the crash, and the next run takes a workspace that is not
   empty as it is; a property would have to say what a user may expect then.
2. The retries of the clients, with the keys of messages that turn out to be answers.
3. Proofs: what a stream may still skip when appends are published out of order, for `Spec` of `EventLog`.
