---------------------------- MODULE RunExecution ----------------------------
(***************************************************************************)
(* One session at work: the workers of internal/server/server.go executing  *)
(* runs with internal/harness/harness.go, and the API handlers of           *)
(* internal/api/api.go posting messages, answers and cancels, on the rows   *)
(* of RunCoordinator.                                                       *)
(*                                                                         *)
(* Every write transaction is one step, so a worker and a handler are a     *)
(* program counter and the values they read before and use after.  Of the   *)
(* log the module keeps what some code reads back, or a property is about.  *)
(***************************************************************************)
EXTENDS Integers, FiniteSets

CONSTANTS
    Sessions, Projects, Tenants, ProjectOf, TenantOf, MaxConcurrent, Keys,
    Workers, NoWorker, NoSession, MaxRuns, MaxGen,   \* as in RunCoordinator
    Devices,      \* browsers, each with at most one request in flight
    MaxRepairs    \* maxRepairs, 2 in the code

ASSUME ExecutionAssumption ==
    /\ ProjectOf \in [Sessions -> Projects] /\ TenantOf \in [Projects -> Tenants]
    /\ MaxConcurrent \in [Tenants -> Nat]
    /\ NoWorker \notin Workers /\ NoSession \notin Sessions
    /\ {MaxRuns, MaxRepairs} \subseteq Nat /\ MaxGen \in Nat \ {0}

VARIABLES
    status, session, holder, gen, expiry, keys, held,   \* of RunCoordinator
    mem,       \* each worker's goroutine: program counter and local variables
    request,   \* each device's request in flight
    stopping,  \* graceful shutdown: the server's context is cancelled
    calls,     \* log: the last assistant message's unresolved tool calls
    asked,     \* log: the generation in which a run last asked the user, 0 never
    question,  \* log: the call the newest input.requested is about
    repaired,  \* log: number of repair.started, per run
    closed,    \* log: number of run.completed, per run
    late,      \* log: kinds of events appended in a run's name after its cancel
    stray      \* versions: the runs for which a worker that had lost its lease made one

RC == INSTANCE RunCoordinator

rowVars == <<status, session, holder, gen, expiry>>
coordVars == <<rowVars, keys, held>>
convVars == <<calls, asked, question>>
logVars == <<convVars, repaired, closed, late>>
vars == <<coordVars, mem, request, stopping, logVars, stray>>

RunIds == 1 .. MaxRuns

\* Tool calls of an assistant message: the run and generation that logged it.
None == [kind |-> "none", run |-> 0, gen |-> 0]
Calls == [kind : {"tools", "ask"}, run : RunIds, gen : 1 .. MaxGen]

Idle == [pc |-> "idle", run |-> 0, repairs |-> 0, calls |-> None]
NoRequest == [step |-> "none", run |-> 0, question |-> None]

\* Where a worker is inside Execute, under the context a lost lease cancels.
Executing == {"reading", "starting", "started", "working", "committing",
              "closing", "saved", "asking"}

\* After Execute: under the lease, and with the lease given back or lost.
Ending == {"closed", "parking", "failing", "failed"}

\* In the loop: before the first iteration, after one.
Looping == {"started", "working"}

At(w, pc) == mem[w].pc = pc
Goto(w, pc) == mem' = [mem EXCEPT ![w].pc = pc]
Leave(w) == mem' = [mem EXCEPT ![w] = Idle]

\* Execute returns: its local variables are gone.
Return(w, pc) == mem' = [mem EXCEPT ![w] = [Idle EXCEPT !.pc = pc, !.run = mem[w].run]]

\* An append under the worker's lease passes AppendTx's fence.
Passes(w) == RC!Current(w) /\ ~stopping

\* The kinds of events that carry a run's id.  A notice is appended without a
\* lease: session.state.changed, input.provided, run.cancelled.
Kinds == {"start", "result", "message", "repair", "closing", "version",
          "question", "failure", "notice"}

\* An event of run r is appended; a best-effort append may also fail.
Log(r, kind) ==
    late' = IF status[r] = "cancelled" THEN [late EXCEPT ![r] = @ \cup {kind}] ELSE late
TryLog(r, kind) == late' = late \/ Log(r, kind)

-----------------------------------------------------------------------------
Init ==
    /\ RC!Init
    /\ mem = [w \in Workers |-> Idle]
    /\ request = [d \in Devices |-> NoRequest]
    /\ stopping = FALSE
    /\ calls = None /\ question = None
    /\ asked = [r \in RunIds |-> 0]
    /\ repaired = [r \in RunIds |-> 0]
    /\ closed = [r \in RunIds |-> 0]
    /\ late = [r \in RunIds |-> {}]
    /\ stray = {}

-----------------------------------------------------------------------------
\* The worker.

\* A run whose claim was not committed is executed like any other.
Claim(w) ==
    /\ At(w, "idle") /\ ~stopping
    /\ RC!Claim(w) \/ RC!ClaimFails(w)
    /\ mem' = [mem EXCEPT ![w] = [Idle EXCEPT !.pc = "reading", !.run = held'[w].run]]
    /\ UNCHANGED <<request, stopping, logVars, stray>>

\* Fault: the repair budget is counted in a local variable.
ReadLogFresh(w) ==
    /\ At(w, "reading") /\ ~stopping
    /\ mem' = [mem EXCEPT ![w].pc = "starting", ![w].calls = calls]
    /\ UNCHANGED <<coordVars, request, stopping, logVars, stray>>

\* emitState(running), without the lease, then Execute reads the log once,
\* before its own run.started or run.resumed.
ReadLog(w) ==
    /\ At(w, "reading") /\ ~stopping
    /\ mem' = [mem EXCEPT ![w].pc = "starting",
                          ![w].repairs = repaired[mem[w].run],
                          ![w].calls = calls]
    /\ TryLog(mem[w].run, "notice")
    /\ UNCHANGED <<coordVars, request, stopping, convVars, repaired, closed, stray>>

AppendStart(w) ==
    /\ At(w, "starting") /\ Passes(w)
    /\ Goto(w, "started")
    /\ Log(mem[w].run, "start")
    /\ UNCHANGED <<coordVars, request, stopping, convVars, repaired, closed, stray>>

\* Pending calls run before the next model turn.
RunTools(w) ==
    /\ mem[w].pc \in Looping /\ mem[w].calls.kind = "tools" /\ Passes(w)
    /\ mem' = [mem EXCEPT ![w].pc = "working", ![w].calls = None]
    /\ calls' = None
    /\ Log(mem[w].run, "result")
    /\ UNCHANGED <<coordVars, request, stopping, asked, question, repaired, closed, stray>>

\* A model turn, logged as an assistant.message: tool calls, or the final one.
ModelTurn(w, kind) ==
    /\ mem[w].pc \in Looping /\ mem[w].calls = None /\ Passes(w)
    /\ LET turn == IF kind = "final" THEN None
                   ELSE [kind |-> kind, run |-> mem[w].run, gen |-> held[w].gen]
       IN  /\ calls' = turn
           /\ mem' = [mem EXCEPT ![w].calls = turn,
                                 ![w].pc = IF kind = "final" THEN "committing" ELSE "working"]
    /\ Log(mem[w].run, "message")
    /\ UNCHANGED <<coordVars, request, stopping, asked, question, repaired, closed, stray>>

\* Projects.Commit is not fenced.  Content committed before makes no version.
CommitVersion(w, next) ==
    /\ ~stopping
    /\ stray' \in {stray} \cup (IF RC!Current(w) THEN {} ELSE {stray \cup {mem[w].run}})
    /\ Goto(w, next)
    /\ UNCHANGED <<coordVars, request, stopping, logVars>>

\* The final turn ends the loop, and so does the last of MaxIterations turns,
\* whatever is pending.
LoopEnds(w) == mem[w].pc \in {"committing", "working"}

\* Fault: the closing events are not appended.
CommitSilently(w) == LoopEnds(w) /\ CommitVersion(w, "closed")

CommitFinal(w) == LoopEnds(w) /\ CommitVersion(w, "closing")

\* After the final turn, the commit is refused because the workspace is not
\* servable: a repair turn, while the budget lasts.
AppendRepair(w) ==
    /\ At(w, "committing") /\ mem[w].repairs < MaxRepairs /\ Passes(w)
    /\ repaired' = [repaired EXCEPT ![mem[w].run] = @ + 1]
    /\ mem' = [mem EXCEPT ![w].pc = "working", ![w].repairs = @ + 1]
    /\ Log(mem[w].run, "repair")
    /\ UNCHANGED <<coordVars, request, stopping, convVars, closed, stray>>

\* The closing append: repair.completed, artifact.version.created, run.completed.
AppendClosing(w) ==
    /\ At(w, "closing") /\ Passes(w)
    /\ closed' = [closed EXCEPT ![mem[w].run] = @ + 1]
    /\ Return(w, "closed")
    /\ Log(mem[w].run, "closing")
    /\ UNCHANGED <<coordVars, request, stopping, convVars, repaired, stray>>

\* A question among the pending calls is asked when the others have run.
Asking(w) == mem[w].pc \in Looping /\ mem[w].calls.kind = "ask" /\ ~stopping

\* Fault: the run parks before its question is in the log.
SnapshotAndPark(w) == Asking(w) /\ CommitVersion(w, "parking")

\* commitProgress: a version if the workspace is servable, else nothing.
Snapshot(w) ==
    /\ Asking(w)
    /\ \/ CommitVersion(w, "saved")
       \/ Goto(w, "asking") /\ UNCHANGED <<coordVars, request, stopping, logVars, stray>>

\* commitProgress: artifact.version.created.
AppendProgress(w) ==
    /\ At(w, "saved") /\ Passes(w)
    /\ Goto(w, "asking")
    /\ Log(mem[w].run, "version")
    /\ UNCHANGED <<coordVars, request, stopping, convVars, repaired, closed, stray>>

AppendQuestion(w) ==
    /\ At(w, "asking") /\ Passes(w)
    /\ asked' = [asked EXCEPT ![mem[w].run] = held[w].gen]
    /\ question' = mem[w].calls
    /\ Return(w, "parking")
    /\ Log(mem[w].run, "question")
    /\ UNCHANGED <<coordVars, request, stopping, calls, repaired, closed, stray>>

\* Execute returns an error that is neither a lost lease nor a cancelled
\* context: the model, a tool directory, a refused commit.
Fail(w) ==
    /\ mem[w].pc \in Executing /\ ~stopping
    /\ status[mem[w].run] # "cancelled"
    /\ Return(w, "failing")
    /\ UNCHANGED <<coordVars, request, stopping, logVars, stray>>

\* EmitFailure: one fenced append under no context, a refusal is ignored.
AppendFailure(w) ==
    /\ At(w, "failing")
    /\ late' = late \/ (RC!Current(w) /\ Log(mem[w].run, "failure"))
    /\ Goto(w, "failed")
    /\ UNCHANGED <<coordVars, request, stopping, convVars, repaired, closed, stray>>

\* Fault: the worker keeps working without its lease.
StandDownAndStay(w) ==
    /\ mem[w].pc \in Executing
    /\ RC!StandDown(w) \/ RC!GiveUp(w)
    /\ UNCHANGED <<mem, request, stopping, logVars, stray>>

\* A fenced append was refused, or the renewer saw the lease gone, or the
\* run's error finds it cancelled, or a renewal failed: nothing is written.
StandDown(w) ==
    /\ mem[w].pc \in Executing
    /\ RC!StandDown(w) \/ RC!GiveUp(w)
    /\ Leave(w)
    /\ UNCHANGED <<request, stopping, logVars, stray>>

\* Graceful shutdown gives the run back.
Yield(w) ==
    /\ mem[w].pc \in Executing /\ stopping
    /\ RC!Relinquish(w)
    /\ Leave(w)
    /\ UNCHANGED <<request, stopping, logVars, stray>>

\* The fenced transition at the end.  It runs under the server's context after
\* a success, under none after a failure or a question.
Transition(w, pc, st) ==
    /\ At(w, pc)
    /\ IF st = "waiting_for_input" THEN RC!Await(w) ELSE RC!Complete(w, st)
    /\ Goto(w, "telling")
    /\ UNCHANGED <<request, stopping, logVars, stray>>

Finish(w) ==
    \/ ~stopping /\ Transition(w, "closed", "completed")
    \/ Transition(w, "failed", "failed")
    \/ Transition(w, "parking", "waiting_for_input")

\* The transition is refused, or its write fails: a warning in the server's
\* log.  A refused Await ends there; after a refused Complete the state is told
\* all the same.
FinishRefused(w) ==
    /\ mem[w].pc \in {"closed", "failed", "parking"}
    /\ RC!StandDown(w) \/ RC!GiveUp(w)
    /\ IF At(w, "parking") THEN Leave(w) ELSE Goto(w, "telling")
    /\ UNCHANGED <<request, stopping, logVars, stray>>

\* emitState: session.state.changed in the run's name, under no lease and no
\* context, best effort.
EmitState(w) ==
    /\ At(w, "telling")
    /\ TryLog(mem[w].run, "notice")
    /\ Leave(w)
    /\ UNCHANGED <<coordVars, request, stopping, convVars, repaired, closed, stray>>

\* The renewer runs beside Execute, until executeRun returns.
Renew(w) ==
    /\ mem[w].pc # "idle" /\ ~stopping
    /\ RC!Renew(w)
    /\ UNCHANGED <<mem, request, stopping, logVars, stray>>

-----------------------------------------------------------------------------
\* The API handlers.

WaitingRuns == {r \in RunIds : status[r] = "waiting_for_input"}

\* postMessage and answerRun look for a parked run first, outside any
\* transaction.  A message with none is submitted.
Post(d) ==
    /\ request[d] = NoRequest
    /\ IF WaitingRuns = {} \/ question = None
       THEN request' = [request EXCEPT ![d].step = "submit"]
       ELSE \E r \in WaitingRuns :
              request' = [request EXCEPT ![d] =
                            [step |-> "answer", run |-> r, question |-> question]]
    /\ UNCHANGED <<coordVars, mem, stopping, logVars, stray>>

\* submit: user.message, run and key in one transaction.
Submit(d) ==
    /\ request[d].step = "submit"
    /\ \E s \in Sessions, k \in Keys : RC!RequestRun(s, k)
    /\ request' = [request EXCEPT ![d] = NoRequest]
    /\ UNCHANGED <<mem, stopping, logVars, stray>>

\* provideInput, first transaction: input.provided and the state, with no look
\* at the run's row.
ProvideInput(d) ==
    /\ request[d].step = "answer"
    /\ calls' = IF calls = request[d].question THEN None ELSE calls
    /\ request' = [request EXCEPT ![d].step = "resume"]
    /\ Log(request[d].run, "notice")
    /\ UNCHANGED <<coordVars, mem, stopping, asked, question, repaired, closed, stray>>

\* Fault: the run is queued whatever its status.
ResumeAlways(d) ==
    /\ request[d].step = "resume"
    /\ status' = [status EXCEPT ![request[d].run] = "queued"]
    /\ request' = [request EXCEPT ![d] = NoRequest]
    /\ UNCHANGED <<session, holder, gen, expiry, keys, held, mem, stopping, logVars, stray>>

\* provideInput, second transaction; ErrNotWaiting is a server error.
ResumeRun(d) ==
    /\ request[d].step = "resume"
    /\ \/ RC!Resume(request[d].run)
       \/ status[request[d].run] # "waiting_for_input" /\ UNCHANGED coordVars
    /\ request' = [request EXCEPT ![d] = NoRequest]
    /\ UNCHANGED <<mem, stopping, logVars, stray>>

\* The event that follows, run.cancelled with the state, is best effort.
CancelRun(r) ==
    /\ RC!Cancel(r)
    /\ late' \in {late, [late EXCEPT ![r] = @ \cup {"notice"}]}
    /\ UNCHANGED <<mem, request, stopping, convVars, repaired, closed, stray>>

\* The browser goes away: the request's context is cancelled between two steps.
Abort(d) ==
    /\ request[d] # NoRequest
    /\ request' = [request EXCEPT ![d] = NoRequest]
    /\ UNCHANGED <<coordVars, mem, stopping, logVars, stray>>

-----------------------------------------------------------------------------
\* The process.

RecoverOrphans ==
    /\ RC!RecoverOrphans
    /\ UNCHANGED <<mem, request, stopping, logVars, stray>>

Expire(r) ==
    /\ RC!Expire(r)
    /\ UNCHANGED <<mem, request, stopping, logVars, stray>>

Stop ==
    /\ ~stopping
    /\ \E w \in Workers : held[w] # RC!NoLease
    /\ \A w \in Workers : RC!Holds(w) => RC!MayReturn(held[w].run)
    /\ stopping' = TRUE
    /\ UNCHANGED <<coordVars, mem, request, logVars, stray>>

\* The process ends, killed or drained, and starts again on the same rows.
Restart ==
    /\ \A w \in Workers : RC!Holds(w) => RC!MayReturn(held[w].run)
    /\ stopping \/ \E w \in Workers : mem[w] # Idle
    /\ held' = [w \in Workers |-> RC!NoLease]
    /\ mem' = [w \in Workers |-> Idle]
    /\ request' = [d \in Devices |-> NoRequest]
    /\ stopping' = FALSE
    /\ UNCHANGED <<rowVars, keys, logVars, stray>>

-----------------------------------------------------------------------------
Execute(w) ==
    \/ ReadLog(w) \/ AppendStart(w)
    \/ RunTools(w)
    \/ \E kind \in {"tools", "ask", "final"} : ModelTurn(w, kind)
    \/ CommitFinal(w) \/ AppendRepair(w) \/ AppendClosing(w)
    \/ Snapshot(w) \/ AppendProgress(w) \/ AppendQuestion(w)
    \/ Fail(w) \/ AppendFailure(w) \/ StandDown(w) \/ Yield(w)
    \/ Finish(w) \/ FinishRefused(w) \/ EmitState(w)

Handle(d) ==
    \/ Post(d) \/ Submit(d) \/ ProvideInput(d) \/ ResumeRun(d) \/ Abort(d)

Next ==
    \/ \E w \in Workers : Claim(w) \/ Execute(w) \/ Renew(w)
    \/ \E d \in Devices : Handle(d)
    \/ \E r \in RunIds : CancelRun(r) \/ Expire(r)
    \/ RecoverOrphans \/ Stop \/ Restart

Spec == Init /\ [][Next]_vars

-----------------------------------------------------------------------------
TypeOK ==
    /\ mem \in [Workers -> [pc : Executing \cup Ending \cup {"idle", "telling"},
                           run : 0 .. MaxRuns, repairs : 0 .. MaxRepairs,
                           calls : Calls \cup {None}]]
    /\ request \in [Devices -> [step : {"none", "submit", "answer", "resume"},
                                run : 0 .. MaxRuns, question : Calls \cup {None}]]
    /\ stopping \in BOOLEAN
    /\ calls \in Calls \cup {None}
    /\ question \in {c \in Calls : c.kind = "ask"} \cup {None}
    /\ asked \in [RunIds -> 0 .. MaxGen]
    /\ repaired \in [RunIds -> Nat]
    /\ closed \in [RunIds -> Nat]
    /\ late \in [RunIds -> SUBSET Kinds]
    /\ stray \subseteq RunIds
    \* A worker past its claim and before its transition carries its run's token.
    /\ \A w \in Workers : mem[w].pc \in Executing \cup Ending => held[w].run = mem[w].run

\* The workers and handlers use the run rows only as RunCoordinator allows, so
\* what is checked and proved there holds of the whole session.
UsesCoordinator == RC!Spec

\* A run gets MaxRepairs repair turns in all: neither a takeover nor a holder
\* that lost its lease in the middle of one adds to them (harness.go:156).
RepairBudget == \A r \in RunIds : repaired[r] <= MaxRepairs

\* A parked run has its question in the log, and it is the one the run asked
\* under the lease it parked with (coordinator.go:264): nobody waits for an
\* answer that no device was asked for.
ParkedHasQuestion ==
    \A r \in RunIds : status[r] = "waiting_for_input" => asked[r] = gen[r]

\* A run is completed only when the log tells the user so.
CompletedIsTold == \A r \in RunIds : status[r] = "completed" => closed[r] > 0

\* Once stopped by the user, a run's work is over: nothing of what its worker
\* still does or learns is logged, no start, message, tool result, repair,
\* version, question, failure or completion (coordinator.go:328).  What may still
\* come in its name is what is appended without a lease: the stop itself, the
\* state events around the worker's transitions, also refused ones, and an
\* answer whose sender found the run parked before the stop.
CancelledStaysQuiet == \A r \in RunIds : late[r] \subseteq {"notice"}

\* "nothing this invocation did after losing the lease is visible in the log or
\* the version history" (harness.go:106): a version is made by the run's holder.
VersionsFenced == stray = {}
=============================================================================
