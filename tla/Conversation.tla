---------------------------- MODULE Conversation ----------------------------
(***************************************************************************)
(* The conversation one session's runs have with the model: what a worker   *)
(* keeps in memory (internal/harness/harness.go, Execute), what the next    *)
(* one rebuilds from the log (reconstruct), and the messages, answers and   *)
(* stops that the handlers of internal/api/api.go mix in.                   *)
(*                                                                         *)
(* reconstruct is a left fold over the events, so the log is kept as what   *)
(* the fold has made of it: messages, and results not yet grouped into one. *)
(* One worker at a time: a superseded one appends nothing (RunExecution),   *)
(* so it leaves the model when it is superseded.                            *)
(***************************************************************************)
EXTENDS Integers, Sequences

CONSTANTS
    Devices,      \* browsers, each with at most one request in flight
    Shapes,       \* the sets of tool calls a model turn may make
    FinalShapes,  \* those a turn may make whose StopReason is not tool_use
    MaxCalls,     \* bound: calls in one turn
    MaxTurns,     \* bound: model turns
    MaxRuns,      \* bound: runs
    MaxPosts,     \* bound: requests that carry a text
    MaxRepairs    \* maxRepairs, 2 in the code

\* Calls of one turn are told apart by their place in it; ToolName = ask_user
\* is a question, any other name a tool.
ASSUME BoundsAssumption ==
    /\ {MaxCalls, MaxTurns, MaxRuns, MaxPosts, MaxRepairs} \subseteq Nat
    /\ FinalShapes \subseteq Shapes
    /\ Shapes \subseteq SUBSET [n : 1 .. MaxCalls, ask : BOOLEAN]
    /\ \A shape \in Shapes : \A a, b \in shape : a.n = b.n => a = b

VARIABLES
    log,       \* the session's events, as reconstruct has folded them
    given,     \* log: number of results per call, tool.result or input.provided
    question,  \* log: the call of the newest input.requested
    repaired,  \* log: number of repair.started, per run
    turns,     \* model turns so far, whose calls have ids of their own
    status,    \* the run rows, all terminal states as one
    mem,       \* the worker's goroutine
    request,   \* each device's request in flight
    posts,     \* requests so far
    orderly    \* history: users and model did one thing at a time

vars == <<log, given, question, repaired, turns, status, mem, request, posts, orderly>>

RunIds == 1 .. MaxRuns
Calls == [turn : 1 .. MaxTurns, n : 1 .. MaxCalls, ask : BOOLEAN]
NoCall == [turn |-> 0, n |-> 0, ask |-> FALSE]

\* A message: a user's or a repair's text, an assistant's turn with its calls,
\* or a user message of results, of which the calls they answer are kept.
Messages == {m \in [kind : {"text", "turn", "results"}, calls : SUBSET Calls] :
                m.kind = "text" => m.calls = {}}
Text == [kind |-> "text", calls |-> {}]
Turn(calls) == [kind |-> "turn", calls |-> calls]
Results(calls) == [kind |-> "results", calls |-> calls]

Idle == [stage |-> "idle", run |-> 0, repairs |-> 0, msgs |-> <<>>, alone |-> TRUE]
NoRequest == [step |-> "none", run |-> 0, question |-> NoCall]

-----------------------------------------------------------------------------
\* reconstruct, one event at a time.

\* flush, at the end of the log: what reconstruct returns.
Rebuilt(l) ==
    IF l.results = {} THEN l.msgs ELSE Append(l.msgs, Results(l.results))

\* user.message, assistant.message, repair.started: flush, then the message.
AddMessage(l, m) == [msgs |-> Append(Rebuilt(l), m), results |-> {}]

\* Fault: every result becomes a message of its own.
AddResultsApart(l, calls) == [msgs |-> Append(Rebuilt(l), Results(calls)), results |-> {}]

\* tool.result, input.provided: they wait for the next message.
AddResults(l, calls) == [l EXCEPT !.results = @ \cup calls]

\* Fault: a text after the calls ends the wait for their results.
PendingUntilText(msgs) ==
    {c \in Calls : \E i \in DOMAIN msgs :
        /\ msgs[i].kind = "turn" /\ c \in msgs[i].calls
        /\ \A j \in DOMAIN msgs : j > i => msgs[j].kind = "results" /\ c \notin msgs[j].calls}

\* Fault: results are not looked for.
PendingForever(msgs) ==
    {c \in Calls : \E i \in DOMAIN msgs :
        /\ msgs[i].kind = "turn" /\ c \in msgs[i].calls
        /\ \A j \in DOMAIN msgs : j > i => msgs[j].kind # "turn"}

\* pendingTools: calls of the last assistant message without a result after it.
PendingTools(msgs) ==
    {c \in Calls : \E i \in DOMAIN msgs :
        /\ msgs[i].kind = "turn" /\ c \in msgs[i].calls
        /\ \A j \in DOMAIN msgs : j > i => msgs[j].kind # "turn" /\ c \notin msgs[j].calls}

\* appendToolResults: into a trailing message of results, or a new one.
AppendToolResults(msgs, calls) ==
    IF msgs # <<>> /\ msgs[Len(msgs)].kind = "results"
    THEN [msgs EXCEPT ![Len(msgs)] = Results(@.calls \cup calls)]
    ELSE Append(msgs, Results(calls))

\* The first ask_user among them, if any: it parks the run, extras get a note.
FirstAsk(calls) == {c \in calls : c.ask /\ \A b \in calls : b.ask => c.n <= b.n}

-----------------------------------------------------------------------------
Init ==
    /\ log = [msgs |-> <<>>, results |-> {}]
    /\ given = [c \in Calls |-> 0]
    /\ question = NoCall
    /\ repaired = [r \in RunIds |-> 0]
    /\ turns = 0
    /\ status = [r \in RunIds |-> "none"]
    /\ mem = Idle
    /\ request = [d \in Devices |-> NoRequest]
    /\ posts = 0
    /\ orderly = TRUE

Open == {r \in RunIds : status[r] \in {"queued", "running", "waiting"}}

-----------------------------------------------------------------------------
\* The worker.

\* Fault: a parked run does not reserve its project.
StartBesideParked(r) ==
    /\ mem = Idle /\ status[r] = "queued"
    /\ \A s \in RunIds : status[s] # "running"
    /\ status' = [status EXCEPT ![r] = "running"]
    /\ mem' = [stage |-> "loop", run |-> r, repairs |-> repaired[r], msgs |-> Rebuilt(log), alone |-> TRUE]
    /\ UNCHANGED <<log, given, question, repaired, turns, request, posts, orderly>>

\* Claim, the oldest queued run of a project without an active one, and the
\* log read with which Execute begins.
Start(r) ==
    /\ mem = Idle /\ status[r] = "queued"
    /\ \A s \in RunIds : status[s] \notin {"running", "waiting"} /\ (status[s] = "queued" => r <= s)
    /\ status' = [status EXCEPT ![r] = "running"]
    /\ mem' = [stage |-> "loop", run |-> r, repairs |-> repaired[r], msgs |-> Rebuilt(log), alone |-> TRUE]
    /\ UNCHANGED <<log, given, question, repaired, turns, request, posts, orderly>>

\* Pending calls but the first question: their results, in one append.
RunTools ==
    LET pending == PendingTools(mem.msgs)
        others == pending \ FirstAsk(pending)
    IN  /\ mem.stage = "loop" /\ others # {}
        /\ log' = AddResults(log, others)
        /\ given' = [c \in Calls |-> IF c \in others THEN given[c] + 1 ELSE given[c]]
        /\ mem' = [mem EXCEPT !.msgs = AppendToolResults(@, others)]
        /\ UNCHANGED <<question, repaired, turns, status, request, posts, orderly>>

\* Only a question is left: emitQuestion.
AskUser ==
    /\ mem.stage = "loop"
    /\ PendingTools(mem.msgs) # {} /\ PendingTools(mem.msgs) \subseteq FirstAsk(PendingTools(mem.msgs))
    /\ question' \in PendingTools(mem.msgs)
    /\ mem' = [mem EXCEPT !.stage = "parking"]
    /\ UNCHANGED <<log, given, repaired, turns, status, request, posts, orderly>>

Park ==
    /\ mem.stage = "parking"
    /\ status' = [status EXCEPT ![mem.run] = "waiting"]
    /\ mem' = Idle
    /\ UNCHANGED <<log, given, question, repaired, turns, request, posts, orderly>>

\* The completion is logged.  It is final unless StopReason is tool_use.  The
\* Anthropic adapter passes the provider's reason on, so a turn cut off by
\* max_tokens is final with calls in it; stopReasonFor lets the calls decide, but
\* a finish_reason can announce calls that are not there.
ModelTurn(shape, final) ==
    /\ mem.stage = "loop" /\ PendingTools(mem.msgs) = {} /\ turns < MaxTurns
    /\ shape \in IF final THEN FinalShapes ELSE Shapes
    /\ turns' = turns + 1
    /\ LET turn == Turn({[turn |-> turns + 1, n |-> s.n, ask |-> s.ask] : s \in shape})
       IN  /\ log' = AddMessage(log, turn)
           /\ mem' = [mem EXCEPT !.msgs = Append(@, turn),
                                 !.stage = IF final THEN "committing" ELSE "loop"]
    /\ orderly' = (orderly /\ (final => shape = {}))
    /\ UNCHANGED <<given, question, repaired, status, request, posts>>

\* Fault: the instruction is kept in memory only.
RepairInMemory ==
    /\ mem.stage = "committing" /\ mem.repairs < MaxRepairs
    /\ repaired' = [repaired EXCEPT ![mem.run] = @ + 1]
    /\ mem' = [mem EXCEPT !.stage = "loop", !.repairs = @ + 1, !.msgs = Append(@, Text)]
    /\ UNCHANGED <<log, given, question, turns, status, request, posts, orderly>>

\* The commit refuses the site: emitRepair, and the same instruction in memory.
Repair ==
    /\ mem.stage = "committing" /\ mem.repairs < MaxRepairs
    /\ log' = AddMessage(log, Text)
    /\ repaired' = [repaired EXCEPT ![mem.run] = @ + 1]
    /\ mem' = [mem EXCEPT !.stage = "loop", !.repairs = @ + 1, !.msgs = Append(@, Text)]
    /\ UNCHANGED <<given, question, turns, status, request, posts, orderly>>

\* The run is over, completed after a commit, completed at the step limit with
\* calls pending, or failed: what is logged then is not part of a conversation.
End ==
    /\ mem.stage \in {"loop", "committing"}
    /\ status' = [status EXCEPT ![mem.run] = "over"]
    /\ mem' = Idle
    /\ orderly' = (orderly /\ PendingTools(Rebuilt(log)) = {})
    /\ UNCHANGED <<log, given, question, repaired, turns, request, posts>>

\* Crash, shutdown, lost lease: the run can be claimed again, with a new read.
LoseRun ==
    /\ mem # Idle
    /\ status' = [status EXCEPT ![mem.run] = "queued"]
    /\ mem' = Idle
    /\ UNCHANGED <<log, given, question, repaired, turns, request, posts, orderly>>

-----------------------------------------------------------------------------
\* The handlers.

\* postMessage and answerRun: a text while a run is parked is the answer to
\* the newest question, otherwise it is submitted.
Post(d) ==
    /\ request[d] = NoRequest /\ posts < MaxPosts
    /\ posts' = posts + 1
    /\ \/ /\ \A r \in RunIds : status[r] # "waiting"
          /\ request' = [request EXCEPT ![d].step = "submit"]
       \/ \E r \in RunIds :
            /\ status[r] = "waiting"
            /\ request' = [request EXCEPT ![d] = [step |-> "answer", run |-> r, question |-> question]]
    /\ orderly' = (orderly /\ \A e \in Devices : request[e] = NoRequest)
    /\ UNCHANGED <<log, given, question, repaired, turns, status, mem>>

\* submit: user.message and the run, in one transaction.
Submit(d) ==
    /\ request[d].step = "submit"
    /\ \E r \in RunIds :
         /\ status[r] = "none" /\ \A s \in RunIds : s < r => status[s] # "none"
         /\ status' = [status EXCEPT ![r] = "queued"]
    /\ log' = AddMessage(log, Text)
    /\ mem' = IF mem = Idle THEN Idle ELSE [mem EXCEPT !.alone = FALSE]
    /\ request' = [request EXCEPT ![d] = NoRequest]
    /\ orderly' = (orderly /\ Open = {})
    /\ UNCHANGED <<given, question, repaired, turns, posts>>

\* provideInput, first transaction: input.provided.
ProvideInput(d) ==
    /\ request[d].step = "answer"
    /\ log' = AddResults(log, {request[d].question})
    /\ given' = [given EXCEPT ![request[d].question] = @ + 1]
    /\ mem' = IF mem = Idle THEN Idle ELSE [mem EXCEPT !.alone = FALSE]
    /\ request' = [request EXCEPT ![d].step = "resume"]
    /\ UNCHANGED <<question, repaired, turns, status, posts, orderly>>

\* provideInput, second transaction; a run that is not parked is an error.
ResumeRun(d) ==
    /\ request[d].step = "resume"
    /\ LET r == request[d].run
       IN  status' = IF status[r] = "waiting" THEN [status EXCEPT ![r] = "queued"] ELSE status
    /\ request' = [request EXCEPT ![d] = NoRequest]
    /\ UNCHANGED <<log, given, question, repaired, turns, mem, posts, orderly>>

\* The request's context is cancelled between two steps, or a write fails.
Abort(d) ==
    /\ request[d] # NoRequest
    /\ request' = [request EXCEPT ![d] = NoRequest]
    /\ orderly' = (orderly /\ request[d].step # "resume")
    /\ UNCHANGED <<log, given, question, repaired, turns, status, mem, posts>>

\* Fault: the worker of a stopped run goes on.
CancelOnly(r) ==
    /\ r \in Open
    /\ status' = [status EXCEPT ![r] = "over"]
    /\ orderly' = FALSE
    /\ UNCHANGED <<log, given, question, repaired, turns, mem, request, posts>>

\* Cancel: whatever the run's worker does next is refused.
Cancel(r) ==
    /\ r \in Open
    /\ status' = [status EXCEPT ![r] = "over"]
    /\ mem' = IF mem.run = r THEN Idle ELSE mem
    /\ orderly' = FALSE
    /\ UNCHANGED <<log, given, question, repaired, turns, request, posts>>

-----------------------------------------------------------------------------
Work ==
    \/ \E r \in RunIds : Start(r)
    \/ RunTools \/ AskUser \/ Park \/ Repair \/ End \/ LoseRun
    \/ \E shape \in Shapes, final \in BOOLEAN : ModelTurn(shape, final)

Handle(d) == Post(d) \/ Submit(d) \/ ProvideInput(d) \/ ResumeRun(d) \/ Abort(d)

Next ==
    \/ Work
    \/ \E d \in Devices : Handle(d)
    \/ \E r \in RunIds : Cancel(r)

Spec == Init /\ [][Next]_vars

-----------------------------------------------------------------------------
Logs == [msgs : Seq(Messages), results : SUBSET Calls]
Statuses == {"none", "queued", "running", "waiting", "over"}
Memories == [stage : {"idle", "loop", "parking", "committing"}, run : 0 .. MaxRuns,
             repairs : Nat, msgs : Seq(Messages), alone : BOOLEAN]
Requests == [step : {"none", "submit", "answer", "resume"},
             run : 0 .. MaxRuns, question : Calls \cup {NoCall}]

\* The worker is at work on the one run that is running.
AtWork == \A r \in RunIds : status[r] = "running" <=> mem # Idle /\ mem.run = r

Carried ==
    \A d \in Devices : request[d].step \in {"answer", "resume"} =>
        request[d].run \in RunIds /\ request[d].question.ask

TypeOK ==
    /\ log \in Logs
    /\ given \in [Calls -> Nat]
    /\ question \in {c \in Calls : c.ask} \cup {NoCall}
    /\ repaired \in [RunIds -> Nat]
    /\ turns \in 0 .. MaxTurns
    /\ status \in [RunIds -> Statuses]
    /\ mem \in Memories
    /\ request \in [Devices -> Requests]
    /\ posts \in 0 .. MaxPosts
    /\ orderly \in BOOLEAN
    /\ AtWork /\ Carried

\* "reconstruct() rebuilds the conversation from the log alone" (harness.go:71):
\* as long as no user has written since its worker read the log, a takeover
\* would see exactly the messages the worker sees.
MemoryIsLog == mem # Idle /\ mem.alone => mem.msgs = Rebuilt(log)

\* "so no call dangles unanswered" (harness.go:175): when the model has taken
\* another turn, every call of the earlier ones has a result behind it,
\* whichever runs were stopped, lost or ended with calls pending.
AllAnswered(msgs) ==
    \A i, k \in DOMAIN msgs : i < k /\ msgs[i].kind = "turn" /\ msgs[k].kind = "turn" =>
        \A c \in msgs[i].calls : \E j \in DOMAIN msgs :
            i < j /\ j < k /\ msgs[j].kind = "results" /\ c \in msgs[j].calls

NothingDangles == AllAnswered(Rebuilt(log))

\* pendingTools is "the exact set a resumed run must re-execute" (harness.go:518):
\* no takeover, and no message in between, gives a tool call a second result.
ToolsAnsweredOnce == \A c \in Calls : ~c.ask => given[c] <= 1

\* The answer of a parked run goes to the newest question of the log, whoever
\* asked it (api.go:622): it is always one the model asked in its last turn.
QuestionIsCurrent ==
    (\E r \in RunIds : status[r] = "waiting") =>
        LET msgs == Rebuilt(log)
        IN  \E i \in DOMAIN msgs :
                /\ question \in msgs[i].calls /\ msgs[i].kind = "turn"
                /\ \A j \in DOMAIN msgs : j > i => msgs[j].kind # "turn"

\* Every turn's calls have their results, all of them and nothing else, in the
\* message behind it: what a provider accepts.
WellPaired(msgs) ==
    \A i \in DOMAIN msgs :
        /\ msgs[i].kind = "turn" /\ msgs[i].calls # {} =>
                i < Len(msgs) /\ msgs[i + 1] = Results(msgs[i].calls)
        /\ msgs[i].kind = "results" => i > 1 /\ msgs[i - 1].kind = "turn"

\* What the worker is about to send to the model.
Asks == mem.stage = "loop" /\ PendingTools(mem.msgs) = {}

\* A worker can be lost and replaced at any step, runs park and are repaired:
\* none of that shows.  While users wait for an answer before they write, stop
\* nothing, and turns end without calls, the model is sent a normal conversation
\* and every call has one result.
TakeoverIsInvisible ==
    orderly => (Asks => WellPaired(mem.msgs)) /\ \A c \in Calls : given[c] <= 1

\* "the pause is invisible to the model, however long it lasted" (harness.go:504),
\* "so the resumed model sees a normal conversation" (m4-blueprint.md:44): the
\* results of a turn with a question are in the message behind it.
PauseIsInvisible ==
    Asks => \A i \in DOMAIN mem.msgs :
        (\E c \in mem.msgs[i].calls : c.ask) /\ mem.msgs[i].kind = "turn" =>
            i < Len(mem.msgs) /\ mem.msgs[i + 1] = Results(mem.msgs[i].calls)
=============================================================================
