------------------------------ MODULE EventLog ------------------------------
(***************************************************************************)
(* The event log of one session, internal/eventlog/eventlog.go, with the   *)
(* goroutines that append to it and the clients that follow it: Subscribe, *)
(* streamEvents in internal/api/api.go and the web client's cursor.        *)
(*                                                                         *)
(* Append is two steps, as in the code: the write transaction commits, then *)
(* Publish hands the events to the live channels under the log's mutex.    *)
(* Two appenders may commit in one order and publish in the other.         *)
(***************************************************************************)
EXTENDS Integers, Sequences

CONSTANTS
    Writers,      \* goroutines that append: workers and API handlers
    Clients,      \* pages that follow the session
    LiveCap,      \* capacity of a subscriber's live channel (1024 in the code)
    MaxBatch,     \* bound: events in one append
    MaxLog,       \* bound: events in the log
    MaxGen        \* bound: takeovers of the run

ASSUME EventLogAssumption ==
    /\ LiveCap \in Nat \ {0}
    /\ MaxBatch \in Nat \ {0}
    /\ MaxLog \in Nat
    /\ MaxGen \in Nat

VARIABLES
    log,       \* the session's rows; log[n], the event with seq n, is the
               \* generation it was appended under, 0 for an append without lease
    gen,       \* runs.lease_gen of the run the workers append for
    lease,     \* the generation of each writer's lease, 0 for none
    toPublish, \* events each writer committed and has yet to publish, how often
    stream,    \* of each page: "closed", "off", "registered", "backfill", "live"
    after,     \* the cursor in the page's stream URL
    live,      \* the subscription's live channel: a queue of seqs
    backfill,  \* events the subscription has read and has yet to send
    last,      \* the subscription's `last`: the highest seq it sent
    lastSeq,   \* the page's state.lastSeq
    seen       \* the events the page has taken in

writerVars == <<log, gen, lease, toPublish>>
pageVars == <<stream, after, live, backfill, last, lastSeq, seen>>
vars == <<writerVars, pageVars>>

Idle == [events |-> <<>>, times |-> 0]

\* Fault: the live channel is registered after the backfill.
OpenLate(c) == stream[c] = "live"

Open(c) == stream[c] \in {"registered", "backfill", "live"}

-----------------------------------------------------------------------------
Init ==
    /\ log = <<>>
    /\ gen = 0
    /\ lease = [w \in Writers |-> 0]
    /\ toPublish = [w \in Writers |-> Idle]
    /\ stream = [c \in Clients |-> "closed"]
    /\ after = [c \in Clients |-> 0]
    /\ live = [c \in Clients |-> <<>>]
    /\ backfill = [c \in Clients |-> <<>>]
    /\ last = [c \in Clients |-> 0]
    /\ lastSeq = [c \in Clients |-> 0]
    /\ seen = [c \in Clients |-> {}]

\* A writer claims the run: the generation rises, older leases are stale.
TakeOver(w) ==
    /\ gen < MaxGen
    /\ gen' = gen + 1
    /\ lease' = [lease EXCEPT ![w] = gen + 1]
    /\ UNCHANGED <<log, toPublish, pageVars>>

\* Fault: the fence asks for a lease, not for the row's generation.
CommitUnfenced(w, n, underLease, times) ==
    /\ toPublish[w] = Idle
    /\ Len(log) + n <= MaxLog
    /\ underLease => lease[w] # 0
    /\ log' = log \o [i \in 1 .. n |-> IF underLease THEN lease[w] ELSE 0]
    /\ toPublish' = [toPublish EXCEPT ![w] =
                        [events |-> [i \in 1 .. n |-> Len(log) + i], times |-> times]]
    /\ UNCHANGED <<gen, lease, pageVars>>

\* AppendTx: with a lease, the row's generation must be the lease's.  emitState
\* and provideInput publish a second time what Append has published already.
Commit(w, n, underLease, times) ==
    /\ toPublish[w] = Idle
    /\ Len(log) + n <= MaxLog
    /\ underLease => lease[w] # 0 /\ lease[w] = gen
    /\ log' = log \o [i \in 1 .. n |-> IF underLease THEN lease[w] ELSE 0]
    /\ toPublish' = [toPublish EXCEPT ![w] =
                        [events |-> [i \in 1 .. n |-> Len(log) + i], times |-> times]]
    /\ UNCHANGED <<gen, lease, pageVars>>

\* What a channel holds after the sends: events that find it full are dropped.
Offer(queue, events) ==
    LET all == queue \o events
    IN  IF Len(all) <= LiveCap THEN all ELSE SubSeq(all, 1, LiveCap)

Publish(w) ==
    /\ toPublish[w] # Idle
    /\ live' = [c \in Clients |->
                  IF Open(c) THEN Offer(live[c], toPublish[w].events) ELSE live[c]]
    /\ toPublish' = [toPublish EXCEPT ![w] =
                        IF @.times = 1 THEN Idle
                        ELSE [events |-> @.events, times |-> @.times - 1]]
    /\ UNCHANGED <<log, gen, lease, stream, after, backfill, last, lastSeq, seen>>

\* handleEvent of the page: an event not above lastSeq is ignored.
TakeIn(c, e) ==
    IF e <= lastSeq[c] THEN UNCHANGED <<lastSeq, seen>>
    ELSE /\ lastSeq' = [lastSeq EXCEPT ![c] = e]
         /\ seen' = [seen EXCEPT ![c] = @ \cup {e}]

\* openProject: the page replays the log (nothing, if the request fails) and
\* opens its stream at the lastSeq the replay left.
LoadPage(c, ok) ==
    /\ stream[c] = "closed"
    /\ LET top == IF ok THEN Len(log) ELSE 0
       IN  /\ after' = [after EXCEPT ![c] = top]
           /\ lastSeq' = [lastSeq EXCEPT ![c] = top]
           /\ seen' = [seen EXCEPT ![c] = 1 .. top]
    /\ stream' = [stream EXCEPT ![c] = "off"]
    /\ UNCHANGED <<writerVars, live, backfill, last>>

\* Subscribe registers the live channel before it reads the backfill.  A
\* reconnecting EventSource repeats its URL, with the cursor it was opened at.
Subscribe(c) ==
    /\ stream[c] = "off"
    /\ stream' = [stream EXCEPT ![c] = "registered"]
    /\ last' = [last EXCEPT ![c] = after[c]]
    /\ UNCHANGED <<writerVars, after, live, backfill, lastSeq, seen>>

\* Fault: the cursor's own event is read again.
ReadFromCursor(c) ==
    /\ stream[c] = "registered"
    /\ stream' = [stream EXCEPT ![c] = "backfill"]
    /\ backfill' = [backfill EXCEPT ![c] =
                       [i \in 1 .. Len(log) - after[c] + 1 |-> after[c] + i - 1]]
    /\ UNCHANGED <<writerVars, after, live, last, lastSeq, seen>>

\* Fault: the newest event is not read.
ReadBeforeNewest(c) ==
    /\ stream[c] = "registered"
    /\ stream' = [stream EXCEPT ![c] = "backfill"]
    /\ backfill' = [backfill EXCEPT ![c] =
                       [i \in 1 .. Len(log) - after[c] - 1 |-> after[c] + i]]
    /\ UNCHANGED <<writerVars, after, live, last, lastSeq, seen>>

\* Read: the events with seq > after.
ReadBackfill(c) ==
    /\ stream[c] = "registered"
    /\ stream' = [stream EXCEPT ![c] = "backfill"]
    /\ backfill' = [backfill EXCEPT ![c] =
                       [i \in 1 .. Len(log) - after[c] |-> after[c] + i]]
    /\ UNCHANGED <<writerVars, after, live, last, lastSeq, seen>>

SendBackfill(c) ==
    /\ stream[c] = "backfill" /\ backfill[c] # <<>>
    /\ backfill' = [backfill EXCEPT ![c] = Tail(@)]
    /\ last' = [last EXCEPT ![c] = Head(backfill[c])]
    /\ TakeIn(c, Head(backfill[c]))
    /\ UNCHANGED <<writerVars, stream, after, live>>

EndBackfill(c) ==
    /\ stream[c] = "backfill" /\ backfill[c] = <<>>
    /\ stream' = [stream EXCEPT ![c] = "live"]
    /\ UNCHANGED <<writerVars, after, live, backfill, last, lastSeq, seen>>

\* The live loop skips an event that is not above last.
SendLive(c) ==
    /\ stream[c] = "live" /\ live[c] # <<>>
    /\ live' = [live EXCEPT ![c] = Tail(@)]
    /\ LET e == Head(live[c])
       IN  IF e <= last[c] THEN UNCHANGED <<last, lastSeq, seen>>
           ELSE last' = [last EXCEPT ![c] = e] /\ TakeIn(c, e)
    /\ UNCHANGED <<writerVars, stream, after, backfill>>

\* The subscription ends: the connection drops, the backfill read fails
\* ("off", the page reconnects) or the page is closed.
Unsubscribe(c, to) ==
    /\ stream[c] # "closed" /\ stream[c] # to
    /\ stream' = [stream EXCEPT ![c] = to]
    /\ live' = [live EXCEPT ![c] = <<>>]
    /\ backfill' = [backfill EXCEPT ![c] = <<>>]
    /\ UNCHANGED <<writerVars, after, last, lastSeq, seen>>

\* The process dies: rows survive, channels and pending publications do not.
Crash ==
    /\ toPublish' = [w \in Writers |-> Idle]
    /\ lease' = [w \in Writers |-> 0]
    /\ stream' = [c \in Clients |-> IF Open(c) THEN "off" ELSE stream[c]]
    /\ live' = [c \in Clients |-> <<>>]
    /\ backfill' = [c \in Clients |-> <<>>]
    /\ UNCHANGED <<log, gen, after, last, lastSeq, seen>>

-----------------------------------------------------------------------------
CommitAny(w) ==
    \E n \in 1 .. MaxBatch, underLease \in BOOLEAN, times \in 1 .. 2 :
        Commit(w, n, underLease, times)

Deliver(c) == ReadBackfill(c) \/ SendBackfill(c) \/ EndBackfill(c) \/ SendLive(c)

PageStep(c) ==
    \/ \E ok \in BOOLEAN : LoadPage(c, ok)
    \/ Subscribe(c)
    \/ Deliver(c)
    \/ \E to \in {"off", "closed"} : Unsubscribe(c, to)

OtherStep ==
    \/ \E w \in Writers : TakeOver(w)
    \/ \E c \in Clients : PageStep(c)
    \/ Crash

Next == OtherStep \/ \E w \in Writers : CommitAny(w) \/ Publish(w)

Spec == Init /\ [][Next]_vars

\* Environment assumptions, not enforced by the code: an append is published
\* before the next one commits, and no channel is ever full.
InOrder == \A w \in Writers : toPublish[w] = Idle

Room(w) ==
    \A c \in Clients : Open(c) => Len(live[c]) + Len(toPublish[w].events) <= LiveCap

OrderedNext ==
    OtherStep \/ \E w \in Writers : (InOrder /\ CommitAny(w)) \/ (Room(w) /\ Publish(w))

\* A committing writer publishes, an open stream's goroutine runs.
OrderedSpec ==
    /\ Init /\ [][OrderedNext]_vars
    /\ \A w \in Writers : WF_vars(Room(w) /\ Publish(w))
    /\ \A c \in Clients : WF_vars(Deliver(c))

-----------------------------------------------------------------------------
TypeOK ==
    /\ log \in Seq(0 .. MaxGen)
    /\ gen \in 0 .. MaxGen
    /\ lease \in [Writers -> 0 .. MaxGen]
    /\ toPublish \in [Writers -> [events : Seq(1 .. MaxLog), times : 0 .. 2]]
    /\ stream \in [Clients -> {"closed", "off", "registered", "backfill", "live"}]
    /\ after \in [Clients -> 0 .. MaxLog]
    /\ live \in [Clients -> Seq(1 .. MaxLog)]
    /\ backfill \in [Clients -> Seq(1 .. MaxLog)]
    /\ last \in [Clients -> 0 .. MaxLog]
    /\ lastSeq \in [Clients -> 0 .. MaxLog]
    /\ seen \in [Clients -> SUBSET (1 .. MaxLog)]

\* SL-3: once an event of a newer lease is in the log, no event of an older
\* lease follows it, however the takeover and the old holder's appends fall.
NoStaleAppend ==
    \A i, j \in 1 .. Len(log) : i < j /\ log[j] # 0 => log[i] <= log[j]

\* SL-4: at-least-once.  The page's cursor has passed no event the page lacks.
\* (An event below the cursor is lost: the subscription and the page skip it.)
NoGap == \A c \in Clients : 1 .. lastSeq[c] \subseteq seen[c]

\* SL-3, SL-4: what pages see of the log is a feed that no superseded holder
\* adds to, shown event by event, through takeovers, reconnects and crashes.
Feed == INSTANCE SessionFeed WITH
    Pages <- Clients, Generations <- 0 .. MaxGen, Batches <- 1 .. MaxBatch, shown <- lastSeq
FeedKept == Feed!Spec

\* SL-4: every committed event reaches every stream that stays open, also one
\* committed while the backfill is read, published twice, or lost with a crash.
EventuallyDelivered ==
    \A c \in Clients, n \in 1 .. MaxLog :
        n <= Len(log) /\ Open(c) ~> n \in seen[c] \/ ~Open(c)
=============================================================================
