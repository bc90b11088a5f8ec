------------------------------ MODULE WebClient ------------------------------
(***************************************************************************)
(* The page, src/web/src/app.ts: one `state`, one transcript, one stream,   *)
(* and the functions that go on after an await while the user may have gone *)
(* to another site.  Each site is a project with its one session, whose     *)
(* events have the numbers 1, 2, ...                                        *)
(*                                                                         *)
(* What events look like, the preview frame and the composer's lock are     *)
(* left out: a message may be sent at any time.                             *)
(***************************************************************************)
EXTENDS Integers, Sequences

CONSTANTS
    Sites, NoSite,
    Tasks,        \* bound: how many calls may be in flight at a time
    MaxEvents,    \* bound: events per session
    MaxSends      \* bound: messages of this page

VARIABLES
    written,   \* the server: number of events of each session
    screen,    \* state.screen
    shown,     \* state.projectId and state.sessionId, set together
    lastSeq,   \* state.lastSeq
    runId,     \* the site whose run state.runId is
    log,       \* the transcript since resetWorkspace: <<site, event>>
    streams,   \* open EventSources: session, URL's cursor, events delivered
    task,      \* the functions that wait for an answer
    sends,     \* messages sent so far
    hurried    \* history: the user went on before the page was done

vars == <<written, screen, shown, lastSeq, runId, log, streams, task, sends, hurried>>

Done == [at |-> "done", site |-> NoSite, seen |-> 0]
Pending == {t \in Tasks : task[t] # Done}

Init ==
    /\ written = [p \in Sites |-> 0]
    /\ screen = "home"
    /\ shown = NoSite
    /\ lastSeq = 0
    /\ runId = NoSite
    /\ log = <<>>
    /\ streams = {}
    /\ task = [t \in Tasks |-> Done]
    /\ sends = 0
    /\ hurried = FALSE

-----------------------------------------------------------------------------
\* What several handlers do.

\* Fault: an event that was handled before is handled again.
HandleEventsAgain(p, from, n) ==
    IF from + 1 > n THEN UNCHANGED <<log, lastSeq, runId>>
    ELSE /\ log' = log \o [i \in 1 .. n - from |-> <<p, from + i>>]
         /\ lastSeq' = n
         /\ runId' = p

\* handleEvent for events from + 1 to n of a site, in this order: those that
\* are not above lastSeq are dropped.
HandleEvents(p, from, n) ==
    LET first == IF lastSeq > from THEN lastSeq + 1 ELSE from + 1
    IN  IF first > n THEN UNCHANGED <<log, lastSeq, runId>>
        ELSE /\ log' = log \o [i \in 1 .. n - first + 1 |-> <<p, first + i - 1>>]
             /\ lastSeq' = n
             /\ runId' = p

\* subscribe: the old stream is closed, the new one is of the site that is
\* shown now and starts behind lastSeq.
Subscribe(p) == streams' = {[site |-> p, after |-> lastSeq, at |-> lastSeq]}

\* The beginning of openProject, with resetWorkspace, up to its first await.
BeginOpen(t, p) ==
    /\ shown' = p
    /\ lastSeq' = 0 /\ runId' = NoSite /\ log' = <<>>
    /\ screen' = "workspace"
    /\ task' = [task EXCEPT ![t] = [at |-> "events", site |-> p, seen |-> written[p]]]

-----------------------------------------------------------------------------
\* The user.

\* A click on a site's card; also bootstrap, with the site of the last visit.
OpenProject(t, p) ==
    /\ screen = "home" /\ task[t] = Done
    /\ hurried' = (hurried \/ Pending # {})
    /\ BeginOpen(t, p)
    /\ UNCHANGED <<written, streams, sends>>

\* newProject: createProject, then openProject.
NewProject(t) ==
    /\ screen = "home" /\ task[t] = Done
    /\ hurried' = (hurried \/ Pending # {})
    /\ task' = [task EXCEPT ![t] = [at |-> "create", site |-> NoSite, seen |-> 0]]
    /\ UNCHANGED <<written, screen, shown, lastSeq, runId, log, streams, sends>>

\* The click on ws-back, up to the await in loadHome.
Back(t) ==
    /\ screen = "workspace" /\ task[t] = Done
    /\ hurried' = (hurried \/ Pending # {})
    /\ streams' = {}
    /\ shown' = NoSite
    /\ task' = [task EXCEPT ![t] = [at |-> "home", site |-> NoSite, seen |-> 0]]
    /\ UNCHANGED <<written, screen, lastSeq, runId, log, sends>>

\* send or answer, up to the await.  Without a site one is created first.
Send(t) ==
    /\ screen = "workspace" /\ task[t] = Done /\ sends < MaxSends
    /\ sends' = sends + 1
    /\ hurried' = (hurried \/ shown = NoSite)
    /\ task' = [task EXCEPT ![t] =
         [at |-> IF shown = NoSite THEN "createAndSend" ELSE "send", site |-> shown, seen |-> 0]]
    /\ UNCHANGED <<written, screen, shown, lastSeq, runId, log, streams>>

-----------------------------------------------------------------------------
\* The functions go on.

\* openProject: fetchEvents answers with what it found when the server read
\* them, or fails; then every event is handled and the session is asked for.
ReplayEvents(t) ==
    LET p == task[t].site IN
    /\ task[t].at = "events"
    /\ \/ \E n \in task[t].seen .. written[p] : HandleEvents(p, 0, n)
       \/ UNCHANGED <<log, lastSeq, runId>>
    /\ task' = [task EXCEPT ![t].at = "session"]
    /\ UNCHANGED <<written, screen, shown, streams, sends, hurried>>

\* openProject: the session's state arrives, with its run if it has one, or the
\* call fails; then subscribe.
ShowSession(t) ==
    /\ task[t].at = "session"
    /\ runId' \in {runId, task[t].site}
    /\ Subscribe(shown)
    /\ task' = [task EXCEPT ![t] = Done]
    /\ UNCHANGED <<written, screen, shown, lastSeq, log, sends, hurried>>

\* newProject goes on with openProject; if createProject fails, nothing happens.
ProjectCreated(t, p) ==
    /\ task[t].at = "create" /\ written[p] = 0
    /\ \/ BeginOpen(t, p)
       \/ /\ task' = [task EXCEPT ![t] = Done]
          /\ UNCHANGED <<screen, shown, lastSeq, runId, log>>
    /\ UNCHANGED <<written, streams, sends, hurried>>

\* loadHome has its list, or an empty one after an error: showScreen("home").
\* If the session is over, the screen stays.
ShowHome(t) ==
    /\ task[t].at = "home"
    /\ screen' \in {"home", screen}
    /\ task' = [task EXCEPT ![t] = Done]
    /\ UNCHANGED <<written, shown, lastSeq, runId, log, streams, sends, hurried>>

\* send: the project is there and becomes the one that is shown, without a reset;
\* or createProject fails.
CreatedForSend(t, p) ==
    /\ task[t].at = "createAndSend" /\ written[p] = 0
    /\ \/ /\ shown' = p
          /\ Subscribe(p)
          /\ task' = [task EXCEPT ![t] = [at |-> "send", site |-> p, seen |-> 0]]
       \/ task' = [task EXCEPT ![t] = Done] /\ UNCHANGED <<shown, streams>>
    /\ UNCHANGED <<written, screen, lastSeq, runId, log, sends, hurried>>

\* send: the message is accepted, which logs it, and its run is remembered; or
\* the call fails.
Sent(t) ==
    LET p == task[t].site IN
    /\ task[t].at = "send"
    /\ \/ /\ written[p] < MaxEvents
          /\ written' = [written EXCEPT ![p] = @ + 1]
          /\ runId' = p
       \/ UNCHANGED <<written, runId>>
    /\ task' = [task EXCEPT ![t] = Done]
    /\ UNCHANGED <<screen, shown, lastSeq, log, streams, sends, hurried>>

-----------------------------------------------------------------------------
\* The server and the network.

\* A worker, or another device of the session.
AppendEvent(p) ==
    /\ written[p] < MaxEvents
    /\ written' = [written EXCEPT ![p] = @ + 1]
    /\ UNCHANGED <<screen, shown, lastSeq, runId, log, streams, task, sends, hurried>>

\* The next event of a stream.  A stream of no session was refused.
Deliver(s) ==
    /\ s \in streams /\ s.site # NoSite
    /\ s.at < written[s.site]
    /\ HandleEvents(s.site, s.at, s.at + 1)
    /\ streams' = (streams \ {s}) \cup {[s EXCEPT !.at = @ + 1]}
    /\ UNCHANGED <<written, screen, shown, task, sends, hurried>>

\* The connection is lost; the EventSource asks the same URL again.
Reconnect(s) ==
    /\ s \in streams /\ s.site # NoSite
    /\ streams' = (streams \ {s}) \cup {[s EXCEPT !.at = s.after]}
    /\ UNCHANGED <<written, screen, shown, lastSeq, runId, log, task, sends, hurried>>

Next ==
    \/ \E t \in Tasks :
        \/ \E p \in Sites : OpenProject(t, p) \/ ProjectCreated(t, p) \/ CreatedForSend(t, p)
        \/ NewProject(t) \/ Back(t) \/ Send(t)
        \/ ReplayEvents(t) \/ ShowSession(t) \/ ShowHome(t) \/ Sent(t)
    \/ \E p \in Sites : AppendEvent(p)
    \/ \E s \in streams : Deliver(s) \/ Reconnect(s)

Spec == Init /\ [][Next]_vars

\* The page's state.
TypeOK ==
    /\ written \in [Sites -> 0 .. MaxEvents]
    /\ screen \in {"home", "workspace"}
    /\ shown \in Sites \cup {NoSite} /\ runId \in Sites \cup {NoSite}
    /\ lastSeq \in 0 .. MaxEvents
    /\ \A i \in DOMAIN log : log[i] \in Sites \X (1 .. MaxEvents)
    /\ streams \subseteq [site : Sites \cup {NoSite}, after : 0 .. MaxEvents, at : 0 .. MaxEvents]
    /\ task \in [Tasks -> [at : {"done", "events", "session", "create", "home", "createAndSend", "send"},
                           site : Sites \cup {NoSite}, seen : 0 .. MaxEvents]]
    /\ sends \in 0 .. MaxSends /\ hurried \in BOOLEAN

\* When the page is done it has no stream but one of the site that is shown,
\* whatever the user did meanwhile (app.ts:409).
StreamIsCurrent == Pending = {} => \A s, r \in streams : s = r /\ s.site = shown

\* "the stream is the single source of truth for the transcript, so messages
\* survive reload and second-device resume" (app.ts:3): for a user who lets a
\* site open before going on, the transcript has the events of the site that is
\* shown, each once and in order, and the stop button stops a run of that site.
\* A hurried user gets the right stream, but may see another site's events.
PageShowsItsSession ==
    /\ StreamIsCurrent
    /\ ~hurried /\ shown # NoSite =>
        /\ log = [i \in 1 .. lastSeq |-> <<shown, i>>]
        /\ runId \in {NoSite, shown}
=============================================================================
