---------------------------- MODULE EventLogProofs ----------------------------
(***************************************************************************)
(* Theorems about EventLog, for every number of writers, pages, events,    *)
(* takeovers and every size of a live channel.                             *)
(***************************************************************************)
EXTENDS EventLog, SequenceTheorems, TLAPS

\* What bounds what: events are of generations handed out, leases and cursors
\* are not ahead, and a committed append has events to publish.
Within ==
    /\ Len(log) <= MaxLog
    /\ \A i \in 1 .. Len(log) : log[i] <= gen
    /\ \A w \in Writers : lease[w] <= gen
    /\ \A w \in Writers : toPublish[w] # Idle =>
        toPublish[w].times \in 1 .. 2 /\ toPublish[w].events # <<>>
    /\ \A c \in Clients : after[c] <= Len(log)

\* Inductive for every behaviour.
LogInv == TypeOK /\ Within /\ NoStaleAppend

-----------------------------------------------------------------------------
Lengths == 0 .. MaxLog
Seqs == Seq(1 .. MaxLog)

\* Consecutive numbers, as a committing writer and a backfill read make them.
LEMMA CountUp ==
    ASSUME NEW a \in Nat, NEW n \in Nat, a + n <= MaxLog
    PROVE  /\ [i \in 1 .. n |-> a + i] \in Seqs
           /\ Len([i \in 1 .. n |-> a + i]) = n
  BY EventLogAssumption DEF Seqs

LEMMA OfferType ==
    ASSUME NEW q \in Seqs, NEW e \in Seqs
    PROVE  Offer(q, e) \in Seqs
  <1> DEFINE all == q \o e
  <1>1. all \in Seqs /\ Len(all) \in Nat
    BY ConcatProperties DEF Seqs
  <1>2. Len(all) > LiveCap => SubSeq(all, 1, LiveCap) \in Seqs
    <2> HIDE DEF all
    <2> SUFFICES ASSUME Len(all) > LiveCap PROVE SubSeq(all, 1, LiveCap) \in Seqs
      OBVIOUS
    <2>1. \A i \in 1 .. LiveCap : all[i] \in 1 .. MaxLog
      BY <1>1, EventLogAssumption DEF Seqs
    <2>. QED BY <2>1, EventLogAssumption, SubSeqProperties DEF Seqs
  <1>3. Offer(q, e) = IF Len(all) <= LiveCap THEN all ELSE SubSeq(all, 1, LiveCap)
    BY DEF Offer
  <1> HIDE DEF all
  <1>. QED BY <1>1, <1>2, <1>3, EventLogAssumption

LEMMA InitTyped == Init => LogInv
  BY EventLogAssumption DEF Init, LogInv, TypeOK, Within, NoStaleAppend, Idle

-----------------------------------------------------------------------------
\* A commit appends events of one generation, at most the row's.
LEMMA CommitStep ==
    ASSUME LogInv, NEW w \in Writers, NEW n \in 1 .. MaxBatch,
           NEW underLease \in BOOLEAN, NEW times \in 1 .. 2,
           Commit(w, n, underLease, times)
    PROVE  LogInv'
  <1> DEFINE g == IF underLease THEN lease[w] ELSE 0
             new == [i \in 1 .. n |-> g]
             batch == [i \in 1 .. n |-> Len(log) + i]
  <1>1. g \in 0 .. MaxGen /\ g <= gen /\ (g # 0 => g = gen) /\ n \in Nat \ {0} /\ gen \in Nat
    BY EventLogAssumption DEF Commit, LogInv, TypeOK, Within
  <1>2. log \in Seq(0 .. MaxGen) /\ Len(log) \in Nat /\ Len(log) + n <= MaxLog
    BY DEF Commit, LogInv, TypeOK
  <1>3. new \in Seq(0 .. MaxGen) /\ Len(new) = n /\ \A i \in 1 .. n : new[i] = g
    BY <1>1
  <1>4. /\ log' = log \o new
        /\ toPublish' = [toPublish EXCEPT ![w] = [events |-> batch, times |-> times]]
        /\ UNCHANGED <<gen, lease, pageVars>>
    BY <1>2 DEF Commit
  <1>5. /\ log' \in Seq(0 .. MaxGen) /\ Len(log') = Len(log) + n
        /\ \A i \in 1 .. Len(log') : log'[i] = IF i <= Len(log) THEN log[i] ELSE g
    <2> HIDE DEF new, g
    <2>1. /\ log \o new \in Seq(0 .. MaxGen) /\ Len(log \o new) = Len(log) + n
          /\ \A i \in 1 .. Len(log) + n :
                (log \o new)[i] = IF i <= Len(log) THEN log[i] ELSE new[i - Len(log)]
      BY <1>2, <1>3, ConcatProperties
    <2>2. \A i \in 1 .. Len(log) + n : i > Len(log) => i - Len(log) \in 1 .. n
      BY <1>1, <1>2
    <2>. QED BY <1>3, <1>4, <2>1, <2>2
  <1>6. batch \in Seqs /\ Len(batch) = n
    BY <1>1, <1>2, CountUp
  <1>7. TypeOK'
    <2> HIDE DEF new, g, batch
    <2>1. toPublish' \in [Writers -> [events : Seqs, times : 0 .. 2]]
      BY <1>4, <1>6 DEF LogInv, TypeOK, Seqs
    <2>. QED BY <1>4, <1>5, <2>1 DEF LogInv, TypeOK, Seqs, pageVars
  <1>8. Within'
    <2> HIDE DEF new, g, batch
    <2>1. \A i \in 1 .. Len(log') : log'[i] <= gen'
      BY <1>1, <1>2, <1>4, <1>5 DEF LogInv, Within
    <2>2. \A v \in Writers : toPublish'[v] # Idle =>
             toPublish'[v].times \in 1 .. 2 /\ toPublish'[v].events # <<>>
      BY <1>1, <1>4, <1>6, EmptySeq DEF LogInv, Within, TypeOK, Seqs
    <2>3. \A c \in Clients : after'[c] <= Len(log')
      BY <1>1, <1>2, <1>4, <1>5 DEF LogInv, Within, TypeOK, pageVars
    <2>. QED BY <1>2, <1>4, <1>5, <2>1, <2>2, <2>3 DEF LogInv, Within
  <1>9. NoStaleAppend'
    <2> HIDE DEF new, g, batch
    <2> SUFFICES ASSUME NEW i \in 1 .. Len(log'), NEW j \in 1 .. Len(log'), i < j, log'[j] # 0
                 PROVE  log'[i] <= log'[j]
      BY DEF NoStaleAppend
    <2>1. CASE j <= Len(log)
      BY <1>2, <1>5, <2>1 DEF LogInv, NoStaleAppend
    <2>2. CASE j > Len(log)
      <3>1. log'[j] = gen
        BY <1>1, <1>2, <1>5, <2>2
      <3>2. log'[i] <= gen
        BY <1>1, <1>2, <1>5 DEF LogInv, Within
      <3>. QED BY <3>1, <3>2
    <2>. QED BY <1>2, <1>5, <2>1, <2>2
  <1>. QED BY <1>7, <1>8, <1>9 DEF LogInv

\* The other steps leave the log as it is.
LEMMA TakeOverStep == ASSUME LogInv, NEW w \in Writers, TakeOver(w) PROVE LogInv'
  BY EventLogAssumption DEF LogInv, TypeOK, Within, NoStaleAppend, TakeOver, pageVars

LEMMA PublishStep == ASSUME LogInv, NEW w \in Writers, Publish(w) PROVE LogInv'
  <1>1. toPublish[w].events \in Seqs /\ toPublish[w].times \in 1 .. 2
    BY DEF LogInv, TypeOK, Within, Publish, Seqs
  <1>2. live' \in [Clients -> Seqs]
    BY <1>1, OfferType DEF LogInv, TypeOK, Publish, Seqs
  <1> DEFINE t == toPublish[w]
             rest == IF t.times = 1 THEN Idle ELSE [events |-> t.events, times |-> t.times - 1]
  <1>5. toPublish' = [toPublish EXCEPT ![w] = rest]
    BY DEF Publish
  <1>6. t \in [events : Seqs, times : 0 .. 2]
    BY DEF LogInv, TypeOK, Seqs
  <1>7. rest \in [events : Seqs, times : 0 .. 2]
    BY <1>1, <1>6, EmptySeq DEF Idle, Seqs
  <1>8. rest # Idle => rest.times = 1 /\ rest.events # <<>>
    BY <1>1, <1>6 DEF LogInv, Within, Publish
  <1> HIDE DEF rest
  <1>3. toPublish' \in [Writers -> [events : Seqs, times : 0 .. 2]]
    BY <1>5, <1>7 DEF LogInv, TypeOK, Seqs
  <1>4. \A v \in Writers : toPublish'[v] # Idle =>
           toPublish'[v].times \in 1 .. 2 /\ toPublish'[v].events # <<>>
    BY <1>5, <1>8 DEF LogInv, TypeOK, Within
  <1>. QED BY <1>2, <1>3, <1>4 DEF LogInv, TypeOK, Within, NoStaleAppend, Publish, Seqs

\* What is sent to a page is a number of an event.
LEMMA TakeInType ==
    ASSUME TypeOK, NEW c \in Clients, NEW e \in 1 .. MaxLog, TakeIn(c, e)
    PROVE  /\ lastSeq' \in [Clients -> Lengths]
           /\ seen' \in [Clients -> SUBSET (1 .. MaxLog)]
  <1>a. /\ lastSeq \in [Clients -> Lengths] /\ e \in Lengths
        /\ seen \in [Clients -> SUBSET (1 .. MaxLog)]
    BY EventLogAssumption DEF TypeOK, Lengths
  <1>1. CASE e <= lastSeq[c]
    BY <1>a, <1>1 DEF TakeIn
  <1>2. CASE ~(e <= lastSeq[c])
    <2>1. lastSeq' = [lastSeq EXCEPT ![c] = e]
      BY <1>2 DEF TakeIn
    <2>2. seen' = [seen EXCEPT ![c] = @ \cup {e}]
      BY <1>2 DEF TakeIn
    <2>. QED BY <1>a, <2>1, <2>2
  <1>. QED BY <1>1, <1>2

LEMMA PageTyped ==
    ASSUME LogInv, NEW c \in Clients, PageStep(c)
    PROVE  LogInv'
  <1> USE EventLogAssumption
  <1>a. /\ Len(log) \in Lengths
        /\ after[c] \in Nat /\ after[c] <= Len(log)
        /\ live[c] \in Seqs /\ backfill[c] \in Seqs
    BY DEF LogInv, TypeOK, Within, Lengths, Seqs
  <1>1. ASSUME NEW ok \in BOOLEAN, LoadPage(c, ok) PROVE LogInv'
    <2>1. PICK top \in Lengths :
            /\ top <= Len(log)
            /\ after' = [after EXCEPT ![c] = top]
            /\ lastSeq' = [lastSeq EXCEPT ![c] = top]
            /\ seen' = [seen EXCEPT ![c] = 1 .. top]
      <3>1. 0 \in Lengths /\ 0 <= Len(log)
        BY <1>a DEF Lengths
      <3>2. CASE ok
        <4>1. /\ after' = [after EXCEPT ![c] = Len(log)]
              /\ lastSeq' = [lastSeq EXCEPT ![c] = Len(log)]
              /\ seen' = [seen EXCEPT ![c] = 1 .. Len(log)]
          BY <1>1, <3>2 DEF LoadPage
        <4>2. Len(log) <= Len(log)
          BY <1>a DEF Lengths
        <4>. QED BY <1>a, <4>1, <4>2
      <3>3. CASE ~ok
        BY <1>1, <3>1, <3>3 DEF LoadPage, Lengths
      <3>. QED BY <3>2, <3>3
    <2>2. 1 .. top \in SUBSET (1 .. MaxLog)
      BY DEF Lengths
    <2>. QED BY <1>1, <2>1, <2>2 DEF LogInv, TypeOK, Within, NoStaleAppend, LoadPage, writerVars, Lengths
  <1>2. ASSUME Subscribe(c) PROVE LogInv'
    BY <1>2 DEF LogInv, TypeOK, Within, NoStaleAppend, Subscribe, writerVars
  <1>3. ASSUME ReadBackfill(c) PROVE LogInv'
    <2>1. Len(log) - after[c] \in Nat /\ after[c] + (Len(log) - after[c]) <= MaxLog
      BY <1>a DEF Lengths
    <2>2. [i \in 1 .. Len(log) - after[c] |-> after[c] + i] \in Seqs
      BY <1>a, <2>1, CountUp
    <2>3. backfill' \in [Clients -> Seqs]
      BY <1>3, <2>2 DEF ReadBackfill, LogInv, TypeOK, Seqs
    <2>. QED BY <1>3, <2>3 DEF LogInv, TypeOK, Within, NoStaleAppend, ReadBackfill, writerVars, Seqs
  <1>4. ASSUME SendBackfill(c) PROVE LogInv'
    <2>1. Head(backfill[c]) \in 1 .. MaxLog /\ Tail(backfill[c]) \in Seqs
      BY <1>4, <1>a, HeadTailProperties DEF SendBackfill, Seqs
    <2>2. /\ lastSeq' \in [Clients -> Lengths]
          /\ seen' \in [Clients -> SUBSET (1 .. MaxLog)]
          /\ last' \in [Clients -> Lengths]
          /\ backfill' \in [Clients -> Seqs]
      <3>1. TakeIn(c, Head(backfill[c])) /\ TypeOK
        BY <1>4 DEF SendBackfill, LogInv
      <3>2. backfill' = [backfill EXCEPT ![c] = Tail(backfill[c])]
        BY <1>4 DEF SendBackfill
      <3>3. last' = [last EXCEPT ![c] = Head(backfill[c])]
        BY <1>4 DEF SendBackfill
      <3>4. last \in [Clients -> Lengths] /\ backfill \in [Clients -> Seqs]
        BY DEF LogInv, TypeOK, Lengths, Seqs
      <3>5. Head(backfill[c]) \in Lengths
        BY <2>1 DEF Lengths
      <3>. QED BY <2>1, <3>1, <3>2, <3>3, <3>4, <3>5, TakeInType
    <2>. QED BY <1>4, <2>1, <2>2 DEF LogInv, TypeOK, Within, NoStaleAppend, SendBackfill, writerVars, Seqs, Lengths
  <1>5. ASSUME EndBackfill(c) PROVE LogInv'
    BY <1>5 DEF LogInv, TypeOK, Within, NoStaleAppend, EndBackfill, writerVars
  <1>6. ASSUME SendLive(c) PROVE LogInv'
    <2>1. Head(live[c]) \in 1 .. MaxLog /\ Tail(live[c]) \in Seqs
      BY <1>6, <1>a, HeadTailProperties DEF SendLive, Seqs
    <2>2. /\ lastSeq' \in [Clients -> Lengths]
          /\ seen' \in [Clients -> SUBSET (1 .. MaxLog)]
          /\ last' \in [Clients -> Lengths]
          /\ live' \in [Clients -> Seqs]
      <3>1. CASE Head(live[c]) <= last[c]
        BY <1>6, <2>1, <3>1 DEF SendLive, LogInv, TypeOK, Lengths, Seqs
      <3>2. CASE ~(Head(live[c]) <= last[c])
        <4>1. TakeIn(c, Head(live[c])) /\ TypeOK
          BY <1>6, <3>2 DEF SendLive, LogInv
        <4>2. live' = [live EXCEPT ![c] = Tail(live[c])]
          BY <1>6 DEF SendLive
        <4>3. last' = [last EXCEPT ![c] = Head(live[c])]
          BY <1>6, <3>2 DEF SendLive
        <4>4. last \in [Clients -> Lengths] /\ live \in [Clients -> Seqs]
          BY DEF LogInv, TypeOK, Lengths, Seqs
        <4>5. Head(live[c]) \in Lengths
          BY <2>1 DEF Lengths
        <4>. QED BY <2>1, <4>1, <4>2, <4>3, <4>4, <4>5, TakeInType
      <3>. QED BY <3>1, <3>2
    <2>. QED BY <1>6, <2>1, <2>2 DEF LogInv, TypeOK, Within, NoStaleAppend, SendLive, writerVars, Seqs, Lengths
  <1>7. ASSUME NEW to \in {"off", "closed"}, Unsubscribe(c, to) PROVE LogInv'
    BY <1>7 DEF LogInv, TypeOK, Within, NoStaleAppend, Unsubscribe, writerVars
  <1>. QED BY <1>1, <1>2, <1>3, <1>4, <1>5, <1>6, <1>7 DEF PageStep, Deliver

LEMMA CrashStep == LogInv /\ Crash => LogInv'
  BY EventLogAssumption DEF LogInv, TypeOK, Within, NoStaleAppend, Crash, Idle

LEMMA LogStep == LogInv /\ [Next]_vars => LogInv'
  <1> SUFFICES ASSUME LogInv, [Next]_vars PROVE LogInv'
    OBVIOUS
  <1>1. CASE OtherStep
    BY <1>1, TakeOverStep, PageTyped, CrashStep DEF OtherStep
  <1>2. ASSUME NEW w \in Writers, CommitAny(w) PROVE LogInv'
    BY <1>2, CommitStep DEF CommitAny
  <1>3. ASSUME NEW w \in Writers, Publish(w) PROVE LogInv'
    BY <1>3, PublishStep
  <1>4. CASE UNCHANGED vars
    BY <1>4 DEF LogInv, TypeOK, Within, NoStaleAppend, vars, writerVars, pageVars
  <1>. QED BY <1>1, <1>2, <1>3, <1>4 DEF Next

LEMMA LogAlways == Spec => []LogInv
  BY InitTyped, LogStep, PTL DEF Spec

\* The log, the channels and the cursors keep their types.
THEOREM LogTyped == Spec => []TypeOK
  BY LogAlways, PTL DEF LogInv

\* SL-3, the fence of AppendTx: no event of an older lease follows an event of
\* a newer one, with any number of writers and takeovers.
THEOREM StaleNeverAppends == Spec => []NoStaleAppend
  BY LogAlways, PTL DEF LogInv

-----------------------------------------------------------------------------
\* The behaviours of OrderedSpec.

\* At most one writer has yet to publish, and what it has is the log's newest.
NewestPending ==
    \A w \in Writers : toPublish[w] # Idle =>
        /\ \A v \in Writers \ {w} : toPublish[v] = Idle
        /\ Len(toPublish[w].events) <= Len(log)
        /\ \A i \in 1 .. Len(toPublish[w].events) :
            toPublish[w].events[i] = Len(log) - Len(toPublish[w].events) + i

\* What a stream will have sent when its backfill is through.
Reach(c) ==
    CASE stream[c] = "registered" -> Len(log)
      [] stream[c] = "backfill" -> last[c] + Len(backfill[c])
      [] OTHER -> last[c]

\* Event e has been or will be sent, or one above it will.
Covered(c, e) == e <= Reach(c) \/ \E j \in 1 .. Len(live[c]) : e <= live[c][j]

\* Nobody has yet to publish event e or one before it.
Published(e) ==
    /\ e <= Len(log)
    /\ \A w \in Writers : toPublish[w] # Idle => e <= Len(log) - Len(toPublish[w].events)

\* The cursors of a page and its stream.
Cursors(c) ==
    /\ after[c] <= lastSeq[c]
    /\ stream[c] = "registered" => last[c] = after[c]
    /\ Open(c) => last[c] <= lastSeq[c]
    /\ \A i \in 1 .. Len(live[c]) : live[c][i] <= Len(log)
    /\ stream[c] = "backfill" => \A i \in 1 .. Len(backfill[c]) : backfill[c][i] = last[c] + i

\* An event in the channel is at most one above the reach or an earlier event.
NoHoles(c) ==
    Open(c) => \A i \in 1 .. Len(live[c]) :
        live[c][i] <= Reach(c) + 1 \/ \E j \in 1 .. (i - 1) : live[c][i] <= live[c][j] + 1

HandedOver(c) == Open(c) => \A e \in Nat : Published(e) => Covered(c, e)

Gapless(c) == 1 .. lastSeq[c] \subseteq seen[c]

InvOf(c) == Cursors(c) /\ NoHoles(c) /\ HandedOver(c) /\ Gapless(c)

StreamInv == LogInv /\ NewestPending /\ \A c \in Clients : InvOf(c)

LEMMA InitStreams == Init => StreamInv
  <1> SUFFICES ASSUME Init PROVE StreamInv
    OBVIOUS
  <1>1. LogInv /\ NewestPending
    BY InitTyped DEF Init, NewestPending, Idle
  <1>2. ASSUME NEW c \in Clients PROVE InvOf(c)
    BY <1>2 DEF Init, InvOf, Cursors, NoHoles, HandedOver, Gapless, Open
  <1>. QED BY <1>1, <1>2 DEF StreamInv

\* Types, in the form the steps below use them.
LEMMA Types ==
    ASSUME LogInv
    PROVE  /\ Len(log) \in Nat
           /\ \A c \in Clients :
                /\ last[c] \in Nat /\ after[c] \in Nat /\ lastSeq[c] \in Nat
                /\ live[c] \in Seqs /\ Len(live[c]) \in Nat
                /\ \A i \in 1 .. Len(live[c]) : live[c][i] \in Nat
                /\ backfill[c] \in Seqs /\ Len(backfill[c]) \in Nat
                /\ \A i \in 1 .. Len(backfill[c]) : backfill[c][i] \in Nat
                /\ Reach(c) \in Nat
           /\ \A w \in Writers :
                /\ toPublish[w].events \in Seqs /\ Len(toPublish[w].events) \in Nat
                /\ \A i \in 1 .. Len(toPublish[w].events) : toPublish[w].events[i] \in Nat
                /\ toPublish[w] # Idle => Len(toPublish[w].events) \in Nat \ {0}
  <1>1. \A q \in Seqs : Len(q) \in Nat /\ \A i \in 1 .. Len(q) : q[i] \in Nat
    BY EventLogAssumption DEF Seqs
  <1>2. \A q \in Seqs : q # <<>> => Len(q) \in Nat \ {0}
    BY EmptySeq DEF Seqs
  <1>3. /\ Len(log) \in Nat
        /\ \A c \in Clients : live[c] \in Seqs /\ backfill[c] \in Seqs
        /\ \A w \in Writers : toPublish[w].events \in Seqs
    BY DEF LogInv, TypeOK, Seqs
  <1>4. \A c \in Clients : last[c] \in Nat /\ after[c] \in Nat /\ lastSeq[c] \in Nat
    BY EventLogAssumption DEF LogInv, TypeOK
  <1>5. \A c \in Clients : Reach(c) \in Nat
    BY <1>1, <1>3, <1>4 DEF Reach
  <1>6. \A w \in Writers : toPublish[w] # Idle => toPublish[w].events # <<>>
    BY DEF LogInv, Within
  <1>. QED BY <1>1, <1>2, <1>3, <1>4, <1>5, <1>6

\* A commit, when nobody has anything to publish.
LEMMA CommitOrdered ==
    ASSUME StreamInv, InOrder, NEW w \in Writers, NEW n \in 1 .. MaxBatch,
           NEW underLease \in BOOLEAN, NEW times \in 1 .. 2,
           Commit(w, n, underLease, times)
    PROVE  StreamInv'
  <1> DEFINE batch == [i \in 1 .. n |-> Len(log) + i]
             g == IF underLease THEN lease[w] ELSE 0
             new == [i \in 1 .. n |-> g]
  <1>0. LogInv
    BY DEF StreamInv
  <1>1. LogInv /\ LogInv' /\ n \in Nat \ {0} /\ Len(log) + n <= MaxLog
    <2>1. n \in Nat \ {0} /\ Len(log) + n <= MaxLog
      BY EventLogAssumption DEF Commit
    <2>. QED BY <1>0, <2>1, CommitStep
  <1>2. Len(log') = Len(log) + n
    <2>1. new \in Seq(0 .. MaxGen) /\ Len(new) = n
      <3>1. g \in 0 .. MaxGen
        BY <1>1, EventLogAssumption DEF LogInv, TypeOK
      <3>. QED BY <1>1, <3>1
    <2>2. log \in Seq(0 .. MaxGen) /\ log' = log \o new
      BY <1>1 DEF LogInv, TypeOK, Commit
    <2> HIDE DEF new
    <2>. QED BY <2>1, <2>2, ConcatProperties
  <1>3. batch \in Seqs /\ Len(batch) = n /\ \A i \in 1 .. n : batch[i] = Len(log) + i
    BY <1>1, Types, CountUp
  <1>4. /\ toPublish' = [toPublish EXCEPT ![w] = [events |-> batch, times |-> times]]
        /\ UNCHANGED pageVars
    BY DEF Commit
  <1> HIDE DEF batch, g, new
  <1>5. /\ \A v \in Writers \ {w} : toPublish'[v] = Idle
        /\ toPublish'[w].events = batch
        /\ toPublish'[w] # Idle
    <2>1. toPublish \in [Writers -> [events : Seqs, times : 0 .. 2]]
      BY <1>1 DEF LogInv, TypeOK, Seqs
    <2>2. [events |-> batch, times |-> times] # Idle
      BY DEF Idle
    <2>. QED BY <2>1, <2>2, <1>4 DEF InOrder
  <1>6. NewestPending'
    <2>1. \A v \in Writers : toPublish'[v] # Idle => v = w
      BY <1>5
    <2>2. n <= Len(log') /\ \A i \in 1 .. n : batch[i] = Len(log') - n + i
      BY <1>0, <1>1, <1>2, <1>3, Types
    <2>. QED BY <1>3, <1>5, <2>1, <2>2 DEF NewestPending
  <1>7. \A c \in Clients : Reach(c)' >= Reach(c) /\ (Open(c)' <=> Open(c)) /\ Reach(c)' \in Nat
    BY <1>1, <1>2, <1>4, Types DEF Reach, Open, pageVars
  <1>8. ASSUME NEW c \in Clients PROVE InvOf(c)'
    <2>0. InvOf(c)
      BY DEF StreamInv
    <2>1. Cursors(c)'
      <3>1. \A i \in 1 .. Len(live[c]) : live[c][i] <= Len(log')
        <4>1. \A i \in 1 .. Len(live[c]) : live[c][i] \in Nat /\ live[c][i] <= Len(log)
          BY <1>0, <2>0, Types DEF InvOf, Cursors
        <4>2. Len(log) \in Nat
          BY <1>0, Types
        <4>. QED BY <1>1, <1>2, <4>1, <4>2
      <3>. QED BY <1>4, <1>7, <2>0, <3>1 DEF InvOf, Cursors, pageVars
    <2>2. NoHoles(c)'
      <3>1. live'[c] = live[c] /\ Reach(c)' >= Reach(c) /\ Reach(c)' \in Nat
        BY <1>4, <1>7 DEF pageVars
      <3>2. \A i \in 1 .. Len(live[c]) : live[c][i] <= Reach(c) + 1 => live[c][i] <= Reach(c)' + 1
        BY <1>0, <3>1, Types
      <3>. QED BY <2>0, <1>7, <3>1, <3>2 DEF InvOf, NoHoles
    <2>3. HandedOver(c)'
      <3> SUFFICES ASSUME Open(c), NEW e \in Nat, Published(e)' PROVE Covered(c, e)'
        BY <1>7 DEF HandedOver
      <3>1. Published(e)
        BY <1>1, <1>2, <1>3, <1>5, Types DEF Published, InOrder
      <3>2. Covered(c, e)
        BY <2>0, <3>1 DEF InvOf, HandedOver
      <3>3. live'[c] = live[c] /\ Reach(c)' >= Reach(c) /\ Reach(c)' \in Nat /\ Reach(c) \in Nat
        BY <1>0, <1>4, <1>7, Types DEF pageVars
      <3>. QED BY <3>2, <3>3 DEF Covered
    <2>4. Gapless(c)'
      BY <2>0, <1>4 DEF InvOf, Gapless, pageVars
    <2>. QED BY <2>1, <2>2, <2>3, <2>4 DEF InvOf
  <1>. QED BY <1>1, <1>6, <1>8 DEF StreamInv

\* A publication, when every open channel has room for it.
LEMMA PublishOrdered ==
    ASSUME StreamInv, NEW w \in Writers, Room(w), Publish(w)
    PROVE  StreamInv'
  <1> DEFINE es == toPublish[w].events
             k == Len(es)
             rest == IF toPublish[w].times = 1 THEN Idle
                     ELSE [events |-> es, times |-> toPublish[w].times - 1]
  <1>0. LogInv /\ LogInv'
    BY PublishStep DEF StreamInv
  <1>1. /\ toPublish[w] # Idle /\ toPublish' = [toPublish EXCEPT ![w] = rest]
        /\ UNCHANGED <<log, stream, after, backfill, last, lastSeq, seen>>
    BY DEF Publish
  <1>2. /\ \A v \in Writers \ {w} : toPublish[v] = Idle
        /\ k \in Nat \ {0} /\ k <= Len(log) /\ es \in Seqs
        /\ \A i \in 1 .. k : es[i] = Len(log) - k + i
    BY <1>0, <1>1, Types DEF StreamInv, NewestPending
  <1>3. /\ \A v \in Writers \ {w} : toPublish'[v] = Idle
        /\ toPublish'[w] # Idle => toPublish'[w].events = es
    <2>1. toPublish'[w] = rest
      BY <1>1 DEF LogInv, TypeOK, StreamInv
    <2>. QED BY <1>1, <1>2, <2>1
  <1> HIDE DEF rest
  <1>4. NewestPending'
    BY <1>1, <1>2, <1>3 DEF NewestPending
  <1>5. ASSUME NEW c \in Clients PROVE InvOf(c)'
    <2>0. InvOf(c)
      BY DEF StreamInv
    <2>1. Reach(c)' = Reach(c) /\ (Open(c)' <=> Open(c)) /\ Reach(c) \in Nat /\ Len(live[c]) \in Nat
      BY <1>0, <1>1, Types DEF Reach, Open
    <2>2. CASE ~Open(c)
      <3>1. live'[c] = live[c]
        BY <2>2 DEF Publish
      <3>. QED BY <1>1, <2>0, <2>1, <2>2, <3>1 DEF InvOf, Cursors, NoHoles, HandedOver, Gapless
    <2>3. CASE Open(c)
      <3>1. live'[c] = live[c] \o es
        <4>1. live'[c] = Offer(live[c], es)
          BY <2>3 DEF Publish
        <4>2. live[c] \in Seqs /\ Len(live[c]) + k <= LiveCap
          BY <1>0, <2>3, Types DEF Room
        <4> HIDE DEF es, k
        <4>3. Len(live[c] \o es) = Len(live[c]) + Len(es)
          BY <1>2, <4>2, ConcatProperties DEF Seqs
        <4>4. Len(es) = k
          BY DEF k
        <4>. QED BY <4>1, <4>2, <4>3, <4>4 DEF Offer
      <3>2. /\ Len(live'[c]) = Len(live[c]) + k
            /\ \A i \in 1 .. Len(live[c]) : live'[c][i] = live[c][i]
            /\ \A i \in 1 .. k : live'[c][Len(live[c]) + i] = Len(log) - k + i
        <4>1. live[c] \in Seqs
          BY <1>0, Types
        <4> HIDE DEF es, k
        <4>2. /\ Len(live[c] \o es) = Len(live[c]) + Len(es)
              /\ \A i \in 1 .. Len(live[c]) + Len(es) : (live[c] \o es)[i] =
                    IF i <= Len(live[c]) THEN live[c][i] ELSE es[i - Len(live[c])]
          BY <1>2, <4>1, ConcatProperties DEF Seqs
        <4>3. Len(es) = k
          BY DEF k
        <4>. QED BY <1>2, <2>1, <3>1, <4>2, <4>3
      <3> HIDE DEF es, k
      <3>3. \A i \in 1 .. Len(live'[c]) : i > Len(live[c]) =>
              /\ i - Len(live[c]) \in 1 .. k
              /\ live'[c][i] = Len(log) - k + (i - Len(live[c]))
        <4> TAKE i \in 1 .. Len(live'[c])
        <4> HAVE i > Len(live[c])
        <4>1. i - Len(live[c]) \in 1 .. k /\ i = Len(live[c]) + (i - Len(live[c]))
          BY <1>2, <2>1, <3>2
        <4>. QED BY <3>2, <4>1
      <3>4. Cursors(c)'
        <4>1. \A i \in 1 .. Len(live'[c]) : live'[c][i] <= Len(log)
          <5> TAKE i \in 1 .. Len(live'[c])
          <5>1. CASE i <= Len(live[c])
            <6>1. i \in 1 .. Len(live[c])
              BY <2>1, <5>1
            <6>. QED BY <2>0, <3>2, <6>1 DEF InvOf, Cursors
          <5>2. CASE i > Len(live[c])
            <6>1. i - Len(live[c]) \in 1 .. k /\ live'[c][i] = Len(log) - k + (i - Len(live[c]))
              BY <3>3, <5>2
            <6>. QED BY <1>0, <1>2, <6>1, Types
          <5>. QED BY <2>1, <5>1, <5>2
        <4>. QED BY <1>1, <2>0, <2>1, <4>1 DEF InvOf, Cursors
      <3>5. Covered(c, Len(log) - k)
        <4>1. Published(Len(log) - k) /\ Len(log) - k \in Nat
          BY <1>0, <1>2, Types DEF Published, k, es
        <4>. QED BY <2>0, <2>3, <4>1 DEF InvOf, HandedOver
      <3>6. NoHoles(c)'
        <4> SUFFICES ASSUME NEW i \in 1 .. Len(live'[c])
                     PROVE  \/ live'[c][i] <= Reach(c) + 1
                            \/ \E j \in 1 .. (i - 1) : live'[c][i] <= live'[c][j] + 1
          BY <2>1 DEF NoHoles
        <4>1. CASE i <= Len(live[c])
          <5>1. i \in 1 .. Len(live[c])
            BY <4>1, <2>1
          <5>2. \A j \in 1 .. (i - 1) : j \in 1 .. Len(live[c])
            BY <5>1, <2>1
          <5>. QED BY <2>0, <2>3, <3>2, <5>1, <5>2 DEF InvOf, NoHoles
        <4>2. CASE i = Len(live[c]) + 1
          <5>1. live'[c][i] = Len(log) - k + 1
            BY <1>2, <2>1, <3>2, <4>2
          <5>2. CASE Len(log) - k <= Reach(c)
            BY <1>0, <1>2, <2>1, <5>1, <5>2, Types
          <5>3. ASSUME NEW j \in 1 .. Len(live[c]), Len(log) - k <= live[c][j]
                PROVE  \E m \in 1 .. (i - 1) : live'[c][i] <= live'[c][m] + 1
            <6>1. j \in 1 .. (i - 1) /\ live'[c][j] = live[c][j] /\ live[c][j] \in Nat
              BY <1>0, <2>1, <3>2, <4>2, Types
            <6>. QED BY <1>0, <1>2, <5>1, <5>3, <6>1, Types
          <5>. QED BY <3>5, <5>2, <5>3 DEF Covered
        <4>3. CASE i > Len(live[c]) + 1
          <5>1. /\ i - 1 \in 1 .. Len(live'[c]) /\ i - 1 > Len(live[c])
                /\ i \in Nat
            BY <1>2, <2>1, <3>2, <4>3
          <5>2. live'[c][i] = Len(log) - k + (i - Len(live[c]))
            BY <2>1, <3>3, <4>3
          <5>3. live'[c][i - 1] = Len(log) - k + (i - 1 - Len(live[c]))
            BY <3>3, <5>1
          <5>4. live'[c][i] <= live'[c][i - 1] + 1
            BY <1>0, <1>2, <2>1, <5>1, <5>2, <5>3, Types
          <5>5. i - 1 \in 1 .. (i - 1)
            BY <5>1
          <5>. QED BY <5>4, <5>5
        <4>. QED BY <2>1, <4>1, <4>2, <4>3
      <3>7. HandedOver(c)'
        <4> SUFFICES ASSUME NEW e \in Nat, Published(e)' PROVE Covered(c, e)'
          BY DEF HandedOver
        <4>1. e <= Len(log)
          BY <1>1 DEF Published
        <4>2. Len(live'[c]) \in 1 .. Len(live'[c]) /\ live'[c][Len(live'[c])] = Len(log)
          <5>1. k \in 1 .. k /\ Len(log) - k + k = Len(log) /\ Len(live[c]) + k >= 1
            BY <1>0, <1>2, <2>1, Types
          <5>2. live'[c][Len(live[c]) + k] = Len(log) - k + k
            BY <3>2, <5>1
          <5>. QED BY <1>2, <2>1, <3>2, <5>1, <5>2
        <4>. QED BY <4>1, <4>2 DEF Covered
      <3>8. Gapless(c)'
        BY <1>1, <2>0 DEF InvOf, Gapless
      <3>. QED BY <3>4, <3>6, <3>7, <3>8 DEF InvOf
    <2>. QED BY <2>2, <2>3
  <1>. QED BY <1>0, <1>4, <1>5 DEF StreamInv

\* A page and its stream are as they were while the log stays.
PageOf(c) == <<stream[c], after[c], live[c], backfill[c], last[c], lastSeq[c], seen[c]>>

LEMMA SamePage ==
    ASSUME NEW c \in Clients, InvOf(c), UNCHANGED writerVars, UNCHANGED PageOf(c)
    PROVE  InvOf(c)'
  <1>1. Reach(c)' = Reach(c) /\ (Open(c)' <=> Open(c))
    BY DEF Reach, Open, writerVars, PageOf
  <1>2. \A e \in Nat : (Published(e)' <=> Published(e)) /\ (Covered(c, e)' <=> Covered(c, e))
    BY <1>1 DEF Published, Covered, writerVars, PageOf
  <1>. QED BY <1>1, <1>2 DEF InvOf, Cursors, NoHoles, HandedOver, Gapless, writerVars, PageOf

\* Only the page of a page's step is disturbed.
LEMMA OnePage ==
    ASSUME StreamInv, LogInv', NEW c \in Clients, UNCHANGED writerVars,
           \A d \in Clients \ {c} : UNCHANGED PageOf(d), InvOf(c)'
    PROVE  StreamInv'
  <1>1. NewestPending'
    BY DEF StreamInv, NewestPending, writerVars
  <1>2. ASSUME NEW d \in Clients PROVE InvOf(d)'
    BY SamePage DEF StreamInv
  <1>. QED BY <1>1, <1>2 DEF StreamInv

\* A page takes in an event that is at most one above its cursor.
LEMMA TakeInNext ==
    ASSUME LogInv, NEW c \in Clients, NEW e \in Nat, TakeIn(c, e),
           Gapless(c), e <= lastSeq[c] + 1
    PROVE  /\ Gapless(c)' /\ lastSeq'[c] \in Nat
           /\ lastSeq'[c] >= lastSeq[c] /\ lastSeq'[c] >= e
           /\ \A d \in Clients \ {c} : lastSeq'[d] = lastSeq[d] /\ seen'[d] = seen[d]
  <1>1. /\ lastSeq[c] \in Nat
        /\ lastSeq \in [Clients -> Lengths] /\ seen \in [Clients -> SUBSET (1 .. MaxLog)]
    BY Types DEF LogInv, TypeOK, Lengths
  <1>2. CASE e <= lastSeq[c]
    BY <1>1, <1>2 DEF TakeIn, Gapless
  <1>3. CASE ~(e <= lastSeq[c])
    <2>1. e = lastSeq[c] + 1
      BY <1>1, <1>3
    <2>2. lastSeq' = [lastSeq EXCEPT ![c] = e] /\ seen' = [seen EXCEPT ![c] = seen[c] \cup {e}]
      BY <1>3 DEF TakeIn
    <2>3. 1 .. e \subseteq (1 .. lastSeq[c]) \cup {e}
      BY <1>1, <2>1
    <2>4. lastSeq'[c] = e /\ seen'[c] = seen[c] \cup {e}
      BY <1>1, <2>2
    <2>5. Gapless(c)'
      BY <2>3, <2>4 DEF Gapless
    <2>. QED BY <1>1, <1>3, <2>1, <2>2, <2>4, <2>5
  <1>. QED BY <1>2, <1>3

LEMMA LoadOrdered ==
    ASSUME StreamInv, LogInv', NEW c \in Clients, NEW ok \in BOOLEAN, LoadPage(c, ok)
    PROVE  StreamInv'
  <1>0. LogInv
    BY DEF StreamInv
  <1> DEFINE top == IF ok THEN Len(log) ELSE 0
  <1>1. /\ after' = [after EXCEPT ![c] = top] /\ lastSeq' = [lastSeq EXCEPT ![c] = top]
        /\ seen' = [seen EXCEPT ![c] = 1 .. top] /\ stream' = [stream EXCEPT ![c] = "off"]
        /\ UNCHANGED <<writerVars, live, backfill, last>>
    BY DEF LoadPage
  <1>2. top \in Nat
    BY <1>0, Types
  <1> HIDE DEF top
  <1>3. /\ after'[c] = top /\ lastSeq'[c] = top /\ seen'[c] = 1 .. top /\ stream'[c] = "off"
        /\ \A d \in Clients \ {c} : UNCHANGED PageOf(d)
    BY <1>0, <1>1 DEF LogInv, TypeOK, PageOf
  <1>4. InvOf(c)'
    <2>1. InvOf(c)
      BY DEF StreamInv
    <2>. QED BY <1>1, <1>2, <1>3, <2>1
             DEF InvOf, Cursors, NoHoles, HandedOver, Gapless, Open, writerVars
  <1>. QED BY <1>1, <1>3, <1>4, OnePage

LEMMA SubscribeOrdered ==
    ASSUME StreamInv, LogInv', NEW c \in Clients, Subscribe(c)
    PROVE  StreamInv'
  <1>0. LogInv /\ InvOf(c)
    BY DEF StreamInv
  <1>1. /\ stream'[c] = "registered" /\ last'[c] = after[c]
        /\ UNCHANGED <<writerVars, after, live, backfill, lastSeq, seen>>
        /\ \A d \in Clients \ {c} : UNCHANGED PageOf(d)
    BY <1>0 DEF Subscribe, LogInv, TypeOK, PageOf
  <1>2. Reach(c)' = Len(log) /\ Len(log) \in Nat
    BY <1>0, <1>1, Types DEF Reach, writerVars
  <1>3. Cursors(c)' /\ Gapless(c)'
    BY <1>0, <1>1 DEF InvOf, Cursors, Gapless, writerVars
  <1>4. NoHoles(c)'
    <2>1. \A i \in 1 .. Len(live[c]) : live[c][i] <= Len(log) + 1
      BY <1>0, <1>2, Types DEF InvOf, Cursors
    <2>. QED BY <1>1, <1>2, <2>1 DEF NoHoles
  <1>5. HandedOver(c)'
    BY <1>1, <1>2 DEF HandedOver, Published, Covered, writerVars
  <1>. QED BY <1>1, <1>3, <1>4, <1>5, OnePage DEF InvOf

\* The read of the backfill, and its end, leave the reach of the stream.
LEMMA ReachKept ==
    ASSUME StreamInv, LogInv', NEW c \in Clients, ReadBackfill(c) \/ EndBackfill(c)
    PROVE  StreamInv'
  <1>0. LogInv /\ InvOf(c)
    BY DEF StreamInv
  <1>1. /\ UNCHANGED <<writerVars, after, live, last, lastSeq, seen>>
        /\ \A d \in Clients \ {c} : UNCHANGED PageOf(d)
        /\ Open(c) /\ Open(c)'
    BY <1>0 DEF ReadBackfill, EndBackfill, LogInv, TypeOK, PageOf, Open
  <1>2. Reach(c)' = Reach(c) /\ Cursors(c)'
    <2>1. CASE ReadBackfill(c)
      <3>1. /\ Len(log) - after[c] \in Nat /\ after[c] \in Nat /\ Len(log) \in Nat
            /\ after[c] + (Len(log) - after[c]) <= MaxLog
        BY <1>0, Types, EventLogAssumption DEF LogInv, Within
      <3>2. /\ backfill'[c] = [i \in 1 .. Len(log) - after[c] |-> after[c] + i]
            /\ stream[c] = "registered" /\ stream'[c] = "backfill"
        BY <1>0, <2>1 DEF ReadBackfill, LogInv, TypeOK
      <3>3. /\ Len(backfill'[c]) = Len(log) - after[c]
            /\ \A i \in 1 .. Len(backfill'[c]) : backfill'[c][i] = after[c] + i
        BY <3>1, <3>2, CountUp
      <3>4. last[c] = after[c]
        BY <1>0, <3>2 DEF InvOf, Cursors
      <3>. QED BY <1>0, <1>1, <3>1, <3>2, <3>3, <3>4 DEF InvOf, Cursors, Reach, writerVars
    <2>2. CASE EndBackfill(c)
      <3>1. Len(backfill[c]) = 0 /\ stream[c] = "backfill" /\ stream'[c] = "live" /\ last[c] \in Nat
        BY <1>0, <2>2, Types DEF EndBackfill, LogInv, TypeOK
      <3>. QED BY <1>0, <1>1, <3>1 DEF InvOf, Cursors, Reach, writerVars
    <2>. QED BY <2>1, <2>2
  <1>3. InvOf(c)'
    BY <1>0, <1>1, <1>2
       DEF InvOf, NoHoles, HandedOver, Published, Covered, Gapless, writerVars
  <1>. QED BY <1>1, <1>3, OnePage

LEMMA SendBackfillOrdered ==
    ASSUME StreamInv, LogInv', NEW c \in Clients, SendBackfill(c)
    PROVE  StreamInv'
  <1> DEFINE e == Head(backfill[c])
  <1>0. LogInv /\ InvOf(c)
    BY DEF StreamInv
  <1>1. /\ backfill[c] \in Seqs /\ backfill[c] # <<>> /\ Len(backfill[c]) \in Nat \ {0}
        /\ stream[c] = "backfill" /\ last[c] \in Nat /\ lastSeq[c] \in Nat /\ Len(live[c]) \in Nat
    BY <1>0, Types, EmptySeq DEF SendBackfill, Seqs
  <1>2. /\ backfill'[c] = Tail(backfill[c]) /\ last'[c] = e /\ TakeIn(c, e)
        /\ UNCHANGED <<writerVars, stream, after, live>>
        /\ \A d \in Clients \ {c} : backfill'[d] = backfill[d] /\ last'[d] = last[d]
    BY <1>0 DEF SendBackfill, LogInv, TypeOK
  <1>3. e = backfill[c][1] /\ Len(backfill'[c]) = Len(backfill[c]) - 1
        /\ \A i \in 1 .. Len(backfill'[c]) : backfill'[c][i] = backfill[c][i + 1]
    BY <1>1, <1>2, HeadTailProperties DEF Seqs
  <1> HIDE DEF e
  <1>4. e = last[c] + 1 /\ last[c] <= lastSeq[c]
    BY <1>0, <1>1, <1>3 DEF InvOf, Cursors, Open
  <1>5. /\ Gapless(c)' /\ lastSeq'[c] \in Nat /\ lastSeq'[c] >= lastSeq[c] /\ lastSeq'[c] >= e
        /\ \A d \in Clients \ {c} : lastSeq'[d] = lastSeq[d] /\ seen'[d] = seen[d]
    <2>1. e \in Nat /\ e <= lastSeq[c] + 1
      BY <1>1, <1>4
    <2>. QED BY <1>0, <1>2, <2>1, TakeInNext DEF InvOf
  <1>6. Reach(c)' = Reach(c)
    BY <1>1, <1>2, <1>3, <1>4 DEF Reach
  <1>7. Cursors(c)'
    <2>1. \A i \in 1 .. Len(backfill'[c]) : backfill'[c][i] = last'[c] + i
      <3> TAKE i \in 1 .. Len(backfill'[c])
      <3>1. i + 1 \in 1 .. Len(backfill[c]) /\ i \in Nat
        BY <1>1, <1>3
      <3>2. backfill[c][i + 1] = last[c] + (i + 1)
        BY <1>0, <1>1, <3>1 DEF InvOf, Cursors
      <3>3. backfill'[c][i] = backfill[c][i + 1] /\ last'[c] = last[c] + 1
        BY <1>2, <1>3, <1>4
      <3>4. last[c] + (i + 1) = last[c] + 1 + i
        BY <1>1, <3>1
      <3>. QED BY <3>2, <3>3, <3>4
    <2>2. after'[c] <= lastSeq'[c]
      BY <1>0, <1>1, <1>2, <1>5, Types DEF InvOf, Cursors
    <2>. QED BY <1>0, <1>1, <1>2, <1>5, <2>1, <2>2 DEF InvOf, Cursors, writerVars
  <1>8. InvOf(c)'
    BY <1>0, <1>2, <1>5, <1>6, <1>7
       DEF InvOf, NoHoles, HandedOver, Published, Covered, Open, writerVars
  <1>9. \A d \in Clients \ {c} : UNCHANGED PageOf(d)
    BY <1>2, <1>5 DEF PageOf
  <1>. QED BY <1>2, <1>8, <1>9, OnePage

LEMMA SendLiveOrdered ==
    ASSUME StreamInv, LogInv', NEW c \in Clients, SendLive(c)
    PROVE  StreamInv'
  <1> DEFINE e == Head(live[c])
  <1>0. LogInv /\ InvOf(c)
    BY DEF StreamInv
  <1>1. /\ live[c] \in Seqs /\ live[c] # <<>> /\ Len(live[c]) \in Nat \ {0}
        /\ stream[c] = "live" /\ Open(c)
        /\ last[c] \in Nat /\ lastSeq[c] \in Nat /\ Reach(c) = last[c]
    BY <1>0, Types, EmptySeq DEF SendLive, Seqs, Reach, Open
  <1>2. /\ live'[c] = Tail(live[c])
        /\ IF e <= last[c] THEN UNCHANGED <<last, lastSeq, seen>>
           ELSE last' = [last EXCEPT ![c] = e] /\ TakeIn(c, e)
        /\ UNCHANGED <<writerVars, stream, after, backfill>>
        /\ \A d \in Clients \ {c} : live'[d] = live[d]
    BY <1>0 DEF SendLive, LogInv, TypeOK
  <1>3. /\ e = live[c][1] /\ Len(live'[c]) = Len(live[c]) - 1
        /\ \A i \in 1 .. Len(live'[c]) : live'[c][i] = live[c][i + 1]
    BY <1>1, <1>2, HeadTailProperties DEF Seqs
  <1> HIDE DEF e
  <1>4. e \in Nat /\ e <= last[c] + 1 /\ last[c] <= lastSeq[c]
    <2>1. 1 \in 1 .. Len(live[c]) /\ 1 .. (1 - 1) = {}
      BY <1>1
    <2>2. e \in Nat
      BY <1>0, <1>3, <2>1, Types
    <2>3. live[c][1] <= Reach(c) + 1
      BY <1>0, <1>1, <2>1 DEF InvOf, NoHoles
    <2>. QED BY <1>0, <1>1, <1>3, <2>2, <2>3 DEF InvOf, Cursors
  <1>5. /\ Gapless(c)' /\ last'[c] \in Nat /\ lastSeq'[c] \in Nat
        /\ last'[c] >= last[c] /\ last'[c] >= e
        /\ lastSeq'[c] >= lastSeq[c] /\ lastSeq'[c] >= last'[c]
        /\ \A d \in Clients \ {c} : last'[d] = last[d] /\ lastSeq'[d] = lastSeq[d] /\ seen'[d] = seen[d]
    <2>1. CASE e <= last[c]
      BY <1>0, <1>1, <1>2, <1>4, <2>1 DEF InvOf, Gapless
    <2>2. CASE ~(e <= last[c])
      <3>1. TakeIn(c, e) /\ last' = [last EXCEPT ![c] = e] /\ e <= lastSeq[c] + 1
        BY <1>1, <1>2, <1>4, <2>2
      <3>2. last'[c] = e /\ \A d \in Clients \ {c} : last'[d] = last[d]
        BY <1>0, <3>1 DEF LogInv, TypeOK
      <3>. QED BY <1>0, <1>1, <1>4, <2>2, <3>1, <3>2, TakeInNext DEF InvOf
    <2>. QED BY <2>1, <2>2
  <1>6. Reach(c)' = last'[c]
    BY <1>1, <1>2 DEF Reach
  <1>7. \A i \in 1 .. Len(live'[c]) : i + 1 \in 1 .. Len(live[c])
    BY <1>1, <1>3
  <1>8. Cursors(c)'
    <2>1. \A i \in 1 .. Len(live'[c]) : live'[c][i] <= Len(log)
      BY <1>0, <1>3, <1>7 DEF InvOf, Cursors
    <2>2. after'[c] <= lastSeq'[c]
      BY <1>0, <1>1, <1>2, <1>5, Types DEF InvOf, Cursors
    <2>. QED BY <1>1, <1>2, <1>5, <2>1, <2>2 DEF Cursors, writerVars
  <1>9. NoHoles(c)'
    <2> SUFFICES ASSUME NEW i \in 1 .. Len(live'[c])
                 PROVE  \/ live'[c][i] <= last'[c] + 1
                        \/ \E j \in 1 .. (i - 1) : live'[c][i] <= live'[c][j] + 1
      BY <1>6 DEF NoHoles
    <2>1. i + 1 \in 1 .. Len(live[c]) /\ live'[c][i] = live[c][i + 1] /\ live[c][i + 1] \in Nat /\ i \in Nat
      BY <1>0, <1>1, <1>3, <1>7, Types
    <2>2. CASE live[c][i + 1] <= last[c] + 1
      BY <1>1, <1>5, <2>1, <2>2
    <2>3. ASSUME NEW j \in 1 .. i, live[c][i + 1] <= live[c][j] + 1
          PROVE  \/ live'[c][i] <= last'[c] + 1
                 \/ \E m \in 1 .. (i - 1) : live'[c][i] <= live'[c][m] + 1
      <3>1. CASE j = 1
        BY <1>3, <1>4, <1>5, <2>1, <2>3, <3>1
      <3>2. CASE j # 1
        <4>1. j - 1 \in 1 .. (i - 1) /\ j - 1 \in 1 .. Len(live'[c]) /\ (j - 1) + 1 = j
          BY <2>1, <3>2, <1>1, <1>3
        <4>2. live'[c][j - 1] = live[c][j]
          BY <1>3, <4>1
        <4>. QED BY <2>1, <2>3, <4>1, <4>2
      <3>. QED BY <3>1, <3>2
    <2>4. \/ live[c][i + 1] <= last[c] + 1
          \/ \E j \in 1 .. ((i + 1) - 1) : live[c][i + 1] <= live[c][j] + 1
      BY <1>0, <1>1, <2>1 DEF InvOf, NoHoles
    <2>5. (i + 1) - 1 = i
      BY <2>1
    <2>. QED BY <2>2, <2>3, <2>4, <2>5
  <1>10. HandedOver(c)'
    <2> SUFFICES ASSUME NEW n \in Nat, Published(n)' PROVE Covered(c, n)'
      BY DEF HandedOver
    <2>1. Covered(c, n)
      BY <1>0, <1>1, <1>2 DEF InvOf, HandedOver, Published, writerVars
    <2>2. CASE n <= last[c]
      BY <1>1, <1>5, <1>6, <2>2 DEF Covered
    <2>3. ASSUME NEW j \in 1 .. Len(live[c]), n <= live[c][j] PROVE Covered(c, n)'
      <3>1. CASE j = 1
        BY <1>3, <1>4, <1>5, <1>6, <2>3, <3>1 DEF Covered
      <3>2. CASE j # 1
        <4>1. j - 1 \in 1 .. Len(live'[c]) /\ (j - 1) + 1 = j
          BY <3>2, <1>1, <1>3
        <4>2. live'[c][j - 1] = live[c][j]
          BY <1>3, <4>1
        <4>. QED BY <2>3, <4>1, <4>2 DEF Covered
      <3>. QED BY <3>1, <3>2
    <2>. QED BY <1>1, <2>1, <2>2, <2>3 DEF Covered
  <1>11. \A d \in Clients \ {c} : UNCHANGED PageOf(d)
    BY <1>2, <1>5 DEF PageOf
  <1>. QED BY <1>2, <1>5, <1>8, <1>9, <1>10, <1>11, OnePage DEF InvOf

LEMMA UnsubscribeOrdered ==
    ASSUME StreamInv, LogInv', NEW c \in Clients, NEW to \in {"off", "closed"}, Unsubscribe(c, to)
    PROVE  StreamInv'
  <1>0. LogInv /\ InvOf(c)
    BY DEF StreamInv
  <1>1. /\ stream'[c] = to /\ live'[c] = <<>> /\ backfill'[c] = <<>>
        /\ UNCHANGED <<writerVars, after, last, lastSeq, seen>>
        /\ \A d \in Clients \ {c} : UNCHANGED PageOf(d)
    BY <1>0 DEF Unsubscribe, LogInv, TypeOK, PageOf
  <1>2. InvOf(c)'
    BY <1>0, <1>1 DEF InvOf, Cursors, NoHoles, HandedOver, Gapless, Open
  <1>. QED BY <1>1, <1>2, OnePage

LEMMA PageOrdered ==
    ASSUME StreamInv, NEW c \in Clients, PageStep(c)
    PROVE  StreamInv'
  <1>1. LogInv'
    BY PageTyped DEF StreamInv
  <1>. QED BY <1>1, LoadOrdered, SubscribeOrdered, ReachKept, SendBackfillOrdered,
              SendLiveOrdered, UnsubscribeOrdered DEF PageStep, Deliver

LEMMA TakeOverOrdered ==
    ASSUME StreamInv, NEW w \in Writers, TakeOver(w)
    PROVE  StreamInv'
  <1>1. LogInv' /\ NewestPending'
    BY TakeOverStep DEF StreamInv, NewestPending, TakeOver
  <1>2. ASSUME NEW c \in Clients PROVE InvOf(c)'
    <2>1. InvOf(c) /\ UNCHANGED <<log, toPublish, PageOf(c)>>
      BY DEF StreamInv, TakeOver, PageOf, pageVars
    <2>2. Reach(c)' = Reach(c) /\ (Open(c)' <=> Open(c))
      BY <2>1 DEF Reach, Open, PageOf
    <2>. QED BY <2>1, <2>2
             DEF InvOf, Cursors, NoHoles, HandedOver, Gapless, Published, Covered, PageOf
  <1>. QED BY <1>1, <1>2 DEF StreamInv

LEMMA CrashOrdered == StreamInv /\ Crash => StreamInv'
  <1> SUFFICES ASSUME StreamInv, Crash PROVE StreamInv'
    OBVIOUS
  <1>1. LogInv' /\ NewestPending'
    BY CrashStep DEF StreamInv, NewestPending, Crash, Idle
  <1>2. ASSUME NEW c \in Clients PROVE InvOf(c)'
    <2>1. InvOf(c) /\ ~Open(c)' /\ live'[c] = <<>> /\ backfill'[c] = <<>>
      BY DEF StreamInv, LogInv, TypeOK, Crash, Open
    <2>2. stream'[c] # "registered" /\ stream'[c] # "backfill"
      BY <2>1 DEF Open
    <2>. QED BY <2>1, <2>2 DEF Crash, InvOf, Cursors, NoHoles, HandedOver, Gapless
  <1>. QED BY <1>1, <1>2 DEF StreamInv

LEMMA StreamStep == StreamInv /\ [OrderedNext]_vars => StreamInv'
  <1> SUFFICES ASSUME StreamInv, [OrderedNext]_vars PROVE StreamInv'
    OBVIOUS
  <1>1. CASE OtherStep
    BY <1>1, TakeOverOrdered, PageOrdered, CrashOrdered DEF OtherStep
  <1>2. ASSUME NEW w \in Writers, InOrder, CommitAny(w) PROVE StreamInv'
    BY <1>2, CommitOrdered DEF CommitAny
  <1>3. ASSUME NEW w \in Writers, Room(w), Publish(w) PROVE StreamInv'
    BY <1>3, PublishOrdered
  <1>4. CASE UNCHANGED vars
    <2>1. LogInv'
      BY <1>4, LogStep DEF StreamInv
    <2>2. NewestPending'
      BY <1>4 DEF StreamInv, NewestPending, vars, writerVars
    <2>3. \A c \in Clients : InvOf(c)'
      BY <1>4, SamePage DEF StreamInv, vars, pageVars, PageOf
    <2>. QED BY <2>1, <2>2, <2>3 DEF StreamInv
  <1>. QED BY <1>1, <1>2, <1>3, <1>4 DEF OrderedNext

\* SL-4, Subscribe and the page's cursor: when appends are published in the
\* order of their commits and channels have room, no page's cursor ever passes
\* an event the page lacks, through reconnects, failed replays and crashes.
THEOREM NothingSkipped == OrderedSpec => []NoGap
  <1>1. StreamInv => NoGap
    BY DEF StreamInv, InvOf, Gapless, NoGap
  <1>. QED BY <1>1, InitStreams, StreamStep, PTL DEF OrderedSpec

-----------------------------------------------------------------------------
(***************************************************************************)
(* EventLog implements SessionFeed under the same assumptions.              *)
(***************************************************************************)

\* Pages and streams are not ahead of the log.
Behind ==
    \A c \in Clients :
        /\ lastSeq[c] <= Len(log)
        /\ \A i \in 1 .. Len(backfill[c]) : backfill[c][i] <= Len(log)

LEMMA FeedInit == Init => Feed!Init /\ Behind
  BY DEF Init, Feed!Init, Behind

\* What a page takes in is the next event of the feed, or one it has shown.
LEMMA TakeInShows ==
    ASSUME StreamInv, Behind, NEW c \in Clients, NEW e \in Nat, TakeIn(c, e),
           e <= lastSeq[c] + 1, e <= Len(log), UNCHANGED log
    PROVE  /\ [Feed!Next]_(Feed!vars)
           /\ \A d \in Clients : lastSeq'[d] <= Len(log')
  <1>1. lastSeq \in [Clients -> Nat] /\ Len(log) \in Nat
    BY Types DEF StreamInv, LogInv, TypeOK
  <1>2. CASE e <= lastSeq[c]
    BY <1>2 DEF TakeIn, Feed!vars, Behind
  <1>3. CASE ~(e <= lastSeq[c])
    <2>1. lastSeq' = [lastSeq EXCEPT ![c] = lastSeq[c] + 1] /\ lastSeq[c] < Len(log)
      BY <1>1, <1>3 DEF TakeIn
    <2>2. Feed!ShowNext(c)
      BY <2>1 DEF Feed!ShowNext
    <2>. QED BY <1>1, <2>1, <2>2 DEF Feed!Next, Behind
  <1>. QED BY <1>2, <1>3

\* A step adds to the feed, shows a page its next event, opens a page, or is
\* not seen at all.
LEMMA FeedStep ==
    ASSUME StreamInv, Behind, [OrderedNext]_vars
    PROVE  [Feed!Next]_(Feed!vars) /\ Behind'
  <1> DEFINE Goal == [Feed!Next]_(Feed!vars) /\ Behind'
  <1>0. /\ LogInv /\ Len(log) \in Nat /\ log \in Seq(0 .. MaxGen)
        /\ lastSeq \in [Clients -> 0 .. MaxLog] /\ after \in [Clients -> 0 .. MaxLog]
        /\ backfill \in [Clients -> Seqs] /\ live \in [Clients -> Seqs]
        /\ \A c \in Clients : last[c] \in Nat /\ InvOf(c)
    BY Types DEF StreamInv, LogInv, TypeOK, Seqs
  <1>1. ASSUME NEW w \in Writers, NEW n \in 1 .. MaxBatch, NEW underLease \in BOOLEAN,
               NEW times \in 1 .. 2, Commit(w, n, underLease, times)
        PROVE  Goal
    <2> DEFINE g == IF underLease THEN lease[w] ELSE 0
               more == [i \in 1 .. n |-> g]
    <2>1. log' = log \o more /\ UNCHANGED <<lastSeq, backfill>>
      BY <1>1 DEF Commit, pageVars
    <2>2. g \in 0 .. MaxGen /\ more \in Seq(0 .. MaxGen) /\ Len(more) = n
      BY <1>0, EventLogAssumption DEF LogInv, TypeOK
    <2>3. g # 0 => \A i \in DOMAIN log : log[i] <= g
      <3>1. DOMAIN log = 1 .. Len(log)
        BY <1>0
      <3>2. g # 0 => g = gen
        BY <1>1 DEF Commit
      <3>. QED BY <1>0, <3>1, <3>2 DEF LogInv, Within
    <2>4. Len(log') = Len(log) + n
      BY <1>0, <2>1, <2>2, ConcatProperties
    <2>5. Behind'
      BY <1>0, <2>1, <2>4, EventLogAssumption DEF Behind, Seqs
    <2>6. Feed!Add(g, n)
      BY <2>1, <2>3 DEF Feed!Add
    <2> HIDE DEF g, more
    <2>. QED BY <2>2, <2>5, <2>6 DEF Feed!Next
  <1>2. ASSUME UNCHANGED <<log, lastSeq>>,
               \A c \in Clients : backfill'[c] = backfill[c] \/ backfill'[c] = <<>>
        PROVE  Goal
    BY <1>2 DEF Behind, Feed!vars
  <1>3. ASSUME NEW c \in Clients, ReadBackfill(c) PROVE Goal
    <2> DEFINE rows == [i \in 1 .. Len(log) - after[c] |-> after[c] + i]
    <2>1. backfill' = [backfill EXCEPT ![c] = rows] /\ UNCHANGED <<log, lastSeq>>
      BY <1>3 DEF ReadBackfill, writerVars
    <2>2. Len(rows) = Len(log) - after[c]
      BY <1>0 DEF LogInv, Within
    <2>3. \A i \in 1 .. Len(rows) : rows[i] <= Len(log)
      <3>1. after[c] \in Nat /\ Len(log) \in Nat /\ Len(log) - after[c] \in Int
        BY <1>0, Types
      <3>2. Len(rows) \in Int /\ Len(rows) = Len(log) - after[c]
        BY <2>2, <3>1
      <3>3. ASSUME NEW i \in 1 .. Len(rows) PROVE rows[i] = after[c] + i
        BY <3>2, <3>3
      <3> HIDE DEF rows
      <3>. QED BY <3>1, <3>2, <3>3
    <2> HIDE DEF rows
    <2>. QED BY <1>0, <2>1, <2>3 DEF Behind, Feed!vars
  <1>4. ASSUME NEW c \in Clients, NEW ok \in BOOLEAN, LoadPage(c, ok) PROVE Goal
    <2>1. PICK n \in {0, Len(log)} :
            lastSeq' = [lastSeq EXCEPT ![c] = n] /\ UNCHANGED <<log, backfill>>
      BY <1>4 DEF LoadPage, writerVars
    <2>2. Feed!Open(c, n) /\ Behind'
      BY <1>0, <2>1 DEF Feed!Open, Behind
    <2>. QED BY <2>1, <2>2 DEF Feed!Next
  <1>5. ASSUME NEW c \in Clients, SendBackfill(c) PROVE Goal
    <2>1. /\ backfill[c] # <<>> /\ stream[c] = "backfill" /\ UNCHANGED log
          /\ backfill' = [backfill EXCEPT ![c] = Tail(backfill[c])]
          /\ TakeIn(c, Head(backfill[c]))
      BY <1>5 DEF SendBackfill, writerVars
    <2>2. /\ Len(backfill[c]) \in Nat \ {0} /\ Head(backfill[c]) = backfill[c][1]
          /\ Len(Tail(backfill[c])) = Len(backfill[c]) - 1
          /\ \A i \in 1 .. Len(Tail(backfill[c])) : Tail(backfill[c])[i] = backfill[c][i + 1]
      BY <1>0, <2>1, HeadTailProperties, EmptySeq DEF Seqs
    <2>3. 1 \in 1 .. Len(backfill[c])
      BY <2>2
    <2>4. /\ Head(backfill[c]) = last[c] + 1 /\ last[c] <= lastSeq[c]
          /\ Head(backfill[c]) <= Len(log) /\ Head(backfill[c]) \in Nat
      <3>1. /\ last[c] \in Nat /\ lastSeq[c] \in Nat /\ backfill[c][1] \in Nat
        BY <1>0, <2>3, Types
      <3>2. InvOf(c) /\ Open(c)
        BY <1>0, <2>1 DEF Open
      <3>3. backfill[c][1] = last[c] + 1 /\ last[c] <= lastSeq[c]
        BY <2>1, <2>3, <3>2 DEF InvOf, Cursors
      <3>4. backfill[c][1] <= Len(log)
        BY <2>3 DEF Behind
      <3>. QED BY <2>2, <3>1, <3>3, <3>4
    <2>5. [Feed!Next]_(Feed!vars) /\ \A d \in Clients : lastSeq'[d] <= Len(log')
      BY <1>0, <2>1, <2>4, TakeInShows
    <2>6. \A i \in 1 .. Len(Tail(backfill[c])) : Tail(backfill[c])[i] <= Len(log)
      BY <2>2 DEF Behind
    <2>. QED BY <1>0, <2>1, <2>5, <2>6 DEF Behind
  <1>6. ASSUME NEW c \in Clients, SendLive(c) PROVE Goal
    <2>1. /\ live[c] # <<>> /\ stream[c] = "live" /\ UNCHANGED <<log, backfill>>
          /\ IF Head(live[c]) <= last[c] THEN UNCHANGED <<last, lastSeq, seen>>
             ELSE TakeIn(c, Head(live[c]))
      BY <1>6 DEF SendLive, writerVars
    <2>2. /\ Len(live[c]) \in Nat \ {0} /\ Head(live[c]) = live[c][1] /\ live[c][1] \in Nat
      <3>1. live[c] \in Seqs /\ Len(live[c]) \in Nat \ {0}
        BY <1>0, <2>1, Types, EmptySeq DEF Seqs
      <3>2. Head(live[c]) = live[c][1] /\ 1 \in 1 .. Len(live[c])
        BY <2>1, <3>1 DEF Seqs
      <3>. QED BY <1>0, <3>1, <3>2, Types
    <2>3. 1 \in 1 .. Len(live[c]) /\ 1 .. (1 - 1) = {}
      BY <2>2
    <2>4. live[c][1] <= last[c] + 1 /\ last[c] <= lastSeq[c] /\ live[c][1] <= Len(log)
      BY <1>0, <2>1, <2>3 DEF InvOf, Cursors, NoHoles, Open, Reach
    <2>5. CASE Head(live[c]) <= last[c]
      BY <1>2, <2>1, <2>5
    <2>6. CASE ~(Head(live[c]) <= last[c])
      <3>1. [Feed!Next]_(Feed!vars) /\ \A d \in Clients : lastSeq'[d] <= Len(log')
        BY <1>0, <2>1, <2>2, <2>4, <2>6, TakeInShows
      <3>. QED BY <2>1, <3>1 DEF Behind
    <2>. QED BY <2>5, <2>6
  <1>7. ASSUME NEW c \in Clients, Subscribe(c) \/ EndBackfill(c) PROVE Goal
    BY <1>2, <1>7 DEF Subscribe, EndBackfill, writerVars
  <1>8. ASSUME NEW c \in Clients, NEW to \in {"off", "closed"}, Unsubscribe(c, to) PROVE Goal
    <2>1. \A d \in Clients : backfill'[d] = backfill[d] \/ backfill'[d] = <<>>
      BY <1>0, <1>8 DEF Unsubscribe
    <2>. QED BY <1>2, <1>8, <2>1 DEF Unsubscribe, writerVars
  <1>9. ASSUME NEW w \in Writers, TakeOver(w) \/ Publish(w) PROVE Goal
    BY <1>2, <1>9 DEF TakeOver, Publish, pageVars
  <1>10. ASSUME Crash PROVE Goal
    BY <1>2, <1>10 DEF Crash
  <1>11. ASSUME UNCHANGED vars PROVE Goal
    BY <1>2, <1>11 DEF vars, writerVars, pageVars
  <1>. QED
    BY <1>1, <1>3, <1>4, <1>5, <1>6, <1>7, <1>8, <1>9, <1>10, <1>11
    DEF OrderedNext, OtherStep, PageStep, Deliver, CommitAny

\* SL-3, SL-4: with appends published in order and room in the channels, pages see
\* a feed that only grows, to which no superseded holder adds, event by event and
\* each of them once: the log with its streams implements SessionFeed.
THEOREM FeedImplemented == OrderedSpec => FeedKept
  <1> DEFINE Inv == StreamInv /\ Behind
  <1>1. OrderedSpec => []Inv
    BY InitStreams, FeedInit, StreamStep, FeedStep, PTL DEF OrderedSpec
  <1>2. Inv /\ [OrderedNext]_vars => [Feed!Next]_(Feed!vars)
    BY FeedStep
  <1>. QED BY <1>1, <1>2, FeedInit, PTL DEF OrderedSpec, FeedKept, Feed!Spec
=============================================================================
