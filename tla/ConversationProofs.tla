------------------------- MODULE ConversationProofs -------------------------
(* Theorems about Conversation, for any number of runs, turns, calls,       *)
(* devices and requests.  The operators on messages come first: what each   *)
(* event does to the pending calls and to the pairing of calls and results. *)
EXTENDS Conversation, SequenceTheorems, TLAPS

-----------------------------------------------------------------------------
\* The messages behind s, with m added.
LEMMA Appending ==
    ASSUME NEW s \in Seq(Messages), NEW m \in Messages
    PROVE  /\ Append(s, m) \in Seq(Messages)
           /\ Len(Append(s, m)) = Len(s) + 1 /\ Len(s) \in Nat
           /\ DOMAIN s = 1 .. Len(s) /\ DOMAIN Append(s, m) = 1 .. (Len(s) + 1)
           /\ \A i \in 1 .. Len(s) : Append(s, m)[i] = s[i] /\ s[i] \in Messages
           /\ Append(s, m)[Len(s) + 1] = m
OBVIOUS

LEMMA MessageTypes ==
    /\ Text \in Messages
    /\ \A C \in SUBSET Calls : Turn(C) \in Messages /\ Results(C) \in Messages
    /\ \A m \in Messages : /\ m.kind \in {"text", "turn", "results"} /\ m.calls \subseteq Calls
                           /\ m.kind = "text" => m.calls = {}
                           /\ m.kind = "results" => m = Results(m.calls)
BY DEF Messages, Text, Turn, Results

LEMMA LastOrBefore == \A n \in Nat : \A i \in 1 .. n : i = n \/ i < n
OBVIOUS

LEMMA Replacing ==
    ASSUME NEW s \in Seq(Messages), NEW i \in 1 .. Len(s), NEW m \in Messages,
           NEW t, t = [s EXCEPT ![i] = m]
    PROVE  /\ t \in Seq(Messages) /\ Len(t) = Len(s) /\ DOMAIN t = 1 .. Len(s)
           /\ t[i] = m /\ \A j \in 1 .. Len(s) : j # i => t[j] = s[j]
<1>1. /\ [s EXCEPT ![i] = m] \in Seq(Messages)
      /\ Len([s EXCEPT ![i] = m]) = Len(s)
      /\ \A j \in 1 .. Len(s) : [s EXCEPT ![i] = m][j] = IF j = i THEN m ELSE s[j]
  BY ExceptSeq
<1>2. t \in Seq(Messages) /\ Len(t) = Len(s) /\ \A j \in 1 .. Len(s) : t[j] = IF j = i THEN m ELSE s[j]
  BY <1>1, Zenon
<1> QED BY <1>2

\* The calls of the last turn.
LastCalls(msgs) ==
    {c \in Calls : \E i \in DOMAIN msgs :
        /\ msgs[i].kind = "turn" /\ c \in msgs[i].calls
        /\ \A j \in DOMAIN msgs : j > i => msgs[j].kind # "turn"}

LEMMA AppendText ==
    ASSUME NEW s \in Seq(Messages)
    PROVE  PendingTools(Append(s, Text)) = PendingTools(s) /\ LastCalls(Append(s, Text)) = LastCalls(s)
<1> DEFINE t == Append(s, Text)
<1>1. /\ DOMAIN s = 1 .. Len(s) /\ DOMAIN t = 1 .. (Len(s) + 1) /\ Len(s) \in Nat
      /\ \A i \in 1 .. Len(s) : t[i] = s[i]
      /\ t[Len(s) + 1].kind = "text" /\ t[Len(s) + 1].calls = {}
  BY Appending, MessageTypes DEF Text
<1> HIDE DEF t
<1>2. PendingTools(t) = PendingTools(s)
  BY <1>1 DEF PendingTools
<1>3. LastCalls(t) = LastCalls(s)
  BY <1>1 DEF LastCalls
<1> QED BY <1>2, <1>3 DEF t

LEMMA AppendTurn ==
    ASSUME NEW s \in Seq(Messages), NEW C \in SUBSET Calls
    PROVE  PendingTools(Append(s, Turn(C))) = C /\ LastCalls(Append(s, Turn(C))) = C
<1> DEFINE t == Append(s, Turn(C))
<1>1. /\ DOMAIN s = 1 .. Len(s) /\ DOMAIN t = 1 .. (Len(s) + 1) /\ Len(s) \in Nat
      /\ \A i \in 1 .. Len(s) : t[i] = s[i]
      /\ t[Len(s) + 1].kind = "turn" /\ t[Len(s) + 1].calls = C
  BY Appending, MessageTypes DEF Turn
<1> HIDE DEF t
<1>2. PendingTools(t) = C
  BY <1>1 DEF PendingTools
<1>3. LastCalls(t) = C
  BY <1>1 DEF LastCalls
<1> QED BY <1>2, <1>3 DEF t

LEMMA AppendResults ==
    ASSUME NEW s \in Seq(Messages), NEW R \in SUBSET Calls
    PROVE  /\ PendingTools(Append(s, Results(R))) = PendingTools(s) \ R
           /\ LastCalls(Append(s, Results(R))) = LastCalls(s)
<1> DEFINE t == Append(s, Results(R))
<1>1. /\ DOMAIN s = 1 .. Len(s) /\ DOMAIN t = 1 .. (Len(s) + 1) /\ Len(s) \in Nat
      /\ \A i \in 1 .. Len(s) : t[i] = s[i]
      /\ t[Len(s) + 1].kind = "results" /\ t[Len(s) + 1].calls = R
  BY Appending, MessageTypes DEF Results
<1> HIDE DEF t
<1>2. PendingTools(t) = PendingTools(s) \ R
  BY <1>1 DEF PendingTools
<1>3. LastCalls(t) = LastCalls(s)
  BY <1>1 DEF LastCalls
<1> QED BY <1>2, <1>3 DEF t

-----------------------------------------------------------------------------
\* The log and the memory as messages.

LEMMA RebuiltMessages ==
    ASSUME NEW l \in Logs
    PROVE  Rebuilt(l) \in Seq(Messages)
BY MessageTypes, Appending DEF Rebuilt, Logs

LEMMA MessageAdded ==
    ASSUME NEW l \in Logs, NEW m \in Messages
    PROVE  AddMessage(l, m) \in Logs /\ Rebuilt(AddMessage(l, m)) = Append(Rebuilt(l), m)
<1>1. Rebuilt(l) \in Seq(Messages)
  BY RebuiltMessages
<1>2. Append(Rebuilt(l), m) \in Seq(Messages)
  BY <1>1, Appending
<1> QED BY <1>1, <1>2 DEF AddMessage, Rebuilt, Logs

LEMMA ResultsAdded ==
    ASSUME NEW l \in Logs, NEW R \in SUBSET Calls
    PROVE  /\ AddResults(l, R) \in Logs
           /\ PendingTools(Rebuilt(AddResults(l, R))) = PendingTools(Rebuilt(l)) \ R
           /\ LastCalls(Rebuilt(AddResults(l, R))) = LastCalls(Rebuilt(l))
<1> DEFINE X == l.results
           n == AddResults(l, R)
<1>1. l.msgs \in Seq(Messages) /\ X \in SUBSET Calls /\ X \cup R \in SUBSET Calls
  BY DEF Logs
<1>2. n \in Logs /\ n.msgs = l.msgs /\ n.results = X \cup R
  BY DEF AddResults, Logs
<1>3. /\ PendingTools(Rebuilt(l)) = PendingTools(l.msgs) \ X
      /\ LastCalls(Rebuilt(l)) = LastCalls(l.msgs)
  BY <1>1, AppendResults DEF Rebuilt
<1>4. /\ PendingTools(Rebuilt(n)) = PendingTools(l.msgs) \ (X \cup R)
      /\ LastCalls(Rebuilt(n)) = LastCalls(l.msgs)
  BY <1>1, <1>2, AppendResults DEF Rebuilt
<1> QED BY <1>2, <1>3, <1>4

LEMMA ResultsKept ==
    ASSUME NEW s \in Seq(Messages), NEW R \in SUBSET Calls
    PROVE  /\ AppendToolResults(s, R) \in Seq(Messages)
           /\ PendingTools(AppendToolResults(s, R)) = PendingTools(s) \ R
           /\ LastCalls(AppendToolResults(s, R)) = LastCalls(s)
<1> DEFINE n == Len(s)
           m == Results(s[n].calls \cup R)
           t == [s EXCEPT ![n] = m]
<1>1. ASSUME s # <<>>, s[n].kind = "results"
      PROVE  t \in Seq(Messages) /\ PendingTools(t) = PendingTools(s) \ R /\ LastCalls(t) = LastCalls(s)
  <2>1. n \in Nat \ {0} /\ DOMAIN s = 1 .. n /\ \A i \in 1 .. n : s[i] \in Messages
    BY <1>1
  <2>2. s[n].calls \cup R \in SUBSET Calls
    BY <2>1, MessageTypes
  <2>3. m \in Messages /\ m.kind = "results" /\ m.calls = s[n].calls \cup R
    BY <2>2, MessageTypes DEF Results
  <2>8. t = [s EXCEPT ![n] = m] /\ n \in 1 .. Len(s)
    BY <2>1
  <2> HIDE DEF m, t
  <2>4. /\ t \in Seq(Messages) /\ DOMAIN t = 1 .. n /\ t[n] = m
        /\ \A i \in 1 .. n : i # n => t[i] = s[i]
    BY <2>8, <2>3, Replacing
  <2>7. /\ t[n].kind = "results" /\ t[n].calls = s[n].calls \cup R
        /\ \A i \in 1 .. n : t[i].kind = s[i].kind
        /\ \A i \in 1 .. n : s[i].calls \subseteq t[i].calls
        /\ \A i \in 1 .. n : s[i].kind = "turn" => t[i].calls = s[i].calls
    BY <1>1, <2>1, <2>3, <2>4
  <2>5. PendingTools(t) = PendingTools(s) \ R
    <3>1. ASSUME NEW c \in PendingTools(t) PROVE c \in PendingTools(s) \ R
      <4>1. PICK i \in 1 .. n : /\ t[i].kind = "turn" /\ c \in t[i].calls
                               /\ \A j \in 1 .. n : j > i => t[j].kind # "turn" /\ c \notin t[j].calls
        BY <2>4 DEF PendingTools
      <4>2. n > i /\ c \notin s[n].calls \cup R
        BY <1>1, <2>1, <2>7, <4>1
      <4>3. /\ s[i].kind = "turn" /\ c \in s[i].calls
            /\ \A j \in 1 .. n : j > i => s[j].kind # "turn" /\ c \notin s[j].calls
        BY <2>1, <2>7, <4>1
      <4> QED BY <2>1, <4>2, <4>3 DEF PendingTools
    <3>2. ASSUME NEW c \in PendingTools(s), c \notin R PROVE c \in PendingTools(t)
      <4>1. PICK i \in 1 .. n : /\ s[i].kind = "turn" /\ c \in s[i].calls
                               /\ \A j \in 1 .. n : j > i => s[j].kind # "turn" /\ c \notin s[j].calls
        BY <2>1 DEF PendingTools
      <4>2. \A j \in 1 .. n : j > i => t[j].kind # "turn" /\ c \notin t[j].calls
        BY <2>1, <2>4, <2>7, <3>2, <4>1
      <4> QED BY <2>4, <2>7, <4>1, <4>2 DEF PendingTools
    <3> QED BY <3>1, <3>2
  <2>9. /\ DOMAIN t = DOMAIN s /\ \A i \in DOMAIN s : t[i].kind = s[i].kind
        /\ \A i \in DOMAIN s : s[i].kind = "turn" => t[i].calls = s[i].calls
    BY <2>1, <2>4, <2>7
  <2>6. LastCalls(t) = LastCalls(s)
    BY <2>9 DEF LastCalls
  <2> QED BY <2>4, <2>5, <2>6
<1>2. Append(s, Results(R)) \in Seq(Messages)
  BY MessageTypes, Appending
<1> QED BY <1>1, <1>2, AppendResults DEF AppendToolResults

\* What is added in memory is what is added to the log, as long as a message of
\* results in the log is the one that still waits.
LEMMA SameResults ==
    ASSUME NEW l \in Logs, NEW R \in SUBSET Calls, R # {},
           l.msgs # <<>> => l.msgs[Len(l.msgs)].kind # "results"
    PROVE  AppendToolResults(Rebuilt(l), R) = Rebuilt(AddResults(l, R))
<1> DEFINE s == l.msgs
           n == Len(s)
           X == l.results
<1>1. s \in Seq(Messages) /\ X \in SUBSET Calls /\ X \cup R \in SUBSET Calls /\ X \cup R # {}
  BY DEF Logs
<1>2. Rebuilt(AddResults(l, R)) = Append(s, Results(X \cup R))
  BY <1>1 DEF Rebuilt, AddResults, Logs
<1>3. CASE X = {}
  BY <1>1, <1>2, <1>3 DEF Rebuilt, AppendToolResults
<1>4. CASE X # {}
  <2> DEFINE t == Append(s, Results(X))
             m == Results(t[Len(t)].calls \cup R)
             u == [t EXCEPT ![Len(t)] = m]
             v == Append(s, Results(X \cup R))
  <2>1. /\ t \in Seq(Messages) /\ Len(t) = n + 1 /\ n \in Nat /\ t[n + 1] = Results(X)
        /\ \A i \in 1 .. n : t[i] = s[i]
    BY <1>1, Appending, MessageTypes
  <2>2. /\ Len(v) = n + 1 /\ \A i \in 1 .. n : v[i] = s[i]
        /\ v[n + 1] = Results(X \cup R) /\ v \in Seq(Messages)
    BY <1>1, Appending, MessageTypes
  <2>3. AppendToolResults(Rebuilt(l), R) = u
    <3>1. Rebuilt(l) = t
      BY <1>4 DEF Rebuilt
    <3>2. Len(t) # 0 /\ t[Len(t)].kind = "results"
      BY <2>1 DEF Results
    <3> HIDE DEF t
    <3>3. t # <<>>
      BY <3>2
    <3>4. AppendToolResults(t, R) = u
      BY <3>2, <3>3, Zenon DEF AppendToolResults
    <3> QED BY <3>1, <3>4
  <2>4. m = Results(X \cup R) /\ m \in Messages
    <3>1. t[Len(t)].calls = X
      BY <2>1 DEF Results
    <3> HIDE DEF t
    <3> QED BY <1>1, <3>1, MessageTypes
  <2>8. u = [t EXCEPT ![Len(t)] = m] /\ Len(t) \in 1 .. Len(t)
    BY <2>1
  <2> HIDE DEF m, t, u, v
  <2>5. /\ u \in Seq(Messages) /\ Len(u) = n + 1 /\ u[n + 1] = m
        /\ \A i \in 1 .. (n + 1) : i # n + 1 => u[i] = t[i]
    BY <2>1, <2>4, <2>8, Replacing
  <2>6. \A i \in 1 .. (n + 1) : u[i] = v[i]
    BY <2>1, <2>2, <2>4, <2>5
  <2>7. u = v
    BY <2>2, <2>5, <2>6, SeqEqual
  <2> QED BY <1>2, <2>3, <2>7 DEF v
<1> QED BY <1>3, <1>4

-----------------------------------------------------------------------------
\* No call of an earlier turn is left without a result.

LEMMA AnsweredPrefix ==
    ASSUME NEW s \in Seq(Messages), NEW m \in Messages, AllAnswered(Append(s, m))
    PROVE  AllAnswered(s)
<1> DEFINE t == Append(s, m)
<1>1. /\ DOMAIN s = 1 .. Len(s) /\ DOMAIN t = 1 .. (Len(s) + 1) /\ Len(s) \in Nat
      /\ \A i \in 1 .. Len(s) : t[i] = s[i]
  BY Appending
<1>2. AllAnswered(t)
  OBVIOUS
<1> HIDE DEF t
<1> SUFFICES ASSUME NEW i \in 1 .. Len(s), NEW k \in 1 .. Len(s), i < k,
                    s[i].kind = "turn", s[k].kind = "turn", NEW c \in s[i].calls
             PROVE  \E j \in 1 .. Len(s) :
                        i < j /\ j < k /\ s[j].kind = "results" /\ c \in s[j].calls
  BY <1>1 DEF AllAnswered
<1>3. PICK j \in 1 .. (Len(s) + 1) :
        i < j /\ j < k /\ t[j].kind = "results" /\ c \in t[j].calls
  BY <1>1, <1>2 DEF AllAnswered
<1>4. j \in 1 .. Len(s)
  BY <1>1, <1>3
<1> QED BY <1>1, <1>3, <1>4

LEMMA AnsweredAppend ==
    ASSUME NEW s \in Seq(Messages), NEW m \in Messages, AllAnswered(s), m.kind # "turn"
    PROVE  AllAnswered(Append(s, m))
<1> DEFINE t == Append(s, m)
<1>1. /\ DOMAIN s = 1 .. Len(s) /\ DOMAIN t = 1 .. (Len(s) + 1) /\ Len(s) \in Nat
      /\ \A i \in 1 .. Len(s) : t[i] = s[i]
      /\ t[Len(s) + 1].kind # "turn"
  BY Appending
<1> HIDE DEF t
<1> SUFFICES ASSUME NEW i \in 1 .. (Len(s) + 1), NEW k \in 1 .. (Len(s) + 1), i < k,
                    t[i].kind = "turn", t[k].kind = "turn", NEW c \in t[i].calls
             PROVE  \E j \in 1 .. (Len(s) + 1) :
                        i < j /\ j < k /\ t[j].kind = "results" /\ c \in t[j].calls
  BY <1>1 DEF AllAnswered, t
<1>2. i \in 1 .. Len(s) /\ k \in 1 .. Len(s)
  BY <1>1
<1>3. PICK j \in 1 .. Len(s) :
        i < j /\ j < k /\ s[j].kind = "results" /\ c \in s[j].calls
  BY <1>1, <1>2 DEF AllAnswered
<1> QED BY <1>1, <1>3

\* A turn is taken when nothing is pending, and then the one before is answered.
LEMMA AnsweredTurn ==
    ASSUME NEW s \in Seq(Messages), NEW C \in SUBSET Calls,
           AllAnswered(s), PendingTools(s) = {}
    PROVE  AllAnswered(Append(s, Turn(C)))
<1> DEFINE t == Append(s, Turn(C))
<1>1. /\ DOMAIN s = 1 .. Len(s) /\ DOMAIN t = 1 .. (Len(s) + 1) /\ Len(s) \in Nat
      /\ \A i \in 1 .. Len(s) : t[i] = s[i] /\ s[i] \in Messages
  BY Appending, MessageTypes
<1> HIDE DEF t
<1> SUFFICES ASSUME NEW i \in 1 .. (Len(s) + 1), NEW k \in 1 .. (Len(s) + 1), i < k,
                    t[i].kind = "turn", t[k].kind = "turn", NEW c \in t[i].calls
             PROVE  \E j \in 1 .. (Len(s) + 1) :
                        i < j /\ j < k /\ t[j].kind = "results" /\ c \in t[j].calls
  BY <1>1 DEF AllAnswered, t
<1>2. i \in 1 .. Len(s) /\ s[i].kind = "turn" /\ c \in s[i].calls /\ c \in Calls
  BY <1>1, MessageTypes
<1>3. CASE \E h \in 1 .. Len(s) : i < h /\ h <= k /\ s[h].kind = "turn"
  <2>1. PICK h \in 1 .. Len(s) : i < h /\ h <= k /\ s[h].kind = "turn"
    BY <1>3
  <2>2. PICK j \in 1 .. Len(s) :
          i < j /\ j < h /\ s[j].kind = "results" /\ c \in s[j].calls
    BY <1>1, <1>2, <2>1 DEF AllAnswered
  <2>3. j < k /\ j \in 1 .. (Len(s) + 1)
    BY <1>1, <2>1, <2>2
  <2> QED BY <1>1, <2>2, <2>3
<1>4. CASE \A h \in 1 .. Len(s) : i < h /\ h <= k => s[h].kind # "turn"
  <2>1. k = Len(s) + 1
    BY <1>1, <1>4
  <2>2. c \notin PendingTools(s)
    OBVIOUS
  <2>3. PICK j \in 1 .. Len(s) : j > i /\ c \in s[j].calls
    BY <1>1, <1>2, <1>4, <2>1, <2>2 DEF PendingTools
  <2>4. s[j].kind = "results"
    BY <1>1, <1>4, <2>1, <2>3, MessageTypes
  <2> QED BY <1>1, <2>1, <2>3, <2>4
<1> QED BY <1>3, <1>4

LEMMA AnsweredResults ==
    ASSUME NEW l \in Logs, NEW R \in SUBSET Calls, AllAnswered(Rebuilt(l))
    PROVE  AllAnswered(Rebuilt(AddResults(l, R)))
<1> DEFINE X == l.results
           n == AddResults(l, R)
<1>1. l.msgs \in Seq(Messages) /\ X \in SUBSET Calls /\ X \cup R \in SUBSET Calls
  BY DEF Logs
<1>2. n.msgs = l.msgs /\ n.results = X \cup R
  BY DEF AddResults, Logs
<1>3. AllAnswered(l.msgs)
  BY <1>1, MessageTypes, AnsweredPrefix DEF Rebuilt
<1>4. Results(X \cup R) \in Messages /\ Results(X \cup R).kind # "turn"
  BY <1>1, MessageTypes DEF Results
<1>5. AllAnswered(Append(l.msgs, Results(X \cup R)))
  BY <1>1, <1>3, <1>4, AnsweredAppend
<1> QED BY <1>2, <1>3, <1>5 DEF Rebuilt

-----------------------------------------------------------------------------
\* Calls and results are paired, but for the last turn, whose results may still
\* be missing or incomplete.
PairedSoFar(msgs) ==
    \A i \in DOMAIN msgs :
        /\ msgs[i].kind = "turn" /\ msgs[i].calls # {} /\ i < Len(msgs) =>
                /\ msgs[i + 1].kind = "results"
                /\ i + 1 < Len(msgs) => msgs[i + 1].calls = msgs[i].calls
        /\ msgs[i].kind = "results" =>
                i > 1 /\ msgs[i - 1].kind = "turn" /\ msgs[i].calls \subseteq msgs[i - 1].calls

\* When nothing is pending the last turn is paired too.
LEMMA LastPaired ==
    ASSUME NEW s \in Seq(Messages), PairedSoFar(s), PendingTools(s) = {},
           NEW i \in 1 .. Len(s), s[i].kind = "turn", s[i].calls # {}
    PROVE  i < Len(s) /\ s[i + 1].kind = "results" /\ s[i + 1].calls = s[i].calls
<1>1. DOMAIN s = 1 .. Len(s) /\ Len(s) \in Nat /\ \A k \in 1 .. Len(s) : s[k] \in Messages
  OBVIOUS
<1>2. i < Len(s)
  <2>1. SUFFICES ASSUME i = Len(s) PROVE FALSE
    <3>1. Len(s) \in Nat
      OBVIOUS
    <3> QED BY <3>1
  <2>2. PICK c \in s[i].calls : TRUE
    OBVIOUS
  <2>3. c \in Calls
    BY <1>1, <2>2, MessageTypes
  <2>4. c \in PendingTools(s)
    BY <1>1, <2>1, <2>2, <2>3 DEF PendingTools
  <2> QED BY <2>4
<1>3. s[i + 1].kind = "results" /\ (i + 1 < Len(s) => s[i + 1].calls = s[i].calls)
  BY <1>1, <1>2 DEF PairedSoFar
<1>4. i + 1 \in 1 .. Len(s) /\ s[i + 1].calls \subseteq s[i].calls
  <2>1. i + 1 \in 1 .. Len(s) /\ (i + 1) - 1 = i
    BY <1>1, <1>2
  <2> QED BY <1>1, <1>3, <2>1 DEF PairedSoFar
<1>5. CASE i + 1 = Len(s)
  <2>1. SUFFICES ASSUME NEW c \in s[i].calls, c \notin s[i + 1].calls PROVE FALSE
    BY <1>2, <1>3, <1>4
  <2>2. c \in Calls
    BY <1>1, MessageTypes
  <2>3. \A j \in 1 .. Len(s) : j > i => j = i + 1
    BY <1>1, <1>5
  <2>4. c \in PendingTools(s)
    BY <1>1, <1>3, <2>1, <2>2, <2>3 DEF PendingTools
  <2> QED BY <2>4
<1>6. i + 1 = Len(s) \/ i + 1 < Len(s)
  BY <1>1, <1>4, LastOrBefore, Zenon
<1> QED BY <1>2, <1>3, <1>5, <1>6

LEMMA PairedWell ==
    ASSUME NEW s \in Seq(Messages), PairedSoFar(s), PendingTools(s) = {}
    PROVE  WellPaired(s)
<1>1. DOMAIN s = 1 .. Len(s) /\ Len(s) \in Nat /\ \A k \in 1 .. Len(s) : s[k] \in Messages
  OBVIOUS
<1> SUFFICES ASSUME NEW i \in 1 .. Len(s)
             PROVE  /\ s[i].kind = "turn" /\ s[i].calls # {} =>
                            i < Len(s) /\ s[i + 1] = Results(s[i].calls)
                    /\ s[i].kind = "results" => i > 1 /\ s[i - 1].kind = "turn"
  BY <1>1 DEF WellPaired
<1>2. ASSUME s[i].kind = "turn", s[i].calls # {}
      PROVE  i < Len(s) /\ s[i + 1] = Results(s[i].calls)
  <2>1. i < Len(s) /\ s[i + 1].kind = "results" /\ s[i + 1].calls = s[i].calls
    BY <1>2, LastPaired
  <2>2. s[i + 1] \in Messages
    BY <1>1, <2>1
  <2> QED BY <2>1, <2>2, MessageTypes
<1>3. s[i].kind = "results" => i > 1 /\ s[i - 1].kind = "turn"
  BY <1>1 DEF PairedSoFar
<1> QED BY <1>2, <1>3

\* A text or a turn behind paired messages.
LEMMA PairedMessage ==
    ASSUME NEW s \in Seq(Messages), NEW m \in Messages, m.kind # "results",
           PairedSoFar(s), PendingTools(s) = {}
    PROVE  PairedSoFar(Append(s, m))
<1> DEFINE t == Append(s, m)
<1>1. /\ DOMAIN s = 1 .. Len(s) /\ DOMAIN t = 1 .. (Len(s) + 1) /\ Len(s) \in Nat
      /\ Len(t) = Len(s) + 1 /\ \A i \in 1 .. Len(s) : t[i] = s[i]
      /\ t[Len(s) + 1].kind # "results"
  BY Appending
<1> HIDE DEF t
<1>2. ASSUME NEW i \in 1 .. (Len(s) + 1)
      PROVE  /\ t[i].kind = "turn" /\ t[i].calls # {} /\ i < Len(t) =>
                    /\ t[i + 1].kind = "results"
                    /\ i + 1 < Len(t) => t[i + 1].calls = t[i].calls
             /\ t[i].kind = "results" =>
                    i > 1 /\ t[i - 1].kind = "turn" /\ t[i].calls \subseteq t[i - 1].calls
  <2>1. ASSUME t[i].kind = "turn", t[i].calls # {}, i < Len(t)
        PROVE  t[i + 1].kind = "results" /\ t[i + 1].calls = t[i].calls
    <3>1. i \in 1 .. Len(s) /\ s[i].kind = "turn" /\ s[i].calls # {}
      BY <1>1, <2>1
    <3>2. i < Len(s) /\ s[i + 1].kind = "results" /\ s[i + 1].calls = s[i].calls
      BY <3>1, LastPaired
    <3> QED BY <1>1, <3>1, <3>2
  <2>2. ASSUME t[i].kind = "results"
        PROVE  i > 1 /\ t[i - 1].kind = "turn" /\ t[i].calls \subseteq t[i - 1].calls
    <3>1. i \in 1 .. Len(s) /\ s[i].kind = "results"
      BY <1>1, <2>2
    <3>2. i > 1 /\ s[i - 1].kind = "turn" /\ s[i].calls \subseteq s[i - 1].calls
      BY <1>1, <3>1 DEF PairedSoFar
    <3>3. i - 1 \in 1 .. Len(s)
      BY <1>1, <3>1, <3>2
    <3> QED BY <1>1, <3>1, <3>2, <3>3
  <2> QED BY <2>1, <2>2
<1> QED BY <1>1, <1>2 DEF PairedSoFar, t

\* Results behind a turn whose calls they answer.
LEMMA PairedBehindTurn ==
    ASSUME NEW s \in Seq(Messages), NEW R \in SUBSET Calls, PairedSoFar(s),
           s # <<>>, s[Len(s)].kind = "turn", R \subseteq s[Len(s)].calls
    PROVE  PairedSoFar(Append(s, Results(R)))
<1> DEFINE t == Append(s, Results(R))
           n == Len(s)
<1>1. /\ DOMAIN s = 1 .. n /\ DOMAIN t = 1 .. (n + 1) /\ n \in Nat \ {0}
      /\ Len(t) = n + 1 /\ \A i \in 1 .. n : t[i] = s[i]
      /\ t[n + 1].kind = "results" /\ t[n + 1].calls = R
  BY Appending, MessageTypes DEF Results
<1> HIDE DEF t
<1>2. ASSUME NEW i \in 1 .. (n + 1)
      PROVE  /\ t[i].kind = "turn" /\ t[i].calls # {} /\ i < n + 1 =>
                    /\ t[i + 1].kind = "results"
                    /\ i + 1 < n + 1 => t[i + 1].calls = t[i].calls
             /\ t[i].kind = "results" =>
                    i > 1 /\ t[i - 1].kind = "turn" /\ t[i].calls \subseteq t[i - 1].calls
  <2>1. CASE i = n + 1
    <3>1. (n + 1) - 1 = n /\ t[n] = s[n]
      BY <1>1
    <3> QED BY <1>1, <2>1, <3>1
  <2>2. CASE i = n
    <3>1. s[n].kind # "results" /\ t[n] = s[n]
      BY <1>1
    <3> QED BY <1>1, <2>2, <3>1
  <2>3. CASE i < n
    <3>1. i \in 1 .. n /\ i + 1 \in 1 .. n /\ t[i] = s[i] /\ t[i + 1] = s[i + 1]
      BY <1>1, <2>3
    <3>2. /\ s[i].kind = "turn" /\ s[i].calls # {} =>
                /\ s[i + 1].kind = "results"
                /\ i + 1 < n => s[i + 1].calls = s[i].calls
          /\ s[i].kind = "results" =>
                i > 1 /\ s[i - 1].kind = "turn" /\ s[i].calls \subseteq s[i - 1].calls
      BY <1>1, <2>3, <3>1 DEF PairedSoFar
    <3>3. i + 1 = n => s[i + 1].kind # "results"
      OBVIOUS
    <3>4. ASSUME s[i].kind = "results" PROVE t[i - 1] = s[i - 1]
      <4>1. i > 1
        BY <3>2, <3>4
      <4>2. i - 1 \in 1 .. n
        BY <1>1, <2>3, <4>1
      <4> QED BY <1>1, <4>2
    <3>5. i + 1 < n \/ i + 1 = n
      BY <1>1, <3>1, LastOrBefore, Zenon
    <3>6. ASSUME s[i].kind = "turn", s[i].calls # {}
          PROVE  s[i + 1].kind = "results" /\ s[i + 1].calls = s[i].calls
      BY <3>2, <3>3, <3>5, <3>6
    <3> QED BY <3>1, <3>2, <3>4, <3>6
  <2>4. i = n + 1 \/ i \in 1 .. n
    BY <1>1
  <2>5. i \in 1 .. n => i = n \/ i < n
    BY <1>1, LastOrBefore, Zenon
  <2> QED BY <2>1, <2>2, <2>3, <2>4, <2>5
<1> QED BY <1>1, <1>2 DEF PairedSoFar, t

LEMMA PairedPrefix ==
    ASSUME NEW s \in Seq(Messages), NEW m \in Messages, PairedSoFar(Append(s, m))
    PROVE  PairedSoFar(s)
<1> DEFINE t == Append(s, m)
           n == Len(s)
<1>1. /\ DOMAIN s = 1 .. n /\ DOMAIN t = 1 .. (n + 1) /\ n \in Nat
      /\ Len(t) = n + 1 /\ \A i \in 1 .. n : t[i] = s[i]
  BY Appending
<1>2. PairedSoFar(t)
  OBVIOUS
<1> HIDE DEF t
<1>3. ASSUME NEW i \in 1 .. n
      PROVE  /\ s[i].kind = "turn" /\ s[i].calls # {} /\ i < n =>
                    /\ s[i + 1].kind = "results"
                    /\ i + 1 < n => s[i + 1].calls = s[i].calls
             /\ s[i].kind = "results" =>
                    i > 1 /\ s[i - 1].kind = "turn" /\ s[i].calls \subseteq s[i - 1].calls
  <2>1. /\ s[i].kind = "turn" /\ s[i].calls # {} /\ i < n + 1 =>
              /\ t[i + 1].kind = "results"
              /\ i + 1 < n + 1 => t[i + 1].calls = s[i].calls
        /\ s[i].kind = "results" =>
              i > 1 /\ t[i - 1].kind = "turn" /\ s[i].calls \subseteq t[i - 1].calls
    <3>1. i \in 1 .. (n + 1) /\ t[i] = s[i]
      BY <1>1
    <3> QED BY <1>1, <1>2, <3>1 DEF PairedSoFar
  <2>2. ASSUME s[i].kind = "results" PROVE t[i - 1] = s[i - 1]
    <3>1. i - 1 \in 1 .. n
      BY <1>1, <2>1, <2>2
    <3> QED BY <1>1, <3>1
  <2>3. ASSUME i < n PROVE t[i + 1] = s[i + 1] /\ i < n + 1 /\ i + 1 < n + 1
    <3>1. i + 1 \in 1 .. n
      BY <1>1, <2>3
    <3> QED BY <1>1, <2>3, <3>1
  <2> QED BY <2>1, <2>2, <2>3
<1> QED BY <1>1, <1>3 DEF PairedSoFar

LEMMA PendingOfLastTurn ==
    ASSUME NEW s \in Seq(Messages), s # <<>>, s[Len(s)].kind = "turn"
    PROVE  PendingTools(s) \subseteq s[Len(s)].calls
<1>1. DOMAIN s = 1 .. Len(s) /\ Len(s) \in Nat /\ Len(s) \in 1 .. Len(s)
  OBVIOUS
<1> SUFFICES ASSUME NEW c \in PendingTools(s) PROVE c \in s[Len(s)].calls
  OBVIOUS
<1>2. PICK i \in 1 .. Len(s) : /\ c \in s[i].calls
                              /\ \A j \in 1 .. Len(s) : j > i => s[j].kind # "turn"
  BY <1>1 DEF PendingTools
<1>3. i = Len(s) \/ i < Len(s)
  BY <1>1, LastOrBefore, Zenon
<1> QED BY <1>1, <1>2, <1>3

\* Paired messages that do not end with results have pending calls only when
\* they end with a turn.
LEMMA PendingBehindTurn ==
    ASSUME NEW s \in Seq(Messages), PairedSoFar(s), PendingTools(s) # {},
           s # <<>> => s[Len(s)].kind # "results"
    PROVE  s # <<>> /\ s[Len(s)].kind = "turn"
<1>1. DOMAIN s = 1 .. Len(s) /\ Len(s) \in Nat
  OBVIOUS
<1>2. PICK c \in PendingTools(s) : TRUE
  OBVIOUS
<1>3. PICK i \in 1 .. Len(s) :
         /\ s[i].kind = "turn" /\ c \in s[i].calls
         /\ \A j \in 1 .. Len(s) : j > i => s[j].kind # "turn" /\ c \notin s[j].calls
  BY <1>1, <1>2 DEF PendingTools
<1>4. i = Len(s) \/ i < Len(s)
  BY <1>1, LastOrBefore, Zenon
<1>5. ASSUME i < Len(s) PROVE FALSE
  <2>1. s[i].calls # {} /\ s # <<>> /\ i + 1 \in 1 .. Len(s) /\ i + 1 > i
    BY <1>1, <1>3, <1>5
  <2>2. s[i + 1].kind = "results" /\ (i + 1 < Len(s) => s[i + 1].calls = s[i].calls)
    BY <1>1, <1>3, <1>5, <2>1 DEF PairedSoFar
  <2>3. i + 1 = Len(s) \/ i + 1 < Len(s)
    BY <1>1, <2>1, LastOrBefore, Zenon
  <2>4. c \notin s[i + 1].calls
    BY <1>3, <2>1
  <2> QED BY <1>3, <2>1, <2>2, <2>3, <2>4
<1>6. s # <<>>
  BY <1>1
<1> QED BY <1>3, <1>4, <1>5, <1>6

LEMMA PairedResults ==
    ASSUME NEW l \in Logs, NEW R \in SUBSET Calls, R # {},
           l.msgs # <<>> => l.msgs[Len(l.msgs)].kind # "results",
           PairedSoFar(Rebuilt(l)), R \subseteq PendingTools(Rebuilt(l))
    PROVE  PairedSoFar(Rebuilt(AddResults(l, R)))
<1> DEFINE s == l.msgs
           X == l.results
           m == Results(X)
<1>1. s \in Seq(Messages) /\ X \in SUBSET Calls /\ X \cup R \in SUBSET Calls /\ X \cup R # {}
  BY DEF Logs
<1>2. Rebuilt(AddResults(l, R)) = Append(s, Results(X \cup R))
  BY <1>1 DEF Rebuilt, AddResults, Logs
<1>3. m \in Messages /\ m.kind = "results" /\ m.calls = X
  BY <1>1, MessageTypes DEF Results
<1>4. PairedSoFar(s)
  BY <1>1, <1>3, PairedPrefix DEF Rebuilt
<1>5. PendingTools(Rebuilt(l)) = PendingTools(s) \ X
  BY <1>1, AppendResults DEF Rebuilt
<1>6. PendingTools(s) # {} /\ R \subseteq PendingTools(s)
  BY <1>5
<1>7. s # <<>> /\ s[Len(s)].kind = "turn"
  BY <1>1, <1>4, <1>6, PendingBehindTurn
<1>8. R \subseteq s[Len(s)].calls
  BY <1>1, <1>6, <1>7, PendingOfLastTurn
<1>9. X \subseteq s[Len(s)].calls
  <2>1. CASE X = {}
    BY <2>1
  <2>2. CASE X # {}
    <3> DEFINE t == Append(s, m)
    <3>1. /\ DOMAIN t = 1 .. (Len(s) + 1) /\ t[Len(s) + 1] = m
          /\ Len(s) \in Nat \ {0} /\ \A i \in 1 .. Len(s) : t[i] = s[i]
      BY <1>1, <1>3, <1>7, Appending
    <3>2. PairedSoFar(t)
      BY <2>2 DEF Rebuilt
    <3> HIDE DEF t, m
    <3>5. Len(s) + 1 \in DOMAIN t /\ t[Len(s) + 1].kind = "results" /\ t[Len(s) + 1].calls = X
      BY <1>3, <3>1
    <3>3. X \subseteq t[(Len(s) + 1) - 1].calls
      BY <3>2, <3>5, Zenon DEF PairedSoFar
    <3>4. (Len(s) + 1) - 1 = Len(s) /\ t[Len(s)] = s[Len(s)]
      BY <3>1
    <3> QED BY <3>3, <3>4
  <2> QED BY <2>1, <2>2
<1>10. PairedSoFar(Append(s, Results(X \cup R)))
  BY <1>1, <1>4, <1>7, <1>8, <1>9, PairedBehindTurn
<1> QED BY <1>2, <1>10

-----------------------------------------------------------------------------
\* Types, and which question a handler or a parked run carries.

TypeInv ==
    /\ TypeOK
    /\ mem # Idle => mem.stage # "idle" /\ mem.run \in RunIds
    /\ mem.stage = "parking" \/ (\E r \in RunIds : status[r] = "waiting") => question.ask
    /\ log.msgs # <<>> => log.msgs[Len(log.msgs)].kind # "results"

LEMMA TypeInvInit == Init => TypeInv
BY BoundsAssumption DEF Init, TypeInv, TypeOK, AtWork, Carried, Logs, Statuses, Memories,
    Requests, Idle, NoRequest, NoCall, RunIds, Messages, Calls

\* The last message of the log is never a message of results: they are grouped
\* when the next message comes, or at the end of the read.
LEMMA NoTrailingResults ==
    ASSUME NEW l \in Logs, NEW m \in Messages, m.kind # "results"
    PROVE  LET n == AddMessage(l, m)
           IN  n.msgs # <<>> /\ n.msgs[Len(n.msgs)].kind # "results"
<1> DEFINE s == Rebuilt(l)
<1>1. s \in Seq(Messages)
  BY RebuiltMessages
<1>2. Len(Append(s, m)) = Len(s) + 1 /\ Len(s) \in Nat /\ Append(s, m)[Len(s) + 1] = m
  BY <1>1, Appending
<1> QED BY <1>2 DEF AddMessage

\* A turn's calls carry its number.
LEMMA NewCalls ==
    ASSUME TypeOK, turns < MaxTurns, NEW shape \in Shapes
    PROVE  LET C == {[turn |-> turns + 1, n |-> s.n, ask |-> s.ask] : s \in shape}
           IN  C \in SUBSET Calls /\ \A c \in C : c.turn = turns + 1
BY BoundsAssumption DEF TypeOK, Calls

\* Memory and requests, field by field.
LEMMA MemoryFields ==
    ASSUME TypeInv
    PROVE  /\ mem.stage \in {"idle", "loop", "parking", "committing"} /\ mem.msgs \in Seq(Messages)
           /\ mem.stage = "idle" <=> mem = Idle
           /\ mem # Idle => mem.run \in RunIds
           /\ mem # Idle => status[mem.run] = "running"
<1>1. mem \in Memories /\ AtWork /\ (mem # Idle => mem.stage # "idle" /\ mem.run \in RunIds)
  BY DEF TypeInv, TypeOK
<1>2. mem.stage \in {"idle", "loop", "parking", "committing"} /\ mem.msgs \in Seq(Messages)
  BY <1>1 DEF Memories
<1>3. mem.stage = "idle" <=> mem = Idle
  BY <1>1 DEF Idle
<1>4. mem # Idle => status[mem.run] = "running"
  BY <1>1 DEF AtWork
<1> QED BY <1>1, <1>2, <1>3, <1>4

\* A worker that goes on with its run, after a change of its other variables.
LEMMA MemoryKept ==
    ASSUME TypeInv, mem # Idle, mem' \in Memories, mem'.stage # "idle", mem'.run = mem.run,
           UNCHANGED status
    PROVE  mem' # Idle /\ AtWork'
<1>1. mem' # Idle
  BY DEF Idle
<1> QED BY <1>1 DEF AtWork, TypeInv, TypeOK

\* A worker that leaves its run in another status.
LEMMA RunLeft ==
    ASSUME TypeInv, mem # Idle, mem' = Idle, NEW st \in Statuses \ {"running"},
           status' = [status EXCEPT ![mem.run] = st]
    PROVE  /\ mem' \in Memories /\ AtWork' /\ status' \in [RunIds -> Statuses]
           /\ \A q \in RunIds : status'[q] = IF q = mem.run THEN st ELSE status[q]
<1>1. status \in [RunIds -> Statuses] /\ AtWork
  BY DEF TypeInv, TypeOK
<1>2. \A q \in RunIds : status'[q] = IF q = mem.run THEN st ELSE status[q]
  BY <1>1
<1>3. Idle \in Memories
  BY BoundsAssumption DEF Idle, Memories, Messages
<1>4. status' \in [RunIds -> Statuses]
  BY <1>1
<1>5. \A q \in RunIds : status'[q] # "running"
  BY <1>1, <1>2 DEF AtWork
<1>6. AtWork'
  BY <1>5 DEF AtWork
<1> QED BY <1>2, <1>3, <1>4, <1>6

\* A handler that wrote into the log: the worker, if any, has not seen it.
LEMMA MemoryDisturbed ==
    ASSUME TypeInv, mem' = IF mem = Idle THEN Idle ELSE [mem EXCEPT !.alone = FALSE]
    PROVE  /\ mem' \in Memories /\ (mem' = Idle <=> mem = Idle)
           /\ mem'.stage = mem.stage /\ mem'.run = mem.run /\ mem'.msgs = mem.msgs
           /\ mem' # Idle => ~mem'.alone
<1>1. mem \in Memories /\ (mem # Idle => mem.stage # "idle")
  BY DEF TypeInv, TypeOK
<1>2. CASE mem = Idle
  BY <1>1, <1>2
<1>3. CASE mem # Idle
  <2>1. /\ mem' = [mem EXCEPT !.alone = FALSE] /\ mem' \in Memories /\ ~mem'.alone
        /\ mem'.stage = mem.stage /\ mem'.run = mem.run /\ mem'.msgs = mem.msgs
    BY <1>1, <1>3 DEF Memories
  <2>2. mem' # Idle
    BY <1>1, <1>3, <2>1 DEF Idle
  <2> QED BY <1>3, <2>1, <2>2
<1> QED BY <1>2, <1>3

LEMMA RequestDone ==
    ASSUME TypeInv, NEW d \in Devices, request' = [request EXCEPT ![d] = NoRequest]
    PROVE  request' \in [Devices -> Requests] /\ Carried'
<1>1. request \in [Devices -> Requests] /\ Carried
  BY DEF TypeInv, TypeOK
<1>2. NoRequest \in Requests /\ NoRequest.step = "none"
  BY BoundsAssumption DEF NoRequest, Requests
<1>3. \A e \in Devices : request'[e] = IF e = d THEN NoRequest ELSE request[e]
  BY <1>1
<1> QED BY <1>1, <1>2, <1>3 DEF Carried

LEMMA TypeInvStep == TypeInv /\ [Next]_vars => TypeInv'
<1> SUFFICES ASSUME TypeInv, [Next]_vars PROVE TypeInv'
  OBVIOUS
<1>t. /\ log \in Logs /\ given \in [Calls -> Nat]
      /\ question \in {c \in Calls : c.ask} \cup {NoCall}
      /\ repaired \in [RunIds -> Nat] /\ turns \in 0 .. MaxTurns
      /\ status \in [RunIds -> Statuses] /\ mem \in Memories
      /\ request \in [Devices -> Requests] /\ posts \in 0 .. MaxPosts
      /\ orderly \in BOOLEAN /\ AtWork /\ Carried
  BY DEF TypeInv, TypeOK
<1>n. MaxTurns \in Nat /\ MaxRuns \in Nat /\ MaxPosts \in Nat
  BY BoundsAssumption
<1>q. mem.stage = "parking" \/ (\E r \in RunIds : status[r] = "waiting") => question.ask
  BY DEF TypeInv
<1>l. log.msgs # <<>> => log.msgs[Len(log.msgs)].kind # "results"
  BY DEF TypeInv
<1>1. CASE UNCHANGED vars
  BY <1>1, <1>t, <1>q, <1>l, MemoryFields DEF vars, TypeInv, TypeOK, AtWork, Carried
<1>2. ASSUME NEW r \in RunIds, Start(r) PROVE TypeInv'
  <2>1. Rebuilt(log) \in Seq(Messages) /\ repaired[r] \in Nat /\ r \in 0 .. MaxRuns
    BY <1>t, <1>n, RebuiltMessages DEF RunIds
  <2>2. /\ mem' = [stage |-> "loop", run |-> r, repairs |-> repaired[r], msgs |-> Rebuilt(log), alone |-> TRUE]
        /\ mem' \in Memories /\ mem'.run = r /\ mem'.stage = "loop" /\ mem' # Idle
    BY <1>2, <2>1 DEF Start, Idle, Memories
  <2>3. \A q \in RunIds : status'[q] = IF q = r THEN "running" ELSE status[q]
    BY <1>2, <1>t DEF Start
  <2>4. status' \in [RunIds -> Statuses] /\ \A q \in RunIds : status[q] # "running"
    BY <1>2, <1>t DEF Start, Statuses
  <2>5. AtWork' /\ Carried'
    BY <1>2, <1>t, <2>2, <2>3, <2>4 DEF AtWork, Carried, Start
  <2> QED BY <1>2, <1>t, <1>q, <1>l, <2>2, <2>3, <2>4, <2>5 DEF Start, TypeInv, TypeOK
<1>3. CASE RunTools
  <2> DEFINE R == PendingTools(mem.msgs) \ FirstAsk(PendingTools(mem.msgs))
  <2>1. R \in SUBSET Calls /\ mem.msgs \in Seq(Messages) /\ mem # Idle
    BY <1>3, MemoryFields DEF PendingTools, RunTools
  <2>2. /\ log' = AddResults(log, R) /\ log'.msgs = log.msgs
        /\ mem' = [mem EXCEPT !.msgs = AppendToolResults(mem.msgs, R)]
        /\ given' = [c \in Calls |-> IF c \in R THEN given[c] + 1 ELSE given[c]]
    BY <1>3, <1>t DEF RunTools, AddResults, Logs
  <2> HIDE DEF R
  <2>3. log' \in Logs /\ AppendToolResults(mem.msgs, R) \in Seq(Messages)
    BY <1>t, <2>1, <2>2, ResultsAdded, ResultsKept
  <2>4. mem' \in Memories /\ mem'.stage = "loop" /\ mem'.run = mem.run
    BY <1>3, <1>t, <2>2, <2>3 DEF RunTools, Memories
  <2>5. given' \in [Calls -> Nat]
    BY <1>t, <2>2
  <2>6. mem' # Idle /\ AtWork'
    BY <1>3, <2>1, <2>4, MemoryKept DEF RunTools
  <2> QED BY <1>3, <1>t, <1>q, <1>l, <2>1, <2>2, <2>3, <2>4, <2>5, <2>6, MemoryFields
          DEF RunTools, TypeInv, TypeOK, Carried
<1>4. CASE AskUser
  <2>1. question'.ask /\ question' \in Calls
    BY <1>4 DEF AskUser, FirstAsk, PendingTools
  <2>2. mem # Idle /\ mem' \in Memories /\ mem'.stage = "parking" /\ mem'.run = mem.run
    BY <1>4, <1>t, MemoryFields DEF AskUser, Memories
  <2>3. mem' # Idle /\ AtWork'
    BY <1>4, <2>2, MemoryKept DEF AskUser
  <2> QED BY <1>4, <1>t, <1>l, <2>1, <2>2, <2>3, MemoryFields DEF AskUser, TypeInv, TypeOK, Carried
<1>5. CASE Park
  <2>1. mem # Idle /\ question.ask /\ "waiting" \in Statuses \ {"running"}
    BY <1>5, <1>q, MemoryFields DEF Park, Statuses
  <2>2. mem' \in Memories /\ AtWork' /\ status' \in [RunIds -> Statuses]
    BY <1>5, <2>1, RunLeft DEF Park
  <2> QED BY <1>5, <1>t, <1>l, <2>1, <2>2 DEF Park, TypeInv, TypeOK, Carried
<1>6. CASE Repair
  <2>1. log' = AddMessage(log, Text) /\ Text \in Messages /\ Text.kind # "results" /\ mem # Idle
    BY <1>6, MessageTypes, MemoryFields DEF Repair, Text
  <2>2. log' \in Logs /\ log'.msgs # <<>> /\ log'.msgs[Len(log'.msgs)].kind # "results"
    BY <1>t, <2>1, MessageAdded, NoTrailingResults
  <2>3. Append(mem.msgs, Text) \in Seq(Messages)
    BY <2>1, Appending, MemoryFields
  <2>7. /\ mem' = [mem EXCEPT !.stage = "loop", !.repairs = mem.repairs + 1, !.msgs = Append(mem.msgs, Text)]
        /\ mem.repairs + 1 \in Nat
    BY <1>6, <1>t DEF Repair, Memories
  <2>4. mem' \in Memories /\ mem'.stage = "loop" /\ mem'.run = mem.run
    BY <1>t, <2>3, <2>7 DEF Memories
  <2>5. mem' # Idle /\ AtWork'
    BY <1>6, <2>1, <2>4, MemoryKept DEF Repair
  <2>6. repaired' \in [RunIds -> Nat]
    <3>1. mem.run \in RunIds /\ repaired[mem.run] + 1 \in Nat
      BY <1>t, <2>1, MemoryFields
    <3>2. repaired' = [repaired EXCEPT ![mem.run] = repaired[mem.run] + 1]
      BY <1>6 DEF Repair
    <3> QED BY <1>t, <3>1, <3>2
  <2> QED BY <1>6, <1>t, <1>q, <2>1, <2>2, <2>4, <2>5, <2>6, MemoryFields
          DEF Repair, TypeInv, TypeOK, Carried
<1>7. CASE End
  <2>1. mem # Idle /\ mem.stage # "parking" /\ "over" \in Statuses \ {"running"}
    BY <1>7, MemoryFields DEF End, Statuses
  <2>2. /\ mem' \in Memories /\ AtWork' /\ status' \in [RunIds -> Statuses]
        /\ \A q \in RunIds : status'[q] = IF q = mem.run THEN "over" ELSE status[q]
    BY <1>7, <2>1, RunLeft DEF End
  <2>3. orderly' \in BOOLEAN
    BY <1>7 DEF End
  <2>4. mem' = Idle /\ mem'.stage = "idle"
    BY <1>7 DEF End, Idle
  <2> QED BY <1>7, <1>t, <1>q, <1>l, <2>2, <2>3, <2>4 DEF End, TypeInv, TypeOK, Carried
<1>8. CASE LoseRun
  <2>1. mem # Idle /\ "queued" \in Statuses \ {"running"}
    BY <1>8 DEF LoseRun, Statuses
  <2>2. /\ mem' \in Memories /\ AtWork' /\ status' \in [RunIds -> Statuses]
        /\ \A q \in RunIds : status'[q] = IF q = mem.run THEN "queued" ELSE status[q]
    BY <1>8, <2>1, RunLeft DEF LoseRun
  <2>3. mem' = Idle /\ mem'.stage = "idle"
    BY <1>8 DEF LoseRun, Idle
  <2> QED BY <1>8, <1>t, <1>q, <1>l, <2>2, <2>3 DEF LoseRun, TypeInv, TypeOK, Carried
<1>9. ASSUME NEW shape \in Shapes, NEW final \in BOOLEAN, ModelTurn(shape, final) PROVE TypeInv'
  <2> DEFINE C == {[turn |-> turns + 1, n |-> s.n, ask |-> s.ask] : s \in shape}
  <2>1. C \in SUBSET Calls /\ mem # Idle /\ mem.stage = "loop"
    BY <1>9, <1>t, NewCalls, MemoryFields DEF ModelTurn, TypeInv
  <2>2. Turn(C) \in Messages /\ Turn(C).kind # "results"
    BY <2>1, MessageTypes DEF Turn
  <2>3. /\ log' = AddMessage(log, Turn(C))
        /\ mem' = [mem EXCEPT !.msgs = Append(mem.msgs, Turn(C)),
                              !.stage = IF final THEN "committing" ELSE "loop"]
    BY <1>9 DEF ModelTurn
  <2> HIDE DEF C
  <2>4. log' \in Logs /\ log'.msgs # <<>> /\ log'.msgs[Len(log'.msgs)].kind # "results"
    BY <1>t, <2>2, <2>3, MessageAdded, NoTrailingResults
  <2>5. Append(mem.msgs, Turn(C)) \in Seq(Messages)
    BY <2>2, Appending, MemoryFields
  <2>6. mem' \in Memories /\ mem'.stage \in {"loop", "committing"} /\ mem'.run = mem.run
    BY <1>t, <2>3, <2>5 DEF Memories
  <2>7. mem' # Idle /\ AtWork'
    BY <1>9, <2>1, <2>6, MemoryKept DEF ModelTurn
  <2>8. turns' \in 0 .. MaxTurns /\ orderly' \in BOOLEAN
    BY <1>9, <1>t, <1>n DEF ModelTurn
  <2> QED BY <1>9, <1>t, <1>q, <2>1, <2>4, <2>6, <2>7, <2>8, MemoryFields
          DEF ModelTurn, TypeInv, TypeOK, Carried
<1>10. ASSUME NEW d \in Devices, Post(d) PROVE TypeInv'
  <2>1. posts' \in 0 .. MaxPosts /\ orderly' \in BOOLEAN
    BY <1>10, <1>t, <1>n DEF Post
  <2>2. request' \in [Devices -> Requests] /\ Carried'
    <3>1. CASE request' = [request EXCEPT ![d].step = "submit"]
      <4>1. request' \in [Devices -> Requests] /\ request'[d].step = "submit"
        BY <1>t, <3>1 DEF Requests
      <4>2. \A e \in Devices : e # d => request'[e] = request[e]
        BY <1>t, <3>1
      <4> QED BY <1>t, <4>1, <4>2 DEF Carried
    <3>2. ASSUME NEW r \in RunIds, status[r] = "waiting",
                 request' = [request EXCEPT ![d] = [step |-> "answer", run |-> r, question |-> question]]
          PROVE  request' \in [Devices -> Requests] /\ Carried'
      <4>1. question \in Calls \cup {NoCall} /\ question.ask /\ r \in 0 .. MaxRuns
        BY <1>t, <1>q, <1>n, <3>2 DEF RunIds
      <4>2. [step |-> "answer", run |-> r, question |-> question] \in Requests
        BY <4>1 DEF Requests
      <4>3. request' \in [Devices -> Requests]
        BY <1>t, <3>2, <4>2
      <4>4. \A e \in Devices : request'[e] = IF e = d THEN [step |-> "answer", run |-> r, question |-> question]
                                             ELSE request[e]
        BY <1>t, <3>2
      <4> QED BY <1>t, <4>1, <4>3, <4>4 DEF Carried
    <3> QED BY <1>10, <3>1, <3>2 DEF Post
  <2>3. AtWork' /\ (mem' # Idle => mem'.stage # "idle" /\ mem'.run \in RunIds)
    BY <1>10, <1>t, MemoryFields DEF Post, AtWork
  <2> QED BY <1>10, <1>t, <1>q, <1>l, <2>1, <2>2, <2>3 DEF Post, TypeInv, TypeOK
<1>11. ASSUME NEW d \in Devices, Submit(d) PROVE TypeInv'
  <2>1. log' = AddMessage(log, Text) /\ Text \in Messages /\ Text.kind # "results"
    BY <1>11, MessageTypes DEF Submit, Text
  <2>2. log' \in Logs /\ log'.msgs # <<>> /\ log'.msgs[Len(log'.msgs)].kind # "results"
    BY <1>t, <2>1, MessageAdded, NoTrailingResults
  <2>3. PICK r \in RunIds : status[r] = "none" /\ status' = [status EXCEPT ![r] = "queued"]
    BY <1>11 DEF Submit
  <2>4. /\ \A q \in RunIds : status'[q] = IF q = r THEN "queued" ELSE status[q]
        /\ status' \in [RunIds -> Statuses]
    BY <1>t, <2>3 DEF Statuses
  <2>5. /\ mem' \in Memories /\ (mem' = Idle <=> mem = Idle)
        /\ mem'.stage = mem.stage /\ mem'.run = mem.run
    BY <1>11, MemoryDisturbed DEF Submit
  <2>6. AtWork'
    BY <1>t, <2>3, <2>4, <2>5 DEF AtWork
  <2>7. orderly' \in BOOLEAN
    BY <1>11, <1>t DEF Submit
  <2>8. request' \in [Devices -> Requests] /\ Carried'
    BY <1>11, RequestDone DEF Submit
  <2>9. mem' # Idle => mem'.stage # "idle" /\ mem'.run \in RunIds
    BY <2>5, MemoryFields
  <2>10. mem'.stage = "parking" \/ (\E q \in RunIds : status'[q] = "waiting") => question'.ask
    BY <1>11, <1>q, <2>4, <2>5 DEF Submit
  <2> QED BY <1>11, <1>t, <2>2, <2>4, <2>5, <2>6, <2>7, <2>8, <2>9, <2>10 DEF Submit, TypeInv, TypeOK
<1>12. ASSUME NEW d \in Devices, ProvideInput(d) PROVE TypeInv'
  <2> DEFINE q == request[d].question
  <2>1. q \in Calls /\ q.ask
    BY <1>12, <1>t DEF ProvideInput, Carried, Requests, NoCall
  <2>2. log' = AddResults(log, {q}) /\ log'.msgs = log.msgs /\ log' \in Logs
    BY <1>12, <1>t, <2>1, ResultsAdded DEF ProvideInput, AddResults, Logs
  <2>3. given' \in [Calls -> Nat]
    BY <1>12, <1>t, <2>1 DEF ProvideInput
  <2>4. /\ mem' \in Memories /\ (mem' = Idle <=> mem = Idle)
        /\ mem'.stage = mem.stage /\ mem'.run = mem.run
    BY <1>12, MemoryDisturbed DEF ProvideInput
  <2>5. AtWork' /\ (mem' # Idle => mem'.stage # "idle" /\ mem'.run \in RunIds)
    BY <1>12, <1>t, <2>4, MemoryFields DEF AtWork, ProvideInput
  <2>6. request' \in [Devices -> Requests] /\ Carried'
    <3>1. request' = [request EXCEPT ![d] = [request[d] EXCEPT !.step = "resume"]]
      BY <1>12, <1>t DEF ProvideInput
    <3>2. /\ request'[d].run = request[d].run /\ request'[d].question = q
          /\ request' \in [Devices -> Requests]
      BY <1>t, <3>1 DEF Requests
    <3>3. \A e \in Devices : e # d => request'[e] = request[e]
      BY <1>t, <3>1
    <3> QED BY <1>12, <1>t, <3>2, <3>3 DEF Carried, ProvideInput
  <2> QED BY <1>12, <1>t, <1>q, <1>l, <2>2, <2>3, <2>4, <2>5, <2>6 DEF ProvideInput, TypeInv, TypeOK
<1>13. ASSUME NEW d \in Devices, ResumeRun(d) PROVE TypeInv'
  <2>1. \A q \in RunIds : status'[q] = status[q] \/ (status[q] = "waiting" /\ status'[q] = "queued")
    BY <1>13, <1>t DEF ResumeRun
  <2>2. status' \in [RunIds -> Statuses]
    BY <1>13, <1>t DEF ResumeRun, Statuses
  <2>3. request' \in [Devices -> Requests] /\ Carried'
    BY <1>13, RequestDone DEF ResumeRun
  <2>4. AtWork' /\ (mem' # Idle => mem'.stage # "idle" /\ mem'.run \in RunIds)
    BY <1>13, <1>t, <2>1, MemoryFields DEF AtWork, ResumeRun
  <2> QED BY <1>13, <1>t, <1>q, <1>l, <2>1, <2>2, <2>3, <2>4 DEF ResumeRun, TypeInv, TypeOK
<1>14. ASSUME NEW d \in Devices, Abort(d) PROVE TypeInv'
  <2>1. request' \in [Devices -> Requests] /\ Carried'
    BY <1>14, RequestDone DEF Abort
  <2>2. orderly' \in BOOLEAN
    BY <1>14, <1>t DEF Abort
  <2>3. AtWork' /\ (mem' # Idle => mem'.stage # "idle" /\ mem'.run \in RunIds)
    BY <1>14, <1>t, MemoryFields DEF AtWork, Abort
  <2> QED BY <1>14, <1>t, <1>q, <1>l, <2>1, <2>2, <2>3 DEF Abort, TypeInv, TypeOK
<1>15. ASSUME NEW r \in RunIds, Cancel(r) PROVE TypeInv'
  <2>1. \A q \in RunIds : status'[q] = IF q = r THEN "over" ELSE status[q]
    BY <1>15, <1>t DEF Cancel
  <2>2. status' \in [RunIds -> Statuses] /\ orderly' \in BOOLEAN /\ Carried'
    BY <1>15, <1>t DEF Cancel, Statuses, Carried
  <2>3. CASE mem.run = r
    <3>1. mem' = Idle /\ mem'.stage = "idle" /\ mem' \in Memories
      BY <1>15, <1>n, <2>3 DEF Cancel, Idle, Memories, Messages
    <3>2. \A q \in RunIds : status'[q] # "running"
      BY <1>t, <2>1, <2>3 DEF AtWork
    <3>3. AtWork'
      BY <3>1, <3>2 DEF AtWork
    <3> QED BY <1>15, <1>t, <1>q, <1>l, <2>1, <2>2, <3>1, <3>3 DEF Cancel, TypeInv, TypeOK
  <2>4. CASE mem.run # r
    <3>1. mem' = mem
      BY <1>15, <2>4 DEF Cancel
    <3>2. AtWork' /\ (mem' # Idle => mem'.stage # "idle" /\ mem'.run \in RunIds)
      BY <1>t, <2>1, <2>4, <3>1, MemoryFields DEF AtWork
    <3> QED BY <1>15, <1>t, <1>q, <1>l, <2>1, <2>2, <3>1, <3>2 DEF Cancel, TypeInv, TypeOK
  <2> QED BY <2>3, <2>4
<1> QED
  BY <1>1, <1>2, <1>3, <1>4, <1>5, <1>6, <1>7, <1>8, <1>9, <1>10, <1>11, <1>12, <1>13, <1>14, <1>15
     DEF Next, Work, Handle

-----------------------------------------------------------------------------
\* Memory and log.  A handler may add to the log behind the worker's back, but
\* what is pending in the log is always pending in the worker's memory too, so
\* the worker takes no turn while the log has a call without a result.
MemoryInv ==
    /\ MemoryIsLog
    /\ NothingDangles
    /\ mem # Idle =>
        /\ PendingTools(Rebuilt(log)) \subseteq PendingTools(mem.msgs)
        /\ LastCalls(mem.msgs) = LastCalls(Rebuilt(log))

LEMMA MemoryInvInit == Init => MemoryInv
<1> SUFFICES ASSUME Init PROVE MemoryInv
  OBVIOUS
<1>1. Rebuilt(log) = <<>> /\ mem = Idle
  BY DEF Init, Rebuilt
<1> QED BY <1>1 DEF MemoryInv, MemoryIsLog, NothingDangles, AllAnswered

LEMMA MemoryInvStep == TypeInv /\ TypeInv' /\ MemoryInv /\ [Next]_vars => MemoryInv'
<1> SUFFICES ASSUME TypeInv, TypeInv', MemoryInv, [Next]_vars PROVE MemoryInv'
  OBVIOUS
<1> DEFINE L == Rebuilt(log)
           M == mem.msgs
<1>t. log \in Logs /\ L \in Seq(Messages) /\ M \in Seq(Messages) /\ mem \in Memories
  BY RebuiltMessages, MemoryFields DEF TypeInv, TypeOK
<1>l. log.msgs # <<>> => log.msgs[Len(log.msgs)].kind # "results"
  BY DEF TypeInv
<1>i. /\ mem # Idle /\ mem.alone => M = L
      /\ AllAnswered(L)
      /\ mem # Idle => PendingTools(L) \subseteq PendingTools(M) /\ LastCalls(M) = LastCalls(L)
  BY DEF MemoryInv, MemoryIsLog, NothingDangles
\* Steps that leave the log and the worker's messages alone.
<1>1. ASSUME log' = log, mem' = Idle \/ (mem # Idle /\ mem'.msgs = M /\ mem'.alone = mem.alone)
      PROVE  MemoryInv'
  BY <1>1, <1>i DEF MemoryInv, MemoryIsLog, NothingDangles
\* A message appended by the worker, to the log and to memory.
<1>2. ASSUME NEW m \in Messages, mem # Idle, mem'.alone = mem.alone,
             log' = AddMessage(log, m), mem'.msgs = Append(M, m), AllAnswered(Append(L, m)),
             PendingTools(Append(L, m)) \subseteq PendingTools(Append(M, m)),
             LastCalls(Append(M, m)) = LastCalls(Append(L, m))
      PROVE  MemoryInv'
  <2>1. Rebuilt(log') = Append(L, m)
    BY <1>t, <1>2, MessageAdded
  <2> QED BY <1>2, <1>i, <2>1 DEF MemoryInv, MemoryIsLog, NothingDangles
<1>3. ASSUME NEW r \in RunIds, Start(r) PROVE MemoryInv'
  BY <1>3, <1>i DEF Start, MemoryInv, MemoryIsLog, NothingDangles
<1>4. CASE RunTools
  <2> DEFINE R == PendingTools(M) \ FirstAsk(PendingTools(M))
  <2>1. R \in SUBSET Calls /\ mem # Idle /\ R # {}
    BY <1>4, MemoryFields DEF PendingTools, RunTools
  <2>2. log' = AddResults(log, R) /\ mem' = [mem EXCEPT !.msgs = AppendToolResults(M, R)]
    BY <1>4 DEF RunTools
  <2>3. mem'.msgs = AppendToolResults(M, R) /\ mem'.alone = mem.alone
    BY <1>t, <2>2 DEF Memories
  <2> HIDE DEF R
  <2>4. /\ PendingTools(Rebuilt(log')) = PendingTools(L) \ R
        /\ LastCalls(Rebuilt(log')) = LastCalls(L) /\ AllAnswered(Rebuilt(log'))
    BY <1>t, <1>i, <2>1, <2>2, ResultsAdded, AnsweredResults
  <2>5. /\ PendingTools(mem'.msgs) = PendingTools(M) \ R
        /\ LastCalls(mem'.msgs) = LastCalls(M)
    BY <1>t, <2>1, <2>3, ResultsKept
  <2>6. ASSUME mem.alone PROVE mem'.msgs = Rebuilt(log')
    BY <1>t, <1>l, <1>i, <2>1, <2>2, <2>3, <2>6, SameResults
  <2> QED BY <1>i, <2>1, <2>3, <2>4, <2>5, <2>6 DEF MemoryInv, MemoryIsLog, NothingDangles
<1>5. CASE Repair
  <2>1. Text \in Messages /\ Text.kind # "turn" /\ mem # Idle
    BY <1>5, MessageTypes, MemoryFields DEF Repair, Text
  <2>2. log' = AddMessage(log, Text) /\ mem'.msgs = Append(M, Text) /\ mem'.alone = mem.alone
    BY <1>5, <1>t DEF Repair, Memories
  <2>3. AllAnswered(Append(L, Text))
    BY <1>t, <1>i, <2>1, AnsweredAppend
  <2>4. /\ PendingTools(Append(L, Text)) = PendingTools(L) /\ LastCalls(Append(L, Text)) = LastCalls(L)
        /\ PendingTools(Append(M, Text)) = PendingTools(M) /\ LastCalls(Append(M, Text)) = LastCalls(M)
    BY <1>t, AppendText
  <2> QED BY <1>2, <1>i, <2>1, <2>2, <2>3, <2>4
<1>6. ASSUME NEW shape \in Shapes, NEW final \in BOOLEAN, ModelTurn(shape, final) PROVE MemoryInv'
  <2> DEFINE C == {[turn |-> turns + 1, n |-> s.n, ask |-> s.ask] : s \in shape}
  <2>1. C \in SUBSET Calls /\ mem # Idle /\ PendingTools(M) = {}
    BY <1>6, NewCalls, MemoryFields DEF ModelTurn, TypeInv
  <2>2. /\ log' = AddMessage(log, Turn(C))
        /\ mem' = [mem EXCEPT !.msgs = Append(M, Turn(C)),
                              !.stage = IF final THEN "committing" ELSE "loop"]
    BY <1>6 DEF ModelTurn
  <2>3. mem'.msgs = Append(M, Turn(C)) /\ mem'.alone = mem.alone
    BY <1>t, <2>2 DEF Memories
  <2> HIDE DEF C
  <2>4. PendingTools(L) = {}
    BY <1>i, <2>1
  <2>5. AllAnswered(Append(L, Turn(C)))
    BY <1>t, <1>i, <2>1, <2>4, AnsweredTurn
  <2>6. /\ PendingTools(Append(L, Turn(C))) = C /\ LastCalls(Append(L, Turn(C))) = C
        /\ PendingTools(Append(M, Turn(C))) = C /\ LastCalls(Append(M, Turn(C))) = C
    BY <1>t, <2>1, AppendTurn
  <2>7. Turn(C) \in Messages
    BY <2>1, MessageTypes
  <2> QED BY <1>2, <2>1, <2>2, <2>3, <2>5, <2>6, <2>7
<1>7. ASSUME NEW d \in Devices, Submit(d) PROVE MemoryInv'
  <2>1. Text \in Messages /\ Text.kind # "turn"
    BY MessageTypes DEF Text
  <2>2. /\ log' = AddMessage(log, Text) /\ (mem' = Idle <=> mem = Idle)
        /\ mem'.msgs = M /\ (mem' # Idle => ~mem'.alone)
    BY <1>7, MemoryDisturbed DEF Submit
  <2>3. Rebuilt(log') = Append(L, Text)
    BY <1>t, <2>1, <2>2, MessageAdded
  <2>4. AllAnswered(Append(L, Text))
    BY <1>t, <1>i, <2>1, AnsweredAppend
  <2>5. PendingTools(Append(L, Text)) = PendingTools(L) /\ LastCalls(Append(L, Text)) = LastCalls(L)
    BY <1>t, AppendText
  <2> QED BY <1>i, <2>2, <2>3, <2>4, <2>5 DEF MemoryInv, MemoryIsLog, NothingDangles
<1>8. ASSUME NEW d \in Devices, ProvideInput(d) PROVE MemoryInv'
  <2> DEFINE R == {request[d].question}
  <2>1. R \in SUBSET Calls
    BY <1>8 DEF ProvideInput, TypeInv, TypeOK, Carried, Requests, NoCall
  <2>2. /\ log' = AddResults(log, R) /\ (mem' = Idle <=> mem = Idle)
        /\ mem'.msgs = M /\ (mem' # Idle => ~mem'.alone)
    BY <1>8, MemoryDisturbed DEF ProvideInput
  <2>3. /\ PendingTools(Rebuilt(log')) = PendingTools(L) \ R
        /\ LastCalls(Rebuilt(log')) = LastCalls(L) /\ AllAnswered(Rebuilt(log'))
    BY <1>t, <1>i, <2>1, <2>2, ResultsAdded, AnsweredResults
  <2> QED BY <1>i, <2>2, <2>3 DEF MemoryInv, MemoryIsLog, NothingDangles
<1>9. CASE AskUser
  <2>1. mem # Idle /\ mem'.msgs = M /\ mem'.alone = mem.alone
    BY <1>9, <1>t, MemoryFields DEF AskUser, Memories
  <2> QED BY <1>1, <1>9, <2>1 DEF AskUser
<1>10. CASE Park \/ End \/ LoseRun
  BY <1>1, <1>10 DEF Park, End, LoseRun
<1>11. ASSUME NEW d \in Devices, Post(d) \/ ResumeRun(d) \/ Abort(d) PROVE MemoryInv'
  BY <1>1, <1>11 DEF Post, ResumeRun, Abort
<1>12. ASSUME NEW r \in RunIds, Cancel(r) PROVE MemoryInv'
  BY <1>1, <1>12 DEF Cancel
<1>13. CASE UNCHANGED vars
  BY <1>1, <1>13 DEF vars
<1> QED
  BY <1>3, <1>4, <1>5, <1>6, <1>7, <1>8, <1>9, <1>10, <1>11, <1>12, <1>13 DEF Next, Work, Handle

-----------------------------------------------------------------------------
\* Questions.  At most one run is parked, none beside a running one, and the
\* newest question is one of the last turn's calls from the moment it is asked.
QuestionInv ==
    /\ mem.stage = "parking" \/ (\E r \in RunIds : status[r] = "waiting") =>
            question \in LastCalls(Rebuilt(log))
    /\ \A r, q \in RunIds : status[r] = "waiting" =>
            status[q] # "running" /\ (status[q] = "waiting" => q = r)

LEMMA PendingAreLast ==
    ASSUME NEW s \in Seq(Messages)
    PROVE  PendingTools(s) \subseteq LastCalls(s)
BY DEF PendingTools, LastCalls

LEMMA QuestionInvInit == Init => QuestionInv
BY DEF Init, QuestionInv, Idle

LEMMA NoneParked ==
    ASSUME TypeInv, QuestionInv, mem # Idle
    PROVE  \A q \in RunIds : status[q] # "waiting"
BY MemoryFields DEF QuestionInv

LEMMA QuestionInvStep ==
    TypeInv /\ TypeInv' /\ MemoryInv /\ QuestionInv /\ [Next]_vars => QuestionInv'
<1> SUFFICES ASSUME TypeInv, TypeInv', MemoryInv, QuestionInv, [Next]_vars PROVE QuestionInv'
  OBVIOUS
<1> DEFINE L == Rebuilt(log)
           M == mem.msgs
<1>t. /\ log \in Logs /\ L \in Seq(Messages) /\ M \in Seq(Messages) /\ mem \in Memories
      /\ status \in [RunIds -> Statuses]
  BY RebuiltMessages, MemoryFields DEF TypeInv, TypeOK
<1>q. mem.stage = "parking" \/ (\E r \in RunIds : status[r] = "waiting") => question \in LastCalls(L)
  BY DEF QuestionInv
<1>w. \A r, q \in RunIds : status[r] = "waiting" =>
            status[q] # "running" /\ (status[q] = "waiting" => q = r)
  BY DEF QuestionInv
\* Steps after which no more runs are parked than before.
<1>1. ASSUME LastCalls(Rebuilt(log')) = LastCalls(L), question' = question,
             mem'.stage = "parking" => mem.stage = "parking",
             \A r \in RunIds : status'[r] = "waiting" => status[r] = "waiting",
             \A r \in RunIds : status'[r] = "running" => status[r] = "running"
      PROVE  QuestionInv'
  BY <1>1, <1>q, <1>w DEF QuestionInv
\* Steps after which none is parked or about to be.
<1>2. ASSUME mem'.stage # "parking", \A r \in RunIds : status'[r] # "waiting" PROVE QuestionInv'
  BY <1>2 DEF QuestionInv
<1>3. ASSUME NEW r \in RunIds, Start(r) PROVE QuestionInv'
  <2>1. mem'.stage # "parking" /\ \A q \in RunIds : status'[q] # "waiting"
    BY <1>3, <1>t DEF Start
  <2> QED BY <1>2, <2>1
<1>4. CASE RunTools
  <2> DEFINE R == PendingTools(M) \ FirstAsk(PendingTools(M))
  <2>1. R \in SUBSET Calls /\ log' = AddResults(log, R)
    BY <1>4 DEF PendingTools, RunTools
  <2>2. LastCalls(Rebuilt(log')) = LastCalls(L)
    BY <1>t, <2>1, ResultsAdded
  <2>3. mem'.stage = mem.stage
    BY <1>4, <1>t DEF RunTools, Memories
  <2> QED BY <1>1, <1>4, <2>2, <2>3 DEF RunTools
<1>5. CASE AskUser
  <2>1. question' \in LastCalls(L)
    BY <1>5, <1>t, MemoryFields, PendingAreLast DEF AskUser, MemoryInv
  <2> QED BY <1>5, <1>w, <2>1 DEF AskUser, QuestionInv
<1>6. CASE Park
  <2>1. mem # Idle /\ mem.run \in RunIds
    BY <1>6, MemoryFields DEF Park
  <2>2. /\ \A q \in RunIds : status'[q] = IF q = mem.run THEN "waiting" ELSE status[q]
        /\ \A q \in RunIds : status'[q] # "running"
    BY <1>6, <1>t, <2>1 DEF Park, TypeInv, TypeOK, AtWork
  <2>3. \A q \in RunIds : status'[q] = "waiting" => q = mem.run
    BY <2>1, <2>2, NoneParked
  <2>4. question' \in LastCalls(Rebuilt(log'))
    BY <1>6, <1>q DEF Park
  <2> QED BY <2>2, <2>3, <2>4 DEF QuestionInv
<1>7. CASE Repair
  <2>1. LastCalls(Rebuilt(log')) = LastCalls(L)
    BY <1>7, <1>t, MessageAdded, MessageTypes, AppendText DEF Repair
  <2>2. mem'.stage # "parking"
    BY <1>7, <1>t DEF Repair, Memories
  <2> QED BY <1>1, <1>7, <2>1, <2>2 DEF Repair
<1>8. CASE End \/ LoseRun
  <2>1. mem # Idle /\ mem.run \in RunIds /\ mem'.stage # "parking"
    BY <1>8, MemoryFields DEF End, LoseRun, Idle
  <2>2. \A q \in RunIds : status'[q] # "waiting"
    BY <1>8, <1>t, <2>1, NoneParked DEF End, LoseRun
  <2> QED BY <1>2, <2>1, <2>2
<1>9. ASSUME NEW shape \in Shapes, NEW final \in BOOLEAN, ModelTurn(shape, final) PROVE QuestionInv'
  <2>1. mem # Idle /\ mem'.stage # "parking"
    BY <1>9, <1>t, MemoryFields DEF ModelTurn, Memories
  <2>2. \A q \in RunIds : status'[q] # "waiting"
    BY <1>9, <2>1, NoneParked DEF ModelTurn
  <2> QED BY <1>2, <2>1, <2>2
<1>10. ASSUME NEW d \in Devices, Submit(d) PROVE QuestionInv'
  <2>1. LastCalls(Rebuilt(log')) = LastCalls(L)
    BY <1>10, <1>t, MessageAdded, MessageTypes, AppendText DEF Submit
  <2>2. mem'.stage = mem.stage
    BY <1>10, MemoryDisturbed DEF Submit
  <2>3. /\ \A r \in RunIds : status'[r] = "waiting" => status[r] = "waiting"
        /\ \A r \in RunIds : status'[r] = "running" => status[r] = "running"
    BY <1>10, <1>t DEF Submit
  <2> QED BY <1>1, <1>10, <2>1, <2>2, <2>3 DEF Submit
<1>11. ASSUME NEW d \in Devices, ProvideInput(d) PROVE QuestionInv'
  <2> DEFINE R == {request[d].question}
  <2>1. R \in SUBSET Calls /\ log' = AddResults(log, R)
    BY <1>11 DEF ProvideInput, TypeInv, TypeOK, Carried, Requests, NoCall
  <2>2. LastCalls(Rebuilt(log')) = LastCalls(L)
    BY <1>t, <2>1, ResultsAdded
  <2>3. mem'.stage = mem.stage
    BY <1>11, MemoryDisturbed DEF ProvideInput
  <2> QED BY <1>1, <1>11, <2>2, <2>3 DEF ProvideInput
<1>12. ASSUME NEW d \in Devices, ResumeRun(d) PROVE QuestionInv'
  <2>1. /\ \A r \in RunIds : status'[r] = "waiting" => status[r] = "waiting"
        /\ \A r \in RunIds : status'[r] = "running" => status[r] = "running"
    BY <1>12, <1>t DEF ResumeRun
  <2> QED BY <1>1, <1>12, <2>1 DEF ResumeRun
<1>13. ASSUME NEW d \in Devices, Post(d) \/ Abort(d) PROVE QuestionInv'
  BY <1>1, <1>13 DEF Post, Abort
<1>14. ASSUME NEW r \in RunIds, Cancel(r) PROVE QuestionInv'
  <2>1. /\ \A q \in RunIds : status'[q] = "waiting" => status[q] = "waiting"
        /\ \A q \in RunIds : status'[q] = "running" => status[q] = "running"
    BY <1>14, <1>t DEF Cancel
  <2>2. mem'.stage = "parking" => mem.stage = "parking"
    BY <1>14 DEF Cancel, Idle
  <2> QED BY <1>1, <1>14, <2>1, <2>2 DEF Cancel
<1>15. CASE UNCHANGED vars
  BY <1>1, <1>15 DEF vars
<1> QED
  BY <1>3, <1>4, <1>5, <1>6, <1>7, <1>8, <1>9, <1>10, <1>11, <1>12, <1>13, <1>14, <1>15
     DEF Next, Work, Handle

-----------------------------------------------------------------------------
\* Results.  The calls of a turn are new when it is taken, so nothing has
\* answered them, and a tool call with a result is pending nowhere.
ResultsInv ==
    /\ \A c \in Calls : c.turn > turns => given[c] = 0
    /\ \A c \in LastCalls(Rebuilt(log)) : c.turn <= turns
    /\ question.turn <= turns
    /\ \A d \in Devices : request[d].question.turn <= turns
    /\ \A c \in Calls : ~c.ask => given[c] <= 1
    /\ \A c \in Calls : ~c.ask /\ given[c] > 0 =>
            c \notin PendingTools(Rebuilt(log)) /\ (mem # Idle => c \notin PendingTools(mem.msgs))

LEMMA ResultsInvInit == Init => ResultsInv
<1> SUFFICES ASSUME Init PROVE ResultsInv
  OBVIOUS
<1>1. LastCalls(Rebuilt(log)) = {}
  BY DEF Init, Rebuilt, LastCalls
<1> QED BY <1>1 DEF Init, ResultsInv, NoCall, NoRequest

LEMMA ResultsInvStep ==
    TypeInv /\ TypeInv' /\ MemoryInv /\ ResultsInv /\ [Next]_vars => ResultsInv'
<1> SUFFICES ASSUME TypeInv, TypeInv', MemoryInv, ResultsInv, [Next]_vars PROVE ResultsInv'
  OBVIOUS
<1> DEFINE L == Rebuilt(log)
           M == mem.msgs
<1>t. /\ log \in Logs /\ L \in Seq(Messages) /\ M \in Seq(Messages) /\ mem \in Memories
      /\ given \in [Calls -> Nat] /\ turns \in Nat /\ request \in [Devices -> Requests]
  BY BoundsAssumption, RebuiltMessages, MemoryFields DEF TypeInv, TypeOK
<1>f. \A c \in Calls : c.turn > turns => given[c] = 0
  BY DEF ResultsInv
<1>l. \A c \in LastCalls(L) : c.turn <= turns
  BY DEF ResultsInv
<1>q. question.turn <= turns /\ \A d \in Devices : request[d].question.turn <= turns
  BY DEF ResultsInv
<1>g. \A c \in Calls : ~c.ask => given[c] <= 1
  BY DEF ResultsInv
<1>p. \A c \in Calls : ~c.ask /\ given[c] > 0 =>
            c \notin PendingTools(L) /\ (mem # Idle => c \notin PendingTools(M))
  BY DEF ResultsInv
\* Steps that log no result and no turn.
<1>1. ASSUME UNCHANGED <<given, turns>>, LastCalls(Rebuilt(log')) = LastCalls(L),
             PendingTools(Rebuilt(log')) = PendingTools(L),
             question'.turn <= turns, \A d \in Devices : request'[d].question.turn <= turns,
             mem' # Idle => PendingTools(mem'.msgs) \subseteq PendingTools(L)
                            \/ (mem # Idle /\ PendingTools(mem'.msgs) = PendingTools(M))
      PROVE  ResultsInv'
  BY <1>1, <1>f, <1>l, <1>g, <1>p DEF ResultsInv
<1>2. ASSUME NEW r \in RunIds, Start(r) PROVE ResultsInv'
  BY <1>1, <1>2, <1>q DEF Start
<1>3. CASE RunTools
  <2> DEFINE R == PendingTools(M) \ FirstAsk(PendingTools(M))
  <2>1. R \in SUBSET Calls /\ R \subseteq PendingTools(M) /\ mem # Idle
    BY <1>3, MemoryFields DEF PendingTools, RunTools
  <2>2. /\ log' = AddResults(log, R) /\ mem' = [mem EXCEPT !.msgs = AppendToolResults(M, R)]
        /\ given' = [c \in Calls |-> IF c \in R THEN given[c] + 1 ELSE given[c]]
    BY <1>3 DEF RunTools
  <2> HIDE DEF R
  <2>3. mem'.msgs = AppendToolResults(M, R)
    BY <1>t, <2>2 DEF Memories
  <2>4. /\ PendingTools(Rebuilt(log')) = PendingTools(L) \ R
        /\ LastCalls(Rebuilt(log')) = LastCalls(L)
        /\ PendingTools(mem'.msgs) = PendingTools(M) \ R
    BY <1>t, <2>1, <2>2, <2>3, ResultsAdded, ResultsKept
  <2>5. \A c \in R : c.turn <= turns
    BY <1>t, <1>l, <2>1, PendingAreLast DEF MemoryInv
  <2>6. \A c \in Calls : given'[c] = IF c \in R THEN given[c] + 1 ELSE given[c]
    BY <2>2
  <2>7. \A c \in R : ~c.ask => given[c] = 0
    BY <1>t, <1>p, <2>1
  <2>8. \A c \in Calls : c.turn > turns => given'[c] = 0
    BY <1>f, <1>t, <2>5, <2>6 DEF Calls
  <2>9. \A c \in Calls : ~c.ask => given'[c] <= 1
    BY <1>t, <1>g, <2>6, <2>7
  <2>10. UNCHANGED <<turns, question, request>>
    BY <1>3 DEF RunTools
  <2>11. \A c \in Calls : ~c.ask /\ given'[c] > 0 =>
            c \notin PendingTools(L) \ R /\ c \notin PendingTools(M) \ R
    BY <1>t, <1>p, <2>1, <2>6
  <2>12. /\ \A c \in LastCalls(Rebuilt(log')) : c.turn <= turns'
         /\ question'.turn <= turns' /\ \A d \in Devices : request'[d].question.turn <= turns'
    BY <1>l, <1>q, <2>4, <2>10
  <2> QED BY <2>4, <2>8, <2>9, <2>10, <2>11, <2>12 DEF ResultsInv
<1>4. CASE AskUser
  <2>1. question'.turn <= turns /\ mem # Idle /\ mem'.msgs = M
    BY <1>4, <1>t, <1>l, MemoryFields, PendingAreLast DEF AskUser, MemoryInv, Memories
  <2> QED BY <1>1, <1>4, <1>q, <2>1 DEF AskUser
<1>5. CASE Park \/ End \/ LoseRun
  BY <1>1, <1>5, <1>q DEF Park, End, LoseRun
<1>6. CASE Repair
  <2>1. /\ LastCalls(Rebuilt(log')) = LastCalls(L)
        /\ PendingTools(Rebuilt(log')) = PendingTools(L)
        /\ PendingTools(Append(M, Text)) = PendingTools(M)
    BY <1>6, <1>t, MessageAdded, MessageTypes, AppendText DEF Repair
  <2>2. mem # Idle /\ mem'.msgs = Append(M, Text)
    BY <1>6, <1>t, MemoryFields DEF Repair, Memories
  <2> QED BY <1>1, <1>6, <1>q, <2>1, <2>2 DEF Repair
<1>7. ASSUME NEW shape \in Shapes, NEW final \in BOOLEAN, ModelTurn(shape, final) PROVE ResultsInv'
  <2> DEFINE C == {[turn |-> turns + 1, n |-> s.n, ask |-> s.ask] : s \in shape}
  <2>1. C \in SUBSET Calls /\ \A c \in C : c.turn = turns + 1
    BY <1>7, NewCalls DEF ModelTurn, TypeInv
  <2>2. /\ log' = AddMessage(log, Turn(C)) /\ turns' = turns + 1
        /\ mem' = [mem EXCEPT !.msgs = Append(M, Turn(C)),
                              !.stage = IF final THEN "committing" ELSE "loop"]
    BY <1>7 DEF ModelTurn
  <2>3. mem'.msgs = Append(M, Turn(C))
    BY <1>t, <2>2 DEF Memories
  <2> HIDE DEF C
  <2>4. /\ PendingTools(Rebuilt(log')) = C /\ LastCalls(Rebuilt(log')) = C
        /\ PendingTools(mem'.msgs) = C
    <3>1. Turn(C) \in Messages
      BY <2>1, MessageTypes
    <3>2. Rebuilt(log') = Append(L, Turn(C))
      BY <1>t, <2>2, <3>1, MessageAdded
    <3>3. /\ PendingTools(Append(L, Turn(C))) = C /\ LastCalls(Append(L, Turn(C))) = C
          /\ PendingTools(Append(M, Turn(C))) = C
      BY <1>t, <2>1, AppendTurn
    <3> QED BY <2>3, <3>2, <3>3
  <2>5. \A c \in C : given[c] = 0
    BY <1>t, <1>f, <2>1
  <2>6. UNCHANGED <<given, question, request>>
    BY <1>7 DEF ModelTurn
  <2>7. \A c \in Calls : c.turn > turns' => given'[c] = 0
    BY <1>t, <1>f, <2>2, <2>6 DEF Calls
  <2>8. question'.turn <= turns' /\ \A d \in Devices : request'[d].question.turn <= turns'
    <3>1. question.turn \in Int /\ \A d \in Devices : request[d].question.turn \in Int
      <4>1. \A c \in Calls \cup {NoCall} : c.turn \in Int
        BY BoundsAssumption DEF Calls, NoCall
      <4>2. question \in Calls \cup {NoCall} /\ \A d \in Devices : request[d].question \in Calls \cup {NoCall}
        BY <1>t DEF TypeInv, TypeOK, Requests
      <4> QED BY <4>1, <4>2
    <3> QED BY <1>t, <1>q, <2>2, <2>6, <3>1
  <2> QED BY <1>t, <1>g, <2>1, <2>2, <2>4, <2>5, <2>6, <2>7, <2>8 DEF ResultsInv
<1>8. ASSUME NEW d \in Devices, Submit(d) PROVE ResultsInv'
  <2>1. /\ LastCalls(Rebuilt(log')) = LastCalls(L)
        /\ PendingTools(Rebuilt(log')) = PendingTools(L)
    BY <1>8, <1>t, MessageAdded, MessageTypes, AppendText DEF Submit
  <2>2. (mem' = Idle <=> mem = Idle) /\ mem'.msgs = M
    BY <1>8, MemoryDisturbed DEF Submit
  <2>3. \A e \in Devices : request'[e].question.turn <= turns
    BY <1>8, <1>t, <1>q DEF Submit, NoRequest, NoCall
  <2> QED BY <1>1, <1>8, <1>q, <2>1, <2>2, <2>3 DEF Submit
<1>9. ASSUME NEW d \in Devices, ProvideInput(d) PROVE ResultsInv'
  <2> DEFINE q == request[d].question
  <2>1. q \in Calls /\ q.ask /\ q.turn <= turns
    BY <1>9, <1>q DEF ProvideInput, TypeInv, TypeOK, Carried, Requests, NoCall
  <2>2. /\ log' = AddResults(log, {q}) /\ (mem' = Idle <=> mem = Idle) /\ mem'.msgs = M
        /\ given' = [given EXCEPT ![q] = given[q] + 1]
    BY <1>9, MemoryDisturbed DEF ProvideInput
  <2>3. UNCHANGED <<turns, question>> /\ \A e \in Devices : request'[e].question = request[e].question
    BY <1>9, <1>t DEF ProvideInput, Requests
  <2> HIDE DEF q
  <2>4. /\ PendingTools(Rebuilt(log')) = PendingTools(L) \ {q}
        /\ LastCalls(Rebuilt(log')) = LastCalls(L)
    BY <1>t, <2>1, <2>2, ResultsAdded
  <2>5. \A c \in Calls : given'[c] = IF c = q THEN given[c] + 1 ELSE given[c]
    BY <1>t, <2>1, <2>2
  <2>6. \A c \in Calls : c.turn > turns => given'[c] = 0
    BY <1>t, <1>f, <2>1, <2>5 DEF Calls
  <2>7. \A c \in Calls : ~c.ask => given'[c] = given[c]
    BY <2>1, <2>5
  <2> QED BY <1>l, <1>q, <1>g, <1>p, <2>2, <2>3, <2>4, <2>6, <2>7 DEF ResultsInv
<1>10. ASSUME NEW d \in Devices, Post(d) \/ ResumeRun(d) \/ Abort(d) PROVE ResultsInv'
  <2>1. \A e \in Devices : request'[e].question.turn <= turns
    <3>1. CASE Post(d)
      <4>1. request'[d].question \in {request[d].question, question}
        BY <1>t, <3>1 DEF Post, Requests
      <4>2. \A e \in Devices : e # d => request'[e] = request[e]
        BY <1>t, <3>1 DEF Post
      <4> QED BY <1>q, <4>1, <4>2
    <3>2. CASE ResumeRun(d) \/ Abort(d)
      BY <1>t, <1>q, <3>2 DEF ResumeRun, Abort, NoRequest, NoCall
    <3> QED BY <1>10, <3>1, <3>2
  <2> QED BY <1>1, <1>10, <1>q, <2>1 DEF Post, ResumeRun, Abort
<1>11. ASSUME NEW r \in RunIds, Cancel(r) PROVE ResultsInv'
  BY <1>1, <1>11, <1>q DEF Cancel
<1>12. CASE UNCHANGED vars
  BY <1>1, <1>12, <1>q DEF vars
<1> QED
  BY <1>2, <1>3, <1>4, <1>5, <1>6, <1>7, <1>8, <1>9, <1>10, <1>11, <1>12 DEF Next, Work, Handle
-----------------------------------------------------------------------------
\* As long as all is done in order, the worker knows the whole log, a call
\* waits for its one result, and somebody is there to give it.
Paired ==
    /\ PairedSoFar(Rebuilt(log))
    /\ \A c \in Calls : given[c] <= 1 /\ (c \in PendingTools(Rebuilt(log)) => given[c] = 0)
    /\ PendingTools(Rebuilt(log)) # {} => Open # {}

Working ==
    /\ mem # Idle => mem.alone
    /\ mem.stage = "committing" => PendingTools(Rebuilt(log)) = {}
    /\ mem.stage = "parking" => question \in PendingTools(Rebuilt(log))

Answering ==
    /\ \A d, e \in Devices : request[d] # NoRequest /\ request[e] # NoRequest => d = e
    /\ \A d \in Devices :
        /\ request[d].step = "answer" => request[d].question = question
        /\ request[d].step \in {"answer", "resume"} => status[request[d].run] = "waiting"
    /\ (\E r \in RunIds : status[r] = "waiting") /\ (\A d \in Devices : request[d].step # "resume")
            => question \in PendingTools(Rebuilt(log))

OrderlyInv == orderly => Paired /\ Working /\ Answering

LEMMA OrderlyInvInit == Init => OrderlyInv
<1> SUFFICES ASSUME Init PROVE Paired /\ Working /\ Answering
  BY DEF OrderlyInv
<1>1. Rebuilt(log) = <<>> /\ PendingTools(Rebuilt(log)) = {} /\ mem = Idle
  BY DEF Init, Rebuilt, PendingTools
<1>2. Paired
  BY <1>1 DEF Init, Paired, PairedSoFar
<1>3. Working
  BY <1>1 DEF Working, Idle
<1>4. Answering
  BY DEF Init, Answering, NoRequest
<1> QED BY <1>2, <1>3, <1>4

LEMMA OrderlyInvStep ==
    TypeInv /\ TypeInv' /\ MemoryInv /\ QuestionInv /\ ResultsInv /\ OrderlyInv /\ [Next]_vars
        => OrderlyInv'
<1> SUFFICES ASSUME TypeInv, TypeInv', MemoryInv, QuestionInv, ResultsInv,
                    OrderlyInv, [Next]_vars, orderly'
             PROVE  Paired' /\ Working' /\ Answering'
  BY DEF OrderlyInv
<1> DEFINE L == Rebuilt(log)
           M == mem.msgs
           Asked == \E r \in RunIds : status[r] = "waiting"
<1>o. orderly
  BY DEF Next, Work, Handle, Start, RunTools, AskUser, Park, Repair, End, LoseRun, ModelTurn,
         Post, Submit, ProvideInput, ResumeRun, Abort, Cancel, vars
<1>i. Paired /\ Working /\ Answering
  BY <1>o DEF OrderlyInv
<1>t. /\ log \in Logs /\ L \in Seq(Messages) /\ M \in Seq(Messages) /\ mem \in Memories
      /\ given \in [Calls -> Nat] /\ status \in [RunIds -> Statuses]
      /\ request \in [Devices -> Requests]
  BY RebuiltMessages, MemoryFields DEF TypeInv, TypeOK
<1>l. log.msgs # <<>> => log.msgs[Len(log.msgs)].kind # "results"
  BY DEF TypeInv
<1>m. mem # Idle => M = L /\ mem.run \in RunIds /\ status[mem.run] = "running" /\ ~Asked
                    /\ \A d \in Devices : request[d].step \notin {"answer", "resume"}
  <2> SUFFICES ASSUME mem # Idle
               PROVE  M = L /\ mem.run \in RunIds /\ status[mem.run] = "running" /\ ~Asked
                      /\ \A d \in Devices : request[d].step \notin {"answer", "resume"}
    OBVIOUS
  <2>1. M = L
    BY <1>i DEF Working, MemoryInv, MemoryIsLog
  <2>2. mem.run \in RunIds /\ status[mem.run] = "running" /\ ~Asked
    BY MemoryFields, NoneParked
  <2>3. \A d \in Devices : request[d].step \notin {"answer", "resume"}
    BY <1>i, <2>2 DEF Answering, TypeInv, TypeOK, Carried
  <2> QED BY <2>1, <2>2, <2>3
<1>p. /\ PairedSoFar(L)
      /\ \A c \in Calls : given[c] <= 1 /\ (c \in PendingTools(L) => given[c] = 0)
      /\ PendingTools(L) # {} => Open # {}
  BY <1>i DEF Paired
\* Nothing is said: Paired needs an open run, as before.
<1>1. ASSUME UNCHANGED <<log, given>>, PendingTools(L) # {} /\ Open # {} => Open' # {} PROVE Paired'
  BY <1>1, <1>p DEF Paired
\* Nothing changes for the requests while a worker is at work and remains.
<1>2. ASSUME mem # Idle, UNCHANGED request, \A r \in RunIds : status'[r] # "waiting" PROVE Answering'
  <2>1. \A d \in Devices : request'[d].step \notin {"answer", "resume"}
    BY <1>2, <1>m
  <2>2. \A d, e \in Devices : request'[d] # NoRequest /\ request'[e] # NoRequest => d = e
    BY <1>2, <1>i DEF Answering
  <2> QED BY <1>2, <2>1, <2>2 DEF Answering
<1>3. ASSUME NEW r \in RunIds, Start(r) PROVE Paired' /\ Working' /\ Answering'
  <2>1. UNCHANGED <<log, given, request, question>> /\ mem'.alone /\ mem'.stage = "loop"
    BY <1>3 DEF Start
  <2>2. \A q \in RunIds : status[q] # "waiting" /\ status'[q] = IF q = r THEN "running" ELSE status[q]
    BY <1>3, <1>t DEF Start
  <2>3. Paired'
    BY <1>1, <2>1, <2>2 DEF Open
  <2>4. \A d \in Devices : request[d].step \notin {"answer", "resume"}
    BY <1>i, <2>2 DEF Answering, TypeInv, TypeOK, Carried
  <2>5. \A d, e \in Devices : request'[d] # NoRequest /\ request'[e] # NoRequest => d = e
    BY <2>1, <1>i DEF Answering
  <2>6. Answering'
    BY <2>1, <2>2, <2>4, <2>5 DEF Answering
  <2>7. Working'
    BY <2>1 DEF Working
  <2> QED BY <2>3, <2>6, <2>7
<1>4. CASE RunTools
  <2> DEFINE R == PendingTools(M) \ FirstAsk(PendingTools(M))
  <2>1. mem # Idle /\ R # {} /\ R \in SUBSET Calls /\ R \subseteq PendingTools(L)
    BY <1>4, <1>m, MemoryFields DEF PendingTools, RunTools
  <2>2. /\ log' = AddResults(log, R) /\ UNCHANGED <<status, request>>
        /\ given' = [c \in Calls |-> IF c \in R THEN given[c] + 1 ELSE given[c]]
        /\ mem' = [mem EXCEPT !.msgs = AppendToolResults(M, R)]
    BY <1>4 DEF RunTools
  <2>3. mem'.stage = "loop" /\ mem'.alone = mem.alone
    BY <1>4, <1>t, <2>2 DEF RunTools, Memories
  <2> HIDE DEF R
  <2>4. PairedSoFar(Rebuilt(log')) /\ PendingTools(Rebuilt(log')) = PendingTools(L) \ R
    BY <1>t, <1>l, <1>p, <2>1, <2>2, PairedResults, ResultsAdded
  <2>5. \A c \in Calls : given'[c] = IF c \in R THEN 1 ELSE given[c]
    BY <1>t, <1>p, <2>1, <2>2
  <2>6. Open' # {}
    BY <1>m, <2>1, <2>2 DEF Open
  <2>7. Paired'
    BY <1>p, <2>4, <2>5, <2>6 DEF Paired
  <2>8. Working'
    BY <1>i, <2>1, <2>3 DEF Working
  <2> QED BY <1>2, <1>m, <2>1, <2>2, <2>7, <2>8
<1>5. CASE AskUser
  <2>1. /\ mem # Idle /\ UNCHANGED <<log, given, status, request>>
        /\ question' \in PendingTools(L)
    BY <1>5, <1>m, MemoryFields DEF AskUser
  <2>2. mem'.stage = "parking" /\ mem'.alone = mem.alone
    BY <1>5, <1>t DEF AskUser, Memories
  <2>3. Paired'
    BY <1>1, <2>1 DEF Open
  <2>4. Working'
    BY <1>i, <2>1, <2>2 DEF Working
  <2> QED BY <1>2, <1>m, <2>1, <2>3, <2>4
<1>6. CASE Park
  <2>1. mem # Idle /\ mem.run \in RunIds /\ question \in PendingTools(L)
    BY <1>6, <1>i, <1>m, MemoryFields DEF Park, Working
  <2>2. UNCHANGED <<log, given, request, question>> /\ mem' = Idle /\ status'[mem.run] = "waiting"
    BY <1>6, <1>t, <2>1 DEF Park
  <2>3. Paired'
    BY <1>1, <2>1, <2>2 DEF Open
  <2>4. Working'
    BY <2>2 DEF Working, Idle
  <2>5. Answering'
    BY <1>i, <1>m, <2>1, <2>2 DEF Answering
  <2> QED BY <2>3, <2>4, <2>5
<1>7. CASE Repair
  <2>1. /\ mem # Idle /\ PendingTools(L) = {} /\ UNCHANGED <<given, status, request>>
        /\ log' = AddMessage(log, Text)
    BY <1>7, <1>i, MemoryFields DEF Repair, Working
  <2>2. mem'.stage = "loop" /\ mem'.alone = mem.alone
    BY <1>7, <1>t DEF Repair, Memories
  <2>3. Rebuilt(log') = Append(L, Text) /\ PendingTools(Rebuilt(log')) = {}
    BY <1>t, <2>1, MessageAdded, MessageTypes, AppendText
  <2>4. PairedSoFar(Append(L, Text))
    BY <1>t, <1>p, <2>1, PairedMessage, MessageTypes DEF Text
  <2>5. Paired'
    BY <1>p, <2>1, <2>3, <2>4 DEF Paired
  <2>6. Working'
    BY <1>i, <2>1, <2>2 DEF Working
  <2> QED BY <1>2, <1>m, <2>1, <2>5, <2>6
<1>8. CASE End
  <2>1. mem # Idle /\ mem.run \in RunIds /\ PendingTools(L) = {}
    BY <1>8, <1>m, MemoryFields DEF End
  <2>2. UNCHANGED <<log, given, request>> /\ mem' = Idle
    BY <1>8 DEF End
  <2>3. \A q \in RunIds : status'[q] # "waiting"
    BY <1>8, <1>t, <1>m, <2>1 DEF End
  <2>4. Paired'
    BY <1>1, <2>1, <2>2
  <2>5. Working'
    BY <2>2 DEF Working, Idle
  <2> QED BY <1>2, <2>1, <2>2, <2>3, <2>4, <2>5
<1>9. CASE LoseRun
  <2>1. mem # Idle /\ mem.run \in RunIds
    BY <1>9, <1>m DEF LoseRun
  <2>2. UNCHANGED <<log, given, request>> /\ mem' = Idle
    BY <1>9 DEF LoseRun
  <2>3. status'[mem.run] = "queued" /\ \A q \in RunIds : status'[q] # "waiting"
    BY <1>9, <1>t, <1>m, <2>1 DEF LoseRun
  <2>4. Paired'
    BY <1>1, <2>1, <2>2, <2>3 DEF Open
  <2>5. Working'
    BY <2>2 DEF Working, Idle
  <2> QED BY <1>2, <2>1, <2>2, <2>3, <2>4, <2>5
<1>10. ASSUME NEW shape \in Shapes, NEW final \in BOOLEAN, ModelTurn(shape, final)
       PROVE  Paired' /\ Working' /\ Answering'
  <2> DEFINE C == {[turn |-> turns + 1, n |-> s.n, ask |-> s.ask] : s \in shape}
  <2>1. C \in SUBSET Calls /\ \A c \in C : c.turn = turns + 1
    BY <1>10, NewCalls DEF ModelTurn, TypeInv
  <2>2. mem # Idle /\ PendingTools(L) = {} /\ (final => C = {})
    BY <1>10, <1>m, MemoryFields DEF ModelTurn
  <2>3. /\ log' = AddMessage(log, Turn(C)) /\ UNCHANGED <<given, status, request>>
        /\ mem' = [mem EXCEPT !.msgs = Append(M, Turn(C)),
                              !.stage = IF final THEN "committing" ELSE "loop"]
    BY <1>10 DEF ModelTurn
  <2>4. mem'.stage = (IF final THEN "committing" ELSE "loop") /\ mem'.alone = mem.alone
    BY <1>t, <2>3 DEF Memories
  <2> HIDE DEF C
  <2>5. Turn(C) \in Messages /\ Turn(C).kind # "results"
    BY <2>1, MessageTypes DEF Turn
  <2>6. Rebuilt(log') = Append(L, Turn(C))
    BY <1>t, <2>3, <2>5, MessageAdded
  <2>7. PairedSoFar(Rebuilt(log')) /\ PendingTools(Rebuilt(log')) = C
    BY <1>t, <1>p, <2>1, <2>2, <2>5, <2>6, PairedMessage, AppendTurn
  <2>8. \A c \in C : given[c] = 0
    <3>1. turns \in Int
      BY BoundsAssumption DEF TypeInv, TypeOK
    <3>2. \A c \in C : c \in Calls /\ c.turn > turns
      BY <2>1, <3>1
    <3> QED BY <3>2 DEF ResultsInv
  <2>9. Open' # {}
    BY <1>m, <2>2, <2>3 DEF Open
  <2>10. Paired'
    BY <1>p, <2>3, <2>7, <2>8, <2>9 DEF Paired
  <2>11. Working'
    BY <1>i, <2>2, <2>4, <2>7 DEF Working
  <2> QED BY <1>2, <1>m, <2>2, <2>3, <2>10, <2>11
<1>11. ASSUME NEW d \in Devices, Submit(d) PROVE Paired' /\ Working' /\ Answering'
  <2>1. Open = {} /\ log' = AddMessage(log, Text) /\ UNCHANGED given
    BY <1>11 DEF Submit
  <2>2. mem = Idle /\ PendingTools(L) = {} /\ ~Asked
    BY <1>m, <1>p, <2>1 DEF Open
  <2>3. mem' = Idle
    BY <1>11, <2>2 DEF Submit
  <2>4. Rebuilt(log') = Append(L, Text) /\ PendingTools(Rebuilt(log')) = {}
    BY <1>t, <2>1, <2>2, MessageAdded, MessageTypes, AppendText
  <2>5. PairedSoFar(Append(L, Text))
    BY <1>t, <1>p, <2>2, PairedMessage, MessageTypes DEF Text
  <2>6. Paired'
    BY <1>p, <2>1, <2>4, <2>5 DEF Paired
  <2>7. Working'
    BY <2>3 DEF Working, Idle
  <2>8. \A e \in Devices : request'[e] = NoRequest
    BY <1>11, <1>t, <1>i DEF Submit, Answering, NoRequest
  <2>9. \A r \in RunIds : status'[r] # "waiting"
    BY <1>11, <1>t, <2>2 DEF Submit
  <2>10. Answering'
    BY <2>8, <2>9 DEF Answering, NoRequest
  <2> QED BY <2>6, <2>7, <2>10
<1>12. ASSUME NEW d \in Devices, ProvideInput(d) PROVE Paired' /\ Working' /\ Answering'
  <2>1. request[d].step = "answer" /\ request[d] # NoRequest
    BY <1>12 DEF ProvideInput, NoRequest
  <2>2. \A e \in Devices : e # d => request[e] = NoRequest
    BY <1>i, <2>1 DEF Answering
  <2>3. request[d].run \in RunIds /\ status[request[d].run] = "waiting" /\ request[d].question = question
    BY <1>i, <2>1 DEF Answering, TypeInv, TypeOK, Carried
  <2>4. mem = Idle
    BY <1>m, <2>3
  <2>5. question \in PendingTools(L)
    BY <1>i, <2>1, <2>2, <2>3 DEF Answering, NoRequest
  <2>6. question \in Calls
    BY <2>5 DEF PendingTools
  <2>7. /\ log' = AddResults(log, {question}) /\ given' = [given EXCEPT ![question] = given[question] + 1]
        /\ UNCHANGED <<status, question>> /\ mem' = Idle
    BY <1>12, <2>3, <2>4 DEF ProvideInput
  <2>8. PairedSoFar(Rebuilt(log')) /\ PendingTools(Rebuilt(log')) = PendingTools(L) \ {question}
    BY <1>t, <1>l, <1>p, <2>5, <2>6, <2>7, PairedResults, ResultsAdded
  <2>9. \A c \in Calls : given'[c] = IF c = question THEN 1 ELSE given[c]
    BY <1>t, <1>p, <2>5, <2>6, <2>7
  <2>10. Open' # {}
    BY <2>3, <2>7 DEF Open
  <2>11. Paired'
    BY <1>p, <2>8, <2>9, <2>10 DEF Paired
  <2>12. Working'
    BY <2>7 DEF Working, Idle
  <2>13. request' = [request EXCEPT ![d] = [request[d] EXCEPT !.step = "resume"]]
    BY <1>12 DEF ProvideInput
  <2>14. request'[d].step = "resume" /\ request'[d].run = request[d].run
         /\ \A e \in Devices : e # d => request'[e] = NoRequest
    BY <1>t, <2>2, <2>13 DEF Requests
  <2>15. Answering'
    BY <2>3, <2>7, <2>14 DEF Answering, NoRequest
  <2> QED BY <2>11, <2>12, <2>15
<1>13. ASSUME NEW d \in Devices, ResumeRun(d) PROVE Paired' /\ Working' /\ Answering'
  <2>1. request[d].step = "resume" /\ request[d] # NoRequest
    BY <1>13 DEF ResumeRun, NoRequest
  <2>2. request[d].run \in RunIds /\ status[request[d].run] = "waiting"
    BY <1>i, <2>1 DEF Answering, TypeInv, TypeOK, Carried
  <2>3. mem' = Idle
    BY <1>13, <1>m, <2>2 DEF ResumeRun
  <2>4. UNCHANGED <<log, given>> /\ status' = [status EXCEPT ![request[d].run] = "queued"]
    BY <1>13, <2>2 DEF ResumeRun
  <2>5. /\ \A q \in RunIds : status'[q] = IF q = request[d].run THEN "queued" ELSE status[q]
        /\ \A q \in RunIds : status[q] = "waiting" => q = request[d].run
    BY <1>t, <2>2, <2>4 DEF QuestionInv
  <2>6. Paired'
    BY <1>1, <2>2, <2>4, <2>5 DEF Open
  <2>7. \A e \in Devices : request'[e] = NoRequest
    BY <1>13, <1>t, <1>i, <2>1 DEF ResumeRun, Answering
  <2>8. Answering'
    BY <2>5, <2>7 DEF Answering, NoRequest
  <2>9. Working'
    BY <2>3 DEF Working, Idle
  <2> QED BY <2>6, <2>8, <2>9
<1>14. ASSUME NEW d \in Devices, Post(d) \/ Abort(d) PROVE Paired' /\ Working' /\ Answering'
  <2>1. UNCHANGED <<log, given, status, mem, question>>
    BY <1>14 DEF Post, Abort
  <2>2. Paired'
    BY <1>1, <2>1 DEF Open
  <2>3. Working'
    BY <1>i, <2>1 DEF Working
  <2>4. CASE Post(d)
    <3>1. (\A e \in Devices : request[e] = NoRequest) /\ (\A e \in Devices : e # d => request'[e] = NoRequest)
      BY <2>4, <1>t DEF Post
    <3>2. Asked => question \in PendingTools(L)
      BY <1>i, <3>1 DEF Answering, NoRequest
    <3>3. \/ request'[d].step = "submit"
          \/ /\ request'[d].step = "answer" /\ request'[d].question = question
             /\ status[request'[d].run] = "waiting"
      BY <2>4, <1>t DEF Post, Requests
    <3>4. Answering'
      BY <2>1, <3>1, <3>2, <3>3 DEF Answering, NoRequest
    <3> QED BY <2>2, <2>3, <3>4
  <2>5. CASE Abort(d)
    <3>1. request[d] # NoRequest /\ request[d].step # "resume"
      BY <2>5 DEF Abort
    <3>2. \A e \in Devices : e # d => request[e] = NoRequest
      BY <1>i, <3>1 DEF Answering
    <3>3. Asked => question \in PendingTools(L)
      BY <1>i, <3>1, <3>2 DEF Answering, NoRequest
    <3>4. \A e \in Devices : request'[e] = NoRequest
      BY <2>5, <1>t, <3>2 DEF Abort
    <3>5. Answering'
      BY <2>1, <3>3, <3>4 DEF Answering, NoRequest
    <3> QED BY <2>2, <2>3, <3>5
  <2> QED BY <1>14, <2>4, <2>5
<1>15. ASSUME NEW r \in RunIds, Cancel(r) PROVE FALSE
  BY <1>15 DEF Cancel
<1>16. CASE UNCHANGED vars
  <2>1. UNCHANGED <<log, given, question, status, mem, request>>
    BY <1>16 DEF vars
  <2> QED BY <1>i, <2>1 DEF Paired, Working, Answering, Open
<1> QED
  BY <1>3, <1>4, <1>5, <1>6, <1>7, <1>8, <1>9, <1>10, <1>11, <1>12, <1>13, <1>14, <1>15, <1>16
     DEF Next, Work, Handle
-----------------------------------------------------------------------------
Inv == TypeInv /\ MemoryInv /\ QuestionInv /\ ResultsInv /\ OrderlyInv

LEMMA InvInit == Init => Inv
BY TypeInvInit, MemoryInvInit, QuestionInvInit, ResultsInvInit, OrderlyInvInit DEF Inv

LEMMA InvStep == Inv /\ [Next]_vars => Inv'
<1> SUFFICES ASSUME Inv, [Next]_vars PROVE Inv'
  OBVIOUS
<1>1. TypeInv /\ MemoryInv /\ QuestionInv /\ ResultsInv /\ OrderlyInv
  BY DEF Inv
<1>2. TypeInv'
  BY <1>1, TypeInvStep
<1>3. MemoryInv' /\ QuestionInv' /\ ResultsInv' /\ OrderlyInv'
  BY <1>1, <1>2, MemoryInvStep, QuestionInvStep, ResultsInvStep, OrderlyInvStep
<1> QED BY <1>2, <1>3 DEF Inv

LEMMA InvAlways == Spec => []Inv
<1>1. Init => Inv
  BY InvInit
<1>2. Inv /\ [Next]_vars => Inv'
  BY InvStep
<1> QED BY <1>1, <1>2, PTL DEF Spec

\* Every variable has its type, the worker of a running run is at work on it,
\* and an answer on its way carries a question (api.go:622).
THEOREM TypeCorrect == Spec => []TypeOK
<1>1. Inv => TypeOK
  BY DEF Inv, TypeInv
<1> QED BY <1>1, InvAlways, PTL

\* reconstruct rebuilds, at any step of a worker nobody has written to, the very
\* messages the worker holds (harness.go:71).
THEOREM MemoryCorrect == Spec => []MemoryIsLog
<1>1. Inv => MemoryIsLog
  BY DEF Inv, MemoryInv
<1> QED BY <1>1, InvAlways, PTL

\* No turn is logged while a call of an earlier one has no result (harness.go:175),
\* whatever users write, answer and stop meanwhile.
THEOREM NothingDanglesCorrect == Spec => []NothingDangles
<1>1. Inv => NothingDangles
  BY DEF Inv, MemoryInv
<1> QED BY <1>1, InvAlways, PTL

\* A tool call has at most one result, over all takeovers (harness.go:518).
THEOREM ToolsOnce == Spec => []ToolsAnsweredOnce
<1>1. Inv => ToolsAnsweredOnce
  BY DEF Inv, ResultsInv, ToolsAnsweredOnce
<1> QED BY <1>1, InvAlways, PTL

\* While a run is parked the newest question is one of the last turn's
\* (api.go:622).
THEOREM QuestionCorrect == Spec => []QuestionIsCurrent
<1>1. Inv => QuestionIsCurrent
  <2> SUFFICES ASSUME Inv, \E r \in RunIds : status[r] = "waiting"
               PROVE  question \in LastCalls(Rebuilt(log))
    BY DEF QuestionIsCurrent, LastCalls
  <2> QED BY DEF Inv, QuestionInv
<1> QED BY <1>1, InvAlways, PTL

\* While all is done in order, what is sent to the model is well paired and no
\* call has two results, at however many steps the worker was replaced.
THEOREM TakeoverCorrect == Spec => []TakeoverIsInvisible
<1>1. Inv => TakeoverIsInvisible
  <2> SUFFICES ASSUME Inv, orderly
               PROVE  (Asks => WellPaired(mem.msgs)) /\ \A c \in Calls : given[c] <= 1
    BY DEF TakeoverIsInvisible
  <2>1. TypeInv /\ MemoryIsLog /\ Paired /\ Working
    BY DEF Inv, OrderlyInv, MemoryInv
  <2>2. ASSUME Asks PROVE WellPaired(mem.msgs)
    <3>1. mem # Idle /\ mem.msgs \in Seq(Messages) /\ PendingTools(mem.msgs) = {}
      BY <2>1, <2>2, MemoryFields DEF Asks
    <3>2. mem.msgs = Rebuilt(log)
      BY <2>1, <3>1 DEF Working, MemoryIsLog
    <3> QED BY <2>1, <3>1, <3>2, PairedWell DEF Paired
  <2> QED BY <2>1, <2>2 DEF Paired
<1> QED BY <1>1, InvAlways, PTL
=============================================================================
