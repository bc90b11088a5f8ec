---------------------------- MODULE SessionFeed ----------------------------
(***************************************************************************)
(* What the event log promises a session's pages, without streams,         *)
(* channels, cursors in URLs, takeovers or crashes: the log only grows, a  *)
(* superseded holder adds nothing, and a page shows the events one after   *)
(* the other, from the first, unless it replays them all.                  *)
(***************************************************************************)
EXTENDS Naturals, Sequences

CONSTANTS
    Pages,
    Generations,   \* of the leases events are appended under, 0 for none
    Batches        \* numbers of events in one append

VARIABLES
    log,           \* the generation of each event
    shown          \* of each page: how many events it shows

vars == <<log, shown>>

Init ==
    /\ log = <<>>
    /\ shown = [c \in Pages |-> 0]

Add(g, n) ==
    /\ g # 0 => \A i \in DOMAIN log : log[i] <= g
    /\ log' = log \o [i \in 1 .. n |-> g]
    /\ UNCHANGED shown

Open(c, n) ==
    /\ shown' = [shown EXCEPT ![c] = n]
    /\ UNCHANGED log

ShowNext(c) ==
    /\ shown[c] < Len(log)
    /\ shown' = [shown EXCEPT ![c] = @ + 1]
    /\ UNCHANGED log

Next ==
    \/ \E g \in Generations, n \in Batches : Add(g, n)
    \/ \E c \in Pages : ShowNext(c) \/ \E n \in {0, Len(log)} : Open(c, n)

Spec == Init /\ [][Next]_vars
=============================================================================
