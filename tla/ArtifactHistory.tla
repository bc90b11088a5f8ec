-------------------------- MODULE ArtifactHistory --------------------------
(***************************************************************************)
(* What readers are promised, without workspaces, blobs, files or crashes: *)
(* a project has a history of whole versions, each with the required file, *)
(* that only grows; a version never changes from the moment it can be      *)
(* read; and the public address shows one of them.                         *)
(***************************************************************************)
EXTENDS Naturals, Sequences

CONSTANTS Projects, Paths, Home, Contents, NoFile

VARIABLES
    history,   \* of each project: its versions, the oldest first
    live       \* of each project: the version visitors see, 0 for none

vars == <<history, live>>

Artifacts == {m \in [Paths -> Contents \cup {NoFile}] : m[Home] # NoFile}

Init ==
    /\ history = [p \in Projects |-> <<>>]
    /\ live = [p \in Projects |-> 0]

\* A version is added once.
Add(p, m) ==
    /\ \A v \in DOMAIN history[p] : history[p][v] # m
    /\ history' = [history EXCEPT ![p] = Append(@, m)]
    /\ UNCHANGED live

GoLive(p, v) ==
    /\ live' = [live EXCEPT ![p] = v]
    /\ UNCHANGED history

\* That a history changes goes without saying, but saying it first spares TLC
\* most artifacts.
Next ==
    \E p \in Projects :
        \/ history'[p] # history[p] /\ \E m \in Artifacts : Add(p, m)
        \/ \E v \in DOMAIN history[p] : GoLive(p, v)

Spec == Init /\ [][Next]_vars
=============================================================================
