---------------------------- MODULE ProjectTurns ----------------------------
(***************************************************************************)
(* What the run coordinator promises its callers, without leases, workers, *)
(* keys or quotas: the runs of a project take turns.  A run gets the       *)
(* project's turn only when nobody has it, keeps it while it works and     *)
(* while it is parked on a question, and gives it back when it ends, is    *)
(* interrupted or is answered.  An ended run never comes back.             *)
(***************************************************************************)
CONSTANTS Runs, Projects, NoRun, NoProject

VARIABLES
    phase,    \* of each run
    project,  \* of each run, NoProject before it is accepted
    turn      \* of each project: the run that has it, or NoRun

vars == <<phase, project, turn>>

Init ==
    /\ phase = [r \in Runs |-> "absent"]
    /\ project = [r \in Runs |-> NoProject]
    /\ turn = [p \in Projects |-> NoRun]

Accept(r, p) ==
    /\ phase[r] = "absent"
    /\ phase' = [phase EXCEPT ![r] = "ready"]
    /\ project' = [project EXCEPT ![r] = p]
    /\ UNCHANGED turn

Start(r) ==
    /\ phase[r] = "ready" /\ turn[project[r]] = NoRun
    /\ phase' = [phase EXCEPT ![r] = "active"]
    /\ turn' = [turn EXCEPT ![project[r]] = r]
    /\ UNCHANGED project

Park(r) ==
    /\ phase[r] = "active"
    /\ phase' = [phase EXCEPT ![r] = "parked"]
    /\ UNCHANGED <<project, turn>>

\* The run gives the turn back, to come again (interrupted, or answered) or
\* for good.
GiveBack(r, next) ==
    /\ phase[r] \in {"active", "parked"}
    /\ phase' = [phase EXCEPT ![r] = next]
    /\ turn' = [turn EXCEPT ![project[r]] = NoRun]
    /\ UNCHANGED project

\* A run that is still waiting for its turn is cancelled.
Withdraw(r) ==
    /\ phase[r] = "ready"
    /\ phase' = [phase EXCEPT ![r] = "ended"]
    /\ UNCHANGED <<project, turn>>

Next ==
    \E r \in Runs :
        \/ \E p \in Projects : Accept(r, p)
        \/ Start(r) \/ Park(r) \/ Withdraw(r)
        \/ \E next \in {"ready", "ended"} : GiveBack(r, next)

Spec == Init /\ [][Next]_vars
=============================================================================
