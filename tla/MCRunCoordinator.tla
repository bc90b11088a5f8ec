-------------------------- MODULE MCRunCoordinator --------------------------
(* Instances of RunCoordinator for TLC.                                     *)
EXTENDS RunCoordinator, TLC

CONSTANTS s1, s2, s3, s4   \* model values: sessions

\* Two sessions on two projects of one tenant.
MCSessions == {s1, s2}
MCProjects == {"p1", "p2"}
MCTenants == {"t1"}
MCKeys == {"k1", "k2"}
MCProjectOf == [s \in MCSessions |-> IF s = s1 THEN "p1" ELSE "p2"]
MCTenantOf == [p \in MCProjects |-> "t1"]
MCQuotaOne == [t \in MCTenants |-> 1]
MCQuotaTwo == [t \in MCTenants |-> 2]

\* A project with two conversations whose tenant may run two at a time, and two
\* projects whose tenant may run one.
MCFourSessions == {s1, s2, s3, s4}
MCThreeProjects == {"p1", "p2", "p3"}
MCTwoTenants == {"t1", "t2"}
MCFourProjectOf == [s \in MCFourSessions |->
    CASE s \in {s1, s2} -> "p1" [] s = s3 -> "p2" [] s = s4 -> "p3"]
MCThreeTenantOf == [p \in MCThreeProjects |-> IF p = "p1" THEN "t1" ELSE "t2"]
MCQuotaMixed == [t \in MCTwoTenants |-> IF t = "t1" THEN 2 ELSE 1]
MCOneKey == {"k1"}

\* One session, for the questions about the runs of one project.
MCOneSession == {s1}
MCOneProject == {"p1"}
MCOneProjectOf == [s \in MCOneSession |-> "p1"]
MCOneTenantOf == [p \in MCOneProject |-> "t1"]

WorkerSymmetry == Permutations(Workers)

\* The sessions of p1 are alike, and so are p2 and p3 with their sessions:
\* a state names the projects through the sessions only.
TurnsSymmetry == WorkerSymmetry \cup Permutations({s1, s2}) \cup Permutations({s3, s4})
=============================================================================
