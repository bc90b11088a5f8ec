--------------------------- MODULE MCRunExecution ---------------------------
(* Instances of RunExecution for TLC: one session of one project.           *)
EXTENDS RunExecution, TLC

MCSessions == {"s1"}
MCProjects == {"p1"}
MCTenants == {"t1"}
MCProjectOf == [s \in MCSessions |-> "p1"]
MCTenantOf == [p \in MCProjects |-> "t1"]
MCQuota == [t \in MCTenants |-> 2]
MCKeys == {"k1"}

Symmetry == Permutations(Workers) \cup Permutations(Devices)
=============================================================================
