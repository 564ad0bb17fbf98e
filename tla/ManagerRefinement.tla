------------------------- MODULE ManagerRefinement -------------------------
(***************************************************************************)
(* The manager implements the abstract registry.                           *)
(***************************************************************************)
EXTENDS Manager

\* A listed server is up while its process has not ended.
StatusOf(n) ==
    IF servers[n] = None THEN "absent"
    ELSE IF proc[servers[n]] \in {"running", "killed"} THEN "up" ELSE "down"

WantsOf(n) == servers[n] # None /\ srv[servers[n]].auto

\* A wait goroutine that is going to call Start again, or is in it.
Owing(i) ==
    \/ pc[i] = "decide" /\ srv[i].auto
    \/ pc[i] \in {"sleep"} \cup StartPhases

OwedOf(n) == {i \in Instances : Owing(i) /\ call[i].name = n}

Registry == INSTANCE ServerRegistry
                WITH Tokens <- Instances,
                     status <- [n \in Names |-> StatusOf(n)],
                     wants <- [n \in Names |-> WantsOf(n)],
                     owed <- [n \in Names |-> OwedOf(n)]

\* Whatever the interleaving, every step of the manager is one the registry
\* allows: no entry is overwritten, none goes away before its process died,
\* and no restart happens that the exited server did not want.
RefinesRegistry == Registry!Spec
=============================================================================
