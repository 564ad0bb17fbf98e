----------------------------- MODULE MCManager -----------------------------
(* Instances of Manager for TLC: two servers, and a steps' relation without  *)
(* the choices that make no difference.                                      *)
EXTENDS ManagerRefinement

CONSTANTS Other, OtherPort  \* a server without automatic restarts, and its port

\* A free Server object is like any other, so that Spawn may take the first.
FirstFree ==
    \A i \in Instances :
        proc[i] = "none" /\ proc'[i] = "running" => i = CHOOSE j \in FreeInstances : TRUE

\* Other has a port of its own; the rest have any other.
OwnPort ==
    \A c \in Callers :
        pc[c] = "build" /\ pc'[c] = "ports" =>
            (call'[c].port = OtherPort <=> call[c].name = Other)

\* Nobody sets Other to restart.
NoRestart ==
    /\ ~diskAuto'[Other]
    /\ servers'[Other] # None => ~srv'[servers'[Other]].auto

\* None of the three blocks a step that Fairness asks for.
OtherSpec ==
    /\ Init /\ ~diskAuto[Other]
    /\ [][Next /\ FirstFree /\ OwnPort /\ NoRestart]_vars
    /\ Fairness
=============================================================================
