-------------------------- MODULE ScreenRefinement --------------------------
(***************************************************************************)
(* The screen sessions implement the console.                              *)
(***************************************************************************)
EXTENDS Screen

(* What was put on the connection to a client, but for the exit notice.    *)
Sent(c) == (got[c] \cup Range(conn[c])) \ {0}

(* A client is on from the moment Attach starts readFromClient to the end  *)
(* of one of the two.                                                      *)
Stage(c) ==
    IF client[c] = "closed" \/ serve[c].pc \in {"unregister", "end"} THEN "gone"
    ELSE IF serve[c].pc = "read" THEN "on" ELSE "away"

ViewOf(c) == [state |-> Stage(c), seen |-> IF Stage(c) = "on" THEN Sent(c) ELSE {}]

Console == INSTANCE ServerConsole WITH made <- cnt, view <- [c \in Clients |-> ViewOf(c)]

(* Every step of a screen session is one the console allows: an attached   *)
(* client has no gap at any moment, what it was sent only grows, by the    *)
(* chunk that comes next, and Broadcast lets no chunk into the log before  *)
(* the last one was sent to every attached client (manager.go:403).        *)
RefinesConsole == Console!Spec
=============================================================================
