--------------------------- MODULE ServerConsole ---------------------------
(***************************************************************************)
(* What a screen client may rely on, however the goroutines, the terminal  *)
(* and the connections interleave: when it is attached it has the log, at  *)
(* least the last Capacity chunks with no gap; from then on it gets every  *)
(* chunk, one after the other; and the server's output does not go on      *)
(* before every attached client has been sent the last of it.              *)
(***************************************************************************)
EXTENDS Naturals

CONSTANTS
    Clients,
    Capacity   \* how many chunks the log holds

VARIABLES
    made,      \* the number of the newest chunk of the log
    view       \* of each client: whether it is attached, and what it was sent

vars == <<made, view>>

Away == [state |-> "away", seen |-> {}]
Gone == [state |-> "gone", seen |-> {}]
On(seen) == [state |-> "on", seen |-> seen]

Init == made = 0 /\ view = [c \in Clients |-> Away]

(* A client that has its own chunks has also the newest.                   *)
UpToDate(c) == view[c].state = "on" /\ made > 0 => made \in view[c].seen

Log ==
    /\ \A c \in Clients : UpToDate(c)
    /\ made' = made + 1
    /\ UNCHANGED view

(* The newest chunk may be on its way to the client.                       *)
Open(c) ==
    /\ view[c] = Away
    /\ \E first \in 1 .. made + 1, last \in {made, made - 1} :
          /\ IF last > Capacity THEN first <= last - Capacity + 1 ELSE first = 1
          /\ view' = [view EXCEPT ![c] = On(first .. last)]
    /\ UNCHANGED made

Get(c) ==
    /\ view[c].state = "on"
    /\ made > 1 => made - 1 \in view[c].seen
    /\ view' = [view EXCEPT ![c] = On(@.seen \cup {made})]
    /\ UNCHANGED made

Leave(c) ==
    /\ view' = [view EXCEPT ![c] = Gone]
    /\ UNCHANGED made

Next == Log \/ \E c \in Clients : Open(c) \/ Get(c) \/ Leave(c)

Spec == Init /\ [][Next]_vars
=============================================================================
