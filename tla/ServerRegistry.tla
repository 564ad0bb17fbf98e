--------------------------- MODULE ServerRegistry ---------------------------
(***************************************************************************)
(* What a user of the daemon may rely on, whatever its goroutines do: a    *)
(* name has one server at most; an entry goes away only after its process  *)
(* died (or with the whole daemon); and a server comes back by itself only *)
(* if it still wanted to when its entry went away, and at most once.       *)
(***************************************************************************)
CONSTANTS
    Names,   \* server names
    Tokens   \* each stands for one automatic restart that is owed

VARIABLES
    status,  \* of each name: absent, up, or down (listed, process dead)
    wants,   \* the listed server would restart if it went away now
    owed     \* the restarts owed to servers of that name that went away

vars == <<status, wants, owed>>

TypeOK ==
    /\ status \in [Names -> {"absent", "up", "down"}]
    /\ wants \in [Names -> BOOLEAN]
    /\ owed \in [Names -> SUBSET Tokens]

Init ==
    /\ status = [n \in Names |-> "absent"]
    /\ wants = [n \in Names |-> FALSE]
    /\ owed = [n \in Names |-> {}]

\* A server is listed.  Its process may have died a moment before.
Appear(n) ==
    /\ status[n] = "absent"
    /\ \E s \in {"up", "down"} : status' = [status EXCEPT ![n] = s]
    /\ \E b \in BOOLEAN : wants' = [wants EXCEPT ![n] = b]

Begin(n) == Appear(n) /\ UNCHANGED owed

Resume(n, t) ==
    /\ t \in owed[n]
    /\ Appear(n)
    /\ owed' = [owed EXCEPT ![n] = @ \ {t}]

\* An automatic restart fails; it is not tried again.
GiveUp(n, t) ==
    /\ t \in owed[n]
    /\ owed' = [owed EXCEPT ![n] = @ \ {t}]
    /\ UNCHANGED <<status, wants>>

\* STOP, KILL and SET autorestart, accepted for a listed server.
Change(n, b) ==
    /\ status[n] # "absent"
    /\ wants' = [wants EXCEPT ![n] = b]
    /\ UNCHANGED <<status, owed>>

Die(n) ==
    /\ status[n] = "up"
    /\ status' = [status EXCEPT ![n] = "down"]
    /\ UNCHANGED <<wants, owed>>

Leave(n) ==
    /\ status[n] = "down"
    /\ status' = [status EXCEPT ![n] = "absent"]
    /\ wants' = [wants EXCEPT ![n] = FALSE]
    /\ \/ wants[n] /\ \E t \in Tokens :
            /\ \A m \in Names : t \notin owed[m]
            /\ owed' = [owed EXCEPT ![n] = @ \cup {t}]
       \/ ~wants[n] /\ UNCHANGED owed

\* The daemon dies, and its servers with it.
Crash ==
    /\ status' = [n \in Names |-> "absent"]
    /\ wants' = [n \in Names |-> FALSE]
    /\ owed' = [n \in Names |-> {}]

Next ==
    \/ \E n \in Names : Begin(n) \/ Die(n) \/ Leave(n)
    \/ \E n \in Names, t \in Tokens : Resume(n, t) \/ GiveUp(n, t)
    \/ \E n \in Names, b \in BOOLEAN : Change(n, b)
    \/ Crash

Spec == Init /\ [][Next]_vars
=============================================================================
