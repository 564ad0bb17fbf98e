------------------------------ MODULE Startup -------------------------------
(***************************************************************************)
(* The start of a daemon: the two goroutines that remove and bind the      *)
(* socket files, the ping that finds out whether a daemon is running, the  *)
(* boot and the main configuration.  A daemon that dies leaves its socket  *)
(* files behind; several may be started.  SET graceperiod reaches the      *)
(* daemon whose socket is at the path, also while it boots.                *)
(***************************************************************************)
EXTENDS Naturals

CONSTANTS
    Daemons,
    Values,        \* grace periods
    MaxLaunches,   \* bound: launches
    None

ASSUME NoneOK == None \notin Daemons /\ None \notin Values

VARIABLES
    path,          \* path[s]: the daemon whose socket is at the path, None without a file
    main,          \* step of Run
    lst,           \* lst[d][s]: step of Listen and of listenScreen
    peer,          \* the daemon that a ping has been connected to
    disk,          \* grace period in main-cfg.json, None without the file
    copy, grace,   \* the configuration handleMainConfig has loaded, and the manager's
    launches,      \* number of launches
    contested,     \* history: another daemon lived at the same time
    panicked,      \* history: a socket could not be bound
    raced          \* history: the grace period was set during the boot, or could not be saved

vars == <<path, main, lst, peer, disk, copy, grace, launches, contested, panicked, raced>>

Sockets == {"manager", "screen"}
Alive(d) == main[d] # "off"
NoListener == [s \in Sockets |-> "none"]

TypeOK ==
    /\ path \in [Sockets -> Daemons \cup {None}]
    /\ main \in [Daemons -> {"off", "dial", "wait", "boot", "assign", "up", "refused"}]
    /\ lst \in [Daemons -> [Sockets -> {"none", "remove", "bind", "accept"}]]
    /\ peer \in [Daemons -> Daemons \cup {None}]
    /\ disk \in Values \cup {None}
    /\ copy \in [Daemons -> Values \cup {None}] /\ grace \in [Daemons -> Values \cup {None}]
    /\ launches \in Nat
    /\ contested \in [Daemons -> BOOLEAN] /\ panicked \in [Daemons -> BOOLEAN] /\ raced \in [Daemons -> BOOLEAN]
    /\ \A d \in Daemons :
          /\ ~Alive(d) <=> lst[d] = NoListener
          /\ peer[d] # None <=> main[d] \in {"wait", "refused"}
          /\ main[d] = "up" => grace[d] \in Values

Init ==
    /\ path = [s \in Sockets |-> None]
    /\ main = [d \in Daemons |-> "off"] /\ lst = [d \in Daemons |-> NoListener]
    /\ peer = [d \in Daemons |-> None]
    /\ disk \in Values \cup {None}
    /\ copy = [d \in Daemons |-> None] /\ grace = [d \in Daemons |-> None]
    /\ launches = 0
    /\ contested = [d \in Daemons |-> FALSE] /\ panicked = [d \in Daemons |-> FALSE]
    /\ raced = [d \in Daemons |-> FALSE]

-----------------------------------------------------------------------------
Config == <<disk, copy, grace, raced>>
History == <<launches, contested, panicked>>
(* Listen and listenScreen run while their goroutine is scheduled.         *)
Listens(d, s, pc) == lst' = [lst EXCEPT ![d][s] = pc]

Launch(d) ==
    /\ main[d] = "off" /\ launches < MaxLaunches
    /\ main' = [main EXCEPT ![d] = "dial"]
    /\ lst' = [lst EXCEPT ![d] = [s \in Sockets |-> "remove"]]
    /\ launches' = launches + 1
    /\ contested' = [e \in Daemons |-> IF e = d THEN \E f \in Daemons \ {d} : Alive(f)
                                       ELSE contested[e] \/ Alive(e)]
    /\ panicked' = [panicked EXCEPT ![d] = FALSE]
    /\ raced' = [raced EXCEPT ![d] = FALSE]
    /\ copy' = [copy EXCEPT ![d] = None] /\ grace' = [grace EXCEPT ![d] = None]
    /\ UNCHANGED <<path, peer, disk>>

(* The end of the process, by whatever cause: the files stay.              *)
Dies(d) ==
    /\ main' = [main EXCEPT ![d] = "off"]
    /\ lst' = [lst EXCEPT ![d] = NoListener]
    /\ peer' = [peer EXCEPT ![d] = None]
    /\ UNCHANGED <<path, launches, contested>> /\ UNCHANGED Config

Crash(d) ==
    /\ Alive(d) /\ Dies(d) /\ UNCHANGED panicked

(* Mutant: a socket file that is there is left alone.                      *)
RemoveNothing(d, s) ==
    /\ lst[d][s] = "remove"
    /\ Listens(d, s, "bind")
    /\ UNCHANGED <<path, main, peer>> /\ UNCHANGED Config /\ UNCHANGED History
RemoveSocket(d, s) ==
    /\ lst[d][s] = "remove"
    /\ path' = [path EXCEPT ![s] = None]
    /\ Listens(d, s, "bind")
    /\ UNCHANGED <<main, peer>> /\ UNCHANGED Config /\ UNCHANGED History

(* Binding fails if there is a file, and ends the process.                 *)
Bind(d, s) ==
    /\ lst[d][s] = "bind"
    /\ \/ /\ path[s] = None
          /\ path' = [path EXCEPT ![s] = d]
          /\ Listens(d, s, "accept")
          /\ UNCHANGED <<main, peer>> /\ UNCHANGED Config /\ UNCHANGED History
       \/ /\ path[s] # None
          /\ Dies(d)
          /\ panicked' = [panicked EXCEPT ![d] = TRUE]

-----------------------------------------------------------------------------
(* PingDaemon: the connection goes to the socket at the path, which may be *)
(* the daemon's own.                                                       *)
Dial(d) ==
    /\ main[d] = "dial"
    /\ LET e == path["manager"]
       IN  IF e # None /\ Alive(e) /\ lst[e]["manager"] = "accept"
           THEN main' = [main EXCEPT ![d] = "wait"] /\ peer' = [peer EXCEPT ![d] = e]
           ELSE main' = [main EXCEPT ![d] = "boot"] /\ UNCHANGED peer
    /\ UNCHANGED <<path, lst>> /\ UNCHANGED Config /\ UNCHANGED History

(* Mutant: connections are served once the daemon is up.                   *)
AnsweringWhenUp(e) == main[e] = "up"
(* The accept loop serves from the first moment.                           *)
Answering(e) == lst[e]["manager"] = "accept"

Pong(d) ==
    /\ main[d] = "wait" /\ Answering(peer[d])
    /\ main' = [main EXCEPT ![d] = "refused"]
    /\ UNCHANGED <<path, lst, peer>> /\ UNCHANGED Config /\ UNCHANGED History

PingFails(d) ==
    /\ main[d] = "wait" /\ ~Alive(peer[d])
    /\ main' = [main EXCEPT ![d] = "boot"]
    /\ peer' = [peer EXCEPT ![d] = None]
    /\ UNCHANGED <<path, lst>> /\ UNCHANGED Config /\ UNCHANGED History

(* Run returns "daemon already running".                                   *)
Refuse(d) ==
    /\ main[d] = "refused"
    /\ Dies(d) /\ UNCHANGED panicked

(* The boot loop is over and the main configuration loaded; a sample is    *)
(* made where there is none.                                               *)
LoadMainConfig(d) ==
    /\ main[d] = "boot"
    /\ main' = [main EXCEPT ![d] = "assign"]
    /\ \E v \in Values : /\ disk # None => v = disk
                         /\ disk' = v /\ copy' = [copy EXCEPT ![d] = v]
    /\ UNCHANGED <<path, lst, peer, grace, raced>> /\ UNCHANGED History

(* Mutant: a configuration that SET has already put into use is kept.      *)
HandleMainConfigOnce(d) ==
    /\ main[d] = "assign"
    /\ main' = [main EXCEPT ![d] = "up"]
    /\ copy' = [copy EXCEPT ![d] = None]
    /\ UNCHANGED <<path, lst, peer, disk, grace, raced>> /\ UNCHANGED History
HandleMainConfig(d) ==
    /\ main[d] = "assign"
    /\ main' = [main EXCEPT ![d] = "up"]
    /\ grace' = [grace EXCEPT ![d] = copy[d]]
    /\ copy' = [copy EXCEPT ![d] = None]
    /\ UNCHANGED <<path, lst, peer, disk, raced>> /\ UNCHANGED History

(* Mutant: the configuration that was saved is not put into use.           *)
SetGracePeriodSavesOnly(d, v) ==
    /\ path["manager"] = d /\ Alive(d) /\ lst[d]["manager"] = "accept" /\ disk # None
    /\ disk' = v
    /\ raced' = [raced EXCEPT ![d] = @ \/ main[d] # "up"]
    /\ UNCHANGED <<path, main, lst, peer, copy, grace>> /\ UNCHANGED History
(* SET graceperiod loads the file, puts the new configuration into use and *)
(* saves it, which may fail.                                               *)
setGracePeriodCfg(d, v) ==
    /\ path["manager"] = d /\ Alive(d) /\ lst[d]["manager"] = "accept" /\ disk # None
    /\ grace' = [grace EXCEPT ![d] = v]
    /\ disk' \in {v, disk}
    /\ raced' = [raced EXCEPT ![d] = @ \/ main[d] # "up" \/ disk' # v]
    /\ UNCHANGED <<path, main, lst, peer, copy>> /\ UNCHANGED History

Run(d) == Dial(d) \/ Pong(d) \/ PingFails(d) \/ Refuse(d) \/ LoadMainConfig(d) \/ HandleMainConfig(d)

Next ==
    \E d \in Daemons :
       \/ Launch(d) \/ Crash(d)
       \/ \E s \in Sockets : RemoveSocket(d, s) \/ Bind(d, s)
       \/ Run(d)
       \/ \E v \in Values : setGracePeriodCfg(d, v)

Spec == Init /\ [][Next]_vars

(* The main goroutine and the listeners are scheduled.                     *)
FairSpec ==
    /\ Spec
    /\ \A d \in Daemons : /\ WF_vars(Run(d))
                          /\ \A s \in Sockets : WF_vars(RemoveSocket(d, s) \/ Bind(d, s))
-----------------------------------------------------------------------------
(* A daemon that is the only one can bind its sockets, whatever a daemon   *)
(* that died has left, and is then the one that the paths lead to          *)
(* (socket.go:15, 39).                                                     *)
AloneListens ==
    \A d \in Daemons : contested[d]
        \/ /\ ~panicked[d]
           /\ \A s \in Sockets : lst[d][s] = "accept" => path[s] = d

(* The grace period a daemon uses at its shutdown is the one in            *)
(* main-cfg.json, after every crash, restart and SET, unless it was set    *)
(* while the daemon booted (daemon.go:120) or could not be saved.          *)
GraceAgrees ==
    \A d \in Daemons : main[d] = "up" /\ ~contested[d] /\ ~raced[d] => grace[d] = disk

(* A daemon that is launched comes up, refuses to run or dies: the ping    *)
(* never waits for ever, not even for the daemon's own answer.             *)
LaunchDecides == \A d \in Daemons : Alive(d) ~> main[d] \in {"up", "off"}

(* "daemon already running" is said of another daemon (daemon.go:43).      *)
AlreadyRunningIsTrue == \A d \in Daemons : main[d] = "refused" => peer[d] # d
=============================================================================
