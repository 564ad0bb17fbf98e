------------------------------- MODULE Daemon -------------------------------
(***************************************************************************)
(* The main goroutine of the daemon (daemon/daemon.go) beside the manager  *)
(* and its connections: starting the servers marked for boot, waiting for  *)
(* a signal, and the graceful shutdown.  One life of the daemon: it ends   *)
(* when Run returns, when a signal finds no handler, or when the runtime   *)
(* aborts it, and every process of its container ends with it.             *)
(***************************************************************************)
EXTENDS Manager

CONSTANTS
    Main,      \* the goroutine of Run, which calls Start like a connection
    BootNames, \* servers with StartOnBoot in their config.json
    Commands   \* the commands that clients send while this daemon lives

ASSUME MainAssumption == Main \in Handlers

ASSUME BootAssumption == BootNames \subseteq Names

ASSUME CommandsAssumption ==
    Commands \subseteq {"START", "STOP", "KILL", "SET", "CHECK", "SCREEN"}

VARIABLES
    main,      \* where Run is
    bootQueue, \* servers the boot loop has still to start
    swept,     \* names the loop over m.servers in progress has handled
    due,       \* Servers in the table since the loop over m.servers began
    timer,     \* the grace period's one-shot timer
    found      \* history: Servers in the table since the latest sweep began

dvars == <<main, bootQueue, swept, due, timer, found>>

Ended == {"returned", "failed", "terminated", "aborted"}

\* From signal.Notify on, a signal is taken from the channel; before, it
\* terminates the process.
BeforeNotify == {"boot", "config"}

DaemonTypeOK ==
    /\ TypeOK
    /\ main \in BeforeNotify \cup Ended
                \cup {"serve", "count", "stopall", "stopping", "drain", "killall"}
    /\ bootQueue \subseteq BootNames
    /\ swept \subseteq Names
    /\ due \subseteq Instances
    /\ timer \in {"off", "armed", "spent"}
    /\ found \subseteq Instances

DaemonInit ==
    /\ Init
    /\ main = "boot"
    /\ bootQueue = BootNames
    /\ swept = {}
    /\ due = {}
    /\ timer = "off"
    /\ found = {}

Listed == {servers[n] : n \in {m \in Names : servers[m] # None}}

-----------------------------------------------------------------------------
(***************************************************************************)
(* Boot and signals                                                        *)
(***************************************************************************)

\* The loop over the list of servers calls Start for one after the other.
BootStart(n) ==
    /\ main = "boot"
    /\ n \in bootQueue
    /\ StartRequest(Main, n)
    /\ bootQueue' = bootQueue \ {n}
    /\ UNCHANGED <<main, swept, due, timer, found>>

BootDone ==
    /\ main = "boot"
    /\ pc[Main] = "idle"
    /\ bootQueue = {}
    /\ main' = "config"
    /\ UNCHANGED vars
    /\ UNCHANGED <<bootQueue, swept, due, timer, found>>

\* handleMainConfig loads the main configuration or creates it; an error
\* makes Run return.
HandleMainConfig ==
    /\ main = "config"
    /\ main' \in {"serve", "failed"}
    /\ UNCHANGED vars
    /\ UNCHANGED <<bootQueue, swept, due, timer, found>>

\* SIGINT or SIGTERM.
Signal ==
    /\ \/ main \in BeforeNotify /\ main' = "terminated"
       \/ main = "serve" /\ main' = "count"
    /\ UNCHANGED vars
    /\ UNCHANGED <<bootQueue, swept, due, timer, found>>

-----------------------------------------------------------------------------
(***************************************************************************)
(* gracefulShutdown                                                        *)
(***************************************************************************)

\* ServerCount takes the mutex.  Without servers Run returns at once;
\* otherwise StopAllServers takes the map, not a copy of it, and loops over it
\* without the mutex.
CountServers ==
    /\ main = "count" /\ mutex = None
    /\ \/ Listed = {} /\ main' = "returned" /\ UNCHANGED <<due, found>>
       \/ Listed # {} /\ main' = "stopall" /\ due' = Listed /\ found' = Listed
    /\ UNCHANGED vars
    /\ UNCHANGED <<bootQueue, swept, timer>>

\* The loop produces an entry and calls Stop, which looks the name up again:
\* the entry may have gone meanwhile, or a younger server have taken its
\* place, as when the step is taken later or not at all.
StopNext(n) ==
    /\ main = "stopall"
    /\ servers[n] # None
    /\ n \notin swept
    /\ Stop(n)
    /\ swept' = swept \cup {n}
    /\ main' = "stopping"
    /\ UNCHANGED <<bootQueue, due, timer, found>>

\* Stop comes back from its write, and the loop goes on.
StopNextReturns ==
    /\ main = "stopping"
    /\ StopReturns
    /\ main' = "stopall"
    /\ UNCHANGED <<bootQueue, swept, due, timer, found>>

\* Variant of LoopDone: each server is stopped in a goroutine of its own, and
\* nobody waits for them.
LoopDoneAtOnce == TRUE

\* Ranging over a map produces every entry that stays in it; one added
\* meanwhile may be left out.
LoopDone ==
    \A n \in Names : servers[n] \in due => n \in swept

StopAllDone ==
    /\ main = "stopall"
    /\ LoopDone
    /\ main' = "drain"
    /\ timer' = "armed"
    /\ swept' = {}
    /\ due' = {}
    /\ UNCHANGED vars
    /\ UNCHANGED <<bootQueue, found>>

\* Variant of Drained: the daemon waits only until every server was asked.
DrainedWhenAsked ==
    /\ main = "drain"
    /\ \A i \in Listed : srv[i].state = "stopping"
    /\ main' = "returned"
    /\ UNCHANGED vars
    /\ UNCHANGED <<bootQueue, swept, due, timer, found>>

\* The loop looks at the table every ten milliseconds and leaves when it is
\* empty.
Drained ==
    /\ main = "drain" /\ mutex = None
    /\ Listed = {}
    /\ main' = "returned"
    /\ UNCHANGED vars
    /\ UNCHANGED <<bootQueue, swept, due, timer, found>>

\* time.After delivers one value: the grace period times out once, perhaps
\* just after the last server has left the table.
GraceTimeout ==
    /\ main = "drain" /\ mutex = None
    /\ timer = "armed"
    /\ timer' = "spent"
    /\ main' = "killall"
    /\ due' = Listed
    /\ found' = Listed
    /\ UNCHANGED vars
    /\ UNCHANGED <<bootQueue, swept>>

\* Variant of KillNext: the second sweep only repeats the first.
StopNextAgain(n) ==
    /\ main = "killall"
    /\ servers[n] # None
    /\ n \notin swept
    /\ Stop(n)
    /\ swept' = swept \cup {n}
    /\ UNCHANGED <<main, bootQueue, due, timer, found>>

\* Variant of KillNext: the sweep also empties the table itself.
KillNextRemoves(n) ==
    /\ main = "killall"
    /\ servers[n] # None
    /\ n \notin swept
    /\ servers' = [servers EXCEPT ![n] = None]
    /\ srv' = [srv EXCEPT ![servers[n]].auto = FALSE]
    /\ swept' = swept \cup {n}
    /\ UNCHANGED <<proc, pc, call, diskAuto, stalled, mutex, halted>>
    /\ UNCHANGED <<main, bootQueue, due, timer, found>>

\* KillAllServers loops in the same way.
KillNext(n) ==
    /\ main = "killall"
    /\ servers[n] # None
    /\ n \notin swept
    /\ Kill(n)
    /\ swept' = swept \cup {n}
    /\ UNCHANGED <<main, bootQueue, due, timer, found>>

KillAllDone ==
    /\ main = "killall"
    /\ LoopDone
    /\ main' = "drain"
    /\ swept' = {}
    /\ due' = {}
    /\ UNCHANGED vars
    /\ UNCHANGED <<bootQueue, timer, found>>

\* The runtime may abort when the map is written while a connection, a
\* restart or the loops of the shutdown read it.
Abort ==
    /\ main \notin Ended
    /\ MapReaders # {} \/ main \in {"stopall", "killall"}
    /\ MapWriters # {} /\ mutex = None
    /\ main' = "aborted"
    /\ UNCHANGED vars
    /\ UNCHANGED <<bootQueue, swept, due, timer, found>>

-----------------------------------------------------------------------------
\* The connections and the servers, served from before the boot loop to the
\* end.  A Server that leaves the table is no longer due.
Serve ==
    /\ main \notin Ended
    /\ \/ \E c \in Callers : StartStep(c)
       \/ \E i \in Instances :
             InstanceStep(i) \/ ("SCREEN" \in Commands /\ Stall(i))
       \/ \E n \in Names :
             \/ "STOP" \in Commands /\ Stop(n)
             \/ "KILL" \in Commands /\ Kill(n)
             \/ "SET" \in Commands /\ \E b \in BOOLEAN : SetAutoRestart(n, b)
             \/ "START" \in Commands
                  /\ \E h \in Handlers \ {Main} : StartRequest(h, n)
       \/ \E h \in Handlers \ {Main} :
             ("CHECK" \in Commands /\ GetRequest(h)) \/ Get(h)
       \/ main # "stopping" /\ StopReturns
    /\ due' = {i \in due : \E n \in Names : servers'[n] = i}
    /\ found' = {i \in found : \E n \in Names : servers'[n] = i}
    /\ UNCHANGED <<main, bootQueue, swept, timer>>

MainStep ==
    \/ \E n \in Names : BootStart(n) \/ StopNext(n) \/ KillNext(n)
    \/ BootDone \/ HandleMainConfig \/ CountServers \/ StopAllDone
    \/ Drained \/ KillAllDone

DaemonNext == MainStep \/ StopNextReturns \/ Signal \/ GraceTimeout \/ Abort \/ Serve

DaemonSpec == DaemonInit /\ [][DaemonNext]_<<vars, dvars>>

\* The main goroutine runs and gets the mutex in its turn, the timer fires,
\* and Fairness of the manager.  No signal needs to come, and an abort may
\* never happen.
DaemonFairness ==
    /\ SF_<<vars, dvars>>(MainStep)
    /\ WF_<<vars, dvars>>(GraceTimeout)
    /\ \A i \in Instances :
          /\ WF_<<vars, dvars>>(Serve /\ proc[i] = "killed" /\ Exit(i))
          /\ WF_<<vars, dvars>>(Serve /\ (Reap(i) \/ Notify(i) \/ Decide(i) \/ Wake(i)))
          /\ SF_<<vars, dvars>>(Serve /\ Remove(i))
    /\ \A c \in Callers : WF_<<vars, dvars>>(Serve /\ StartStep(c))
    /\ WF_<<vars, dvars>>(ReaderEnded /\ (Serve \/ StopNextReturns) /\ StopReturns)

DaemonFairSpec == DaemonSpec /\ DaemonFairness

-----------------------------------------------------------------------------
\* Once StopAllServers is through, every server it found has been sent "stop"
\* or has exited, although it loops over a map that connections and exiting
\* servers change, and whatever SET, STOP and KILL do meanwhile.
AllAskedToStop ==
    main = "drain" /\ timer = "armed" =>
        \A i \in found : srv[i].state = "stopping"

\* The main goroutine acts on the servers only through the operations of the
\* manager: all that is proved of the manager holds of the daemon, booting,
\* serving and shutting down.
UsesManager == Spec

\* When Run returns, and its container with every process in it, no server of
\* the table dies with it: the only processes left are those a Start has
\* spawned but not yet added, or those Add has refused and Start has killed.
ReturnLeavesOnlyStarting ==
    main = "returned" =>
        \A i \in Instances :
            proc[i] = "running" =>
                \E c \in Callers : pc[c] = "add" /\ call[c].inst = i

\* After the grace period the shutdown can only be held up by a server that
\* was started too late for KillAllServers, by a screen client that does not
\* read the exit notice of its server, or by a STOP that never comes back from
\* its write to the console of a server that runs and does not read, with the
\* mutex every step of the drain needs.  The last may be the shutdown's own:
\* then the grace period does not even begin (manager.go:122, 157).
ShutdownEnds ==
    main = "drain" /\ timer = "spent" ~>
        \/ main \in Ended
        \/ \E i \in Listed : i \notin found \/ stalled[i]
        \/ [](mutex # None /\ proc[mutex] = "running")
-----------------------------------------------------------------------------
\* What the shutdown knows of the servers it has found; with the manager's
\* invariant it is inductive.  LoopDone alone says nothing of them: a swept
\* name may have another server by now, and a found server may have exited.
ShutdownInv ==
    /\ found \subseteq Listed
    /\ main \notin {"stopall", "stopping", "killall", "aborted"} => swept = {}
    /\ main = "killall" => timer = "spent"
    /\ main \in {"stopall", "stopping"} =>
          /\ found \subseteq due
          /\ \A n \in swept :
                servers[n] \in found => srv[servers[n]].state = "stopping"
    /\ main = "drain" /\ timer = "armed" =>
          \A i \in found : srv[i].state = "stopping"
    /\ main = "returned" => Listed = {}
=============================================================================
