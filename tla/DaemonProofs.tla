---------------------------- MODULE DaemonProofs ----------------------------
(***************************************************************************)
(* The safety of the daemon's main goroutine, for any number of servers,   *)
(* connections and processes, with what is proved of the manager.          *)
(***************************************************************************)
EXTENDS Daemon, ManagerProofs

\* Every step of the daemon is one of the manager or leaves it alone.
LEMMA StepUsesManager ==
    ASSUME [DaemonNext]_<<vars, dvars>>
    PROVE  [Next]_vars
<1>1. CASE MainStep
  <2>1. ASSUME NEW n \in Names, BootStart(n) PROVE Next
    BY <2>1, MainAssumption DEF BootStart, Next
  <2>2. ASSUME NEW n \in Names, StopNext(n) \/ KillNext(n) PROVE Next
    BY <2>2 DEF StopNext, KillNext, Next
  <2>3. ASSUME \/ BootDone \/ HandleMainConfig \/ CountServers \/ StopAllDone
               \/ Drained \/ KillAllDone
        PROVE  UNCHANGED vars
    BY <2>3 DEF BootDone, HandleMainConfig, CountServers, StopAllDone, Drained,
                KillAllDone
  <2> QED
    BY <1>1, <2>1, <2>2, <2>3 DEF MainStep
<1>2. CASE Serve
  BY <1>2 DEF Serve, Next
<1>3. CASE Signal \/ GraceTimeout \/ Abort
  BY <1>3 DEF Signal, GraceTimeout, Abort
<1>4. CASE UNCHANGED <<vars, dvars>>
  BY <1>4
<1>5. CASE StopNextReturns
  BY <1>5 DEF StopNextReturns, Next
<1> QED
  BY <1>1, <1>2, <1>3, <1>4, <1>5 DEF DaemonNext

\* Booting, serving and shutting down, the main goroutine acts on the servers
\* only through the manager's Start, Stop and Kill, so that whatever holds of
\* the manager holds of the daemon.
THEOREM DaemonUsesManager == DaemonSpec => UsesManager
<1>1. DaemonInit => Init
  BY DEF DaemonInit
<1>2. [DaemonNext]_<<vars, dvars>> => [Next]_vars
  BY StepUsesManager
<1> QED
  BY <1>1, <1>2, PTL DEF DaemonSpec, UsesManager, Spec

-----------------------------------------------------------------------------
\* A server that stays in the table keeps its name, and its state unless it is
\* asked to stop: entries are never moved and no younger Server takes one over.
LEMMA ListedStays ==
    ASSUME ManagerInv, [Next]_vars, NEW n \in Names, NEW i \in Instances,
           i \in Listed, servers'[n] = i
    PROVE  /\ servers[n] = i
           /\ srv'[i].state = srv[i].state \/ srv'[i].state = "stopping"
<1> USE NoneAssumption, CallersAssumption DEF Callers, Registered
<1>1. pc[i] \in Registered
  BY DEF ManagerInv, MapTracksWaiters, Listed
<1>2. CASE servers' = servers /\ srv' = srv
  BY <1>2
<1>3. ASSUME NEW c \in Callers, StartStep(c)
      PROVE  servers[n] = i /\ srv'[i] = srv[i]
  <2>1. CASE CheckRunning(c) \/ Build(c) \/ PortCheck(c)
    BY <2>1 DEF CheckRunning, Build, PortCheck
  <2>2. CASE Spawn(c)
    <3>1. ASSUME NEW j \in FreeInstances, NEW p \in FreePids,
                 srv' = [srv EXCEPT ![j] = [auto |-> call[c].auto,
                                            port |-> call[c].port,
                                            state |-> "running", pid |-> p]]
          PROVE  srv'[i] = srv[i]
      BY <1>1, <3>1 DEF FreeInstances, ManagerInv, TypeOK
    <3> QED
      BY <2>2, <3>1 DEF Spawn
  <2>3. CASE pc[c] = "add" /\ Register(c)
    BY <1>1, <2>3 DEF Register, ManagerInv, TypeOK, AddInv
  <2>4. CASE pc[c] = "add" /\ Discard(c)
    BY <1>1, <2>4 DEF Discard, ManagerInv, TypeOK, AddInv
  <2> QED
    BY <1>3, <2>1, <2>2, <2>3, <2>4 DEF StartStep, Add
<1>4. ASSUME NEW j \in Instances, InstanceStep(j)
      PROVE  servers[n] = i /\ srv'[i] = srv[i]
  <2>1. CASE Exit(j) \/ Reap(j) \/ Notify(j) \/ Wake(j)
    BY <2>1 DEF Exit, Reap, Notify, Wake
  <2>2. CASE Remove(j)
    BY <1>1, <2>2 DEF Remove, ManagerInv, TypeOK, MapTracksWaiters
  <2>3. CASE Decide(j)
    BY <1>1, <2>3 DEF Decide, ManagerInv, TypeOK
  <2> QED
    BY <1>4, <2>1, <2>2, <2>3 DEF InstanceStep
<1>5. ASSUME NEW m \in Names, Stop(m) \/ Kill(m) \/ \E b \in BOOLEAN : SetAutoRestart(m, b)
      PROVE  /\ servers[n] = i
             /\ srv'[i].state = srv[i].state \/ srv'[i].state = "stopping"
  <2>1. servers' = servers /\ srv[i] \in ServerFields
    BY <1>5 DEF Stop, Kill, SetAutoRestart, ManagerInv, TypeOK
  <2>2. CASE UNCHANGED srv
    BY <2>1, <2>2
  <2>3. ASSUME NEW b \in BOOLEAN,
               servers[m] \in Instances,
               \/ srv' = [srv EXCEPT ![servers[m]].auto = b]
               \/ srv' = [srv EXCEPT ![servers[m]].auto = b,
                                     ![servers[m]].state = "stopping"]
        PROVE  srv'[i].state = srv[i].state \/ srv'[i].state = "stopping"
    BY <2>1, <2>3 DEF ManagerInv, TypeOK, ServerFields
  <2>4. servers[m] # None => servers[m] \in Instances
    BY DEF ManagerInv, TypeOK
  <2> QED
    BY <1>5, <2>1, <2>2, <2>3, <2>4 DEF Stop, Kill, SetAutoRestart, Refuse
<1>6. CASE \/ \E j \in Instances : Stall(j)
           \/ \E h \in Handlers, m \in Names : StartRequest(h, m)
           \/ \E h \in Handlers : GetRequest(h) \/ Get(h)
           \/ StopReturns
           \/ UNCHANGED vars
  BY <1>6, <1>2 DEF Stall, StartRequest, GetRequest, Get, StopReturns, vars
<1>7. ~MapRace
  BY DEF MapRace
<1> QED
  BY <1>3, <1>4, <1>5, <1>6, <1>7 DEF Next

-----------------------------------------------------------------------------
\* The main goroutine's own variables keep their types.
LEMMA DaemonTypes ==
    ASSUME DaemonTypeOK, TypeOK', [DaemonNext]_<<vars, dvars>>
    PROVE  DaemonTypeOK'
<1> USE DEF Ended, BeforeNotify
<1>1. Listed \subseteq Instances
  BY DEF DaemonTypeOK, TypeOK, Listed
<1>2. ASSUME NEW n \in Names, BootStart(n) \/ StopNext(n) \/ KillNext(n)
      PROVE  DaemonTypeOK'
  BY <1>2 DEF DaemonTypeOK, BootStart, StopNext, KillNext
<1>8. CASE StopNextReturns
  BY <1>8 DEF DaemonTypeOK, StopNextReturns
<1>3. CASE BootDone \/ HandleMainConfig \/ Signal
  BY <1>3 DEF DaemonTypeOK, BootDone, HandleMainConfig, Signal
<1>4. CASE CountServers \/ StopAllDone \/ GraceTimeout
  BY <1>1, <1>4 DEF DaemonTypeOK, CountServers, StopAllDone, GraceTimeout
<1>5. CASE Drained \/ KillAllDone \/ Abort
  BY <1>5 DEF DaemonTypeOK, Drained, KillAllDone, Abort
<1>6. CASE Serve
  BY <1>6 DEF DaemonTypeOK, Serve
<1>7. CASE UNCHANGED <<vars, dvars>>
  BY <1>7 DEF DaemonTypeOK, dvars
<1> QED
  BY <1>2, <1>3, <1>4, <1>5, <1>6, <1>7, <1>8 DEF DaemonNext, MainStep

\* Type correctness of the daemon: Run is always at one of its own places, and
\* only boots servers marked for it.
THEOREM DaemonTypeCorrect == DaemonSpec => []DaemonTypeOK
<1>1. DaemonInit /\ TypeOK => DaemonTypeOK
  BY DEF DaemonInit, DaemonTypeOK, BeforeNotify
<1>2. DaemonTypeOK /\ TypeOK' /\ [DaemonNext]_<<vars, dvars>> => DaemonTypeOK'
  BY DaemonTypes
<1> QED
  BY <1>1, <1>2, DaemonUsesManager, TypeCorrect, PTL DEF DaemonSpec, UsesManager

-----------------------------------------------------------------------------
\* While the daemon serves, the servers it found that are still listed stay
\* found, and those asked to stop stay asked.
LEMMA ServeKeeps ==
    ASSUME ManagerInv, DaemonTypeOK, ShutdownInv, Serve, [Next]_vars
    PROVE  ShutdownInv'
<1> USE NoneAssumption
<1>0. /\ UNCHANGED <<main, swept, timer>>
      /\ due' = {i \in due : \E n \in Names : servers'[n] = i}
      /\ found' = {i \in found : \E n \in Names : servers'[n] = i}
      /\ main # "returned"
  BY DEF Serve, Ended
<1>1. found \subseteq Instances /\ found \subseteq Listed
  BY DEF ShutdownInv, Listed, ManagerInv, TypeOK
<1>2. ASSUME NEW i \in found'
      PROVE  /\ i \in Listed'
             /\ srv'[i].state = srv[i].state \/ srv'[i].state = "stopping"
  <2>1. PICK n \in Names : servers'[n] = i
    BY <1>0
  <2>2. i # None
    BY <1>0, <1>1
  <2>3. i \in Listed'
    BY <2>1, <2>2 DEF Listed
  <2> QED
    BY <1>0, <1>1, <2>1, <2>3, ListedStays
<1>3. found' \subseteq Listed'
  BY <1>2
<1>4. main' \in {"stopall", "stopping"} => found' \subseteq due'
  BY <1>0 DEF ShutdownInv
<1>5. ASSUME main' \in {"stopall", "stopping"}, NEW n \in swept', servers'[n] \in found'
      PROVE  srv'[servers'[n]].state = "stopping"
  <2>1. n \in Names
    BY <1>0, <1>5 DEF DaemonTypeOK
  <2>2. servers[n] = servers'[n]
    BY <1>0, <1>1, <1>5, <2>1, ListedStays
  <2> QED
    BY <1>0, <1>2, <1>5, <2>2 DEF ShutdownInv
<1>6. main' = "drain" /\ timer' = "armed" => \A i \in found' : srv'[i].state = "stopping"
  BY <1>0, <1>2 DEF ShutdownInv
<1> QED
  BY <1>0, <1>3, <1>4, <1>5, <1>6 DEF ShutdownInv

\* The steps of the main goroutine, of the timer and of the signals.
LEMMA MainKeeps ==
    ASSUME ManagerInv, DaemonTypeOK, ShutdownInv,
           MainStep \/ StopNextReturns \/ Signal \/ GraceTimeout \/ Abort
    PROVE  ShutdownInv'
<1> USE NoneAssumption DEF BeforeNotify, Ended
<1>1. CASE \E n \in Names : BootStart(n)
  BY <1>1 DEF BootStart, StartRequest, ShutdownInv, Listed
<1>2. CASE BootDone \/ HandleMainConfig \/ Signal
  BY <1>2 DEF BootDone, HandleMainConfig, Signal, ShutdownInv, Listed, vars
<1>3. CASE CountServers
  BY <1>3 DEF CountServers, ShutdownInv, Listed, vars
<1>4. ASSUME NEW n \in Names, StopNext(n) PROVE ShutdownInv'
  <2>1. /\ main = "stopall"
        /\ servers[n] \in Instances
        /\ Stop(n)
        /\ swept' = swept \cup {n}
        /\ main' = "stopping"
        /\ UNCHANGED <<bootQueue, due, timer, found, servers>>
    BY <1>4 DEF StopNext, Stop, ManagerInv, TypeOK
  <2>2. PICK i \in Instances : i = servers[n]
    BY <2>1
  <2>3. srv' = [srv EXCEPT ![i].auto = FALSE, ![i].state = "stopping"]
    BY <2>1, <2>2 DEF Stop, Refuse
  <2>4. srv[i] \in ServerFields
    BY DEF ManagerInv, TypeOK
  <2>5. srv'[i].state = "stopping" /\ \A j \in Instances \ {i} : srv'[j] = srv[j]
    BY <2>3, <2>4 DEF ManagerInv, TypeOK, ServerFields
  <2>6. \A m \in Names : servers[m] \in Instances \cup {None}
    BY DEF ManagerInv, TypeOK
  <2>7. \A m \in swept' :
           servers'[m] \in found' => srv'[servers'[m]].state = "stopping"
    BY <2>1, <2>2, <2>5, <2>6 DEF ShutdownInv, DaemonTypeOK
  <2>8. Listed' = Listed
    BY <2>1 DEF Listed
  <2> QED
    BY <2>1, <2>7, <2>8 DEF ShutdownInv
<1>5. CASE StopAllDone
  <2>1. ASSUME NEW i \in found PROVE srv[i].state = "stopping"
    <3>1. PICK n \in Names : servers[n] = i
      BY DEF ShutdownInv, Listed
    <3>2. n \in swept
      BY <1>5, <3>1 DEF StopAllDone, LoopDone, ShutdownInv
    <3> QED
      BY <1>5, <3>1, <3>2 DEF StopAllDone, ShutdownInv
  <2> QED
    BY <1>5, <2>1 DEF StopAllDone, ShutdownInv, Listed, vars
<1>6. CASE Drained \/ GraceTimeout \/ KillAllDone \/ Abort
  BY <1>6 DEF Drained, GraceTimeout, KillAllDone, Abort, ShutdownInv, Listed, vars
<1>7. ASSUME NEW n \in Names, KillNext(n) PROVE ShutdownInv'
  BY <1>7 DEF KillNext, Kill, ShutdownInv, Listed
<1>8. CASE StopNextReturns
  <2>1. /\ main = "stopping" /\ main' = "stopall"
        /\ UNCHANGED <<servers, srv, swept, due, timer, found>>
    BY <1>8 DEF StopNextReturns, StopReturns
  <2> QED
    BY <2>1 DEF ShutdownInv, Listed
<1> QED
  BY <1>1, <1>2, <1>3, <1>4, <1>5, <1>6, <1>7, <1>8 DEF MainStep

\* What the shutdown knows of the servers it has found holds throughout.
THEOREM ShutdownInvariance == DaemonSpec => []ShutdownInv
<1>1. DaemonInit => ShutdownInv
  BY DEF DaemonInit, ShutdownInv
<1>2. /\ ManagerInv /\ DaemonTypeOK /\ ShutdownInv
      /\ [DaemonNext]_<<vars, dvars>>
      => ShutdownInv'
  <2>1. CASE Serve
    BY <2>1, ServeKeeps, StepUsesManager
  <2>2. CASE MainStep \/ StopNextReturns \/ Signal \/ GraceTimeout \/ Abort
    BY <2>2, MainKeeps
  <2>3. CASE UNCHANGED <<vars, dvars>>
    BY <2>3 DEF ShutdownInv, Listed, vars, dvars
  <2> QED
    BY <2>1, <2>2, <2>3 DEF DaemonNext
<1> QED
  BY <1>1, <1>2, DaemonTypeCorrect, DaemonUsesManager, Invariance, PTL
     DEF DaemonSpec, UsesManager

\* Before the grace period begins, StopAllServers has asked every server it
\* found to stop, although entries come and go while it loops.
THEOREM EveryServerAsked == DaemonSpec => []AllAskedToStop
<1>1. ShutdownInv => AllAskedToStop
  BY DEF ShutdownInv, AllAskedToStop
<1> QED
  BY <1>1, ShutdownInvariance, PTL

\* gracefulShutdown returns only with an empty table, and no process outside
\* the table runs but those a Start holds.
THEOREM OnlyStartingLeft == DaemonSpec => []ReturnLeavesOnlyStarting
<1>1. NoOrphan /\ ShutdownInv => ReturnLeavesOnlyStarting
  <2>1. ASSUME NEW n \in Names, servers[n] \in Instances PROVE servers[n] \in Listed
    BY <2>1, NoneAssumption DEF Listed
  <2> QED
    BY <2>1 DEF NoOrphan, ShutdownInv, ReturnLeavesOnlyStarting
<1> QED
  BY <1>1, ShutdownInvariance, DaemonUsesManager, NoOrphanProcess, PTL
     DEF UsesManager

\* A client of the daemon sees the registry, while it boots its servers and
\* shuts down as well.
THEOREM DaemonImplementsRegistry == DaemonSpec => RefinesRegistry
  BY DaemonUsesManager, ManagerImplementsRegistry, PTL DEF UsesManager
=============================================================================
