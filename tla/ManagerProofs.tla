--------------------------- MODULE ManagerProofs ---------------------------
(***************************************************************************)
(* The safety of the manager for any number of servers, goroutines and     *)
(* processes.  ManagerInv is inductive: one lemma per action shows that the *)
(* action preserves each of its parts, and the theorems at the end follow; *)
(* the last part is the proof that the manager implements the registry.    *)
(***************************************************************************)
EXTENDS ManagerRefinement, TLAPS

\* The records that Init and the freed goroutines hold have the right type.
LEMMA NullRecords == NoServer \in ServerFields /\ NoCall \in Locals
  BY DEF NoServer, NoCall, ServerFields, Locals

\* The records of a Server object whose flag or state is changed have it too.
LEMMA RecordUpdates ==
  ASSUME NEW r \in ServerFields, NEW b \in BOOLEAN
  PROVE  /\ [r EXCEPT !.auto = b] \in ServerFields
         /\ [[r EXCEPT !.auto = b] EXCEPT !.state = "stopping"] \in ServerFields
         /\ [r EXCEPT !.auto = b].auto = b
         /\ [[r EXCEPT !.auto = b] EXCEPT !.state = "stopping"].auto = b
  BY DEF ServerFields

\* So have the local variables of a goroutine that is given a name.
LEMMA NamedLocals ==
  ASSUME NEW r \in Locals, NEW n \in Names
  PROVE  [r EXCEPT !.name = n] \in Locals
  BY DEF Locals

LEMMA InitInv == Init => ManagerInv
<1> SUFFICES ASSUME Init PROVE ManagerInv
  OBVIOUS
<1> USE NoneAssumption, CallersAssumption
        DEF Init, Fresh, Callers, StartPhases, Registered
<1>1. TypeOK
  BY NullRecords DEF TypeOK
<1>2. MapTracksWaiters
  BY DEF MapTracksWaiters
<1>3. PcInv /\ AddInv /\ ProcInv /\ HaltInv
  BY DEF PcInv, AddInv, ProcInv, HaltInv
<1>. QED
  BY <1>1, <1>2, <1>3 DEF ManagerInv

(* A goroutine leaves Start without having spawned a process that it still   *)
(* holds, or ends: the other goroutines are as they were.                    *)
LEMMA ReturnInv ==
  ASSUME ManagerInv, NEW c \in Callers,
         pc[c] \in {"check", "build", "ports", "spawn"},
         Return(c), UNCHANGED <<servers, srv, proc, diskAuto, stalled, mutex>>
  PROVE  ManagerInv'
<1> USE NoneAssumption, CallersAssumption
        DEF Callers, StartPhases, Registered
<1>1. TypeOK'
  BY NullRecords DEF ManagerInv, TypeOK, Return, Goto
<1>2. MapTracksWaiters'
  BY NullRecords DEF ManagerInv, TypeOK, MapTracksWaiters, Return, Goto, NoCall
<1>3. PcInv'
  BY NullRecords DEF ManagerInv, TypeOK, PcInv, Return, Goto, NoCall
<1>4. AddInv'
  BY NullRecords DEF ManagerInv, TypeOK, AddInv, Return, Goto, NoCall
<1>5. ProcInv'
  BY NullRecords DEF ManagerInv, TypeOK, ProcInv, Return, Goto, NoCall
<1>6. HaltInv'
  BY NullRecords DEF ManagerInv, TypeOK, HaltInv, Return, Goto, NoCall
<1>. QED
  BY <1>1, <1>2, <1>3, <1>4, <1>5, <1>6 DEF ManagerInv

(* A goroutine goes on inside Start, or calls it after its sleep.             *)
LEMMA AdvanceInv ==
  ASSUME ManagerInv, NEW c \in Callers, NEW phase \in {"check", "build", "ports", "spawn"},
         pc[c] \in {"sleep", "check", "build", "ports"}, Goto(c, phase),
         call' \in [Callers -> Locals],
         \A d \in Callers : call'[d].name = call[d].name /\ call'[d].inst = call[d].inst,
         UNCHANGED <<servers, srv, proc, diskAuto, stalled, mutex, halted>>
  PROVE  ManagerInv'
<1> USE NoneAssumption, CallersAssumption
        DEF Callers, StartPhases, Registered
<1>1. TypeOK'
  BY DEF ManagerInv, TypeOK, Goto
<1>2. MapTracksWaiters'
  BY DEF ManagerInv, TypeOK, MapTracksWaiters, Goto
<1>3. PcInv'
  BY DEF ManagerInv, TypeOK, PcInv, Goto
<1>4. AddInv'
  BY DEF ManagerInv, TypeOK, AddInv, Goto
<1>5. ProcInv'
  BY DEF ManagerInv, TypeOK, ProcInv, Goto
<1>6. HaltInv'
  BY DEF ManagerInv, TypeOK, HaltInv, Goto
<1>. QED
  BY <1>1, <1>2, <1>3, <1>4, <1>5, <1>6 DEF ManagerInv

(* A START request.                                                          *)
LEMMA StartRequestInv ==
  ASSUME ManagerInv, NEW h \in Handlers, NEW n \in Names, StartRequest(h, n)
  PROVE  ManagerInv'
<1> USE NoneAssumption, CallersAssumption
        DEF Callers, StartPhases, Registered
<1>1. TypeOK'
  <2>0. call[h] \in Locals
    BY DEF ManagerInv, TypeOK
  <2>1. [call[h] EXCEPT !.name = n] \in Locals
    BY <2>0, NamedLocals
  <2>2. call' \in [Callers -> Locals]
    BY <2>1 DEF ManagerInv, TypeOK, StartRequest
  <2>. QED
    BY <2>2 DEF ManagerInv, TypeOK, StartRequest, Goto
<1>2. MapTracksWaiters'
  BY DEF ManagerInv, TypeOK, MapTracksWaiters, StartRequest, Goto
<1>3. PcInv'
  BY DEF ManagerInv, TypeOK, PcInv, StartRequest, Goto
<1>4. AddInv'
  BY DEF ManagerInv, TypeOK, AddInv, StartRequest, Goto
<1>5. ProcInv'
  BY DEF ManagerInv, TypeOK, ProcInv, StartRequest, Goto
<1>6. HaltInv'
  BY DEF ManagerInv, TypeOK, HaltInv, StartRequest, Goto
<1>. QED
  BY <1>1, <1>2, <1>3, <1>4, <1>5, <1>6 DEF ManagerInv

(* The first check of Start.                                                 *)
LEMMA CheckRunningInv ==
  ASSUME ManagerInv, NEW c \in Callers, CheckRunning(c)
  PROVE  ManagerInv'
<1>1. CASE Return(c)
  BY <1>1, ReturnInv DEF CheckRunning
<1>2. CASE Goto(c, "build") /\ UNCHANGED <<call, halted>>
  <2>1. call' \in [Callers -> Locals]
    BY <1>2 DEF ManagerInv, TypeOK
  <2>. QED
    BY <1>2, <2>1, AdvanceInv DEF CheckRunning
<1>. QED
  BY <1>1, <1>2 DEF CheckRunning

(* The loop over the ports in use.                                           *)
LEMMA PortCheckInv ==
  ASSUME ManagerInv, NEW c \in Callers, PortCheck(c)
  PROVE  ManagerInv'
<1>1. CASE Return(c)
  BY <1>1, ReturnInv DEF PortCheck
<1>2. CASE Goto(c, "spawn") /\ UNCHANGED <<call, halted>>
  <2>1. call' \in [Callers -> Locals]
    BY <1>2 DEF ManagerInv, TypeOK
  <2>. QED
    BY <1>2, <2>1, AdvanceInv DEF PortCheck
<1>. QED
  BY <1>1, <1>2 DEF PortCheck

(* Reading config.json.                                                      *)
LEMMA BuildInv ==
  ASSUME ManagerInv, NEW c \in Callers, Build(c)
  PROVE  ManagerInv'
<1>1. CASE Return(c)
  BY <1>1, ReturnInv DEF Build
<1>2. ASSUME NEW p \in Ports, Goto(c, "ports"), UNCHANGED halted,
             call' = [call EXCEPT ![c].auto = diskAuto[call[c].name],
                                  ![c].port = p]
      PROVE  ManagerInv'
  <2>1. call[c] \in Locals /\ diskAuto[call[c].name] \in BOOLEAN
    BY DEF ManagerInv, TypeOK, PcInv, Build
  <2>2. [[call[c] EXCEPT !.auto = diskAuto[call[c].name]] EXCEPT !.port = p]
            \in Locals
    BY <2>1 DEF Locals
  <2>3. call' \in [Callers -> Locals]
    BY <1>2, <2>2 DEF ManagerInv, TypeOK
  <2>4. \A d \in Callers :
          call'[d].name = call[d].name /\ call'[d].inst = call[d].inst
    BY <1>2, <2>1 DEF ManagerInv, TypeOK, Locals
  <2>. QED
    BY <1>2, <2>3, <2>4, AdvanceInv DEF Build
<1>. QED
  BY <1>1, <1>2 DEF Build

(* Forking the server: the new process is held by the Start that made it.    *)
LEMMA SpawnInv ==
  ASSUME ManagerInv, NEW c \in Callers, Spawn(c)
  PROVE  ManagerInv'
<1> USE NoneAssumption, CallersAssumption
        DEF Callers, StartPhases, Registered
<1>1. CASE Return(c) /\ UNCHANGED <<srv, proc>>
  BY <1>1, ReturnInv DEF Spawn
<1>2. ASSUME NEW i \in FreeInstances, NEW p \in FreePids,
             proc' = [proc EXCEPT ![i] = "running"],
             srv' = [srv EXCEPT ![i] = [auto |-> call[c].auto,
                                        port |-> call[c].port,
                                        state |-> "running", pid |-> p]],
             call' = [call EXCEPT ![c] = [NoCall EXCEPT !.name = call[c].name,
                                                        !.inst = i]],
             Goto(c, "add"), UNCHANGED halted
      PROVE  ManagerInv'
  <2> USE <1>2 DEF Goto, FreeInstances
  <2>0. UNCHANGED <<servers, diskAuto, stalled, mutex>> /\ pc[c] = "spawn"
    BY DEF Spawn
  <2>1. TypeOK'
    <3>1. [auto |-> call[c].auto, port |-> call[c].port,
           state |-> "running", pid |-> p] \in ServerFields
      BY DEF ManagerInv, TypeOK, Locals, ServerFields, FreePids
    <3>2. [NoCall EXCEPT !.name = call[c].name, !.inst = i] \in Locals
      BY DEF ManagerInv, TypeOK, Locals, NoCall
    <3>3. srv' \in [Instances -> ServerFields] /\ call' \in [Callers -> Locals]
      BY <3>1, <3>2 DEF ManagerInv, TypeOK
    <3>. QED
      BY <2>0, <3>3 DEF ManagerInv, TypeOK
  <2>c. /\ call'[c].name = call[c].name
        /\ call'[c].inst = i
        /\ \A d \in Callers : d # c => call'[d] = call[d]
    BY DEF ManagerInv, TypeOK, NoCall
  <2>2. MapTracksWaiters'
    BY <2>0, <2>c DEF ManagerInv, TypeOK, MapTracksWaiters
  <2>3. PcInv'
    BY <2>0, <2>c DEF ManagerInv, TypeOK, PcInv
  <2>4. AddInv'
    BY <2>0, <2>c DEF ManagerInv, TypeOK, AddInv
  <2>5. ProcInv'
    BY <2>0, <2>c DEF ManagerInv, TypeOK, ProcInv
  <2>6. HaltInv'
    BY <2>0, <2>c DEF ManagerInv, TypeOK, HaltInv
  <2>. QED
    BY <2>1, <2>2, <2>3, <2>4, <2>5, <2>6 DEF ManagerInv
<1>. QED
  BY <1>1, <1>2 DEF Spawn

(* Add accepts the server.                                                   *)
LEMMA RegisterInv ==
  ASSUME ManagerInv, NEW c \in Callers, pc[c] = "add", Register(c),
         UNCHANGED <<diskAuto, stalled, mutex>>
  PROVE  ManagerInv'
<1> USE NoneAssumption, CallersAssumption
        DEF Callers, StartPhases, Registered
<1> DEFINE i == call[c].inst
<1>0. /\ i \in Instances /\ i # c /\ pc[i] = "none" /\ proc[i] # "none"
      /\ call[c].name \in Names
      /\ \A d \in Callers : pc[d] = "add" /\ call[d].inst = i => d = c
  BY DEF ManagerInv, TypeOK, PcInv, AddInv
<1>a. /\ pc'[i] = "wait" /\ call'[i].name = call[c].name
      /\ pc'[c] = (IF c \in Handlers THEN "idle" ELSE "none")
      /\ \A d \in Callers \ {i, c} : pc'[d] = pc[d] /\ call'[d] = call[d]
  BY <1>0 DEF ManagerInv, TypeOK, Register, NoCall
<1>b. /\ servers'[call[c].name] = i
      /\ \A m \in Names : m # call[c].name => servers'[m] = servers[m]
      /\ servers[call[c].name] = None
      /\ UNCHANGED <<srv, proc>>
  BY <1>0 DEF ManagerInv, TypeOK, Register
<1>1. TypeOK'
  <2>1. [NoCall EXCEPT !.name = call[c].name] \in Locals
    BY <1>0 DEF NoCall, Locals
  <2>2. call' \in [Callers -> Locals]
    BY <2>1, NullRecords DEF ManagerInv, TypeOK, Register
  <2>3. servers' \in [Names -> Instances \cup {None}]
    BY <1>0 DEF ManagerInv, TypeOK, Register
  <2>. QED
    BY <2>2, <2>3 DEF ManagerInv, TypeOK, Register
<1>2. MapTracksWaiters'
  BY <1>0, <1>a, <1>b DEF ManagerInv, TypeOK, MapTracksWaiters
<1>3. PcInv'
  BY <1>0, <1>a DEF ManagerInv, PcInv
<1>4. AddInv'
  <2> SUFFICES ASSUME NEW d \in Callers, pc'[d] = "add"
               PROVE  /\ call'[d].inst \in Instances
                      /\ proc[call'[d].inst] # "none"
                      /\ pc'[call'[d].inst] = "none"
                      /\ \A e \in Callers :
                            pc'[e] = "add" /\ call'[e].inst = call'[d].inst => e = d
    BY DEF AddInv, Register
  <2>1. d # c /\ d # i /\ pc[d] = "add" /\ call'[d] = call[d]
    BY <1>0, <1>a
  <2>2. call[d].inst \in Instances \ {i, c} /\ pc[call[d].inst] = "none"
    BY <1>0, <2>1 DEF ManagerInv, AddInv
  <2>. QED
    BY <1>0, <1>a, <2>1, <2>2 DEF ManagerInv, AddInv
<1>5. ProcInv'
  <2>1. ASSUME NEW j \in Instances
        PROVE  /\ pc'[j] = "wait" => proc'[j] # "none"
               /\ pc'[j] \notin {"wait", "none"} => proc'[j] = "none"
    BY <1>0, <1>a, <1>b DEF ManagerInv, ProcInv
  <2>2. ASSUME NEW j \in Instances, proc'[j] = "running"
        PROVE  pc'[j] = "wait" \/ \E d \in Callers : pc'[d] = "add" /\ call'[d].inst = j
    <3>1. CASE j = i
      BY <1>a, <3>1
    <3>2. CASE j # i /\ pc[j] = "wait"
      BY <1>a, <3>2
    <3>3. ASSUME NEW d \in Callers, pc[d] = "add", call[d].inst = j, j # i
          PROVE  pc'[d] = "add" /\ call'[d].inst = j
      BY <1>0, <1>a, <3>3
    <3>. QED
      BY <1>b, <2>2, <3>1, <3>2, <3>3 DEF ManagerInv, ProcInv
  <2>. QED
    BY <2>1, <2>2 DEF ProcInv
<1>6. HaltInv'
  BY <1>0, <1>a DEF ManagerInv, TypeOK, PcInv, HaltInv, Register
<1>. QED
  BY <1>1, <1>2, <1>3, <1>4, <1>5, <1>6 DEF ManagerInv

(* Add refuses the server.                                                   *)
LEMMA DiscardInv ==
  ASSUME ManagerInv, NEW c \in Callers, pc[c] = "add", Discard(c),
         UNCHANGED <<diskAuto, stalled, mutex>>
  PROVE  ManagerInv'
<1> USE NoneAssumption, CallersAssumption
        DEF Callers, StartPhases, Registered
<1> DEFINE i == call[c].inst
<1>0. /\ i \in Instances /\ i # c /\ pc[i] = "none" /\ proc[i] # "none"
      /\ \A d \in Callers : pc[d] = "add" /\ call[d].inst = i => d = c
  BY DEF ManagerInv, TypeOK, AddInv
<1>a. /\ pc'[c] = (IF c \in Handlers THEN "idle" ELSE "none")
      /\ \A d \in Callers \ {c} : pc'[d] = pc[d] /\ call'[d] = call[d]
      /\ proc'[i] \notin {"none", "running"}
      /\ \A j \in Instances \ {i} : proc'[j] = proc[j] /\ srv'[j] = srv[j]
  BY <1>0 DEF ManagerInv, TypeOK, Discard, Return, Goto
<1>1. TypeOK'
  <2>1. [NoServer EXCEPT !.pid = srv[i].pid] \in ServerFields
    BY <1>0 DEF ManagerInv, TypeOK, NoServer, ServerFields
  <2>2. srv' \in [Instances -> ServerFields] /\ call' \in [Callers -> Locals]
    BY <2>1, NullRecords DEF ManagerInv, TypeOK, Discard, Return
  <2>3. proc' \in [Instances -> {"none", "running", "killed", "zombie"}]
    BY <1>0 DEF ManagerInv, TypeOK, Discard
  <2>. QED
    BY <2>2, <2>3 DEF ManagerInv, TypeOK, Discard, Return, Goto
<1>2. MapTracksWaiters'
  BY <1>0, <1>a DEF ManagerInv, TypeOK, MapTracksWaiters, Discard
<1>3. PcInv'
  BY <1>0, <1>a DEF ManagerInv, PcInv
<1>4. AddInv'
  BY <1>0, <1>a DEF ManagerInv, AddInv
<1>5. ProcInv'
  BY <1>0, <1>a DEF ManagerInv, ProcInv
<1>6. HaltInv'
  BY <1>0, <1>a DEF ManagerInv, TypeOK, HaltInv, Discard, Return
<1>. QED
  BY <1>1, <1>2, <1>3, <1>4, <1>5, <1>6 DEF ManagerInv

(* A process ends.                                                           *)
LEMMA ExitInv ==
  ASSUME ManagerInv, NEW i \in Instances, Exit(i)
  PROVE  ManagerInv'
<1> USE NoneAssumption, CallersAssumption
        DEF Callers, StartPhases, Registered
<1>1. TypeOK'
  BY DEF ManagerInv, TypeOK, Exit
<1>2. MapTracksWaiters'
  BY DEF ManagerInv, TypeOK, MapTracksWaiters, Exit
<1>3. PcInv'
  BY DEF ManagerInv, TypeOK, PcInv, Exit
<1>4. AddInv'
  BY DEF ManagerInv, TypeOK, AddInv, Exit
<1>5. ProcInv'
  BY DEF ManagerInv, TypeOK, ProcInv, Exit
<1>6. HaltInv'
  BY DEF ManagerInv, TypeOK, HaltInv, Exit
<1>. QED
  BY <1>1, <1>2, <1>3, <1>4, <1>5, <1>6 DEF ManagerInv

(* cmd.Wait returns.                                                         *)
LEMMA ReapInv ==
  ASSUME ManagerInv, NEW i \in Instances, Reap(i)
  PROVE  ManagerInv'
<1> USE NoneAssumption, CallersAssumption
        DEF Callers, StartPhases, Registered
<1>1. TypeOK'
  BY DEF ManagerInv, TypeOK, Reap, Goto
<1>2. MapTracksWaiters'
  BY DEF ManagerInv, TypeOK, MapTracksWaiters, Reap, Goto
<1>3. PcInv'
  BY DEF ManagerInv, TypeOK, PcInv, Reap, Goto
<1>4. AddInv'
  BY DEF ManagerInv, TypeOK, AddInv, Reap, Goto
<1>5. ProcInv'
  BY DEF ManagerInv, TypeOK, ProcInv, Reap, Goto
<1>6. HaltInv'
  BY DEF ManagerInv, TypeOK, HaltInv, Reap, Goto
<1>. QED
  BY <1>1, <1>2, <1>3, <1>4, <1>5, <1>6 DEF ManagerInv

(* The exit notice.                                                          *)
LEMMA NotifyInv ==
  ASSUME ManagerInv, NEW i \in Instances, Notify(i)
  PROVE  ManagerInv'
<1> USE NoneAssumption, CallersAssumption
        DEF Callers, StartPhases, Registered
<1>1. TypeOK'
  BY DEF ManagerInv, TypeOK, Notify, Goto
<1>2. MapTracksWaiters'
  BY DEF ManagerInv, TypeOK, MapTracksWaiters, Notify, Goto
<1>3. PcInv'
  BY DEF ManagerInv, TypeOK, PcInv, Notify, Goto
<1>4. AddInv'
  BY DEF ManagerInv, TypeOK, AddInv, Notify, Goto
<1>5. ProcInv'
  BY DEF ManagerInv, TypeOK, ProcInv, Notify, Goto
<1>6. HaltInv'
  BY DEF ManagerInv, TypeOK, HaltInv, Notify, Goto
<1>. QED
  BY <1>1, <1>2, <1>3, <1>4, <1>5, <1>6 DEF ManagerInv

(* The entry goes away; the flag stays to be read.                           *)
LEMMA RemoveInv ==
  ASSUME ManagerInv, NEW i \in Instances, Remove(i)
  PROVE  ManagerInv'
<1> USE NoneAssumption, CallersAssumption
        DEF Callers, StartPhases, Registered
<1>1. TypeOK'
  <2>1. [NoServer EXCEPT !.auto = srv[i].auto] \in ServerFields
    BY DEF ManagerInv, TypeOK, NoServer, ServerFields
  <2>. QED
    BY <2>1 DEF ManagerInv, TypeOK, Remove, Goto
<1>2. MapTracksWaiters'
  BY DEF ManagerInv, TypeOK, MapTracksWaiters, Remove, Goto, NoServer
<1>3. PcInv'
  BY DEF ManagerInv, TypeOK, PcInv, Remove, Goto, NoServer
<1>4. AddInv'
  BY DEF ManagerInv, TypeOK, AddInv, Remove, Goto, NoServer
<1>5. ProcInv'
  BY DEF ManagerInv, TypeOK, ProcInv, Remove, Goto, NoServer
<1>6. HaltInv'
  BY DEF ManagerInv, TypeOK, HaltInv, Remove, Goto, NoServer
<1>. QED
  BY <1>1, <1>2, <1>3, <1>4, <1>5, <1>6 DEF ManagerInv

(* The decision: sleep before a restart, or end.                             *)
LEMMA DecideInv ==
  ASSUME ManagerInv, NEW i \in Instances, Decide(i)
  PROVE  ManagerInv'
<1> USE NoneAssumption, CallersAssumption
        DEF Callers, StartPhases, Registered
<1>0. /\ pc[i] = "decide" /\ pc'[i] \in {"sleep", "none"}
      /\ \A d \in Callers \ {i} : pc'[d] = pc[d] /\ call'[d] = call[d]
      /\ pc'[i] = "sleep" => call'[i] = call[i] /\ halted'[i] = halted[i] /\ srv[i].auto
      /\ pc'[i] = "none" => halted'[i] = "no"
      /\ \A j \in Instances \ {i} : halted'[j] = halted[j] /\ srv'[j] = srv[j]
  BY DEF ManagerInv, TypeOK, Decide, Goto, Return
<1>1. TypeOK'
  BY NullRecords DEF ManagerInv, TypeOK, Decide, Goto, Return
<1>2. MapTracksWaiters'
  BY <1>0 DEF ManagerInv, TypeOK, MapTracksWaiters, Decide
<1>3. PcInv'
  BY <1>0 DEF ManagerInv, PcInv
<1>4. AddInv'
  BY <1>0 DEF ManagerInv, TypeOK, AddInv, Decide
<1>5. ProcInv'
  BY <1>0 DEF ManagerInv, TypeOK, ProcInv, Decide
<1>6. HaltInv'
  BY <1>0 DEF ManagerInv, HaltInv
<1>. QED
  BY <1>1, <1>2, <1>3, <1>4, <1>5, <1>6 DEF ManagerInv

(* The goroutine calls Start after its sleep.                                *)
LEMMA WakeInv ==
  ASSUME ManagerInv, NEW i \in Instances, Wake(i)
  PROVE  ManagerInv'
<1>1. i \in Callers /\ call' \in [Callers -> Locals]
  BY DEF Callers, ManagerInv, TypeOK, Wake
<1>. QED
  BY <1>1, AdvanceInv DEF Wake

(* A screen client stops or resumes reading.                                 *)
LEMMA StallInv ==
  ASSUME ManagerInv, NEW i \in Instances, Stall(i)
  PROVE  ManagerInv'
<1> USE NoneAssumption, CallersAssumption
        DEF Callers, StartPhases, Registered
<1>1. TypeOK'
  BY DEF ManagerInv, TypeOK, Stall
<1>2. MapTracksWaiters'
  BY DEF ManagerInv, TypeOK, MapTracksWaiters, Stall
<1>3. PcInv'
  BY DEF ManagerInv, TypeOK, PcInv, Stall
<1>4. AddInv'
  BY DEF ManagerInv, TypeOK, AddInv, Stall
<1>5. ProcInv'
  BY DEF ManagerInv, TypeOK, ProcInv, Stall
<1>6. HaltInv'
  BY DEF ManagerInv, TypeOK, HaltInv, Stall
<1>. QED
  BY <1>1, <1>2, <1>3, <1>4, <1>5, <1>6 DEF ManagerInv

(* The write of STOP to the console returns, and the mutex is free.          *)
LEMMA StopReturnsInv ==
  ASSUME ManagerInv, StopReturns
  PROVE  ManagerInv'
<1>1. /\ UNCHANGED <<servers, srv, proc, pc, call, diskAuto, stalled, halted>>
      /\ mutex' = None
  BY DEF StopReturns
<1>2. TypeOK'
  BY <1>1 DEF ManagerInv, TypeOK
<1>3. MapTracksWaiters' /\ PcInv' /\ AddInv' /\ ProcInv' /\ HaltInv'
  BY <1>1 DEF ManagerInv, MapTracksWaiters, PcInv, AddInv, ProcInv, HaltInv
<1>. QED
  BY <1>2, <1>3 DEF ManagerInv

(* STOP.                                                                     *)
LEMMA StopInv ==
  ASSUME ManagerInv, NEW n \in Names, Stop(n)
  PROVE  ManagerInv'
<1> USE NoneAssumption, CallersAssumption
        DEF Callers, StartPhases, Registered
<1>1. TypeOK'
  <2>1. CASE servers[n] = None
    BY <2>1 DEF ManagerInv, TypeOK, Stop, Refuse
  <2>2. CASE servers[n] # None
    <3>0. srv[servers[n]] \in ServerFields
      BY <2>2 DEF ManagerInv, TypeOK
    <3>1. [[srv[servers[n]] EXCEPT !.auto = FALSE] EXCEPT !.state = "stopping"]
              \in ServerFields
      BY <3>0, RecordUpdates
    <3>a. srv' = [srv EXCEPT ![servers[n]].auto = FALSE, ![servers[n]].state = "stopping"]
      BY <2>2 DEF Stop, Refuse
    <3>b. servers[n] \in Instances /\ srv \in [Instances -> ServerFields]
      BY <2>2 DEF ManagerInv, TypeOK
    <3>2. srv' \in [Instances -> ServerFields]
      BY ONLY <3>1, <3>a, <3>b
    <3>. QED
      BY <2>2, <3>2 DEF ManagerInv, TypeOK, Stop, Refuse
  <2>. QED
    BY <2>1, <2>2
<1>2. MapTracksWaiters'
  BY DEF ManagerInv, TypeOK, MapTracksWaiters, Stop
<1>3. PcInv'
  BY DEF ManagerInv, TypeOK, PcInv, Stop
<1>4. AddInv'
  BY DEF ManagerInv, TypeOK, AddInv, Stop, Refuse
<1>5. ProcInv'
  BY DEF ManagerInv, TypeOK, ProcInv, Stop, Refuse
<1>6. HaltInv'
  <2>1. CASE servers[n] = None
    BY <2>1 DEF ManagerInv, TypeOK, HaltInv, Stop, Refuse
  <2>2. CASE servers[n] # None
    <3>0. srv[servers[n]] \in ServerFields
      BY <2>2 DEF ManagerInv, TypeOK
    <3>a. /\ srv'[servers[n]] = [[srv[servers[n]] EXCEPT !.auto = FALSE] EXCEPT !.state = "stopping"]
          /\ \A i \in Instances : i # servers[n] => srv'[i] = srv[i]
          /\ halted' = [halted EXCEPT ![servers[n]] = "accepted"]
          /\ pc' = pc
      BY <2>2 DEF ManagerInv, TypeOK, Stop, Refuse
    <3>1. ~srv'[servers[n]].auto
      BY <3>0, <3>a, RecordUpdates
    <3>2. servers[n] \in Instances /\ pc[servers[n]] \in Registered
      BY <2>2 DEF ManagerInv, TypeOK, MapTracksWaiters
    <3>3. ASSUME NEW i \in Instances
          PROVE  /\ pc'[i] = "none" => halted'[i] = "no"
                 /\ halted'[i] = "accepted" =>
                      /\ pc'[i] \notin {"sleep"} \cup StartPhases
                      /\ pc'[i] \in Registered \cup {"decide"} => ~srv'[i].auto
      <4>1. CASE i = servers[n]
        BY <3>1, <3>a, <3>2, <4>1 DEF ManagerInv, TypeOK
      <4>2. CASE i # servers[n]
        <5>1. srv'[i] = srv[i] /\ halted'[i] = halted[i] /\ pc'[i] = pc[i]
          BY <3>a, <4>2 DEF ManagerInv, TypeOK
        <5>. QED
          BY <5>1 DEF ManagerInv, HaltInv
      <4>. QED
        BY <4>1, <4>2
    <3>. QED
      BY <3>3 DEF HaltInv
  <2>. QED
    BY <2>1, <2>2
<1>. QED
  BY <1>1, <1>2, <1>3, <1>4, <1>5, <1>6 DEF ManagerInv

(* KILL, whatever process its signal hits.                                   *)
LEMMA KillInv ==
  ASSUME ManagerInv, NEW n \in Names, Kill(n)
  PROVE  ManagerInv'
<1> USE NoneAssumption, CallersAssumption
        DEF Callers, StartPhases, Registered
<1>1. TypeOK'
  <2>1. CASE servers[n] = None
    BY <2>1 DEF ManagerInv, TypeOK, Kill, Refuse
  <2>2. CASE servers[n] # None
    <3>0. srv[servers[n]] \in ServerFields
      BY <2>2 DEF ManagerInv, TypeOK
    <3>1. [srv[servers[n]] EXCEPT !.auto = FALSE] \in ServerFields
      BY <3>0, RecordUpdates
    <3>a. srv' = [srv EXCEPT ![servers[n]].auto = FALSE]
      BY <2>2 DEF Kill, Refuse
    <3>b. servers[n] \in Instances /\ srv \in [Instances -> ServerFields]
      BY <2>2 DEF ManagerInv, TypeOK
    <3>2. srv' \in [Instances -> ServerFields]
      BY ONLY <3>1, <3>a, <3>b
    <3>. QED
      BY <2>2, <3>2 DEF ManagerInv, TypeOK, Kill, Refuse
  <2>. QED
    BY <2>1, <2>2
<1>2. MapTracksWaiters'
  BY DEF ManagerInv, TypeOK, MapTracksWaiters, Kill
<1>3. PcInv'
  BY DEF ManagerInv, TypeOK, PcInv, Kill
<1>4. AddInv'
  BY DEF ManagerInv, TypeOK, AddInv, Kill, Refuse
<1>5. ProcInv'
  BY DEF ManagerInv, TypeOK, ProcInv, Kill, Refuse
<1>6. HaltInv'
  <2>1. CASE servers[n] = None
    BY <2>1 DEF ManagerInv, TypeOK, HaltInv, Kill, Refuse
  <2>2. CASE servers[n] # None
    <3>0. srv[servers[n]] \in ServerFields
      BY <2>2 DEF ManagerInv, TypeOK
    <3>a. /\ srv'[servers[n]] = [srv[servers[n]] EXCEPT !.auto = FALSE]
          /\ \A i \in Instances : i # servers[n] => srv'[i] = srv[i]
          /\ halted' = [halted EXCEPT ![servers[n]] = "accepted"]
          /\ pc' = pc
      BY <2>2 DEF ManagerInv, TypeOK, Kill, Refuse
    <3>1. ~srv'[servers[n]].auto
      BY <3>0, <3>a, RecordUpdates
    <3>2. servers[n] \in Instances /\ pc[servers[n]] \in Registered
      BY <2>2 DEF ManagerInv, TypeOK, MapTracksWaiters
    <3>3. ASSUME NEW i \in Instances
          PROVE  /\ pc'[i] = "none" => halted'[i] = "no"
                 /\ halted'[i] = "accepted" =>
                      /\ pc'[i] \notin {"sleep"} \cup StartPhases
                      /\ pc'[i] \in Registered \cup {"decide"} => ~srv'[i].auto
      <4>1. CASE i = servers[n]
        BY <3>1, <3>a, <3>2, <4>1 DEF ManagerInv, TypeOK
      <4>2. CASE i # servers[n]
        <5>1. srv'[i] = srv[i] /\ halted'[i] = halted[i] /\ pc'[i] = pc[i]
          BY <3>a, <4>2 DEF ManagerInv, TypeOK
        <5>. QED
          BY <5>1 DEF ManagerInv, HaltInv
      <4>. QED
        BY <4>1, <4>2
    <3>. QED
      BY <3>3 DEF HaltInv
  <2>. QED
    BY <2>1, <2>2
<1>. QED
  BY <1>1, <1>2, <1>3, <1>4, <1>5, <1>6 DEF ManagerInv

(* SET autorestart.                                                          *)
LEMMA SetAutoRestartInv ==
  ASSUME ManagerInv, NEW n \in Names, NEW b \in BOOLEAN, SetAutoRestart(n, b)
  PROVE  ManagerInv'
<1> USE NoneAssumption, CallersAssumption
        DEF Callers, StartPhases, Registered
<1>1. TypeOK'
  <2>0. servers[n] # None => srv[servers[n]] \in ServerFields
    BY DEF ManagerInv, TypeOK
  <2>1. servers[n] # None => [srv[servers[n]] EXCEPT !.auto = b] \in ServerFields
    BY <2>0, RecordUpdates
  <2>2. srv' \in [Instances -> ServerFields]
    BY <2>1 DEF ManagerInv, TypeOK, SetAutoRestart
  <2>. QED
    BY <2>2 DEF ManagerInv, TypeOK, SetAutoRestart
<1>2. MapTracksWaiters'
  BY DEF ManagerInv, TypeOK, MapTracksWaiters, SetAutoRestart
<1>3. PcInv'
  BY DEF ManagerInv, TypeOK, PcInv, SetAutoRestart
<1>4. AddInv'
  BY DEF ManagerInv, TypeOK, AddInv, SetAutoRestart
<1>5. ProcInv'
  BY DEF ManagerInv, TypeOK, ProcInv, SetAutoRestart
<1>6. HaltInv'
  <2>1. CASE servers[n] = None
    BY <2>1 DEF ManagerInv, TypeOK, HaltInv, SetAutoRestart
  <2>2. CASE servers[n] # None
    <3>0. srv[servers[n]] \in ServerFields
      BY <2>2 DEF ManagerInv, TypeOK
    <3>a. /\ srv'[servers[n]] = [srv[servers[n]] EXCEPT !.auto = b]
          /\ \A i \in Instances : i # servers[n] => srv'[i] = srv[i]
          /\ halted' = [halted EXCEPT ![servers[n]] = IF b THEN "no" ELSE halted[servers[n]]]
          /\ pc' = pc
      BY <2>2 DEF ManagerInv, TypeOK, SetAutoRestart
    <3>1. srv'[servers[n]].auto = b
      BY <3>0, <3>a, RecordUpdates
    <3>2. servers[n] \in Instances /\ pc[servers[n]] \in Registered
      BY <2>2 DEF ManagerInv, TypeOK, MapTracksWaiters
    <3>3. ASSUME NEW i \in Instances
          PROVE  /\ pc'[i] = "none" => halted'[i] = "no"
                 /\ halted'[i] = "accepted" =>
                      /\ pc'[i] \notin {"sleep"} \cup StartPhases
                      /\ pc'[i] \in Registered \cup {"decide"} => ~srv'[i].auto
      <4>1. CASE i = servers[n]
        BY <3>1, <3>a, <3>2, <4>1 DEF ManagerInv, TypeOK
      <4>2. CASE i # servers[n]
        <5>1. srv'[i] = srv[i] /\ halted'[i] = halted[i] /\ pc'[i] = pc[i]
          BY <3>a, <4>2 DEF ManagerInv, TypeOK
        <5>. QED
          BY <5>1 DEF ManagerInv, HaltInv
      <4>. QED
        BY <4>1, <4>2
    <3>. QED
      BY <3>3 DEF HaltInv
  <2>. QED
    BY <2>1, <2>2
<1>. QED
  BY <1>1, <1>2, <1>3, <1>4, <1>5, <1>6 DEF ManagerInv

(* The unlocked Get.                                                         *)
LEMMA GetInv ==
  ASSUME ManagerInv, NEW h \in Handlers, GetRequest(h) \/ Get(h)
  PROVE  ManagerInv'
<1> USE NoneAssumption, CallersAssumption
        DEF Callers, StartPhases, Registered
<1>1. TypeOK'
  BY DEF ManagerInv, TypeOK, GetRequest, Get, Goto
<1>2. MapTracksWaiters'
  BY DEF ManagerInv, TypeOK, MapTracksWaiters, GetRequest, Get, Goto
<1>3. PcInv'
  BY DEF ManagerInv, TypeOK, PcInv, GetRequest, Get, Goto
<1>4. AddInv'
  BY DEF ManagerInv, TypeOK, AddInv, GetRequest, Get, Goto
<1>5. ProcInv'
  BY DEF ManagerInv, TypeOK, ProcInv, GetRequest, Get, Goto
<1>6. HaltInv'
  BY DEF ManagerInv, TypeOK, HaltInv, GetRequest, Get, Goto
<1>. QED
  BY <1>1, <1>2, <1>3, <1>4, <1>5, <1>6 DEF ManagerInv

(* The runtime aborts the daemon.                                            *)
LEMMA MapRaceInv ==
  ASSUME ManagerInv, MapRace
  PROVE  ManagerInv'
<1> USE NoneAssumption, CallersAssumption
        DEF Callers, StartPhases, Registered
<1>1. TypeOK'
  BY NullRecords DEF ManagerInv, TypeOK, MapRace
<1>2. MapTracksWaiters'
  BY DEF ManagerInv, TypeOK, MapTracksWaiters, MapRace
<1>3. PcInv'
  BY DEF ManagerInv, TypeOK, PcInv, MapRace
<1>4. AddInv'
  BY DEF ManagerInv, TypeOK, AddInv, MapRace
<1>5. ProcInv'
  BY DEF ManagerInv, TypeOK, ProcInv, MapRace
<1>6. HaltInv'
  BY DEF ManagerInv, TypeOK, HaltInv, MapRace
<1>. QED
  BY <1>1, <1>2, <1>3, <1>4, <1>5, <1>6 DEF ManagerInv

(* ManagerInv holds in every reachable state.                                *)
THEOREM Invariance == Spec => []ManagerInv
<1>1. ManagerInv /\ UNCHANGED vars => ManagerInv'
  BY DEF ManagerInv, TypeOK, MapTracksWaiters, PcInv, AddInv, ProcInv, HaltInv, vars
<1>2. ManagerInv /\ Next => ManagerInv'
  <2> SUFFICES ASSUME ManagerInv, Next PROVE ManagerInv'
    OBVIOUS
  <2>1. ASSUME NEW c \in Callers, StartStep(c) PROVE ManagerInv'
    BY <2>1, CheckRunningInv, BuildInv, PortCheckInv, SpawnInv, RegisterInv,
       DiscardInv DEF StartStep, Add
  <2>2. ASSUME NEW i \in Instances, InstanceStep(i) \/ Stall(i) PROVE ManagerInv'
    BY <2>2, ExitInv, ReapInv, NotifyInv, RemoveInv, DecideInv, WakeInv, StallInv
       DEF InstanceStep
  <2>3. ASSUME NEW n \in Names, Stop(n) \/ Kill(n) PROVE ManagerInv'
    BY <2>3, StopInv, KillInv
  <2>4. ASSUME NEW n \in Names, NEW b \in BOOLEAN, SetAutoRestart(n, b)
        PROVE  ManagerInv'
    BY <2>4, SetAutoRestartInv
  <2>5. ASSUME NEW h \in Handlers, NEW n \in Names, StartRequest(h, n)
        PROVE  ManagerInv'
    BY <2>5, StartRequestInv
  <2>6. ASSUME NEW h \in Handlers, GetRequest(h) \/ Get(h) PROVE ManagerInv'
    BY <2>6, GetInv
  <2>7. CASE MapRace
    BY <2>7, MapRaceInv
  <2>8. CASE StopReturns
    BY <2>8, StopReturnsInv
  <2>. QED
    BY <2>1, <2>2, <2>3, <2>4, <2>5, <2>6, <2>7, <2>8 DEF Next
<1>. QED
  BY <1>1, <1>2, InitInv, PTL DEF Spec

\* Every variable keeps its type: in particular Remove, Stop and Kill only
\* ever meet names and Server objects that exist.
THEOREM TypeCorrect == Spec => []TypeOK
<1>1. ManagerInv => TypeOK
  BY DEF ManagerInv
<1>. QED
  BY <1>1, Invariance, PTL

\* The table of Manager and the goroutines started by Start always describe
\* the same servers (Add, Remove).
THEOREM TableIsExact == Spec => []MapTracksWaiters
<1>1. ManagerInv => MapTracksWaiters
  BY DEF ManagerInv
<1>. QED
  BY <1>1, Invariance, PTL

\* No interleaving of Starts, restarts and exits leaves a server process that
\* STOP and KILL cannot reach (Start, Add).
THEOREM NoOrphanProcess == Spec => []NoOrphan
<1>1. ManagerInv => NoOrphan
  BY DEF ManagerInv, TypeOK, MapTracksWaiters, PcInv, ProcInv, NoOrphan,
         Callers, Registered
<1>. QED
  BY <1>1, Invariance, PTL

\* A server that accepted STOP or KILL never comes back by itself (Stop, Kill
\* and the unlocked read in the wait goroutine).
THEOREM NoRestartAfterHalt == Spec => []HaltIsFinal
<1>1. ManagerInv => HaltIsFinal
  BY DEF ManagerInv, HaltInv, HaltIsFinal
<1>. QED
  BY <1>1, Invariance, PTL

-----------------------------------------------------------------------------
\* The registry's actions, stated name by name.

\* A step that changes nothing the registry shows is a stutter.
LEMMA Quiet ==
    ASSUME \A m \in Names : /\ StatusOf(m)' = StatusOf(m)
                            /\ WantsOf(m)' = WantsOf(m)
                            /\ OwedOf(m)' = OwedOf(m)
    PROVE  UNCHANGED Registry!vars
BY DEF Registry!vars

\* A process of a listed server ends.
LEMMA Dies ==
    ASSUME NEW n \in Names,
           StatusOf(n) = "up",
           \A m \in Names : /\ StatusOf(m)' = IF m = n THEN "down" ELSE StatusOf(m)
                            /\ WantsOf(m)' = WantsOf(m)
                            /\ OwedOf(m)' = OwedOf(m)
    PROVE  Registry!Next
<1>1. Registry!Die(n)
  BY DEF Registry!Die
<1> QED
  BY <1>1 DEF Registry!Next

\* The flag of a listed server is set.
LEMMA Changes ==
    ASSUME NEW n \in Names, NEW b \in BOOLEAN,
           StatusOf(n) # "absent",
           \A m \in Names : /\ StatusOf(m)' = StatusOf(m)
                            /\ WantsOf(m)' = IF m = n THEN b ELSE WantsOf(m)
                            /\ OwedOf(m)' = OwedOf(m)
    PROVE  Registry!Next
<1>1. Registry!Change(n, b)
  BY DEF Registry!Change
<1> QED
  BY <1>1 DEF Registry!Next

\* A restart that was owed does not happen.
LEMMA GivesUp ==
    ASSUME NEW n \in Names, NEW i \in Instances,
           i \in OwedOf(n),
           \A m \in Names : /\ StatusOf(m)' = StatusOf(m)
                            /\ WantsOf(m)' = WantsOf(m)
                            /\ OwedOf(m)' = IF m = n THEN OwedOf(m) \ {i} ELSE OwedOf(m)
    PROVE  Registry!Next
<1>1. Registry!GiveUp(n, i)
  BY DEF Registry!GiveUp
<1> QED
  BY <1>1 DEF Registry!Next

\* A server is listed that nobody owed.
LEMMA Begins ==
    ASSUME NEW n \in Names,
           StatusOf(n) = "absent",
           StatusOf(n)' \in {"up", "down"},
           WantsOf(n)' \in BOOLEAN,
           \A m \in Names : /\ m # n => StatusOf(m)' = StatusOf(m)
                            /\ m # n => WantsOf(m)' = WantsOf(m)
                            /\ OwedOf(m)' = OwedOf(m)
    PROVE  Registry!Next
<1>1. Registry!Appear(n)
  BY DEF Registry!Appear
<1>2. Registry!Begin(n)
  BY <1>1 DEF Registry!Begin
<1> QED
  BY <1>2 DEF Registry!Next

\* A server is listed by the wait goroutine that owed it.
LEMMA Resumes ==
    ASSUME NEW n \in Names, NEW i \in Instances,
           i \in OwedOf(n),
           StatusOf(n) = "absent",
           StatusOf(n)' \in {"up", "down"},
           WantsOf(n)' \in BOOLEAN,
           \A m \in Names :
              /\ m # n => StatusOf(m)' = StatusOf(m)
              /\ m # n => WantsOf(m)' = WantsOf(m)
              /\ OwedOf(m)' = IF m = n THEN OwedOf(m) \ {i} ELSE OwedOf(m)
    PROVE  Registry!Next
<1>1. Registry!Appear(n)
  BY DEF Registry!Appear
<1>2. Registry!Resume(n, i)
  BY <1>1 DEF Registry!Resume
<1> QED
  BY <1>2 DEF Registry!Next

\* A server leaves the list, owing a restart if it wanted one.
LEMMA Leaves ==
    ASSUME NEW n \in Names, NEW i \in Instances,
           StatusOf(n) = "down",
           \A m \in Names : i \notin OwedOf(m),
           \A m \in Names :
              /\ StatusOf(m)' = IF m = n THEN "absent" ELSE StatusOf(m)
              /\ WantsOf(m)' = IF m = n THEN FALSE ELSE WantsOf(m)
              /\ OwedOf(m)' = IF m = n /\ WantsOf(n)
                              THEN OwedOf(m) \cup {i} ELSE OwedOf(m)
    PROVE  Registry!Next
<1>1. Registry!Leave(n)
  <2>1. CASE WantsOf(n)
    BY <2>1 DEF Registry!Leave
  <2>2. CASE ~WantsOf(n)
    BY <2>2 DEF Registry!Leave
  <2> QED
    BY <2>1, <2>2
<1> QED
  BY <1>1 DEF Registry!Next
-----------------------------------------------------------------------------
\* What a step leaves visible.

\* The table, and the processes and flags of the listed servers, are as before.
LEMMA SameTable ==
    ASSUME UNCHANGED servers,
           \A m \in Names : servers[m] # None =>
              /\ proc'[servers[m]] = proc[servers[m]]
              /\ srv'[servers[m]].auto = srv[servers[m]].auto
    PROVE  \A m \in Names : StatusOf(m)' = StatusOf(m) /\ WantsOf(m)' = WantsOf(m)
BY DEF StatusOf, WantsOf

\* The same goroutines owe a restart of the same servers.
LEMMA SameOwed ==
    ASSUME \A i \in Instances : /\ Owing(i)' <=> Owing(i)
                                /\ Owing(i) => call'[i].name = call[i].name
    PROVE  \A m \in Names : OwedOf(m)' = OwedOf(m)
BY DEF OwedOf

\* One wait goroutine no longer owes a restart.
LEMMA OneOwedLess ==
    ASSUME NEW c \in Instances, Owing(c), ~Owing(c)',
           \A i \in Instances \ {c} : /\ Owing(i)' <=> Owing(i)
                                      /\ call'[i].name = call[i].name
    PROVE  \A m \in Names : OwedOf(m)' = IF m = call[c].name
                                         THEN OwedOf(m) \ {c} ELSE OwedOf(m)
BY DEF OwedOf

\* A Start returns without having changed the table.
LEMMA ReturnMaps ==
    ASSUME ManagerInv, NEW c \in Callers, pc[c] \in StartPhases,
           Return(c), UNCHANGED servers,
           \A m \in Names : servers[m] # None =>
              /\ proc'[servers[m]] = proc[servers[m]]
              /\ srv'[servers[m]].auto = srv[servers[m]].auto,
           \A i \in Instances : pc[i] # "none" => srv'[i].auto = srv[i].auto
    PROVE  Registry!Next \/ UNCHANGED Registry!vars
<1> USE CallersAssumption DEF Callers, StartPhases
<1>1. \A m \in Names : StatusOf(m)' = StatusOf(m) /\ WantsOf(m)' = WantsOf(m)
  BY SameTable
<1>2. /\ pc'[c] = (IF c \in Handlers THEN "idle" ELSE "none")
      /\ \A d \in Callers \ {c} : pc'[d] = pc[d] /\ call'[d] = call[d]
  BY DEF ManagerInv, TypeOK, Return, Goto
<1>3. \A i \in Instances \ {c} : /\ Owing(i)' <=> Owing(i)
                                 /\ call'[i].name = call[i].name
  BY <1>2 DEF Owing
<1>4. CASE c \in Handlers
  <2>1. \A m \in Names : OwedOf(m)' = OwedOf(m)
    BY <1>3, <1>4, SameOwed
  <2> QED
    BY <1>1, <2>1, Quiet
<1>5. CASE c \in Instances
  <2>1. Owing(c) /\ ~Owing(c)'
    BY <1>2, <1>5 DEF Owing
  <2>2. \A m \in Names : OwedOf(m)' = IF m = call[c].name
                                       THEN OwedOf(m) \ {c} ELSE OwedOf(m)
    BY <1>3, <1>5, <2>1, OneOwedLess
  <2>3. call[c].name \in Names
    BY DEF ManagerInv, PcInv
  <2>4. c \in OwedOf(call[c].name)
    BY <1>5, <2>1 DEF OwedOf
  <2> QED
    BY <1>1, <1>5, <2>2, <2>3, <2>4, GivesUp
<1> QED
  BY <1>4, <1>5

\* A goroutine goes on inside Start.
LEMMA AdvanceMaps ==
    ASSUME ManagerInv, NEW c \in Callers, NEW phase \in StartPhases,
           pc[c] \in {"sleep"} \cup StartPhases,
           pc' = [pc EXCEPT ![c] = phase], UNCHANGED servers,
           \A d \in Callers : call'[d].name = call[d].name,
           \A m \in Names : servers[m] # None =>
              /\ proc'[servers[m]] = proc[servers[m]]
              /\ srv'[servers[m]].auto = srv[servers[m]].auto,
           \A i \in Instances : pc[i] # "none" => srv'[i].auto = srv[i].auto
    PROVE  UNCHANGED Registry!vars
<1> USE DEF Callers, StartPhases
<1>1. \A m \in Names : StatusOf(m)' = StatusOf(m) /\ WantsOf(m)' = WantsOf(m)
  BY SameTable
<1>2. \A i \in Instances : Owing(i)' <=> Owing(i)
  BY DEF ManagerInv, TypeOK, Owing
<1>3. \A m \in Names : OwedOf(m)' = OwedOf(m)
  BY <1>2, SameOwed
<1> QED
  BY <1>1, <1>3, Quiet
-----------------------------------------------------------------------------
\* One lemma per operation of the manager.

\* The three steps of Start before the spawn.
LEMMA BeforeSpawnMaps ==
    ASSUME ManagerInv, NEW c \in Callers,
           CheckRunning(c) \/ Build(c) \/ PortCheck(c)
    PROVE  Registry!Next \/ UNCHANGED Registry!vars
<1>1. /\ pc[c] \in {"check", "build", "ports"}
      /\ UNCHANGED <<servers, srv, proc>>
  BY DEF CheckRunning, Build, PortCheck
<1>2. CASE Return(c)
  BY <1>1, <1>2, ReturnMaps DEF StartPhases
<1>3. ASSUME NEW phase \in {"build", "ports", "spawn"}, Goto(c, phase),
             \A d \in Callers : call'[d].name = call[d].name
      PROVE  UNCHANGED Registry!vars
  BY <1>1, <1>3, AdvanceMaps DEF Goto, StartPhases
<1>4. ASSUME CheckRunning(c), ~Return(c) PROVE UNCHANGED Registry!vars
  BY <1>3, <1>4 DEF CheckRunning
<1>5. ASSUME PortCheck(c), ~Return(c) PROVE UNCHANGED Registry!vars
  BY <1>3, <1>5 DEF PortCheck
<1>6. ASSUME Build(c), ~Return(c) PROVE UNCHANGED Registry!vars
  <2>1. PICK p \in Ports :
           call' = [call EXCEPT ![c].auto = diskAuto[call[c].name], ![c].port = p]
    BY <1>6 DEF Build
  <2>2. call[c] \in Locals
    BY DEF ManagerInv, TypeOK
  <2>3. call'[c].name = call[c].name
    BY <2>1, <2>2 DEF ManagerInv, TypeOK, Locals
  <2>4. \A d \in Callers : call'[d].name = call[d].name
    BY <2>1, <2>3 DEF ManagerInv, TypeOK
  <2> QED
    BY <1>3, <1>6, <2>4 DEF Build
<1> QED
  BY <1>2, <1>4, <1>5, <1>6

\* The new process belongs to a Server that is not listed.
LEMMA SpawnMaps ==
    ASSUME ManagerInv, NEW c \in Callers, Spawn(c)
    PROVE  Registry!Next \/ UNCHANGED Registry!vars
<1>1. CASE Return(c) /\ UNCHANGED <<srv, proc>>
  BY <1>1, ReturnMaps DEF Spawn, StartPhases
<1>2. ASSUME NEW i \in FreeInstances, NEW p \in FreePids,
             proc' = [proc EXCEPT ![i] = "running"],
             srv' = [srv EXCEPT ![i] = [auto |-> call[c].auto, port |-> call[c].port,
                                        state |-> "running", pid |-> p]],
             call' = [call EXCEPT ![c] = [NoCall EXCEPT !.name = call[c].name,
                                                        !.inst = i]],
             Goto(c, "add")
      PROVE  UNCHANGED Registry!vars
  <2>1. i \in Instances /\ pc[i] = "none"
    BY DEF FreeInstances
  <2>2. \A m \in Names : servers[m] # i
    BY <2>1 DEF ManagerInv, MapTracksWaiters, Registered
  <2>3. \A m \in Names : servers[m] # None =>
              /\ proc'[servers[m]] = proc[servers[m]]
              /\ srv'[servers[m]].auto = srv[servers[m]].auto
    BY <1>2, <2>2 DEF ManagerInv, TypeOK
  <2>4. \A j \in Instances : pc[j] # "none" => srv'[j].auto = srv[j].auto
    BY <1>2, <2>1 DEF ManagerInv, TypeOK
  <2>5. call'[c].name = call[c].name
    BY <1>2 DEF ManagerInv, TypeOK, NoCall
  <2>6. \A d \in Callers : call'[d].name = call[d].name
    BY <1>2, <2>5 DEF ManagerInv, TypeOK
  <2>7. pc[c] = "spawn" /\ UNCHANGED servers
    BY DEF Spawn
  <2> QED
    BY <1>2, <2>3, <2>4, <2>6, <2>7, AdvanceMaps DEF Goto, StartPhases
<1> QED
  BY <1>1, <1>2 DEF Spawn

\* Add lists a new server, for a connection or for the goroutine that owed it.
LEMMA RegisterMaps ==
    ASSUME ManagerInv, NEW c \in Callers, pc[c] = "add", Register(c)
    PROVE  Registry!Next
<1> USE CallersAssumption, NoneAssumption DEF Callers, StartPhases
<1>0. PICK n \in Names, i \in Instances : n = call[c].name /\ i = call[c].inst
  BY DEF ManagerInv, AddInv, PcInv
<1>1. pc[i] = "none" /\ proc[i] # "none" /\ c # i
  BY <1>0 DEF ManagerInv, AddInv
<1>2. /\ servers'[n] = i
      /\ \A m \in Names \ {n} : servers'[m] = servers[m]
      /\ UNCHANGED <<srv, proc>>
  BY <1>0, <1>1 DEF Register, ManagerInv, TypeOK
<1>3. /\ pc'[i] = "wait"
      /\ pc'[c] = (IF c \in Handlers THEN "idle" ELSE "none")
      /\ \A d \in Callers \ {c, i} : pc'[d] = pc[d] /\ call'[d] = call[d]
  BY <1>0, <1>1 DEF Register, ManagerInv, TypeOK
<1>4. /\ StatusOf(n) = "absent"
      /\ StatusOf(n)' \in {"up", "down"}
      /\ WantsOf(n)' \in BOOLEAN
  <2>1. srv[i] \in ServerFields
    BY DEF ManagerInv, TypeOK
  <2>2. srv[i].auto \in BOOLEAN
    BY <2>1 DEF ServerFields
  <2>3. servers[n] = None
    BY <1>0 DEF Register
  <2> QED
    BY <1>1, <1>2, <2>2, <2>3 DEF StatusOf, WantsOf
<1>5. \A m \in Names : m # n => StatusOf(m)' = StatusOf(m) /\ WantsOf(m)' = WantsOf(m)
  BY <1>2 DEF StatusOf, WantsOf
<1>6. \A j \in Instances \ {c} : /\ Owing(j)' <=> Owing(j)
                                 /\ Owing(j) => call'[j].name = call[j].name
  BY <1>1, <1>2, <1>3 DEF Owing
<1>7. CASE c \in Handlers
  <2>1. \A m \in Names : OwedOf(m)' = OwedOf(m)
    BY <1>6, <1>7, SameOwed
  <2> QED
    BY <1>4, <1>5, <2>1, Begins
<1>8. CASE c \in Instances
  <2>1. Owing(c) /\ ~Owing(c)'
    BY <1>1, <1>3, <1>8 DEF Owing
  <2>2. \A m \in Names : OwedOf(m)' = IF m = n THEN OwedOf(m) \ {c} ELSE OwedOf(m)
    BY <1>0, <1>3, <1>6, <1>8, <2>1 DEF OwedOf
  <2>3. c \in OwedOf(n)
    BY <1>0, <1>8, <2>1 DEF OwedOf
  <2> QED
    BY <1>4, <1>5, <1>8, <2>2, <2>3, Resumes
<1> QED
  BY <1>7, <1>8

\* The refused server was never listed.
LEMMA DiscardMaps ==
    ASSUME ManagerInv, NEW c \in Callers, pc[c] = "add", Discard(c)
    PROVE  Registry!Next \/ UNCHANGED Registry!vars
<1> DEFINE i == call[c].inst
<1>1. i \in Instances /\ pc[i] = "none"
  BY DEF ManagerInv, AddInv
<1>2. \A j \in Instances \ {i} : proc'[j] = proc[j] /\ srv'[j] = srv[j]
  BY <1>1 DEF ManagerInv, TypeOK, Discard
<1>3. \A m \in Names : servers[m] \in (Instances \ {i}) \cup {None}
  BY <1>1 DEF ManagerInv, TypeOK, MapTracksWaiters, Registered
<1>4. \A m \in Names : servers[m] # None =>
              /\ proc'[servers[m]] = proc[servers[m]]
              /\ srv'[servers[m]].auto = srv[servers[m]].auto
  BY <1>2, <1>3
<1>5. \A j \in Instances : pc[j] # "none" => srv'[j].auto = srv[j].auto
  BY <1>1, <1>2
<1>6. pc[c] \in StartPhases /\ Return(c) /\ UNCHANGED servers
  BY DEF Discard, StartPhases
<1> QED
  BY <1>4, <1>5, <1>6, ReturnMaps
\* A process ends; the registry sees it if the server is listed.
LEMMA ExitMaps ==
    ASSUME ManagerInv, NEW i \in Instances, Exit(i)
    PROVE  Registry!Next \/ UNCHANGED Registry!vars
<1> USE NoneAssumption
<1>1. /\ proc[i] \in {"running", "killed"}
      /\ proc'[i] = "zombie"
      /\ \A j \in Instances \ {i} : proc'[j] = proc[j]
      /\ UNCHANGED <<servers, srv, pc, call>>
  BY DEF ManagerInv, TypeOK, Exit
<1>2. \A m \in Names : WantsOf(m)' = WantsOf(m) /\ OwedOf(m)' = OwedOf(m)
  BY <1>1 DEF WantsOf, OwedOf, Owing
<1>3. CASE \A m \in Names : servers[m] # i
  <2>1. \A m \in Names : StatusOf(m)' = StatusOf(m)
    BY <1>1, <1>3 DEF ManagerInv, TypeOK, StatusOf
  <2> QED
    BY <1>2, <2>1, Quiet
<1>4. ASSUME NEW n \in Names, servers[n] = i PROVE Registry!Next
  <2>1. \A m \in Names : servers[m] = i => m = n
    BY <1>4 DEF ManagerInv, MapTracksWaiters
  <2>2. StatusOf(n) = "up"
    BY <1>1, <1>4 DEF StatusOf
  <2>3. \A m \in Names : StatusOf(m)' = IF m = n THEN "down" ELSE StatusOf(m)
    BY <1>1, <1>4, <2>1 DEF ManagerInv, TypeOK, StatusOf
  <2> QED
    BY <1>2, <2>2, <2>3, Dies
<1> QED
  BY <1>3, <1>4

\* cmd.Wait, the exit notice and the sleep are invisible.
LEMMA WaitMaps ==
    ASSUME ManagerInv, NEW i \in Instances, Reap(i) \/ Notify(i) \/ Wake(i)
    PROVE  UNCHANGED Registry!vars
<1>1. /\ UNCHANGED <<servers, srv, call>>
      /\ \A j \in Instances \ {i} : pc'[j] = pc[j] /\ proc'[j] = proc[j]
      /\ \/ pc[i] = "sleep" /\ pc'[i] = "check"
         \/ pc[i] \in Registered /\ pc'[i] \in Registered
      /\ \/ proc'[i] = proc[i]
         \/ proc[i] = "zombie" /\ proc'[i] = "none"
  <2>1. CASE Reap(i)
    BY <2>1 DEF ManagerInv, TypeOK, Reap, Goto, Callers, Registered
  <2>2. CASE Notify(i)
    BY <2>2 DEF ManagerInv, TypeOK, Notify, Goto, Callers, Registered
  <2>3. CASE Wake(i)
    BY <2>3 DEF ManagerInv, TypeOK, Wake, Goto, Callers
  <2> QED
    BY <2>1, <2>2, <2>3
<1>2. \A m \in Names : StatusOf(m)' = StatusOf(m) /\ WantsOf(m)' = WantsOf(m)
  BY <1>1 DEF ManagerInv, TypeOK, StatusOf, WantsOf
<1>3. \A j \in Instances : Owing(j)' <=> Owing(j)
  BY <1>1 DEF Owing, Registered, StartPhases
<1>4. \A m \in Names : OwedOf(m)' = OwedOf(m)
  BY <1>1, <1>3, SameOwed
<1> QED
  BY <1>2, <1>4, Quiet

\* Remove takes the dead server off the list.
LEMMA RemoveMaps ==
    ASSUME ManagerInv, NEW i \in Instances, Remove(i)
    PROVE  Registry!Next
<1> USE NoneAssumption DEF Callers, Registered
<1>1. pc[i] = "remove" /\ proc[i] = "none"
  BY DEF Remove, ManagerInv, ProcInv
<1>2. PICK n \in Names : n = call[i].name
  BY <1>1 DEF ManagerInv, PcInv
<1>3. servers[n] = i /\ \A m \in Names : servers[m] = i => m = n
  BY <1>1, <1>2 DEF ManagerInv, MapTracksWaiters
<1>4. /\ servers'[n] = None
      /\ \A m \in Names \ {n} : servers'[m] = servers[m]
      /\ srv'[i].auto = srv[i].auto
      /\ \A j \in Instances \ {i} : srv'[j] = srv[j] /\ pc'[j] = pc[j]
      /\ pc'[i] = "decide"
      /\ UNCHANGED <<proc, call>>
  BY <1>2 DEF ManagerInv, TypeOK, Remove, Goto, NoServer
<1>5. StatusOf(n) = "down"
  BY <1>1, <1>3 DEF StatusOf
<1>6. \A m \in Names :
         /\ StatusOf(m)' = IF m = n THEN "absent" ELSE StatusOf(m)
         /\ WantsOf(m)' = IF m = n THEN FALSE ELSE WantsOf(m)
  <2>1. \A m \in Names : StatusOf(m)' = IF m = n THEN "absent" ELSE StatusOf(m)
    BY <1>3, <1>4 DEF ManagerInv, TypeOK, StatusOf
  <2>2. WantsOf(n)' = FALSE
    BY <1>4 DEF WantsOf
  <2>3. \A m \in Names \ {n} : WantsOf(m)' = WantsOf(m)
    BY <1>3, <1>4 DEF ManagerInv, TypeOK, WantsOf
  <2> QED
    BY <2>1, <2>2, <2>3
<1>7. /\ ~Owing(i)
      /\ Owing(i)' <=> WantsOf(n)
      /\ \A j \in Instances \ {i} : Owing(j)' <=> Owing(j)
  BY <1>1, <1>3, <1>4 DEF Owing, WantsOf, StartPhases
<1>8. \A m \in Names : i \notin OwedOf(m)
  BY <1>7 DEF OwedOf
<1>9. \A m \in Names : OwedOf(m)' = IF m = n /\ WantsOf(n)
                                     THEN OwedOf(m) \cup {i} ELSE OwedOf(m)
  BY <1>2, <1>4, <1>7 DEF OwedOf
<1> QED
  BY <1>5, <1>6, <1>8, <1>9, Leaves

\* The decision was made when the server left the list.
LEMMA DecideMaps ==
    ASSUME ManagerInv, NEW i \in Instances, Decide(i)
    PROVE  UNCHANGED Registry!vars
<1> USE NoneAssumption, CallersAssumption DEF Callers, Registered
<1>1. /\ pc[i] = "decide"
      /\ UNCHANGED <<servers, proc>>
      /\ \A j \in Instances \ {i} : srv'[j] = srv[j] /\ pc'[j] = pc[j] /\ call'[j] = call[j]
      /\ \/ srv[i].auto /\ pc'[i] = "sleep" /\ call' = call
         \/ ~srv[i].auto /\ pc'[i] = "none"
  BY DEF ManagerInv, TypeOK, Decide, Goto, Return
<1>2. \A m \in Names : servers[m] # i
  BY <1>1 DEF ManagerInv, MapTracksWaiters
<1>3. \A m \in Names : StatusOf(m)' = StatusOf(m) /\ WantsOf(m)' = WantsOf(m)
  BY <1>1, <1>2 DEF ManagerInv, TypeOK, StatusOf, WantsOf
<1>4. \A j \in Instances : /\ Owing(j)' <=> Owing(j)
                           /\ Owing(j) => call'[j].name = call[j].name
  BY <1>1 DEF Owing, StartPhases
<1>5. \A m \in Names : OwedOf(m)' = OwedOf(m)
  BY <1>4, SameOwed
<1> QED
  BY <1>3, <1>5, Quiet

\* STOP, KILL and SET autorestart set the flag of a listed server.
LEMMA CommandMaps ==
    ASSUME ManagerInv, NEW n \in Names, NEW b \in BOOLEAN,
           (b = FALSE /\ (Stop(n) \/ Kill(n))) \/ SetAutoRestart(n, b)
    PROVE  Registry!Next \/ UNCHANGED Registry!vars
<1> USE NoneAssumption DEF Callers, Registered
<1>1. UNCHANGED <<servers, pc, call>>
  BY DEF Stop, Kill, SetAutoRestart
<1>2. CASE servers[n] = None
  <2>1. UNCHANGED <<srv, proc>>
    BY <1>2 DEF Stop, Kill, SetAutoRestart, Refuse
  <2>2. \A m \in Names : StatusOf(m)' = StatusOf(m) /\ WantsOf(m)' = WantsOf(m)
    BY <1>1, <2>1, SameTable
  <2>3. \A m \in Names : OwedOf(m)' = OwedOf(m)
    BY <1>1, <2>1 DEF OwedOf, Owing
  <2> QED
    BY <2>2, <2>3, Quiet
<1>3. ASSUME NEW i \in Instances, servers[n] = i PROVE Registry!Next
  <2>1. /\ srv[i] \in ServerFields
        /\ \A m \in Names : servers[m] = i => m = n
        /\ pc[i] \in Registered
    BY <1>3 DEF ManagerInv, TypeOK, MapTracksWaiters
  <2>2. srv'[i].auto = b /\ \A j \in Instances \ {i} : srv'[j] = srv[j]
    <3>1. CASE b = FALSE /\ Stop(n)
      <4>1. srv' = [srv EXCEPT ![i].auto = FALSE, ![i].state = "stopping"]
        BY <1>3, <3>1 DEF Stop, Refuse
      <4>2. /\ srv'[i] = [[srv[i] EXCEPT !.auto = FALSE] EXCEPT !.state = "stopping"]
            /\ \A j \in Instances \ {i} : srv'[j] = srv[j]
        BY <4>1 DEF ManagerInv, TypeOK
      <4> QED
        BY <2>1, <3>1, <4>2, RecordUpdates
    <3>2. CASE b = FALSE /\ Kill(n)
      <4>1. srv' = [srv EXCEPT ![i].auto = FALSE]
        BY <1>3, <3>2 DEF Kill, Refuse
      <4> QED
        BY <2>1, <3>2, <4>1, RecordUpdates DEF ManagerInv, TypeOK
    <3>3. CASE SetAutoRestart(n, b)
      <4>1. srv' = [srv EXCEPT ![i].auto = b]
        BY <1>3, <3>3 DEF SetAutoRestart
      <4> QED
        BY <2>1, <4>1, RecordUpdates DEF ManagerInv, TypeOK
    <3> QED
      BY <3>1, <3>2, <3>3
  <2>3. \A j \in Instances : \/ proc'[j] = proc[j]
                             \/ proc[j] = "running" /\ proc'[j] = "killed"
    <3>1. CASE UNCHANGED proc
      BY <3>1
    <3>2. CASE Kill(n)
      BY <1>3, <3>2 DEF Kill, Refuse
    <3> QED
      BY <1>3, <3>1, <3>2 DEF Stop, SetAutoRestart, Refuse
  <2>4. StatusOf(n) # "absent" /\ \A m \in Names : StatusOf(m)' = StatusOf(m)
    BY <1>1, <1>3, <2>3 DEF ManagerInv, TypeOK, StatusOf
  <2>5. \A m \in Names : WantsOf(m)' = IF m = n THEN b ELSE WantsOf(m)
    BY <1>1, <1>3, <2>1, <2>2 DEF ManagerInv, TypeOK, WantsOf
  <2>6. \A j \in Instances : Owing(j)' <=> Owing(j)
    BY <1>1, <2>1, <2>2 DEF Owing
  <2>7. \A m \in Names : OwedOf(m)' = OwedOf(m)
    BY <1>1, <2>6, SameOwed
  <2> QED
    BY <2>4, <2>5, <2>7, Changes
<1> QED
  BY <1>2, <1>3 DEF ManagerInv, TypeOK

\* Requests, stalled screens and the end of STOP's write touch nothing the
\* registry shows.
LEMMA OtherMaps ==
    ASSUME ManagerInv,
           \/ \E h \in Handlers, n \in Names : StartRequest(h, n)
           \/ \E h \in Handlers : GetRequest(h) \/ Get(h)
           \/ \E i \in Instances : Stall(i)
           \/ StopReturns
           \/ UNCHANGED vars
    PROVE  UNCHANGED Registry!vars
<1>1. /\ UNCHANGED <<servers, srv, proc>>
      /\ \A j \in Instances : pc'[j] = pc[j] /\ call'[j] = call[j]
  BY CallersAssumption
     DEF ManagerInv, TypeOK, Callers, StartRequest, GetRequest, Get, Stall,
         StopReturns, Goto, vars
<1>2. \A m \in Names : StatusOf(m)' = StatusOf(m) /\ WantsOf(m)' = WantsOf(m)
  BY <1>1, SameTable
<1>3. \A m \in Names : OwedOf(m)' = OwedOf(m)
  BY <1>1, SameOwed DEF Owing
<1> QED
  BY <1>2, <1>3, Quiet

\* The abort of the daemon is the registry's crash.
LEMMA MapRaceMaps ==
    ASSUME MapRace
    PROVE  Registry!Next
<1>1. \A m \in Names : StatusOf(m)' = "absent" /\ WantsOf(m)' = FALSE
  BY DEF MapRace, StatusOf, WantsOf
<1>2. \A i \in Instances : ~Owing(i)'
  BY CallersAssumption DEF MapRace, Owing, Callers, StartPhases
<1>3. \A m \in Names : OwedOf(m)' = {}
  BY <1>2 DEF OwedOf
<1>4. Registry!Crash
  BY <1>1, <1>3 DEF Registry!Crash
<1> QED
  BY <1>4 DEF Registry!Next

-----------------------------------------------------------------------------
\* Every behaviour of the manager, for any number of servers, connections and
\* processes, is one of the registry: no interleaving of Start, Add, the wait
\* goroutines and the commands shows a user anything else.
THEOREM ManagerImplementsRegistry == Spec => RefinesRegistry
<1>1. Init => Registry!Init
  <2> SUFFICES ASSUME Init PROVE Registry!Init
    OBVIOUS
  <2>1. \A m \in Names : StatusOf(m) = "absent" /\ WantsOf(m) = FALSE
    BY DEF Init, Fresh, StatusOf, WantsOf
  <2>2. \A m \in Names : OwedOf(m) = {}
    BY CallersAssumption DEF Init, Fresh, OwedOf, Owing, Callers, StartPhases
  <2> QED
    BY <2>1, <2>2 DEF Registry!Init
<1>2. ManagerInv /\ [Next]_vars => [Registry!Next]_Registry!vars
  <2> SUFFICES ASSUME ManagerInv, [Next]_vars
               PROVE  Registry!Next \/ UNCHANGED Registry!vars
    OBVIOUS
  <2>1. ASSUME NEW c \in Callers, StartStep(c)
        PROVE  Registry!Next \/ UNCHANGED Registry!vars
    BY <2>1, BeforeSpawnMaps, SpawnMaps, RegisterMaps, DiscardMaps DEF StartStep, Add
  <2>2. ASSUME NEW i \in Instances, InstanceStep(i)
        PROVE  Registry!Next \/ UNCHANGED Registry!vars
    BY <2>2, ExitMaps, WaitMaps, RemoveMaps, DecideMaps DEF InstanceStep
  <2>3. ASSUME NEW n \in Names, NEW b \in BOOLEAN,
               Stop(n) \/ Kill(n) \/ SetAutoRestart(n, b)
        PROVE  Registry!Next \/ UNCHANGED Registry!vars
    <3>1. CASE Stop(n) \/ Kill(n)
      BY <3>1, CommandMaps
    <3>2. CASE SetAutoRestart(n, b)
      BY <3>2, CommandMaps
    <3> QED
      BY <2>3, <3>1, <3>2
  <2>4. CASE MapRace
    BY <2>4, MapRaceMaps
  <2> QED
    BY <2>1, <2>2, <2>3, <2>4, OtherMaps DEF Next
<1> QED
  BY <1>1, <1>2, Invariance, PTL DEF Spec, RefinesRegistry, Registry!Spec
=============================================================================
