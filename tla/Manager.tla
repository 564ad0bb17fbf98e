------------------------------ MODULE Manager ------------------------------
(***************************************************************************)
(* The daemon's server manager (daemon/manager.go): the table of running   *)
(* servers, the goroutines that start a server, the one that waits for its *)
(* process and may restart it, and the operating-system processes they     *)
(* own.  A critical section under m.mutex is one action, but for STOP's,   *)
(* which ends with a write that may block; everything the code does        *)
(* outside the mutex (the two checks at the top of Start, the launcher,    *)
(* the spawn, the decision to restart) is a step of its own, so any two    *)
(* goroutines interleave there.                                            *)
(***************************************************************************)
EXTENDS Naturals, FiniteSets

CONSTANTS
    Names,       \* server names (directories under the servers folder)
    Handlers,    \* connection goroutines that may be inside Start or Get
    Instances,   \* Server objects, each with its process and wait goroutine
    Ports,       \* values of the port setting
    Pids,        \* process identifiers of the operating system
    SaveMayFail, \* whether config.Save may fail
    None         \* nil

ASSUME NoneAssumption ==
    None \notin Names \cup Handlers \cup Instances \cup Ports \cup Pids

\* A goroutine inside Start is either a connection's or the wait goroutine
\* of an earlier server; the two kinds are different objects.
ASSUME CallersAssumption == Handlers \cap Instances = {}

ASSUME SaveAssumption == SaveMayFail \in BOOLEAN

VARIABLES
    servers,   \* m.servers: the Server registered under a name, or None
    srv,       \* the fields of each Server object that its methods change
    proc,      \* the process of each Server, as the kernel sees it
    pc,        \* where each goroutine is
    call,      \* the local variables of each goroutine
    diskAuto,  \* AutomaticRestarts in each server's config.json
    stalled,   \* some screen client of the server has stopped reading
    mutex,     \* the Server to whose console STOP is writing while it holds
               \* m.mutex, or None while the mutex is free
    halted     \* history: STOP or KILL issued against this server

vars == <<servers, srv, proc, pc, call, diskAuto, stalled, mutex, halted>>

Callers == Handlers \cup Instances

StartPhases == {"check", "build", "ports", "spawn", "add"}

\* Phases in which the wait goroutine's server is in the table.
Registered == {"wait", "notify", "remove"}

NoServer == [auto |-> FALSE, port |-> None, state |-> "none", pid |-> None]
NoCall == [name |-> None, auto |-> FALSE, port |-> None, inst |-> None]

ServerFields == [auto: BOOLEAN, port: Ports \cup {None},
                 state: {"none", "running", "stopping"}, pid: Pids \cup {None}]
Locals == [name: Names \cup {None}, auto: BOOLEAN, port: Ports \cup {None},
           inst: Instances \cup {None}]

TypeOK ==
    /\ servers \in [Names -> Instances \cup {None}]
    /\ srv \in [Instances -> ServerFields]
    /\ proc \in [Instances -> {"none", "running", "killed", "zombie"}]
    /\ pc \in [Callers -> {"idle", "get", "none", "decide", "sleep"}
                              \cup StartPhases \cup Registered]
    /\ call \in [Callers -> Locals]
    /\ diskAuto \in [Names -> BOOLEAN]
    /\ stalled \in [Instances -> BOOLEAN]
    /\ mutex \in Instances \cup {None}
    /\ halted \in [Instances -> {"no", "accepted", "refused"}]

\* A manager that has just been created by NewManager.
Fresh ==
    /\ servers = [n \in Names |-> None]
    /\ srv = [i \in Instances |-> NoServer]
    /\ proc = [i \in Instances |-> "none"]
    /\ pc = [c \in Callers |-> IF c \in Handlers THEN "idle" ELSE "none"]
    /\ call = [c \in Callers |-> NoCall]
    /\ stalled = [i \in Instances |-> FALSE]
    /\ mutex = None
    /\ halted = [i \in Instances |-> "no"]

Init == Fresh /\ diskAuto \in [Names -> BOOLEAN]

-----------------------------------------------------------------------------
(***************************************************************************)
(* Start                                                                   *)
(***************************************************************************)

Goto(c, phase) == pc' = [pc EXCEPT ![c] = phase]

\* The goroutine returns from Start: a connection goroutine is done with its
\* request, a wait goroutine ends and its Server object is garbage.
Return(c) ==
    /\ Goto(c, IF c \in Handlers THEN "idle" ELSE "none")
    /\ call' = [call EXCEPT ![c] = NoCall]
    /\ halted' = [i \in Instances |-> IF i = c THEN "no" ELSE halted[i]]

\* A START request reaches its connection goroutine.
StartRequest(h, n) ==
    /\ pc[h] = "idle"
    /\ Goto(h, "check")
    /\ call' = [call EXCEPT ![h].name = n]
    /\ UNCHANGED <<servers, srv, proc, diskAuto, stalled, mutex, halted>>

\* m.servers[name] != nil, read without the mutex.
CheckRunning(c) ==
    /\ pc[c] = "check"
    /\ \/ /\ servers[call[c].name] # None
          /\ Return(c)
       \/ /\ servers[call[c].name] = None
          /\ Goto(c, "build")
          /\ UNCHANGED <<call, halted>>
    /\ UNCHANGED <<servers, srv, proc, diskAuto, stalled, mutex>>

\* launcher.Build reads config.json once: the restart setting the manager
\* itself writes, and a port that command-line processes edit at any time.
\* It fails when the file, the java path or the jar is missing.
Build(c) ==
    /\ pc[c] = "build"
    /\ \/ Return(c)
       \/ /\ \E p \in Ports :
                call' = [call EXCEPT ![c].auto = diskAuto[call[c].name],
                                     ![c].port = p]
          /\ Goto(c, "ports")
          /\ UNCHANGED halted
    /\ UNCHANGED <<servers, srv, proc, diskAuto, stalled, mutex>>

PortsInUse == {srv[servers[n]].port : n \in {m \in Names : servers[m] # None}}

\* The loop over m.servers, also without the mutex.
PortCheck(c) ==
    /\ pc[c] = "ports"
    /\ \/ /\ call[c].port \in PortsInUse
          /\ Return(c)
       \/ /\ call[c].port \notin PortsInUse
          /\ Goto(c, "spawn")
          /\ UNCHANGED <<call, halted>>
    /\ UNCHANGED <<servers, srv, proc, diskAuto, stalled, mutex>>

\* A Server object nothing refers to and without a process.
FreeInstances == {i \in Instances : pc[i] = "none" /\ proc[i] = "none"}

\* The kernel reuses the pid of a process only after it was waited for.
FreePids == {p \in Pids : \A i \in Instances : proc[i] # "none" => srv[i].pid # p}

\* pty.Start forks the server; the Server object and its reader goroutine
\* exist from here on although the table does not know them yet.
Spawn(c) ==
    /\ pc[c] = "spawn"
    /\ \/ Return(c) /\ UNCHANGED <<srv, proc>>
       \/ \E i \in FreeInstances, p \in FreePids :
             /\ proc' = [proc EXCEPT ![i] = "running"]
             /\ srv' = [srv EXCEPT ![i] = [auto |-> call[c].auto,
                                           port |-> call[c].port,
                                           state |-> "running", pid |-> p]]
             /\ call' = [call EXCEPT ![c] = [NoCall EXCEPT !.name = call[c].name,
                                                           !.inst = i]]
             /\ Goto(c, "add")
             /\ UNCHANGED halted
    /\ UNCHANGED <<servers, diskAuto, stalled, mutex>>

\* Variant of Register: Add without its exists check.
RegisterUnchecked(c) ==
    LET i == call[c].inst IN
    /\ servers' = [servers EXCEPT ![call[c].name] = i]
    /\ pc' = [pc EXCEPT ![i] = "wait",
                        ![c] = IF c \in Handlers THEN "idle" ELSE "none"]
    /\ call' = [call EXCEPT ![i] = [NoCall EXCEPT !.name = call[c].name],
                            ![c] = NoCall]
    /\ halted' = [j \in Instances |-> IF j = c THEN "no" ELSE halted[j]]
    /\ UNCHANGED <<srv, proc>>

\* Add accepted the server: its wait goroutine starts and Start returns.
Register(c) ==
    LET i == call[c].inst IN
    /\ servers[call[c].name] = None
    /\ servers' = [servers EXCEPT ![call[c].name] = i]
    /\ pc' = [pc EXCEPT ![i] = "wait",
                        ![c] = IF c \in Handlers THEN "idle" ELSE "none"]
    /\ call' = [call EXCEPT ![i] = [NoCall EXCEPT !.name = call[c].name],
                            ![c] = NoCall]
    /\ halted' = [j \in Instances |-> IF j = c THEN "no" ELSE halted[j]]
    /\ UNCHANGED <<srv, proc>>

\* Variant of Discard: Start returns Add's error without killing the process.
DiscardLeavesProcess(c) ==
    /\ servers[call[c].name] # None
    /\ Return(c)
    /\ UNCHANGED <<servers, srv, proc>>

\* Add refused it: the new process is killed, and nobody will wait for it.
Discard(c) ==
    LET i == call[c].inst IN
    /\ servers[call[c].name] # None
    /\ proc' = [proc EXCEPT ![i] = IF @ = "running" THEN "killed" ELSE @]
    /\ srv' = [srv EXCEPT ![i] = [NoServer EXCEPT !.pid = srv[i].pid]]
    /\ Return(c)
    /\ UNCHANGED servers

Add(c) ==
    /\ pc[c] = "add"
    /\ mutex = None
    /\ Register(c) \/ Discard(c)
    /\ UNCHANGED <<diskAuto, stalled, mutex>>

StartStep(c) ==
    CheckRunning(c) \/ Build(c) \/ PortCheck(c) \/ Spawn(c) \/ Add(c)

-----------------------------------------------------------------------------
(***************************************************************************)
(* The process and its wait goroutine                                      *)
(***************************************************************************)

\* The process ends: by itself, after "stop", or because it was killed.
Exit(i) ==
    /\ proc[i] \in {"running", "killed"}
    /\ proc' = [proc EXCEPT ![i] = "zombie"]
    /\ UNCHANGED <<servers, srv, pc, call, diskAuto, stalled, mutex, halted>>

\* Variant of Reap: the goroutine returns when cmd.Wait reports an error.
ReapReturnsOnError(i) ==
    /\ pc[i] = "wait"
    /\ proc[i] = "zombie"
    /\ proc' = [proc EXCEPT ![i] = "none"]
    /\ \E phase \in {"notify", "none"} : Goto(i, phase)
    /\ UNCHANGED <<servers, srv, call, diskAuto, stalled, mutex, halted>>

\* cmd.Wait returns: the process is reaped and its pid is free again, while
\* the Server stays in the table.
Reap(i) ==
    /\ pc[i] = "wait"
    /\ proc[i] = "zombie"
    /\ proc' = [proc EXCEPT ![i] = "none"]
    /\ Goto(i, "notify")
    /\ UNCHANGED <<servers, srv, call, diskAuto, stalled, mutex, halted>>

\* Broadcast of the exit notice: a blocking write to every screen client.
Notify(i) ==
    /\ pc[i] = "notify"
    /\ ~stalled[i]
    /\ Goto(i, "remove")
    /\ UNCHANGED <<servers, srv, proc, call, diskAuto, stalled, mutex, halted>>

\* m.Remove(name): deletes by name, whatever is registered there.  Of the
\* Server object only AutomaticRestarts is read after this.
Remove(i) ==
    /\ pc[i] = "remove"
    /\ mutex = None
    /\ servers' = [servers EXCEPT ![call[i].name] = None]
    /\ srv' = [srv EXCEPT ![i] = [NoServer EXCEPT !.auto = srv[i].auto]]
    /\ stalled' = [stalled EXCEPT ![i] = FALSE]
    /\ Goto(i, "decide")
    /\ UNCHANGED <<proc, call, diskAuto, mutex, halted>>

\* Variant of Decide: every exit is followed by a restart.
DecideUnconditionally(i) ==
    /\ pc[i] = "decide"
    /\ Goto(i, "sleep")
    /\ srv' = [srv EXCEPT ![i] = NoServer]
    /\ UNCHANGED <<servers, proc, call, diskAuto, stalled, mutex, halted>>

\* if server.AutomaticRestarts, read without the mutex after the removal.
Decide(i) ==
    /\ pc[i] = "decide"
    /\ \/ /\ srv[i].auto
          /\ Goto(i, "sleep")
          /\ UNCHANGED <<call, halted>>
       \/ /\ ~srv[i].auto
          /\ Return(i)
    /\ srv' = [srv EXCEPT ![i] = NoServer]
    /\ UNCHANGED <<servers, proc, diskAuto, stalled, mutex>>

\* After five seconds the goroutine calls Start(name) itself.
Wake(i) ==
    /\ pc[i] = "sleep"
    /\ Goto(i, "check")
    /\ UNCHANGED <<servers, srv, proc, call, diskAuto, stalled, mutex, halted>>

\* A screen client attached to the server stops, or resumes, reading.
Stall(i) ==
    /\ pc[i] \in {"wait", "notify"}
    /\ stalled' = [stalled EXCEPT ![i] = ~@]
    /\ UNCHANGED <<servers, srv, proc, pc, call, diskAuto, mutex, halted>>

-----------------------------------------------------------------------------
(***************************************************************************)
(* STOP, KILL, SET autorestart (under the mutex) and the unlocked Get      *)
(***************************************************************************)

\* STOP or KILL finds no entry: it answers "not running", and a server of
\* that name waiting to restart is not told.
Refuse(n) ==
    /\ servers[n] = None
    /\ halted' = [i \in Instances |->
                    IF pc[i] \in {"decide", "sleep"} /\ call[i].name = n
                    THEN "refused" ELSE halted[i]]
    /\ UNCHANGED <<srv, proc>>

\* Variant of Stop: the state becomes "stopped" at once.
StopMarksStopped(n) ==
    /\ mutex = None
    /\ \/ Refuse(n) /\ UNCHANGED mutex
       \/ /\ servers[n] # None
          /\ srv' = [srv EXCEPT ![servers[n]].auto = FALSE,
                                ![servers[n]].state = "stopped"]
          /\ halted' = [halted EXCEPT ![servers[n]] = "accepted"]
          /\ mutex' = servers[n]
          /\ UNCHANGED proc
    /\ UNCHANGED <<servers, pc, call, diskAuto, stalled>>

\* The flag, the state, and the write of "stop" to the server's console begins.
Stop(n) ==
    /\ mutex = None
    /\ \/ Refuse(n) /\ UNCHANGED mutex
       \/ /\ servers[n] # None
          /\ srv' = [srv EXCEPT ![servers[n]].auto = FALSE,
                                ![servers[n]].state = "stopping"]
          /\ halted' = [halted EXCEPT ![servers[n]] = "accepted"]
          /\ mutex' = servers[n]
          /\ UNCHANGED proc
    /\ UNCHANGED <<servers, pc, call, diskAuto, stalled>>

\* The write ends and STOP unlocks the mutex.  While the server runs without
\* reading its full console this may take for ever.
StopReturns ==
    /\ mutex # None
    /\ mutex' = None
    /\ UNCHANGED <<servers, srv, proc, pc, call, diskAuto, stalled, halted>>

\* Variant of Kill: AutomaticRestarts is left as it was.
KillKeepsFlag(n) ==
    /\ mutex = None
    /\ \/ Refuse(n)
       \/ /\ servers[n] # None
          /\ proc' = [i \in Instances |->
                        IF proc[i] = "running" /\ srv[i].pid = srv[servers[n]].pid
                        THEN "killed" ELSE proc[i]]
          /\ halted' = [halted EXCEPT ![servers[n]] = "accepted"]
          /\ UNCHANGED srv
    /\ UNCHANGED <<servers, pc, call, diskAuto, stalled, mutex>>

\* os.FindProcess and Kill go by pid: the signal hits whatever process has
\* that pid now, and an error is returned when there is none.
Kill(n) ==
    /\ mutex = None
    /\ \/ Refuse(n)
       \/ /\ servers[n] # None
          /\ srv' = [srv EXCEPT ![servers[n]].auto = FALSE]
          /\ proc' = [i \in Instances |->
                        IF proc[i] = "running" /\ srv[i].pid = srv[servers[n]].pid
                        THEN "killed" ELSE proc[i]]
          /\ halted' = [halted EXCEPT ![servers[n]] = "accepted"]
    /\ UNCHANGED <<servers, pc, call, diskAuto, stalled, mutex>>

\* The flag of a registered server is changed before config.Save, which may
\* fail and leave the file as it was.
SetAutoRestart(n, b) ==
    /\ mutex = None
    /\ \/ /\ servers[n] = None
          /\ UNCHANGED <<srv, halted>>
       \/ /\ servers[n] # None
          /\ srv' = [srv EXCEPT ![servers[n]].auto = b]
          /\ halted' = [halted EXCEPT ![servers[n]] = IF b THEN "no" ELSE @]
    /\ \/ diskAuto' = [diskAuto EXCEPT ![n] = b]
       \/ SaveMayFail /\ UNCHANGED diskAuto
    /\ UNCHANGED <<servers, proc, pc, call, stalled, mutex>>

\* CHECK, INSPECT and the screen request call Get without the mutex; the
\* answer changes nothing, but the read may meet a write (see MapRace).
GetRequest(h) ==
    /\ pc[h] = "idle"
    /\ Goto(h, "get")
    /\ UNCHANGED <<servers, srv, proc, call, diskAuto, stalled, mutex, halted>>

Get(h) ==
    /\ pc[h] = "get"
    /\ Goto(h, "idle")
    /\ UNCHANGED <<servers, srv, proc, call, diskAuto, stalled, mutex, halted>>

\* Goroutines about to read the table without the mutex, and those about to
\* write it.
MapReaders == {c \in Callers : pc[c] \in {"check", "ports", "get"}}
MapWriters ==
    {c \in Callers : \/ pc[c] = "remove"
                     \/ pc[c] = "add" /\ servers[call[c].name] = None}

\* A read and a write of one Go map at the same time: the runtime may abort
\* the daemon, which is process 1 of its container, so that every server
\* dies with it and the container starts a new daemon.
MapRace ==
    /\ MapReaders # {}
    /\ MapWriters # {} /\ mutex = None
    /\ servers' = [n \in Names |-> None]
    /\ srv' = [i \in Instances |-> NoServer]
    /\ proc' = [i \in Instances |-> "none"]
    /\ pc' = [c \in Callers |-> IF c \in Handlers THEN "idle" ELSE "none"]
    /\ call' = [c \in Callers |-> NoCall]
    /\ stalled' = [i \in Instances |-> FALSE]
    /\ halted' = [i \in Instances |-> "no"]
    /\ UNCHANGED <<diskAuto, mutex>>

-----------------------------------------------------------------------------
InstanceStep(i) ==
    Exit(i) \/ Reap(i) \/ Notify(i) \/ Remove(i) \/ Decide(i) \/ Wake(i)

Next ==
    \/ \E c \in Callers : StartStep(c)
    \/ \E i \in Instances : InstanceStep(i) \/ Stall(i)
    \/ \E n \in Names : Stop(n) \/ Kill(n)
    \/ StopReturns
    \/ \E n \in Names, b \in BOOLEAN : SetAutoRestart(n, b)
    \/ \E h \in Handlers, n \in Names : StartRequest(h, n)
    \/ \E h \in Handlers : GetRequest(h) \/ Get(h)
    \/ MapRace

Spec == Init /\ [][Next]_vars

\* The server whose console STOP writes to has ended: the write returns.
ReaderEnded == mutex # None /\ proc[mutex] \in {"none", "zombie"}

\* The Go scheduler runs every wait goroutine that can run, and a process that
\* was sent SIGKILL dies.  A mutex is handed to its oldest waiter, whoever else
\* takes it again and again.  Nothing makes a healthy server exit or read its
\* console, and nothing makes a stalled client read again.
Fairness ==
    /\ \A i \in Instances :
          /\ WF_vars(proc[i] = "killed" /\ Exit(i))
          /\ WF_vars(Reap(i) \/ Notify(i) \/ Decide(i) \/ Wake(i))
          /\ SF_vars(Remove(i))
    /\ WF_vars(ReaderEnded /\ StopReturns)

FairSpec == Spec /\ Fairness

-----------------------------------------------------------------------------
(***************************************************************************)
(* What the manager promises                                               *)
(***************************************************************************)

\* The table and the wait goroutines describe the same servers: a Server is
\* registered under a name exactly while its wait goroutine, started by Start
\* and about to call Remove, is there for that name.  Otherwise an entry
\* would stay for ever, or Remove, which deletes by name, would delete the
\* entry of a younger server.
MapTracksWaiters ==
    \A n \in Names, i \in Instances :
        servers[n] = i <=> pc[i] \in Registered /\ call[i].name = n

\* Every server process that runs unharmed can be stopped: it is registered,
\* or a Start that has just spawned it is about to add or to kill it.  Two
\* concurrent Starts of one name leave no process behind that STOP, KILL and
\* the shutdown of the daemon would not find.
NoOrphan ==
    \A i \in Instances :
        proc[i] = "running" =>
            \/ \E n \in Names : servers[n] = i
            \/ \E c \in Callers : pc[c] = "add" /\ call[c].inst = i

\* A server that accepted STOP or KILL is not restarted, at whatever moment
\* of its exit the command came in, although the flag is read without the
\* mutex, unless SET autorestart true came later.
HaltIsFinal ==
    \A i \in Instances :
        halted[i] = "accepted" => pc[i] \notin {"sleep"} \cup StartPhases

\* A killed server leaves the table, unless a screen client does not read its
\* exit notice, or a STOP, of whatever server, never comes back from its write
\* to a console nobody reads (manager.go:157) and keeps the mutex.
KilledLeaves ==
    \A i \in Instances :
        (\E n \in Names : servers[n] = i) /\ proc[i] = "killed" ~>
            \/ \A n \in Names : servers[n] # i
            \/ stalled[i]
            \/ [](mutex # None /\ proc[mutex] = "running")

-----------------------------------------------------------------------------
(***************************************************************************)
(* Why it keeps them: an inductive invariant                               *)
(***************************************************************************)

\* A goroutine that has begun knows its server's name; only connections are
\* ever idle or in Get.
PcInv ==
    \A c \in Callers :
        /\ c \in Handlers => pc[c] \in {"idle", "get"} \cup StartPhases
        /\ c \in Instances => pc[c] \notin {"idle", "get"}
        /\ pc[c] \notin {"idle", "get", "none"} => call[c].name \in Names

\* A Start about to call Add holds a process that nobody else holds, whose
\* Server object no wait goroutine serves yet.
AddInv ==
    \A c \in Callers : pc[c] = "add" =>
        /\ call[c].inst \in Instances
        /\ proc[call[c].inst] # "none"
        /\ pc[call[c].inst] = "none"
        /\ \A d \in Callers :
              pc[d] = "add" /\ call[d].inst = call[c].inst => d = c

\* A process is waited for until it is reaped, and gone afterwards; a running
\* one is never left alone.
ProcInv ==
    \A i \in Instances :
        /\ pc[i] = "wait" => proc[i] # "none"
        /\ pc[i] \notin {"wait", "none"} => proc[i] = "none"
        /\ proc[i] = "running" =>
              pc[i] = "wait" \/ \E c \in Callers : pc[c] = "add" /\ call[c].inst = i

\* After an accepted STOP or KILL the flag stays cleared until it is read.
HaltInv ==
    \A i \in Instances :
        /\ pc[i] = "none" => halted[i] = "no"
        /\ halted[i] = "accepted" =>
              /\ pc[i] \notin {"sleep"} \cup StartPhases
              /\ pc[i] \in Registered \cup {"decide"} => ~srv[i].auto

ManagerInv ==
    /\ TypeOK
    /\ MapTracksWaiters
    /\ PcInv
    /\ AddInv
    /\ ProcInv
    /\ HaltInv

-----------------------------------------------------------------------------
(***************************************************************************)
(* What its texts say and the code does not do                             *)
(***************************************************************************)

\* After STOP and KILL "the server will not restart even if autorestart is set
\* to true" (main.txt:47 and 50): also a server that has exited and is about
\* to restart when the command is used.
StopPreventsRestart ==
    \A i \in Instances : halted[i] = "refused" => pc[i] # "add"
=============================================================================
