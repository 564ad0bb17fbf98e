---------------------------- MODULE ServerConfig ----------------------------
(***************************************************************************)
(* config.json of one server, shared without a lock by command-line        *)
(* processes and the daemon's goroutines.  Every command loads the file,   *)
(* changes its fields in memory and writes all of it back; os.WriteFile    *)
(* truncates first.  The daemon serves SET under the manager's mutex, and  *)
(* START without.                                                          *)
(*                                                                         *)
(* A field holds one of two values.  The file is a record of its fields,   *)
(* Empty while it is truncated, or Torn after two writes have overlapped.  *)
(***************************************************************************)
CONSTANTS
    Procs,         \* command-line processes, and the connections they open to the daemon
    Commands,      \* the commands they use
    Values,        \* the values of a field
    Empty, Torn, None

VARIABLES
    file,          \* config.json
    proc,          \* what each process, or the goroutine of its connection, is doing
    mutex,         \* the manager's mutex: the process whose SET is served, or None
    running,       \* the restart flag in the manager's table, None if the server is not there
    ack,           \* history: the value each field was last given
    lost,          \* history: the fields a save has put an older value back to, and "flag"
                   \* if the table has a restart flag older than the file, or never saved
    damaged        \* history: a write failed, was interrupted or overlapped another

vars == <<file, proc, mutex, running, ack, lost, damaged>>

(* The fields a command sets in config.json.                               *)
Sets == [setStartOnBoot |-> {"boot"}, setAllocatedMemory |-> {"memory"}, setMaxMemory |-> {"memory"},
         setJavaVersion |-> {"java"}, setServerPort |-> {"port"}, setWorldName |-> {"level"},
         setServerVersion |-> {"version", "args", "java"}, DownloadJarToServer |-> {"version", "args"},
         updateAdditionalArgs |-> {"args"}, ReloadProperties |-> {"port", "level"},
         SetUserSpecificFalse |-> {"user"}, ResumeFromRootConfig |-> {"user"}, ReloadUser |-> {"user"},
         autorestart |-> {"auto"}, start |-> {}]
Fields == UNION {Sets[op] : op \in DOMAIN Sets}
Config == [Fields -> Values]

ASSUME CommandsOK == Commands \subseteq DOMAIN Sets
ASSUME DistinctOK ==
    /\ {Empty, Torn, None} \cap Config = {} /\ Empty # Torn
    /\ None \notin Values \cup Procs \cup DOMAIN Sets

(* These do not ask the daemon first whether the server runs; the boot     *)
(* loop calls SetUserSpecificFalse so.                                     *)
Unchecked == {"DownloadJarToServer", "updateAdditionalArgs", "ReloadProperties", "ReloadUser",
              "SetUserSpecificFalse"}
(* These fields get a value made from the old one, or the old one itself:  *)
(* a jar that comes from the archive leaves java as it was.                *)
Kept(op) == IF op = "setServerVersion" THEN {"args", "java"} ELSE {"args"}

Idle == [pc |-> "idle", op |-> None, val |-> None, mem |-> None, stale |-> {}, flag |-> None, late |-> FALSE]

Doing == [pc : {"idle", "load", "trunc", "write", "spawn"}, op : DOMAIN Sets \cup {None},
          val : Values \cup {None}, mem : Config \cup {None}, stale : SUBSET Fields,
          flag : Values \cup {None}, late : BOOLEAN]

TypeOK ==
    /\ file \in Config \cup {Empty, Torn} /\ ack \in Config
    /\ proc \in [Procs -> Doing]
    /\ mutex \in Procs \cup {None}
    /\ running \in Values \cup {None}
    /\ lost \subseteq Fields \cup {"flag"} /\ damaged \in BOOLEAN

Init ==
    /\ \E v \in Values : file = [f \in Fields |-> v] /\ ack = file
    /\ proc = [p \in Procs |-> Idle]
    /\ mutex = None /\ running = None
    /\ lost = {} /\ damaged = FALSE

-----------------------------------------------------------------------------
At(p, pc) == proc[p].pc = pc
Op(p) == proc[p].op
(* A damaged file is an exception for good: what was lost matters no more. *)
Lose(fs) == lost' = IF damaged' THEN {} ELSE fs
(* A START goes on whether or not SetUserSpecificFalse has saved.          *)
After(p) == IF proc[p].flag = None THEN Idle
            ELSE [Idle EXCEPT !.pc = "spawn", !.op = "start", !.flag = proc[p].flag, !.late = proc[p].late]
Begin(p, op, v) == proc' = [proc EXCEPT ![p] = [Idle EXCEPT !.pc = "load", !.op = op, !.val = v]]

(* SetParameter asks for the state of the server, before anything else.    *)
Invoke(p, op, v) ==
    /\ At(p, "idle") /\ op \notin {"autorestart", "start"}
    /\ op \notin Unchecked => running = None
    /\ Begin(p, op, v)
    /\ UNCHANGED <<file, mutex, running, ack, lost, damaged>>

(* SET autorestart holds the mutex for the whole of its work.              *)
InvokeSet(p, v) ==
    /\ At(p, "idle") /\ mutex = None
    /\ mutex' = p
    /\ Begin(p, "autorestart", v)
    /\ UNCHANGED <<file, running, ack, lost, damaged>>

Start(p) ==
    /\ At(p, "idle") /\ running = None
    /\ Begin(p, "start", None)
    /\ UNCHANGED <<file, mutex, running, ack, lost, damaged>>

(* Mutant: a command saves the fields it knows, the others as they are in  *)
(* a new configuration.                                                    *)
ChangedFresh(p, c) == [f \in Fields |-> IF f \in Sets[Op(p)] THEN proc[p].val ELSE CHOOSE v \in Values : TRUE]
(* The configuration a command wants to save, given the one it loaded.     *)
Changed(p, c) == [f \in Fields |-> IF f \in Sets[Op(p)] THEN proc[p].val ELSE c[f]]

(* Mutant: a command goes on without the configuration it failed to load.  *)
LoadErrorIgnored(p) ==
    /\ At(p, "load") /\ file \notin Config
    /\ proc' = [proc EXCEPT ![p].pc = "trunc"]
    /\ UNCHANGED <<file, mutex, running, ack, lost, damaged>>

(* config.Load fails on a file that is truncated or torn, and the command  *)
(* with it.                                                                *)
LoadFails(p) ==
    /\ At(p, "load") /\ file \notin Config
    /\ proc' = [proc EXCEPT ![p] = After(p)]
    /\ mutex' = IF mutex = p THEN None ELSE mutex
    /\ UNCHANGED <<file, running, ack, lost, damaged>>

(* Mutant: a server that runs keeps the flag it was started with.          *)
LoadKeepsFlag(p) ==
    /\ At(p, "load") /\ file \in Config /\ Op(p) # "start"
    /\ proc' = [proc EXCEPT ![p].pc = "trunc", ![p].mem = Changed(p, file), ![p].stale = {}]
    /\ UNCHANGED <<file, mutex, running, ack, lost, damaged>>

(* SET also changes the flag of a server that runs.                        *)
Load(p) ==
    /\ At(p, "load") /\ file \in Config /\ Op(p) # "start"
    /\ proc' = [q \in Procs |->
                  IF q = p THEN [proc[p] EXCEPT !.pc = "trunc", !.mem = Changed(p, file), !.stale = {}]
                  ELSE IF Op(p) = "autorestart" /\ proc[q].flag # None THEN [proc[q] EXCEPT !.late = TRUE]
                  ELSE proc[q]]
    /\ running' = IF Op(p) = "autorestart" /\ running # None THEN proc[p].val ELSE running
    /\ UNCHANGED <<file, mutex, ack, lost, damaged>>

(* Build loads the configuration; if it finds the user of the server       *)
(* unusable, SetUserSpecificFalse loads and saves the file once more.      *)
Build(p) ==
    /\ At(p, "load") /\ file \in Config /\ Op(p) = "start"
    /\ \E new \in {[pc |-> "spawn", op |-> "start", val |-> None]}
                  \cup [pc : {"load"}, op : {"SetUserSpecificFalse"} \cap Commands, val : Values] :
          proc' = [proc EXCEPT ![p] = [Idle EXCEPT !.pc = new.pc, !.op = new.op, !.val = new.val,
                                                   !.flag = file["auto"], !.late = mutex # None]]
    /\ UNCHANGED <<file, mutex, running, ack, lost, damaged>>

Truncate(p) ==
    /\ At(p, "trunc")
    /\ file' = Empty
    /\ proc' = [proc EXCEPT ![p].pc = "write"]
    /\ UNCHANGED <<mutex, running, ack, lost, damaged>>

(* Writing over what another process has written since the file was        *)
(* truncated may leave the tail of a longer text.                          *)
Written(p) == {proc[p].mem} \cup (IF file \in {Empty, proc[p].mem} THEN {} ELSE {Torn})

Write(p) ==
    /\ At(p, "write")
    /\ file' \in Written(p)
    /\ ack' = [f \in Fields |-> IF f \in Sets[Op(p)] THEN proc[p].val ELSE ack[f]]
    /\ damaged' = (damaged \/ \E q \in Procs \ {p} : At(q, "write"))
    /\ Lose((lost \ (IF Op(p) = "autorestart" THEN {"auto", "flag"} ELSE Sets[Op(p)]))
            \cup {f \in proc[p].stale : f \in Kept(Op(p)) \/ f \notin Sets[Op(p)]})
    /\ proc' = [q \in Procs |->
                  IF q = p THEN After(p)
                  ELSE IF proc[q].mem # None THEN [proc[q] EXCEPT !.stale = @ \cup Sets[Op(p)] \cup proc[p].stale]
                  ELSE proc[q]]
    /\ mutex' = IF mutex = p THEN None ELSE mutex
    /\ UNCHANGED running

(* os.WriteFile fails: to open the file, which leaves it as it was, or to  *)
(* write, which does not.  A SET has changed the flag of a server that     *)
(* runs by then (manager.go:308), and leaves it so.                        *)
SaveFails(p) ==
    /\ proc[p].pc \in {"trunc", "write"}
    /\ file' \in IF At(p, "write") THEN {file, Torn} ELSE {file}
    /\ damaged' = (damaged \/ At(p, "write"))
    /\ Lose(IF Op(p) = "autorestart" /\ running # None THEN lost \cup {"flag"} ELSE lost)
    /\ proc' = [proc EXCEPT ![p] = After(p)]
    /\ mutex' = IF mutex = p THEN None ELSE mutex
    /\ UNCHANGED <<running, ack>>

(* spawn and Add: the table gets the flag Build has read; Add refuses a    *)
(* server that is there by now.                                            *)
Spawn(p) ==
    /\ At(p, "spawn") /\ mutex = None
    /\ UNCHANGED damaged
    /\ running' = IF running = None THEN proc[p].flag ELSE running
    /\ Lose(IF running = None /\ proc[p].late THEN lost \cup {"flag"} ELSE lost)
    /\ proc' = [proc EXCEPT ![p] = Idle]
    /\ UNCHANGED <<file, mutex, ack>>

ServerExits ==
    /\ running # None /\ mutex = None
    /\ running' = None
    /\ lost' = lost \ {"flag"}
    /\ UNCHANGED <<file, proc, mutex, ack, damaged>>

(* The user interrupts a command of the command-line client.               *)
Interrupt(p) ==
    /\ ~At(p, "idle") /\ Op(p) \notin {"autorestart", "start"} /\ proc[p].flag = None
    /\ proc' = [proc EXCEPT ![p] = Idle]
    /\ damaged' = (damaged \/ At(p, "write"))
    /\ Lose(lost)
    /\ UNCHANGED <<file, mutex, running, ack>>

Next ==
    \/ \E p \in Procs :
         \/ \E op \in Commands, v \in Values : Invoke(p, op, v)
         \/ \E v \in Values : InvokeSet(p, v)
         \/ Start(p) \/ LoadFails(p) \/ Load(p) \/ Build(p) \/ Truncate(p) \/ Write(p) \/ SaveFails(p)
         \/ Spawn(p) \/ Interrupt(p)
    \/ ServerExits

Spec == Init /\ [][Next]_vars
-----------------------------------------------------------------------------
(* A setting that was saved is still in config.json once every command has *)
(* ended, through refused, failed and interleaved commands: it is lost     *)
(* only to a command that loaded the file before the setting was saved and *)
(* saved its copy after (config.go:46, or set.go and client.go alike), and *)
(* the file is whole unless a write failed, was cut short or two           *)
(* overlapped.  A save that cannot open the file changes nothing.          *)
LostOnlyToOlderLoad ==
    (\A p \in Procs : At(p, "idle")) /\ ~damaged
        => \A f \in Fields : f \in lost \/ file[f] = ack[f]

(* The restart flag of a server in the manager's table is the one in       *)
(* config.json, whatever SETs, starts and command-line saves interleave:   *)
(* they part only if a SET comes between a START's load and its Add        *)
(* (manager.go:197), if a SET cannot save the flag it has already changed  *)
(* in the table (manager.go:320), or if a save put an older flag back.     *)
RestartFlagAgrees ==
    running # None /\ mutex = None /\ ~damaged /\ lost \cap {"auto", "flag"} = {} => running = ack["auto"]
=============================================================================
