------------------------- MODULE ServerConfigProofs -------------------------
(***************************************************************************)
(* Type correctness of ServerConfig, LostOnlyToOlderLoad and               *)
(* RestartFlagAgrees, for any processes, commands and values.  The         *)
(* invariant says of every copy of config.json and of every restart flag   *)
(* on its way to the table that it agrees with what was last saved, but    *)
(* for what the history variables record.                                  *)
(***************************************************************************)
EXTENDS ServerConfig, TLAPS

Writing(p) == proc[p].pc = "write"
Loaded(p) == proc[p].pc \in {"trunc", "write"}

(* What a process is doing at each of its steps.                           *)
Steps(p) ==
    /\ proc[p].pc = "idle" => proc[p].op = None /\ proc[p].flag = None
    /\ proc[p].pc # "idle" => proc[p].op # None
    /\ proc[p].pc = "spawn" => proc[p].op = "start" /\ proc[p].flag # None
    /\ proc[p].op = "start" => proc[p].pc \in {"load", "spawn"}
    /\ proc[p].op = "start" /\ proc[p].pc = "load" => proc[p].flag = None
    /\ proc[p].op \notin {None, "start"} => proc[p].val \in Values
    /\ Loaded(p) <=> proc[p].mem # None
    /\ proc[p].op = "autorestart" <=> mutex = p
    /\ proc[p].op = "autorestart" => proc[p].flag = None

(* The file is empty between a truncation and the write after it; whole,   *)
(* it is what was last saved.                                              *)
WriterInv == (\E p \in Procs : Writing(p)) => file = Empty
AgreeInv ==
    (\A p \in Procs : ~Writing(p))
        => file \in Config /\ \A f \in Fields : f \in lost \/ file[f] = ack[f]

(* So is a copy in memory, up to the fields saved since.                   *)
Copy(p) ==
    Loaded(p) => \A f \in Fields :
        IF f \in Sets[proc[p].op] THEN proc[p].mem[f] = proc[p].val
        ELSE f \in proc[p].stale \cup lost \/ proc[p].mem[f] = ack[f]

(* The flag of the table, that of a SET in progress included.              *)
SetLoaded == mutex # None /\ Loaded(mutex)
TableInv ==
    running # None =>
        IF SetLoaded THEN running = proc[mutex].val
        ELSE running = ack["auto"] \/ lost \cap {"auto", "flag"} # {}

(* The flag that a START carries to the table.                             *)
Carries(p) ==
    proc[p].flag # None /\ ~proc[p].late =>
        ~SetLoaded /\ (proc[p].flag = ack["auto"] \/ "auto" \in lost)

FileInv == WriterInv /\ AgreeInv /\ \A p \in Procs : Copy(p)
FlagInv == TableInv /\ \A p \in Procs : Carries(p)

ConfigInv ==
    /\ TypeOK
    /\ \A p \in Procs : Steps(p)
    /\ ~damaged => FileInv /\ FlagInv

-----------------------------------------------------------------------------
(* The table of commands.                                                  *)
LEMMA SetsFacts ==
    /\ {"start", "autorestart", "SetUserSpecificFalse"} \subseteq DOMAIN Sets
    /\ \A op \in DOMAIN Sets : /\ Sets[op] \subseteq Fields
                               /\ "auto" \in Sets[op] <=> op = "autorestart"
    /\ Sets["autorestart"] = {"auto"} /\ Sets["start"] = {}
    /\ "auto" \in Fields
<1>1. {"start", "autorestart", "SetUserSpecificFalse"} \subseteq DOMAIN Sets
  BY DEF Sets
<1>2. \A op \in DOMAIN Sets : Sets[op] \subseteq Fields
  BY DEF Fields
<1>3. \A op \in DOMAIN Sets : "auto" \in Sets[op] <=> op = "autorestart"
  BY DEF Sets
<1>4. Sets["autorestart"] = {"auto"} /\ Sets["start"] = {}
  BY DEF Sets
<1>5. QED
  BY <1>1, <1>2, <1>3, <1>4

(* The mark of a lost flag is none of the fields.                          *)
LEMMA FlagIsNoField == \A op \in DOMAIN Sets : "flag" \notin Sets[op]
BY DEF Sets

(* So that it is no field.                                                 *)
LEMMA FieldsAreNoFlag == "flag" \notin Fields
BY FlagIsNoField DEF Fields

(* A process that a step does not touch keeps its steps.                   *)
LEMMA SameSteps == ASSUME NEW p \in Procs, Steps(p), proc'[p] = proc[p], (mutex' = p) <=> (mutex = p)
                   PROVE  Steps(p)'
BY DEF Steps, Loaded

(* The fields of a process's record.                                       *)
LEMMA RecordType == ASSUME TypeOK, NEW p \in Procs PROVE proc[p] \in Doing /\ Idle \in Doing
BY DistinctOK DEF TypeOK, Idle, Doing

(* Initially the file is whole and nothing runs.                           *)
LEMMA InitInv == Init => ConfigInv
<1> USE DistinctOK
<1>1. ASSUME Init PROVE TypeOK
  <2>1. Idle \in Doing
    BY DEF Idle, Doing
  <2>2. file \in Config /\ ack \in Config
    BY <1>1 DEF Init, Config
  <2>3. QED
    BY <1>1, <2>1, <2>2 DEF Init, TypeOK
<1>2. ASSUME Init, NEW p \in Procs PROVE Steps(p) /\ Copy(p) /\ Carries(p)
  BY <1>2, SetsFacts DEF Init, Steps, Copy, Carries, Loaded, Idle
<1>3. Init => WriterInv /\ AgreeInv /\ TableInv
  BY DEF Init, WriterInv, AgreeInv, TableInv, Writing, Idle, Config
<1>4. QED
  BY <1>1, <1>2, <1>3 DEF ConfigInv, FileInv, FlagInv

(* Invoke keeps the invariant.                                             *)
LEMMA InvokeStep == ASSUME ConfigInv, NEW p \in Procs, NEW op \in Commands, NEW v \in Values, Invoke(p, op, v)
      PROVE ConfigInv'
<1> USE DistinctOK, SetsFacts DEF Invoke, Begin, At
<1>1. TypeOK /\ Steps(p) /\ proc[p] \in Doing /\ Idle \in Doing
  BY RecordType DEF ConfigInv
<1>2. TypeOK'
  <2>1. [Idle EXCEPT !.pc = "load", !.op = op, !.val = v] \in Doing
    BY <1>1, CommandsOK DEF Idle, Doing
  <2>2. QED
    BY <1>1, <2>1 DEF TypeOK
<1>3. Steps(p)'
  <2>1. proc'[p] = [Idle EXCEPT !.pc = "load", !.op = op, !.val = v]
    BY <1>1 DEF TypeOK
  <2>2. /\ proc'[p].pc = "load" /\ proc'[p].op = op /\ proc'[p].val = v
        /\ proc'[p].mem = None /\ proc'[p].flag = None
    <3>1. Idle = [pc |-> "idle", op |-> None, val |-> None, mem |-> None, stale |-> {}, flag |-> None, late |-> FALSE]
      BY DEF Idle
    <3>2. QED
      BY ONLY <2>1, <3>1
  <2>3. mutex' # p
    BY <1>1 DEF Steps
  <2>4. op \in DOMAIN Sets
    BY CommandsOK
  <2>5. op \notin {None, "start", "autorestart"}
    BY <2>4
  <2>6. QED
    BY <2>2, <2>3, <2>5 DEF Steps, Loaded
<1>4. ASSUME NEW q \in Procs \ {p} PROVE Steps(q)'
  BY <1>1, SameSteps DEF ConfigInv, TypeOK
<1>5. ASSUME ~damaged' PROVE FileInv'
  <2>1. ~damaged /\ FileInv
    BY <1>5 DEF ConfigInv
  <2>2. WriterInv' /\ AgreeInv'
    BY <1>1, <2>1 DEF TypeOK, FileInv, WriterInv, AgreeInv, Writing, Idle
  <2>3. ASSUME NEW q \in Procs PROVE Copy(q)'
    BY <1>1, <2>1 DEF TypeOK, FileInv, Copy, Loaded, Idle
  <2>4. QED
    BY <2>2, <2>3 DEF FileInv
<1>6. ASSUME ~damaged' PROVE FlagInv'
  <2>1. ~damaged /\ FlagInv
    BY <1>6 DEF ConfigInv
  <2>2. TableInv'
    BY <1>1, <2>1 DEF TypeOK, FlagInv, TableInv, SetLoaded, Loaded, Idle
  <2>3. ASSUME NEW q \in Procs PROVE Carries(q)'
    BY <1>1, <2>1 DEF TypeOK, FlagInv, Carries, SetLoaded, Loaded, Idle
  <2>4. QED
    BY <2>2, <2>3 DEF FlagInv
<1>7. QED
  BY <1>2, <1>3, <1>4, <1>5, <1>6 DEF ConfigInv

(* InvokeSet keeps the invariant.                                          *)
LEMMA InvokeSetStep == ASSUME ConfigInv, NEW p \in Procs, NEW v \in Values, InvokeSet(p, v) PROVE ConfigInv'
<1> USE DistinctOK, SetsFacts DEF InvokeSet, Begin, At
<1>1. TypeOK /\ Steps(p) /\ proc[p] \in Doing /\ Idle \in Doing
  BY RecordType DEF ConfigInv
<1>2. TypeOK'
  BY <1>1 DEF TypeOK, Idle, Doing
<1>3. Steps(p)'
  BY <1>1 DEF TypeOK, Steps, Loaded, Idle
<1>4. ASSUME NEW q \in Procs \ {p} PROVE Steps(q)'
  BY <1>1, SameSteps DEF ConfigInv, TypeOK
<1>5. ASSUME ~damaged' PROVE FileInv'
  <2>1. ~damaged /\ FileInv
    BY <1>5 DEF ConfigInv
  <2>2. WriterInv' /\ AgreeInv'
    BY <1>1, <2>1 DEF TypeOK, FileInv, WriterInv, AgreeInv, Writing, Idle
  <2>3. ASSUME NEW q \in Procs PROVE Copy(q)'
    BY <1>1, <2>1 DEF TypeOK, FileInv, Copy, Loaded, Idle
  <2>4. QED
    BY <2>2, <2>3 DEF FileInv
<1>6. ASSUME ~damaged' PROVE FlagInv'
  <2>1. ~damaged /\ FlagInv
    BY <1>6 DEF ConfigInv
  <2>2. TableInv'
    BY <1>1, <2>1 DEF TypeOK, FlagInv, TableInv, SetLoaded, Loaded, Idle
  <2>3. ASSUME NEW q \in Procs PROVE Carries(q)'
    BY <1>1, <2>1 DEF TypeOK, FlagInv, Carries, SetLoaded, Loaded, Idle
  <2>4. QED
    BY <2>2, <2>3 DEF FlagInv
<1>7. QED
  BY <1>2, <1>3, <1>4, <1>5, <1>6 DEF ConfigInv

(* Start keeps the invariant.                                              *)
LEMMA StartStep == ASSUME ConfigInv, NEW p \in Procs, Start(p) PROVE ConfigInv'
<1> USE DistinctOK, SetsFacts DEF Start, Begin, At
<1>1. TypeOK /\ Steps(p) /\ proc[p] \in Doing /\ Idle \in Doing
  BY RecordType DEF ConfigInv
<1>2. TypeOK'
  BY <1>1 DEF TypeOK, Idle, Doing
<1>3. Steps(p)'
  BY <1>1 DEF TypeOK, Steps, Loaded, Idle
<1>4. ASSUME NEW q \in Procs \ {p} PROVE Steps(q)'
  BY <1>1, SameSteps DEF ConfigInv, TypeOK
<1>5. ASSUME ~damaged' PROVE FileInv'
  <2>1. ~damaged /\ FileInv
    BY <1>5 DEF ConfigInv
  <2>2. WriterInv' /\ AgreeInv'
    BY <1>1, <2>1 DEF TypeOK, FileInv, WriterInv, AgreeInv, Writing, Idle
  <2>3. ASSUME NEW q \in Procs PROVE Copy(q)'
    BY <1>1, <2>1 DEF TypeOK, FileInv, Copy, Loaded, Idle
  <2>4. QED
    BY <2>2, <2>3 DEF FileInv
<1>6. ASSUME ~damaged' PROVE FlagInv'
  <2>1. ~damaged /\ FlagInv
    BY <1>6 DEF ConfigInv
  <2>2. TableInv'
    BY <1>1, <2>1 DEF TypeOK, FlagInv, TableInv, SetLoaded, Loaded, Idle
  <2>3. ASSUME NEW q \in Procs PROVE Carries(q)'
    BY <1>1, <2>1 DEF TypeOK, FlagInv, Carries, SetLoaded, Loaded, Idle
  <2>4. QED
    BY <2>2, <2>3 DEF FlagInv
<1>7. QED
  BY <1>2, <1>3, <1>4, <1>5, <1>6 DEF ConfigInv

(* LoadFails keeps the invariant.                                          *)
LEMMA LoadFailsStep == ASSUME ConfigInv, NEW p \in Procs, LoadFails(p) PROVE ConfigInv'
<1> USE DistinctOK, SetsFacts DEF LoadFails, After, At
<1>1. TypeOK /\ Steps(p) /\ proc[p] \in Doing /\ Idle \in Doing
  BY RecordType DEF ConfigInv
<1>2. TypeOK'
  BY <1>1 DEF TypeOK, Idle, Doing
<1>3. Steps(p)'
  BY <1>1 DEF TypeOK, Steps, Loaded, Idle
<1>4. ASSUME NEW q \in Procs \ {p} PROVE Steps(q)'
  BY <1>1, SameSteps DEF ConfigInv, TypeOK
<1>5. ASSUME ~damaged' PROVE FileInv'
  <2>1. ~damaged /\ FileInv
    BY <1>5 DEF ConfigInv
  <2>2. WriterInv' /\ AgreeInv'
    BY <1>1, <2>1 DEF TypeOK, FileInv, WriterInv, AgreeInv, Writing, Idle
  <2>3. ASSUME NEW q \in Procs PROVE Copy(q)'
    BY <1>1, <2>1 DEF TypeOK, FileInv, Copy, Loaded, Idle
  <2>4. QED
    BY <2>2, <2>3 DEF FileInv
<1>6. ASSUME ~damaged' PROVE FlagInv'
  <2>1. ~damaged /\ FlagInv
    BY <1>6 DEF ConfigInv
  <2>2. TableInv'
    BY <1>1, <2>1 DEF TypeOK, FlagInv, TableInv, SetLoaded, Loaded, Idle
  <2>3. ASSUME NEW q \in Procs PROVE Carries(q)'
    BY <1>1, <2>1 DEF TypeOK, FlagInv, Carries, SetLoaded, Loaded, Idle
  <2>4. QED
    BY <2>2, <2>3 DEF FlagInv
<1>7. QED
  BY <1>2, <1>3, <1>4, <1>5, <1>6 DEF ConfigInv

(* Load keeps the invariant.                                               *)
LEMMA LoadStep == ASSUME ConfigInv, NEW p \in Procs, Load(p) PROVE ConfigInv'
<1> USE DistinctOK, SetsFacts
<1>1. TypeOK /\ Steps(p) /\ proc[p] \in Doing /\ proc[p].pc = "load" /\ proc[p].op # "start" /\ file \in Config
  BY RecordType DEF ConfigInv, Load, At, Op
<1>2. proc[p].val \in Values /\ proc[p].op \in DOMAIN Sets
  BY <1>1 DEF Steps, Doing
<1>3. /\ Changed(p, file) \in Config
      /\ \A f \in Fields : Changed(p, file)[f] = IF f \in Sets[proc[p].op] THEN proc[p].val ELSE file[f]
  BY <1>1, <1>2 DEF Changed, Op, Config
<1>4. /\ proc'[p] \in Doing
      /\ proc'[p].pc = "trunc" /\ proc'[p].op = proc[p].op /\ proc'[p].val = proc[p].val
      /\ proc'[p].mem = Changed(p, file) /\ proc'[p].stale = {}
      /\ proc'[p].flag = proc[p].flag /\ proc'[p].late = proc[p].late
  <2>1. proc'[p] = [proc[p] EXCEPT !.pc = "trunc", !.mem = Changed(p, file), !.stale = {}]
    BY DEF Load
  <2>2. proc[p] \in Doing /\ Changed(p, file) \in Config
    BY <1>1, <1>3
  <2>3. proc'[p] \in Doing
    BY ONLY <2>1, <2>2 DEF Doing
  <2>4. /\ proc'[p].pc = "trunc" /\ proc'[p].op = proc[p].op /\ proc'[p].val = proc[p].val
        /\ proc'[p].mem = Changed(p, file) /\ proc'[p].stale = {}
        /\ proc'[p].flag = proc[p].flag /\ proc'[p].late = proc[p].late
    BY ONLY <2>1, <2>2 DEF Doing
  <2>5. QED
    BY <2>3, <2>4
<1>5. ASSUME NEW q \in Procs \ {p}
      PROVE  /\ proc'[q] \in Doing
             /\ proc'[q].pc = proc[q].pc /\ proc'[q].op = proc[q].op /\ proc'[q].val = proc[q].val
             /\ proc'[q].mem = proc[q].mem /\ proc'[q].stale = proc[q].stale /\ proc'[q].flag = proc[q].flag
             /\ proc'[q].late = proc[q].late \/ proc'[q].late = TRUE
             /\ proc[p].op = "autorestart" /\ proc[q].flag # None => proc'[q].late = TRUE
  <2>1. proc[q] \in Doing
    BY <1>1, RecordType
  <2>2. CASE Op(p) = "autorestart" /\ proc[q].flag # None
    <3>1. proc'[q] = [proc[q] EXCEPT !.late = TRUE]
      BY <2>2 DEF Load
    <3>2. QED
      BY ONLY <2>1, <3>1 DEF Doing
  <2>3. CASE ~(Op(p) = "autorestart" /\ proc[q].flag # None)
    <3>1. proc'[q] = proc[q]
      BY <2>3 DEF Load
    <3>2. QED
      BY <2>1, <2>3, <3>1 DEF Op
  <2>4. QED
    BY <2>2, <2>3
<1>6. /\ UNCHANGED <<file, mutex, ack, lost, damaged>>
      /\ running' = IF proc[p].op = "autorestart" /\ running # None THEN proc[p].val ELSE running
  BY DEF Load, Op
<1>7. TypeOK'
  <2>1. proc' \in [Procs -> Doing]
    <3>1. proc' = [q \in Procs |-> proc'[q]]
      BY DEF Load
    <3>2. QED
      BY <1>4, <1>5, <3>1
  <2>2. QED
    BY <1>1, <1>2, <1>6, <2>1 DEF TypeOK
<1>8. Steps(p)'
  BY <1>1, <1>3, <1>4, <1>6 DEF Steps, Loaded
<1>9. ASSUME NEW q \in Procs \ {p} PROVE Steps(q)'
  <2>1. /\ proc'[q].pc = proc[q].pc /\ proc'[q].op = proc[q].op /\ proc'[q].val = proc[q].val
        /\ proc'[q].mem = proc[q].mem /\ proc'[q].flag = proc[q].flag
    BY <1>5
  <2>2. Steps(q) /\ mutex' = mutex
    BY <1>6 DEF ConfigInv
  <2>3. QED
    BY <2>1, <2>2 DEF Steps, Loaded
<1>10. ASSUME ~damaged' PROVE FileInv'
  <2>1. ~damaged /\ WriterInv /\ AgreeInv /\ \A q \in Procs : Copy(q)
    BY <1>6, <1>10 DEF ConfigInv, FileInv
  <2>2. \A q \in Procs : Writing(q)' <=> Writing(q)
    BY <1>1, <1>4, <1>5 DEF Writing
  <2>3. WriterInv' /\ AgreeInv'
    BY <1>6, <2>1, <2>2 DEF WriterInv, AgreeInv
  <2>4. \A f \in Fields : f \in lost \/ file[f] = ack[f]
    BY <1>1, <2>1 DEF WriterInv, AgreeInv
  <2>5. Copy(p)'
    BY <1>3, <1>4, <1>6, <2>4 DEF Copy
  <2>6. ASSUME NEW q \in Procs \ {p} PROVE Copy(q)'
    <3>1. /\ proc'[q].pc = proc[q].pc /\ proc'[q].op = proc[q].op /\ proc'[q].val = proc[q].val
          /\ proc'[q].mem = proc[q].mem /\ proc'[q].stale = proc[q].stale
      BY <1>5
    <3>2. Copy(q) /\ lost' = lost /\ ack' = ack
      BY <1>6, <2>1
    <3>3. QED
      BY <3>1, <3>2 DEF Copy, Loaded
  <2>7. QED
    BY <2>3, <2>5, <2>6 DEF FileInv
<1>11. ASSUME ~damaged' PROVE FlagInv'
  <2>1. ~damaged /\ TableInv /\ \A q \in Procs : Carries(q)
    BY <1>6, <1>11 DEF ConfigInv, FlagInv
  <2>2. CASE proc[p].op = "autorestart"
    <3>1. mutex = p /\ mutex' = p /\ proc[p].flag = None
      BY <1>1, <1>6, <2>2 DEF Steps
    <3>2. TableInv'
      BY <1>4, <1>6, <2>2, <3>1 DEF TableInv, SetLoaded, Loaded
    <3>3. ASSUME NEW q \in Procs PROVE Carries(q)'
      <4>1. CASE q = p
        BY <1>4, <3>1, <4>1 DEF Carries
      <4>2. CASE q # p
        <5>1. proc'[q].flag # None => proc'[q].late = TRUE
          BY <1>5, <2>2, <4>2
        <5>2. QED
          BY <5>1 DEF Carries
      <4>3. QED
        BY <4>1, <4>2
    <3>4. QED
      BY <3>2, <3>3 DEF FlagInv
  <2>3. CASE proc[p].op # "autorestart"
    <3>1. mutex # p /\ mutex' = mutex /\ mutex \in Procs \cup {None}
      BY <1>1, <1>6, <2>3 DEF Steps, TypeOK
    <3>2. SetLoaded' = SetLoaded /\ (SetLoaded => proc'[mutex].val = proc[mutex].val)
      BY <1>5, <3>1 DEF SetLoaded, Loaded
    <3>3. TableInv'
      BY <1>6, <2>1, <2>3, <3>1, <3>2 DEF TableInv
    <3>4. ASSUME NEW q \in Procs PROVE Carries(q)'
      <4>1. proc'[q].flag = proc[q].flag /\ (proc'[q].late = proc[q].late \/ proc'[q].late = TRUE)
        BY <1>4, <1>5
      <4>2. Carries(q) /\ lost' = lost /\ ack' = ack
        BY <1>6, <2>1
      <4>3. QED
        BY <3>2, <4>1, <4>2 DEF Carries
    <3>5. QED
      BY <3>3, <3>4 DEF FlagInv
  <2>4. QED
    BY <2>2, <2>3
<1>12. QED
  BY <1>7, <1>8, <1>9, <1>10, <1>11 DEF ConfigInv

(* Build keeps the invariant.                                              *)
LEMMA BuildStep == ASSUME ConfigInv, NEW p \in Procs, Build(p) PROVE ConfigInv'
<1> USE DistinctOK, SetsFacts
<1>1. TypeOK /\ Steps(p) /\ proc[p] \in Doing /\ proc[p].pc = "load" /\ proc[p].op = "start" /\ file \in Config
  BY RecordType DEF ConfigInv, Build, At, Op
<1>2. PICK new \in {[pc |-> "spawn", op |-> "start", val |-> None]}
                   \cup [pc : {"load"}, op : {"SetUserSpecificFalse"} \cap Commands, val : Values] :
          proc' = [proc EXCEPT ![p] = [Idle EXCEPT !.pc = new.pc, !.op = new.op, !.val = new.val,
                                                   !.flag = file["auto"], !.late = mutex # None]]
  BY DEF Build
<1>3. \/ new.pc = "spawn" /\ new.op = "start" /\ new.val = None
      \/ new.pc = "load" /\ new.op = "SetUserSpecificFalse" /\ new.val \in Values
  OBVIOUS
<1>4. file["auto"] \in Values
  BY <1>1 DEF Config
<1>5. proc'[p] = [pc |-> new.pc, op |-> new.op, val |-> new.val, mem |-> None, stale |-> {},
                  flag |-> file["auto"], late |-> mutex # None]
  BY <1>1, <1>2 DEF TypeOK, Idle
<1>6. UNCHANGED <<file, mutex, running, ack, lost, damaged>> /\ \A q \in Procs \ {p} : proc'[q] = proc[q]
  BY <1>1, <1>2 DEF Build, TypeOK
<1>7. mutex # p
  BY <1>1 DEF Steps
<1>8. TypeOK'
  <2>1. proc'[p] \in Doing
    BY <1>3, <1>4, <1>5 DEF Doing
  <2>2. proc' \in [Procs -> Doing]
    BY <1>1, <1>2, <1>6, <2>1 DEF TypeOK
  <2>3. QED
    BY <1>1, <1>6, <2>2 DEF TypeOK
<1>9. Steps(p)'
  BY <1>3, <1>4, <1>5, <1>6, <1>7 DEF Steps, Loaded
<1>10. ASSUME NEW q \in Procs \ {p} PROVE Steps(q)'
  BY <1>6, SameSteps DEF ConfigInv
<1>11. ASSUME ~damaged' PROVE FileInv'
  <2>1. ~damaged /\ WriterInv /\ AgreeInv /\ \A q \in Procs : Copy(q)
    BY <1>6, <1>11 DEF ConfigInv, FileInv
  <2>2. \A q \in Procs : Writing(q)' <=> Writing(q)
    BY <1>1, <1>3, <1>5, <1>6 DEF Writing
  <2>3. WriterInv' /\ AgreeInv'
    BY <1>6, <2>1, <2>2 DEF WriterInv, AgreeInv
  <2>4. ASSUME NEW q \in Procs PROVE Copy(q)'
    BY <1>3, <1>5, <1>6, <2>1 DEF Copy, Loaded
  <2>5. QED
    BY <2>3, <2>4 DEF FileInv
<1>12. ASSUME ~damaged' PROVE FlagInv'
  <2>1. ~damaged /\ TableInv /\ (\A q \in Procs : Carries(q)) /\ WriterInv /\ AgreeInv
    BY <1>6, <1>12 DEF ConfigInv, FlagInv, FileInv
  <2>2. file["auto"] = ack["auto"] \/ "auto" \in lost
    BY <1>1, <2>1 DEF WriterInv, AgreeInv
  <2>3. SetLoaded' = SetLoaded /\ (SetLoaded => proc'[mutex] = proc[mutex])
    BY <1>1, <1>6, <1>7 DEF SetLoaded, Loaded, TypeOK
  <2>4. TableInv'
    BY <1>6, <2>1, <2>3 DEF TableInv
  <2>5. Carries(p)'
    <3>1. ~proc'[p].late => mutex = None
      <4>1. proc'[p].late = (mutex # None)
        BY <1>5
      <4>2. QED
        BY <4>1, Zenon
    <3>2. QED
      BY <1>5, <1>6, <2>2, <3>1 DEF Carries, SetLoaded
  <2>6. ASSUME NEW q \in Procs \ {p} PROVE Carries(q)'
    BY <1>6, <2>1, <2>3 DEF Carries
  <2>7. QED
    BY <2>4, <2>5, <2>6 DEF FlagInv
<1>13. QED
  BY <1>8, <1>9, <1>10, <1>11, <1>12 DEF ConfigInv

(* Truncate keeps the invariant.                                           *)
LEMMA TruncateStep == ASSUME ConfigInv, NEW p \in Procs, Truncate(p) PROVE ConfigInv'
<1> USE DistinctOK, SetsFacts DEF Truncate, At
<1>1. TypeOK /\ Steps(p) /\ proc[p] \in Doing /\ Idle \in Doing
  BY RecordType DEF ConfigInv
<1>2. TypeOK'
  BY <1>1 DEF TypeOK, Idle, Doing
<1>3. Steps(p)'
  BY <1>1 DEF TypeOK, Steps, Loaded, Idle
<1>4. ASSUME NEW q \in Procs \ {p} PROVE Steps(q)'
  BY <1>1, SameSteps DEF ConfigInv, TypeOK
<1>5. ASSUME ~damaged' PROVE FileInv'
  <2>1. ~damaged /\ FileInv
    BY <1>5 DEF ConfigInv
  <2>2. WriterInv' /\ AgreeInv'
    BY <1>1, <2>1 DEF TypeOK, FileInv, WriterInv, AgreeInv, Writing, Idle
  <2>3. ASSUME NEW q \in Procs PROVE Copy(q)'
    BY <1>1, <2>1 DEF TypeOK, FileInv, Copy, Loaded, Idle
  <2>4. QED
    BY <2>2, <2>3 DEF FileInv
<1>6. ASSUME ~damaged' PROVE FlagInv'
  <2>1. ~damaged /\ FlagInv
    BY <1>6 DEF ConfigInv
  <2>2. TableInv'
    BY <1>1, <2>1 DEF TypeOK, FlagInv, TableInv, SetLoaded, Loaded, Idle
  <2>3. ASSUME NEW q \in Procs PROVE Carries(q)'
    BY <1>1, <2>1 DEF TypeOK, FlagInv, Carries, SetLoaded, Loaded, Idle
  <2>4. QED
    BY <2>2, <2>3 DEF FlagInv
<1>7. QED
  BY <1>2, <1>3, <1>4, <1>5, <1>6 DEF ConfigInv

(* Write keeps the invariant.                                              *)
LEMMA WriteStep == ASSUME ConfigInv, NEW p \in Procs, Write(p) PROVE ConfigInv'
<1> USE DistinctOK, SetsFacts
<1>1. TypeOK /\ Steps(p) /\ proc[p] \in Doing /\ Idle \in Doing /\ proc[p].pc = "write"
  BY RecordType DEF ConfigInv, Write, At
<1>2. /\ proc[p].op \in DOMAIN Sets \ {"start"} /\ proc[p].val \in Values /\ proc[p].mem \in Config
      /\ proc[p].op = "autorestart" <=> mutex = p
      /\ proc[p].op = "autorestart" => proc[p].flag = None
  BY <1>1 DEF Steps, Doing, Loaded
<1>3. /\ file' \in Written(p) /\ UNCHANGED running
      /\ ack' = [f \in Fields |-> IF f \in Sets[proc[p].op] THEN proc[p].val ELSE ack[f]]
      /\ damaged' = (damaged \/ \E q \in Procs \ {p} : Writing(q))
      /\ mutex' = IF mutex = p THEN None ELSE mutex
  BY DEF Write, Op, At, Writing
<1>4. lost' = IF damaged' THEN {}
              ELSE (lost \ (IF proc[p].op = "autorestart" THEN {"auto", "flag"} ELSE Sets[proc[p].op]))
                   \cup {f \in proc[p].stale : f \in Kept(proc[p].op) \/ f \notin Sets[proc[p].op]}
  BY DEF Write, Op, Lose
<1>5. /\ proc'[p] \in Doing /\ proc'[p].pc \in {"idle", "spawn"} /\ proc'[p].mem = None
      /\ proc[p].flag = None => proc'[p] = Idle
      /\ proc[p].flag # None => /\ proc'[p].pc = "spawn" /\ proc'[p].op = "start"
                                /\ proc'[p].flag = proc[p].flag /\ proc'[p].late = proc[p].late
  <2>1. CASE proc[p].flag = None
    <3>1. proc'[p] = Idle
      BY <2>1 DEF Write, After
    <3>2. QED
      BY <1>1, <2>1, <3>1 DEF Idle
  <2>2. CASE proc[p].flag # None
    <3>1. proc'[p] = [Idle EXCEPT !.pc = "spawn", !.op = "start", !.flag = proc[p].flag, !.late = proc[p].late]
      BY <2>2 DEF Write, After
    <3>2. proc[p].flag \in Values /\ proc[p].late \in BOOLEAN
      BY <1>1, <2>2 DEF Doing
    <3>3. QED
      BY <2>2, <3>1, <3>2 DEF Idle, Doing
  <2>3. QED
    BY <2>1, <2>2
<1>6. ASSUME NEW q \in Procs \ {p}
      PROVE  /\ proc'[q] \in Doing
             /\ proc'[q].pc = proc[q].pc /\ proc'[q].op = proc[q].op /\ proc'[q].val = proc[q].val
             /\ proc'[q].mem = proc[q].mem /\ proc'[q].flag = proc[q].flag /\ proc'[q].late = proc[q].late
             /\ proc[q].mem # None => proc'[q].stale = proc[q].stale \cup Sets[proc[p].op] \cup proc[p].stale
  <2>1. proc[q] \in Doing
    BY <1>1, RecordType
  <2>2. CASE proc[q].mem # None
    <3>1. proc'[q] = [proc[q] EXCEPT !.stale = proc[q].stale \cup Sets[proc[p].op] \cup proc[p].stale]
      BY <2>2 DEF Write, Op
    <3>2. proc[q].stale \cup Sets[proc[p].op] \cup proc[p].stale \in SUBSET Fields
      BY <1>1, <1>2, <2>1 DEF Doing
    <3>3. QED
      BY ONLY <2>1, <3>1, <3>2 DEF Doing
  <2>3. CASE proc[q].mem = None
    <3>1. proc'[q] = proc[q]
      BY <2>3 DEF Write
    <3>2. QED
      BY <2>1, <2>3, <3>1
  <2>4. QED
    BY <2>2, <2>3
<1>7. TypeOK'
  <2>1. proc' \in [Procs -> Doing]
    <3>1. proc' = [q \in Procs |-> proc'[q]]
      BY DEF Write
    <3>2. QED
      BY <1>5, <1>6, <3>1
  <2>2. file' \in Config \cup {Empty, Torn}
    BY <1>2, <1>3 DEF Written
  <2>3. ack' \in Config
    BY <1>1, <1>2, <1>3 DEF TypeOK, Config
  <2>4. lost' \subseteq Fields \cup {"flag"} /\ damaged' \in BOOLEAN
    <3>1. proc[p].stale \subseteq Fields /\ lost \subseteq Fields \cup {"flag"}
      BY <1>1 DEF Doing, TypeOK
    <3>2. lost' \subseteq Fields \cup {"flag"}
      BY <1>4, <3>1
    <3>3. damaged' \in BOOLEAN
      BY <1>1, <1>3 DEF TypeOK
    <3>4. QED
      BY <3>2, <3>3
  <2>5. QED
    BY <1>1, <1>3, <2>1, <2>2, <2>3, <2>4 DEF TypeOK
<1>8. Steps(p)'
  BY <1>2, <1>3, <1>5 DEF Steps, Loaded, Idle
<1>9. ASSUME NEW q \in Procs \ {p} PROVE Steps(q)'
  BY <1>3, <1>6 DEF ConfigInv, Steps, Loaded
<1>10. ASSUME ~damaged'
       PROVE  /\ ~damaged /\ FileInv /\ FlagInv
              /\ \A q \in Procs \ {p} : ~Writing(q)
              /\ file' = proc[p].mem
              /\ \A f \in Fields : /\ f \in Sets[proc[p].op] => ack'[f] = proc[p].val
                                   /\ f \notin Sets[proc[p].op] => ack'[f] = ack[f]
  <2>1. ~damaged /\ FileInv /\ FlagInv /\ \A q \in Procs \ {p} : ~Writing(q)
    BY <1>3, <1>10 DEF ConfigInv
  <2>2. file = Empty
    BY <1>1, <2>1 DEF FileInv, WriterInv, Writing
  <2>3. file' = proc[p].mem
    BY <1>3, <2>2 DEF Written
  <2>4. QED
    BY <1>3, <2>1, <2>3
<1>11. ASSUME ~damaged', NEW f \in Fields
       PROVE  /\ f \in lost /\ f \notin Sets[proc[p].op] => f \in lost'
              /\ f \in proc[p].stale /\ f \notin Sets[proc[p].op] => f \in lost'
  BY <1>2, <1>4, <1>11, FieldsAreNoFlag
<1>12. ASSUME ~damaged' PROVE FileInv'
  <2>1. \A q \in Procs : ~Writing(q)'
    BY <1>5, <1>6, <1>10, <1>12 DEF Writing
  <2>2. Copy(p) /\ Loaded(p)
    BY <1>1, <1>10, <1>12 DEF FileInv, Loaded
  <2>3. AgreeInv'
    <3>1. file' \in Config
      BY <1>2, <1>10, <1>12
    <3>2. ASSUME NEW f \in Fields PROVE f \in lost' \/ file'[f] = ack'[f]
      BY <1>10, <1>11, <1>12, <2>2 DEF Copy
    <3>3. QED
      BY <3>1, <3>2 DEF AgreeInv
  <2>4. Copy(p)'
    BY <1>5 DEF Copy, Loaded
  <2>5. ASSUME NEW q \in Procs \ {p} PROVE Copy(q)'
    <3>1. SUFFICES ASSUME Loaded(q)', NEW f \in Fields, f \notin Sets[proc[q].op]
                   PROVE  f \in proc'[q].stale \cup lost' \/ proc'[q].mem[f] = ack'[f]
      <4>1. Copy(q) /\ (Loaded(q)' <=> Loaded(q))
        BY <1>6, <1>10, <1>12 DEF FileInv, Loaded
      <4>2. QED
        BY <1>6, <4>1 DEF Copy
    <3>2. Copy(q) /\ Loaded(q) /\ proc[q].mem # None
      BY <1>6, <1>10, <1>12, <3>1 DEF FileInv, ConfigInv, Steps, Loaded
    <3>3. f \in proc[q].stale \cup lost \/ proc[q].mem[f] = ack[f]
      BY <3>1, <3>2 DEF Copy
    <3>4. QED
      BY <1>6, <1>10, <1>11, <1>12, <3>2, <3>3
  <2>6. QED
    BY <2>1, <2>3, <2>4, <2>5 DEF FileInv, WriterInv
<1>13. ASSUME ~damaged' PROVE FlagInv'
  <2>1. TableInv /\ \A q \in Procs : Carries(q)
    BY <1>10, <1>13 DEF FlagInv
  <2>2. CASE proc[p].op = "autorestart"
    <3>1. mutex = p /\ mutex' = None /\ SetLoaded /\ ack'["auto"] = proc[p].val /\ proc'[p].flag = None
      BY <1>1, <1>2, <1>3, <1>5, <1>10, <1>13, <2>2 DEF SetLoaded, Loaded, Idle
    <3>2. TableInv'
      BY <1>3, <2>1, <3>1 DEF TableInv, SetLoaded
    <3>3. ASSUME NEW q \in Procs PROVE Carries(q)'
      BY <1>6, <2>1, <3>1 DEF Carries, SetLoaded
    <3>4. QED
      BY <3>2, <3>3 DEF FlagInv
  <2>3. CASE proc[p].op # "autorestart"
    <3>1. mutex # p /\ mutex' = mutex /\ ack'["auto"] = ack["auto"]
      BY <1>2, <1>3, <1>10, <1>13, <2>3
    <3>2. \A f \in {"auto", "flag"} : f \in lost => f \in lost'
      <4>1. "flag" \notin Sets[proc[p].op] /\ "auto" \notin Sets[proc[p].op]
        BY <1>2, <2>3, FlagIsNoField
      <4>2. QED
        BY <1>4, <1>13, <2>3, <4>1
    <3>3. SetLoaded' = SetLoaded /\ (SetLoaded => proc'[mutex].val = proc[mutex].val)
      BY <1>1, <1>6, <3>1 DEF SetLoaded, Loaded, TypeOK
    <3>4. TableInv'
      BY <1>3, <2>1, <3>1, <3>2, <3>3 DEF TableInv
    <3>5. Carries(p)'
      BY <1>5, <2>1, <3>1, <3>2, <3>3 DEF Carries, Idle
    <3>6. ASSUME NEW q \in Procs \ {p} PROVE Carries(q)'
      BY <1>6, <2>1, <3>1, <3>2, <3>3 DEF Carries
    <3>7. QED
      BY <3>4, <3>5, <3>6 DEF FlagInv
  <2>4. QED
    BY <2>2, <2>3
<1>14. QED
  BY <1>7, <1>8, <1>9, <1>12, <1>13 DEF ConfigInv

(* SaveFails keeps the invariant.                                          *)
LEMMA SaveFailsStep == ASSUME ConfigInv, NEW p \in Procs, SaveFails(p) PROVE ConfigInv'
<1> USE DistinctOK, SetsFacts DEF SaveFails, At, Op, Lose
<1>1. TypeOK /\ Steps(p) /\ proc[p] \in Doing /\ Idle \in Doing
  BY RecordType DEF ConfigInv
<1>2. /\ proc' = [proc EXCEPT ![p] = After(p)]
      /\ After(p) \in Doing /\ After(p).pc \in {"idle", "spawn"} /\ After(p).mem = None
      /\ proc[p].flag = None => After(p) = Idle
      /\ proc[p].flag # None => /\ After(p).pc = "spawn" /\ After(p).op = "start"
                                /\ After(p).flag = proc[p].flag /\ After(p).late = proc[p].late
  <2>1. CASE proc[p].flag = None
    BY <1>1, <2>1 DEF After, Idle
  <2>2. CASE proc[p].flag # None
    <3>1. After(p) = [Idle EXCEPT !.pc = "spawn", !.op = "start", !.flag = proc[p].flag, !.late = proc[p].late]
      BY <2>2 DEF After
    <3>2. proc[p].flag \in Values /\ proc[p].late \in BOOLEAN
      BY <1>1, <2>2 DEF Doing
    <3>3. QED
      BY <2>2, <3>1, <3>2 DEF Idle, Doing
  <2>3. QED
    BY <2>1, <2>2
<1>3. proc'[p] = After(p) /\ \A q \in Procs \ {p} : proc'[q] = proc[q]
  BY <1>1, <1>2 DEF TypeOK
<1>4. lost' \subseteq Fields \cup {"flag"}
  BY <1>1 DEF TypeOK
<1>5. TypeOK'
  <2>1. proc' \in [Procs -> Doing]
    BY <1>1, <1>2 DEF TypeOK
  <2>2. file' \in Config \cup {Empty, Torn} /\ damaged' \in BOOLEAN /\ mutex' \in Procs \cup {None}
    BY <1>1 DEF TypeOK
  <2>3. QED
    BY <1>1, <1>4, <2>1, <2>2 DEF TypeOK
<1>6. (mutex' = p) = FALSE /\ \A q \in Procs \ {p} : (mutex' = q) <=> (mutex = q)
  BY DEF SaveFails
<1>7. Steps(p)'
  BY <1>1, <1>2, <1>3, <1>6 DEF Steps, Loaded, Idle
<1>8. ASSUME NEW q \in Procs \ {p} PROVE Steps(q)'
  BY <1>3, <1>6, SameSteps DEF ConfigInv
<1>9. ASSUME ~damaged' PROVE ~damaged /\ FileInv /\ FlagInv /\ proc[p].pc = "trunc" /\ file' = file
  BY <1>1, <1>9 DEF ConfigInv, TypeOK
<1>10. ASSUME ~damaged' PROVE \A f \in Fields \cup {"flag"} : f \in lost => f \in lost'
  BY <1>10
<1>11. ASSUME ~damaged' PROVE FileInv'
  <2>1. \A q \in Procs : Writing(q)' <=> Writing(q)
    BY <1>2, <1>3, <1>9, <1>11 DEF Writing
  <2>2. WriterInv'
    BY <1>9, <1>11, <2>1 DEF FileInv, WriterInv
  <2>3. AgreeInv'
    BY <1>9, <1>10, <1>11, <2>1 DEF FileInv, AgreeInv
  <2>4. Copy(p)'
    BY <1>2, <1>3 DEF Copy, Loaded
  <2>5. ASSUME NEW q \in Procs \ {p} PROVE Copy(q)'
    BY <1>3, <1>9, <1>10, <1>11 DEF FileInv, Copy, Loaded
  <2>6. QED
    BY <2>2, <2>3, <2>4, <2>5 DEF FileInv
<1>12. ASSUME ~damaged' PROVE FlagInv'
  <2>1. TableInv /\ (\A q \in Procs : Carries(q)) /\ ack' = ack /\ running' = running
    BY <1>9, <1>12 DEF FlagInv
  <2>2. CASE proc[p].op = "autorestart"
    <3>1. mutex = p /\ mutex' = None /\ SetLoaded /\ ~SetLoaded' /\ proc'[p].flag = None
      BY <1>1, <1>2, <1>3, <1>9, <1>12, <2>2 DEF Steps, SetLoaded, Loaded, Idle
    <3>2. running # None => "flag" \in lost'
      BY <1>12, <2>2
    <3>3. TableInv'
      BY <2>1, <3>1, <3>2 DEF TableInv
    <3>4. ASSUME NEW q \in Procs PROVE Carries(q)'
      BY <1>3, <2>1, <3>1 DEF Carries
    <3>5. QED
      BY <3>3, <3>4 DEF FlagInv
  <2>3. CASE proc[p].op # "autorestart"
    <3>1. mutex # p /\ mutex' = mutex /\ mutex \in Procs \cup {None}
      BY <1>1, <2>3 DEF Steps, TypeOK
    <3>2. SetLoaded' = SetLoaded /\ (SetLoaded => proc'[mutex] = proc[mutex])
      BY <1>3, <3>1 DEF SetLoaded, Loaded
    <3>3. lost' = lost
      BY <1>12, <2>3
    <3>4. TableInv'
      BY <2>1, <3>1, <3>2, <3>3 DEF TableInv
    <3>5. Carries(p)'
      BY <1>2, <1>3, <2>1, <3>2, <3>3 DEF Carries, Idle
    <3>6. ASSUME NEW q \in Procs \ {p} PROVE Carries(q)'
      BY <1>3, <2>1, <3>2, <3>3 DEF Carries
    <3>7. QED
      BY <3>4, <3>5, <3>6 DEF FlagInv
  <2>4. QED
    BY <2>2, <2>3
<1>13. QED
  BY <1>5, <1>7, <1>8, <1>11, <1>12 DEF ConfigInv

(* Spawn keeps the invariant.                                              *)
LEMMA SpawnStep == ASSUME ConfigInv, NEW p \in Procs, Spawn(p) PROVE ConfigInv'
<1> USE DistinctOK, SetsFacts DEF Spawn, At, Lose
<1>1. TypeOK /\ Steps(p) /\ proc[p] \in Doing /\ Idle \in Doing
  BY RecordType DEF ConfigInv
<1>2. TypeOK'
  BY <1>1 DEF TypeOK, Idle, Doing
<1>3. Steps(p)'
  BY <1>1 DEF TypeOK, Steps, Loaded, Idle
<1>4. ASSUME NEW q \in Procs \ {p} PROVE Steps(q)'
  BY <1>1, SameSteps DEF ConfigInv, TypeOK
<1>5. ASSUME ~damaged' PROVE FileInv'
  <2>1. ~damaged /\ FileInv
    BY <1>5 DEF ConfigInv
  <2>2. WriterInv' /\ AgreeInv'
    BY <1>1, <2>1 DEF TypeOK, FileInv, WriterInv, AgreeInv, Writing, Idle
  <2>3. ASSUME NEW q \in Procs PROVE Copy(q)'
    BY <1>1, <2>1 DEF TypeOK, FileInv, Copy, Loaded, Idle
  <2>4. QED
    BY <2>2, <2>3 DEF FileInv
<1>6. ASSUME ~damaged' PROVE FlagInv'
  <2>1. ~damaged /\ FlagInv /\ mutex = None /\ mutex' = None
    BY <1>6 DEF ConfigInv
  <2>2. proc[p].flag # None /\ Carries(p)
    BY <1>1, <2>1 DEF Steps, FlagInv
  <2>3. TableInv'
    <3>1. CASE running # None
      BY <1>6, <2>1, <3>1 DEF FlagInv, TableInv, SetLoaded
    <3>2. CASE running = None
      <4>1. running' = proc[p].flag /\ (proc[p].late => "flag" \in lost') /\ lost \subseteq lost'
        BY <1>6, <3>2
      <4>2. QED
        BY <2>1, <2>2, <4>1 DEF TableInv, Carries, SetLoaded
    <3>3. QED
      BY <3>1, <3>2
  <2>4. ASSUME NEW q \in Procs PROVE Carries(q)'
    BY <1>1, <1>6, <2>1 DEF TypeOK, FlagInv, Carries, SetLoaded, Loaded, Idle
  <2>5. QED
    BY <2>3, <2>4 DEF FlagInv
<1>7. QED
  BY <1>2, <1>3, <1>4, <1>5, <1>6 DEF ConfigInv

(* Interrupt keeps the invariant.                                          *)
LEMMA InterruptStep == ASSUME ConfigInv, NEW p \in Procs, Interrupt(p) PROVE ConfigInv'
<1> USE DistinctOK, SetsFacts DEF Interrupt, At, Op, Lose
<1>1. TypeOK /\ Steps(p) /\ proc[p] \in Doing /\ Idle \in Doing
  BY RecordType DEF ConfigInv
<1>2. TypeOK'
  BY <1>1 DEF TypeOK, Idle, Doing
<1>3. Steps(p)'
  BY <1>1 DEF TypeOK, Steps, Loaded, Idle
<1>4. ASSUME NEW q \in Procs \ {p} PROVE Steps(q)'
  BY <1>1, SameSteps DEF ConfigInv, TypeOK
<1>5. ASSUME ~damaged' PROVE FileInv'
  <2>1. ~damaged /\ FileInv /\ proc[p].pc # "write" /\ lost' = lost
    BY <1>1, <1>5 DEF ConfigInv, TypeOK
  <2>2. proc'[p] = Idle /\ \A q \in Procs \ {p} : proc'[q] = proc[q]
    BY <1>1 DEF TypeOK
  <2>3. WriterInv' /\ AgreeInv'
    BY <2>1, <2>2 DEF FileInv, WriterInv, AgreeInv, Writing, Idle
  <2>4. ASSUME NEW q \in Procs PROVE Copy(q)'
    BY <2>1, <2>2 DEF FileInv, Copy, Loaded, Idle
  <2>5. QED
    BY <2>3, <2>4 DEF FileInv
<1>6. ASSUME ~damaged' PROVE FlagInv'
  <2>1. ~damaged /\ FlagInv /\ lost' = lost
    BY <1>1, <1>6 DEF ConfigInv, TypeOK
  <2>2. proc'[p] = Idle /\ \A q \in Procs \ {p} : proc'[q] = proc[q]
    BY <1>1 DEF TypeOK
  <2>3. mutex # p /\ mutex \in Procs \cup {None}
    BY <1>1 DEF Steps, TypeOK
  <2>4. SetLoaded' = SetLoaded /\ (SetLoaded => proc'[mutex] = proc[mutex])
    BY <2>2, <2>3 DEF SetLoaded, Loaded
  <2>5. TableInv'
    BY <2>1, <2>4 DEF FlagInv, TableInv
  <2>6. ASSUME NEW q \in Procs PROVE Carries(q)'
    BY <2>1, <2>2, <2>4 DEF FlagInv, Carries, Idle
  <2>7. QED
    BY <2>5, <2>6 DEF FlagInv
<1>7. QED
  BY <1>2, <1>3, <1>4, <1>5, <1>6 DEF ConfigInv

(* ServerExits keeps the invariant.                                        *)
LEMMA ServerExitsStep == ASSUME ConfigInv, ServerExits PROVE ConfigInv'
<1>1. TypeOK'
  BY DEF ConfigInv, TypeOK, ServerExits
<1>2. ASSUME NEW q \in Procs PROVE Steps(q)'
  BY SameSteps DEF ConfigInv, ServerExits
<1>3. ASSUME ~damaged' PROVE FileInv' /\ FlagInv'
  <2>1. FileInv /\ FlagInv
    BY <1>3 DEF ConfigInv, ServerExits
  <2>2. \A f \in Fields : f \in lost => f \in lost'
    BY FieldsAreNoFlag DEF ServerExits
  <2>3. FileInv'
    BY <2>1, <2>2 DEF ServerExits, FileInv, WriterInv, AgreeInv, Copy, Writing, Loaded
  <2>4. FlagInv'
    BY <2>1, <2>2, SetsFacts DEF ServerExits, FlagInv, TableInv, Carries, SetLoaded, Loaded
  <2>5. QED
    BY <2>3, <2>4
<1>4. QED
  BY <1>1, <1>2, <1>3 DEF ConfigInv

(* One lemma per action gives every step.                                  *)
LEMMA EveryStep == ASSUME ConfigInv, [Next]_vars PROVE ConfigInv'
<1>1. CASE Next
  BY <1>1, InvokeStep, InvokeSetStep, StartStep, LoadFailsStep, LoadStep, BuildStep, TruncateStep, WriteStep,
     SaveFailsStep, SpawnStep, InterruptStep, ServerExitsStep DEF Next
<1>2. CASE UNCHANGED vars
  BY <1>2 DEF vars, ConfigInv, TypeOK, Steps, FileInv, WriterInv, AgreeInv, Copy, Writing, Loaded,
              FlagInv, TableInv, Carries, SetLoaded
<1>3. QED
  BY <1>1, <1>2

(* The inductive invariant.                                                *)
THEOREM Invariance == Spec => []ConfigInv
BY InitInv, EveryStep, PTL DEF Spec

(* The file, the copies of it and the restart flags.                       *)
THEOREM TypeCorrect == Spec => []TypeOK
BY Invariance, PTL DEF ConfigInv

(* A saved setting is lost only to a command that loaded the file before   *)
(* and saved its copy after (config.go:46); a save that fails before it    *)
(* writes loses none.                                                      *)
THEOREM SettingsSurvive == Spec => []LostOnlyToOlderLoad
<1>1. ConfigInv => LostOnlyToOlderLoad
  BY DEF ConfigInv, FileInv, AgreeInv, Writing, LostOnlyToOlderLoad, At
<1>2. QED
  BY <1>1, Invariance, PTL

(* The restart flag in the table is the saved one, but after a SET whose   *)
(* save failed, or one that a START or an older save crossed               *)
(* (manager.go:298).                                                       *)
THEOREM FlagIsSaved == Spec => []RestartFlagAgrees
<1>1. ConfigInv => RestartFlagAgrees
  BY DEF ConfigInv, FlagInv, TableInv, SetLoaded, RestartFlagAgrees
<1>2. QED
  BY <1>1, Invariance, PTL
=============================================================================
