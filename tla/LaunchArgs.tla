----------------------------- MODULE LaunchArgs -----------------------------
(***************************************************************************)
(* The arguments a server is launched with.  config.json holds the memory  *)
(* and the additional arguments; paper's recommended flags come and go     *)
(* with its version; neoforge and forge are launched by run.sh, which      *)
(* reads user_jvm_args.txt, a second copy of the same arguments.  The      *)
(* commands that change them write one file after the other, may fail and  *)
(* may be interrupted in between.                                          *)
(*                                                                         *)
(* A line is [k, v]: an additional argument, or -Xms or -Xmx with a value. *)
(* Comments and blank lines, which every function keeps, are left out.     *)
(***************************************************************************)
EXTENDS Naturals, Sequences, SequencesExt

CONSTANTS
    Versions,      \* versions of a server
    Flags,         \* Flags[v]: the lines paper recommends for v
    UserLines,     \* lines a user may add
    Fold,          \* Fold[l]: the line l in lower case
    Rejected,      \* the lines ScriptAddJVMArg refuses for their characters
    Sizes,         \* memory sizes
    DefaultSize,   \* the size in the template config.json
    ImportedFile,  \* user_jvm_args.txt of a directory to be imported
    NoFile,        \* no such file
    MaxLines,      \* bound: additional arguments of the java machine, and lines of
                   \* user_jvm_args.txt beside the memory settings
    MaxServ        \* bound: additional arguments of the server

Line(k, v) == [k |-> k, v |-> v]
AnyLine == [k : {"arg", "xms", "xmx"}, v : STRING]
Types == {"paper", "neoforge"}
AllFlags == UNION {Range(Flags[v]) : v \in Versions}
(* The lines that may be arguments in config.json.                         *)
Arguments == UserLines \cup AllFlags \cup Range(ImportedFile)
Config == [type : Types, version : Versions \cup {"custom"}, ms : Sizes \cup {""}, mx : Sizes \cup {""},
           args : Seq(Arguments), serv : Nat]

ASSUME VersionsOK == "custom" \notin Versions
ASSUME FlagsOK == Flags \in [Versions -> Seq(AnyLine)]
ASSUME SizesOK == Sizes \subseteq STRING /\ DefaultSize \in Sizes /\ "" \notin Sizes
ASSUME LinesOK == UserLines \subseteq AnyLine /\ Rejected \subseteq UserLines
ASSUME ImportedOK ==
    /\ ImportedFile \in Seq(AnyLine)
    /\ \A i \in DOMAIN ImportedFile : ImportedFile[i].k = "arg" \/ ImportedFile[i].v \in Sizes
ASSUME NoFileOK == NoFile \notin Config /\ NoFile \notin Seq(AnyLine)

VARIABLES
    cfg,           \* config.json, or NoFile
    file,          \* user_jvm_args.txt, or NoFile
    cmd,           \* the command in progress: step and copy of the configuration
    added,         \* history: the lines the user added to config.json and did not remove
    plain          \* history: nothing happened that the properties make an exception for

vars == <<cfg, file, cmd, added, plain>>

Script == {"neoforge"}
Template(t, v) == [type |-> t, version |-> v, ms |-> DefaultSize, mx |-> DefaultSize, args |-> <<>>, serv |-> 0]
Idle == [op |-> "none", pc |-> "idle", mem |-> NoFile]

TypeOK ==
    /\ cfg \in Config \cup {NoFile}
    /\ file = NoFile \/ file \in Seq(AnyLine)
    /\ cmd \in [op : {"none", "create", "import", "version", "download", "add", "remove", "memory"},
               pc : {"idle", "save", "get", "install", "memory", "installed", "last", "write", "script"},
               mem : Config \cup {NoFile}]
    /\ added \in Seq(UserLines) /\ plain \in BOOLEAN

Init ==
    /\ cfg = NoFile
    /\ file \in {NoFile, ImportedFile}
    /\ cmd = Idle /\ added = <<>> /\ plain = TRUE

-----------------------------------------------------------------------------
At(pc) == cmd.pc = pc
mem == cmd.mem
Begin(op, pc, new) == cmd' = [op |-> op, pc |-> pc, mem |-> new]
Goto(pc) == cmd' = [cmd EXCEPT !.pc = pc]
Update(pc, new) == cmd' = [cmd EXCEPT !.pc = pc, !.mem = new]
End == cmd' = Idle
(* What the histories become when a step needs exc to hold: after an       *)
(* exception they are of no more use.                                      *)
Hist(lines, exc) ==
    /\ plain' = (plain /\ exc)
    /\ added' = IF plain' THEN lines ELSE <<>>
IsScript(c) == c.type \in Script

(* config.Load accepts a configuration with both memory sizes only.        *)
ValidateConfig(c) == c.ms # "" /\ c.mx # ""
Loads == At("idle") /\ cfg # NoFile /\ ValidateConfig(cfg)

(* The elements of s that are in S, as the loops over lines and arguments  *)
(* keep them.                                                              *)
Kept(s, S) ==
    LET keep[i \in 0 .. Len(s)] ==
            IF i = 0 THEN <<>>
            ELSE IF s[i] \in S THEN Append(keep[i - 1], s[i]) ELSE keep[i - 1]
    IN  keep[Len(s)]

OfKind(f, k) == {l \in Range(f) : l.k = k}
(* Lines of the file other than the memory settings.                       *)
ArgLines(f) == Kept(f, OfKind(f, "arg"))
MemoryOf(f, k) == LET ls == Kept(f, OfKind(f, k))
                  IN  IF ls = <<>> THEN "" ELSE ls[Len(ls)].v

(* Mutant: a memory line that is missing is not appended.                  *)
WithMemoryReplaced(f, c) ==
    [i \in DOMAIN f |-> CASE f[i].k = "xms" -> Line("xms", c.ms)
                           [] f[i].k = "xmx" -> Line("xmx", c.mx)
                           [] OTHER          -> f[i]]

(* ScriptSetJVMMemoryArgs: every memory line gets the configured size, and *)
(* a missing one is appended.                                              *)
WithMemory(f, c) ==
    LET set  == [i \in DOMAIN f |-> CASE f[i].k = "xms" -> Line("xms", c.ms)
                                      [] f[i].k = "xmx" -> Line("xmx", c.mx)
                                      [] OTHER          -> f[i]]
        lack(k, v) == IF \E i \in DOMAIN f : f[i].k = k THEN <<>> ELSE <<Line(k, v)>>
    IN  set \o lack("xms", c.ms) \o lack("xmx", c.mx)

-----------------------------------------------------------------------------
(* create and import.                                                      *)
Create(t, v) ==
    /\ At("idle") /\ cfg = NoFile /\ file = NoFile
    /\ Begin("create", "save", Template(t, v))
    /\ UNCHANGED <<cfg, file, added, plain>>

ImportServer(t, v) ==
    /\ At("idle") /\ cfg = NoFile /\ file # NoFile
    /\ Begin("import", "save", Template(t, v))
    /\ Hist(added, t \notin Script)
    /\ UNCHANGED <<cfg, file>>

SaveNew ==
    /\ At("save")
    /\ cfg' = mem
    /\ Goto(IF cmd.op = "import" /\ IsScript(mem) THEN "get" ELSE "install")
    /\ UNCHANGED <<file, added, plain>>

(* ScriptGetJVMArgs: the lines of the file are appended to the arguments   *)
(* on disk, not to the copy import saves in the end.                       *)
ScriptGetJVMArgs ==
    /\ At("get")
    /\ cfg' = [cfg EXCEPT !.args = @ \o ArgLines(file), !.ms = MemoryOf(file, "xms"),
                          !.mx = MemoryOf(file, "xmx")]
    /\ Goto("install")
    /\ UNCHANGED <<file, added, plain>>

-----------------------------------------------------------------------------
(* set version, from RemoveRecommendedJVMArguments to the last Save.       *)
(* Mutant: the loop stops at the first recommended argument.               *)
UnflaggedFirst(args, v) ==
    LET i == {j \in DOMAIN args : args[j] \in Range(Flags[v])}
    IN  IF i = {} THEN args ELSE RemoveAt(args, CHOOSE j \in i : \A k \in i : j <= k)
Unflagged(args, v) == Kept(args, Range(args) \ Range(Flags[v]))

RemoveRecommendedJVMArguments(v) ==
    /\ Loads /\ Len(cfg.args) <= MaxLines /\ cfg.serv < MaxServ
    /\ \/ /\ cfg.type = "paper" /\ cfg.version # "custom"
          /\ Begin("version", "install", [cfg EXCEPT !.args = Unflagged(@, cfg.version), !.version = v])
          /\ UNCHANGED <<added, plain>>
       \/ /\ Begin("version", "install", [cfg EXCEPT !.version = v])
          /\ Hist(added, cfg.type # "paper")
    /\ UNCHANGED <<cfg, file>>

(* Commands that end with the first error; create and import go on.        *)
Strict == {"version", "download"}
(* A failed download or installer: a strict command saves nothing.         *)
DownloadFails ==
    /\ At("install")
    /\ IF cmd.op \in Strict THEN End ELSE Goto("last")
    /\ Hist(added, cmd.op \in Strict \/ IsScript(mem))
    /\ UNCHANGED <<cfg, file>>

PaperSetRecommendedJVMArguments ==
    /\ At("install") /\ mem.type = "paper"
    /\ \/ /\ Update("last", [mem EXCEPT !.args = @ \o Flags[mem.version]])
          /\ UNCHANGED <<added, plain>>
       \/ Goto("last") /\ Hist(added, FALSE)
    /\ UNCHANGED <<cfg, file>>

(* The installer leaves user_jvm_args.txt alone if there is one.  One that *)
(* fails is only printed, and may not have made the file.                  *)
RunInstaller ==
    /\ At("install") /\ IsScript(mem) /\ ValidateConfig(cfg)
    /\ file' \in {file} \cup (IF file = NoFile THEN {<<>>} ELSE {})
    /\ Goto("memory")
    /\ UNCHANGED <<cfg, added, plain>>

(* That there is no file to put the memory settings in, or that it cannot  *)
(* be written, is a warning only.                                          *)
InstallMemory ==
    /\ At("memory")
    /\ \/ /\ file' = IF file # NoFile /\ ValidateConfig(cfg) THEN WithMemory(file, cfg) ELSE file
          /\ UNCHANGED <<added, plain>>
       \/ UNCHANGED file /\ Hist(added, FALSE)
    /\ Update("installed", [mem EXCEPT !.serv = @ + 1])
    /\ UNCHANGED cfg

(* runInstaller saves, then ConfigureJavaRunScript, which may fail; the    *)
(* command saves again, download with its version.                         *)
SaveMem ==
    /\ cfg' = mem
    /\ \/ At("installed") /\ Update("last", [mem EXCEPT !.version = IF cmd.op = "download" THEN "custom" ELSE @])
       \/ At("installed") /\ cmd.op \in Strict /\ End
       \/ At("last") /\ End
    /\ UNCHANGED <<file, added, plain>>

(* set download: neoforge runs the jar as its installer.                   *)
DownloadCustomJar ==
    /\ Loads
    /\ \/ /\ IsScript(cfg) /\ cfg.serv < MaxServ
          /\ Begin("download", "install", cfg)
          /\ UNCHANGED <<cfg, added, plain>>
       \/ /\ ~IsScript(cfg)
          /\ cfg' = [cfg EXCEPT !.version = "custom"]
          /\ Hist(added, FALSE)
          /\ UNCHANGED cmd
    /\ UNCHANGED file

-----------------------------------------------------------------------------
(* A line that is a memory setting but for case, which ScriptRemoveJVMArg  *)
(* cannot tell from it.                                                    *)
LikeMemory(l) == \E k \in {"xms", "xmx"}, s \in Sizes : Fold[l] = Fold[Line(k, s)]

(* add-launch-arg and rem-launch-arg: the script's file first.             *)
AddAdditionalJVMArg(l) ==
    /\ At("idle") /\ cfg # NoFile /\ Len(cfg.args) < MaxLines
    /\ IsScript(cfg) => l \notin Rejected /\ file # NoFile /\ Len(file) < MaxLines + 2
    /\ file' = IF IsScript(cfg) THEN Append(file, l) ELSE file
    /\ Begin("add", "write", [cfg EXCEPT !.args = Append(@, l)])
    /\ Hist(Append(added, l), /\ l \notin AllFlags
                              /\ l.k = "arg" /\ ~LikeMemory(l)
                              /\ \A i \in DOMAIN cfg.args : Fold[cfg.args[i]] # Fold[l])
    /\ UNCHANGED cfg

(* ScriptRemoveJVMArg removes every line equal to the argument but for     *)
(* case, and fails without one.                                            *)
Found(l) == \E i \in DOMAIN file : Fold[file[i]] = Fold[l]
Without(f, l) == Kept(f, {x \in Range(f) : Fold[x] # Fold[l]})
RemoveAdditionalJVMArg(i) ==
    LET l == cfg.args[i]
        n == Cardinality({j \in 1 .. i : cfg.args[j] \notin AllFlags})
    IN  /\ At("idle") /\ cfg # NoFile /\ i \in DOMAIN cfg.args
        /\ IsScript(cfg) => file # NoFile /\ Found(l)
        /\ file' = IF IsScript(cfg) THEN Without(file, l) ELSE file
        /\ Begin("remove", "write", [cfg EXCEPT !.args = RemoveAt(@, i)])
        /\ Hist(IF l \in AllFlags THEN added ELSE RemoveAt(added, n), l \notin AllFlags)
        /\ UNCHANGED cfg

WriteArgs ==
    /\ At("write")
    /\ cfg' = mem
    /\ End
    /\ UNCHANGED <<file, added, plain>>

(* The arguments of the server itself are in config.json only.             *)
AddAdditionalServArg ==
    /\ At("idle") /\ cfg # NoFile /\ cfg.serv < MaxServ
    /\ cfg' = [cfg EXCEPT !.serv = @ + 1]
    /\ UNCHANGED <<file, cmd, added, plain>>
(* Mutant: an index that is out of range is not refused.                   *)
RemoveServArgUnchecked ==
    /\ At("idle") /\ cfg # NoFile
    /\ cfg' = [cfg EXCEPT !.serv = @ - 1]
    /\ UNCHANGED <<file, cmd, added, plain>>
RemoveAdditionalServArg ==
    /\ At("idle") /\ cfg # NoFile /\ cfg.serv > 0
    /\ cfg' = [cfg EXCEPT !.serv = @ - 1]
    /\ UNCHANGED <<file, cmd, added, plain>>

(* set mem-allocated and mem-max: config.json first, then the script's     *)
(* file, which is not there before the installer has run.                  *)
SetMemory(k, s) ==
    /\ Loads
    /\ cfg' = IF k = "xms" THEN [cfg EXCEPT !.ms = s] ELSE [cfg EXCEPT !.mx = s]
    /\ IF IsScript(cfg) THEN Begin("memory", "script", NoFile) ELSE UNCHANGED cmd
    /\ UNCHANGED <<file, added, plain>>

ScriptSetJVMMemoryArgs ==
    /\ At("script")
    /\ file' = IF file = NoFile THEN file ELSE WithMemory(file, cfg)
    /\ End
    /\ UNCHANGED <<cfg, added, plain>>

(* The user interrupts a command, or one of its writes fails.              *)
Interrupt ==
    /\ ~At("idle")
    /\ End /\ Hist(added, FALSE)
    /\ UNCHANGED <<cfg, file>>

Next ==
    \/ \E t \in Types, v \in Versions : Create(t, v) \/ ImportServer(t, v)
    \/ SaveNew \/ ScriptGetJVMArgs
    \/ \E v \in Versions : RemoveRecommendedJVMArguments(v)
    \/ DownloadFails \/ PaperSetRecommendedJVMArguments \/ RunInstaller \/ InstallMemory \/ SaveMem
    \/ DownloadCustomJar
    \/ \E l \in UserLines : AddAdditionalJVMArg(l)
    \/ \E i \in 1 .. 2 * MaxLines : RemoveAdditionalJVMArg(i)
    \/ WriteArgs \/ AddAdditionalServArg \/ RemoveAdditionalServArg
    \/ \E k \in {"xms", "xmx"}, s \in Sizes : SetMemory(k, s)
    \/ ScriptSetJVMMemoryArgs \/ Interrupt

Spec == Init /\ [][Next]_vars
-----------------------------------------------------------------------------
(* The lines java gets: buildJarFile passes the configuration's, run.sh    *)
(* the file's.                                                             *)
Configured(c) == {Line("xms", c.ms), Line("xmx", c.mx)} \cup Range(c.args)
Launched == IF IsScript(cfg) THEN Range(file) ELSE Configured(cfg)

(* A server launched by run.sh gets the memory and the arguments its       *)
(* config.json shows, through every sequence of add, remove, set memory,   *)
(* install and failed download.  Exceptions: an import (whose last Save    *)
(* drops what ScriptGetJVMArgs read), a command that was interrupted or    *)
(* failed to write one of its files, two equal arguments (one removal      *)
(* takes both from the file), a memory setting added as an argument, in    *)
(* lower case too (runScript.go:193).                                      *)
LaunchMatches ==
    plain /\ At("idle") /\ cfg # NoFile /\ file # NoFile => Launched = Configured(cfg)

(* A paper server has the flags recommended for its version once, and the  *)
(* user's arguments in the order they were added, after every sequence of  *)
(* forced, failed and repeated version changes.  Exceptions: paper's site  *)
(* does not answer, a jar downloaded from a URL, an argument of the user   *)
(* that is itself a recommended flag.                                      *)
PaperArgs ==
    plain /\ At("idle") /\ cfg # NoFile /\ cfg.type = "paper"
        => /\ Kept(cfg.args, AllFlags) = Flags[cfg.version]
           /\ Kept(cfg.args, Range(cfg.args) \ AllFlags) = added
=============================================================================
