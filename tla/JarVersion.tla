----------------------------- MODULE JarVersion -----------------------------
(***************************************************************************)
(* The server jar of one server directory, its archived predecessors and   *)
(* the configuration that names them, under the commands create, import,   *)
(* set version and download.  One command runs at a time; every one of its *)
(* file operations is a step that may fail, every download before or after *)
(* it has truncated the jar, and the user may interrupt a command between  *)
(* any two steps.                                                          *)
(*                                                                         *)
(* A version stands for the pair (version, versionArg), which the code     *)
(* compares and archives together.  The content of a jar is the version it *)
(* belongs to and whether it is whole.  A save that fails after it has     *)
(* truncated config.json leaves a file that no command loads.              *)
(***************************************************************************)

CONSTANTS
    Versions,      \* versions a user may ask for
    Custom,        \* the version "custom" of a jar downloaded from a URL
    Template,      \* the version in the template config.json
    Own,           \* the version, unknown to us, of a jar the user has put there
    Damaged,       \* a config.json that is not whole
    NoFile         \* no such file

VersionAssumption == Custom \in Versions /\ Template \in Versions \ {Custom} /\ Own \notin Versions
ASSUME VersionsOK == VersionAssumption
VARIABLES
    dir,           \* the server directory exists
    cfg,           \* config.json, or NoFile
    jar,           \* the file cfg.Jar
    old,           \* old[v]: the archive <jar>.<v>.old
    cmd,           \* the command in progress: its step, its copy of the configuration, what
                   \* it loaded and (history) the jar when it began
    failed         \* history: what has failed besides downloads, "archive" in the last
                   \* command, the others in any

vars == <<dir, cfg, jar, old, cmd, failed>>

Types == {"vanilla", "paper", "forge", "neoforge", "unknown"}
Installed == {"forge", "neoforge"}
Config == [type : Types, version : Versions]
Jar(v, w) == [of |-> v, whole |-> w]
Jars == [of : Versions \cup {Own}, whole : BOOLEAN]
ASSUME NoFileOK == {NoFile, Damaged} \cap (Config \cup Jars) = {} /\ NoFile # Damaged

Steps == {"idle", "template", "save", "archive", "retrieve", "fetch", "copy", "install", "undo", "done"}
Ops == {"none", "create", "import", "version", "download"}

Idle == [op |-> "none", pc |-> "idle", mem |-> NoFile, prev |-> NoFile, was |-> NoFile, force |-> FALSE]

TypeOK ==
    /\ dir \in BOOLEAN /\ failed \subseteq {"archive", "retrieve", "save", "interrupt"}
    /\ cfg \in Config \cup {NoFile, Damaged}
    /\ jar \in Jars \cup {NoFile}
    /\ old \in [Versions -> Jars \cup {NoFile}]
    /\ cmd \in [op : Ops, pc : Steps, mem : Config \cup {NoFile}, prev : Config \cup {NoFile},
                was : Jars \cup {NoFile}, force : BOOLEAN]

(* A server directory made by the user, perhaps with a jar, or none.       *)
Init ==
    /\ dir \in BOOLEAN
    /\ jar \in {NoFile} \cup (IF dir THEN {Jar(Own, TRUE)} ELSE {})
    /\ cfg = NoFile
    /\ old = [v \in Versions |-> NoFile]
    /\ cmd = Idle
    /\ failed = {}

-----------------------------------------------------------------------------
(* Beginning, failing and ending a command.                                *)

Begin(op, pc, new, prev, force) ==
    /\ cmd' = [op |-> op, pc |-> pc, mem |-> new, prev |-> prev, was |-> jar, force |-> force]
    /\ failed' = failed \ {"archive"}
Goto(pc) == cmd' = [cmd EXCEPT !.pc = pc]
End == cmd' = Idle
At(pc) == cmd.pc = pc
mem == cmd.mem

(* A failed DownloadJar: set version undoes the change, create and import  *)
(* warn and save, download gives up.                                       *)
Fail == CASE cmd.op = "version"  -> Goto("undo")
          [] cmd.op = "download" -> End
          [] OTHER               -> Goto("done")

(* Mutant: a template without a version.                                   *)
TemplateUnversioned == [type |-> "vanilla", version |-> NoFile]
TemplateConfig == [type |-> "vanilla", version |-> Template]

(* create: the directory must not exist; an unsupported type is found out  *)
(* after it was made.                                                      *)
Create(t, v) ==
    /\ At("idle") /\ ~dir
    /\ dir' = TRUE
    /\ IF t = "unknown"
       THEN UNCHANGED <<cmd, failed>>
       ELSE Begin("create", "template", [type |-> t, version |-> v], NoFile, FALSE)
    /\ UNCHANGED <<cfg, jar, old>>

(* import: the directory must exist, config.json must not.                 *)
Import(t, v) ==
    /\ At("idle") /\ dir /\ cfg = NoFile
    /\ Begin("import", "template", [type |-> t, version |-> v], NoFile, FALSE)
    /\ UNCHANGED <<dir, cfg, jar, old>>

CreateConfigJsonFile ==
    /\ At("template")
    /\ cfg' = TemplateConfig
    /\ Goto("save")
    /\ UNCHANGED <<dir, jar, old, failed>>

SaveNew ==
    /\ At("save")
    /\ cfg' = mem
    /\ Goto("retrieve")
    /\ UNCHANGED <<dir, jar, old, failed>>

(* set version: refused for the version the server has, unless forced.     *)
SetVersion(v, force) ==
    /\ At("idle") /\ cfg \in Config
    /\ cfg.version # v \/ force
    /\ Begin("version", "archive", [cfg EXCEPT !.version = v], cfg, force)
    /\ UNCHANGED <<dir, cfg, jar, old>>

(* Mutants: the jar is archived under the new version; it is not archived. *)
ArchiveUnderNewName ==
    /\ At("archive")
    /\ IF jar = NoFile THEN UNCHANGED <<jar, old>>
       ELSE jar' = NoFile /\ old' = [old EXCEPT ![mem.version] = jar]
    /\ Goto("retrieve")
    /\ UNCHANGED <<dir, cfg, failed>>
ArchiveSkipped ==
    /\ At("archive")
    /\ Goto("retrieve")
    /\ UNCHANGED <<dir, cfg, jar, old, failed>>

(* ArchiveJarFile: without a jar there is nothing to rename.               *)
ArchiveJarFile ==
    /\ At("archive")
    /\ IF jar = NoFile THEN UNCHANGED <<jar, old>>
       ELSE jar' = NoFile /\ old' = [old EXCEPT ![cmd.prev.version] = jar]
    /\ Goto("retrieve")
    /\ UNCHANGED <<dir, cfg, failed>>

(* A rename that fails is only a warning: the jar stays where it is.       *)
ArchiveFails ==
    /\ At("archive") /\ jar # NoFile
    /\ failed' = failed \cup {"archive"}
    /\ Goto("retrieve")
    /\ UNCHANGED <<dir, cfg, jar, old>>

-----------------------------------------------------------------------------
(* DownloadJar.                                                            *)

Archived(v) == mem.type \notin Installed /\ old[v] # NoFile

RetrieveJar(v) == jar' = old[v] /\ old' = [old EXCEPT ![v] = NoFile]

(* Mutant: the jar of the version that failed is looked for.               *)
UndoBeforeVersion ==
    /\ At("undo")
    /\ IF Archived(mem.version) THEN RetrieveJar(mem.version) ELSE UNCHANGED <<jar, old>>
    /\ End
    /\ UNCHANGED <<dir, cfg, failed>>

RetrieveJarIfArchived ==
    /\ At("retrieve")
    /\ IF Archived(mem.version)
       THEN RetrieveJar(mem.version) /\ Goto("done")
       ELSE Goto("fetch") /\ UNCHANGED <<jar, old>>
    /\ UNCHANGED <<dir, cfg, failed>>

(* Nor does DownloadJar or the undoing care for a jar that it could not    *)
(* rename out of the archive.                                              *)
RetrieveFails ==
    /\ \/ At("retrieve") /\ Archived(mem.version) /\ Goto("fetch")
       \/ At("undo") /\ Archived(cmd.prev.version) /\ End
    /\ failed' = failed \cup {"retrieve"}
    /\ UNCHANGED <<dir, cfg, jar, old>>

(* The manifests and the jar's own address: no answer, an unknown version  *)
(* or type leave the jar alone; else os.Create truncates it.               *)
Fetch ==
    /\ At("fetch")
    /\ \/ Fail /\ UNCHANGED jar
       \/ /\ mem.type # "unknown"
          /\ mem.version # Custom
          /\ jar' = Jar(mem.version, FALSE)
          /\ Goto("copy")
    /\ UNCHANGED <<dir, cfg, old, failed>>

AfterCopy == IF mem.type \in Installed THEN "install" ELSE "done"

Copy ==
    /\ At("copy") /\ cmd.op # "download"
    /\ \/ Fail /\ UNCHANGED jar
       \/ jar' = Jar(mem.version, TRUE) /\ Goto(AfterCopy)
    /\ UNCHANGED <<dir, cfg, old, failed>>

(* runInstaller: without its java it does nothing.  Else the installer is  *)
(* run, whose failure is only printed, and an old forge replaces it by the *)
(* server jar that it made, if it did.  The configuration, with the new    *)
(* version in it, is saved; ConfigureJavaRunScript fails without a jar.    *)
RunInstaller ==
    /\ At("install")
    /\ \/ Fail /\ UNCHANGED <<cfg, jar>>
       \/ /\ jar' \in {jar} \cup (IF mem.type = "forge" THEN {NoFile} ELSE {})
          /\ \/ cfg' = mem /\ jar' # NoFile /\ (mem.type = "neoforge" \/ jar.whole) /\ Goto("done")
             \/ cfg' = mem /\ jar' = NoFile /\ Fail
             \/ cfg' \in {cfg, Damaged} /\ Fail
    /\ UNCHANGED <<dir, old, failed>>

-----------------------------------------------------------------------------
(* "undoing version changes...": the old jar comes back, nothing is saved. *)
Undo ==
    /\ At("undo")
    /\ IF Archived(cmd.prev.version) THEN RetrieveJar(cmd.prev.version) ELSE UNCHANGED <<jar, old>>
    /\ End
    /\ UNCHANGED <<dir, cfg, failed>>

Save ==
    /\ At("done")
    /\ cfg' = IF cmd.op = "download" THEN [mem EXCEPT !.version = Custom] ELSE mem
    /\ End
    /\ UNCHANGED <<dir, jar, old, failed>>

(* config.Save or the copy of the template fails: before it has opened the *)
(* file, or after.                                                         *)
SaveFails ==
    /\ cmd.pc \in {"template", "save", "done"}
    /\ cfg' \in {cfg, Damaged}
    /\ failed' = IF cmd.op \in {"create", "import"} THEN failed ELSE failed \cup {"save"}
    /\ End
    /\ UNCHANGED <<dir, jar, old>>

(* download: the jar is replaced without being archived, and an error of   *)
(* the copy goes unnoticed.                                                *)
DownloadCustomJar ==
    /\ At("idle") /\ cfg \in Config
    /\ jar' = Jar(Custom, FALSE)
    /\ Begin("download", "copy", cfg, cfg, FALSE)
    /\ UNCHANGED <<dir, cfg, old>>

CopyCustom ==
    /\ At("copy") /\ cmd.op = "download"
    /\ \E whole \in BOOLEAN : jar' = Jar(Custom, whole)
    /\ Goto(AfterCopy)
    /\ UNCHANGED <<dir, cfg, old, failed>>

Interrupt ==
    /\ ~At("idle")
    /\ End /\ failed' = failed \cup {"interrupt"}
    /\ UNCHANGED <<dir, cfg, jar, old>>

Next ==
    \/ \E v \in Versions \ {Custom}, t \in Types : Create(t, v) \/ Import(t, v)
    \/ \E v \in Versions, force \in BOOLEAN : SetVersion(v, force)
    \/ CreateConfigJsonFile \/ SaveNew \/ ArchiveJarFile \/ ArchiveFails
    \/ RetrieveJarIfArchived \/ RetrieveFails \/ Fetch \/ Copy \/ RunInstaller
    \/ Undo \/ Save \/ SaveFails \/ DownloadCustomJar \/ CopyCustom
    \/ Interrupt

Spec == Init /\ [][Next]_vars
-----------------------------------------------------------------------------
(* Between commands, a jar that is whole is the jar of the configured      *)
(* version, and an archive holds the jar of the version in its name: no    *)
(* failed change, and no rename that fails, leaves a server with one       *)
(* version in config.json and another in its jar (set.go, download.go).    *)
(* The exceptions are a jar the user has put there himself, which an       *)
(* import whose download fails takes for the version it was told           *)
(* (create.go:179), a command that was interrupted, and one that replaced  *)
(* the jar and then could not save its version (set.go:232).               *)
NoForeignJar ==
    (failed \cap {"interrupt", "save"} = {} /\ cfg \in Config /\ cfg.type \notin Installed) =>
        /\ At("idle") /\ jar # NoFile => (jar.whole => jar.of \in {cfg.version, Own})
        /\ \A v \in Versions : old[v] # NoFile => (old[v].whole => old[v].of \in {v, Own})

(* "undoing version changes...": when set version fails, the server has    *)
(* the configuration it had before, and its jar, if that could be archived *)
(* (set.go:212 only warns), in place or, if it could not be renamed back   *)
(* (set.go:228 ignores it), still in the archive of the configured         *)
(* version.  The installed types are left out: their jar is archived but   *)
(* never retrieved, and runInstaller has saved the new version.            *)
RestoredOnFailure ==
    [][At("undo") /\ mem.type \notin Installed =>
          /\ cfg' = cmd.prev
          /\ cmd.was # NoFile /\ "archive" \notin failed' =>
                /\ cmd.was \in {jar', old'[cmd.prev.version]}
                /\ failed' = {} => jar' = cmd.was]_vars

(* The whole jars of a directory, in place or archived.  A jar from a URL  *)
(* is not counted: the next one replaces it.                               *)
Good == {j \in Jars : /\ j.whole /\ j.of # Custom
                      /\ jar = j \/ \E v \in Versions : old[v] = j}

(* However a version change ends, it destroys no whole jar of any version: *)
(* os.Create truncates a jar only after it was archived, and an archive is *)
(* never overwritten by a damaged jar.  If the jar in place could not be   *)
(* archived (set.go:212 goes on), at most that one is lost.  What an       *)
(* earlier interruption, save or retrieval that failed has left is not     *)
(* safe: a damaged jar may be archived over it.                            *)
JarsKept ==
    [][failed' \subseteq {"archive"} /\ cmd.op = "version" /\ mem.type \notin Installed
          => (IF failed' = {} THEN Good ELSE Good \ {cmd.was}) \subseteq Good']_vars

(* "set <server> version <version> --force to retry jar download": a       *)
(* forced change to the same version that reports success leaves a whole   *)
(* jar.                                                                    *)
ForceRedownloads ==
    [][At("done") /\ cmd' = Idle /\ failed' = {} /\ cmd.force /\ mem.type \notin Installed => jar.whole]_vars
=============================================================================
