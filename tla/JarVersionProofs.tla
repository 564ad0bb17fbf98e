-------------------------- MODULE JarVersionProofs --------------------------
(***************************************************************************)
(* Type correctness of JarVersion and its three properties, for any set of *)
(* versions.  They follow from one inductive invariant.  PhaseInv says     *)
(* where in a command what is known of the configuration, WasInv where the *)
(* jar is that a version change began with, whatever has failed; MatchInv  *)
(* that the jar and the archives are the ones their names say, while no    *)
(* save has failed and no command was interrupted; AloneInv that no other  *)
(* jar is in the archive to which the next change renames the jar, while   *)
(* no rename out of an archive has failed either.                          *)
(***************************************************************************)
EXTENDS JarVersion, TLAPS

(* The steps after the configuration of a new server was saved.            *)
Later == {"archive", "retrieve", "fetch", "copy", "install", "undo", "done"}
New == {"create", "import"}

PhaseInv ==
    /\ ~dir => cfg = NoFile /\ cmd.pc = "idle" /\ jar = NoFile
    /\ cmd.pc = "template" => cfg = NoFile
    /\ cfg = NoFile => cmd.pc \in {"idle", "template"}
    /\ cfg = NoFile \/ cmd.pc = "save" => jar \in {NoFile, Jar(Own, TRUE)} /\ \A v \in Versions : old[v] = NoFile
    /\ cmd.pc = "save" => cfg = TemplateConfig
    /\ cmd.pc # "idle" => cmd.mem \in Config
    /\ cmd.pc \in {"template", "save"} => cmd.op \in New
    /\ cmd.pc \in {"archive", "undo"} => cmd.op = "version"
    /\ cmd.pc \in {"retrieve", "fetch"} => cmd.op \in New \cup {"version"}
    /\ cmd.pc = "install" => cmd.mem.type \in Installed
    /\ cmd.pc \in Later =>
          /\ cmd.op # "none"
          /\ cfg \in Config => cfg.type = cmd.mem.type
          /\ cmd.mem.type \notin Installed => cfg \in Config
    /\ cmd.op \in New =>
          /\ cmd.mem.version # Custom
          /\ cmd.pc \in Later /\ cmd.mem.type \notin Installed => cfg = cmd.mem
    /\ cmd.op = "version" =>
          /\ cmd.pc \in Later
          /\ cmd.prev \in Config /\ cmd.prev.type = cmd.mem.type
          /\ cmd.mem.type \notin Installed => cmd.prev = cfg

WasInv ==
    /\ cmd.pc = "copy" => jar # NoFile /\ ~jar.whole
    /\ cmd.op = "version" =>
          /\ cmd.pc = "archive" => cmd.was = jar /\ "archive" \notin failed
          /\ cmd.pc \in {"retrieve", "fetch"} => jar = IF "archive" \in failed THEN cmd.was ELSE NoFile
          /\ cmd.pc = "undo" /\ cmd.mem.type \notin Installed =>
                jar = NoFile \/ ~jar.whole \/ ("archive" \in failed /\ jar = cmd.was)
          /\ cmd.pc \in {"retrieve", "fetch", "copy", "install", "undo"} /\ cmd.was # NoFile /\ "archive" \notin failed
                => old[cmd.prev.version] = cmd.was

(* A whole jar under the name of version v.                                *)
Named(j, v) == j # NoFile => (j.whole => j.of = v \/ (j.of = Own /\ v # Custom))

MatchInv ==
    failed \cap {"interrupt", "save"} = {} /\ cfg \in Config /\ cfg.type \notin Installed =>
        /\ \A v \in Versions : Named(old[v], v)
        /\ cmd.pc \in {"idle", "archive", "retrieve", "fetch", "undo"} => Named(jar, cfg.version)
        /\ cmd.pc = "done" => Named(jar, IF cmd.op = "download" THEN Custom ELSE cmd.mem.version)

Alone(v) == jar # NoFile /\ v # Custom => old[v] = NoFile

AloneInv ==
    failed \subseteq {"archive"} /\ cfg \in Config /\ cfg.type \notin Installed =>
        /\ cmd.pc \in {"idle", "archive"} => Alone(cfg.version)
        /\ cmd.pc = "fetch" => old[cmd.mem.version] = NoFile
        /\ cmd.pc = "copy" /\ cmd.op # "download" => old[cmd.mem.version] = NoFile
        /\ cmd.pc = "done" => Alone(IF cmd.op = "download" THEN Custom ELSE cmd.mem.version)

JarInv == TypeOK /\ PhaseInv /\ WasInv /\ MatchInv /\ AloneInv

USE DEF Config, Types, Jars, Jar, Steps, Ops

-----------------------------------------------------------------------------
(* The commands in progress.                                               *)
Command ==
    [op : Ops, pc : Steps, mem : Config \cup {NoFile}, prev : Config \cup {NoFile},
     was : Jars \cup {NoFile}, force : BOOLEAN]

(* A step within a command gives a command.                               *)
LEMMA GotoType == ASSUME TypeOK, NEW pc \in Steps, Goto(pc) PROVE cmd' \in Command
BY DEF TypeOK, Goto, Command

(* So does a failed download.                                              *)
LEMMA FailType == ASSUME TypeOK, Fail PROVE cmd' \in Command
<1>1. CASE cmd.op = "download"
  <2>1. Idle \in Command
    BY DEF Idle, Command
  <2>2. End
    BY <1>1 DEF Fail
  <2>3. QED
    BY <2>1, <2>2 DEF End
<1>2. CASE cmd.op # "download"
  BY <1>2, GotoType DEF Fail
<1>3. QED
  BY <1>1, <1>2

(* A jar is a file.                                                        *)
LEMMA JarIsFile == ASSUME NEW v \in Versions \cup {Own}, NEW w \in BOOLEAN PROVE Jar(v, w) \in Jars /\ Jar(v, w) # NoFile
BY NoFileOK

(* Initially there is nothing but a jar of the user's.                     *)
LEMMA InitInv == Init => JarInv
<1> USE NoFileOK, VersionsOK DEF VersionAssumption
<1>1. ASSUME Init PROVE TypeOK
  <2>1. cmd \in Command
    BY <1>1 DEF Init, Idle, Command
  <2>2. jar \in Jars \cup {NoFile}
    BY <1>1, JarIsFile DEF Init
  <2>3. QED
    BY <1>1, <2>1, <2>2 DEF Init, TypeOK, Command
<1>2. Init => PhaseInv /\ WasInv
  BY DEF Init, PhaseInv, WasInv, Idle, Later, New
<1>3. Init => MatchInv /\ AloneInv
  BY DEF Init, MatchInv, AloneInv
<1>4. QED
  BY <1>1, <1>2, <1>3 DEF JarInv

(* Create keeps the invariant.                                              *)
LEMMA CreateStep == ASSUME JarInv, NEW t \in Types, NEW v \in Versions \ {Custom}, Create(t, v) PROVE JarInv'
<1> USE NoFileOK, VersionsOK DEF VersionAssumption, Create, At, Goto, Begin, End, Idle, mem
<1>1. TypeOK'
  <2>1. cmd' \in Command
    <3>1. CASE t = "unknown"
      BY <3>1 DEF JarInv, TypeOK, Command
    <3>2. CASE t # "unknown"
      <4>1. [type |-> t, version |-> v] \in Config
        OBVIOUS
      <4>2. Begin("create", "template", [type |-> t, version |-> v], NoFile, FALSE)
        BY ONLY <3>2, Create(t, v) DEF Create
      <4>3. jar \in Jars \cup {NoFile}
        BY DEF JarInv, TypeOK
      <4>4. QED
        BY ONLY <4>1, <4>2, <4>3 DEF Begin, Command, Steps, Ops
    <3>3. QED
      BY <3>1, <3>2
  <2>2. TypeOK /\ dir' = TRUE /\ failed' \subseteq failed
    BY DEF JarInv, TypeOK
  <2>3. QED
    BY ONLY <2>1, <2>2, Create(t, v) DEF Create, TypeOK, Command
<1>2. PhaseInv'
  BY DEF JarInv, TypeOK, PhaseInv, Later, Installed, New
<1>3. WasInv'
  BY DEF JarInv, TypeOK, PhaseInv, WasInv, Later, Installed, New
<1>4. MatchInv'
  BY DEF JarInv, TypeOK, PhaseInv, WasInv, MatchInv, Named, Later, Installed, New
<1>5. AloneInv'
  BY DEF JarInv, TypeOK, PhaseInv, WasInv, AloneInv, Alone, Later, Installed, New
<1>6. QED
  BY <1>1, <1>2, <1>3, <1>4, <1>5 DEF JarInv

(* Import keeps the invariant.                                              *)
LEMMA ImportStep == ASSUME JarInv, NEW t \in Types, NEW v \in Versions \ {Custom}, Import(t, v) PROVE JarInv'
<1> USE NoFileOK, VersionsOK DEF VersionAssumption, Import, At, Goto, Begin, End, Idle, mem
<1>1. TypeOK'
  BY DEF JarInv, TypeOK, PhaseInv, Later
<1>2. PhaseInv'
  BY DEF JarInv, TypeOK, PhaseInv, Later, Installed, New
<1>3. WasInv'
  BY DEF JarInv, TypeOK, PhaseInv, WasInv, Later, Installed, New
<1>4. MatchInv'
  BY DEF JarInv, TypeOK, PhaseInv, WasInv, MatchInv, Named, Later, Installed, New
<1>5. AloneInv'
  BY DEF JarInv, TypeOK, PhaseInv, WasInv, AloneInv, Alone, Later, Installed, New
<1>6. QED
  BY <1>1, <1>2, <1>3, <1>4, <1>5 DEF JarInv

(* CreateConfigJsonFile keeps the invariant.                                *)
LEMMA CreateConfigJsonFileStep == ASSUME JarInv, CreateConfigJsonFile PROVE JarInv'
<1> USE NoFileOK, VersionsOK DEF VersionAssumption, CreateConfigJsonFile, TemplateConfig, At, Goto, Begin, End, Idle, mem
<1>1. TypeOK'
  BY DEF JarInv, TypeOK, PhaseInv, Later
<1>2. PhaseInv'
  BY DEF JarInv, TypeOK, PhaseInv, Later, Installed, New
<1>3. WasInv'
  BY DEF JarInv, TypeOK, PhaseInv, WasInv, Later, Installed, New
<1>4. MatchInv'
  BY DEF JarInv, TypeOK, PhaseInv, WasInv, MatchInv, Named, Later, Installed, New
<1>5. AloneInv'
  BY DEF JarInv, TypeOK, PhaseInv, WasInv, AloneInv, Alone, Later, Installed, New
<1>6. QED
  BY <1>1, <1>2, <1>3, <1>4, <1>5 DEF JarInv

(* SaveNew keeps the invariant.                                             *)
LEMMA SaveNewStep == ASSUME JarInv, SaveNew PROVE JarInv'
<1> USE NoFileOK, VersionsOK DEF VersionAssumption, SaveNew, At, Goto, Begin, End, Idle, mem
<1>1. TypeOK'
  BY DEF JarInv, TypeOK, PhaseInv, Later
<1>2. PhaseInv'
  BY DEF JarInv, TypeOK, PhaseInv, Later, Installed, New
<1>3. WasInv'
  BY DEF JarInv, TypeOK, PhaseInv, WasInv, Later, Installed, New
<1>4. MatchInv'
  BY DEF JarInv, TypeOK, PhaseInv, WasInv, MatchInv, Named, Later, Installed, New
<1>5. AloneInv'
  BY DEF JarInv, TypeOK, PhaseInv, WasInv, AloneInv, Alone, Later, Installed, New
<1>6. QED
  BY <1>1, <1>2, <1>3, <1>4, <1>5 DEF JarInv

(* SetVersion keeps the invariant.                                          *)
LEMMA SetVersionStep == ASSUME JarInv, NEW v \in Versions, NEW force \in BOOLEAN, SetVersion(v, force) PROVE JarInv'
<1> USE NoFileOK, VersionsOK DEF VersionAssumption, SetVersion, At, Goto, Begin, End, Idle, mem
<1>1. TypeOK'
  BY DEF JarInv, TypeOK, PhaseInv, Later
<1>2. PhaseInv'
  BY DEF JarInv, TypeOK, PhaseInv, Later, Installed, New
<1>3. WasInv'
  BY DEF JarInv, TypeOK, PhaseInv, WasInv, Later, Installed, New
<1>4. MatchInv'
  BY DEF JarInv, TypeOK, PhaseInv, WasInv, MatchInv, Named, Later, Installed, New
<1>5. AloneInv'
  BY DEF JarInv, TypeOK, PhaseInv, WasInv, AloneInv, Alone, Later, Installed, New
<1>6. QED
  BY <1>1, <1>2, <1>3, <1>4, <1>5 DEF JarInv

(* ArchiveJarFile keeps the invariant.                                      *)
LEMMA ArchiveJarFileStep == ASSUME JarInv, ArchiveJarFile PROVE JarInv'
<1> USE NoFileOK, VersionsOK DEF VersionAssumption, ArchiveJarFile, At, Goto, Begin, End, Idle, mem
<1>1. TypeOK'
  BY DEF JarInv, TypeOK, PhaseInv, Later
<1>2. PhaseInv'
  BY DEF JarInv, TypeOK, PhaseInv, Later, Installed, New
<1>3. WasInv'
  BY DEF JarInv, TypeOK, PhaseInv, WasInv, Later, Installed, New
<1>4. MatchInv'
  BY DEF JarInv, TypeOK, PhaseInv, WasInv, MatchInv, Named, Later, Installed, New
<1>5. AloneInv'
  BY DEF JarInv, TypeOK, PhaseInv, WasInv, AloneInv, Alone, Later, Installed, New
<1>6. QED
  BY <1>1, <1>2, <1>3, <1>4, <1>5 DEF JarInv

(* ArchiveFails keeps the invariant.                                        *)
LEMMA ArchiveFailsStep == ASSUME JarInv, ArchiveFails PROVE JarInv'
<1> USE NoFileOK, VersionsOK DEF VersionAssumption, ArchiveFails, At, Goto, Begin, End, Idle, mem
<1>1. TypeOK'
  BY DEF JarInv, TypeOK, PhaseInv, Later
<1>2. PhaseInv'
  BY DEF JarInv, TypeOK, PhaseInv, Later, Installed, New
<1>3. WasInv'
  BY DEF JarInv, TypeOK, PhaseInv, WasInv, Later, Installed, New
<1>4. MatchInv'
  BY DEF JarInv, TypeOK, PhaseInv, WasInv, MatchInv, Named, Later, Installed, New
<1>5. AloneInv'
  BY DEF JarInv, TypeOK, PhaseInv, WasInv, AloneInv, Alone, Later, Installed, New
<1>6. QED
  BY <1>1, <1>2, <1>3, <1>4, <1>5 DEF JarInv

(* RetrieveJarIfArchived keeps the invariant.                               *)
LEMMA RetrieveJarIfArchivedStep == ASSUME JarInv, RetrieveJarIfArchived PROVE JarInv'
<1> USE NoFileOK, VersionsOK DEF VersionAssumption, RetrieveJarIfArchived, Archived, RetrieveJar, At, Goto, Begin, End, Idle, mem
<1>1. TypeOK'
  BY DEF JarInv, TypeOK, PhaseInv, Later
<1>2. PhaseInv'
  BY DEF JarInv, TypeOK, PhaseInv, Later, Installed, New
<1>3. WasInv'
  BY DEF JarInv, TypeOK, PhaseInv, WasInv, Later, Installed, New
<1>4. MatchInv'
  BY DEF JarInv, TypeOK, PhaseInv, WasInv, MatchInv, Named, Later, Installed, New
<1>5. AloneInv'
  BY DEF JarInv, TypeOK, PhaseInv, WasInv, AloneInv, Alone, Later, Installed, New
<1>6. QED
  BY <1>1, <1>2, <1>3, <1>4, <1>5 DEF JarInv

(* RetrieveFails keeps the invariant.                                       *)
LEMMA RetrieveFailsStep == ASSUME JarInv, RetrieveFails PROVE JarInv'
<1> USE NoFileOK, VersionsOK DEF VersionAssumption, RetrieveFails, Archived, At, Goto, Begin, End, Idle, mem
<1>1. TypeOK'
  <2>1. cmd' \in Command
    <3>1. CASE At("retrieve")
      BY <3>1, GotoType DEF JarInv
    <3>2. CASE ~At("retrieve")
      <4>1. cmd' = Idle
        BY <3>2
      <4>2. Idle \in Command
        BY ONLY DEF Idle, Command, Steps, Ops
      <4>3. QED
        BY ONLY <4>1, <4>2
    <3>3. QED
      BY <3>1, <3>2
  <2>2. QED
    BY <2>1 DEF JarInv, TypeOK, Command
<1>2. PhaseInv'
  BY DEF JarInv, TypeOK, PhaseInv, Later, Installed, New
<1>3. WasInv'
  BY DEF JarInv, TypeOK, PhaseInv, WasInv, Later, Installed, New
<1>4. MatchInv'
  BY DEF JarInv, TypeOK, PhaseInv, WasInv, MatchInv, Named, Later, Installed, New
<1>5. AloneInv'
  BY DEF JarInv, TypeOK, PhaseInv, WasInv, AloneInv, Alone, Later, Installed, New
<1>6. QED
  BY <1>1, <1>2, <1>3, <1>4, <1>5 DEF JarInv

(* Fetch keeps the invariant.                                               *)
LEMMA FetchStep == ASSUME JarInv, Fetch PROVE JarInv'
<1> USE NoFileOK, VersionsOK DEF VersionAssumption, Fetch, Fail, At, Goto, Begin, End, Idle, mem
<1>1. TypeOK'
  <2>0. TypeOK
    BY DEF JarInv
  <2>1. cmd.mem \in Config
    BY DEF JarInv, PhaseInv
  <2>2. CASE Fail /\ UNCHANGED jar
    <3>1. cmd' \in Command
      BY ONLY <2>0, <2>2, FailType
    <3>2. QED
      BY ONLY <2>0, <2>1, <2>2, <3>1, Fetch DEF Fetch, TypeOK, Command
  <2>3. CASE mem.type # "unknown" /\ jar' = Jar(mem.version, FALSE) /\ Goto("copy")
    <3>1. cmd' \in Command
      BY <2>0, <2>3, GotoType
    <3>2. QED
      BY ONLY <2>0, <2>1, <2>3, <3>1, Fetch DEF Fetch, TypeOK, Command
  <2>4. QED
    BY <2>2, <2>3
<1>2. PhaseInv'
  BY DEF JarInv, TypeOK, PhaseInv, Later, Installed, New
<1>3. WasInv'
  <2>1. CASE Fail /\ UNCHANGED jar
    BY <2>1 DEF JarInv, TypeOK, PhaseInv, WasInv, Later, Installed, New
  <2>2. CASE jar' = Jar(mem.version, FALSE) /\ Goto("copy")
    <3>1. jar' # NoFile /\ ~jar'.whole
      BY <2>2, JarIsFile DEF JarInv, PhaseInv
    <3>2. QED
      BY <2>2, <3>1 DEF JarInv, TypeOK, PhaseInv, WasInv, Later, Installed, New
  <2>3. QED
    BY <2>1, <2>2
<1>4. MatchInv'
  BY DEF JarInv, TypeOK, PhaseInv, WasInv, MatchInv, Named, Later, Installed, New
<1>5. AloneInv'
  BY DEF JarInv, TypeOK, PhaseInv, WasInv, AloneInv, Alone, Later, Installed, New
<1>6. QED
  BY <1>1, <1>2, <1>3, <1>4, <1>5 DEF JarInv

(* Copy keeps the invariant.                                                *)
LEMMA CopyStep == ASSUME JarInv, Copy PROVE JarInv'
<1> USE NoFileOK, VersionsOK DEF VersionAssumption, Copy, Fail, AfterCopy, At, Goto, Begin, End, Idle, mem
<1>1. TypeOK'
  <2>0. TypeOK
    BY DEF JarInv
  <2>1. cmd.mem \in Config
    BY DEF JarInv, PhaseInv
  <2>2. CASE Fail /\ UNCHANGED jar
    <3>1. cmd' \in Command
      BY ONLY <2>0, <2>2, FailType
    <3>2. QED
      BY ONLY <2>0, <2>1, <2>2, <3>1, Copy DEF Copy, TypeOK, Command
  <2>3. CASE jar' = Jar(mem.version, TRUE) /\ Goto(AfterCopy)
    <3>1. cmd' \in Command
      BY <2>0, <2>3, GotoType
    <3>2. QED
      BY ONLY <2>0, <2>1, <2>3, <3>1, Copy DEF Copy, TypeOK, Command
  <2>4. QED
    BY <2>2, <2>3
<1>2. PhaseInv'
  BY DEF JarInv, TypeOK, PhaseInv, Later, Installed, New
<1>3. WasInv'
  BY DEF JarInv, TypeOK, PhaseInv, WasInv, Later, Installed, New
<1>4. MatchInv'
  BY DEF JarInv, TypeOK, PhaseInv, WasInv, MatchInv, Named, Later, Installed, New
<1>5. AloneInv'
  BY DEF JarInv, TypeOK, PhaseInv, WasInv, AloneInv, Alone, Later, Installed, New
<1>6. QED
  BY <1>1, <1>2, <1>3, <1>4, <1>5 DEF JarInv

(* RunInstaller keeps the invariant.                                        *)
LEMMA RunInstallerStep == ASSUME JarInv, RunInstaller PROVE JarInv'
<1> USE NoFileOK, VersionsOK DEF VersionAssumption, RunInstaller, Fail, At, Goto, Begin, End, Idle, mem
<1>1. TypeOK'
  <2>0. TypeOK
    BY DEF JarInv
  <2>1. cmd.mem \in Config
    BY DEF JarInv, PhaseInv
  <2>2. cmd' \in Command
    BY ONLY <2>0, RunInstaller, FailType, GotoType DEF RunInstaller
  <2>3. cfg' \in Config \cup {NoFile, Damaged} /\ jar' \in Jars \cup {NoFile}
    BY <2>0, <2>1 DEF TypeOK
  <2>4. QED
    BY ONLY <2>0, <2>2, <2>3, RunInstaller DEF RunInstaller, TypeOK, Command
<1>2. PhaseInv'
  BY DEF JarInv, TypeOK, PhaseInv, Later, Installed, New
<1>3. WasInv'
  BY DEF JarInv, TypeOK, PhaseInv, WasInv, Later, Installed, New
<1>4. MatchInv'
  BY DEF JarInv, TypeOK, PhaseInv, WasInv, MatchInv, Named, Later, Installed, New
<1>5. AloneInv'
  BY DEF JarInv, TypeOK, PhaseInv, WasInv, AloneInv, Alone, Later, Installed, New
<1>6. QED
  BY <1>1, <1>2, <1>3, <1>4, <1>5 DEF JarInv

(* Undo keeps the invariant.                                                *)
LEMMA UndoStep == ASSUME JarInv, Undo PROVE JarInv'
<1> USE NoFileOK, VersionsOK DEF VersionAssumption, Undo, Archived, RetrieveJar, At, Goto, Begin, End, Idle, mem
<1>1. TypeOK'
  BY DEF JarInv, TypeOK, PhaseInv, Later
<1>2. PhaseInv'
  BY DEF JarInv, TypeOK, PhaseInv, Later, Installed, New
<1>3. WasInv'
  BY DEF JarInv, TypeOK, PhaseInv, WasInv, Later, Installed, New
<1>4. MatchInv'
  BY DEF JarInv, TypeOK, PhaseInv, WasInv, MatchInv, Named, Later, Installed, New
<1>5. AloneInv'
  BY DEF JarInv, TypeOK, PhaseInv, WasInv, AloneInv, Alone, Later, Installed, New
<1>6. QED
  BY <1>1, <1>2, <1>3, <1>4, <1>5 DEF JarInv

(* Save keeps the invariant.                                                *)
LEMMA SaveStep == ASSUME JarInv, Save PROVE JarInv'
<1> USE NoFileOK, VersionsOK DEF VersionAssumption, Save, At, Goto, Begin, End, Idle, mem
<1>1. TypeOK'
  BY DEF JarInv, TypeOK, PhaseInv, Later
<1>2. PhaseInv'
  BY DEF JarInv, TypeOK, PhaseInv, Later, Installed, New
<1>3. WasInv'
  BY DEF JarInv, TypeOK, PhaseInv, WasInv, Later, Installed, New
<1>4. MatchInv'
  BY DEF JarInv, TypeOK, PhaseInv, WasInv, MatchInv, Named, Later, Installed, New
<1>5. AloneInv'
  BY DEF JarInv, TypeOK, PhaseInv, WasInv, AloneInv, Alone, Later, Installed, New
<1>6. QED
  BY <1>1, <1>2, <1>3, <1>4, <1>5 DEF JarInv

(* SaveFails keeps the invariant.                                           *)
LEMMA SaveFailsStep == ASSUME JarInv, SaveFails PROVE JarInv'
<1> USE NoFileOK, VersionsOK DEF VersionAssumption, SaveFails, At, Goto, Begin, End, Idle, mem
<1>1. TypeOK'
  BY DEF JarInv, TypeOK, PhaseInv, Later
<1>2. PhaseInv'
  BY DEF JarInv, TypeOK, PhaseInv, Later, Installed, New
<1>3. WasInv'
  BY DEF JarInv, TypeOK, PhaseInv, WasInv, Later, Installed, New
<1>4. MatchInv'
  <2>1. CASE cfg' = Damaged
    BY <2>1 DEF MatchInv
  <2>2. CASE cfg' = cfg /\ cmd.pc = "template"
    BY <2>2 DEF JarInv, PhaseInv, MatchInv
  <2>3. CASE cfg' = cfg /\ cmd.pc = "save"
    BY <2>3 DEF JarInv, PhaseInv, MatchInv, Named, TemplateConfig
  <2>4. CASE cfg' = cfg /\ cmd.pc = "done"
    <3>1. cmd.op \in New => ~(cmd.mem.type \notin Installed) \/ cfg = cmd.mem
      BY <2>4 DEF JarInv, PhaseInv, Later
    <3>2. QED
      BY <2>4, <3>1 DEF JarInv, TypeOK, PhaseInv, MatchInv, Named, Later, New
  <2>5. QED
    BY <2>1, <2>2, <2>3, <2>4
<1>5. AloneInv'
  BY DEF JarInv, TypeOK, PhaseInv, WasInv, AloneInv, Alone, Later, Installed, New
<1>6. QED
  BY <1>1, <1>2, <1>3, <1>4, <1>5 DEF JarInv

(* DownloadCustomJar keeps the invariant.                                   *)
LEMMA DownloadCustomJarStep == ASSUME JarInv, DownloadCustomJar PROVE JarInv'
<1> USE NoFileOK, VersionsOK DEF VersionAssumption, DownloadCustomJar, At, Goto, Begin, End, Idle, mem
<1>1. TypeOK'
  BY DEF JarInv, TypeOK, PhaseInv, Later
<1>2. PhaseInv'
  BY DEF JarInv, TypeOK, PhaseInv, Later, Installed, New
<1>3. WasInv'
  BY JarIsFile DEF JarInv, TypeOK, PhaseInv, WasInv, Later, Installed, New
<1>4. MatchInv'
  BY DEF JarInv, TypeOK, PhaseInv, WasInv, MatchInv, Named, Later, Installed, New
<1>5. AloneInv'
  BY DEF JarInv, TypeOK, PhaseInv, WasInv, AloneInv, Alone, Later, Installed, New
<1>6. QED
  BY <1>1, <1>2, <1>3, <1>4, <1>5 DEF JarInv

(* CopyCustom keeps the invariant.                                          *)
LEMMA CopyCustomStep == ASSUME JarInv, CopyCustom PROVE JarInv'
<1> USE NoFileOK, VersionsOK DEF VersionAssumption, CopyCustom, AfterCopy, At, Goto, Begin, End, Idle, mem
<1>1. TypeOK'
  BY DEF JarInv, TypeOK, PhaseInv, Later
<1>2. PhaseInv'
  BY DEF JarInv, TypeOK, PhaseInv, Later, Installed, New
<1>3. WasInv'
  BY DEF JarInv, TypeOK, PhaseInv, WasInv, Later, Installed, New
<1>4. MatchInv'
  BY DEF JarInv, TypeOK, PhaseInv, WasInv, MatchInv, Named, Later, Installed, New
<1>5. AloneInv'
  BY DEF JarInv, TypeOK, PhaseInv, WasInv, AloneInv, Alone, Later, Installed, New
<1>6. QED
  BY <1>1, <1>2, <1>3, <1>4, <1>5 DEF JarInv

(* Interrupt keeps the invariant.                                           *)
LEMMA InterruptStep == ASSUME JarInv, Interrupt PROVE JarInv'
<1> USE NoFileOK, VersionsOK DEF VersionAssumption, Interrupt, At, Goto, Begin, End, Idle, mem
<1>1. TypeOK'
  BY DEF JarInv, TypeOK, PhaseInv, Later
<1>2. PhaseInv'
  BY DEF JarInv, TypeOK, PhaseInv, Later, Installed, New
<1>3. WasInv'
  BY DEF JarInv, TypeOK, PhaseInv, WasInv, Later, Installed, New
<1>4. MatchInv'
  BY DEF JarInv, TypeOK, PhaseInv, WasInv, MatchInv, Named, Later, Installed, New
<1>5. AloneInv'
  BY DEF JarInv, TypeOK, PhaseInv, WasInv, AloneInv, Alone, Later, Installed, New
<1>6. QED
  BY <1>1, <1>2, <1>3, <1>4, <1>5 DEF JarInv

(* One lemma per action gives every step.                                  *)
LEMMA StepInv == ASSUME JarInv, [Next]_vars PROVE JarInv'
<1>1. CASE Next
  BY <1>1, CreateStep, ImportStep, CreateConfigJsonFileStep, SaveNewStep, SetVersionStep,
     ArchiveJarFileStep, ArchiveFailsStep, RetrieveJarIfArchivedStep, RetrieveFailsStep, FetchStep, CopyStep,
     RunInstallerStep, UndoStep, SaveStep, SaveFailsStep, DownloadCustomJarStep, CopyCustomStep,
     InterruptStep DEF Next
<1>2. CASE UNCHANGED vars
  BY <1>2 DEF vars, JarInv, TypeOK, PhaseInv, WasInv, MatchInv, AloneInv, Alone, Named
<1>3. QED
  BY <1>1, <1>2

(* The inductive invariant.                                                *)
THEOREM Invariance == Spec => []JarInv
BY InitInv, StepInv, PTL DEF Spec

(* The histories and records keep their types.                             *)
THEOREM TypeCorrect == Spec => []TypeOK
BY Invariance, PTL DEF JarInv

(* No version in config.json and another in the jar, through downloads and *)
(* renames that fail, an imported jar apart (set.go, download.go).         *)
THEOREM JarIsConfigured == Spec => []NoForeignJar
<1>1. JarInv => NoForeignJar
  BY NoFileOK DEF JarInv, TypeOK, MatchInv, NoForeignJar, Named, At
<1>2. QED
  BY <1>1, Invariance, PTL

(* At undo the old configuration is still there, and the old jar archived  *)
(* if it could be.                                                         *)
LEMMA UndoRestores ==
    ASSUME JarInv, Next, At("undo"), mem.type \notin Installed
    PROVE  /\ cfg' = cmd.prev
           /\ cmd.was # NoFile /\ "archive" \notin failed' =>
                 /\ cmd.was \in {jar', old'[cmd.prev.version]}
                 /\ failed' = {} => jar' = cmd.was
<1>1. Undo \/ RetrieveFails \/ Interrupt
  BY DEF Next, At, Create, Import, CreateConfigJsonFile, SaveNew, SetVersion, ArchiveJarFile, ArchiveFails,
     RetrieveJarIfArchived, Fetch, Copy, RunInstaller, Save, SaveFails, DownloadCustomJar, CopyCustom
<1>2. /\ cfg \in Config /\ cmd.op = "version" /\ cmd.pc = "undo" /\ cmd.mem.type \notin Installed
      /\ cmd.prev = cfg /\ cmd.prev.version \in Versions
  BY DEF JarInv, TypeOK, PhaseInv, Later, At, mem
<1>3. cmd.was # NoFile /\ "archive" \notin failed => old[cmd.prev.version] = cmd.was
  BY <1>2 DEF JarInv, WasInv
<1>4. cfg' = cfg /\ ("archive" \in failed => "archive" \in failed')
  BY <1>1 DEF Undo, RetrieveFails, Interrupt
<1>5. CASE Undo
  BY <1>2, <1>3, <1>4, <1>5 DEF Undo, Archived, RetrieveJar, mem
<1>6. CASE RetrieveFails \/ Interrupt
  BY <1>2, <1>3, <1>4, <1>6 DEF RetrieveFails, Interrupt
<1>7. QED
  BY <1>1, <1>5, <1>6

(* A version change that fails is undone (set.go:223).                     *)
THEOREM FailureRestores == Spec => RestoredOnFailure
<1>1. JarInv /\ [Next]_vars
        => [At("undo") /\ mem.type \notin Installed =>
              /\ cfg' = cmd.prev
              /\ cmd.was # NoFile /\ "archive" \notin failed' =>
                    /\ cmd.was \in {jar', old'[cmd.prev.version]}
                    /\ failed' = {} => jar' = cmd.was]_vars
  BY UndoRestores
<1>2. QED
  BY <1>1, Invariance, PTL DEF Spec, RestoredOnFailure

(* A jar of the directory, in place or archived.                           *)
Holds(j) == jar = j \/ \E v \in Versions : old[v] = j

(* The jars of a directory through one step of a version change.           *)
LEMMA StepKeepsJars ==
    ASSUME JarInv, Next, failed' \subseteq {"archive"}, cmd.op = "version", mem.type \notin Installed,
           NEW j \in Jars, j.whole, j.of # Custom, Holds(j), failed' = {} \/ j # cmd.was
    PROVE  Holds(j)'
<1>1. /\ cfg \in Config /\ cmd.pc \in Later /\ cfg.type \notin Installed /\ cmd.prev = cfg /\ cmd.mem \in Config
      /\ cmd.mem.type \notin Installed
  BY DEF JarInv, TypeOK, PhaseInv, Later, mem
<1>2. \/ ArchiveJarFile \/ RetrieveJarIfArchived \/ Fetch \/ Copy \/ Undo
      \/ UNCHANGED <<jar, old>>
  BY <1>1 DEF Next, At, Create, Import, CreateConfigJsonFile, SaveNew, SetVersion, ArchiveFails, RetrieveFails,
     RunInstaller, Save, SaveFails, DownloadCustomJar, CopyCustom, Interrupt, JarInv, PhaseInv, Later
<1>3. j # NoFile
  BY NoFileOK
<1>4. /\ jar \in Jars \cup {NoFile} /\ old \in [Versions -> Jars \cup {NoFile}]
      /\ cmd.prev.version = cfg.version /\ cfg.version \in Versions /\ cmd.mem.version \in Versions
  BY <1>1 DEF JarInv, TypeOK
<1>5. WasInv /\ AloneInv /\ MatchInv
  BY DEF JarInv
<1> HIDE DEF Jar, Jars, Config
<1>6. CASE ArchiveJarFile
  <2>1. cmd.pc = "archive" /\ failed' = failed
    BY <1>6 DEF ArchiveJarFile, At
  <2>2. Alone(cfg.version) /\ \A v \in Versions : Named(old[v], v)
    BY <1>1, <1>5, <2>1 DEF AloneInv, MatchInv
  <2>3. CASE jar = j
    <3>1. old' = [old EXCEPT ![cfg.version] = jar]
      BY <1>3, <1>4, <1>6, <2>3 DEF ArchiveJarFile
    <3>2. QED
      BY <1>4, <2>3, <3>1 DEF Holds
  <2>4. ASSUME NEW v \in Versions, old[v] = j PROVE Holds(j)'
    <3>1. jar # NoFile => v # cfg.version
      BY <1>3, <2>2, <2>4 DEF Alone, Named
    <3>2. \/ UNCHANGED old
          \/ jar # NoFile /\ old' = [old EXCEPT ![cfg.version] = jar]
      BY <1>4, <1>6 DEF ArchiveJarFile
    <3>3. QED
      BY <1>4, <2>4, <3>1, <3>2 DEF Holds
  <2>5. QED
    BY <2>3, <2>4 DEF Holds
<1>7. CASE RetrieveJarIfArchived
  <2>1. jar # j
    BY <1>3, <1>5, <1>7 DEF RetrieveJarIfArchived, At, WasInv
  <2>2. PICK v \in Versions : old[v] = j
    BY <2>1 DEF Holds
  <2>3. QED
    BY <1>4, <1>7, <2>2 DEF RetrieveJarIfArchived, RetrieveJar, mem, Holds
<1>8. CASE Fetch
  <2>1. jar # j
    BY <1>3, <1>5, <1>8 DEF Fetch, At, WasInv
  <2>2. QED
    BY <1>8, <2>1 DEF Fetch, Holds
<1>9. CASE Copy
  <2>1. jar # j
    BY <1>5, <1>9 DEF Copy, At, WasInv
  <2>2. QED
    BY <1>9, <2>1 DEF Copy, Holds
<1>10. CASE Undo
  <2>1. jar # j
    BY <1>1, <1>3, <1>5, <1>10 DEF Undo, At, WasInv
  <2>2. PICK v \in Versions : old[v] = j
    BY <2>1 DEF Holds
  <2>3. QED
    BY <1>4, <1>10, <2>2 DEF Undo, RetrieveJar, Holds
<1>11. CASE UNCHANGED <<jar, old>>
  BY <1>11 DEF Holds
<1>12. QED
  BY <1>2, <1>6, <1>7, <1>8, <1>9, <1>10, <1>11

(* No version change destroys a whole jar, but the one in place that it    *)
(* could not archive (download.go:150).                                    *)
THEOREM NoJarLost == Spec => JarsKept
<1>1. ASSUME JarInv, [Next]_vars
      PROVE  [failed' \subseteq {"archive"} /\ cmd.op = "version" /\ mem.type \notin Installed
                => (IF failed' = {} THEN Good ELSE Good \ {cmd.was}) \subseteq Good']_vars
  <2>1. SUFFICES ASSUME Next, failed' \subseteq {"archive"}, cmd.op = "version", mem.type \notin Installed,
                        NEW j \in Good, failed' = {} \/ j # cmd.was
                 PROVE  j \in Good'
    BY <1>1
  <2>2. j \in Jars /\ j.whole /\ j.of # Custom /\ Holds(j)
    BY DEF Good, Holds
  <2>3. Holds(j)'
    BY <1>1, <2>1, <2>2, StepKeepsJars
  <2>4. QED
    BY <2>2, <2>3 DEF Good, Holds
<1>2. QED
  BY <1>1, Invariance, PTL DEF Spec, JarsKept
=============================================================================
