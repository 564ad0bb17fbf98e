------------------------------- MODULE Users --------------------------------
(***************************************************************************)
(* The account a server runs under.  create and import make an account for *)
(* the server, reload-user replaces it, runasroot gives it up and takes it *)
(* back, and the daemon makes sure of it before each start and at boot,    *)
(* from a copy of the configuration.  Accounts of the machine that are not *)
(* the manager's come and go and take ids that are free.                   *)
(*                                                                         *)
(* An account or a credential is <<uid, gid>>.                             *)
(***************************************************************************)
CONSTANTS
    Servers,
    Ids,           \* the ids useradd gives
    Root,          \* the credential of the daemon
    Disabled,      \* the user fields of config.json after SetConfigUserSpecificFalse
    None

ASSUME DistinctOK ==
    /\ {Root, Disabled, None} \cap (Ids \X Ids) = {}
    /\ None \notin {Root, Disabled}

VARIABLES
    acct,          \* the account mc-<server>, None without one
    foreign,       \* the ids of the machine's other accounts and groups
    cfg,           \* the user fields of config.json, None before the server is created
    owner,         \* the owner of the server's files
    cli,           \* a create, reload-user or runasroot command in progress
    start,         \* a START in progress: the user fields Build has read, and what it decided
    bootCopy,      \* the user fields MakeList has read for the boot loop, None when not booting
    running,       \* the credential the server runs with, None if it does not run
    raced,         \* history: the account was replaced under a START that had checked it
    unowned        \* history: files were left to another owner

vars == <<acct, foreign, cfg, owner, cli, start, bootCopy, running, raced, unowned>>

Accounts == Ids \X Ids
NoStart == [cred |-> None, pc |-> "idle"]

TypeOK ==
    /\ acct \in [Servers -> Accounts \cup {None}]
    /\ \A s, t \in Servers : s # t /\ acct[s] # None /\ acct[t] # None
                              => acct[s][1] # acct[t][1] /\ acct[s][2] # acct[t][2]
    /\ foreign \in [uid : SUBSET Ids, gid : SUBSET Ids]
    /\ cfg \in [Servers -> Accounts \cup {Disabled, None}]
    /\ owner \in [Servers -> Ids \cup {Root}]
    /\ cli \in [Servers -> [pc : {"idle", "remove", "create", "chown", "save"}, mem : Accounts \cup {Disabled, None}]]
    /\ start \in [Servers -> [pc : {"idle", "ensure", "disable", "spawn"}, cred : Accounts \cup {Root, None}]]
    /\ bootCopy \in [Servers -> Accounts \cup {Disabled, None}]
    /\ running \in [Servers -> Accounts \cup {Root, None}]
    /\ raced \in [Servers -> BOOLEAN] /\ unowned \in [Servers -> BOOLEAN]

Init ==
    /\ acct = [s \in Servers |-> None]
    /\ foreign = [uid |-> {}, gid |-> {}]
    /\ cfg = [s \in Servers |-> None]
    /\ owner = [s \in Servers |-> Root]
    /\ cli = [s \in Servers |-> [pc |-> "idle", mem |-> None]]
    /\ start = [s \in Servers |-> NoStart]
    /\ bootCopy = [s \in Servers |-> None]
    /\ running = [s \in Servers |-> None]
    /\ raced = [s \in Servers |-> FALSE] /\ unowned = [s \in Servers |-> FALSE]

-----------------------------------------------------------------------------
(* useradd, userdel and the rest of the machine.                           *)
FreeUids == Ids \ (foreign.uid \cup {acct[s][1] : s \in {t \in Servers : acct[t] # None}})
FreeGids == Ids \ (foreign.gid \cup {acct[s][2] : s \in {t \in Servers : acct[t] # None}})
(* userdel refuses an account that has processes.                          *)
Busy(s) == \E t \in Servers : running[t] \notin {None, Root} /\ running[t][1] = acct[s][1]

OtherAccount ==
    /\ \/ foreign.uid = {} /\ \E u \in FreeUids, g \in FreeGids : foreign' = [uid |-> {u}, gid |-> {g}]
       \/ foreign.gid = {} /\ \E g \in FreeGids : foreign' = [foreign EXCEPT !.gid = {g}]
       \/ foreign' = [uid |-> {}, gid |-> {}] /\ foreign # foreign'
    /\ UNCHANGED <<acct, cfg, owner, cli, start, bootCopy, running, raced, unowned>>

(* The account goes: behind the back of a START that has checked it, or    *)
(* while a START or the boot loop holds ids to make it anew with.          *)
Remove(s, alone) ==
    /\ acct' = [acct EXCEPT ![s] = None]
    /\ raced' = [raced EXCEPT ![s] = @ \/ start[s].pc = "spawn"]
    /\ unowned' = [unowned EXCEPT ![s] = @ \/ ~alone \/ start[s] # NoStart \/ bootCopy[s] # None]

(* An administrator removes the account of a server.                       *)
AccountLost(s) ==
    /\ acct[s] # None /\ ~Busy(s)
    /\ Remove(s, cli[s].pc = "idle")
    /\ UNCHANGED <<foreign, cfg, owner, cli, start, bootCopy, running>>

-----------------------------------------------------------------------------
(* The commands of the command-line client.                                *)
At(s, pc) == cli[s].pc = pc
Step(s, pc, mem) == cli' = [cli EXCEPT ![s] = [pc |-> pc, mem |-> mem]]

Create(s) ==
    /\ At(s, "idle") /\ cfg[s] = None
    /\ Step(s, "create", Disabled)
    /\ UNCHANGED <<acct, foreign, cfg, owner, start, bootCopy, running, raced, unowned>>

ReloadUser(s) ==
    /\ At(s, "idle") /\ cfg[s] \notin {None, Disabled}
    /\ Step(s, "remove", cfg[s])
    /\ UNCHANGED <<acct, foreign, cfg, owner, start, bootCopy, running, raced, unowned>>

(* Mutant: the gid is not reset.                                           *)
SetUidFalse(s) ==
    /\ At(s, "idle") /\ cfg[s] \notin {None, Disabled} /\ running[s] = None
    /\ Step(s, "save", <<Disabled, cfg[s][2]>>)
    /\ UNCHANGED <<acct, foreign, cfg, owner, start, bootCopy, running, raced, unowned>>
(* runasroot true.                                                         *)
SetUserSpecificFalse(s) ==
    /\ At(s, "idle") /\ cfg[s] # None /\ running[s] = None
    /\ Step(s, "save", Disabled)
    /\ UNCHANGED <<acct, foreign, cfg, owner, start, bootCopy, running, raced, unowned>>

(* runasroot false: an account that is there is taken as it is.            *)
ResumeFromRootConfig(s) ==
    /\ At(s, "idle") /\ cfg[s] # None /\ running[s] = None
    /\ IF acct[s] = None THEN Step(s, "create", Disabled) ELSE Step(s, "save", acct[s])
    /\ UNCHANGED <<acct, foreign, cfg, owner, start, bootCopy, running, raced, unowned>>

(* userdel may fail; reload-user goes on.                                  *)
RemoveUser(s) ==
    /\ At(s, "remove")
    /\ \/ /\ acct[s] # None /\ ~Busy(s)
          /\ Remove(s, TRUE)
          /\ Step(s, "create", Disabled)
       \/ Step(s, "create", cli[s].mem) /\ UNCHANGED <<acct, raced, unowned>>
    /\ UNCHANGED <<foreign, cfg, owner, start, bootCopy, running>>

(* Mutant: the files are not given to the new account.                     *)
CreateUserOnly(s) ==
    /\ At(s, "create")
    /\ acct[s] = None
    /\ \E u \in FreeUids, g \in FreeGids :
          acct' = [acct EXCEPT ![s] = <<u, g>>] /\ Step(s, "save", <<u, g>>)
    /\ UNCHANGED <<foreign, cfg, owner, start, bootCopy, running, raced, unowned>>
(* CreateUser: useradd chooses the ids, and fails for an account that is   *)
(* there.                                                                  *)
CreateUser(s) ==
    /\ At(s, "create")
    /\ \/ /\ acct[s] = None
          /\ \E u \in FreeUids, g \in FreeGids :
                acct' = [acct EXCEPT ![s] = <<u, g>>] /\ Step(s, "chown", <<u, g>>)
       \/ Step(s, "save", Disabled) /\ UNCHANGED acct
    /\ UNCHANGED <<foreign, cfg, owner, start, bootCopy, running, raced, unowned>>

SetServerPermissions(s) ==
    /\ At(s, "chown")
    /\ Step(s, "save", cli[s].mem)
    /\ \/ /\ owner' = [owner EXCEPT ![s] = cli[s].mem[1]]
          /\ unowned' = [unowned EXCEPT ![s] = acct[s] # cli[s].mem]
       \/ unowned' = [unowned EXCEPT ![s] = TRUE] /\ UNCHANGED owner
    /\ UNCHANGED <<acct, foreign, cfg, start, bootCopy, running, raced>>

Save(s) ==
    /\ At(s, "save")
    /\ cfg' = [cfg EXCEPT ![s] = cli[s].mem]
    /\ Step(s, "idle", None)
    /\ UNCHANGED <<acct, foreign, owner, start, bootCopy, running, raced, unowned>>

Interrupt(s) ==
    /\ ~At(s, "idle")
    /\ Step(s, "idle", None)
    /\ unowned' = [unowned EXCEPT ![s] = TRUE]
    /\ UNCHANGED <<acct, foreign, cfg, owner, start, bootCopy, running, raced>>

-----------------------------------------------------------------------------
(* Mutant: an account of the right name is taken for the right account.    *)
EnsuredByName(s, c) == IF acct[s] # None THEN {[acct |-> acct[s], ok |-> TRUE]}
                       ELSE {[acct |-> None, ok |-> FALSE]}
                            \cup {[acct |-> <<c[1], g>>, ok |-> g = c[2]] : g \in IF c[1] \in FreeUids THEN FreeGids ELSE {}}
(* EnsureUserExistence: an account with other ids is refused, a missing    *)
(* one is made with its old uid and the gid useradd chooses, which may be  *)
(* wrong.                                                                  *)
Ensured(s, c) ==
    IF acct[s] # None THEN {[acct |-> acct[s], ok |-> acct[s] = c]}
    ELSE {[acct |-> None, ok |-> FALSE]}
         \cup {[acct |-> <<c[1], g>>, ok |-> g = c[2]] : g \in IF c[1] \in FreeUids THEN FreeGids ELSE {}}

(* Build loads the configuration.                                          *)
Build(s) ==
    /\ start[s] = NoStart /\ running[s] = None /\ cfg[s] # None
    /\ start' = [start EXCEPT ![s] = IF cfg[s] = Disabled THEN [cred |-> Root, pc |-> "spawn"]
                                                           ELSE [cred |-> cfg[s], pc |-> "ensure"]]
    /\ raced' = [raced EXCEPT ![s] = FALSE]
    /\ UNCHANGED <<acct, foreign, cfg, owner, cli, bootCopy, running, unowned>>

EnsureUserExistence(s) ==
    /\ start[s].pc = "ensure"
    /\ \E r \in Ensured(s, start[s].cred) :
          /\ acct' = [acct EXCEPT ![s] = r.acct]
          /\ start' = [start EXCEPT ![s] = IF r.ok THEN [@ EXCEPT !.pc = "spawn"]
                                           ELSE [cred |-> Root, pc |-> "disable"]]
    /\ UNCHANGED <<foreign, cfg, owner, cli, bootCopy, running, raced, unowned>>

(* SetUserSpecificFalse, whose failure is only a warning.                  *)
DisableUser(s) ==
    /\ start[s].pc = "disable"
    /\ cfg' \in {[cfg EXCEPT ![s] = Disabled], cfg}
    /\ start' = [start EXCEPT ![s].pc = "spawn"]
    /\ UNCHANGED <<acct, foreign, owner, cli, bootCopy, running, raced, unowned>>

Spawn(s) ==
    /\ start[s].pc = "spawn"
    /\ running' = [running EXCEPT ![s] = start[s].cred]
    /\ start' = [start EXCEPT ![s] = NoStart]
    /\ unowned' = [unowned EXCEPT ![s] = @ \/ start[s].cred = Root]
    /\ UNCHANGED <<acct, foreign, cfg, owner, cli, bootCopy, raced>>

ServerExits(s) ==
    /\ running[s] # None
    /\ running' = [running EXCEPT ![s] = None]
    /\ raced' = [raced EXCEPT ![s] = FALSE]
    /\ UNCHANGED <<acct, foreign, cfg, owner, cli, start, bootCopy, unowned>>

(* The boot loop checks the accounts that MakeList has read before.        *)
MakeList ==
    /\ \A s \in Servers : bootCopy[s] = None
    /\ bootCopy' = cfg
    /\ UNCHANGED <<acct, foreign, cfg, owner, cli, start, running, raced, unowned>>

BootCheck(s) ==
    /\ bootCopy[s] # None
    /\ bootCopy' = [bootCopy EXCEPT ![s] = None]
    /\ IF bootCopy[s] = Disabled THEN UNCHANGED <<acct, cfg>>
       ELSE \E r \in Ensured(s, bootCopy[s]) :
               /\ acct' = [acct EXCEPT ![s] = r.acct]
               /\ cfg' \in IF r.ok THEN {cfg} ELSE {[cfg EXCEPT ![s] = Disabled], cfg}
    /\ UNCHANGED <<foreign, owner, cli, start, running, raced, unowned>>

Next ==
    \/ OtherAccount \/ MakeList
    \/ \E s \in Servers :
         \/ AccountLost(s) \/ Create(s) \/ ReloadUser(s) \/ SetUserSpecificFalse(s) \/ ResumeFromRootConfig(s)
         \/ RemoveUser(s) \/ CreateUser(s) \/ SetServerPermissions(s) \/ Save(s) \/ Interrupt(s)
         \/ Build(s) \/ EnsureUserExistence(s) \/ DisableUser(s) \/ Spawn(s) \/ ServerExits(s) \/ BootCheck(s)

Spec == Init /\ [][Next]_vars
-----------------------------------------------------------------------------
(* A server that does not run as root runs with the uid and the gid of its *)
(* own account as long as it runs: the ids of a lost account that somebody *)
(* else has taken are never used (launcher.go:59, users.go:186).           *)
(* Exception: the account is removed between the check and the spawn.      *)
RunsAsOwnUser ==
    \A s \in Servers : running[s] \in {None, Root} \/ raced[s] \/ running[s] = acct[s]

(* A server that does not run as root owns its files, through every order  *)
(* of create, reload-user, runasroot, lost accounts and starts.            *)
(* Exceptions: the files of a run as root are never given back             *)
(* (client.go:237), a SetServerPermissions that failed, an interrupted      *)
(* command, an account lost or reloaded under an older copy of its ids.    *)
OwnsItsFiles ==
    \A s \in Servers : running[s] \in {None, Root} \/ raced[s] \/ unowned[s] \/ owner[s] = running[s][1]
=============================================================================
