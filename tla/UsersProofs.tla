---------------------------- MODULE UsersProofs -----------------------------
(***************************************************************************)
(* Type correctness of Users, RunsAsOwnUser and OwnsItsFiles, for any      *)
(* servers and ids.  The invariant says what a START may still rely on     *)
(* after its check, and to which of the copies of an account (the client's,*)
(* config.json's, the START's and the boot loop's) the files belong.       *)
(***************************************************************************)
EXTENDS Users, TLAPS

(* A server that runs is not being started; a credential that was checked  *)
(* is that of the account.                                                 *)
Cred(s) ==
    /\ running[s] # None => start[s] = NoStart
    /\ start[s].pc = "idle" => start[s] = NoStart
    /\ start[s].pc = "ensure" => start[s].cred \in Accounts
    /\ start[s].pc = "disable" => start[s].cred = Root
    /\ start[s].pc = "spawn" => /\ start[s].cred \in Accounts \cup {Root}
                                /\ start[s].cred = Root \/ raced[s] \/ start[s].cred = acct[s]
    /\ running[s] \in {None, Root} \/ raced[s] \/ running[s] = acct[s]

(* The command holds the ids of the account it has made or found.          *)
Saves(s) == cli[s].pc = "save" /\ cli[s].mem # Disabled
Made(s, c) == c \in Accounts /\ acct[s] \in {None, c}

Files(s) ==
    /\ cli[s].pc # "idle" => cli[s].mem # None
    /\ cli[s].pc = "chown" => cli[s].mem # Disabled
    /\ ~unowned[s] =>
         /\ cli[s].pc = "chown" \/ Saves(s) => acct[s] = cli[s].mem
         /\ cli[s].pc # "chown" /\ acct[s] # None => owner[s] = acct[s][1]
         /\ cfg[s] \in Accounts /\ ~Saves(s) => owner[s] = cfg[s][1]
         /\ start[s].pc = "ensure" /\ Made(s, start[s].cred) => owner[s] = start[s].cred[1]
         /\ bootCopy[s] \in Accounts /\ acct[s] = None => owner[s] = bootCopy[s][1]
         /\ start[s].pc = "spawn" /\ start[s].cred # Root /\ ~raced[s] => owner[s] = start[s].cred[1]
         /\ running[s] \notin {None, Root} /\ ~raced[s] => owner[s] = running[s][1]

UsersInv == TypeOK /\ \A s \in Servers : Cred(s) /\ Files(s)

(* What Cred and Files read of a server.                                   *)
Same(s) ==
    /\ acct'[s] = acct[s] /\ cfg'[s] = cfg[s] /\ owner'[s] = owner[s] /\ cli'[s] = cli[s]
    /\ start'[s] = start[s] /\ bootCopy'[s] = bootCopy[s] /\ running'[s] = running[s]
    /\ raced'[s] = raced[s] /\ unowned'[s] = unowned[s]

(* A server that a step does not touch keeps its part of the invariant.    *)
LEMMA Untouched == ASSUME NEW s \in Servers, Cred(s), Files(s), Same(s) PROVE Cred(s)' /\ Files(s)'
BY DEF Cred, Files, Saves, Made, Same

-----------------------------------------------------------------------------
Separate == \A s, t \in Servers : s # t /\ acct[s] # None /\ acct[t] # None
                                    => acct[s][1] # acct[t][1] /\ acct[s][2] # acct[t][2]

(* An account that is made has ids of its own.                             *)
LEMMA AccountMade ==
    ASSUME TypeOK, NEW s \in Servers, NEW u \in FreeUids, NEW g \in FreeGids,
           acct' = [acct EXCEPT ![s] = <<u, g>>]
    PROVE  acct' \in [Servers -> Accounts \cup {None}] /\ Separate'
<1>1. <<u, g>> \in Accounts /\ <<u, g>>[1] = u /\ <<u, g>>[2] = g
  BY DEF FreeUids, FreeGids, Accounts
<1>2. acct \in [Servers -> Accounts \cup {None}] /\ Separate
  BY DEF TypeOK, Separate
<1>3. \A t \in Servers : acct[t] # None => acct[t][1] # u /\ acct[t][2] # g
  BY DEF FreeUids, FreeGids
<1>4. acct' \in [Servers -> Accounts \cup {None}]
  BY <1>1, <1>2
<1>5. ASSUME NEW t \in Servers, NEW r \in Servers, t # r, acct'[t] # None, acct'[r] # None
      PROVE  acct'[t][1] # acct'[r][1] /\ acct'[t][2] # acct'[r][2]
  <2>1. CASE t = s
    BY <1>1, <1>2, <1>3, <1>5, <2>1
  <2>2. CASE r = s
    BY <1>1, <1>2, <1>3, <1>5, <2>2
  <2>3. CASE t # s /\ r # s
    BY <1>2, <1>5, <2>3 DEF Separate
  <2>4. QED
    BY <2>1, <2>2, <2>3
<1>6. QED
  BY <1>4, <1>5 DEF Separate

(* What the check of an account may find and do (users.go:186).            *)
LEMMA EnsuredResults ==
    ASSUME TypeOK, NEW s \in Servers, NEW c \in Accounts, NEW r \in Ensured(s, c),
           acct' = [acct EXCEPT ![s] = r.acct]
    PROVE  /\ \/ acct' = acct
              \/ /\ acct[s] = None
                 /\ acct'[s] \in Accounts /\ acct'[s][1] = c[1]
           /\ r.ok \in BOOLEAN
           /\ r.ok => acct'[s] = c
           /\ acct' \in [Servers -> Accounts \cup {None}] /\ Separate'
           /\ \A e \in Servers \ {s} : acct'[e] = acct[e]
<1>1. acct \in [Servers -> Accounts \cup {None}] /\ Separate
  BY DEF TypeOK, Separate
<1>2. PICK i \in Ids, j \in Ids : c = <<i, j>>
  BY DEF Accounts
<1>3. CASE acct[s] # None
  <2>1. r = [acct |-> acct[s], ok |-> acct[s] = c]
    BY <1>3 DEF Ensured
  <2>2. acct' = acct /\ r.ok = (acct[s] = c)
    BY <1>1, <2>1
  <2>3. CASE acct[s] = c
    BY <1>1, <2>2, <2>3 DEF Separate
  <2>4. CASE acct[s] # c
    <3>1. r.ok = FALSE /\ acct' = acct
      BY <2>2, <2>4
    <3>2. acct' \in [Servers -> Accounts \cup {None}] /\ Separate'
      BY <1>1, <3>1 DEF Separate
    <3>3. QED
      BY <2>4, <3>1, <3>2
  <2>5. QED
    BY <2>3, <2>4
<1>4. CASE acct[s] = None /\ r = [acct |-> None, ok |-> FALSE]
  <2>1. acct' = acct /\ r.ok = FALSE
    BY <1>1, <1>4
  <2>2. acct' \in [Servers -> Accounts \cup {None}] /\ Separate'
    BY <1>1, <2>1 DEF Separate
  <2>3. QED
    BY <2>1, <2>2
<1>5. CASE acct[s] = None /\ r # [acct |-> None, ok |-> FALSE]
  <2>1. c[1] \in FreeUids /\ \E g \in FreeGids : r = [acct |-> <<c[1], g>>, ok |-> g = c[2]]
    BY <1>5 DEF Ensured
  <2>2. PICK g \in FreeGids : r = [acct |-> <<c[1], g>>, ok |-> g = c[2]]
    BY <2>1
  <2>3. r.acct = <<c[1], g>> /\ r.ok = (g = c[2])
    BY <2>2
  <2>4. acct' \in [Servers -> Accounts \cup {None}] /\ Separate'
    BY <2>1, <2>3, AccountMade
  <2>5. acct'[s] = <<c[1], g>> /\ \A e \in Servers \ {s} : acct'[e] = acct[e]
    BY <1>1, <2>3
  <2>6. acct'[s] \in Accounts /\ acct'[s][1] = c[1]
    BY <2>1, <2>5 DEF Accounts, FreeUids, FreeGids
  <2>7. r.ok => acct'[s] = c
    BY <1>2, <2>3, <2>5
  <2>8. QED
    BY <1>5, <2>3, <2>4, <2>5, <2>6, <2>7
<1>6. QED
  BY <1>3, <1>4, <1>5

(* A command keeps its step and the ids it holds well-typed.               *)
LEMMA CommandType ==
    ASSUME TypeOK, NEW s \in Servers, NEW pc \in {"idle", "remove", "create", "chown", "save"},
           NEW mem \in Accounts \cup {Disabled, None}, Step(s, pc, mem)
    PROVE  /\ cli' \in [Servers -> [pc : {"idle", "remove", "create", "chown", "save"},
                                    mem : Accounts \cup {Disabled, None}]]
           /\ cli'[s] = [pc |-> pc, mem |-> mem]
BY DEF TypeOK, Step

(* An account is not removed under a server that runs with it.             *)
LEMMA RemovedIsNotBusy == ASSUME NEW s \in Servers, ~Busy(s), Cred(s)
                          PROVE  running[s] \in {None, Root} \/ raced[s]
BY DEF Busy, Cred

-----------------------------------------------------------------------------
(* Initially there are no accounts and no servers.                         *)
LEMMA InitInv == Init => UsersInv
<1> USE DistinctOK DEF Accounts, NoStart
<1>1. Init => TypeOK
  BY DEF Init, TypeOK
<1>2. ASSUME Init, NEW s \in Servers PROVE Cred(s) /\ Files(s)
  BY <1>2 DEF Init, Cred, Files, Saves, Made
<1>3. QED
  BY <1>1, <1>2 DEF UsersInv

(* AccountLost keeps the invariant.                                        *)
LEMMA AccountLostStep == ASSUME UsersInv, NEW s \in Servers, AccountLost(s) PROVE UsersInv'
<1> USE DistinctOK DEF AccountLost, Remove
<1>1. TypeOK /\ Cred(s) /\ Files(s)
  BY DEF UsersInv
<1>2. TypeOK'
  BY <1>1 DEF TypeOK, Accounts, NoStart
<1>3. Cred(s)'
  BY <1>1, RemovedIsNotBusy DEF TypeOK, Cred, Accounts, NoStart
<1>4. Files(s)'
  <2>1. /\ acct'[s] = None /\ cli'[s] = cli[s] /\ cfg'[s] = cfg[s] /\ owner'[s] = owner[s]
        /\ ~unowned'[s] => /\ ~unowned[s] /\ cli[s].pc = "idle"
                           /\ start'[s] = NoStart /\ bootCopy'[s] = None
        /\ ~raced'[s] => running'[s] \in {None, Root}
    BY <1>1, RemovedIsNotBusy DEF TypeOK
  <2>2. None \notin Accounts
    BY DEF Accounts
  <2>3. QED
    BY <1>1, <2>1, <2>2 DEF Files, Saves, Made, NoStart
<1>5. ASSUME NEW e \in Servers \ {s} PROVE Cred(e)' /\ Files(e)'
  <2>1. Same(e)
    BY <1>1 DEF TypeOK, Same
  <2>2. QED
    BY <2>1, Untouched DEF UsersInv
<1>6. QED
  BY <1>2, <1>3, <1>4, <1>5 DEF UsersInv

(* Create keeps the invariant.                                             *)
LEMMA CreateStep == ASSUME UsersInv, NEW s \in Servers, Create(s) PROVE UsersInv'
<1> USE DistinctOK DEF Create, At, Step
<1>1. TypeOK /\ Cred(s) /\ Files(s)
  BY DEF UsersInv
<1>2. TypeOK'
  BY <1>1 DEF TypeOK, Accounts, NoStart
<1>3. Cred(s)'
  BY <1>1 DEF TypeOK, Cred, Accounts, NoStart
<1>4. Files(s)'
  BY <1>1 DEF TypeOK, Cred, Files, Saves, Made, Accounts, NoStart
<1>5. ASSUME NEW e \in Servers \ {s} PROVE Cred(e)' /\ Files(e)'
  <2>1. Same(e)
    BY <1>1 DEF TypeOK, Same
  <2>2. QED
    BY <2>1, Untouched DEF UsersInv
<1>6. QED
  BY <1>2, <1>3, <1>4, <1>5 DEF UsersInv

(* ReloadUser keeps the invariant.                                         *)
LEMMA ReloadUserStep == ASSUME UsersInv, NEW s \in Servers, ReloadUser(s) PROVE UsersInv'
<1> USE DistinctOK DEF ReloadUser, At, Step
<1>1. TypeOK /\ Cred(s) /\ Files(s)
  BY DEF UsersInv
<1>2. TypeOK'
  BY <1>1 DEF TypeOK, Accounts, NoStart
<1>3. Cred(s)'
  BY <1>1 DEF TypeOK, Cred, Accounts, NoStart
<1>4. Files(s)'
  BY <1>1 DEF TypeOK, Cred, Files, Saves, Made, Accounts, NoStart
<1>5. ASSUME NEW e \in Servers \ {s} PROVE Cred(e)' /\ Files(e)'
  <2>1. Same(e)
    BY <1>1 DEF TypeOK, Same
  <2>2. QED
    BY <2>1, Untouched DEF UsersInv
<1>6. QED
  BY <1>2, <1>3, <1>4, <1>5 DEF UsersInv

(* SetUserSpecificFalse keeps the invariant.                               *)
LEMMA SetUserSpecificFalseStep == ASSUME UsersInv, NEW s \in Servers, SetUserSpecificFalse(s) PROVE UsersInv'
<1> USE DistinctOK DEF SetUserSpecificFalse, At, Step
<1>1. TypeOK /\ Cred(s) /\ Files(s)
  BY DEF UsersInv
<1>2. TypeOK'
  BY <1>1 DEF TypeOK, Accounts, NoStart
<1>3. Cred(s)'
  BY <1>1 DEF TypeOK, Cred, Accounts, NoStart
<1>4. Files(s)'
  BY <1>1 DEF TypeOK, Cred, Files, Saves, Made, Accounts, NoStart
<1>5. ASSUME NEW e \in Servers \ {s} PROVE Cred(e)' /\ Files(e)'
  <2>1. Same(e)
    BY <1>1 DEF TypeOK, Same
  <2>2. QED
    BY <2>1, Untouched DEF UsersInv
<1>6. QED
  BY <1>2, <1>3, <1>4, <1>5 DEF UsersInv

(* ResumeFromRootConfig keeps the invariant.                               *)
LEMMA ResumeFromRootConfigStep == ASSUME UsersInv, NEW s \in Servers, ResumeFromRootConfig(s) PROVE UsersInv'
<1> USE DistinctOK DEF ResumeFromRootConfig, At, Step
<1>1. TypeOK /\ Cred(s) /\ Files(s)
  BY DEF UsersInv
<1>2. TypeOK'
  <2>1. acct[s] \in Accounts \cup {Disabled, None}
    BY <1>1 DEF TypeOK
  <2>2. CASE Step(s, "create", Disabled)
    BY <1>1, <2>2, CommandType DEF TypeOK
  <2>3. CASE Step(s, "save", acct[s])
    BY <1>1, <2>1, <2>3, CommandType DEF TypeOK
  <2>4. QED
    BY <2>2, <2>3
<1>3. Cred(s)'
  BY <1>1 DEF TypeOK, Cred, Accounts, NoStart
<1>4. Files(s)'
  BY <1>1 DEF TypeOK, Cred, Files, Saves, Made, Accounts, NoStart
<1>5. ASSUME NEW e \in Servers \ {s} PROVE Cred(e)' /\ Files(e)'
  <2>1. Same(e)
    BY <1>1 DEF TypeOK, Same
  <2>2. QED
    BY <2>1, Untouched DEF UsersInv
<1>6. QED
  BY <1>2, <1>3, <1>4, <1>5 DEF UsersInv

(* RemoveUser keeps the invariant.                                         *)
LEMMA RemoveUserStep == ASSUME UsersInv, NEW s \in Servers, RemoveUser(s) PROVE UsersInv'
<1> USE DistinctOK DEF RemoveUser, At, Step, Remove
<1>1. TypeOK /\ Cred(s) /\ Files(s)
  BY DEF UsersInv
<1>2. TypeOK'
  <2>1. CASE acct[s] # None /\ ~Busy(s) /\ Remove(s, TRUE) /\ Step(s, "create", Disabled)
    <3>1. /\ acct' \in [Servers -> Accounts \cup {None}] /\ Separate'
          /\ raced' \in [Servers -> BOOLEAN] /\ unowned' \in [Servers -> BOOLEAN]
      BY <1>1, <2>1 DEF TypeOK, Separate
    <3>2. QED
      BY <1>1, <2>1, <3>1, CommandType DEF TypeOK, Separate
  <2>2. CASE Step(s, "create", cli[s].mem) /\ UNCHANGED <<acct, raced, unowned>>
    <3>1. cli[s].mem \in Accounts \cup {Disabled, None}
      BY <1>1 DEF TypeOK
    <3>2. cli'
             \in [Servers -> [pc : {"idle", "remove", "create", "chown", "save"}, mem : Accounts \cup {Disabled, None}]]
      BY <1>1, <2>2, <3>1 DEF TypeOK
    <3>3. QED
      BY <1>1, <2>2, <3>2 DEF TypeOK
  <2>3. QED
    BY <2>1, <2>2
<1>3. Cred(s)'
  <2>1. CASE acct[s] # None /\ ~Busy(s) /\ Remove(s, TRUE) /\ Step(s, "create", Disabled)
    BY <1>1, <2>1, RemovedIsNotBusy DEF TypeOK, Cred, Accounts, NoStart
  <2>2. CASE Step(s, "create", cli[s].mem) /\ UNCHANGED <<acct, raced, unowned>>
    BY <1>1, <2>2 DEF Cred
  <2>3. QED
    BY <2>1, <2>2
<1>4. Files(s)'
  <2>1. CASE acct[s] # None /\ ~Busy(s) /\ Remove(s, TRUE) /\ Step(s, "create", Disabled)
    <3>1. /\ acct'[s] = None /\ cfg'[s] = cfg[s] /\ owner'[s] = owner[s]
          /\ ~unowned'[s] => ~unowned[s] /\ start'[s] = NoStart /\ bootCopy'[s] = None
          /\ ~raced'[s] => running'[s] \in {None, Root}
      BY <1>1, <2>1, RemovedIsNotBusy DEF TypeOK
    <3>2. None \notin Accounts /\ cli'[s] = [pc |-> "create", mem |-> Disabled]
      BY <1>1, <2>1, CommandType DEF Accounts
    <3>3. QED
      BY <1>1, <2>1, <3>1, <3>2 DEF Files, Saves, Made, NoStart
  <2>2. CASE Step(s, "create", cli[s].mem) /\ UNCHANGED <<acct, raced, unowned>>
    BY <1>1, <2>2 DEF TypeOK, Files, Saves, Made
  <2>3. QED
    BY <2>1, <2>2
<1>5. ASSUME NEW e \in Servers \ {s} PROVE Cred(e)' /\ Files(e)'
  <2>1. Same(e)
    BY <1>1 DEF TypeOK, Same
  <2>2. QED
    BY <2>1, Untouched DEF UsersInv
<1>6. QED
  BY <1>2, <1>3, <1>4, <1>5 DEF UsersInv

(* CreateUser keeps the invariant.                                         *)
LEMMA CreateUserStep == ASSUME UsersInv, NEW s \in Servers, CreateUser(s) PROVE UsersInv'
<1> USE DistinctOK DEF CreateUser, At, Step
<1>1. TypeOK /\ Cred(s) /\ Files(s)
  BY DEF UsersInv
<1>2. TypeOK'
  <2>1. ASSUME acct[s] = None, NEW u \in FreeUids, NEW g \in FreeGids,
               acct' = [acct EXCEPT ![s] = <<u, g>>], Step(s, "chown", <<u, g>>)
        PROVE  TypeOK'
    <3>1. <<u, g>> \in Accounts \cup {Disabled, None}
      BY DEF FreeUids, FreeGids, Accounts
    <3>2. cli'
             \in [Servers -> [pc : {"idle", "remove", "create", "chown", "save"}, mem : Accounts \cup {Disabled, None}]]
      BY <1>1, <2>1, <3>1 DEF TypeOK
    <3>3. acct' \in [Servers -> Accounts \cup {None}] /\ Separate'
      BY <1>1, <2>1, AccountMade
    <3>4. QED
      BY <1>1, <3>2, <3>3 DEF TypeOK, Separate
  <2>2. CASE Step(s, "save", Disabled) /\ UNCHANGED acct
    BY <1>1, <2>2 DEF TypeOK
  <2>3. QED
    BY <2>1, <2>2
<1>3. Cred(s)'
  <2>1. ASSUME acct[s] = None, NEW u \in FreeUids, NEW g \in FreeGids,
               acct' = [acct EXCEPT ![s] = <<u, g>>], Step(s, "chown", <<u, g>>)
        PROVE  Cred(s)'
    <3>1. None \notin Accounts /\ None # Root
      BY DEF Accounts
    <3>2. UNCHANGED <<start, running, raced>>
      OBVIOUS
    <3>3. QED
      BY <1>1, <2>1, <3>1, <3>2 DEF Cred
  <2>2. CASE Step(s, "save", Disabled) /\ UNCHANGED acct
    BY <1>1, <2>2 DEF Cred
  <2>3. QED
    BY <2>1, <2>2
<1>4. Files(s)'
  <2>1. ASSUME acct[s] = None, NEW u \in FreeUids, NEW g \in FreeGids,
               acct' = [acct EXCEPT ![s] = <<u, g>>], Step(s, "chown", <<u, g>>)
        PROVE  Files(s)'
    <3>1. <<u, g>> \in Accounts
      BY DEF FreeUids, FreeGids, Accounts
    <3>2. acct'[s] = <<u, g>> /\ cli'[s] = [pc |-> "chown", mem |-> <<u, g>>]
      BY <1>1, <2>1 DEF TypeOK
    <3>3. <<u, g>> # None /\ <<u, g>> # Disabled
      BY <3>1 DEF Accounts
    <3>4. start[s].pc = "spawn" /\ start[s].cred # Root => raced[s]
      <4>1. None \notin Accounts
        BY DEF Accounts
      <4>2. QED
        BY <1>1, <2>1, <4>1 DEF Cred
    <3>5. running[s] \in {None, Root} \/ raced[s]
      BY <1>1, <2>1 DEF TypeOK, Cred
    <3>6. QED
      BY <1>1, <2>1, <3>2, <3>3, <3>4, <3>5 DEF Files, Saves, Made
  <2>2. CASE Step(s, "save", Disabled) /\ UNCHANGED acct
    BY <1>1, <2>2 DEF TypeOK, Files, Saves, Made
  <2>3. QED
    BY <2>1, <2>2
<1>5. ASSUME NEW e \in Servers \ {s} PROVE Cred(e)' /\ Files(e)'
  <2>1. Same(e)
    BY <1>1 DEF TypeOK, Same
  <2>2. QED
    BY <2>1, Untouched DEF UsersInv
<1>6. QED
  BY <1>2, <1>3, <1>4, <1>5 DEF UsersInv

(* SetServerPermissions keeps the invariant.                               *)
LEMMA SetServerPermissionsStep == ASSUME UsersInv, NEW s \in Servers, SetServerPermissions(s) PROVE UsersInv'
<1> USE DistinctOK DEF SetServerPermissions, At, Step
<1>1. TypeOK /\ Cred(s) /\ Files(s)
  BY DEF UsersInv
<1>2. TypeOK'
  <2>1. cli[s].mem \in Accounts
    BY <1>1 DEF TypeOK, Files
  <2>2. cli[s].mem[1] \in Ids
    BY <2>1 DEF Accounts
  <2>3. cli'
             \in [Servers -> [pc : {"idle", "remove", "create", "chown", "save"}, mem : Accounts \cup {Disabled, None}]]
    BY <1>1, <2>1 DEF TypeOK
  <2>4. owner' \in [Servers -> Ids \cup {Root}] /\ unowned' \in [Servers -> BOOLEAN]
    <3>1. [pc |-> "spawn", cred |-> Root]
             \in [pc : {"idle", "ensure", "disable", "spawn"}, cred : Accounts \cup {Root, None}]
      OBVIOUS
    <3>2. QED
      BY <1>1, <2>2, <3>1 DEF TypeOK
  <2>5. QED
    BY <1>1, <2>3, <2>4 DEF TypeOK
<1>3. Cred(s)'
  BY <1>1 DEF TypeOK, Cred, Accounts, NoStart
<1>4. Files(s)'
  BY <1>1 DEF TypeOK, Cred, Files, Saves, Made, Accounts, NoStart
<1>5. ASSUME NEW e \in Servers \ {s} PROVE Cred(e)' /\ Files(e)'
  <2>1. Same(e)
    BY <1>1 DEF TypeOK, Same
  <2>2. QED
    BY <2>1, Untouched DEF UsersInv
<1>6. QED
  BY <1>2, <1>3, <1>4, <1>5 DEF UsersInv

(* Save keeps the invariant.                                               *)
LEMMA SaveStep == ASSUME UsersInv, NEW s \in Servers, Save(s) PROVE UsersInv'
<1> USE DistinctOK DEF Save, At, Step
<1>1. TypeOK /\ Cred(s) /\ Files(s)
  BY DEF UsersInv
<1>2. TypeOK'
  BY <1>1 DEF TypeOK, Accounts, NoStart
<1>3. Cred(s)'
  BY <1>1 DEF TypeOK, Cred, Accounts, NoStart
<1>4. Files(s)'
  BY <1>1 DEF TypeOK, Cred, Files, Saves, Made, Accounts, NoStart
<1>5. ASSUME NEW e \in Servers \ {s} PROVE Cred(e)' /\ Files(e)'
  <2>1. Same(e)
    BY <1>1 DEF TypeOK, Same
  <2>2. QED
    BY <2>1, Untouched DEF UsersInv
<1>6. QED
  BY <1>2, <1>3, <1>4, <1>5 DEF UsersInv

(* Interrupt keeps the invariant.                                          *)
LEMMA InterruptStep == ASSUME UsersInv, NEW s \in Servers, Interrupt(s) PROVE UsersInv'
<1> USE DistinctOK DEF Interrupt, At, Step
<1>1. TypeOK /\ Cred(s) /\ Files(s)
  BY DEF UsersInv
<1>2. TypeOK'
  BY <1>1 DEF TypeOK, Accounts, NoStart
<1>3. Cred(s)'
  BY <1>1 DEF TypeOK, Cred, Accounts, NoStart
<1>4. Files(s)'
  BY <1>1 DEF TypeOK, Cred, Files, Saves, Made, Accounts, NoStart
<1>5. ASSUME NEW e \in Servers \ {s} PROVE Cred(e)' /\ Files(e)'
  <2>1. Same(e)
    BY <1>1 DEF TypeOK, Same
  <2>2. QED
    BY <2>1, Untouched DEF UsersInv
<1>6. QED
  BY <1>2, <1>3, <1>4, <1>5 DEF UsersInv

(* Build keeps the invariant.                                              *)
LEMMA BuildStep == ASSUME UsersInv, NEW s \in Servers, Build(s) PROVE UsersInv'
<1> USE DistinctOK DEF Build
<1>1. TypeOK /\ Cred(s) /\ Files(s)
  BY DEF UsersInv
<1>2. TypeOK'
  BY <1>1 DEF TypeOK, Accounts, NoStart
<1>3. Cred(s)'
  BY <1>1 DEF TypeOK, Cred, Accounts, NoStart
<1>4. Files(s)'
  BY <1>1 DEF TypeOK, Cred, Files, Saves, Made, Accounts, NoStart
<1>5. ASSUME NEW e \in Servers \ {s} PROVE Cred(e)' /\ Files(e)'
  <2>1. Same(e)
    BY <1>1 DEF TypeOK, Same
  <2>2. QED
    BY <2>1, Untouched DEF UsersInv
<1>6. QED
  BY <1>2, <1>3, <1>4, <1>5 DEF UsersInv

(* EnsureUserExistence keeps the invariant.                                *)
LEMMA EnsureUserExistenceStep == ASSUME UsersInv, NEW s \in Servers, EnsureUserExistence(s) PROVE UsersInv'
<1> USE DistinctOK DEF EnsureUserExistence
<1>1. TypeOK /\ Cred(s) /\ Files(s)
  BY DEF UsersInv
<1>2. TypeOK'
  <2>1. PICK r \in Ensured(s, start[s].cred) :
            /\ acct' = [acct EXCEPT ![s] = r.acct]
            /\ start' = [start EXCEPT ![s] = IF r.ok THEN [@ EXCEPT !.pc = "spawn"]
                                             ELSE [cred |-> Root, pc |-> "disable"]]
    OBVIOUS
  <2>2. start[s].cred \in Accounts
    BY <1>1 DEF Cred
  <2>3. /\ acct' = acct \/ (acct[s] = None /\ acct'[s] \in Accounts /\ acct'[s][1] = start[s].cred[1])
        /\ r.ok \in BOOLEAN /\ (r.ok => acct'[s] = start[s].cred)
        /\ acct' \in [Servers -> Accounts \cup {None}] /\ Separate'
        /\ \A e \in Servers \ {s} : acct'[e] = acct[e]
    BY <1>1, <2>1, <2>2, EnsuredResults
  <2>4. start' \in [Servers -> [pc : {"idle", "ensure", "disable", "spawn"}, cred : Accounts \cup {Root, None}]]
    <3>1. [start[s] EXCEPT !.pc = "spawn"]
             \in [pc : {"idle", "ensure", "disable", "spawn"}, cred : Accounts \cup {Root, None}]
      <4>1. start[s]
             \in [pc : {"idle", "ensure", "disable", "spawn"}, cred : Accounts \cup {Root, None}]
        BY <1>1 DEF TypeOK
      <4>2. QED
        BY ONLY <4>1
    <3>2. CASE r.ok = TRUE
      BY <1>1, <2>1, <3>1, <3>2 DEF TypeOK
    <3>3. CASE r.ok = FALSE
      BY <1>1, <2>1, <3>3 DEF TypeOK
    <3>4. QED
      BY <2>3, <3>2, <3>3
  <2>5. QED
    BY <1>1, <2>3, <2>4 DEF TypeOK, Separate
<1>3. Cred(s)'
  <2>1. PICK r \in Ensured(s, start[s].cred) :
            /\ acct' = [acct EXCEPT ![s] = r.acct]
            /\ start' = [start EXCEPT ![s] = IF r.ok THEN [@ EXCEPT !.pc = "spawn"]
                                             ELSE [cred |-> Root, pc |-> "disable"]]
    OBVIOUS
  <2>2. start[s].cred \in Accounts
    BY <1>1 DEF Cred
  <2>3. /\ acct' = acct \/ (acct[s] = None /\ acct'[s] \in Accounts /\ acct'[s][1] = start[s].cred[1])
        /\ r.ok \in BOOLEAN /\ (r.ok => acct'[s] = start[s].cred)
        /\ acct' \in [Servers -> Accounts \cup {None}] /\ Separate'
        /\ \A e \in Servers \ {s} : acct'[e] = acct[e]
    BY <1>1, <2>1, <2>2, EnsuredResults
  <2>4. start'[s] = [pc |-> "spawn", cred |-> start[s].cred] \/ start'[s] = [cred |-> Root, pc |-> "disable"]
    BY <1>1, <2>1 DEF TypeOK
  <2>5. start'[s].pc = "spawn" => acct'[s] = start[s].cred /\ start'[s].cred = start[s].cred
    BY <1>1, <2>1, <2>3 DEF TypeOK
  <2>6. running[s] = None
    BY <1>1 DEF Cred, NoStart
  <2>7. start'[s].pc = "disable" => start'[s].cred = Root
    BY <2>4
  <2>8. start'[s].pc \in {"spawn", "disable"} /\ running'[s] = None
    BY <2>4, <2>6
  <2>9. QED
    BY <2>2, <2>5, <2>7, <2>8 DEF Cred
<1>4. Files(s)'
  <2>1. PICK r \in Ensured(s, start[s].cred) :
            /\ acct' = [acct EXCEPT ![s] = r.acct]
            /\ start' = [start EXCEPT ![s] = IF r.ok THEN [@ EXCEPT !.pc = "spawn"]
                                             ELSE [cred |-> Root, pc |-> "disable"]]
    OBVIOUS
  <2>2. start[s].cred \in Accounts
    BY <1>1 DEF Cred
  <2>3. /\ acct' = acct \/ (acct[s] = None /\ acct'[s] \in Accounts /\ acct'[s][1] = start[s].cred[1])
        /\ r.ok \in BOOLEAN /\ (r.ok => acct'[s] = start[s].cred)
        /\ acct' \in [Servers -> Accounts \cup {None}] /\ Separate'
        /\ \A e \in Servers \ {s} : acct'[e] = acct[e]
    BY <1>1, <2>1, <2>2, EnsuredResults
  <2>4. start'[s] = [pc |-> "spawn", cred |-> start[s].cred] \/ start'[s] = [cred |-> Root, pc |-> "disable"]
    BY <1>1, <2>1 DEF TypeOK
  <2>5. start'[s].pc = "spawn" => acct'[s] = start[s].cred /\ start'[s].cred = start[s].cred
    BY <1>1, <2>1, <2>3 DEF TypeOK
  <2>6. running[s] = None
    BY <1>1 DEF Cred, NoStart
  <2>7. ~unowned[s] => (acct[s] \in {None, start[s].cred} => owner[s] = start[s].cred[1])
    BY <1>1, <2>2 DEF Files, Made
  <2>8. None \notin Accounts /\ acct[s] \in Accounts \cup {None}
    BY <1>1 DEF TypeOK, Accounts
  <2>9. QED
    BY <1>1, <2>2, <2>3, <2>4, <2>5, <2>6, <2>7, <2>8 DEF Files, Saves, Made
<1>5. ASSUME NEW e \in Servers \ {s} PROVE Cred(e)' /\ Files(e)'
  <2>1. Same(e)
    BY <1>1 DEF TypeOK, Same
  <2>2. QED
    BY <2>1, Untouched DEF UsersInv
<1>6. QED
  BY <1>2, <1>3, <1>4, <1>5 DEF UsersInv

(* DisableUser keeps the invariant.                                        *)
LEMMA DisableUserStep == ASSUME UsersInv, NEW s \in Servers, DisableUser(s) PROVE UsersInv'
<1> USE DistinctOK DEF DisableUser
<1>1. TypeOK /\ Cred(s) /\ Files(s)
  BY DEF UsersInv
<1>2. TypeOK'
  <2>1. start[s] = [pc |-> "disable", cred |-> Root] /\ running[s] = None
    BY <1>1 DEF TypeOK, Cred, NoStart
  <2>2. start' = [start EXCEPT ![s] = [pc |-> "spawn", cred |-> Root]]
    <3>1. [start[s] EXCEPT !.pc = "spawn"] = [pc |-> "spawn", cred |-> Root]
      BY <2>1
    <3>2. start' = [start EXCEPT ![s] = [start[s] EXCEPT !.pc = "spawn"]]
      OBVIOUS
    <3>3. QED
      BY <3>1, <3>2
  <2>3. cfg' \in [Servers -> Accounts \cup {Disabled, None}] /\ cfg'[s] \in {cfg[s], Disabled}
    BY <1>1 DEF TypeOK
  <2>4. start' \in [Servers -> [pc : {"idle", "ensure", "disable", "spawn"}, cred : Accounts \cup {Root, None}]]
    <3>1. [pc |-> "spawn", cred |-> Root]
             \in [pc : {"idle", "ensure", "disable", "spawn"}, cred : Accounts \cup {Root, None}]
      OBVIOUS
    <3>2. QED
      BY <1>1, <2>2, <3>1 DEF TypeOK
  <2>5. QED
    BY <1>1, <2>3, <2>4 DEF TypeOK
<1>3. Cred(s)'
  <2>1. start[s] = [pc |-> "disable", cred |-> Root] /\ running[s] = None
    BY <1>1 DEF TypeOK, Cred, NoStart
  <2>2. start' = [start EXCEPT ![s] = [pc |-> "spawn", cred |-> Root]]
    <3>1. [start[s] EXCEPT !.pc = "spawn"] = [pc |-> "spawn", cred |-> Root]
      BY <2>1
    <3>2. start' = [start EXCEPT ![s] = [start[s] EXCEPT !.pc = "spawn"]]
      OBVIOUS
    <3>3. QED
      BY <3>1, <3>2
  <2>3. cfg' \in [Servers -> Accounts \cup {Disabled, None}] /\ cfg'[s] \in {cfg[s], Disabled}
    BY <1>1 DEF TypeOK
  <2>4. start'[s] = [pc |-> "spawn", cred |-> Root] /\ running'[s] = None
    BY <1>1, <2>1, <2>2 DEF TypeOK
  <2>5. QED
    BY <2>4 DEF Cred
<1>4. Files(s)'
  <2>1. start[s] = [pc |-> "disable", cred |-> Root] /\ running[s] = None
    BY <1>1 DEF TypeOK, Cred, NoStart
  <2>2. start' = [start EXCEPT ![s] = [pc |-> "spawn", cred |-> Root]]
    <3>1. [start[s] EXCEPT !.pc = "spawn"] = [pc |-> "spawn", cred |-> Root]
      BY <2>1
    <3>2. start' = [start EXCEPT ![s] = [start[s] EXCEPT !.pc = "spawn"]]
      OBVIOUS
    <3>3. QED
      BY <3>1, <3>2
  <2>3. cfg' \in [Servers -> Accounts \cup {Disabled, None}] /\ cfg'[s] \in {cfg[s], Disabled}
    BY <1>1 DEF TypeOK
  <2>4. start'[s] = [pc |-> "spawn", cred |-> Root] /\ running'[s] = None /\ Disabled \notin Accounts
    BY <1>1, <2>1, <2>2 DEF TypeOK, Accounts
  <2>5. QED
    BY <1>1, <2>3, <2>4 DEF Files, Saves, Made
<1>5. ASSUME NEW e \in Servers \ {s} PROVE Cred(e)' /\ Files(e)'
  <2>1. Same(e)
    BY <1>1 DEF TypeOK, Same
  <2>2. QED
    BY <2>1, Untouched DEF UsersInv
<1>6. QED
  BY <1>2, <1>3, <1>4, <1>5 DEF UsersInv

(* Spawn keeps the invariant.                                              *)
LEMMA SpawnStep == ASSUME UsersInv, NEW s \in Servers, Spawn(s) PROVE UsersInv'
<1> USE DistinctOK DEF Spawn
<1>1. TypeOK /\ Cred(s) /\ Files(s)
  BY DEF UsersInv
<1>2. TypeOK'
  BY <1>1 DEF TypeOK, Accounts, NoStart
<1>3. Cred(s)'
  BY <1>1 DEF TypeOK, Cred, Accounts, NoStart
<1>4. Files(s)'
  BY <1>1 DEF TypeOK, Cred, Files, Saves, Made, Accounts, NoStart
<1>5. ASSUME NEW e \in Servers \ {s} PROVE Cred(e)' /\ Files(e)'
  <2>1. Same(e)
    BY <1>1 DEF TypeOK, Same
  <2>2. QED
    BY <2>1, Untouched DEF UsersInv
<1>6. QED
  BY <1>2, <1>3, <1>4, <1>5 DEF UsersInv

(* ServerExits keeps the invariant.                                        *)
LEMMA ServerExitsStep == ASSUME UsersInv, NEW s \in Servers, ServerExits(s) PROVE UsersInv'
<1> USE DistinctOK DEF ServerExits
<1>1. TypeOK /\ Cred(s) /\ Files(s)
  BY DEF UsersInv
<1>2. TypeOK'
  BY <1>1 DEF TypeOK, Accounts, NoStart
<1>3. Cred(s)'
  BY <1>1 DEF TypeOK, Cred, Accounts, NoStart
<1>4. Files(s)'
  BY <1>1 DEF TypeOK, Cred, Files, Saves, Made, Accounts, NoStart
<1>5. ASSUME NEW e \in Servers \ {s} PROVE Cred(e)' /\ Files(e)'
  <2>1. Same(e)
    BY <1>1 DEF TypeOK, Same
  <2>2. QED
    BY <2>1, Untouched DEF UsersInv
<1>6. QED
  BY <1>2, <1>3, <1>4, <1>5 DEF UsersInv

(* BootCheck keeps the invariant.                                          *)
LEMMA BootCheckStep == ASSUME UsersInv, NEW s \in Servers, BootCheck(s) PROVE UsersInv'
<1> USE DistinctOK DEF BootCheck
<1>1. TypeOK /\ Cred(s) /\ Files(s)
  BY DEF UsersInv
<1>2. TypeOK'
  <2>1. CASE bootCopy[s] = Disabled
    BY <1>1, <2>1 DEF TypeOK
  <2>2. CASE bootCopy[s] # Disabled
    <3>1. bootCopy[s] \in Accounts
      BY <1>1, <2>2 DEF TypeOK
    <3>2. PICK r \in Ensured(s, bootCopy[s]) :
              /\ acct' = [acct EXCEPT ![s] = r.acct]
              /\ cfg' \in IF r.ok THEN {cfg} ELSE {[cfg EXCEPT ![s] = Disabled], cfg}
      BY <2>2
    <3>3. /\ acct' = acct \/ (acct[s] = None /\ acct'[s] \in Accounts /\ acct'[s][1] = bootCopy[s][1])
          /\ acct' \in [Servers -> Accounts \cup {None}] /\ Separate'
          /\ \A e \in Servers \ {s} : acct'[e] = acct[e]
      BY <1>1, <3>1, <3>2, EnsuredResults
    <3>4. cfg' = cfg \/ cfg' = [cfg EXCEPT ![s] = Disabled]
      BY <3>2
    <3>5. QED
      BY <1>1, <3>3, <3>4 DEF TypeOK, Separate
  <2>3. QED
    BY <2>1, <2>2
<1>3. Cred(s)'
  <2>1. CASE bootCopy[s] = Disabled
    BY <1>1, <2>1 DEF TypeOK, Cred, NoStart
  <2>2. CASE bootCopy[s] # Disabled
    <3>1. bootCopy[s] \in Accounts
      BY <1>1, <2>2 DEF TypeOK
    <3>2. PICK r \in Ensured(s, bootCopy[s]) :
              /\ acct' = [acct EXCEPT ![s] = r.acct]
              /\ cfg' \in IF r.ok THEN {cfg} ELSE {[cfg EXCEPT ![s] = Disabled], cfg}
      BY <2>2
    <3>3. /\ acct' = acct \/ (acct[s] = None /\ acct'[s] \in Accounts /\ acct'[s][1] = bootCopy[s][1])
          /\ acct' \in [Servers -> Accounts \cup {None}] /\ Separate'
          /\ \A e \in Servers \ {s} : acct'[e] = acct[e]
      BY <1>1, <3>1, <3>2, EnsuredResults
    <3>4. cfg' = cfg \/ cfg' = [cfg EXCEPT ![s] = Disabled]
      BY <3>2
    <3>5. None \notin Accounts
      BY DEF Accounts
    <3>6. QED
      BY <1>1, <3>3, <3>5 DEF Cred, TypeOK, NoStart
  <2>3. QED
    BY <2>1, <2>2
<1>4. Files(s)'
  <2>1. CASE bootCopy[s] = Disabled
    BY <1>1, <2>1 DEF TypeOK, Files, Saves, Made, Accounts, NoStart
  <2>2. CASE bootCopy[s] # Disabled
    <3>1. bootCopy[s] \in Accounts
      BY <1>1, <2>2 DEF TypeOK
    <3>2. PICK r \in Ensured(s, bootCopy[s]) :
              /\ acct' = [acct EXCEPT ![s] = r.acct]
              /\ cfg' \in IF r.ok THEN {cfg} ELSE {[cfg EXCEPT ![s] = Disabled], cfg}
      BY <2>2
    <3>3. /\ acct' = acct \/ (acct[s] = None /\ acct'[s] \in Accounts /\ acct'[s][1] = bootCopy[s][1])
          /\ acct' \in [Servers -> Accounts \cup {None}] /\ Separate'
          /\ \A e \in Servers \ {s} : acct'[e] = acct[e]
      BY <1>1, <3>1, <3>2, EnsuredResults
    <3>4. cfg' = cfg \/ cfg' = [cfg EXCEPT ![s] = Disabled]
      BY <3>2
    <3>5. None \notin Accounts /\ Disabled \notin Accounts /\ bootCopy'[s] = None
      BY <1>1 DEF Accounts, TypeOK
    <3>6. cfg'[s] \in {cfg[s], Disabled}
      BY <1>1, <3>4 DEF TypeOK
    <3>7. (start[s].pc = "spawn" /\ start[s].cred # Root /\ ~raced[s] => acct[s] = start[s].cred)
          /\ (start[s].pc = "ensure" => start[s].cred \in Accounts)
      BY <1>1 DEF Cred
    <3>8. QED
      BY <1>1, <3>1, <3>3, <3>5, <3>6, <3>7 DEF Files, Saves, Made
  <2>3. QED
    BY <2>1, <2>2
<1>5. ASSUME NEW e \in Servers \ {s} PROVE Cred(e)' /\ Files(e)'
  <2>1. Same(e)
    BY <1>1 DEF TypeOK, Same
  <2>2. QED
    BY <2>1, Untouched DEF UsersInv
<1>6. QED
  BY <1>2, <1>3, <1>4, <1>5 DEF UsersInv

(* OtherAccount keeps the invariant.                                       *)
LEMMA OtherAccountStep == ASSUME UsersInv, OtherAccount PROVE UsersInv'
<1>1. TypeOK'
  <2>1. foreign' \in [uid : SUBSET Ids, gid : SUBSET Ids]
    BY DEF OtherAccount, UsersInv, TypeOK, FreeUids, FreeGids
  <2>2. QED
    BY <2>1 DEF OtherAccount, UsersInv, TypeOK
<1>2. ASSUME NEW e \in Servers PROVE Cred(e)' /\ Files(e)'
  BY Untouched DEF OtherAccount, Same, UsersInv
<1>3. QED
  BY <1>1, <1>2 DEF UsersInv

(* MakeList keeps the invariant: it copies the configurations.             *)
LEMMA MakeListStep == ASSUME UsersInv, MakeList PROVE UsersInv'
<1>1. TypeOK'
  BY DEF MakeList, UsersInv, TypeOK
<1>2. ASSUME NEW e \in Servers PROVE Cred(e)' /\ Files(e)'
  <2>1. Cred(e) /\ Files(e) /\ TypeOK
    BY DEF UsersInv
  <2>2. ~unowned[e] /\ cfg[e] \in Accounts /\ acct[e] = None => owner[e] = cfg[e][1]
    BY <2>1, DistinctOK DEF TypeOK, Files, Saves, Accounts
  <2>3. QED
    BY <2>1, <2>2 DEF MakeList, Cred, Files, Saves, Made
<1>3. QED
  BY <1>1, <1>2 DEF UsersInv

(* One lemma per action gives every step.                                  *)
LEMMA EveryStep == ASSUME UsersInv, [Next]_vars PROVE UsersInv'
<1>1. CASE Next
  BY <1>1, OtherAccountStep, MakeListStep, AccountLostStep, CreateStep, ReloadUserStep,
     SetUserSpecificFalseStep, ResumeFromRootConfigStep, RemoveUserStep, CreateUserStep,
     SetServerPermissionsStep, SaveStep, InterruptStep, BuildStep,
     EnsureUserExistenceStep, DisableUserStep, SpawnStep, ServerExitsStep, BootCheckStep
     DEF Next
<1>2. CASE UNCHANGED vars
  <2>1. TypeOK'
    BY <1>2 DEF vars, UsersInv, TypeOK
  <2>2. ASSUME NEW e \in Servers PROVE Cred(e)' /\ Files(e)'
    BY <1>2, Untouched DEF vars, Same, UsersInv
  <2>3. QED
    BY <2>1, <2>2 DEF UsersInv
<1>3. QED
  BY <1>1, <1>2

(* The inductive invariant.                                                *)
THEOREM Invariance == Spec => []UsersInv
BY InitInv, EveryStep, PTL DEF Spec

(* Accounts have ids of their own, and every copy of them is an account.   *)
THEOREM TypeCorrect == Spec => []TypeOK
BY Invariance, PTL DEF UsersInv

(* A server runs as root or as its own account, whatever happens to the    *)
(* accounts, unless one goes between the check and the spawn               *)
(* (launcher.go:59).                                                       *)
THEOREM OwnAccount == Spec => []RunsAsOwnUser
<1>1. UsersInv => RunsAsOwnUser
  BY DEF UsersInv, Cred, RunsAsOwnUser
<1>2. QED
  BY <1>1, Invariance, PTL

(* A server that runs as its account owns its files (users.go:154), but    *)
(* for the exceptions that unowned and raced record.                       *)
THEOREM OwnFiles == Spec => []OwnsItsFiles
<1>1. UsersInv => OwnsItsFiles
  BY DEF UsersInv, Files, OwnsItsFiles
<1>2. QED
  BY <1>1, Invariance, PTL
=============================================================================
