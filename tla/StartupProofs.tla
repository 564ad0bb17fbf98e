--------------------------- MODULE StartupProofs ----------------------------
(***************************************************************************)
(* Type correctness of Startup, AloneListens and GraceAgrees, for any      *)
(* number of daemons and launches.  The invariant speaks of a daemon that  *)
(* lives and was never contested: it is the only one, so that nobody else  *)
(* touches the paths and the grace period.                                 *)
(***************************************************************************)
EXTENDS Startup, TLAPS

Lonely(d) == Alive(d) /\ ~contested[d]

(* A living daemon has its two listeners; where it is told what to assign. *)
StepInv ==
    \A d \in Daemons :
        /\ Alive(d) => \A s \in Sockets : lst[d][s] # "none"
        /\ main[d] = "assign" => copy[d] \in Values /\ disk \in Values
        /\ main[d] = "up" => disk \in Values

AloneInv ==
    /\ \A d \in Daemons : Lonely(d) =>
          /\ \A e \in Daemons \ {d} : ~Alive(e)
          /\ \A s \in Sockets : /\ lst[d][s] = "bind" => path[s] = None
                                /\ lst[d][s] = "accept" => path[s] = d
    /\ \A d \in Daemons : contested[d] \/ ~panicked[d]

GraceInv ==
    \A d \in Daemons : Lonely(d) /\ ~raced[d] =>
        /\ main[d] = "assign" => copy[d] = disk
        /\ main[d] = "up" => grace[d] = disk

StartupInv == TypeOK /\ StepInv /\ AloneInv /\ GraceInv

USE DEF Alive, Sockets, NoListener

-----------------------------------------------------------------------------
(* Initially no daemon lives.                                              *)
LEMMA InitInv == Init => StartupInv
BY NoneOK DEF Init, StartupInv, TypeOK, StepInv, AloneInv, GraceInv, Lonely

(* Launch keeps the invariant.                                             *)
LEMMA LaunchStep == ASSUME StartupInv, NEW d \in Daemons, Launch(d) PROVE StartupInv'
<1> USE NoneOK DEF Launch, Config, History
<1>1. TypeOK'
  <2>1. TypeOK /\ main' = [main EXCEPT ![d] = "dial"] /\ main[d] = "off"
    BY DEF StartupInv
  <2>2. lst' = [lst EXCEPT ![d] = [s \in Sockets |-> "remove"]]
    OBVIOUS
  <2>3. /\ launches' \in Nat
        /\ contested' \in [Daemons -> BOOLEAN]
        /\ panicked' \in [Daemons -> BOOLEAN]
        /\ raced' \in [Daemons -> BOOLEAN]
    <3>1. launches' \in Nat
      BY <2>1 DEF TypeOK
    <3>2. contested' \in [Daemons -> BOOLEAN]
      <4>1. \A e \in Daemons : (IF e = d THEN \E f \in Daemons \ {d} : Alive(f)
                                ELSE contested[e] \/ Alive(e)) \in BOOLEAN
        OBVIOUS
      <4>2. QED
        BY <4>1
    <3>3. panicked' \in [Daemons -> BOOLEAN]
      BY <2>1 DEF TypeOK
    <3>4. raced' \in [Daemons -> BOOLEAN]
      BY <2>1 DEF TypeOK
    <3>5. QED
      BY <3>1, <3>2, <3>3, <3>4
  <2>4. /\ copy' \in [Daemons -> Values \cup {None}] /\ grace' \in [Daemons -> Values \cup {None}]
        /\ main' \in [Daemons -> {"off", "dial", "wait", "boot", "assign", "up", "refused"}]
        /\ lst' \in [Daemons -> [Sockets -> {"none", "remove", "bind", "accept"}]]
    BY <2>1, <2>2 DEF TypeOK
  <2>5. ASSUME NEW e \in Daemons
        PROVE  /\ ~Alive(e)' <=> lst'[e] = NoListener
               /\ peer'[e] # None <=> main'[e] \in {"wait", "refused"}
               /\ main'[e] = "up" => grace'[e] \in Values
    <3>1. CASE e = d
      BY <2>1, <2>2, <3>1 DEF TypeOK
    <3>2. CASE e # d
      BY <2>1, <2>2, <3>2 DEF TypeOK
    <3>3. QED
      BY <3>1, <3>2
  <2>6. QED
    BY <2>1, <2>3, <2>4, <2>5 DEF TypeOK
<1>2. StepInv'
  BY DEF StartupInv, TypeOK, StepInv
<1>3. AloneInv'
  <2>1. ASSUME NEW e \in Daemons, Lonely(e)'
        PROVE  /\ \A f \in Daemons \ {e} : ~Alive(f)'
               /\ \A s \in Sockets : lst'[e][s] \notin {"bind", "accept"}
    <3>1. e = d
      <4>1. SUFFICES ASSUME e # d PROVE FALSE
        OBVIOUS
      <4>2. contested'[e] = (contested[e] \/ Alive(e)) /\ main'[e] = main[e]
        BY <4>1 DEF StartupInv, TypeOK
      <4>3. QED
        BY <2>1, <4>2 DEF Lonely
    <3>2. contested'[d] = \E f \in Daemons \ {d} : Alive(f)
      OBVIOUS
    <3>3. QED
      BY <2>1, <3>1, <3>2 DEF StartupInv, TypeOK, Lonely
  <2>2. ASSUME NEW e \in Daemons PROVE contested'[e] \/ ~panicked'[e]
    BY DEF StartupInv, TypeOK, AloneInv
  <2>3. QED
    BY <2>1, <2>2 DEF AloneInv
<1>4. GraceInv'
  BY DEF StartupInv, TypeOK, StepInv, AloneInv, GraceInv, Lonely
<1>5. QED
  BY <1>1, <1>2, <1>3, <1>4 DEF StartupInv

(* Crash keeps the invariant.                                              *)
LEMMA CrashStep == ASSUME StartupInv, NEW d \in Daemons, Crash(d) PROVE StartupInv'
<1> USE NoneOK DEF Crash, Dies, Config, History
<1>1. TypeOK'
  BY DEF StartupInv, TypeOK, StepInv
<1>2. StepInv'
  BY DEF StartupInv, TypeOK, StepInv
<1>3. AloneInv'
  BY DEF StartupInv, TypeOK, StepInv, AloneInv, Lonely
<1>4. GraceInv'
  BY DEF StartupInv, TypeOK, StepInv, AloneInv, GraceInv, Lonely
<1>5. QED
  BY <1>1, <1>2, <1>3, <1>4 DEF StartupInv

(* RemoveSocket keeps the invariant.                                       *)
LEMMA RemoveSocketStep == ASSUME StartupInv, NEW d \in Daemons, NEW s \in Sockets, RemoveSocket(d, s) PROVE StartupInv'
<1> USE NoneOK DEF RemoveSocket, Listens, Config, History
<1>1. TypeOK'
  <2>1. TypeOK /\ StepInv /\ main[d] # "off"
    BY DEF StartupInv, TypeOK
  <2>2. lst' \in [Daemons -> [Sockets -> {"none", "remove", "bind", "accept"}]]
    BY <2>1 DEF TypeOK
  <2>3. \A e \in Daemons : lst'[e] = NoListener <=> lst[e] = NoListener
    BY <2>1 DEF TypeOK
  <2>4. QED
    BY <2>1, <2>2, <2>3 DEF TypeOK
<1>2. StepInv'
  BY DEF StartupInv, TypeOK, StepInv
<1>3. AloneInv'
  BY DEF StartupInv, TypeOK, StepInv, AloneInv, Lonely
<1>4. GraceInv'
  BY DEF StartupInv, TypeOK, StepInv, AloneInv, GraceInv, Lonely
<1>5. QED
  BY <1>1, <1>2, <1>3, <1>4 DEF StartupInv

(* Bind keeps the invariant.                                               *)
LEMMA BindStep == ASSUME StartupInv, NEW d \in Daemons, NEW s \in Sockets, Bind(d, s) PROVE StartupInv'
<1> USE NoneOK DEF Bind, Listens, Dies, Config, History
<1>1. TypeOK'
  <2>1. TypeOK /\ StepInv /\ main[d] # "off" /\ lst[d][s] = "bind"
    BY DEF StartupInv, TypeOK
  <2>2. CASE /\ path' = [path EXCEPT ![s] = d] /\ Listens(d, s, "accept")
             /\ UNCHANGED <<main, peer>> /\ UNCHANGED Config /\ UNCHANGED History
    <3>1. lst' \in [Daemons -> [Sockets -> {"none", "remove", "bind", "accept"}]]
      BY <2>1, <2>2 DEF TypeOK
    <3>2. \A e \in Daemons : lst'[e] = NoListener <=> lst[e] = NoListener
      BY <2>1, <2>2 DEF TypeOK
    <3>3. QED
      BY <2>1, <2>2, <3>1, <3>2 DEF TypeOK
  <2>3. CASE Dies(d) /\ panicked' = [panicked EXCEPT ![d] = TRUE]
    BY <2>1, <2>3 DEF TypeOK
  <2>4. QED
    BY <2>2, <2>3
<1>2. StepInv'
  BY DEF StartupInv, TypeOK, StepInv
<1>3. AloneInv'
  BY DEF StartupInv, TypeOK, StepInv, AloneInv, Lonely
<1>4. GraceInv'
  BY DEF StartupInv, TypeOK, StepInv, AloneInv, GraceInv, Lonely
<1>5. QED
  BY <1>1, <1>2, <1>3, <1>4 DEF StartupInv

(* Dial keeps the invariant.                                               *)
LEMMA DialStep == ASSUME StartupInv, NEW d \in Daemons, Dial(d) PROVE StartupInv'
<1> USE NoneOK DEF Dial, Config, History
<1>1. TypeOK'
  <2>1. TypeOK
    BY DEF StartupInv
  <2>2. PICK e \in Daemons \cup {None} : e = path["manager"]
    BY <2>1 DEF TypeOK
  <2>3. CASE e # None /\ main' = [main EXCEPT ![d] = "wait"] /\ peer' = [peer EXCEPT ![d] = e]
    BY <2>1, <2>3 DEF TypeOK
  <2>4. CASE main' = [main EXCEPT ![d] = "boot"] /\ UNCHANGED peer
    BY <2>1, <2>4 DEF TypeOK
  <2>5. QED
    BY <2>2, <2>3, <2>4
<1>2. StepInv'
  BY DEF StartupInv, TypeOK, StepInv
<1>3. AloneInv'
  BY DEF StartupInv, TypeOK, StepInv, AloneInv, Lonely
<1>4. GraceInv'
  BY DEF StartupInv, TypeOK, StepInv, AloneInv, GraceInv, Lonely
<1>5. QED
  BY <1>1, <1>2, <1>3, <1>4 DEF StartupInv

(* Pong keeps the invariant.                                               *)
LEMMA PongStep == ASSUME StartupInv, NEW d \in Daemons, Pong(d) PROVE StartupInv'
<1> USE NoneOK DEF Pong, Answering, Config, History
<1>1. TypeOK'
  BY DEF StartupInv, TypeOK, StepInv
<1>2. StepInv'
  BY DEF StartupInv, TypeOK, StepInv
<1>3. AloneInv'
  BY DEF StartupInv, TypeOK, StepInv, AloneInv, Lonely
<1>4. GraceInv'
  BY DEF StartupInv, TypeOK, StepInv, AloneInv, GraceInv, Lonely
<1>5. QED
  BY <1>1, <1>2, <1>3, <1>4 DEF StartupInv

(* PingFails keeps the invariant.                                          *)
LEMMA PingFailsStep == ASSUME StartupInv, NEW d \in Daemons, PingFails(d) PROVE StartupInv'
<1> USE NoneOK DEF PingFails, Config, History
<1>1. TypeOK'
  BY DEF StartupInv, TypeOK, StepInv
<1>2. StepInv'
  BY DEF StartupInv, TypeOK, StepInv
<1>3. AloneInv'
  BY DEF StartupInv, TypeOK, StepInv, AloneInv, Lonely
<1>4. GraceInv'
  BY DEF StartupInv, TypeOK, StepInv, AloneInv, GraceInv, Lonely
<1>5. QED
  BY <1>1, <1>2, <1>3, <1>4 DEF StartupInv

(* Refuse keeps the invariant.                                             *)
LEMMA RefuseStep == ASSUME StartupInv, NEW d \in Daemons, Refuse(d) PROVE StartupInv'
<1> USE NoneOK DEF Refuse, Dies, Config, History
<1>1. TypeOK'
  BY DEF StartupInv, TypeOK, StepInv
<1>2. StepInv'
  BY DEF StartupInv, TypeOK, StepInv
<1>3. AloneInv'
  BY DEF StartupInv, TypeOK, StepInv, AloneInv, Lonely
<1>4. GraceInv'
  BY DEF StartupInv, TypeOK, StepInv, AloneInv, GraceInv, Lonely
<1>5. QED
  BY <1>1, <1>2, <1>3, <1>4 DEF StartupInv

(* LoadMainConfig keeps the invariant.                                     *)
LEMMA LoadMainConfigStep == ASSUME StartupInv, NEW d \in Daemons, LoadMainConfig(d) PROVE StartupInv'
<1> USE NoneOK DEF LoadMainConfig, Config, History
<1>1. TypeOK'
  BY DEF StartupInv, TypeOK, StepInv
<1>2. StepInv'
  BY DEF StartupInv, TypeOK, StepInv
<1>3. AloneInv'
  BY DEF StartupInv, TypeOK, StepInv, AloneInv, Lonely
<1>4. GraceInv'
  BY DEF StartupInv, TypeOK, StepInv, AloneInv, GraceInv, Lonely
<1>5. QED
  BY <1>1, <1>2, <1>3, <1>4 DEF StartupInv

(* HandleMainConfig keeps the invariant.                                   *)
LEMMA HandleMainConfigStep == ASSUME StartupInv, NEW d \in Daemons, HandleMainConfig(d) PROVE StartupInv'
<1> USE NoneOK DEF HandleMainConfig, Config, History
<1>1. TypeOK'
  BY DEF StartupInv, TypeOK, StepInv
<1>2. StepInv'
  BY DEF StartupInv, TypeOK, StepInv
<1>3. AloneInv'
  BY DEF StartupInv, TypeOK, StepInv, AloneInv, Lonely
<1>4. GraceInv'
  BY DEF StartupInv, TypeOK, StepInv, AloneInv, GraceInv, Lonely
<1>5. QED
  BY <1>1, <1>2, <1>3, <1>4 DEF StartupInv

(* SetGracePeriod keeps the invariant.                                     *)
LEMMA SetGracePeriodStep == ASSUME StartupInv, NEW d \in Daemons, NEW v \in Values, setGracePeriodCfg(d, v)
      PROVE StartupInv'
<1> USE NoneOK DEF setGracePeriodCfg, Config, History
<1>1. TypeOK'
  BY DEF StartupInv, TypeOK, StepInv
<1>2. StepInv'
  BY DEF StartupInv, TypeOK, StepInv
<1>3. AloneInv'
  BY DEF StartupInv, TypeOK, StepInv, AloneInv, Lonely
<1>4. GraceInv'
  <2>1. SUFFICES ASSUME NEW e \in Daemons, Lonely(e)', ~raced'[e]
                 PROVE  /\ main'[e] = "assign" => copy'[e] = disk'
                        /\ main'[e] = "up" => grace'[e] = disk'
    BY DEF GraceInv
  <2>2. Lonely(e) /\ e = d
    BY <2>1 DEF StartupInv, AloneInv, Lonely
  <2>3. main[e] = "up" /\ disk' = v
    BY <2>1, <2>2 DEF StartupInv, TypeOK
  <2>4. QED
    BY <2>2, <2>3 DEF StartupInv, TypeOK
<1>5. QED
  BY <1>1, <1>2, <1>3, <1>4 DEF StartupInv

(* One lemma per action gives every step.                                  *)
LEMMA EveryStep == ASSUME StartupInv, [Next]_vars PROVE StartupInv'
<1>1. CASE Next
  BY <1>1, LaunchStep, CrashStep, RemoveSocketStep, BindStep, DialStep, PongStep, PingFailsStep, RefuseStep,
     LoadMainConfigStep, HandleMainConfigStep, SetGracePeriodStep DEF Next, Run
<1>2. CASE UNCHANGED vars
  BY <1>2 DEF vars, StartupInv, TypeOK, StepInv, AloneInv, GraceInv, Lonely
<1>3. QED
  BY <1>1, <1>2

(* The inductive invariant.                                                *)
THEOREM Invariance == Spec => []StartupInv
BY InitInv, EveryStep, PTL DEF Spec

(* The daemons' steps, listeners and copies of the configuration.          *)
THEOREM TypeCorrect == Spec => []TypeOK
BY Invariance, PTL DEF StartupInv

(* A daemon that is the only one binds both sockets, over any files left   *)
(* behind (socket.go:15, 39).                                              *)
THEOREM SocketsAreOwn == Spec => []AloneListens
<1>1. ASSUME StartupInv, NEW d \in Daemons, ~contested[d]
      PROVE  ~panicked[d] /\ \A s \in Sockets : lst[d][s] = "accept" => path[s] = d
  <2>1. ~panicked[d]
    BY <1>1 DEF StartupInv, AloneInv
  <2>2. CASE Alive(d)
    BY <1>1, <2>1, <2>2 DEF StartupInv, AloneInv, Lonely
  <2>3. CASE ~Alive(d)
    <3>1. lst[d] = NoListener
      BY <1>1, <2>3 DEF StartupInv, TypeOK
    <3>2. QED
      BY <2>1, <3>1
  <2>4. QED
    BY <2>2, <2>3
<1>2. StartupInv => AloneListens
  BY <1>1 DEF AloneListens
<1>3. QED
  BY <1>2, Invariance, PTL

(* The grace period in use is the saved one (manager.go:325).              *)
THEOREM GracePeriodIsSaved == Spec => []GraceAgrees
<1>1. StartupInv => GraceAgrees
  BY DEF StartupInv, GraceInv, GraceAgrees, Lonely
<1>2. QED
  BY <1>1, Invariance, PTL
=============================================================================
