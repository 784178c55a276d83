---------------------------- MODULE RegistryProofs ----------------------------
(***************************************************************************)
(* Theorems about what the agent of Server keeps: the tranches it created, *)
(* the nodes it registered and the containers behind them.  Each rests on  *)
(* the invariant of ServerProofs and adds one of its own.                  *)
(***************************************************************************)
EXTENDS ServerProofs

-----------------------------------------------------------------------------
(* The shape of the steps. *)

Begins(h) == Arrive(h) \/ RefuseNoName(h) \/ Lock(h)

\* Where a call is just after it got the lock.
Entries == {"depositList", "accounts", "beacons", "nodeList", "nodeStatus"}

\* A call that arrives, is refused or gets the lock touches itself only.
LEMMA BeginShape ==
    ASSUME CallsOK, NEW h \in Handlers, Begins(h)
    PROVE  /\ pc[h] \in Outside
           /\ pc'[h] \in Outside \cup Entries
           /\ pc'[h] = "accounts" => req'[h].kind = "DepositCreate"
           /\ pc'[h] \in Outside => job' = job
           /\ job'[h] = [job[h] EXCEPT !.left = job'[h].left]
           /\ \A g \in Handlers \ {h} : pc'[g] = pc[g] /\ job'[g] = job[g] /\ req'[g] = req[g]
           /\ UNCHANGED <<engine, ledger, nodes, shutdown>>
  <1>1. CASE Arrive(h)
    BY <1>1, RequestTyped DEF Arrive, CallsOK, Outside, JobType
  <1>2. CASE RefuseNoName(h)
    BY <1>2, RequestTyped DEF RefuseNoName, CallsOK, At, Outside, JobType
  <1>3. CASE Lock(h)
    <2>1. FirstStep(req[h].kind) \in Entries
      BY DEF FirstStep, Entries
    <2>2. FirstStep(req[h].kind) = "accounts" => req[h].kind = "DepositCreate"
      BY DEF FirstStep
    <2>3. pc[h] = "waiting" /\ pc'[h] = FirstStep(req[h].kind)
      BY <1>3 DEF Lock, At, CallsOK
    <2>4. job'[h] = [job[h] EXCEPT !.left = req[h].beacons]
      BY <1>3, RequestTyped DEF Lock, CallsOK
    <2>5. job'[h].left = req[h].beacons
      BY <2>4, RequestTyped DEF JobType
    <2>6. req' = req /\ \A g \in Handlers \ {h} : pc'[g] = pc[g] /\ job'[g] = job[g]
      BY <1>3 DEF Lock, CallsOK
    <2>7. UNCHANGED <<engine, ledger, nodes, shutdown>>
      BY <1>3 DEF Lock
    <2> QED
      BY <2>1, <2>2, <2>3, <2>4, <2>5, <2>6, <2>7 DEF Outside, Entries
  <1> QED
    BY <1>1, <1>2, <1>3 DEF Begins

\* While one call takes a step under the lock no other is at work.
LEMMA OthersOutside ==
    ASSUME CallsOK, LockInv, NEW h \in Handlers, Step(h)
    PROVE  \A g \in Handlers \ {h} : pc[g] \in Outside /\ pc'[g] = pc[g] /\ job'[g] = job[g]
  BY StepShape, Exclusion

\* A step under the lock leaves the requests alone.
LEMMA StepKeepsRequests ==
    ASSUME NEW h \in Handlers, Step(h)
    PROVE  UNCHANGED <<req, snapshot, next, unstopped>>
  BY DEF Step, DepositList, NodeList, NodeStatus, MakeDeposits, WriteTranche, InsertTranche,
     DeployBeacon, NameBeacon, BeaconsDone, PickTarget, Target, SelectTranche, NameValidator,
     CreateContainer, StartContainer, InspectContainer, Register, Consume, Goto, Return, Fail,
     shutdown

\* The steps of the process and of its containers.
Environment == Signal \/ Stop \/ SecondSignal \/ NodeExit \/ Terminated \/ UNCHANGED vars

LEMMA EnvironmentShape ==
    ASSUME Environment
    PROVE  UNCHANGED <<containers, lock, pc, req, job, reply, ledger, nodes>>
  BY DEF Environment, Signal, Stop, StopNode, Exit, SecondSignal, NodeExit, ContainerExit,
     ContainerStop, Terminated, engine, ledger, vars

LEMMA NextShape ==
    ASSUME [Next]_vars
    PROVE  (\E h \in Handlers : Begins(h) \/ Step(h)) \/ Environment
  BY DEF Next, Call, Begins, Environment

\* A node is never removed, and its container is what it was.
LEMMA NodesGrow ==
    ASSUME TypeInv, [Next]_vars
    PROVE  /\ \A i \in DOMAIN nodes : i \in DOMAIN nodes' /\ nodes'[i] = nodes[i]
           /\ \A k \in 1..Len(containers) : containers'[k] = containers[k]
  <1> USE DEF TypeInv, TypeOK
  <1>1. ASSUME NEW h \in Handlers, Register(h)
        PROVE  /\ \A i \in DOMAIN nodes : i \in DOMAIN nodes' /\ nodes'[i] = nodes[i]
               /\ containers' = containers
    BY <1>1 DEF Register, NodesOK, engine
  <1>2. ASSUME NEW h \in Handlers, CreateContainer(h)
        PROVE  /\ nodes' = nodes
               /\ \A k \in 1..Len(containers) : containers'[k] = containers[k]
    BY <1>2 DEF CreateContainer, ContainerCreate, EngineOK, engine
  <1>3. ASSUME NEW h \in Handlers, Step(h), ~Register(h), ~CreateContainer(h)
        PROVE  UNCHANGED <<nodes, containers>>
    BY <1>3 DEF Step, DepositList, NodeList, NodeStatus, MakeDeposits, WriteTranche, InsertTranche,
       DeployBeacon, NameBeacon, BeaconsDone, PickTarget, Target, SelectTranche, NameValidator,
       StartContainer, ContainerStart, InspectContainer, Consume, engine
  <1>4. ASSUME NEW h \in Handlers, Begins(h)
        PROVE  UNCHANGED <<nodes, containers>>
    BY <1>4, BeginShape DEF engine
  <1>5. CASE Environment
    BY <1>5, EnvironmentShape
  <1> QED
    BY <1>1, <1>2, <1>3, <1>4, <1>5, NextShape

-----------------------------------------------------------------------------
(* The keys of the tranches were deposited. *)

Backed(keys) == \A a \in keys : a[1] \in deposited

\* The keys of a tranche that is being created are deposited as well.
BackedInv ==
    /\ BackedByDeposits
    /\ \A h \in Handlers : Creating(h) => Backed(job[h].accounts)

LEMMA InitBacked == Init => BackedInv
  BY NumbersAssumption DEF Init, InitWith, BackedInv, BackedByDeposits, Creating

LEMMA NextBacked ==
    ASSUME IInv, BackedInv, [Next]_vars
    PROVE  BackedInv'
  <1> USE DEF IInv, TypeInv, TypeOK
  <1>1. ASSUME UNCHANGED <<tranches, deposited>>, NEW h \in Handlers, ~Creating(h)',
               \A g \in Handlers \ {h} : pc'[g] = pc[g] /\ job'[g] = job[g]
        PROVE  BackedInv'
    BY <1>1 DEF BackedInv, BackedByDeposits, Backed, Creating
  <1>2. ASSUME NEW h \in Handlers, Begins(h)
        PROVE  BackedInv'
    <2>1. ~Creating(h)'
      BY <1>2, BeginShape DEF Outside, Entries, Creating
    <2> QED
      BY <1>1, <1>2, <2>1, BeginShape DEF ledger
  <1>3. ASSUME NEW h \in Handlers, MakeDeposits(h)
        PROVE  BackedInv'
    <2>1. /\ UNCHANGED tranches
          /\ deposited \subseteq deposited'
          /\ \/ pc'[h] = "idle"
             \/ job'[h].accounts = {batch} \X (1..req[h].validators) /\ batch \in deposited'
      BY <1>3, RequestTyped DEF MakeDeposits, NewAccounts, Goto, Fail, Return, CallsOK, JobType
    <2>2. Creating(h)' => Backed(job[h].accounts)'
      BY <2>1 DEF Creating, Backed
    <2> QED
      BY <1>3, <2>1, <2>2, StepShape DEF Step, BackedInv, BackedByDeposits, Backed, Creating
  <1>4. ASSUME NEW h \in Handlers, WriteTranche(h)
        PROVE  BackedInv'
    <2>1. /\ UNCHANGED <<tranches, deposited>>
          /\ Creating(h)
          /\ pc'[h] = "idle" \/ job'[h].accounts = job[h].accounts
      BY <1>4, RequestTyped DEF WriteTranche, At, Goto, Fail, Return, CallsOK, JobType, Creating
    <2> QED
      BY <1>4, <2>1, StepShape DEF Step, BackedInv, BackedByDeposits, Backed, Creating
  <1>5. ASSUME NEW h \in Handlers, InsertTranche(h)
        PROVE  BackedInv'
    <2>1. /\ UNCHANGED deposited
          /\ Backed(job[h].accounts)
          /\ pc'[h] \in {"idle", "name"}
          /\ DOMAIN tranches' = DOMAIN tranches \cup {job[h].index}
          /\ \A i \in DOMAIN tranches' :
                tranches'[i].accounts = IF i = job[h].index THEN job[h].accounts
                                                            ELSE tranches[i].accounts
      BY <1>5 DEF InsertTranche, At, Put, Goto, Return, CallsOK, BackedInv, Creating
    <2>2. BackedByDeposits'
      BY <2>1 DEF BackedInv, BackedByDeposits, Backed
    <2> QED
      BY <1>5, <2>1, <2>2, StepShape DEF Step, BackedInv, Backed, Creating
  <1>6. ASSUME NEW h \in Handlers, Consume(h)
        PROVE  BackedInv'
    <2>1. /\ UNCHANGED deposited
          /\ pc'[h] = "idle"
          /\ DOMAIN tranches' = DOMAIN tranches
          /\ \A i \in DOMAIN tranches : tranches'[i].accounts = tranches[i].accounts
      BY <1>6 DEF Consume, Return, CallsOK, LedgerOK, TrancheType
    <2> QED
      BY <1>6, <2>1, StepShape DEF Step, BackedInv, BackedByDeposits, Backed, Creating
  <1>7. ASSUME NEW h \in Handlers, Step(h), ~MakeDeposits(h), ~WriteTranche(h), ~InsertTranche(h),
               ~Consume(h)
        PROVE  BackedInv'
    <2>1. UNCHANGED <<tranches, deposited>> /\ ~Creating(h)'
      BY <1>7 DEF Step, DepositList, NodeList, NodeStatus, DeployBeacon, NameBeacon, BeaconsDone,
         PickTarget, Target, SelectTranche, NameValidator, CreateContainer, StartContainer,
         InspectContainer, Register, At, Goto, Return, Fail, ledger, CallsOK, Creating
    <2> QED
      BY <1>1, <1>7, <2>1, StepShape
  <1>8. CASE Environment
    BY <1>8, EnvironmentShape DEF ledger, BackedInv, BackedByDeposits, Backed, Creating
  <1> QED
    BY <1>2, <1>3, <1>4, <1>5, <1>6, <1>7, <1>8, NextShape

\* No tranche of the agent ever holds a key without a deposit behind it, whichever
\* call to MakeDeposits fails.
THEOREM TranchesAreBacked == Spec => []BackedByDeposits
  <1>1. BackedInv => BackedByDeposits
    BY DEF BackedInv
  <1> QED
    BY <1>1, InitIInv, NextIInv, InitBacked, NextBacked, PTL DEF Spec

-----------------------------------------------------------------------------
(* A container that runs is lost by the failure of its own deployment only. *)

\* A step that starts nothing and does not take a call from behind its container.
LEMMA NothingLost ==
    ASSUME running' \subseteq running,
           \A i \in DOMAIN nodes : i \in DOMAIN nodes' /\ nodes'[i] = nodes[i],
           \A g \in Handlers : pc[g] \in {"inspect", "register"} =>
              \/ pc'[g] \in {"inspect", "register"} /\ job'[g].id = job[g].id
              \/ \E i \in DOMAIN nodes' : nodes'[i] = job[g].id
    PROVE  Untracked' \subseteq Untracked
  BY DEF Untracked

\* What a call loses that neither registers nor drops anything of the others.
LEMMA OwnLoss ==
    ASSUME NEW h \in Handlers, nodes' = nodes, running' \subseteq running \cup {job[h].id},
           \A g \in Handlers \ {h} : pc'[g] = pc[g] /\ job'[g] = job[g]
    PROVE  Untracked' \ Untracked \subseteq {job[h].id}
  BY DEF Untracked

LEMMA FailIsAnswered ==
    ASSUME CallsOK, NEW h \in Handlers, Return(h, Error), pc[h] \in {"start", "inspect"}
    PROVE  DeployFails(job[h].id)
  BY DEF CallsOK, Return, Error, DeployFails

LEMMA NextLoss ==
    ASSUME IInv, [Next]_vars
    PROVE  \A id \in Untracked' \ Untracked : DeployFails(id)
  <1> USE DEF IInv, TypeInv, TypeOK
  <1>1. ASSUME NEW h \in Handlers, Begins(h)
        PROVE  Untracked' \subseteq Untracked
    BY <1>1, BeginShape, NothingLost DEF Outside, engine
  <1>2. ASSUME NEW h \in Handlers, StartContainer(h)
        PROVE  \A id \in Untracked' \ Untracked : DeployFails(id)
    <2>1. pc[h] = "start" /\ nodes' = nodes /\ running' \subseteq running \cup {job[h].id}
      BY <1>2 DEF StartContainer, At, ContainerStart, engine
    <2>2. \A g \in Handlers \ {h} : pc'[g] = pc[g] /\ job'[g] = job[g]
      BY <1>2, StepShape DEF Step
    <2>3. Untracked' \ Untracked \subseteq {job[h].id}
      BY <2>1, <2>2, OwnLoss
    <2>4. CASE Goto(h, "inspect") /\ UNCHANGED job
      <3>1. pc'[h] = "inspect" /\ job' = job
        BY <2>4 DEF Goto, CallsOK
      <3>2. job[h].id \notin Untracked'
        BY <3>1 DEF Untracked
      <3> QED
        BY <2>3, <3>2
    <2>5. CASE Fail(h, "start")
      BY <2>1, <2>3, <2>5, FailIsAnswered DEF Fail
    <2> QED
      BY <1>2, <2>4, <2>5 DEF StartContainer
  <1>3. ASSUME NEW h \in Handlers, InspectContainer(h)
        PROVE  \A id \in Untracked' \ Untracked : DeployFails(id)
    <2>1. pc[h] = "inspect" /\ UNCHANGED <<engine, nodes>>
      BY <1>3 DEF InspectContainer, At
    <2>2. \A g \in Handlers \ {h} : pc'[g] = pc[g] /\ job'[g] = job[g]
      BY <1>3, StepShape DEF Step
    <2>3. CASE Goto(h, "register") /\ UNCHANGED job
      <3>1. pc'[h] = "register" /\ UNCHANGED <<running, nodes, job>>
        BY <2>1, <2>3 DEF Goto, CallsOK, engine
      <3>2. Untracked' \subseteq Untracked
        BY <2>2, <3>1, NothingLost
      <3> QED
        BY <3>2
    <2>4. CASE Fail(h, "inspect")
      <3>1. running' \subseteq running \cup {job[h].id}
        BY <2>1 DEF engine
      <3>2. Untracked' \ Untracked \subseteq {job[h].id}
        BY <2>1, <2>2, <3>1, OwnLoss
      <3> QED
        BY <2>1, <2>4, <3>2, FailIsAnswered DEF Fail
    <2> QED
      BY <1>3, <2>3, <2>4 DEF InspectContainer
  <1>4. ASSUME NEW h \in Handlers, Register(h)
        PROVE  Untracked' \subseteq Untracked
    <2>1. \E i \in DOMAIN nodes' : nodes'[i] = job[h].id
      BY <1>4 DEF Register, NodesOK
    <2>2. Step(h)
      BY <1>4 DEF Step
    <2>3. \A g \in Handlers \ {h} : pc'[g] = pc[g] /\ job'[g] = job[g]
      BY <2>2, StepShape
    <2>4. running' = running
      BY <1>4 DEF Register, engine
    <2>5. \A i \in DOMAIN nodes : i \in DOMAIN nodes' /\ nodes'[i] = nodes[i]
      BY NodesGrow
    <2> HIDE DEF IInv, TypeInv, TypeOK
    <2> QED
      BY <2>1, <2>3, <2>4, <2>5, NothingLost
  <1>5. ASSUME NEW h \in Handlers, Step(h), pc[h] \notin {"inspect", "register"},
               ~StartContainer(h)
        PROVE  Untracked' \subseteq Untracked
    <2>1. UNCHANGED running
      BY <1>5 DEF Step, DepositList, NodeList, NodeStatus, MakeDeposits, WriteTranche, InsertTranche,
         DeployBeacon, NameBeacon, BeaconsDone, PickTarget, SelectTranche, NameValidator,
         CreateContainer, ContainerCreate, InspectContainer, Register, Consume, engine
    <2> QED
      BY <1>5, <2>1, StepShape, NodesGrow, NothingLost
  <1>6. CASE Environment
    <2>1. running' \subseteq running
      BY <1>6 DEF Environment, Signal, Stop, StopNode, Exit, SecondSignal, NodeExit, ContainerExit,
         ContainerStop, Terminated, vars, engine
    <2>2. Untracked' \subseteq Untracked
      BY <1>6, <2>1, EnvironmentShape, NothingLost
    <2> QED
      BY <2>2
  <1>7. ASSUME NEW h \in Handlers, Step(h), pc[h] \in {"inspect", "register"}
        PROVE  InspectContainer(h) \/ Register(h)
    BY <1>7 DEF Step, DepositList, NodeList, NodeStatus, MakeDeposits, WriteTranche, InsertTranche,
       DeployBeacon, NameBeacon, BeaconsDone, PickTarget, SelectTranche, NameValidator,
       CreateContainer, StartContainer, Consume, At
  <1> HIDE DEF IInv, TypeInv, TypeOK
  <1> QED
    BY <1>1, <1>2, <1>3, <1>4, <1>5, <1>6, <1>7, NextShape

\* Whatever fails, in whichever order calls, signals and exits come: a container that runs
\* and that nobody has registered or is about to was lost by the failure of its own start or
\* inspection, and the call that deployed it got an error (docker.go:170-177,
\* server.go:228-233).
THEOREM LossesAreAnswered == Spec => LossIsAnswered
  <1>1. IInv /\ [Next]_vars => [\A id \in Untracked' \ Untracked : DeployFails(id)]_vars
    BY NextLoss
  <1> QED
    BY <1>1, InitIInv, NextIInv, PTL DEF Spec, LossIsAnswered

-----------------------------------------------------------------------------
(* Stop. *)

Registered(id) == \E i \in DOMAIN nodes : nodes[i] = id

\* Every node of the snapshot is a registered one, no container is started that was
\* registered already, and the nodes that Stop has passed are down.
StopInv ==
    /\ \A k \in DOMAIN snapshot : snapshot[k] = NoContainer \/ Registered(snapshot[k])
    /\ \A h \in Handlers : pc[h] = "start" => ~Registered(job[h].id)
    /\ proc = "serving" => next = 1
    /\ \A k \in DOMAIN snapshot : k < next => snapshot[k] \notin running \ unstopped
    /\ proc = "exited" => next > Len(snapshot)

LEMMA InitStop == Init => StopInv
  BY DEF Init, InitWith, StopInv

\* A step that starts nothing and lets nothing be started that is registered.
LEMMA StopKept ==
    ASSUME StopInv, running' \subseteq running, UNCHANGED <<snapshot, next, unstopped>>,
           proc' \in {proc, "crashed", "killed"},
           \A i \in DOMAIN nodes : i \in DOMAIN nodes' /\ nodes'[i] = nodes[i],
           \A g \in Handlers : pc'[g] = "start" => ~Registered(job[g].id)'
    PROVE  StopInv'
  BY DEF StopInv, Registered

LEMMA NextStop ==
    ASSUME IInv, StopInv, [Next]_vars
    PROVE  StopInv'
  <1> USE DEF IInv, TypeInv, TypeOK
  <1>1. ASSUME NEW h \in Handlers, Begins(h)
        PROVE  StopInv'
    <2>1. UNCHANGED <<engine, nodes, shutdown>>
      BY <1>1, BeginShape
    <2>2. \A g \in Handlers : pc'[g] = "start" => g # h /\ pc[g] = "start" /\ job'[g] = job[g]
      BY <1>1, BeginShape DEF Outside, Entries
    <2>3. \A g \in Handlers : pc'[g] = "start" => ~Registered(job[g].id)'
      BY <2>1, <2>2 DEF StopInv, Registered
    <2> QED
      BY <2>1, <2>3, StopKept DEF engine, shutdown
  <1>2. ASSUME NEW h \in Handlers, CreateContainer(h)
        PROVE  StopInv'
    <2>1. UNCHANGED <<running, nodes, shutdown>>
      BY <1>2 DEF CreateContainer, ContainerCreate, engine
    <2>2. pc'[h] = "start" => job'[h].id = Len(containers) + 1
      BY <1>2, RequestTyped DEF CreateContainer, NextContainer, Goto, Fail, Return, CallsOK, JobType
    <2>3. ~Registered(Len(containers) + 1)
      BY DEF Registered, NodesOK, EngineOK
    <2>4. \A g \in Handlers : pc'[g] = "start" => ~Registered(job[g].id)'
      BY <1>2, <2>1, <2>2, <2>3, OthersOutside DEF Step, Registered, Outside
    <2> QED
      BY <2>1, <2>4, StopKept DEF shutdown
  <1>3. ASSUME NEW h \in Handlers, StartContainer(h)
        PROVE  StopInv'
    <2>1. pc[h] = "start" /\ pc'[h] # "start" /\ UNCHANGED <<nodes, shutdown>>
      BY <1>3 DEF StartContainer, At, Goto, Fail, Return, CallsOK
    <2>2. \A g \in Handlers : pc'[g] # "start"
      BY <1>3, <2>1, OthersOutside DEF Step, Outside
    <2>3. running' \subseteq running \cup {job[h].id}
      BY <1>3 DEF StartContainer, ContainerStart, engine
    <2>4. job[h].id # NoContainer
      BY <2>1 DEF JobInv, NoContainer, EngineOK
    <2>5. \A k \in DOMAIN snapshot : snapshot[k] # job[h].id
      BY <2>1, <2>4 DEF StopInv
    <2> QED
      BY <2>1, <2>2, <2>3, <2>5 DEF StopInv, Registered, shutdown
  <1>4. ASSUME NEW h \in Handlers, Step(h), ~CreateContainer(h), ~StartContainer(h)
        PROVE  StopInv'
    <2>1. /\ UNCHANGED <<running, snapshot, next, unstopped>>
          /\ pc'[h] # "start"
          /\ proc' \in {proc, "crashed"}
      BY <1>4 DEF Step, DepositList, NodeList, NodeStatus, MakeDeposits, WriteTranche, InsertTranche,
         DeployBeacon, NameBeacon, BeaconsDone, PickTarget, Target, SelectTranche, NameValidator,
         InspectContainer, Register, Consume, At, Goto, Return, Fail, CallsOK, engine, shutdown
    <2>2. \A g \in Handlers : pc'[g] # "start"
      BY <1>4, <2>1, OthersOutside DEF Outside
    <2> QED
      BY <2>1, <2>2, NodesGrow, StopKept
  <1>5. CASE Signal
    <2>1. /\ UNCHANGED <<engine, pc, job, nodes, next, unstopped>>
          /\ proc = "serving" /\ proc' = "stopping"
          /\ snapshot' = nodes \/ snapshot' = Append(nodes, NoContainer)
      BY <1>5 DEF Signal
    <2>2. next = 1
      BY <2>1 DEF StopInv
    <2>3. DOMAIN snapshot' \subseteq Nat \ {0}
      BY <2>1 DEF NodesOK
    <2>4. \A k \in DOMAIN snapshot' : ~(k < next')
      BY <2>1, <2>2, <2>3
    <2>5. \A k \in DOMAIN snapshot' : snapshot'[k] = NoContainer \/ Registered(snapshot'[k])
      <3>1. CASE snapshot' = nodes
        BY <3>1 DEF Registered
      <3>2. CASE snapshot' = Append(nodes, NoContainer)
        BY <3>2 DEF Registered, NodesOK
      <3> QED
        BY <2>1, <3>1, <3>2
    <2> QED
      BY <2>1, <2>4, <2>5 DEF StopInv, Registered
  <1>6. CASE StopNode
    <2> DEFINE id == snapshot[next]
    <2>1. /\ proc = "stopping" /\ next <= Len(snapshot) /\ next' = next + 1
          /\ UNCHANGED <<pc, job, nodes, snapshot>>
      BY <1>6 DEF StopNode
    <2>2. /\ proc' \in {"stopping", "crashed"}
          /\ running' \subseteq running
          /\ unstopped \subseteq unstopped'
          /\ id \notin running' \ unstopped'
      BY <1>6, <2>1 DEF StopNode, ContainerStop, engine, EngineOK, NoContainer
    <2>3. \A k \in DOMAIN snapshot : k < next + 1 => k < next \/ k = next
      BY DEF ShutdownOK
    <2> QED
      BY <2>1, <2>2, <2>3 DEF StopInv, Registered
  <1>7. CASE Exit
    BY <1>7 DEF Exit, engine, StopInv, Registered
  <1>8. CASE SecondSignal \/ NodeExit \/ Terminated \/ UNCHANGED vars
    BY <1>8 DEF SecondSignal, NodeExit, ContainerExit, Terminated, vars, engine, shutdown, StopInv,
       Registered
  <1> QED
    BY <1>1, <1>2, <1>3, <1>4, <1>5, <1>6, <1>7, <1>8, NextShape DEF Environment, Stop

\* However the process ends and however calls and exits of containers interleave with Stop, no
\* node that Stop has passed is still up, but for those Docker could not stop; after a graceful
\* exit that is every node the signal found registered (server.go:237-243).
THEOREM OnlyLateSurvive == Spec => []OnlyLateNodesSurvive
  <1>1. IInv /\ StopInv => OnlyLateNodesSurvive
    BY DEF IInv, TypeInv, TypeOK, ShutdownOK, StopInv, OnlyLateNodesSurvive
  <1> QED
    BY <1>1, InitIInv, NextIInv, InitStop, NextStop, PTL DEF Spec

-----------------------------------------------------------------------------
(* The beacon node of a validator client. *)

\* id is a registered beacon node of that client.
BeaconOf(id, client) ==
    \E b \in DOMAIN nodes :
        /\ nodes[b] = id
        /\ NodeName(b).type = "Beacon"
        /\ NodeName(b).client = client

\* A call whose target has been picked and not yet given to a container.
Aimed(h) ==
    \/ pc[h] \in {"select", "name"}
    \/ pc[h] \in {"accounts", "write", "insert"} /\ req[h].kind = "DeployValidator"
    \/ Deploying(h) /\ job[h].name.type = "Validator"

\* What a call knows of its beacon nodes: those it deployed are of its client, and so
\* is the one that it hands to the container of the validator client.
CallTarget(h) ==
    /\ pc[h] \in Outside => job[h].mine = <<>>
    /\ pc[h] # "consume" /\ job[h].mine # <<>> => BeaconOf(Head(job[h].mine), req[h].client)
    /\ Aimed(h) => BeaconOf(job[h].target, req[h].client)
    /\ Deploying(h) => job[h].name.client = req[h].client
    /\ pc[h] \in {"start", "inspect", "register"} =>
          containers[job[h].id].target = job[h].target

TargetInv == TargetIsSound /\ \A h \in Handlers : CallTarget(h)

LEMMA InitTarget == Init => TargetInv
  <1> SUFFICES ASSUME Init PROVE TargetInv
    OBVIOUS
  <1>1. OfType("Validator") = {}
    BY DEF Init, InitWith, OfType, Name
  <1>2. \A h \in Handlers : pc[h] = "idle" /\ job[h].mine = <<>>
    BY DEF Init, InitWith, NoJob
  <1> QED
    BY <1>1, <1>2 DEF TargetInv, TargetIsSound, CallTarget, Aimed, Deploying

\* A beacon node stays one.
LEMMA BeaconStays ==
    ASSUME TypeInv, [Next]_vars
    PROVE  \A id, client : BeaconOf(id, client) => BeaconOf(id, client)'
  <1>1. \A i \in DOMAIN nodes : NodeName(i)' = NodeName(i)
    BY NodesGrow DEF NodeName, TypeInv, TypeOK, NodesOK
  <1> QED
    BY <1>1, NodesGrow DEF BeaconOf

\* A call that is left alone knows what it knew.
LEMMA CallTargetKept ==
    ASSUME TypeInv, [Next]_vars, NEW g \in Handlers, CallTarget(g),
           pc'[g] = pc[g], job'[g] = job[g], req'[g] = req[g]
    PROVE  CallTarget(g)'
  <1>1. pc[g] \in {"start", "inspect", "register"} => job[g].id \in 1..Len(containers)
    BY DEF TypeInv, JobInv
  <1>2. pc[g] \in {"start", "inspect", "register"} => containers'[job[g].id] = containers[job[g].id]
    BY <1>1, NodesGrow
  <1> QED
    BY <1>2, BeaconStays DEF CallTarget, Aimed, Deploying

\* The target of the validator clients that were registered before a step.
LEMMA TargetStays ==
    ASSUME TypeInv, [Next]_vars, TargetIsSound, NEW i \in OfType("Validator")
    PROVE  \E b \in OfType("Beacon")' :
              /\ b < i
              /\ NodeName(b)'.client = NodeName(i)'.client
              /\ containers'[nodes'[i]].target = nodes'[b]
  <1> USE DEF TypeInv, TypeOK, NodesOK
  <1>1. i \in DOMAIN nodes
    BY DEF OfType
  <1>2. PICK b \in OfType("Beacon") : /\ b < i
                                     /\ NodeName(b).client = NodeName(i).client
                                     /\ containers[nodes[i]].target = nodes[b]
    BY DEF TargetIsSound
  <1>3. b \in DOMAIN nodes
    BY DEF OfType
  <1>4. /\ nodes'[i] = nodes[i] /\ containers'[nodes[i]] = containers[nodes[i]]
        /\ nodes'[b] = nodes[b] /\ containers'[nodes[b]] = containers[nodes[b]]
        /\ b \in DOMAIN nodes'
    BY <1>1, <1>3, NodesGrow
  <1> QED
    BY <1>2, <1>4 DEF OfType, NodeName

LEMMA TargetsStay ==
    ASSUME TypeInv, [Next]_vars, TargetInv, UNCHANGED nodes
    PROVE  TargetIsSound'
  <1>1. OfType("Validator")' = OfType("Validator")
    <2>1. \A i \in DOMAIN nodes : containers'[nodes[i]] = containers[nodes[i]]
      BY NodesGrow DEF TypeInv, TypeOK, NodesOK
    <2> QED
      BY <2>1 DEF OfType
  <1>2. \A i \in OfType("Validator") : \E b \in OfType("Beacon")' :
           /\ b < i
           /\ NodeName(b)'.client = NodeName(i)'.client
           /\ containers'[nodes'[i]].target = nodes'[b]
    BY TargetStays DEF TargetInv
  <1> QED
    BY <1>1, <1>2 DEF TargetIsSound

LEMMA NextTarget ==
    ASSUME IInv, TargetInv, [Next]_vars
    PROVE  TargetInv'
  <1> USE DEF IInv, TypeInv, TypeOK
  <1>1. ASSUME NEW h \in Handlers, Begins(h)
        PROVE  TargetInv'
    <2>1. UNCHANGED nodes
      BY <1>1, BeginShape
    <2>2. job'[h].mine = <<>>
      <3>1. job[h].mine = <<>>
        BY <1>1, BeginShape DEF TargetInv, CallTarget
      <3>2. job'[h] = [job[h] EXCEPT !.left = job'[h].left]
        BY <1>1, BeginShape
      <3> QED
        BY <3>1, <3>2, RequestTyped DEF JobType
    <2>3. CallTarget(h)'
      BY <1>1, <2>2, BeginShape DEF CallTarget, Aimed, Deploying, Outside, Entries
    <2>4. \A g \in Handlers \ {h} : CallTarget(g)'
      BY <1>1, BeginShape, CallTargetKept DEF TargetInv
    <2> QED
      BY <2>1, <2>3, <2>4, TargetsStay DEF TargetInv
  <1>2. ASSUME NEW h \in Handlers, Step(h), CallTarget(h)'
        PROVE  \A g \in Handlers : CallTarget(g)'
    BY <1>2, StepShape, StepKeepsRequests, CallTargetKept DEF TargetInv
  <1>3. ASSUME NEW h \in Handlers, Step(h), UNCHANGED nodes, CallTarget(h)'
        PROVE  TargetInv'
    BY <1>2, <1>3, TargetsStay DEF TargetInv
  <1>4. ASSUME NEW h \in Handlers, Step(h), UNCHANGED nodes, \E r : Return(h, r)
        PROVE  TargetInv'
    <2>1. pc'[h] = "idle" /\ job'[h].mine = <<>>
      BY <1>4 DEF Return, CallsOK, NoJob
    <2>2. CallTarget(h)'
      BY <2>1 DEF CallTarget, Aimed, Deploying
    <2> QED
      BY <1>3, <1>4, <2>2
  \* Most steps go on with the beacon nodes and the target as they are.
  <1>5. ASSUME NEW h \in Handlers, Step(h), UNCHANGED nodes,
               pc[h] # "consume", pc'[h] \notin Outside, pc'[h] # "consume",
               job'[h].mine = job[h].mine,
               Aimed(h)' => BeaconOf(job[h].target, req[h].client)',
               Deploying(h)' => job'[h].name.client = req[h].client,
               pc'[h] \in {"start", "inspect", "register"} =>
                   containers'[job'[h].id].target = job'[h].target
        PROVE  TargetInv'
    <2>1. UNCHANGED req
      BY <1>5, StepKeepsRequests
    <2>2. job[h].mine # <<>> => BeaconOf(Head(job[h].mine), req[h].client)
      BY <1>5 DEF TargetInv, CallTarget
    <2>3. job[h].mine # <<>> => BeaconOf(Head(job[h].mine), req[h].client)'
      BY <1>5, <2>1, <2>2, BeaconStays
    <2>4. CallTarget(h)'
      BY <1>5, <2>1, <2>3 DEF CallTarget
    <2> QED
      BY <1>3, <1>5, <2>4
  <1>6. ASSUME NEW h \in Handlers, NodeStatus(h)
        PROVE  TargetInv'
    <2>1. CASE UNCHANGED <<pc, job, req, nodes>>
      BY <1>6, <2>1, TargetsStay, CallTargetKept DEF TargetInv
    <2>2. CASE (\E r : Return(h, r)) /\ UNCHANGED nodes
      BY <1>4, <1>6, <2>2 DEF Step
    <2> QED
      BY <1>6, <2>1, <2>2 DEF NodeStatus
  <1>7. ASSUME NEW h \in Handlers, DepositList(h) \/ NodeList(h) \/ Consume(h)
        PROVE  TargetInv'
    BY <1>4, <1>7 DEF Step, DepositList, NodeList, Consume
  <1>8. ASSUME NEW h \in Handlers, MakeDeposits(h) \/ WriteTranche(h)
        PROVE  TargetInv'
    <2>1. CASE (\E r : Return(h, r)) /\ UNCHANGED nodes
      BY <1>4, <1>8, <2>1 DEF Step
    <2>2. CASE ~(\E r : Return(h, r))
      <3>1. /\ pc[h] \in {"accounts", "write"} /\ pc'[h] \in {"write", "insert"}
            /\ job'[h].mine = job[h].mine /\ job'[h].target = job[h].target
            /\ UNCHANGED <<req, nodes>>
        BY <1>8, <2>2, RequestTyped DEF MakeDeposits, WriteTranche, At, Goto, Fail, CallsOK, JobType
      <3>2. Aimed(h)' => Aimed(h)
        BY <3>1 DEF Aimed, Deploying
      <3>3. Aimed(h) => BeaconOf(job[h].target, req[h].client)
        BY DEF TargetInv, CallTarget
      <3>4. Aimed(h)' => BeaconOf(job[h].target, req[h].client)'
        BY <3>1, <3>2, <3>3, BeaconStays
      <3> QED
        BY <1>5, <1>8, <3>1, <3>4 DEF Step, Outside, Deploying
    <2> QED
      BY <1>8, <2>1, <2>2 DEF MakeDeposits, WriteTranche, Fail
  <1>9. ASSUME NEW h \in Handlers, InsertTranche(h)
        PROVE  TargetInv'
    <2>1. CASE (\E r : Return(h, r)) /\ UNCHANGED nodes
      BY <1>4, <1>9, <2>1 DEF Step
    <2>2. CASE ~(\E r : Return(h, r))
      <3>1. /\ pc[h] = "insert" /\ pc'[h] = "name" /\ req[h].kind = "DeployValidator"
            /\ UNCHANGED <<job, req, nodes>>
        BY <1>9, <2>2 DEF InsertTranche, At, Goto, CallsOK
      <3>2. BeaconOf(job[h].target, req[h].client)
        BY <3>1 DEF TargetInv, CallTarget, Aimed
      <3>3. BeaconOf(job[h].target, req[h].client)'
        BY <3>1, <3>2, BeaconStays
      <3> QED
        BY <1>5, <1>9, <3>1, <3>3 DEF Step, Outside, Deploying
    <2> QED
      BY <1>9, <2>1, <2>2 DEF InsertTranche
  <1>10. ASSUME NEW h \in Handlers, DeployBeacon(h)
         PROVE  TargetInv'
    <2>1. CASE (\E r : Return(h, r)) /\ UNCHANGED nodes
      BY <1>4, <1>10, <2>1 DEF Step
    <2>2. CASE ~(\E r : Return(h, r))
      <3>1. /\ pc[h] = "beacons" /\ pc'[h] = "create"
            /\ job'[h].mine = job[h].mine
            /\ job'[h].name = Name("Beacon", numOfNodes("Beacon"), req[h].client)
            /\ UNCHANGED <<req, nodes>>
        BY <1>10, <2>2, RequestTyped DEF DeployBeacon, NameBeacon, At, Goto, CallsOK, JobType
      <3>2. job'[h].name.type = "Beacon" /\ job'[h].name.client = req[h].client
        BY <3>1 DEF Name
      <3>3. ~Aimed(h)'
        BY <3>1, <3>2 DEF Aimed
      <3> QED
        BY <1>5, <1>10, <3>1, <3>2, <3>3 DEF Step, Outside
    <2> QED
      BY <1>10, <2>1, <2>2 DEF DeployBeacon, NameBeacon
  <1>11. ASSUME NEW h \in Handlers, BeaconsDone(h)
         PROVE  TargetInv'
    <2>1. CASE (\E r : Return(h, r)) /\ UNCHANGED nodes
      BY <1>4, <1>11, <2>1 DEF Step
    <2>2. CASE ~(\E r : Return(h, r))
      <3>1. pc[h] = "beacons" /\ pc'[h] = "target" /\ UNCHANGED <<job, nodes>>
        BY <1>11, <2>2 DEF BeaconsDone, At, Goto, CallsOK
      <3>2. ~Aimed(h)' /\ ~Deploying(h)'
        BY <3>1 DEF Aimed, Deploying
      <3> QED
        BY <1>5, <1>11, <3>1, <3>2 DEF Step, Outside
    <2> QED
      BY <1>11, <2>1, <2>2 DEF BeaconsDone
  <1>12. ASSUME NEW h \in Handlers, PickTarget(h)
         PROVE  TargetInv'
    <2>1. CASE (\E r : Return(h, r)) /\ UNCHANGED nodes
      BY <1>4, <1>12, <2>1 DEF Step
    <2>2. ASSUME NEW id, Target(h, id), BeaconOf(id, req[h].client)
          PROVE  TargetInv'
      <3>1. /\ pc[h] = "target" /\ pc'[h] \in {"select", "accounts"}
            /\ job'[h].mine = job[h].mine /\ job'[h].target = id
            /\ UNCHANGED <<req, nodes>>
        BY <1>12, <2>2, RequestTyped DEF PickTarget, Target, At, Goto, CallsOK, JobType
      <3>2. BeaconOf(job[h].target, req[h].client)'
        BY <2>2, <3>1, BeaconStays
      <3> QED
        BY <1>5, <1>12, <3>1, <3>2 DEF Step, Outside, Deploying
    <2>3. job[h].mine # <<>> => BeaconOf(Head(job[h].mine), req[h].client)
      BY <1>12 DEF PickTarget, At, TargetInv, CallTarget
    <2>4. \A i \in DOMAIN nodes : IsFirstBeacon(i, req[h].client) => BeaconOf(nodes[i], req[h].client)
      BY DEF IsFirstBeacon, Beacons, OfType, BeaconOf, NodeName
    <2> QED
      BY <1>12, <2>1, <2>2, <2>3, <2>4 DEF PickTarget
  <1>13. ASSUME NEW h \in Handlers, SelectTranche(h)
         PROVE  TargetInv'
    <2>1. CASE (\E r : Return(h, r)) /\ UNCHANGED nodes
      BY <1>4, <1>13, <2>1 DEF Step
    <2>2. CASE ~(\E r : Return(h, r))
      <3>1. /\ pc[h] = "select" /\ pc'[h] = "name"
            /\ job'[h].mine = job[h].mine /\ job'[h].target = job[h].target
            /\ UNCHANGED <<req, nodes>>
        BY <1>13, <2>2, RequestTyped DEF SelectTranche, At, Goto, CallsOK, JobType
      <3>2. BeaconOf(job[h].target, req[h].client)
        BY <3>1 DEF TargetInv, CallTarget, Aimed
      <3>3. BeaconOf(job[h].target, req[h].client)'
        BY <3>1, <3>2, BeaconStays
      <3> QED
        BY <1>5, <1>13, <3>1, <3>3 DEF Step, Outside, Deploying
    <2> QED
      BY <1>13, <2>1, <2>2 DEF SelectTranche
  <1>14. ASSUME NEW h \in Handlers, NameValidator(h)
         PROVE  TargetInv'
    <2>1. CASE (\E r : Return(h, r)) /\ UNCHANGED nodes
      BY <1>4, <1>14, <2>1 DEF Step, NameValidator
    <2>2. CASE ~(\E r : Return(h, r))
      <3>1. /\ pc[h] = "name" /\ pc'[h] = "create"
            /\ job'[h].mine = job[h].mine /\ job'[h].target = job[h].target
            /\ job'[h].name = Name("Validator", numOfNodes("Validator"), req[h].client)
            /\ UNCHANGED <<req, nodes>>
        BY <1>14, <2>2, RequestTyped DEF NameValidator, At, Goto, CallsOK, JobType
      <3>2. BeaconOf(job[h].target, req[h].client)
        BY <3>1 DEF TargetInv, CallTarget, Aimed
      <3>3. BeaconOf(job[h].target, req[h].client)'
        BY <3>1, <3>2, BeaconStays
      <3>4. job'[h].name.client = req[h].client
        BY <3>1 DEF Name
      <3> QED
        BY <1>5, <1>14, <3>1, <3>3, <3>4 DEF Step, Outside
    <2> QED
      BY <1>14, <2>1, <2>2 DEF NameValidator
  <1>15. ASSUME NEW h \in Handlers, Deploying(h), ~Register(h),
                CreateContainer(h) \/ StartContainer(h) \/ InspectContainer(h)
         PROVE  TargetInv'
    <2>0. UNCHANGED nodes
      BY <1>15 DEF CreateContainer, StartContainer, InspectContainer
    <2>1. CASE \E r : Return(h, r)
      BY <1>4, <1>15, <2>0, <2>1 DEF Step
    <2>2. CASE ~(\E r : Return(h, r))
      <3>1. /\ pc'[h] \in {"start", "inspect", "register"}
            /\ job'[h].mine = job[h].mine /\ job'[h].target = job[h].target
            /\ job'[h].name = job[h].name
            /\ UNCHANGED req
        BY <1>15, <2>2, RequestTyped DEF CreateContainer, StartContainer, InspectContainer, At, Goto,
           Fail, CallsOK, JobType
      <3>2. job[h].name.client = req[h].client
        BY <1>15 DEF TargetInv, CallTarget
      <3>3. Aimed(h)' => Aimed(h)
        BY <1>15, <3>1 DEF Aimed, Deploying
      <3>4. Aimed(h) => BeaconOf(job[h].target, req[h].client)
        BY DEF TargetInv, CallTarget
      <3>5. Aimed(h)' => BeaconOf(job[h].target, req[h].client)'
        BY <3>1, <3>3, <3>4, BeaconStays
      <3>6. containers'[job'[h].id].target = job'[h].target
        <4>1. CASE CreateContainer(h)
          <5>1. /\ containers' = Append(containers, [name   |-> job[h].name,
                                                     keys   |-> job[h].accounts,
                                                     target |-> job[h].target])
                /\ job'[h].id = Len(containers) + 1
            BY <2>2, <4>1, RequestTyped DEF CreateContainer, ContainerCreate, NextContainer, Fail,
               CallsOK, JobType
          <5> QED
            BY <3>1, <5>1 DEF EngineOK
        <4>2. CASE StartContainer(h) \/ InspectContainer(h)
          <5>1. /\ pc[h] \in {"start", "inspect"} /\ UNCHANGED <<containers, job>>
            BY <2>2, <4>2 DEF StartContainer, ContainerStart, InspectContainer, At, Fail, engine
          <5> QED
            BY <5>1 DEF TargetInv, CallTarget
        <4> QED
          BY <1>15, <4>1, <4>2
      <3> QED
        BY <1>5, <1>15, <2>0, <3>1, <3>2, <3>5, <3>6 DEF Step, Outside, Deploying
    <2> QED
      BY <2>1, <2>2
  <1>16. ASSUME NEW h \in Handlers, Register(h)
         PROVE  TargetInv'
    <2> DEFINE name == job[h].name
    <2>0. PICK new, id : new = Len(nodes) + 1 /\ id = job[h].id
      OBVIOUS
    <2>1. /\ pc[h] = "register" /\ nodes' = Append(nodes, id) /\ UNCHANGED containers
          /\ UNCHANGED req
      BY <1>16, <2>0 DEF Register, At, Goto, engine
    <2>2. id \in 1..Len(containers) /\ containers[id].name = name
      BY <2>0, <2>1 DEF JobInv, NameInv
    <2>3. /\ DOMAIN nodes' = DOMAIN nodes \cup {new} /\ new \notin DOMAIN nodes
          /\ nodes'[new] = id
          /\ \A i \in DOMAIN nodes : nodes'[i] = nodes[i] /\ i < new
      BY <2>0, <2>1, <2>2, AppendNode DEF NodesOK
    <2>4. NodeName(new)' = name
      BY <2>1, <2>2, <2>3 DEF NodeName
    <2>5. containers[id].target = job[h].target /\ name.client = req[h].client
      BY <2>0, <2>1 DEF TargetInv, CallTarget, Deploying
    <2>6. name.type = "Validator" => BeaconOf(job[h].target, req[h].client)
      BY <2>1 DEF TargetInv, CallTarget, Aimed, Deploying
    <2>7. OfType("Validator")' \subseteq OfType("Validator") \cup {new}
      BY <2>1, <2>3 DEF OfType
    <2>8. ASSUME name.type = "Validator"
          PROVE  \E b \in OfType("Beacon")' :
                    /\ b < new
                    /\ NodeName(b)'.client = NodeName(new)'.client
                    /\ containers'[nodes'[new]].target = nodes'[b]
      <3>1. PICK b \in DOMAIN nodes : /\ nodes[b] = job[h].target
                                      /\ NodeName(b).type = "Beacon"
                                      /\ NodeName(b).client = req[h].client
        BY <2>6, <2>8 DEF BeaconOf
      <3>2. b \in OfType("Beacon")' /\ b < new
        BY <2>1, <2>3, <3>1 DEF OfType, NodeName
      <3>3. NodeName(b)' = NodeName(b)
        BY <2>1, <2>3, <3>1 DEF NodeName
      <3> QED
        BY <2>1, <2>3, <2>4, <2>5, <3>1, <3>2, <3>3
    <2>9. new \in OfType("Validator")' => name.type = "Validator"
      BY <2>4 DEF OfType, NodeName
    <2>10. \A i \in OfType("Validator") : \E b \in OfType("Beacon")' :
              /\ b < i
              /\ NodeName(b)'.client = NodeName(i)'.client
              /\ containers'[nodes'[i]].target = nodes'[b]
      BY TargetStays DEF TargetInv
    <2>11. TargetIsSound'
      BY <2>7, <2>8, <2>9, <2>10 DEF TargetIsSound
    <2>12. CallTarget(h)'
      <3>1. CASE name.type = "Validator"
        <4>1. pc'[h] = "consume"
          BY <1>16, <3>1 DEF Register, Goto, CallsOK
        <4> QED
          BY <4>1 DEF CallTarget, Aimed, Deploying, Outside
      <3>2. CASE name.type = "Beacon"
        <4>1. /\ pc'[h] = "beacons"
              /\ job'[h].mine = Append(job[h].mine, id)
          BY <1>16, <2>0, <3>2, RequestTyped DEF Register, Goto, CallsOK, JobType
        <4>2. BeaconOf(id, req[h].client)'
          BY <2>1, <2>3, <2>4, <2>5, <3>2 DEF BeaconOf
        <4>3. job[h].mine # <<>> => BeaconOf(Head(job[h].mine), req[h].client)
          BY <2>1 DEF TargetInv, CallTarget
        <4>4. Head(job'[h].mine) = IF job[h].mine = <<>> THEN id ELSE Head(job[h].mine)
          BY <4>1, RequestTyped DEF JobType
        <4>5. BeaconOf(Head(job[h].mine), req[h].client)'
          <5>1. CASE job[h].mine = <<>>
            BY <4>2, <4>4, <5>1
          <5>2. CASE job[h].mine # <<>>
            BY <2>1, <4>3, <4>4, <5>2, BeaconStays
          <5> QED
            BY <5>1, <5>2
        <4> QED
          BY <4>1, <4>5 DEF CallTarget, Aimed, Deploying, Outside
      <3> QED
        BY <1>16, <3>1, <3>2 DEF Register
    <2> QED
      BY <1>2, <1>16, <2>11, <2>12 DEF Step, TargetInv
  <1>17. CASE Environment
    <2>1. UNCHANGED <<nodes, pc, job, req>>
      BY <1>17, EnvironmentShape
    <2> QED
      BY <2>1, TargetsStay, CallTargetKept DEF TargetInv
  <1>18. ASSUME NEW h \in Handlers, CreateContainer(h) \/ StartContainer(h) \/ InspectContainer(h)
         PROVE  Deploying(h) /\ ~Register(h)
    BY <1>18 DEF CreateContainer, StartContainer, InspectContainer, Register, At, Deploying
  <1> QED
    BY <1>1, <1>6, <1>7, <1>8, <1>9, <1>10, <1>11, <1>12, <1>13, <1>14, <1>15, <1>16, <1>17, <1>18,
       NextShape DEF Step

\* A registered validator client is connected to a beacon node of its own client that
\* was registered before it, with any number of clients, nodes and failed calls.
THEOREM TargetsAreSound == Spec => []TargetIsSound
  <1>1. TargetInv => TargetIsSound
    BY DEF TargetInv
  <1> QED
    BY <1>1, InitIInv, NextIInv, InitTarget, NextTarget, PTL DEF Spec

-----------------------------------------------------------------------------
(* The tranche of a validator client. *)

\* The node i is a registered validator client with that name and those keys.
OwnerNode(i, name, keys) ==
    /\ i \in OfType("Validator")
    /\ NodeName(i) = name
    /\ containers[nodes[i]].keys = keys

\* Exactly one tranche has that validator.
OwnsOne(name) ==
    \E t0 \in DOMAIN tranches :
        \A t \in DOMAIN tranches : tranches[t].validator = name <=> t = t0

\* What a call knows of the keys it gives away: they are those of its tranche, then of
\* its container, and last of the node it registered.
CallOwner(h) ==
    /\ Giving(h) => job[h].accounts = tranches[job[h].index].accounts
    /\ pc[h] \in {"start", "inspect", "register"} =>
          containers[job[h].id].keys = job[h].accounts
    /\ pc[h] = "consume" =>
          \E i \in DOMAIN nodes : nodes[i] = job[h].id /\ OwnerNode(i, job[h].name, job[h].accounts)

TranchesOwned ==
    \A t \in DOMAIN tranches : tranches[t].validator # NoName =>
        \E i \in DOMAIN nodes : OwnerNode(i, tranches[t].validator, tranches[t].accounts)

ValidatorsOwn == \A i \in OfType("Validator") : ~BeingConsumed(i) => OwnsOne(NodeName(i))

OwnerInv == TranchesOwned /\ ValidatorsOwn /\ \A h \in Handlers : CallOwner(h)

LEMMA InitOwner == Init => OwnerInv
  <1> SUFFICES ASSUME Init PROVE OwnerInv
    OBVIOUS
  <1>1. OfType("Validator") = {}
    BY DEF Init, InitWith, OfType, Name
  <1>2. \A t \in DOMAIN tranches : tranches[t].validator = NoName
    BY NumbersAssumption DEF Init, InitWith
  <1>3. \A h \in Handlers : pc[h] = "idle"
    BY DEF Init, InitWith
  <1> QED
    BY <1>1, <1>2, <1>3 DEF OwnerInv, TranchesOwned, ValidatorsOwn, CallOwner, Giving, Deploying

\* A registered validator client keeps its name and its keys.
LEMMA OwnerStays ==
    ASSUME TypeInv, [Next]_vars, NEW i \in DOMAIN nodes
    PROVE  /\ i \in OfType("Validator") <=> i \in OfType("Validator")'
           /\ NodeName(i)' = NodeName(i)
           /\ nodes'[i] = nodes[i]
           /\ \A name, keys : OwnerNode(i, name, keys) => OwnerNode(i, name, keys)'
  <1>1. /\ i \in DOMAIN nodes' /\ nodes'[i] = nodes[i]
        /\ containers'[nodes[i]] = containers[nodes[i]]
    BY NodesGrow DEF TypeInv, TypeOK, NodesOK
  <1> QED
    BY <1>1 DEF OwnerNode, OfType, NodeName

\* The nodes are as they were, so which of them are validator clients is too.
LEMMA ValidatorsKept ==
    ASSUME TypeInv, [Next]_vars, UNCHANGED nodes
    PROVE  /\ OfType("Validator")' = OfType("Validator")
           /\ \A i \in OfType("Validator") : i \in DOMAIN nodes /\ NodeName(i)' = NodeName(i)
  <1>1. OfType("Validator") \subseteq DOMAIN nodes /\ OfType("Validator")' \subseteq DOMAIN nodes
    BY DEF OfType
  <1>2. \A i \in DOMAIN nodes : /\ i \in OfType("Validator") <=> i \in OfType("Validator")'
                                /\ NodeName(i)' = NodeName(i)
    BY OwnerStays
  <1> QED
    BY <1>1, <1>2

\* A step that registers no node, gives no tranche away and takes no call to or from
\* the point where it would.
LEMMA OwnersKept ==
    ASSUME TypeInv, OwnerInv, [Next]_vars, UNCHANGED <<nodes, tranches>>,
           \A g \in Handlers : pc[g] = "consume" <=> pc'[g] = "consume",
           \A g \in Handlers : pc[g] = "consume" => job'[g].id = job[g].id,
           \A g \in Handlers : CallOwner(g)'
    PROVE  OwnerInv'
  <1>1. ASSUME NEW i \in DOMAIN nodes, ~BeingConsumed(i)'
        PROVE  ~BeingConsumed(i)
    BY <1>1 DEF BeingConsumed
  <1>2. ValidatorsOwn'
    BY <1>1, ValidatorsKept DEF OwnerInv, ValidatorsOwn, OwnsOne
  <1>3. TranchesOwned'
    <2>1. \A i \in DOMAIN nodes : \A name, keys :
             OwnerNode(i, name, keys) => OwnerNode(i, name, keys)'
      BY OwnerStays
    <2> QED
      BY <2>1 DEF OwnerInv, TranchesOwned
  <1> QED
    BY <1>2, <1>3 DEF OwnerInv

\* A call that is left alone knows what it knew.
LEMMA CallOwnerKept ==
    ASSUME TypeInv, [Next]_vars, UNCHANGED tranches, NEW g \in Handlers, CallOwner(g),
           pc'[g] = pc[g], job'[g] = job[g]
    PROVE  CallOwner(g)'
  <1>1. pc[g] \in {"start", "inspect", "register"} => job[g].id \in 1..Len(containers)
    BY DEF TypeInv, JobInv
  <1>2. pc[g] \in {"start", "inspect", "register"} => containers'[job[g].id] = containers[job[g].id]
    BY <1>1, NodesGrow
  <1>3. \A i \in DOMAIN nodes : i \in DOMAIN nodes'
    BY NodesGrow
  <1>4. pc[g] = "consume" =>
           \E i \in DOMAIN nodes' :
               nodes'[i] = job[g].id /\ OwnerNode(i, job[g].name, job[g].accounts)'
    BY <1>3, OwnerStays DEF CallOwner
  <1> QED
    BY <1>2, <1>4 DEF CallOwner, Giving, Deploying

LEMMA NextOwner ==
    ASSUME IInv, OwnerInv, [Next]_vars
    PROVE  OwnerInv'
  <1> USE DEF IInv, TypeInv, TypeOK
  <1>1. ASSUME NEW h \in Handlers, Begins(h)
        PROVE  OwnerInv'
    <2>1. UNCHANGED <<nodes, tranches>> /\ pc[h] # "consume" /\ pc'[h] # "consume"
      BY <1>1, BeginShape DEF Outside, Entries, ledger
    <2>2. CallOwner(h)'
      BY <1>1, BeginShape DEF CallOwner, Giving, Deploying, Outside, Entries
    <2>3. \A g \in Handlers \ {h} : pc'[g] = pc[g] /\ job'[g] = job[g]
      BY <1>1, BeginShape
    <2>4. \A g \in Handlers \ {h} : CallOwner(g)'
      BY <2>1, <2>3, CallOwnerKept DEF OwnerInv
    <2> QED
      BY <2>1, <2>2, <2>3, <2>4, OwnersKept
  \* Only the call that takes a step under the lock can know anything of a tranche.
  <1>2. ASSUME NEW h \in Handlers, Step(h)
        PROVE  \A g \in Handlers \ {h} : CallOwner(g)' /\ pc[g] # "consume" /\ pc'[g] # "consume"
    BY <1>2, OthersOutside DEF CallOwner, Giving, Deploying, Outside
  <1>3. ASSUME NEW h \in Handlers, Step(h), UNCHANGED <<nodes, tranches>>, CallOwner(h)',
               pc[h] # "consume", pc'[h] # "consume"
        PROVE  OwnerInv'
    BY <1>2, <1>3, OwnersKept
  <1>4. ASSUME NEW h \in Handlers, Step(h), UNCHANGED <<nodes, tranches>>,
               pc[h] # "consume", pc'[h] \notin Working
        PROVE  OwnerInv'
    BY <1>3, <1>4 DEF CallOwner, Giving, Deploying, Working
  <1>5. ASSUME NEW h \in Handlers, DepositList(h) \/ NodeList(h) \/ NodeStatus(h) \/
               BeaconsDone(h) \/ PickTarget(h)
        PROVE  OwnerInv'
    <2>1. UNCHANGED <<nodes, tranches>> /\ pc[h] # "consume" /\ pc'[h] \notin Working
      BY <1>5 DEF DepositList, NodeList, NodeStatus, BeaconsDone, PickTarget, Target, At, Return,
         Goto, ledger, CallsOK, Working
    <2> QED
      BY <1>4, <1>5, <2>1 DEF Step
  <1>6. ASSUME NEW h \in Handlers, MakeDeposits(h) \/ WriteTranche(h)
        PROVE  OwnerInv'
    <2>1. /\ UNCHANGED <<nodes, tranches>>
          /\ pc[h] # "consume" /\ pc'[h] \in {"idle", "write", "insert"}
      BY <1>6 DEF MakeDeposits, WriteTranche, At, Goto, Fail, Return, CallsOK
    <2>2. CallOwner(h)'
      BY <2>1 DEF CallOwner, Giving, Deploying
    <2> QED
      BY <1>3, <1>6, <2>1, <2>2 DEF Step
  <1>7. ASSUME NEW h \in Handlers, DeployBeacon(h)
        PROVE  OwnerInv'
    <2>1. /\ UNCHANGED <<nodes, tranches>> /\ pc[h] # "consume"
          /\ \/ pc'[h] = "idle"
             \/ pc'[h] = "create" /\ job'[h].name.type = "Beacon"
      BY <1>7, RequestTyped DEF DeployBeacon, NameBeacon, At, Goto, Return, ledger, CallsOK, JobType,
         Name
    <2>2. CallOwner(h)' /\ pc'[h] # "consume"
      BY <2>1 DEF CallOwner, Giving, Deploying
    <2> QED
      BY <1>3, <1>7, <2>1, <2>2 DEF Step
  <1>8. ASSUME NEW h \in Handlers, SelectTranche(h)
        PROVE  OwnerInv'
    <2> DEFINE index == req[h].tranche
    <2>1. /\ UNCHANGED <<nodes, tranches>> /\ pc[h] # "consume"
          /\ \/ pc'[h] = "idle"
             \/ /\ pc'[h] = "name"
                /\ job'[h] = [job[h] EXCEPT !.index = index, !.accounts = tranches[index].accounts]
      BY <1>8 DEF SelectTranche, At, Goto, Return, ledger, CallsOK
    <2>2. \/ pc'[h] = "idle"
          \/ pc'[h] = "name" /\ job'[h].accounts = tranches[job'[h].index].accounts
      BY <2>1, RequestTyped DEF JobType
    <2>3. CallOwner(h)' /\ pc'[h] # "consume"
      BY <2>1, <2>2 DEF CallOwner, Giving, Deploying
    <2> QED
      BY <1>3, <1>8, <2>1, <2>3 DEF Step
  <1>9. ASSUME NEW h \in Handlers, NameValidator(h) \/ StartContainer(h) \/ InspectContainer(h)
        PROVE  OwnerInv'
    <2>1. UNCHANGED <<containers, nodes, tranches>> /\ pc[h] # "consume" /\ pc'[h] # "consume"
      BY <1>9 DEF NameValidator, StartContainer, InspectContainer, ContainerStart, At, Goto, Fail,
         Return, ledger, engine, CallsOK
    <2>2. \/ pc'[h] = "idle"
          \/ /\ pc[h] = "name" /\ pc'[h] = "create"
             /\ job'[h].index = job[h].index /\ job'[h].accounts = job[h].accounts
          \/ /\ pc[h] \in {"start", "inspect"} /\ pc'[h] \in {"inspect", "register"}
             /\ job'[h] = job[h]
      BY <1>9, RequestTyped DEF NameValidator, StartContainer, InspectContainer, At, Goto, Fail,
         Return, CallsOK, JobType
    <2>3. CallOwner(h)'
      BY <2>1, <2>2 DEF OwnerInv, CallOwner, Giving, Deploying
    <2> QED
      BY <1>3, <1>9, <2>1, <2>3 DEF Step
  <1>10. ASSUME NEW h \in Handlers, CreateContainer(h)
         PROVE  OwnerInv'
    <2>1. UNCHANGED <<nodes, tranches>> /\ pc[h] = "create" /\ pc'[h] \in {"idle", "start"}
      BY <1>10 DEF CreateContainer, At, Goto, Fail, Return, ledger, CallsOK
    <2>2. CASE pc'[h] = "idle"
      BY <1>4, <1>10, <2>1, <2>2 DEF Step, Working
    <2>3. CASE pc'[h] = "start"
      <3>1. /\ containers' = Append(containers, [name   |-> job[h].name,
                                                 keys   |-> job[h].accounts,
                                                 target |-> job[h].target])
            /\ job'[h].id = Len(containers) + 1
            /\ job'[h].name = job[h].name /\ job'[h].index = job[h].index
            /\ job'[h].accounts = job[h].accounts
        BY <1>10, <2>3, RequestTyped DEF CreateContainer, ContainerCreate, NextContainer, Fail,
           Return, CallsOK, JobType
      <3>2. containers'[job'[h].id].keys = job'[h].accounts
        BY <3>1 DEF EngineOK
      <3>3. CallOwner(h)'
        BY <2>1, <2>3, <3>1, <3>2 DEF OwnerInv, CallOwner, Giving, Deploying
      <3> QED
        BY <1>3, <1>10, <2>1, <2>3, <3>3 DEF Step
    <2> QED
      BY <2>1, <2>2, <2>3
  <1>11. ASSUME NEW h \in Handlers, InsertTranche(h)
         PROVE  OwnerInv'
    <2>0. PICK index : index = job[h].index
      OBVIOUS
    <2>1. index \notin DOMAIN tranches
      <3>1. index = Cardinality(DOMAIN tranches) /\ index \in Nat
        BY <1>11, <2>0, FS_CardinalityType DEF InsertTranche, At, LedgerInv, CallLedger, LedgerOK
      <3> QED
        BY <3>1 DEF LedgerInv, Indexed
    <2>2. /\ UNCHANGED nodes
          /\ pc[h] = "insert" /\ pc'[h] \in {"idle", "name"}
          /\ pc'[h] = "name" => job' = job
          /\ DOMAIN tranches' = DOMAIN tranches \cup {index}
          /\ \A t \in DOMAIN tranches : tranches'[t] = tranches[t]
          /\ tranches'[index].accounts = job[h].accounts
          /\ tranches'[index].validator = NoName
      BY <1>11, <2>0, <2>1 DEF InsertTranche, At, Put, Goto, Return, CallsOK
    <2>3. CallOwner(h)'
      BY <2>0, <2>2 DEF CallOwner, Giving, Deploying
    <2>4. \A i \in OfType("Validator") : ~BeingConsumed(i)' => ~BeingConsumed(i)
      BY <1>2, <1>11, <2>2 DEF Step, BeingConsumed
    <2>5. \A i \in OfType("Validator") : NodeName(i) # NoName
      BY DEF OfType, NodeName, NoName, Name
    <2>6. ValidatorsOwn'
      <3>1. \A i \in OfType("Validator") : ~BeingConsumed(i) => OwnsOne(NodeName(i))
        BY DEF OwnerInv, ValidatorsOwn
      <3>2. \A name : name # NoName /\ OwnsOne(name) => OwnsOne(name)'
        BY <2>1, <2>2 DEF OwnsOne
      <3> QED
        BY <2>2, <2>4, <2>5, <3>1, <3>2, ValidatorsKept DEF ValidatorsOwn
    <2>7. TranchesOwned'
      <3>1. \A i \in DOMAIN nodes : \A name, keys :
               OwnerNode(i, name, keys) => OwnerNode(i, name, keys)'
        BY OwnerStays
      <3> QED
        BY <2>2, <3>1 DEF OwnerInv, TranchesOwned
    <2> QED
      BY <1>2, <1>11, <2>3, <2>6, <2>7 DEF Step, OwnerInv
  <1>12. ASSUME NEW h \in Handlers, Register(h)
         PROVE  OwnerInv'
    <2>0. PICK new, id, name, keys : /\ new = Len(nodes) + 1 /\ id = job[h].id
                                    /\ name = job[h].name /\ keys = job[h].accounts
      OBVIOUS
    <2>1. /\ pc[h] = "register" /\ nodes' = Append(nodes, id)
          /\ UNCHANGED <<containers, tranches>>
      BY <1>12, <2>0 DEF Register, At, engine, ledger
    <2>2. /\ id \in 1..Len(containers)
          /\ containers[id].name = name /\ containers[id].keys = keys
      BY <2>0, <2>1 DEF JobInv, NameInv, OwnerInv, CallOwner
    <2>3. /\ DOMAIN nodes' = DOMAIN nodes \cup {new} /\ new \notin DOMAIN nodes
          /\ nodes'[new] = id
      BY <2>0, <2>1, <2>2, AppendNode
    <2>4. name.type = "Validator" => OwnerNode(new, name, keys)'
      BY <2>1, <2>2, <2>3 DEF OwnerNode, OfType, NodeName
    <2>5. \/ /\ pc'[h] = "beacons" /\ name.type = "Beacon"
          \/ /\ pc'[h] = "consume" /\ name.type = "Validator"
             /\ job'[h].id = id /\ job'[h].name = name
             /\ job'[h].index = job[h].index /\ job'[h].accounts = keys
      BY <1>12, <2>0, RequestTyped DEF Register, Goto, CallsOK, JobType
    <2>6. CallOwner(h)'
      BY <2>0, <2>1, <2>3, <2>4, <2>5 DEF OwnerInv, CallOwner, Giving, Deploying
    <2>7. TranchesOwned'
      <3>1. \A i \in DOMAIN nodes : \A n, k : OwnerNode(i, n, k) => OwnerNode(i, n, k)'
        BY OwnerStays
      <3> QED
        BY <2>1, <2>3, <3>1 DEF OwnerInv, TranchesOwned
    <2>8. new \in OfType("Validator")' => BeingConsumed(new)'
      <3>1. new \in OfType("Validator")' => name.type = "Validator"
        BY <2>1, <2>2, <2>3 DEF OfType
      <3> QED
        BY <2>3, <2>5, <3>1 DEF BeingConsumed
    <2>9. ASSUME NEW i \in OfType("Validator")', i # new, ~BeingConsumed(i)'
          PROVE  OwnsOne(NodeName(i))'
      <3>1. i \in DOMAIN nodes
        BY <2>3, <2>9 DEF OfType
      <3>2. ~BeingConsumed(i)
        BY <1>2, <1>12, <2>1 DEF Step, BeingConsumed
      <3>3. i \in OfType("Validator") /\ NodeName(i)' = NodeName(i)
        BY <3>1, OwnerStays
      <3>4. OwnsOne(NodeName(i))
        BY <3>2, <3>3 DEF OwnerInv, ValidatorsOwn
      <3> QED
        BY <2>1, <3>3, <3>4 DEF OwnsOne
    <2>10. ValidatorsOwn'
      BY <2>8, <2>9 DEF ValidatorsOwn
    <2> QED
      BY <1>2, <1>12, <2>6, <2>7, <2>10 DEF Step, OwnerInv
  <1>13. ASSUME NEW h \in Handlers, Consume(h)
         PROVE  OwnerInv'
    <2>0. PICK index, name : index = job[h].index /\ name = job[h].name
      OBVIOUS
    <2>1. /\ pc[h] = "consume" /\ pc'[h] = "idle"
          /\ UNCHANGED <<containers, nodes>>
          /\ index \in DOMAIN tranches
          /\ tranches[index].validator = NoName
          /\ tranches[index].accounts = job[h].accounts
      BY <1>13, <2>0 DEF Consume, At, Return, engine, CallsOK, LedgerInv, CallLedger, OwnerInv,
         CallOwner, Giving, IsConsumed
    <2>2. /\ name.type = "Validator" /\ name # NoName
          /\ \A t \in DOMAIN tranches : tranches[t].validator # name
      <3>1. /\ name.type = "Validator"
            /\ \A t \in DOMAIN tranches : tranches[t].validator # NoName =>
                  tranches[t].validator.num < name.num
        BY <2>0, <2>1 DEF LedgerInv, CallLedger, IsConsumed
      <3>2. name.num \in Nat
        BY <2>0, RequestTyped DEF JobType, Names
      <3>3. name # NoName
        BY <3>1 DEF NoName, Name
      <3> QED
        BY <3>1, <3>2, <3>3
    <2>3. /\ DOMAIN tranches' = DOMAIN tranches
          /\ \A t \in DOMAIN tranches :
                /\ tranches'[t].accounts = tranches[t].accounts
                /\ tranches'[t].validator = IF t = index THEN name ELSE tranches[t].validator
      BY <1>13, <2>0 DEF Consume, LedgerOK, TrancheType
    <2>4. PICK c \in DOMAIN nodes : nodes[c] = job[h].id /\ OwnerNode(c, name, job[h].accounts)
      BY <2>0, <2>1 DEF OwnerInv, CallOwner
    <2>5. CallOwner(h)'
      BY <2>1 DEF CallOwner, Giving, Deploying
    <2>6. TranchesOwned'
      <3>1. \A i \in DOMAIN nodes : \A n, k : OwnerNode(i, n, k) => OwnerNode(i, n, k)'
        BY OwnerStays
      <3>2. OwnerNode(c, name, tranches[index].accounts)'
        <4>1. OwnerNode(c, name, tranches[index].accounts)
          BY <2>1, <2>4
        <4> QED
          BY <2>1, <2>3, <3>1, <4>1
      <3> QED
        BY <2>1, <2>3, <3>1, <3>2 DEF OwnerInv, TranchesOwned
    <2>7. ASSUME NEW i \in OfType("Validator")
          PROVE  OwnsOne(NodeName(i))'
      <3>1. NodeName(i)' = NodeName(i)
        BY <2>1, ValidatorsKept
      <3>2. CASE NodeName(i) = name
        BY <2>1, <2>2, <2>3, <3>1, <3>2 DEF OwnsOne
      <3>3. CASE NodeName(i) # name
        <4>1. nodes[i] # job[h].id
          BY <2>4, <3>3 DEF OwnerNode, NodeName
        <4>2. ~BeingConsumed(i)
          BY <1>2, <1>13, <4>1 DEF Step, BeingConsumed
        <4>3. OwnsOne(NodeName(i))
          BY <4>2 DEF OwnerInv, ValidatorsOwn
        <4>4. NodeName(i) # NoName
          BY DEF OfType, NodeName, NoName, Name
        <4>5. \A t \in DOMAIN tranches :
                 tranches'[t].validator = NodeName(i) <=> tranches[t].validator = NodeName(i)
          BY <2>1, <2>3, <3>3, <4>4
        <4> QED
          BY <2>3, <3>1, <4>3, <4>5 DEF OwnsOne
      <3> QED
        BY <3>2, <3>3
    <2>8. ValidatorsOwn'
      BY <2>1, <2>7, ValidatorsKept DEF ValidatorsOwn
    <2> QED
      BY <1>2, <1>13, <2>5, <2>6, <2>8 DEF Step, OwnerInv
  <1>14. CASE Environment
    <2>1. UNCHANGED <<pc, job, nodes, tranches>>
      BY <1>14, EnvironmentShape DEF ledger
    <2> QED
      BY <2>1, CallOwnerKept, OwnersKept DEF OwnerInv
  <1> QED
    BY <1>1, <1>5, <1>6, <1>7, <1>8, <1>9, <1>10, <1>11, <1>12, <1>13, <1>14, NextShape DEF Step

LEMMA OwnerInvConsistent ==
    ASSUME OwnerInv
    PROVE  OwnershipConsistent
  <1>1. \A t \in DOMAIN tranches : IsConsumed(tranches[t]) =>
           \E i \in OfType("Validator") :
               /\ NodeName(i) = tranches[t].validator
               /\ containers[nodes[i]].keys = tranches[t].accounts
    BY DEF OwnerInv, TranchesOwned, OwnerNode, IsConsumed
  <1>2. ASSUME NEW i \in OfType("Validator"), ~BeingConsumed(i)
        PROVE  Cardinality({t \in DOMAIN tranches : tranches[t].validator = NodeName(i)}) = 1
    <2>1. PICK t0 \in DOMAIN tranches :
             \A t \in DOMAIN tranches : tranches[t].validator = NodeName(i) <=> t = t0
      BY <1>2 DEF OwnerInv, ValidatorsOwn, OwnsOne
    <2>2. {t \in DOMAIN tranches : tranches[t].validator = NodeName(i)} = {t0}
      BY <2>1
    <2> QED
      BY <2>2, FS_Singleton
  <1> QED
    BY <1>1, <1>2 DEF OwnershipConsistent

\* A consumed tranche belongs to the validator client that runs its keys, and a
\* registered validator client has consumed exactly one, for any number of calls.
THEOREM OwnersAreConsistent == Spec => []OwnershipConsistent
  BY InitIInv, NextIInv, InitOwner, NextOwner, OwnerInvConsistent, PTL DEF Spec
-----------------------------------------------------------------------------
(* Server deploys as Deployment says. *)

\* Nobody else creates a container while a call deploys its own.
LastInv == \A h \in Handlers : pc[h] \in {"start", "inspect", "register"}
                                   => job[h].id = Len(containers)

LEMMA InitDeployments == Init => LastInv /\ Promise!Init
  <1> SUFFICES ASSUME Init PROVE LastInv /\ Promise!Init
    OBVIOUS
  <1>1. LastInv
    BY DEF Init, InitWith, LastInv
  <1>2. Stage = "idle"
    BY HandlersAssumption DEF Init, InitWith, Stage, StageOf
  <1>3. Len(containers) = 3 /\ running \subseteq 1..3 /\ nodes = <<1, 2, 3>>
    BY DEF Init, InitWith
  <1>4. <<1, 2, 3>> = [i \in 1..3 |-> i]
    OBVIOUS
  <1> QED
    BY <1>1, <1>2, <1>3, <1>4 DEF Promise!Init

\* The stage is that of the call that takes a step, before it and after.
LEMMA StepStage ==
    ASSUME CallsOK, LockInv, NEW h \in Handlers, Step(h)
    PROVE  Stage = StageOf(pc[h]) /\ Stage' = StageOf(pc'[h])
  <1>1. lock = h
    BY StepShape DEF LockInv
  <1>2. lock' = h \/ (lock' \notin Handlers /\ pc'[h] = "idle")
    BY <1>1, StepShape, HandlersAssumption
  <1> QED
    BY <1>1, <1>2 DEF Stage

\* A call that begins is none that deploys.
LEMMA BeginStage ==
    ASSUME CallsOK, NEW h \in Handlers, Begins(h)
    PROVE  Stage' = Stage
  <1>1. pc[h] \in Outside /\ pc'[h] \in Outside \cup Entries
    BY BeginShape
  <1>2. StageOf(pc[h]) = "idle" /\ StageOf(pc'[h]) = "idle" /\ StageOf("idle") = "idle"
    BY <1>1 DEF StageOf, Outside, Entries
  <1>3. \A g \in Handlers \ {h} : pc'[g] = pc[g]
    BY BeginShape
  <1>4. lock' = lock \/ (lock' = h /\ lock \notin Handlers)
    BY HandlersAssumption DEF Begins, Arrive, RefuseNoName, Lock
  <1> QED
    BY <1>2, <1>3, <1>4 DEF Stage

Unseen == UNCHANGED <<Len(containers), running, nodes, Stage>>

\* A call that fails while it deploys ends the deployment.
LEMMA FailedDeployment ==
    ASSUME NEW h \in Handlers, CallsOK, Stage = StageOf(pc[h]), Stage' = StageOf(pc'[h]),
           pc[h] \in {"create", "start", "inspect"}, pc'[h] = "idle",
           containers' = containers, nodes' = nodes,
           \/ running' = running
           \/ pc[h] = "start" /\ running' = running \cup {Len(containers)}
    PROVE  Promise!Fail
  <1>1. Stage # "idle" /\ Stage' = "idle" /\ (pc[h] = "start" => Stage = "created")
    BY DEF StageOf
  <1> QED
    BY <1>1 DEF Promise!Fail

LEMMA StepDeploys ==
    ASSUME IInv, LastInv, NEW h \in Handlers, Step(h)
    PROVE  LastInv' /\ (Promise!Next \/ Unseen)
  <1> DEFINE m == Len(containers)
  <1>0. CallsOK /\ LockInv /\ m \in Nat /\ containers \in Seq(ContainerType)
    BY DEF IInv, TypeInv, TypeOK, EngineOK
  <1>1. Stage = StageOf(pc[h]) /\ Stage' = StageOf(pc'[h])
    BY <1>0, StepStage
  <1>2. ASSUME pc'[h] \in {"start", "inspect", "register"} => job'[h].id = Len(containers')
        PROVE  LastInv'
    <2>1. \A g \in Handlers \ {h} : pc'[g] \in Outside
      BY <1>0, OthersOutside
    <2> QED
      BY <1>2, <2>1 DEF LastInv, Outside
  <1>3. ASSUME pc[h] \in {"create", "start", "inspect"}, pc'[h] = "idle",
               containers' = containers, nodes' = nodes,
               \/ running' = running
               \/ pc[h] = "start" /\ running' = running \cup {Len(containers)}
        PROVE  LastInv' /\ Promise!Next
    BY <1>0, <1>1, <1>2, <1>3, FailedDeployment DEF Promise!Next
  <1>4. CASE CreateContainer(h)
    <2>1. pc[h] = "create" /\ nodes' = nodes
      BY <1>4 DEF CreateContainer, At
    <2>2. CASE Goto(h, "start") /\ job' = [job EXCEPT ![h].id = m + 1]
                 /\ \E c : ContainerCreate(c)
      <3>1. pc'[h] = "start" /\ Len(containers') = m + 1 /\ running' = running
        BY <1>0, <2>2 DEF Goto, CallsOK, ContainerCreate
      <3>2. job'[h].id = m + 1
        BY <1>0, <2>2 DEF CallsOK, JobType
      <3>3. Promise!Create
        BY <1>1, <2>1, <3>1 DEF StageOf, Promise!Create
      <3> QED
        BY <1>2, <3>1, <3>2, <3>3 DEF Promise!Next
    <2>3. CASE Fail(h, "create") /\ UNCHANGED engine
      BY <1>0, <1>3, <2>1, <2>3 DEF Fail, Return, CallsOK, engine
    <2> QED
      BY <1>4, <2>2, <2>3 DEF CreateContainer, NextContainer
  <1>5. CASE StartContainer(h)
    <2>1. pc[h] = "start" /\ nodes' = nodes /\ job[h].id = m
      BY <1>5 DEF StartContainer, At, LastInv
    <2>2. CASE Goto(h, "inspect") /\ ContainerStart(job[h].id) /\ UNCHANGED job
      <3>1. pc'[h] = "inspect" /\ containers' = containers /\ running' = running \cup {m} /\ job' = job
        BY <1>0, <2>1, <2>2 DEF Goto, CallsOK, ContainerStart
      <3>2. Promise!Start
        BY <1>1, <2>1, <3>1 DEF StageOf, Promise!Start
      <3> QED
        BY <1>2, <2>1, <3>1, <3>2 DEF Promise!Next
    <2>3. CASE Fail(h, "start") /\ (UNCHANGED engine \/ ContainerStart(job[h].id))
      <3>1. pc'[h] = "idle" /\ containers' = containers
        BY <1>0, <2>3 DEF Fail, Return, CallsOK, engine, ContainerStart
      <3>2. running' = running \/ running' = running \cup {m}
        BY <2>1, <2>3 DEF engine, ContainerStart
      <3> HIDE DEF m
      <3> QED
        BY <1>3, <2>1, <3>1, <3>2 DEF m
    <2> QED
      BY <1>5, <2>2, <2>3 DEF StartContainer
  <1>6. CASE InspectContainer(h)
    <2>1. pc[h] = "inspect" /\ UNCHANGED <<engine, nodes>> /\ job[h].id = m
      BY <1>6 DEF InspectContainer, At, LastInv
    <2>2. CASE Goto(h, "register") /\ UNCHANGED job
      <3>1. pc'[h] = "register" /\ job' = job
        BY <1>0, <2>2 DEF Goto, CallsOK
      <3>2. Unseen
        BY <1>1, <2>1, <3>1 DEF StageOf, Unseen, engine
      <3> QED
        BY <1>2, <2>1, <3>1, <3>2 DEF engine
    <2>3. CASE Fail(h, "inspect")
      BY <1>0, <1>3, <2>1, <2>3 DEF Fail, Return, CallsOK, engine
    <2> QED
      BY <1>6, <2>2, <2>3 DEF InspectContainer
  <1>7. CASE Register(h)
    <2>1. /\ pc[h] = "register" /\ UNCHANGED engine /\ nodes' = Append(nodes, m)
          /\ pc'[h] \in {"beacons", "consume"}
      BY <1>0, <1>7 DEF Register, At, LastInv, Goto, CallsOK
    <2>2. Promise!Succeed
      BY <1>1, <2>1 DEF StageOf, Promise!Succeed, engine
    <2> QED
      BY <1>2, <2>1, <2>2 DEF Promise!Next
  <1>8. CASE ~(CreateContainer(h) \/ StartContainer(h) \/ InspectContainer(h) \/ Register(h))
    <2>1. /\ UNCHANGED <<engine, nodes>>
          /\ pc[h] \in Labels \ {"create", "start", "inspect", "register"}
          /\ pc'[h] \in Labels \ {"start", "inspect", "register"}
      <3>1. UNCHANGED <<engine, nodes>>
        BY <1>8 DEF Step, DepositList, NodeList, NodeStatus, MakeDeposits, WriteTranche, InsertTranche,
           DeployBeacon, NameBeacon, BeaconsDone, PickTarget, Target, SelectTranche, NameValidator, Consume
      <3>2. pc[h] \notin {"create", "start", "inspect", "register"}
        BY <1>8 DEF Step, DepositList, NodeList, NodeStatus, MakeDeposits, WriteTranche, InsertTranche,
           DeployBeacon, NameBeacon, BeaconsDone, PickTarget, SelectTranche, NameValidator, Consume, At
      <3>3. pc'[h] \notin {"start", "inspect", "register"}
        <4> USE <1>0 DEF Goto, Return, Fail, CallsOK
        <4>1. CASE DepositList(h) \/ NodeList(h) \/ NodeStatus(h)
          <5>1. pc' = [pc EXCEPT ![h] = "idle"] \/ pc' = pc
            BY <4>1 DEF DepositList, NodeList, NodeStatus
          <5> QED
            BY <3>2, <5>1
        <4>2. CASE MakeDeposits(h) \/ WriteTranche(h) \/ InsertTranche(h)
          BY <4>2 DEF MakeDeposits, WriteTranche, InsertTranche
        <4>3. CASE DeployBeacon(h) \/ BeaconsDone(h)
          BY <4>3 DEF DeployBeacon, NameBeacon, BeaconsDone
        <4>4. CASE PickTarget(h) \/ SelectTranche(h)
          BY <4>4 DEF PickTarget, Target, SelectTranche
        <4>5. CASE NameValidator(h) \/ Consume(h)
          BY <4>5 DEF NameValidator, Consume
        <4> QED
          BY <1>8, <4>1, <4>2, <4>3, <4>4, <4>5 DEF Step
      <3>4. pc[h] \in Labels /\ pc'[h] \in Labels
        BY <1>0, NextTyped DEF IInv, TypeInv, TypeOK, CallsOK, Next, Call
      <3> QED
        BY <3>1, <3>2, <3>3, <3>4
    <2>2. Stage = "idle" /\ Stage' \in {"idle", "asked"}
      BY <1>1, <2>1 DEF StageOf
    <2> QED
      BY <1>2, <2>1, <2>2 DEF Promise!Next, Promise!Ask, Unseen, engine
  <1> QED
    BY <1>4, <1>5, <1>6, <1>7, <1>8

LEMMA NextDeploys ==
    ASSUME IInv, LastInv, [Next]_vars
    PROVE  LastInv' /\ (Promise!Next \/ Unseen)
  <1>0. CallsOK
    BY DEF IInv, TypeInv, TypeOK
  <1>1. ASSUME NEW h \in Handlers, Begins(h)
        PROVE  LastInv' /\ Unseen
    <2>1. /\ pc'[h] \notin {"start", "inspect", "register"}
          /\ \A g \in Handlers \ {h} : pc'[g] = pc[g] /\ job'[g] = job[g]
          /\ UNCHANGED <<engine, nodes>>
      BY <1>0, <1>1, BeginShape DEF Outside, Entries
    <2>2. Stage' = Stage
      BY <1>0, <1>1, BeginStage
    <2> QED
      BY <2>1, <2>2 DEF LastInv, Unseen, engine
  <1>2. CASE Environment
    <2>1. UNCHANGED <<containers, lock, pc, job, nodes>>
      BY <1>2, EnvironmentShape
    <2>2. LastInv' /\ Stage' = Stage
      BY <2>1 DEF LastInv, Stage
    <2>3. running' = running \/ \E k \in running : running' = running \ {k}
      BY <1>2 DEF Environment, Signal, Stop, StopNode, Exit, SecondSignal, NodeExit, ContainerExit,
         ContainerStop, Terminated, vars, engine
    <2> QED
      BY <2>1, <2>2, <2>3 DEF Promise!Next, Promise!Exit, Unseen
  <1> QED
    BY <1>1, <1>2, StepDeploys, NextShape

\* For any number of goroutines and calls, and whatever Stop and exits do meanwhile, the
\* agent deploys one node at a time, which is the promise that module Testnet shows the driver
\* to keep: a container is registered once, after it was started, and nobody starts another's.
THEOREM AgentDeploysInTurn == Spec => DeploymentSpec
  <1>1. IInv /\ LastInv /\ [Next]_vars => LastInv'
    BY NextDeploys
  <1>2. IInv /\ LastInv /\ [Next]_vars
            => [Promise!Next]_<<Len(containers), running, nodes, Stage>>
    BY NextDeploys DEF Unseen
  <1> QED
    BY <1>1, <1>2, InitIInv, NextIInv, InitDeployments, PTL DEF Spec, DeploymentSpec, Promise!Spec
=============================================================================
