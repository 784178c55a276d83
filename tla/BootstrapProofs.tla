-------------------------- MODULE BootstrapProofs --------------------------
(***************************************************************************)
(* Theorems about Bootstrap and Genesis, for any counts, times and flags,  *)
(* and any number of starts.  The clock and the specification of the       *)
(* network only restrict the bootstrap, so that what is proved of Spec     *)
(* holds of GenesisSpec; and the beacon nodes are told of the genesis      *)
(* there is.                                                               *)
(***************************************************************************)
EXTENDS Genesis, FiniteSetTheorems, TLAPS

-----------------------------------------------------------------------------
(* TypeOK in three parts, each with what it needs to be inductive. *)

ControlInv ==
    /\ config \in Configs
    /\ proc \in {"starting", "serving", "failed", "crashed", "killed"}
    /\ starts \in 1..MaxStarts
    /\ step \in Labels
    /\ expired \in BOOLEAN /\ dir \in BOOLEAN
    /\ batch \in Nat

\* What a node is created from.
Specs == [node : {BootnodeV5, BootnodeV4, Eth1}]

\* A node is deployed while some are left, and past its creation its container exists.
NodeInv ==
    /\ containers \in Seq(Specs)
    /\ running \subseteq 1..Len(containers) /\ ready \subseteq 1..Len(containers)
    /\ id \in 0..Len(containers)
    /\ nodes \in Seq(1..Len(containers)) /\ Len(nodes) <= Eth1
    /\ enr \in {NoAddress, "enr"} /\ enode \in {NoAddress, "enode"}
    /\ waited \subseteq watched /\ watched \subseteq 1..Len(containers)
    /\ step \in {"begin", "create", "start", "inspect", "retry"} => Len(nodes) < Eth1
    /\ step \in {"start", "inspect", "retry"} => id \in 1..Len(containers)

\* The first n numbers.
Below(n) == 0..(n - 1)

\* The tranches are numbered from zero without a gap, and come last.
TrancheInv ==
    /\ \E n \in 0..config.tranches : DOMAIN tranches = Below(n)
    /\ step \notin {"tranches", "listen"} => DOMAIN tranches = {}

\* While tranches are created the files on the disk are theirs, and before that there are
\* none: the directory of an earlier run, which may hold some, would have been refused.
FilesInv ==
    /\ ~dir => DOMAIN files = {}
    /\ proc = "starting" /\ step # "begin" => dir /\ DOMAIN files = DOMAIN tranches

TypeInv == ControlInv /\ NodeInv /\ TrancheInv

LEMMA CountsTyped == \A c \in Configs : c.tranches \in Nat /\ c.validators \in Nat
  BY ConfigsAssumption

LEMMA EmptyDomain == DOMAIN <<>> = {}
  OBVIOUS

LEMMA EmptySeq == Len(<<>>) = 0 /\ \A S : <<>> \in Seq(S)
  OBVIOUS

LEMMA MaxStartsTyped == MaxStarts \in Nat /\ MaxStarts >= 1
  BY StartsAssumption

LEMMA NumOfTranches ==
    ASSUME NEW n \in Nat, DOMAIN tranches = Below(n)
    PROVE  Cardinality(DOMAIN tranches) = n
  BY FS_Interval DEF Below

LEMMA TypeInvTypes == TypeInv => TypeOK
  <1> SUFFICES ASSUME TypeInv PROVE TypeOK
    OBVIOUS
  <1>1. DOMAIN tranches \subseteq 0..(config.tranches - 1)
    BY CountsTyped DEF TypeInv, ControlInv, TrancheInv, Below
  <1> QED
    BY <1>1 DEF TypeInv, ControlInv, NodeInv, Specs, TypeOK

-----------------------------------------------------------------------------
(* Type correctness. *)

LEMMA InitTyped == Init => TypeInv
  <1> SUFFICES ASSUME Init PROVE TypeInv
    OBVIOUS
  <1>1. ControlInv
    <2>1. /\ config \in Configs /\ proc = "starting" /\ starts = 1 /\ step = "begin" /\ batch = 0
      BY DEF Init
    <2>2. expired \in BOOLEAN /\ dir \in BOOLEAN
      BY DEF Init
    <2> QED
      BY <2>1, <2>2, MaxStartsTyped DEF ControlInv, Labels
  <1>2. NodeInv
    <2>1. /\ containers = <<>> /\ running = {} /\ ready = {} /\ id = 0 /\ nodes = <<>>
          /\ enr = NoAddress /\ enode = NoAddress /\ waited = {} /\ watched = {} /\ step = "begin"
      BY DEF Init, NoContainer
    <2> QED
      BY <2>1, EmptySeq DEF NodeInv, Eth1
  <1>3. TrancheInv
    <2>1. tranches = <<>> /\ config.tranches \in Nat
      BY CountsTyped DEF Init
    <2> QED
      BY <2>1, EmptyDomain DEF TrancheInv, Below
  <1> QED
    BY <1>1, <1>2, <1>3 DEF TypeInv

LEMMA NextControl == TypeInv /\ [Next]_vars => ControlInv'
  <1> SUFFICES ASSUME TypeInv, [Next]_vars PROVE ControlInv'
    OBVIOUS
  <1> USE DEF TypeInv, ControlInv, At, Goto, Fail, Labels, memory, disk
  <1>1. CASE Begin
    BY <1>1 DEF Begin
  <1>2. CASE CreateNode \/ StartNode \/ InspectNode
    BY <1>2 DEF CreateNode, StartNode, InspectNode
  <1>3. CASE Poll
    BY <1>3 DEF Poll, Register
  <1>4. CASE NodeStopped \/ GiveUp \/ Expire \/ CloseWaitCh
    BY <1>4 DEF NodeStopped, GiveUp, Expire, CloseWaitCh
  <1>5. CASE DeployContract \/ SetupGenesis \/ SetupGrpcServer
    BY <1>5 DEF DeployContract, SetupGenesis, SetupGrpcServer
  <1>6. CASE CreateTranche
    BY <1>6 DEF CreateTranche
  <1>7. CASE Kill \/ ContainerReady \/ NodeExit
    BY <1>7 DEF Kill, ContainerReady, NodeExit
  <1>8. CASE Restart
    <2>1. /\ config' \in Configs /\ batch' = batch /\ proc' = "starting" /\ step' = "begin"
          /\ starts < MaxStarts /\ starts' = starts + 1
      BY <1>8 DEF Restart
    <2>2. expired' \in BOOLEAN /\ dir' \in BOOLEAN
      BY <1>8 DEF Restart
    <2> QED
      BY <2>1, <2>2, MaxStartsTyped
  <1>9. CASE Terminated \/ UNCHANGED vars
    BY <1>9 DEF Terminated, vars
  <1> QED
    BY <1>1, <1>2, <1>3, <1>4, <1>5, <1>6, <1>7, <1>8, <1>9 DEF Next, NewServer

\* A step that leaves the containers, the nodes and the position alone keeps NodeInv.
LEMMA NodesUntouched ==
    ASSUME NodeInv, UNCHANGED <<containers, id, nodes, enr, enode, watched>>,
           running' \subseteq 1..Len(containers), ready' \subseteq 1..Len(containers),
           waited' \subseteq watched,
           step' # step => step' \notin {"begin", "create", "start", "inspect", "retry"}
    PROVE  NodeInv'
  BY DEF NodeInv

LEMMA NextNode == TypeInv /\ [Next]_vars => NodeInv'
  <1> SUFFICES ASSUME TypeInv, [Next]_vars PROVE NodeInv'
    OBVIOUS
  <1>0. NodeInv /\ step \in Labels
    BY DEF TypeInv, ControlInv, NodeInv
  <1> USE DEF At, Goto, Fail, memory, disk, engine
  <1>1. CASE Begin
    BY <1>0, <1>1 DEF Begin, NodeInv
  <1>2. CASE CreateNode
    <2>1. CASE ContainerCreate(NodeSpec(deploying)) /\ id' = NextContainer /\ Goto("start")
      <3> DEFINE m == Len(containers)
      <3>1. /\ UNCHANGED <<running, ready, nodes, enr, enode, watched, waited>>
            /\ step = "create" /\ step' = "start"
        BY <1>2, <2>1 DEF CreateNode, ContainerCreate
      <3>2. NodeSpec(deploying) \in Specs
        <4>1. Len(nodes) \in Nat /\ Len(nodes) < Eth1
          BY <1>0, <3>1 DEF NodeInv
        <4>2. deploying \in {1, 2, 3}
          BY <4>1 DEF deploying, Eth1
        <4> QED
          BY <4>2 DEF Specs, NodeSpec, BootnodeV5, BootnodeV4, Eth1
      <3>3. containers' \in Seq(Specs) /\ Len(containers') = m + 1 /\ m \in Nat
        <4>1. containers' = Append(containers, NodeSpec(deploying)) /\ containers \in Seq(Specs)
          BY <1>0, <2>1 DEF NodeInv, ContainerCreate
        <4> QED
          BY <3>2, <4>1
      <3>4. 1..m \subseteq 1..(m + 1) /\ id' = m + 1
        BY <2>1, <3>3 DEF NextContainer
      <3>5. nodes \in Seq(1..(m + 1))
        <4>1. nodes \in Seq(1..m)
          BY <1>0 DEF NodeInv
        <4> QED
          BY <3>4, <4>1
      <3> QED
        BY <1>0, <3>1, <3>2, <3>3, <3>4, <3>5 DEF NodeInv
    <2>2. CASE Fail /\ UNCHANGED <<engine, id>>
      BY <1>0, <1>2, <2>2, NodesUntouched DEF CreateNode, NodeInv
    <2> QED
      BY <1>2, <2>1, <2>2 DEF CreateNode
  <1>3. CASE StartNode
    BY <1>0, <1>3 DEF StartNode, ContainerStart, NodeInv
  <1>4. CASE InspectNode
    BY <1>0, <1>4 DEF InspectNode, NodeInv
  <1>5. CASE Poll
    <2>1. /\ UNCHANGED <<containers, running, ready, id, watched, waited>>
          /\ enr' \in {NoAddress, "enr"} /\ enode' \in {NoAddress, "enode"}
      BY <1>0, <1>5 DEF Poll, NodeInv
    <2>2. /\ Len(nodes) \in Nat /\ Len(nodes) < Eth1
          /\ nodes' = Append(nodes, id) /\ id \in 1..Len(containers)
          /\ step' = IF deploying = Eth1 THEN "contract" ELSE "create"
      BY <1>0, <1>5 DEF Poll, Register, NodeInv
    <2>3. /\ nodes' \in Seq(1..Len(containers)) /\ Len(nodes') = Len(nodes) + 1
      BY <1>0, <2>2 DEF NodeInv
    <2> QED
      BY <1>0, <2>1, <2>2, <2>3 DEF NodeInv, deploying, Eth1
  <1>6. CASE NodeStopped \/ GiveUp \/ Expire
    BY <1>0, <1>6, NodesUntouched DEF NodeStopped, GiveUp, Expire, NodeInv
  <1>7. CASE CloseWaitCh
    BY <1>0, <1>7, NodesUntouched DEF CloseWaitCh, NodeInv
  <1>8. CASE DeployContract \/ SetupGenesis \/ SetupGrpcServer
    BY <1>0, <1>8, NodesUntouched DEF DeployContract, SetupGenesis, SetupGrpcServer, NodeInv
  <1>9. CASE CreateTranche
    BY <1>0, <1>9, NodesUntouched DEF CreateTranche, NodeInv
  <1>10. CASE Kill \/ ContainerReady \/ NodeExit
    BY <1>0, <1>10, NodesUntouched DEF Kill, ContainerReady, NodeExit, ContainerExit, NodeInv
  <1>11. CASE Restart
    <2>1. /\ UNCHANGED <<containers, running, ready>> /\ step' = "begin" /\ id' = 0
          /\ nodes' = <<>> /\ enr' = NoAddress /\ enode' = NoAddress /\ waited' = {} /\ watched' = {}
      BY <1>11 DEF Restart, NoContainer
    <2> QED
      BY <1>0, <2>1, EmptySeq DEF NodeInv, Eth1
  <1>12. CASE Terminated \/ UNCHANGED vars
    BY <1>0, <1>12, NodesUntouched DEF Terminated, vars, NodeInv
  <1> QED
    BY <1>1, <1>2, <1>3, <1>4, <1>5, <1>6, <1>7, <1>8, <1>9, <1>10, <1>11, <1>12
       DEF Next, NewServer

\* The next tranche takes the next number.
LEMMA AddTranche ==
    ASSUME TypeInv, CreateTranche, tranches' # tranches
    PROVE  \E n \in Nat : /\ n < config.tranches
                          /\ DOMAIN tranches = Below(n)
                          /\ DOMAIN tranches' = Below(n + 1)
  <1>1. PICK n \in 0..config.tranches : DOMAIN tranches = Below(n)
    BY DEF TypeInv, TrancheInv
  <1>2. config.tranches \in Nat /\ n \in Nat
    BY <1>1, CountsTyped DEF TypeInv, ControlInv
  <1>3. Cardinality(DOMAIN tranches) = n
    BY <1>1, <1>2, NumOfTranches
  <1>4. n < config.tranches
    BY <1>3 DEF CreateTranche, MoreTranches
  <1>5. DOMAIN tranches' = DOMAIN tranches \cup {n}
    BY <1>3 DEF CreateTranche, Put
  <1> QED
    BY <1>1, <1>2, <1>4, <1>5 DEF Below

LEMMA NextTranche == TypeInv /\ [Next]_vars => TrancheInv'
  <1> SUFFICES ASSUME TypeInv, [Next]_vars PROVE TrancheInv'
    OBVIOUS
  <1>0. TrancheInv /\ step \in Labels
    BY DEF TypeInv, ControlInv
  <1> USE DEF At, Goto, Fail, memory
  <1>1. ASSUME UNCHANGED <<tranches, config>>,
               step' # step => step \notin {"tranches", "listen"} \/ step' = "listen"
        PROVE  TrancheInv'
    BY <1>0, <1>1 DEF TrancheInv
  <1>2. CASE Begin \/ CreateNode \/ StartNode \/ InspectNode
    BY <1>1, <1>2 DEF Begin, CreateNode, StartNode, InspectNode
  <1>3. CASE Poll
    BY <1>1, <1>3 DEF Poll, Register
  <1>4. CASE NodeStopped \/ GiveUp \/ Expire \/ CloseWaitCh
    BY <1>1, <1>4 DEF NodeStopped, GiveUp, Expire, CloseWaitCh
  <1>5. CASE DeployContract \/ SetupGenesis \/ SetupGrpcServer
    BY <1>1, <1>5 DEF DeployContract, SetupGenesis, SetupGrpcServer
  <1>6. CASE CreateTranche
    <2>1. CASE tranches' # tranches
      <3>1. PICK n \in Nat : n < config.tranches /\ DOMAIN tranches' = Below(n + 1)
        BY <1>6, <2>1, AddTranche
      <3>2. config' = config /\ step = "tranches" /\ step' = step
        BY <1>6 DEF CreateTranche
      <3>3. n + 1 \in 0..config.tranches
        BY <3>1, CountsTyped DEF TypeInv, ControlInv
      <3> QED
        BY <3>1, <3>2, <3>3 DEF TrancheInv
    <2>2. CASE tranches' = tranches
      BY <1>1, <1>6, <2>2 DEF CreateTranche
    <2> QED
      BY <2>1, <2>2
  <1>7. CASE Kill \/ ContainerReady \/ NodeExit
    BY <1>1, <1>7 DEF Kill, ContainerReady, NodeExit
  <1>8. CASE Restart
    <2>1. config' \in Configs /\ DOMAIN tranches' = {} /\ config'.tranches \in Nat
      BY <1>8, CountsTyped, EmptyDomain DEF Restart, TypeInv, ControlInv
    <2> QED
      BY <2>1 DEF TrancheInv, Below
  <1>9. CASE Terminated \/ UNCHANGED vars
    BY <1>1, <1>9 DEF Terminated, vars
  <1> QED
    BY <1>2, <1>3, <1>4, <1>5, <1>6, <1>7, <1>8, <1>9 DEF Next, NewServer

LEMMA NextTyped == TypeInv /\ [Next]_vars => TypeInv'
  BY NextControl, NextNode, NextTranche DEF TypeInv

\* Every variable keeps its type, and no tranche is created beyond the count of the
\* configuration: the loop of setupEth1Network (server.go:152).
THEOREM TypeCorrect == Spec => []TypeOK
  <1>1. Spec => []TypeInv
    BY InitTyped, NextTyped, PTL DEF Spec
  <1> QED
    BY <1>1, TypeInvTypes, PTL

-----------------------------------------------------------------------------
(* The files of an earlier run. *)

\* The number of the next tranche is not in use.
LEMMA NumberIsFree == TypeInv => Cardinality(DOMAIN tranches) \notin DOMAIN tranches
  <1> SUFFICES ASSUME TypeInv PROVE Cardinality(DOMAIN tranches) \notin DOMAIN tranches
    OBVIOUS
  <1>1. PICK k \in 0..config.tranches : DOMAIN tranches = Below(k)
    BY DEF TypeInv, TrancheInv
  <1>2. k \in Nat /\ Cardinality(DOMAIN tranches) = k
    BY <1>1, NumOfTranches, CountsTyped DEF TypeInv, ControlInv
  <1> QED
    BY <1>1, <1>2 DEF Below

\* CreateTranche writes under a number that is not in use.
LEMMA NewFile ==
    ASSUME TypeInv, FilesInv, CreateTranche, files' # files
    PROVE  \E n, v : n \notin DOMAIN files /\ files' = Put(files, n, v)
  <1> DEFINE n == Cardinality(DOMAIN tranches)
  <1>1. DOMAIN files = DOMAIN tranches
    BY DEF FilesInv, CreateTranche, At
  <1>2. n \notin DOMAIN tranches
    BY NumberIsFree
  <1>3. \E v : files' = Put(files, n, v)
    BY DEF CreateTranche
  <1> QED
    BY <1>1, <1>2, <1>3

LEMMA InitFiles == Init => FilesInv
  BY EmptyDomain DEF Init, FilesInv

LEMMA NextFiles == TypeInv /\ FilesInv /\ [Next]_vars => FilesInv'
  <1> SUFFICES ASSUME TypeInv, FilesInv, [Next]_vars PROVE FilesInv'
    OBVIOUS
  <1> USE DEF At, Goto, Fail, memory, disk
  <1>1. ASSUME UNCHANGED <<dir, files, tranches>>,
               proc' = "starting" /\ step' # "begin" => proc = "starting" /\ step # "begin"
        PROVE  FilesInv'
    BY <1>1 DEF FilesInv
  <1>2. CASE Begin
    <2>1. TrancheInv /\ UNCHANGED <<files, tranches>>
      BY <1>2 DEF Begin, TypeInv
    <2>2. \/ ~dir /\ dir' /\ step = "begin"
          \/ dir' = dir /\ (proc' = "starting" => step' = "begin")
      BY <1>2 DEF Begin
    <2> QED
      BY <2>1, <2>2 DEF FilesInv, TrancheInv
  <1>3. CASE CreateNode \/ StartNode \/ InspectNode
    BY <1>1, <1>3 DEF CreateNode, StartNode, InspectNode
  <1>4. CASE Poll
    BY <1>1, <1>4 DEF Poll, Register
  <1>5. CASE NodeStopped \/ GiveUp \/ Expire \/ CloseWaitCh
    BY <1>1, <1>5 DEF NodeStopped, GiveUp, Expire, CloseWaitCh
  <1>6. CASE DeployContract \/ SetupGenesis \/ SetupGrpcServer
    BY <1>1, <1>6 DEF DeployContract, SetupGenesis, SetupGrpcServer
  <1>7. CASE CreateTranche
    <2> DEFINE n == Cardinality(DOMAIN tranches)
    <2>1. DOMAIN files = DOMAIN tranches /\ dir /\ dir' = dir
      BY <1>7 DEF FilesInv, CreateTranche
    <2>2. CASE proc' # "starting"
      BY <2>1, <2>2 DEF FilesInv
    <2>3. CASE proc' = "starting"
      <3>1. \E v, w : files' = Put(files, n, v) /\ tranches' = Put(tranches, n, w)
        BY <1>7, <2>3 DEF CreateTranche
      <3>2. DOMAIN files' = DOMAIN tranches'
        BY <2>1, <3>1 DEF Put
      <3> QED
        BY <2>1, <3>2 DEF FilesInv
    <2> QED
      BY <2>2, <2>3
  <1>8. CASE Kill \/ Restart \/ ContainerReady \/ NodeExit
    <2>1. UNCHANGED <<dir, files>> /\ (step' # "begin" => step' = step /\ tranches' = tranches)
      BY <1>8 DEF Kill, Restart, ContainerReady, NodeExit
    <2>2. proc' = "starting" /\ step' # "begin" => proc = "starting"
      BY <1>8 DEF Kill, Restart, ContainerReady, NodeExit
    <2> QED
      BY <2>1, <2>2 DEF FilesInv
  <1>9. CASE Terminated \/ UNCHANGED vars
    BY <1>1, <1>9 DEF Terminated, vars
  <1> QED
    BY <1>2, <1>3, <1>4, <1>5, <1>6, <1>7, <1>8, <1>9 DEF Next, NewServer

LEMMA NextKeepsFiles ==
    ASSUME TypeInv, FilesInv, [Next]_vars
    PROVE  \A i \in DOMAIN files : i \in DOMAIN files' /\ files'[i] = files[i]
  <1>1. CASE CreateTranche /\ files' # files
    <2>1. PICK n, v : n \notin DOMAIN files /\ files' = Put(files, n, v)
      BY <1>1, NewFile
    <2> QED
      BY <2>1 DEF Put
  <1>2. CASE ~CreateTranche
    <2>1. files' = files
      BY <1>2 DEF Next, NewServer, vars, disk, memory, Begin, CreateNode, StartNode, InspectNode,
                  Poll, NodeStopped, GiveUp, Expire, CloseWaitCh, DeployContract, SetupGenesis,
                  SetupGrpcServer, Kill, Restart, ContainerReady, NodeExit, Terminated
    <2> QED
      BY <2>1
  <1> QED
    BY <1>1, <1>2

\* No run writes over a tranche file, of its own or of an earlier run: the directory of
\* an earlier run is refused (newLogDir), and the tranches of one run have distinct
\* numbers (createTranche).
THEOREM EarlierFilesKept == Spec => FilesAreKept
  <1>1. Init => TypeInv /\ FilesInv
    BY InitTyped, InitFiles
  <1>2. TypeInv /\ FilesInv /\ [Next]_vars => (TypeInv /\ FilesInv)'
    BY NextTyped, NextFiles
  <1>3. TypeInv /\ FilesInv /\ [Next]_vars
            => [\A i \in DOMAIN files : i \in DOMAIN files' /\ files'[i] = files[i]]_files
    BY NextKeepsFiles
  <1> QED
    BY <1>1, <1>2, <1>3, PTL DEF Spec, FilesAreKept

-----------------------------------------------------------------------------
(* What is registered was ready. *)

LEMMA InitReady == Init => NodesWereReady
  BY EmptyDomain, EmptySeq DEF Init, NodesWereReady, BootnodeV5

LEMMA NextReady == TypeInv /\ NodesWereReady /\ [Next]_vars => NodesWereReady'
  <1> SUFFICES ASSUME TypeInv, NodesWereReady, [Next]_vars PROVE NodesWereReady'
    OBVIOUS
  <1>1. ASSUME nodes' = nodes, enr' = enr, ready \subseteq ready'
        PROVE  NodesWereReady'
    BY <1>1 DEF NodesWereReady
  <1>2. CASE Poll
    <2>1. /\ nodes \in Seq(1..Len(containers)) /\ Len(nodes) \in Nat
          /\ nodes' = Append(nodes, id) /\ ready' = ready
      BY <1>2 DEF Poll, Register, TypeInv, NodeInv
    <2>0. enr' = "enr"
      <3>1. CASE deploying = BootnodeV5
        BY <1>2, <3>1 DEF Poll, BootnodeV5, BootnodeV4, Eth1
      <3>2. CASE deploying # BootnodeV5
        <4>1. enr' = enr
          BY <1>2, <3>2 DEF Poll
        <4>2. Len(nodes) >= BootnodeV5
          BY <2>1, <3>2 DEF deploying, BootnodeV5
        <4> QED
          BY <4>1, <4>2 DEF NodesWereReady
      <3> QED
        BY <3>1, <3>2
    <2>2. Len(nodes) + 1 \in {BootnodeV5, Eth1} => id \in ready
      BY <1>2 DEF Poll, deploying, BootnodeV5, BootnodeV4, Eth1
    <2>3. ASSUME NEW i \in DOMAIN nodes', i \in {BootnodeV5, Eth1}
          PROVE  nodes'[i] \in ready
      <3>1. CASE i \in DOMAIN nodes
        BY <2>1, <2>3, <3>1 DEF NodesWereReady
      <3>2. CASE i = Len(nodes) + 1
        BY <2>1, <2>2, <2>3, <3>2
      <3> QED
        BY <2>1, <3>1, <3>2
    <2> QED
      BY <2>0, <2>1, <2>3 DEF NodesWereReady
  <1>3. CASE Restart
    BY <1>3, EmptyDomain, EmptySeq DEF Restart, NodesWereReady, BootnodeV5
  <1>4. CASE ~Poll /\ ~Restart
    <2>1. nodes' = nodes /\ enr' = enr /\ ready \subseteq ready'
      BY <1>4 DEF Next, NewServer, vars, memory, Begin, CreateNode, StartNode, InspectNode,
                  NodeStopped, GiveUp, Expire, CloseWaitCh, DeployContract, CreateTranche,
                  SetupGenesis, SetupGrpcServer, Kill, ContainerReady, NodeExit, Terminated
    <2> QED
      BY <1>1, <2>1
  <1> QED
    BY <1>2, <1>3, <1>4

\* A bootnode that prints no record and an eth1 node that does not answer are never taken
\* for deployed, by a run that follows failed ones neither: a wait that is cut short is an
\* error (retryFn).
THEOREM NodesAreReady == Spec => []NodesWereReady
  <1>1. Init => TypeInv /\ NodesWereReady
    BY InitTyped, InitReady
  <1>2. TypeInv /\ NodesWereReady /\ [Next]_vars => (TypeInv /\ NodesWereReady)'
    BY NextTyped, NextReady
  <1> QED
    BY <1>1, <1>2, PTL DEF Spec

-----------------------------------------------------------------------------
(* The validators of the genesis. *)

\* How many accounts a tranche gets.
Share == config.validators \div config.tranches

\* The accounts of the genesis are those of the tranches, and none of them is of a call of
\* NewAccounts that is still to come.
AccountsInv ==
    /\ genesis = UNION {tranches[i] : i \in DOMAIN tranches}
    /\ IsFiniteSet(genesis)
    /\ \A a \in genesis : a[1] \in Below(batch)

\* Past its checks the agent has counts that divide and a share for each tranche, and it
\* serves after the last one.
CountInv ==
    /\ step # "begin" =>
          /\ config.tranches # 0
          /\ config.validators % config.tranches = 0
          /\ Cardinality(genesis) = Cardinality(DOMAIN tranches) * Share
    /\ step = "listen" => ~MoreTranches
    /\ proc = "serving" => step = "listen"

GenesisInv == AccountsInv /\ CountInv

LEMMA OneMoreShare ==
    ASSUME NEW n \in Nat, NEW k \in Nat
    PROVE  (n + 1) * k = n * k + k
  OBVIOUS

LEMMA SharesAddUp ==
    ASSUME NEW v \in Nat, NEW n \in Nat, n # 0, v % n = 0
    PROVE  v \div n \in Nat /\ n * (v \div n) = v
  OBVIOUS

LEMMA NewAccountsCounted ==
    ASSUME NEW k \in Nat
    PROVE  /\ IsFiniteSet(NewAccounts(k))
           /\ Cardinality(NewAccounts(k)) = k
           /\ \A a \in NewAccounts(k) : a[1] = batch
  <1>1. IsFiniteSet({batch}) /\ Cardinality({batch}) = 1
    BY FS_Singleton
  <1>2. IsFiniteSet(1..k) /\ Cardinality(1..k) = k
    BY FS_Interval
  <1>3. IsFiniteSet({batch} \X (1..k)) /\ Cardinality({batch} \X (1..k)) = k
    <2>1. Cardinality({batch} \X (1..k)) = Cardinality({batch}) * Cardinality(1..k)
      BY <1>1, <1>2, FS_Product
    <2>2. IsFiniteSet({batch} \X (1..k))
      BY <1>1, <1>2, FS_Product
    <2>3. 1 * k = k
      OBVIOUS
    <2> QED
      BY <1>1, <1>2, <2>1, <2>2, <2>3
  <1>4. \A a \in {batch} \X (1..k) : a[1] = batch
    OBVIOUS
  <1> QED
    BY <1>3, <1>4 DEF NewAccounts

LEMMA InitGenesis == Init => GenesisInv
  <1> SUFFICES ASSUME Init PROVE GenesisInv
    OBVIOUS
  <1>1. genesis = {} /\ DOMAIN tranches = {} /\ step = "begin" /\ proc = "starting"
    BY EmptyDomain DEF Init
  <1> QED
    BY <1>1, FS_EmptySet DEF GenesisInv, AccountsInv, CountInv

\* A round that succeeds adds one share of accounts nobody has.
LEMMA AddShare ==
    ASSUME TypeInv, GenesisInv, CreateTranche, tranches' # tranches
    PROVE  GenesisInv'
  <1> DEFINE n == Cardinality(DOMAIN tranches)
             accounts == NewAccounts(Share)
  <1>1. /\ step = "tranches" /\ proc = "starting" /\ UNCHANGED <<config, proc, step>>
        /\ batch' = batch + 1
        /\ tranches' = Put(tranches, n, accounts)
        /\ genesis' = genesis \cup accounts
    BY DEF CreateTranche, At, InitialAccounts, Share
  <1>2. /\ batch \in Nat /\ config.tranches \in Nat /\ config.validators \in Nat
        /\ config.tranches # 0 /\ config.validators % config.tranches = 0
    BY <1>1, CountsTyped DEF TypeInv, ControlInv, GenesisInv, CountInv
  <1>3. Share \in Nat
    BY <1>2, SharesAddUp DEF Share
  <1>4. PICK k \in Nat : DOMAIN tranches = Below(k) /\ DOMAIN tranches' = Below(k + 1)
    BY AddTranche
  <1>5. n = k /\ Cardinality(DOMAIN tranches)' = k + 1
    <2>1. n = k
      BY <1>4, NumOfTranches
    <2>2. Cardinality(Below(k + 1)) = k + 1
      BY FS_Interval DEF Below
    <2> QED
      BY <1>4, <2>1, <2>2
  <1>6. IsFiniteSet(accounts) /\ Cardinality(accounts) = Share /\ \A a \in accounts : a[1] = batch
    BY <1>3, NewAccountsCounted
  <1>7. /\ IsFiniteSet(genesis) /\ \A a \in genesis : a[1] \in Below(batch)
        /\ Cardinality(genesis) = n * Share
        /\ genesis = UNION {tranches[i] : i \in DOMAIN tranches}
    BY <1>1 DEF GenesisInv, AccountsInv, CountInv
  <1>8. genesis \cap accounts = {}
    BY <1>2, <1>6, <1>7 DEF Below
  <1>9. IsFiniteSet(genesis') /\ Cardinality(genesis') = (k + 1) * Share
    <2>1. IsFiniteSet(genesis') /\ Cardinality(genesis') = Cardinality(genesis) + Share - 0
      BY <1>1, <1>6, <1>7, <1>8, FS_Union, FS_EmptySet
    <2>2. (k + 1) * Share = k * Share + Share /\ k * Share \in Nat
      BY <1>3, OneMoreShare
    <2> QED
      BY <1>3, <1>5, <1>7, <2>1, <2>2
  <1>10. genesis' = UNION {tranches'[i] : i \in DOMAIN tranches'}
    <2>1. n \notin DOMAIN tranches
      BY <1>4, <1>5 DEF Below
    <2>2. /\ DOMAIN tranches' = DOMAIN tranches \cup {n}
          /\ tranches'[n] = accounts
          /\ \A i \in DOMAIN tranches : tranches'[i] = tranches[i]
      BY <1>1, <2>1 DEF Put
    <2> HIDE DEF n, accounts
    <2> QED
      BY <1>1, <1>7, <2>2
  <1>11. \A a \in genesis' : a[1] \in Below(batch)'
    BY <1>1, <1>2, <1>6, <1>7 DEF Below
  <1>12. Share' = Share
    BY <1>1 DEF Share
  <1> QED
    BY <1>1, <1>2, <1>5, <1>9, <1>10, <1>11, <1>12 DEF GenesisInv, AccountsInv, CountInv

LEMMA NextGenesis == TypeInv /\ GenesisInv /\ [Next]_vars => GenesisInv'
  <1> SUFFICES ASSUME TypeInv, GenesisInv, [Next]_vars PROVE GenesisInv'
    OBVIOUS
  <1>0. step \in Labels
    BY DEF TypeInv, ControlInv
  <1> USE DEF At, Goto, Fail, memory, disk, engine
  <1>1. ASSUME UNCHANGED <<config, tranches, genesis, batch>>, step # "begin",
               step' = step \/ step' \notin {"begin", "listen"},
               proc' # "serving"
        PROVE  GenesisInv'
    BY <1>1 DEF GenesisInv, AccountsInv, CountInv, Share, MoreTranches
  <1>2. ASSUME UNCHANGED <<config, tranches, genesis, batch, step>>, proc' \in {proc, "failed", "killed"}
        PROVE  GenesisInv'
    BY <1>2 DEF GenesisInv, AccountsInv, CountInv, Share, MoreTranches
  <1>3. CASE Begin
    <2>1. DOMAIN tranches = {} /\ genesis = {}
      BY <1>3 DEF Begin, TypeInv, TrancheInv, GenesisInv, AccountsInv
    <2>2. UNCHANGED <<config, tranches, genesis, batch>>
      BY <1>3 DEF Begin
    <2>3. /\ proc' # "serving"
          /\ step' = "begin" \/ (/\ step' = "create" /\ config.tranches # 0
                                /\ config.validators % config.tranches = 0)
      BY <1>3 DEF Begin
    <2>4. Share \in Nat \/ step' = "begin"
      BY <2>3, SharesAddUp, CountsTyped DEF Share, TypeInv, ControlInv
    <2>5. AccountsInv'
      BY <2>2 DEF GenesisInv, AccountsInv
    <2> QED
      BY <2>1, <2>2, <2>3, <2>4, <2>5, FS_EmptySet DEF GenesisInv, CountInv, Share
  <1>4. CASE CreateNode \/ StartNode \/ InspectNode
    BY <1>1, <1>4 DEF CreateNode, StartNode, InspectNode
  <1>5. CASE Poll
    BY <1>1, <1>5 DEF Poll, Register
  <1>6. CASE NodeStopped \/ GiveUp \/ Expire \/ CloseWaitCh
    BY <1>2, <1>6 DEF NodeStopped, GiveUp, Expire, CloseWaitCh
  <1>7. CASE DeployContract
    BY <1>1, <1>7 DEF DeployContract
  <1>8. CASE CreateTranche
    <2>1. CASE tranches' = tranches
      <3>1. \A v : tranches' # Put(tranches, Cardinality(DOMAIN tranches), v)
        BY <2>1, NumberIsFree DEF Put
      <3>2. /\ UNCHANGED <<config, step, tranches, genesis>> /\ batch' = batch + 1
            /\ step = "tranches" /\ proc' # "serving"
        BY <1>8, <3>1 DEF CreateTranche
      <3>3. Below(batch) \subseteq Below(batch')
        BY <3>2 DEF Below, TypeInv, ControlInv
      <3> QED
        BY <3>2, <3>3 DEF GenesisInv, AccountsInv, CountInv, Share
    <2> QED
      BY <1>8, <2>1, AddShare
  <1>9. CASE SetupGenesis
    <2>1. UNCHANGED <<config, tranches, genesis, batch>> /\ ~MoreTranches /\ step = "tranches"
          /\ proc' # "serving" /\ step' \in {"tranches", "listen"}
      BY <1>9 DEF SetupGenesis
    <2> QED
      BY <2>1 DEF GenesisInv, AccountsInv, CountInv, Share, MoreTranches
  <1>10. CASE SetupGrpcServer
    <2>1. UNCHANGED <<config, tranches, genesis, batch, step>> /\ step = "listen"
      BY <1>10 DEF SetupGrpcServer
    <2> QED
      BY <2>1 DEF GenesisInv, AccountsInv, CountInv, Share, MoreTranches
  <1>11. CASE Kill \/ ContainerReady \/ NodeExit
    BY <1>2, <1>11 DEF Kill, ContainerReady, NodeExit
  <1>12. CASE Restart
    <2>1. genesis' = {} /\ DOMAIN tranches' = {} /\ step' = "begin" /\ proc' = "starting"
      BY <1>12, EmptyDomain DEF Restart
    <2> QED
      BY <2>1, FS_EmptySet DEF GenesisInv, AccountsInv, CountInv
  <1>13. CASE Terminated \/ UNCHANGED vars
    BY <1>2, <1>13 DEF Terminated, vars
  <1> QED
    BY <1>3, <1>4, <1>5, <1>6, <1>7, <1>8, <1>9, <1>10, <1>11, <1>12, <1>13
       DEF Next, NewServer

\* An agent that serves has given the genesis all the validators it was told, and they are
\* the accounts of its tranches, for any counts and after any number of failed starts: none
\* is counted twice and none is without its keys (server.go:152-161).
THEOREM GenesisHolds == Spec => []GenesisHoldsTheTranches
  <1>1. TypeInv /\ GenesisInv => GenesisHoldsTheTranches
    <2> SUFFICES ASSUME TypeInv, GenesisInv, proc = "serving"
                 PROVE  /\ genesis = UNION {tranches[i] : i \in DOMAIN tranches}
                        /\ Cardinality(genesis) = config.validators
      BY DEF GenesisHoldsTheTranches
    <2>1. /\ config.tranches \in Nat /\ config.validators \in Nat
          /\ config.tranches # 0 /\ config.validators % config.tranches = 0
          /\ Cardinality(genesis) = Cardinality(DOMAIN tranches) * Share
          /\ ~MoreTranches
      BY CountsTyped DEF TypeInv, ControlInv, GenesisInv, CountInv
    <2>2. PICK n \in 0..config.tranches : DOMAIN tranches = Below(n)
      BY DEF TypeInv, TrancheInv
    <2>3. Cardinality(DOMAIN tranches) = config.tranches
      BY <2>1, <2>2, NumOfTranches DEF MoreTranches
    <2>4. Cardinality(genesis) = config.validators
      BY <2>1, <2>3, SharesAddUp DEF Share
    <2> QED
      BY <2>4 DEF GenesisInv, AccountsInv
  <1>2. Init => TypeInv /\ GenesisInv
    BY InitTyped, InitGenesis
  <1>3. TypeInv /\ GenesisInv /\ [Next]_vars => (TypeInv /\ GenesisInv)'
    BY NextTyped, NextGenesis
  <1> QED
    BY <1>1, <1>2, <1>3, PTL DEF Spec

-----------------------------------------------------------------------------
(* What the agent starts to serve with. *)

\* The agent has taken the data directory, and still runs.
Settled == proc \in {"starting", "serving"} /\ step # "begin"

\* A container has been created for the next node.
Deploying == step \in {"start", "inspect", "retry"}

\* Before a run takes the directory there is no container, and the later ones never take
\* it: all the containers there are belong to this run, in the order of its nodes.
OwnNodesInv ==
    /\ ~dir => containers = <<>>
    /\ step = "begin" => nodes = <<>>
    /\ Settled =>
          /\ dir
          /\ \A i \in DOMAIN nodes : nodes[i] = i
          /\ \A i \in DOMAIN containers : containers[i] = NodeSpec(i)
          /\ Deploying => Len(containers) = Len(nodes) + 1 /\ id = Len(containers)
          /\ ~Deploying => Len(containers) = Len(nodes)
          /\ step \in {"contract", "tranches", "listen"} => Len(nodes) = Eth1

\* Nor has NewAccounts been called before: the n-th tranche has the accounts of its n-th
\* call, and they are what its file says.
OwnTranchesInv ==
    /\ ~dir => files = <<>> /\ batch = 0
    /\ step = "begin" => tranches = <<>>
    /\ Settled =>
          /\ dir
          /\ files = tranches
          /\ batch = Cardinality(DOMAIN tranches)
          /\ tranches = [i \in DOMAIN tranches |-> {i} \X (1..Share)]

LEMMA InitOwn == Init => OwnNodesInv /\ OwnTranchesInv
  BY DEF Init, OwnNodesInv, OwnTranchesInv, Settled

LEMMA NextOwnNodes == TypeInv /\ OwnNodesInv /\ [Next]_vars => OwnNodesInv'
  <1> SUFFICES ASSUME TypeInv, OwnNodesInv, [Next]_vars PROVE OwnNodesInv'
    OBVIOUS
  <1>0. /\ step \in Labels
        /\ containers \in Seq(Specs) /\ nodes \in Seq(1..Len(containers))
        /\ Len(containers) \in Nat /\ Len(nodes) \in Nat
    BY DEF TypeInv, ControlInv, NodeInv
  <1> USE DEF At, Goto, Fail, memory, disk, engine
  <1>1. ASSUME UNCHANGED <<dir, containers, nodes, id, step>>, Settled' => Settled
        PROVE  OwnNodesInv'
    BY <1>1 DEF OwnNodesInv, Deploying
  <1>2. CASE Begin
    <2>1. UNCHANGED <<containers, nodes, id>> /\ step = "begin" /\ Len(<<>>) = 0
      BY <1>2 DEF Begin
    <2>2. \/ ~dir /\ dir' /\ step' = "create"
          \/ UNCHANGED dir /\ ~Settled' /\ step' = "begin"
      BY <1>2 DEF Begin, Settled
    <2> QED
      BY <2>1, <2>2 DEF OwnNodesInv, Deploying
  <1>3. CASE CreateNode
    <2>1. CASE ContainerCreate(NodeSpec(deploying)) /\ id' = NextContainer /\ Goto("start")
      <3>1. /\ UNCHANGED <<dir, nodes>> /\ step = "create" /\ step' = "start" /\ Settled
            /\ containers' = Append(containers, NodeSpec(Len(nodes) + 1))
            /\ id' = Len(containers) + 1
        BY <1>3, <2>1 DEF CreateNode, Settled, ContainerCreate, NextContainer, deploying
      <3>2. /\ dir /\ \A i \in DOMAIN nodes : nodes[i] = i
            /\ \A i \in DOMAIN containers : containers[i] = NodeSpec(i)
            /\ Len(containers) = Len(nodes)
        BY <3>1 DEF OwnNodesInv, Deploying
      <3>3. Len(containers') = Len(containers) + 1
        BY <1>0, <3>1
      <3>4. \A i \in DOMAIN containers' : containers'[i] = NodeSpec(i)
        BY <1>0, <3>1, <3>2
      <3> QED
        BY <3>1, <3>2, <3>3, <3>4 DEF OwnNodesInv, Deploying
    <2>2. CASE Fail /\ UNCHANGED <<engine, id>>
      BY <1>1, <1>3, <2>2 DEF CreateNode, Settled
    <2> QED
      BY <1>3, <2>1, <2>2 DEF CreateNode
  <1>4. CASE StartNode \/ InspectNode
    <2>1. UNCHANGED <<dir, containers, nodes, id>> /\ Deploying
      BY <1>4 DEF StartNode, InspectNode, ContainerStart, Deploying
    <2>2. \/ Settled /\ step' \in {"inspect", "retry"}
          \/ UNCHANGED step /\ ~Settled'
      BY <1>4 DEF StartNode, InspectNode, Settled
    <2> QED
      BY <2>1, <2>2 DEF OwnNodesInv, Deploying
  <1>5. CASE Poll
    <2>1. /\ UNCHANGED <<dir, containers>> /\ step = "retry" /\ Settled
          /\ nodes' = Append(nodes, id)
          /\ step' = IF Len(nodes) + 1 = Eth1 THEN "contract" ELSE "create"
      BY <1>5 DEF Poll, Register, Settled, deploying
    <2>2. /\ dir /\ \A i \in DOMAIN nodes : nodes[i] = i
          /\ \A i \in DOMAIN containers : containers[i] = NodeSpec(i)
          /\ Len(containers) = Len(nodes) + 1 /\ id = Len(nodes) + 1
      BY <2>1 DEF OwnNodesInv, Deploying
    <2>3. Len(nodes') = Len(nodes) + 1
      BY <1>0, <2>1
    <2>4. \A i \in DOMAIN nodes' : nodes'[i] = i
      BY <1>0, <2>1, <2>2
    <2> QED
      BY <2>1, <2>2, <2>3, <2>4 DEF OwnNodesInv, Deploying
  <1>6. CASE NodeStopped \/ GiveUp \/ Expire \/ CloseWaitCh
    BY <1>1, <1>6 DEF NodeStopped, GiveUp, Expire, CloseWaitCh, Settled
  <1>7. CASE DeployContract \/ SetupGenesis \/ SetupGrpcServer
    <2>1. UNCHANGED <<dir, containers, nodes, id>> /\ ~Deploying /\ Settled
          /\ step \in {"contract", "tranches", "listen"}
          /\ step' \in {"contract", "tranches", "listen"}
      BY <1>7 DEF DeployContract, SetupGenesis, SetupGrpcServer, Deploying, Settled
    <2> QED
      BY <2>1 DEF OwnNodesInv, Deploying
  <1>8. CASE CreateTranche
    BY <1>1, <1>8 DEF CreateTranche, Settled
  <1>9. CASE Kill \/ ContainerReady \/ NodeExit
    BY <1>1, <1>9 DEF Kill, ContainerReady, NodeExit, ContainerExit, Settled
  <1>10. CASE Restart
    BY <1>10 DEF Restart, OwnNodesInv, Settled
  <1>11. CASE Terminated \/ UNCHANGED vars
    BY <1>1, <1>11 DEF Terminated, vars, Settled
  <1> QED
    BY <1>2, <1>3, <1>4, <1>5, <1>6, <1>7, <1>8, <1>9, <1>10, <1>11 DEF Next, NewServer

LEMMA NextOwnTranches == TypeInv /\ OwnTranchesInv /\ [Next]_vars => OwnTranchesInv'
  <1> SUFFICES ASSUME TypeInv, OwnTranchesInv, [Next]_vars PROVE OwnTranchesInv'
    OBVIOUS
  <1>0. step \in Labels
    BY DEF TypeInv, ControlInv
  <1> USE DEF At, Goto, Fail, memory, disk, engine
  <1>1. ASSUME UNCHANGED <<dir, files, batch, tranches, config>>,
               Settled' => Settled, step' = "begin" => step = "begin"
        PROVE  OwnTranchesInv'
    BY <1>1 DEF OwnTranchesInv, Share
  <1>2. CASE Begin
    <2>1. UNCHANGED <<files, batch, tranches, config>> /\ step = "begin"
      BY <1>2 DEF Begin
    <2>2. \/ ~dir /\ dir' /\ step' = "create"
          \/ UNCHANGED dir /\ ~Settled' /\ step' = "begin"
      BY <1>2 DEF Begin, Settled
    <2>3. Cardinality({}) = 0
      BY FS_EmptySet
    <2> QED
      BY <2>1, <2>2, <2>3, EmptyDomain DEF OwnTranchesInv, Share
  <1>3. CASE CreateNode \/ StartNode \/ InspectNode
    BY <1>1, <1>3 DEF CreateNode, StartNode, InspectNode, Settled
  <1>4. CASE Poll
    BY <1>1, <1>4 DEF Poll, Register, Settled
  <1>5. CASE NodeStopped \/ GiveUp \/ Expire \/ CloseWaitCh
    BY <1>1, <1>5 DEF NodeStopped, GiveUp, Expire, CloseWaitCh, Settled
  <1>6. CASE DeployContract \/ SetupGenesis \/ SetupGrpcServer
    BY <1>1, <1>6 DEF DeployContract, SetupGenesis, SetupGrpcServer, Settled
  <1>7. CASE CreateTranche
    <2> DEFINE n        == Cardinality(DOMAIN tranches)
               accounts == NewAccounts(Share)
    <2>1. /\ UNCHANGED <<dir, config, step>> /\ Settled /\ step = "tranches"
          /\ batch' = batch + 1
      BY <1>7 DEF CreateTranche, Settled
    <2>2. dir /\ files = tranches /\ batch = n
      BY <2>1 DEF OwnTranchesInv
    <2>3. CASE proc' = "starting"
      <3>1. tranches' = Put(tranches, n, accounts) /\ files' = Put(files, n, accounts)
        BY <1>7, <2>3 DEF CreateTranche, Share
      <3>2. n \notin DOMAIN tranches
        BY NumberIsFree
      <3>3. /\ DOMAIN tranches' = DOMAIN tranches \cup {n}
            /\ tranches'[n] = accounts
            /\ \A i \in DOMAIN tranches : tranches'[i] = tranches[i]
        BY <3>1, <3>2 DEF Put
      <3>4. batch' = Cardinality(DOMAIN tranches')
        <4>1. tranches' # tranches
          BY <3>2, <3>3
        <4>2. PICK k \in Nat : DOMAIN tranches = Below(k) /\ DOMAIN tranches' = Below(k + 1)
          BY <1>7, <4>1, AddTranche
        <4>3. n = k /\ Cardinality(Below(k + 1)) = k + 1
          <5>1. n = k
            BY <4>2, NumOfTranches
          <5>2. k + 1 \in Nat
            OBVIOUS
          <5> QED
            BY <5>1, <5>2, FS_Interval DEF Below
        <4> QED
          BY <2>1, <2>2, <4>2, <4>3
      <3>5. accounts = {n} \X (1..Share)
        BY <2>2 DEF NewAccounts
      <3>6. tranches' = [i \in DOMAIN tranches' |-> {i} \X (1..Share)]
        <4>1. tranches = [i \in DOMAIN tranches |-> {i} \X (1..Share)]
          BY <2>1 DEF OwnTranchesInv
        <4>2. \A i \in DOMAIN tranches' : tranches'[i] = {i} \X (1..Share)
          <5> HIDE DEF n, accounts
          <5> QED
            BY <3>3, <3>5, <4>1
        <4>3. tranches' = [i \in DOMAIN tranches' |-> tranches'[i]]
          BY <3>1 DEF Put
        <4> QED
          BY <4>2, <4>3
      <3>7. Share' = Share
        BY <2>1 DEF Share
      <3>8. files' = tranches'
        BY <2>2, <3>1
      <3> QED
        BY <2>1, <2>2, <3>4, <3>6, <3>7, <3>8 DEF OwnTranchesInv
    <2>4. CASE proc' # "starting"
      <3>1. ~Settled'
        BY <1>7, <2>4 DEF CreateTranche, Settled
      <3> QED
        BY <2>1, <2>2, <3>1 DEF OwnTranchesInv
    <2> QED
      BY <2>3, <2>4
  <1>8. CASE Kill \/ ContainerReady \/ NodeExit
    BY <1>1, <1>8 DEF Kill, ContainerReady, NodeExit, Settled
  <1>9. CASE Restart
    BY <1>9 DEF Restart, OwnTranchesInv, Settled
  <1>10. CASE Terminated \/ UNCHANGED vars
    BY <1>1, <1>10 DEF Terminated, vars, Settled
  <1> QED
    BY <1>2, <1>3, <1>4, <1>5, <1>6, <1>7, <1>8, <1>9, <1>10 DEF Next, NewServer
\* The three nodes, when all of them are deployed.
LEMMA ThreeNodes ==
    ASSUME TypeInv, OwnNodesInv, Settled, ~Deploying, Len(nodes) = Eth1
    PROVE  /\ nodes = <<1, 2, 3>>
           /\ running \subseteq 1..3
           /\ DOMAIN containers = 1..3
           /\ \A i \in 1..3 : containers[i].node = i
  <1>1. /\ nodes \in Seq(1..Len(containers)) /\ containers \in Seq(Specs)
        /\ running \subseteq 1..Len(containers)
        /\ Len(nodes) = 3 /\ Len(containers) = 3
        /\ \A i \in DOMAIN nodes : nodes[i] = i
        /\ \A i \in DOMAIN containers : containers[i] = NodeSpec(i)
    BY DEF OwnNodesInv, TypeInv, NodeInv, Eth1
  <1>2. nodes = <<1, 2, 3>>
    BY <1>1
  <1> QED
    BY <1>1, <1>2 DEF NodeSpec

\* All the genesis tranches, when no more of them are to come.
LEMMA AllTranches ==
    ASSUME TypeInv, OwnTranchesInv, Settled, ~MoreTranches
    PROVE  /\ tranches = [i \in 0..(config.tranches - 1) |-> {i} \X (1..Share)]
           /\ files = tranches
           /\ batch = config.tranches
  <1>1. PICK n \in 0..config.tranches : DOMAIN tranches = Below(n)
    BY DEF TypeInv, TrancheInv
  <1>2. config.tranches \in Nat /\ Cardinality(DOMAIN tranches) = n
    BY <1>1, CountsTyped, NumOfTranches DEF TypeInv, ControlInv
  <1>3. n = config.tranches
    BY <1>1, <1>2 DEF MoreTranches
  <1> QED
    BY <1>1, <1>2, <1>3 DEF OwnTranchesInv, Below

LEMMA ServingIsInit ==
    ASSUME TypeInv, GenesisInv, OwnNodesInv, OwnTranchesInv, proc = "serving"
    PROVE  Agent!InitWith(config.tranches, Share)
  <1>1. step = "listen" /\ Settled /\ ~Deploying /\ ~MoreTranches
    BY DEF GenesisInv, CountInv, Settled, Deploying
  <1>2. /\ nodes = <<1, 2, 3>> /\ running \subseteq 1..3 /\ DOMAIN containers = 1..3
        /\ \A i \in 1..3 : containers[i].node = i
    BY <1>1, ThreeNodes DEF OwnNodesInv
  <1>3. /\ tranches = [i \in 0..(config.tranches - 1) |-> {i} \X (1..Share)]
        /\ files = tranches /\ batch = config.tranches
    BY <1>1, AllTranches
  <1> USE DEF Agent!Name, Agent!NoName, NoContainer, Agent!NoContainer
  <1>4. [i \in DOMAIN containers |-> [name   |-> [type   |-> "OtherType",
                                                num    |-> containers[i].node,
                                                client |-> "other"],
                                     keys   |-> {},
                                     target |-> NoContainer]]
        = [i \in 1..3 |-> [name   |-> Agent!Name("OtherType", i, "other"),
                           keys   |-> {},
                           target |-> Agent!NoContainer]]
    BY <1>2
  <1>5. [i \in DOMAIN tranches |-> [accounts  |-> tranches[i],
                                   validator |-> [type |-> "OtherType", num |-> 0, client |-> "other"]]]
        = [i \in 0..(config.tranches - 1) |-> [accounts  |-> {i} \X (1..Share),
                                               validator |-> Agent!NoName]]
    BY <1>3
  <1>6. files = [i \in DOMAIN tranches |-> tranches[i]]
    BY <1>3
  <1> QED
    BY <1>2, <1>3, <1>4, <1>5, <1>6 DEF Agent!InitWith, Agent!NoJob, Agent!Error

\* For any counts, and after any number of failed starts, what the handlers find is what
\* they are proved to work from: three nodes that are the only containers, every genesis
\* tranche with its own accounts and its file (server.go:67-98).
THEOREM ServesFromInit == Spec => []BecomesServer
  <1>1. TypeInv /\ GenesisInv /\ OwnNodesInv /\ OwnTranchesInv => BecomesServer
    BY ServingIsInit DEF BecomesServer, Share
  <1>2. Init => TypeInv /\ GenesisInv /\ OwnNodesInv /\ OwnTranchesInv
    BY InitTyped, InitGenesis, InitOwn
  <1>3. TypeInv /\ GenesisInv /\ OwnNodesInv /\ OwnTranchesInv /\ [Next]_vars
            => (TypeInv /\ GenesisInv /\ OwnNodesInv /\ OwnTranchesInv)'
    BY NextTyped, NextGenesis, NextOwnNodes, NextOwnTranches
  <1> QED
    BY <1>1, <1>2, <1>3, PTL DEF Spec

-----------------------------------------------------------------------------
(* Genesis: the clock, and the files of the network. *)

LEMMA NextIsBootstrap == [GenesisNext]_genesisVars => [Next]_vars
<1> SUFFICES ASSUME [GenesisNext]_genesisVars PROVE [Next]_vars
  OBVIOUS
<1>1. CASE Tick
  BY <1>1 DEF Tick
<1>2. CASE DeployDepositContract
  BY <1>2 DEF DeployDepositContract, Next, NewServer
<1>3. CASE WriteGenesis
  BY <1>3 DEF WriteGenesis, Next, NewServer
<1>4. CASE StartAgain
  BY <1>4 DEF StartAgain, Next
<1>5. CASE Other
  BY <1>5 DEF Other, Next, NewServer
<1>6. CASE UNCHANGED genesisVars
  BY <1>6 DEF genesisVars
<1> QED
  BY <1>1, <1>2, <1>3, <1>4, <1>5, <1>6 DEF GenesisNext

\* The bootstrap of GenesisSpec is one of module Bootstrap, with its fairness: a clock, a
\* refused block and the files of the network add no behaviour (server.go:150-199).
THEOREM BootstrapUnderClock == GenesisSpec => Spec
<1>1. GenesisInit => Init
  BY DEF GenesisInit
<1> QED
  BY <1>1, NextIsBootstrap, PTL DEF GenesisSpec, Spec

-----------------------------------------------------------------------------
(* The times are integers; a state is only made once the contract is on the chain. *)

Eth2Specs == [MinGenesisTime : Int, DepositContract : {NoContract, "contract"},
              Altair : Nat \cup {NoFork}]

TimesTyped ==
    /\ clock \in Nat /\ contract \in Nat
    /\ eth2spec \in Eth2Specs

StateComesLate == state # NoState => step \in {"tranches", "listen"}

\* The deposit contract is on the chain before the genesis time.
ContractIsOlder == state # NoState => contract <= state.time

ChainInv == TimesTyped /\ StateComesLate /\ ContractIsOlder

LEMMA FlagsTyped ==
    \A flags \in Flags : flags.delay \in Int /\ flags.altair \in Nat \cup {NoFork}
  BY FlagsAssumption

LEMMA ReadableTyped ==
  ASSUME clock \in Nat
  PROVE  Readable \subseteq Eth2Specs
<1> SUFFICES ASSUME NEW flags \in Flags PROVE readConfig(flags) \in Eth2Specs
  BY DEF Readable
<1>1. flags.delay \in Int /\ flags.altair \in Nat \cup {NoFork}
  BY FlagsTyped
<1>3. DefaultEth2Spec \in Eth2Specs
  BY DEF DefaultEth2Spec, Eth2Specs, NoFork
<1>4. /\ clock + flags.delay \in Int
      /\ (IF flags.altair >= 0 THEN flags.altair ELSE NoFork) \in Nat \cup {NoFork}
  BY <1>1
<1> QED
  BY <1>3, <1>4 DEF readConfig, Eth2Specs

LEMMA InitChain == GenesisInit => ChainInv
<1> SUFFICES ASSUME GenesisInit PROVE ChainInv
  OBVIOUS
<1>1. clock \in Nat /\ contract \in Nat
  BY ClockAssumption DEF GenesisInit
<1>2. eth2spec \in Eth2Specs
  BY <1>1, ReadableTyped DEF GenesisInit
<1>3. state = NoState
  BY DEF GenesisInit
<1> QED
  BY <1>1, <1>2, <1>3 DEF ChainInv, TimesTyped, StateComesLate, ContractIsOlder

LEMMA NextChain == ChainInv /\ [GenesisNext]_genesisVars => ChainInv'
<1> SUFFICES ASSUME ChainInv, [GenesisNext]_genesisVars PROVE ChainInv'
  OBVIOUS
<1> USE DEF ChainInv
<1>1. CASE Tick
  BY <1>1 DEF Tick, vars, network, TimesTyped, StateComesLate, ContractIsOlder
<1>2. CASE DeployDepositContract
  <2>1. state = NoState
    BY <1>2 DEF DeployDepositContract, DeployContract, At, StateComesLate
  <2>2. state' = NoState
    BY <1>2, <2>1 DEF DeployDepositContract
  <2>3. /\ clock' = clock
        /\ contract' \in {contract, clock}
        /\ eth2spec' \in {eth2spec, [eth2spec EXCEPT !.DepositContract = "contract"]}
    BY <1>2 DEF DeployDepositContract
  <2>4. eth2spec' \in Eth2Specs
    BY <2>3 DEF TimesTyped, Eth2Specs
  <2> QED
    BY <2>2, <2>3, <2>4 DEF TimesTyped, StateComesLate, ContractIsOlder, NoState
<1>3. CASE WriteGenesis
  <2>1. /\ UNCHANGED <<clock, eth2spec, contract>>
        /\ step' \in {"tranches", "listen"}
    BY <1>3 DEF WriteGenesis, SetupGenesis, Goto, Fail, At
  <2>2. PICK block \in contract..clock :
          \/ state' = NoState
          \/ ~LowTimestamp(block) /\ state' = GenerateGenesis(block)
    BY <1>3 DEF WriteGenesis
  <2>3. CASE state' = NoState
    BY <2>1, <2>3 DEF TimesTyped, StateComesLate, ContractIsOlder, NoState
  <2>4. CASE ~LowTimestamp(block) /\ state' = GenerateGenesis(block)
    <3>1. state'.time = uint64(eth2spec.MinGenesisTime)
      BY <2>4 DEF GenerateGenesis
    <3>2. uint64(eth2spec.MinGenesisTime) \in Int
      BY FlagsAssumption DEF uint64, TimesTyped, Eth2Specs
    <3>3. contract <= uint64(eth2spec.MinGenesisTime)
      BY <2>2, <2>4, <3>2 DEF LowTimestamp, TimesTyped
    <3> QED
      BY <2>1, <3>1, <3>3 DEF TimesTyped, StateComesLate, ContractIsOlder
  <2> QED
    BY <2>2, <2>3, <2>4
<1>4. CASE StartAgain
  <2>1. clock' = clock /\ contract' = 0 /\ state' = NoState
    BY <1>4 DEF StartAgain
  <2>2. eth2spec' \in Eth2Specs
    BY <1>4, ReadableTyped DEF StartAgain, TimesTyped
  <2> QED
    BY <2>1, <2>2 DEF TimesTyped, StateComesLate, ContractIsOlder, NoState
<1>5. CASE Other
  <2>1. UNCHANGED <<clock, eth2spec, contract, state>>
    BY <1>5 DEF Other, network
  <2>2. step \in {"tranches", "listen"} => step' \in {"tranches", "listen"}
    BY <1>5 DEF Other, Begin, CreateNode, StartNode, InspectNode, Poll, NodeStopped, GiveUp,
         CreateTranche, SetupGrpcServer, Expire, CloseWaitCh, Kill, ContainerReady, NodeExit,
         Terminated, At, Goto, Fail, vars
  <2> QED
    BY <2>1, <2>2 DEF TimesTyped, StateComesLate, ContractIsOlder
<1>6. CASE UNCHANGED genesisVars
  BY <1>6 DEF genesisVars, vars, network, TimesTyped, StateComesLate, ContractIsOlder
<1> QED
  BY <1>1, <1>2, <1>3, <1>4, <1>5, <1>6 DEF GenesisNext

-----------------------------------------------------------------------------
(* The genesis state and the file of the specification. *)

\* Once the contract is there the specification names it, and past setupGenesis the state
\* and the file are those of the specification.
FilesMatch ==
    /\ step \in {"tranches", "listen"} => eth2spec.DepositContract = "contract"
    /\ step = "listen" =>
          /\ specYaml = buildConfig(eth2spec)
          /\ \E block : state = GenerateGenesis(block)

MatchInv == FilesMatch /\ (proc = "serving" => step = "listen")

LEMMA InitMatch == GenesisInit => MatchInv
  BY DEF GenesisInit, Init, MatchInv, FilesMatch

LEMMA NextMatch == ChainInv /\ MatchInv /\ [GenesisNext]_genesisVars => MatchInv'
<1> SUFFICES ASSUME ChainInv, MatchInv, [GenesisNext]_genesisVars PROVE MatchInv'
  OBVIOUS
<1>1. ASSUME UNCHANGED <<network, genesis>>,
             step' = step \/ step' \notin {"tranches", "listen"},
             proc' = "serving" => step' = "listen"
      PROVE  MatchInv'
  BY <1>1 DEF MatchInv, FilesMatch, network, GenerateGenesis, Fork, ForkVersion
<1>2. CASE Tick
  BY <1>1, <1>2 DEF Tick, vars, memory, MatchInv
<1>3. CASE DeployDepositContract
  <2>1. CASE step' = step
    <3>1. UNCHANGED <<network, genesis>> /\ step = "contract" /\ proc' # "serving"
      BY <1>3, <2>1 DEF DeployDepositContract, DeployContract, At, Goto, Fail, memory, network
    <3> QED
      BY <1>1, <2>1, <3>1
  <2>2. CASE step' # step
    <3>1. step' = "tranches" /\ proc' # "serving"
      BY <1>3, <2>2 DEF DeployDepositContract, DeployContract, At, Goto, Fail
    <3>2. eth2spec'.DepositContract = "contract"
      BY <1>3, <2>2 DEF DeployDepositContract, ChainInv, TimesTyped, Eth2Specs
    <3> QED
      BY <3>1, <3>2 DEF MatchInv, FilesMatch
  <2> QED
    BY <2>1, <2>2
<1>4. CASE WriteGenesis
  <2>1. /\ UNCHANGED <<eth2spec, genesis>> /\ step = "tranches" /\ proc' # "serving"
        /\ step' \in {"tranches", "listen"}
    BY <1>4 DEF WriteGenesis, SetupGenesis, At, Goto, Fail, memory
  <2>2. CASE step' = step
    BY <2>1, <2>2 DEF MatchInv, FilesMatch
  <2>3. CASE step' # step
    <3>1. specYaml' = buildConfig(eth2spec) /\ \E block : state' = GenerateGenesis(block)
      BY <1>4, <2>3 DEF WriteGenesis
    <3> QED
      BY <2>1, <3>1 DEF MatchInv, FilesMatch, buildConfig, GenerateGenesis, Fork, ForkVersion
  <2> QED
    BY <2>2, <2>3
<1>5. CASE StartAgain
  BY <1>5 DEF StartAgain, Restart, MatchInv, FilesMatch
<1>6. CASE Other
  <2>1. UNCHANGED network
    BY <1>6 DEF Other
  <2>2. CASE CreateTranche
    BY <2>1, <2>2 DEF CreateTranche, At, Fail, MatchInv, FilesMatch, network
  <2>3. CASE ~CreateTranche
    <3>1. /\ genesis' = genesis
          /\ step' = step \/ step' \notin {"tranches", "listen"}
      BY <1>6, <2>3 DEF Other, Begin, CreateNode, StartNode, InspectNode, Poll, Register,
           NodeStopped, GiveUp, SetupGrpcServer, Expire, CloseWaitCh, Kill, ContainerReady,
           NodeExit, Terminated, Goto, Fail, memory, vars
    <3>2. proc' = "serving" => step' = "listen"
      BY <1>6, <2>3 DEF Other, Begin, CreateNode, StartNode, InspectNode, Poll, Register,
           NodeStopped, GiveUp, SetupGrpcServer, Expire, CloseWaitCh, Kill, ContainerReady,
           NodeExit, Terminated, At, Goto, Fail, vars, MatchInv
    <3> QED
      BY <1>1, <2>1, <3>1, <3>2
  <2> QED
    BY <2>2, <2>3
<1>7. CASE UNCHANGED genesisVars
  BY <1>1, <1>7 DEF genesisVars, vars, memory, MatchInv
<1> QED
  BY <1>2, <1>3, <1>4, <1>5, <1>6, <1>7 DEF GenesisNext

\* However long the bootstrap takes and however often the command was started before: the
\* genesis state and spec.yaml that the beacon nodes get agree on the fork and the version of
\* epoch 0 and, for a genesis after 1970, on its time; the file names the deposit contract,
\* which is older than the genesis (config.go:52-64, server.go:141, 173-199, genesis.go:34).
THEOREM GenesisFitsSpec == GenesisSpec => []GenesisMatchesSpec
<1>1. ChainInv /\ MatchInv => GenesisMatchesSpec
  <2> SUFFICES ASSUME ChainInv, MatchInv, proc = "serving"
               PROVE  GenesisMatchesSpec
    BY DEF GenesisMatchesSpec
  <2>1. specYaml = buildConfig(eth2spec) /\ eth2spec.DepositContract = "contract"
    BY DEF MatchInv, FilesMatch
  <2>2. PICK block : state = GenerateGenesis(block)
    BY DEF MatchInv, FilesMatch
  <2>3. eth2spec.Altair \in Nat \cup {NoFork}
    BY DEF ChainInv, TimesTyped, Eth2Specs
  <2>4. specYaml.ALTAIR_FORK_EPOCH = eth2spec.Altair /\ specYaml.MIN_GENESIS_TIME = eth2spec.MinGenesisTime
    BY <2>1 DEF buildConfig
  <2>5. state.version = VersionAt(0)
    BY <2>1, <2>2, <2>3 DEF VersionAt, buildConfig, GenerateGenesis, ForkVersion, Fork, NoFork,
       altairForkVersion, phase0ForkVersion
  <2>6. (state.fork = "altair") = (specYaml.ALTAIR_FORK_EPOCH = 0)
    BY <2>2, <2>4 DEF GenerateGenesis, Fork
  <2>7. /\ specYaml.MIN_GENESIS_TIME >= 0 => state.time = specYaml.MIN_GENESIS_TIME
        /\ state.validators = genesis
    <3>1. state.time = uint64(eth2spec.MinGenesisTime) /\ state.validators = genesis
      BY <2>2 DEF GenerateGenesis
    <3>2. eth2spec.MinGenesisTime \in Int
      BY DEF ChainInv, TimesTyped, Eth2Specs
    <3> QED
      BY <2>4, <3>1, <3>2 DEF uint64
  <2>9. contract <= state.time
    <3>1. state.fork # "none"
      BY <2>2 DEF GenerateGenesis, Fork
    <3>2. state # NoState
      BY <3>1 DEF NoState
    <3> QED
      BY <3>2 DEF ChainInv, ContractIsOlder
  <2>8. specYaml.DEPOSIT_CONTRACT_ADDRESS = "contract"
    BY <2>1 DEF buildConfig
  <2> QED
    BY <2>1, <2>5, <2>6, <2>7, <2>8, <2>9 DEF GenesisMatchesSpec
<1>2. GenesisInit => ChainInv /\ MatchInv
  BY InitChain, InitMatch
<1>3. ChainInv /\ MatchInv /\ [GenesisNext]_genesisVars => (ChainInv /\ MatchInv)'
  BY NextChain, NextMatch
<1> QED
  BY <1>1, <1>2, <1>3, PTL DEF GenesisSpec
=============================================================================
