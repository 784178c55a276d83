----------------------------- MODULE Bootstrap -----------------------------
(***************************************************************************)
(* NewServer of internal/server/server.go: the agent deploys two bootnodes *)
(* and the eth1 node, the deposit contract, creates the genesis tranches   *)
(* and starts to serve.  A node is deployed when its retry function says   *)
(* that it is ready; retryFn of internal/docker/docker.go asks it again    *)
(* and again, against a timer and against the goroutine that waits for the *)
(* exit of the container.  Nothing handles signals yet, and an error ends  *)
(* the process.  It may be started again, under the same name.             *)
(*                                                                         *)
(* Definitions named ...Bug are faulty variants of the one that follows    *)
(* them: no specification uses them, they show that a property can fail.   *)
(***************************************************************************)
EXTENDS DockerEngine, GoMap, FiniteSets

CONSTANTS Configs,   \* the numbers of tranches and of genesis validators to start with
          MaxStarts  \* bound: how often the agent is started

ASSUME ConfigsAssumption == Configs \subseteq [tranches : Nat, validators : Nat]
ASSUME StartsAssumption  == MaxStarts \in Nat \ {0}

VARIABLES config,  \* Config.NumTranches and Config.NumGenesisValidators
          proc,    \* the state of the process
          starts,  \* how often it was started
          step,    \* where NewServer is
          id,      \* the container of the node that is being deployed
          nodes,   \* Server.nodes
          enr, enode, \* Server.bootnodeENR and bootnodeEC
          tranches, genesis, \* Server.tranches, and the validators of the genesis state
          watched, waited, expired, \* the driver: containers with a goroutine that waits for
                                    \* their exit, those whose waitCh is closed, and the timer
          dir, files, \* the data directory exists; its tranche files
          batch,   \* how often NewAccounts was called
          ready    \* the containers that have come up (in the daemon)

memory == <<nodes, enr, enode, tranches, genesis, watched, waited, expired>>
disk   == <<dir, files, batch>>
vars   == <<engine, ready, config, proc, starts, step, id, memory, disk>>

\* The empty string.
NoAddress == ""

\* The nodes of the bootstrap, in the order of their deployment.
BootnodeV5 == 1
BootnodeV4 == 2
Eth1       == 3

\* The one that is being deployed.
deploying == Len(nodes) + 1

Init ==
    /\ config \in Configs
    /\ proc = "starting" /\ starts = 1
    /\ step = "begin" /\ id = NoContainer
    /\ nodes = <<>> /\ enr = NoAddress /\ enode = NoAddress
    /\ tranches = <<>> /\ genesis = {}
    /\ watched = {} /\ waited = {} /\ expired = FALSE
    /\ containers = <<>> /\ running = {} /\ ready = {}
    /\ dir = FALSE /\ files = <<>> /\ batch = 0

-----------------------------------------------------------------------------
At(label) == proc = "starting" /\ step = label

Goto(label) == step' = label /\ UNCHANGED proc

\* NewServer returns the error and the command exits with 1: nothing is undone.
Fail == proc' = "failed" /\ UNCHANGED step

\* Takes the directory of an earlier run for its own.
BeginBug ==
    /\ At("begin")
    /\ config.tranches # 0 /\ config.validators % config.tranches = 0
    /\ dir' = TRUE
    /\ Goto("create")
    /\ UNCHANGED <<engine, ready, config, starts, id, memory, files, batch>>

\* The counts are checked, a division by zero panics; then the Docker client and the
\* data directory, which must not exist.
Begin ==
    /\ At("begin")
    /\ \/ /\ config.tranches = 0
          /\ proc' = "crashed"
          /\ UNCHANGED <<step, dir>>
       \/ /\ config.tranches # 0
          /\ config.validators % config.tranches = 0
          /\ ~dir
          /\ dir' = TRUE
          /\ Goto("create")
       \/ /\ config.tranches # 0
          /\ Fail
          /\ UNCHANGED dir
    /\ UNCHANGED <<engine, ready, config, starts, id, memory, files, batch>>

-----------------------------------------------------------------------------
(* deployNode, for the node whose turn it is. *)

NodeSpec(k) == [node |-> k]

\* The log file, the mounts, the image, the templates and ContainerCreate.
CreateNode ==
    /\ At("create")
    /\ \/ /\ ContainerCreate(NodeSpec(deploying))
          /\ id' = NextContainer
          /\ Goto("start")
       \/ /\ Fail
          /\ UNCHANGED <<engine, id>>
    /\ UNCHANGED <<ready, config, starts, memory, disk>>

\* A start that fails may have reached the daemon.
StartNode ==
    /\ At("start")
    /\ \/ ContainerStart(id) /\ Goto("inspect")
       \/ Fail /\ (UNCHANGED engine \/ ContainerStart(id))
    /\ UNCHANGED <<ready, config, starts, id, memory, disk>>

\* ContainerInspect, then go n.run() and the timer of retryFn.
InspectNode ==
    /\ At("inspect")
    /\ \/ /\ watched' = watched \cup {id}
          /\ expired' = FALSE
          /\ Goto("retry")
       \/ Fail /\ UNCHANGED <<watched, expired>>
    /\ UNCHANGED <<engine, ready, config, starts, id, nodes, enr, enode, tranches, genesis, waited, disk>>

\* s.nodes = append(s.nodes, node), and on to the next node.
Register ==
    /\ nodes' = Append(nodes, id)
    /\ Goto(IF deploying = Eth1 THEN "contract" ELSE "create")

\* A retry function that succeeds: the v5 bootnode has printed its record, the eth1 node
\* answers.  The one of the v4 bootnode takes what was printed so far, if anything.
Poll ==
    /\ At("retry")
    /\ \/ /\ deploying = BootnodeV5
          /\ id \in ready
          /\ enr' = "enr"
          /\ UNCHANGED enode
       \/ /\ deploying = BootnodeV4
          /\ enode' \in {NoAddress} \cup (IF id \in ready THEN {"enode"} ELSE {})
          /\ UNCHANGED enr
       \/ /\ deploying = Eth1
          /\ id \in ready \cap running
          /\ UNCHANGED <<enr, enode>>
    /\ Register
    /\ UNCHANGED <<engine, ready, config, starts, id, tranches, genesis, watched, waited, expired, disk>>

\* case <-n.waitCh
NodeStopped ==
    /\ At("retry")
    /\ id \in waited
    /\ Fail
    /\ UNCHANGED <<engine, ready, config, starts, id, memory, disk>>

\* Starts the timer anew in every round.
ExpireBug ==
    /\ At("retry")
    /\ expired' = FALSE
    /\ UNCHANGED <<engine, ready, config, proc, starts, step, id, nodes, enr, enode, tranches,
                   genesis, watched, waited, disk>>

\* The minute of retryFn is over.
Expire ==
    /\ At("retry")
    /\ expired' = TRUE
    /\ UNCHANGED <<engine, ready, config, proc, starts, step, id, nodes, enr, enode, tranches,
                   genesis, watched, waited, disk>>

\* Has waited for long enough and hopes for the best.
GiveUpBug ==
    /\ At("retry")
    /\ expired
    /\ Register
    /\ UNCHANGED <<engine, ready, config, starts, id, enr, enode, tranches, genesis, watched,
                   waited, expired, disk>>

\* case <-timeoutT.C
GiveUp ==
    /\ At("retry")
    /\ expired
    /\ Fail
    /\ UNCHANGED <<engine, ready, config, starts, id, memory, disk>>

\* run: the container is down, or waiting for it failed.
CloseWaitCh ==
    /\ proc = "starting"
    /\ \E c \in watched \ waited : waited' = waited \cup {c}
    /\ UNCHANGED <<engine, ready, config, proc, starts, step, id, nodes, enr, enode, tranches,
                   genesis, watched, expired, disk>>

-----------------------------------------------------------------------------
(* The rest of setupEth1Network, setupGenesis, setupGrpcServer. *)

\* Serves first.
DeployContractBug ==
    /\ At("contract")
    /\ Goto("listen")
    /\ UNCHANGED <<engine, ready, config, starts, id, memory, disk>>

\* newDepositHandler: the eth1 node has to mine the contract.
DeployContract ==
    /\ At("contract")
    /\ \/ nodes[Eth1] \in running /\ Goto("tranches")
       \/ Fail
    /\ UNCHANGED <<engine, ready, config, starts, id, memory, disk>>

NewAccounts(n) == {batch} \X (1..n)

\* One round too many.
MoreTranchesBug == Cardinality(DOMAIN tranches) <= config.tranches

MoreTranches == Cardinality(DOMAIN tranches) < config.tranches

\* Keeps the accounts of the last tranche only.
InitialAccountsBug(accounts) == accounts

\* initialAccounts = append(initialAccounts, tranche.Accounts...)
InitialAccounts(accounts) == genesis \cup accounts

\* One round of the loop over NumTranches: createTranche without deposits.
CreateTranche ==
    LET index    == Cardinality(DOMAIN tranches)
        accounts == NewAccounts(config.validators \div config.tranches)
    IN  /\ At("tranches")
        /\ MoreTranches
        /\ batch' = batch + 1
        /\ \/ /\ files' = Put(files, index, accounts)
              /\ tranches' = Put(tranches, index, accounts)
              /\ genesis' = InitialAccounts(accounts)
              /\ UNCHANGED <<proc, step>>
           \/ /\ files' \in {files, Put(files, index, {})}
              /\ Fail
              /\ UNCHANGED <<tranches, genesis>>
        /\ UNCHANGED <<engine, ready, config, starts, id, nodes, enr, enode, watched, waited,
                       expired, dir>>

\* The latest block, the genesis state (refused if the block is younger), the files of
\* the specification and the genesis.
SetupGenesis ==
    /\ At("tranches")
    /\ ~MoreTranches
    /\ \/ nodes[Eth1] \in running /\ Goto("listen")
       \/ Fail
    /\ UNCHANGED <<engine, ready, config, starts, id, memory, disk>>

SetupGrpcServer ==
    /\ At("listen")
    /\ \/ proc' = "serving" /\ UNCHANGED step
       \/ Fail
    /\ UNCHANGED <<engine, ready, config, starts, id, memory, disk>>

-----------------------------------------------------------------------------
\* signal.Notify comes after NewServer: until then a signal ends the process.
Kill ==
    /\ proc = "starting"
    /\ proc' = "killed"
    /\ UNCHANGED <<engine, ready, config, starts, step, id, memory, disk>>

Over == proc \in {"failed", "crashed", "killed"}

\* The command is run again, with whatever flags: what is on the disk and in the daemon is
\* still there.
Restart ==
    /\ Over
    /\ starts < MaxStarts
    /\ starts' = starts + 1
    /\ config' \in Configs
    /\ proc' = "starting"
    /\ step' = "begin" /\ id' = NoContainer
    /\ nodes' = <<>> /\ enr' = NoAddress /\ enode' = NoAddress
    /\ tranches' = <<>> /\ genesis' = {}
    /\ watched' = {} /\ waited' = {} /\ expired' = FALSE
    /\ UNCHANGED <<engine, ready, disk>>

ContainerReady ==
    /\ \E c \in running \ ready : ready' = ready \cup {c}
    /\ UNCHANGED <<engine, config, proc, starts, step, id, memory, disk>>

NodeExit ==
    /\ ContainerExit
    /\ UNCHANGED <<ready, config, proc, starts, step, id, memory, disk>>

Terminated ==
    /\ proc = "serving" \/ (Over /\ starts = MaxStarts)
    /\ UNCHANGED vars

NewServer ==
    \/ Begin
    \/ CreateNode \/ StartNode \/ InspectNode \/ Poll \/ NodeStopped \/ GiveUp
    \/ DeployContract \/ CreateTranche \/ SetupGenesis \/ SetupGrpcServer

Next ==
    \/ NewServer \/ Expire \/ CloseWaitCh
    \/ Kill \/ Restart
    \/ ContainerReady \/ NodeExit
    \/ Terminated

\* The goroutine of NewServer is scheduled, requests are answered, and time passes.
Spec == Init /\ [][Next]_vars /\ WF_vars(NewServer) /\ WF_vars(Expire)

-----------------------------------------------------------------------------
(* Properties. *)

Labels == {"begin", "create", "start", "inspect", "retry", "contract", "tranches", "listen"}

\* Every variable has its type; the tranches are numbered below their count.
TypeOK ==
    /\ config \in Configs
    /\ proc \in {"starting", "serving", "failed", "crashed", "killed"}
    /\ starts \in 1..MaxStarts
    /\ step \in Labels
    /\ containers \in Seq([node : {BootnodeV5, BootnodeV4, Eth1}])
    /\ running \subseteq 1..Len(containers) /\ ready \subseteq 1..Len(containers)
    /\ id \in 0..Len(containers)
    /\ nodes \in Seq(1..Len(containers)) /\ Len(nodes) <= Eth1
    /\ enr \in {NoAddress, "enr"} /\ enode \in {NoAddress, "enode"}
    /\ DOMAIN tranches \subseteq 0..(config.tranches - 1)
    /\ waited \subseteq watched /\ watched \subseteq 1..Len(containers)
    /\ expired \in BOOLEAN /\ dir \in BOOLEAN
    /\ batch \in Nat

\* The v5 bootnode and the eth1 node are only registered if they have come up: that the wait
\* is over, by its timer or because the container has exited, is no success (docker.go:318-335).
\* One that came up first may have exited since, and even be reported as stopped, when it is
\* registered: the retry function of the bootnode only reads its log.  Whatever runs failed
\* before, the record of a registered v5 bootnode is known to the beacon nodes (server.go:78-83).
NodesWereReady ==
    /\ \A i \in DOMAIN nodes : i \in {BootnodeV5, Eth1} => nodes[i] \in ready
    /\ Len(nodes) >= BootnodeV5 => enr = "enr"

\* A run never writes over the tranche files of an earlier one, their only copy of the
\* keys: newLogDir refuses a directory that exists (server.go:613).
FilesAreKept == [][\A i \in DOMAIN files : i \in DOMAIN files' /\ files'[i] = files[i]]_files

\* When the agent serves, the validators of the genesis state are the accounts of the
\* tranches, as many as it was told (server.go:152-161): a network that waits for
\* validators nobody has the keys of never starts.
GenesisHoldsTheTranches ==
    proc = "serving" =>
        /\ genesis = UNION {tranches[i] : i \in DOMAIN tranches}
        /\ Cardinality(genesis) = config.validators

\* The agent as module Server sees it: no call has been made, no signal has come.  How
\* many tranches there are, and of how many accounts, is up to the arguments of InitWith.
Agent == INSTANCE Server WITH
    Handlers <- {"handler"}, NoHandler <- "none", Clients <- {"client"}, OtherClient <- "other",
    NumTranches <- 0, GenesisAccounts <- 0, MaxCalls <- 0, Faults <- {"exit"},
    Requests <- {[kind |-> "NodeList", client |-> "other", beacons |-> 0, validators |-> 0,
                  tranche |-> 0, name |-> [type |-> "OtherType", num |-> 0, client |-> "other"]]},
    containers <- [i \in DOMAIN containers |->
                      [name   |-> [type   |-> "OtherType", num |-> containers[i].node,
                                   client |-> "other"],
                       keys   |-> {},
                       target |-> NoContainer]],
    tranches <- [i \in DOMAIN tranches |->
                    [accounts  |-> tranches[i],
                     validator |-> [type |-> "OtherType", num |-> 0, client |-> "other"]]],
    deposited <- {}, calls <- 0, lock <- "none", snapshot <- <<>>, next <- 1, unstopped <- {},
    pc <- [h \in {"handler"} |-> "idle"],
    req <- [h \in {"handler"} |->
               [kind |-> "NodeList", client |-> "other", beacons |-> 0, validators |-> 0,
                tranche |-> 0, name |-> [type |-> "OtherType", num |-> 0, client |-> "other"]]],
    reply <- [h \in {"handler"} |-> [ok |-> FALSE, nodes |-> <<>>, stubs |-> {}]],
    job <- [h \in {"handler"} |->
               [left |-> 0, mine |-> <<>>, target |-> NoContainer, index |-> 0, accounts |-> {},
                name |-> [type |-> "OtherType", num |-> 0, client |-> "other"],
                id |-> NoContainer]]

\* What NewServer leaves behind when it succeeds is an initial state of Server, also in a
\* run that follows others: what is proved of Server is true of the agent that was started.
BecomesServer ==
    proc = "serving" =>
        Agent!InitWith(config.tranches, config.validators \div config.tranches)

\* The bootstrap ends, though a node may never come up: the timer of retryFn ends the wait.
BootstrapEnds == proc = "starting" ~> proc # "starting"

-----------------------------------------------------------------------------
(* What the tests say and the code does not do. *)

\* bootnode_test.go:30 asserts that the address of the v4 bootnode is not empty.
EnodeIsKnown == Len(nodes) >= BootnodeV4 => enode # NoAddress
=============================================================================
