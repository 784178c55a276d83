------------------------------- MODULE Server -------------------------------
(***************************************************************************)
(* The agent of internal/server/server.go once its testnet is up.  Every   *)
(* gRPC call runs in a goroutine of its own and serialises on Server.lock; *)
(* the signal handler of internal/cmd/server/command.go stops the nodes    *)
(* without that lock.  The steps of a call are the places where the agent  *)
(* talks to Docker, to the execution node or to the file system, since     *)
(* there it may fail and anything else may run.                            *)
(*                                                                         *)
(* Definitions named ...Bug are faulty variants of the one that follows    *)
(* them: no specification uses them, they show that a property can fail.   *)
(***************************************************************************)
EXTENDS DockerEngine, GoMap, FiniteSets

CONSTANTS Handlers,        \* goroutines that serve gRPC calls
          NoHandler,       \* the value of lock when it is free
          Clients,         \* the consensus clients the factories know
          OtherClient,     \* the client no factory knows
          NumTranches,     \* tranches in the genesis state
          GenesisAccounts, \* validators of each of them
          Requests,        \* the calls that clients of the agent may make
          MaxCalls,        \* bound: calls made in a behaviour
          Faults           \* the kinds of failure that may happen

FaultKinds == {"deposit", "write", "create", "start", "inspect", "stop", "exit", "race"}

Kinds == {"DepositList", "DepositCreate", "DeployBeacon", "DeployValidator",
          "NodeList", "NodeStatus"}

\* "<type>-<num>-<client>"; also what the NodeType and NodeClient labels say.
Names == [type   : {"OtherType", "Beacon", "Validator"},
          num    : Nat,
          client : Clients \cup {OtherClient}]

Name(type, num, client) == [type |-> type, num |-> num, client |-> client]

\* The empty name: no call asks for it, no node has it.
NoName == Name("OtherType", 0, OtherClient)

\* A request: how many beacon nodes it wants (Count or BeaconCount), how many
\* new validators (NumValidators), which tranche (NumTranch), which node (Name).
RequestType == [kind       : Kinds,
                client     : Clients \cup {OtherClient},
                beacons    : Nat,
                validators : Nat,
                tranche    : Nat,
                name       : Names]

ASSUME HandlersAssumption == NoHandler \notin Handlers
ASSUME ClientsAssumption  == OtherClient \notin Clients
ASSUME NumbersAssumption  == NumTranches \in Nat /\ GenesisAccounts \in Nat /\ MaxCalls \in Nat
ASSUME RequestsAssumption == Requests \subseteq RequestType /\ Requests # {}
ASSUME FaultsAssumption   == Faults \subseteq FaultKinds

VARIABLES lock,      \* Server.lock: the handler that holds it
          pc, req, job, reply, \* per handler: where it is, its call, its locals, its answer
          calls,     \* calls made so far
          tranches,  \* Server.tranches: index -> accounts and validator
          nodes,     \* Server.nodes: the ids of the registered containers
          files,     \* the tranche_<index>.txt files of the data directory
          batch,     \* how often NewAccounts was called
          deposited, \* the batches of accounts whose deposits were all made
          proc,      \* the state of the agent's process
          snapshot, next, unstopped \* Stop: its nodes, its position, what it failed to stop

ledger   == <<tranches, files, batch, deposited>>
shutdown == <<proc, snapshot, next, unstopped>>
vars     == <<engine, lock, pc, req, job, reply, calls, ledger, nodes, shutdown>>

-----------------------------------------------------------------------------
\* An account is named by the call of NewAccounts that made it, and its place.
NewAccounts(n) == {batch} \X (1..n)

NoJob == [left |-> 0, mine |-> <<>>, target |-> NoContainer, name |-> NoName,
          index |-> 0, accounts |-> {}, id |-> NoContainer]

Answer(ids, stubs) == [ok |-> TRUE, nodes |-> ids, stubs |-> stubs]

Error == [ok |-> FALSE, nodes |-> <<>>, stubs |-> {}]

ToProto(index, t) == [index |-> index, accounts |-> t.accounts, validator |-> t.validator]

\* Takes an empty tranche for a used one.
IsConsumedBug(t) == t.accounts = {}

IsConsumed(t) == t.validator # NoName

\* filterLocked: the places in nodes of the nodes with that label, or both.
OfType(type) == {i \in DOMAIN nodes : containers[nodes[i]].name.type = type}
\* Forgets the client's label.
BeaconsBug(client) == OfType("Beacon")
Beacons(client) == {i \in OfType("Beacon") : containers[nodes[i]].name.client = client}

numOfNodes(type) == Cardinality(OfType(type))

Alive == proc \in {"serving", "stopping"}

\* Where a call starts once it holds the lock.
FirstStep(kind) == CASE kind = "DepositList"   -> "depositList"
                     [] kind = "DepositCreate" -> "accounts"
                     [] kind = "NodeList"      -> "nodeList"
                     [] kind = "NodeStatus"    -> "nodeStatus"
                     [] OTHER                  -> "beacons"

-----------------------------------------------------------------------------
\* After NewServer: a v5 bootnode, a v4 bootnode, the eth1 node, each of which may
\* have exited since, and the tranches of the genesis state, whose accounts need no
\* deposit.
InitWith(numTranches, genesisAccounts) ==
    /\ containers = [i \in 1..3 |-> [name   |-> Name("OtherType", i, OtherClient),
                                     keys   |-> {},
                                     target |-> NoContainer]]
    /\ running \in IF "exit" \in Faults THEN SUBSET (1..3) ELSE {1..3}
    /\ nodes = <<1, 2, 3>>
    /\ tranches = [i \in 0..(numTranches - 1) |-> [accounts  |-> {i} \X (1..genesisAccounts),
                                                   validator |-> NoName]]
    /\ files = [i \in DOMAIN tranches |-> tranches[i].accounts]
    /\ batch = numTranches
    /\ deposited = {}
    /\ lock = NoHandler
    /\ pc = [h \in Handlers |-> "idle"]
    /\ req = [h \in Handlers |-> CHOOSE r \in Requests : TRUE]
    /\ job = [h \in Handlers |-> NoJob]
    /\ reply = [h \in Handlers |-> Error]
    /\ calls = 0
    /\ proc = "serving"
    /\ snapshot = <<>>
    /\ next = 1
    /\ unstopped = {}

Init == InitWith(NumTranches, GenesisAccounts)

-----------------------------------------------------------------------------
(* The life of a call. *)

\* gRPC accepts calls until the process ends: Stop does not stop its server.
Arrive(h) ==
    /\ Alive
    /\ pc[h] = "idle"
    /\ calls < MaxCalls
    /\ \E r \in Requests : req' = [req EXCEPT ![h] = r]
    /\ pc' = [pc EXCEPT ![h] = "waiting"]
    /\ reply' = [reply EXCEPT ![h] = Error]
    /\ calls' = calls + 1
    /\ UNCHANGED <<engine, lock, job, ledger, nodes, shutdown>>

At(h, label) == Alive /\ pc[h] = label

Goto(h, label) == pc' = [pc EXCEPT ![h] = label] /\ UNCHANGED <<lock, req, reply, calls>>

\* Unlocks by hand and forgets to on the error paths.
ReturnBug(h, r) ==
    /\ lock' = IF r.ok THEN NoHandler ELSE lock
    /\ pc' = [pc EXCEPT ![h] = "idle"]
    /\ job' = [job EXCEPT ![h] = NoJob]
    /\ reply' = [reply EXCEPT ![h] = r]
    /\ UNCHANGED <<req, calls>>

\* The deferred s.lock.Unlock() and the return to the caller.
Return(h, r) ==
    /\ lock' = NoHandler
    /\ pc' = [pc EXCEPT ![h] = "idle"]
    /\ job' = [job EXCEPT ![h] = NoJob]
    /\ reply' = [reply EXCEPT ![h] = r]
    /\ UNCHANGED <<req, calls>>

\* A fault of that kind makes the call fail.
Fail(h, fault) == fault \in Faults /\ Return(h, Error)

AsksForNoName(h) == req[h].kind = "NodeStatus" /\ req[h].name = NoName

\* NodeStatus refuses an empty name before it takes the lock.
RefuseNoName(h) ==
    /\ At(h, "waiting")
    /\ AsksForNoName(h)
    /\ pc' = [pc EXCEPT ![h] = "idle"]
    /\ UNCHANGED <<engine, lock, req, job, reply, calls, ledger, nodes, shutdown>>

\* Does not wait for the lock.
LockBug(h) ==
    /\ At(h, "waiting")
    /\ ~AsksForNoName(h)
    /\ lock' = h
    /\ pc' = [pc EXCEPT ![h] = FirstStep(req[h].kind)]
    /\ job' = [job EXCEPT ![h].left = req[h].beacons]
    /\ UNCHANGED <<engine, req, reply, calls, ledger, nodes, shutdown>>

Lock(h) ==
    /\ At(h, "waiting")
    /\ ~AsksForNoName(h)
    /\ lock = NoHandler
    /\ lock' = h
    /\ pc' = [pc EXCEPT ![h] = FirstStep(req[h].kind)]
    /\ job' = [job EXCEPT ![h].left = req[h].beacons]
    /\ UNCHANGED <<engine, req, reply, calls, ledger, nodes, shutdown>>

-----------------------------------------------------------------------------
(* DepositList, NodeList, NodeStatus: they only read. *)

DepositList(h) ==
    /\ At(h, "depositList")
    /\ Return(h, Answer(<<>>, {ToProto(i, tranches[i]) : i \in DOMAIN tranches}))
    /\ UNCHANGED <<engine, ledger, nodes, shutdown>>

NodeList(h) ==
    /\ At(h, "nodeList")
    /\ Return(h, Answer(nodes, {}))
    /\ UNCHANGED <<engine, ledger, nodes, shutdown>>

\* The last node of that name; without one specNodeToNode(nil) ends the process.
NodeStatus(h) ==
    /\ At(h, "nodeStatus")
    /\ LET match == {i \in DOMAIN nodes : containers[nodes[i]].name = req[h].name}
       IN  \/ /\ \E i \in match :
                    /\ \A j \in match : j <= i
                    /\ Return(h, Answer(<<nodes[i]>>, {}))
              /\ UNCHANGED proc
           \/ /\ match = {}
              /\ proc' = "crashed"
              /\ UNCHANGED <<lock, pc, req, job, reply, calls>>
    /\ UNCHANGED <<engine, ledger, nodes, snapshot, next, unstopped>>

-----------------------------------------------------------------------------
(* createTranche, called by DepositCreate and by NodeDeploy. *)

\* Drops the error of MakeDeposits.
MakeDepositsBug(h) ==
    /\ At(h, "accounts")
    /\ Goto(h, "write")
    /\ batch' = batch + 1
    /\ job' = [job EXCEPT ![h].accounts = NewAccounts(req[h].validators)]
    /\ deposited' \in {deposited \cup {batch}, deposited}
    /\ UNCHANGED <<engine, tranches, files, nodes, shutdown>>

\* NewAccounts and MakeDeposits.  When MakeDeposits fails some of the deposits were made or
\* still will be; it may be all of them, if only the wait for the last receipt failed.
MakeDeposits(h) ==
    /\ At(h, "accounts")
    /\ batch' = batch + 1
    /\ \/ /\ Goto(h, "write")
          /\ job' = [job EXCEPT ![h].accounts = NewAccounts(req[h].validators)]
          /\ deposited' = deposited \cup {batch}
       \/ /\ req[h].validators > 0
          /\ Fail(h, "deposit")
          /\ deposited' \in {deposited, deposited \cup {batch}}
    /\ UNCHANGED <<engine, tranches, files, nodes, shutdown>>

\* writeFile: one that fails has truncated the file, or has not touched it.
WriteTranche(h) ==
    /\ At(h, "write")
    /\ LET numTranches == Cardinality(DOMAIN tranches)
       IN  \/ /\ Goto(h, "insert")
              /\ files' = Put(files, numTranches, job[h].accounts)
              /\ job' = [job EXCEPT ![h].index = numTranches]
           \/ /\ Fail(h, "write")
              /\ files' \in {files, Put(files, numTranches, {})}
    /\ UNCHANGED <<engine, tranches, batch, deposited, nodes, shutdown>>

\* DepositCreate answers with a stub whose Index it leaves at zero.
InsertTranche(h) ==
    /\ At(h, "insert")
    /\ LET tranche == [accounts |-> job[h].accounts, validator |-> NoName]
       IN  /\ tranches' = Put(tranches, job[h].index, tranche)
           /\ \/ /\ req[h].kind = "DepositCreate"
                 /\ Return(h, Answer(<<>>, {ToProto(0, tranche)}))
              \/ /\ req[h].kind = "DeployValidator"
                 /\ Goto(h, "name")
                 /\ UNCHANGED job
    /\ UNCHANGED <<engine, files, batch, deposited, nodes, shutdown>>

-----------------------------------------------------------------------------
(* NodeDeploy: the beacon nodes, then the validator client. *)

\* deployBeacon up to deployNode; a client without a factory is refused.
NameBeacon(h, num) ==
    /\ At(h, "beacons")
    /\ \/ /\ req[h].client \in Clients
          /\ Goto(h, "create")
          /\ job' = [job EXCEPT ![h].name = Name("Beacon", num, req[h].client)]
       \/ /\ req[h].client \notin Clients
          /\ Return(h, Error)
    /\ UNCHANGED <<engine, ledger, nodes, shutdown>>

\* Goes on after the last one.
DeployBeaconBug(h) == NameBeacon(h, numOfNodes("Beacon"))

\* Numbers the nodes by their place in the call.
DeployBeaconCountBug(h) == job[h].left > 0 /\ NameBeacon(h, Len(job[h].mine))

\* One round of the loop over Count.
DeployBeacon(h) == job[h].left > 0 /\ NameBeacon(h, numOfNodes("Beacon"))

BeaconsDone(h) ==
    /\ At(h, "beacons")
    /\ job[h].left = 0
    /\ \/ /\ req[h].kind = "DeployBeacon"
          /\ Return(h, Answer(job[h].mine, {}))
       \/ /\ req[h].kind = "DeployValidator"
          /\ Goto(h, "target")
          /\ UNCHANGED job
    /\ UNCHANGED <<engine, ledger, nodes, shutdown>>

\* filterLocked keeps the order of nodes: its first node.
IsFirstBeacon(i, client) == i \in Beacons(client) /\ \A j \in Beacons(client) : i <= j

Target(h, id) ==
    /\ job' = [job EXCEPT ![h].target = id]
    /\ Goto(h, IF req[h].validators = 0 THEN "select" ELSE "accounts")

\* Prefers a node that was there before to the one the call deployed.
PickTargetBug(h) ==
    /\ At(h, "target")
    /\ \E i \in DOMAIN nodes : IsFirstBeacon(i, req[h].client) /\ Target(h, nodes[i])
    /\ UNCHANGED <<engine, ledger, nodes, shutdown>>

\* The first beacon node of this call, or else the first one of its client.
PickTarget(h) ==
    /\ At(h, "target")
    /\ \/ /\ job[h].mine # <<>>
          /\ Target(h, Head(job[h].mine))
       \/ /\ job[h].mine = <<>>
          /\ \E i \in DOMAIN nodes : IsFirstBeacon(i, req[h].client) /\ Target(h, nodes[i])
       \/ /\ job[h].mine = <<>>
          /\ Beacons(req[h].client) = {}
          /\ Return(h, Error)
    /\ UNCHANGED <<engine, ledger, nodes, shutdown>>

\* A tranche is selected from the list.
SelectTranche(h) ==
    /\ At(h, "select")
    /\ LET index == req[h].tranche
           usable == index \in DOMAIN tranches /\ ~IsConsumed(tranches[index])
       IN  \/ /\ usable
              /\ Goto(h, "name")
              /\ job' = [job EXCEPT ![h] = [@ EXCEPT !.index = index,
                                                      !.accounts = tranches[index].accounts]]
           \/ /\ ~usable
              /\ Return(h, Error)
    /\ UNCHANGED <<engine, ledger, nodes, shutdown>>

NameValidator(h) ==
    /\ At(h, "name")
    /\ LET name == Name("Validator", numOfNodes("Validator"), req[h].client)
       IN  \/ /\ req[h].client \in Clients
              /\ Goto(h, "create")
              /\ job' = [job EXCEPT ![h].name = name]
           \/ /\ req[h].client \notin Clients
              /\ Return(h, Error)
    /\ UNCHANGED <<engine, ledger, nodes, shutdown>>

-----------------------------------------------------------------------------
(* deployNode: Docker.Deploy, then the registration. *)

\* When it fails, forgets the nodes that the call has registered.
CreateContainerBug(h) ==
    /\ At(h, "create")
    /\ \/ /\ Goto(h, "start")
          /\ ContainerCreate([name   |-> job[h].name,
                              keys   |-> job[h].accounts,
                              target |-> job[h].target])
          /\ job' = [job EXCEPT ![h].id = NextContainer]
          /\ UNCHANGED nodes
       \/ /\ Fail(h, "create")
          /\ nodes' = SubSeq(nodes, 1, Len(nodes) - Len(job[h].mine))
          /\ UNCHANGED engine
    /\ UNCHANGED <<ledger, shutdown>>

\* Whatever fails before ContainerCreate (the log file, the mounts, the image, the
\* templates) leaves no container behind, nor does ContainerCreate: one that was created
\* though the reply was lost is never started.
CreateContainer(h) ==
    /\ At(h, "create")
    /\ \/ /\ Goto(h, "start")
          /\ ContainerCreate([name   |-> job[h].name,
                              keys   |-> job[h].accounts,
                              target |-> job[h].target])
          /\ job' = [job EXCEPT ![h].id = NextContainer]
       \/ /\ Fail(h, "create")
          /\ UNCHANGED engine
    /\ UNCHANGED <<ledger, nodes, shutdown>>

\* A request that fails may have reached the daemon: then the container runs all the same.
StartContainer(h) ==
    /\ At(h, "start")
    /\ \/ /\ Goto(h, "inspect")
          /\ ContainerStart(job[h].id)
          /\ UNCHANGED job
       \/ /\ Fail(h, "start")
          /\ UNCHANGED engine \/ ContainerStart(job[h].id)
    /\ UNCHANGED <<ledger, nodes, shutdown>>

\* A failed ContainerInspect leaves the container running.
InspectContainer(h) ==
    /\ At(h, "inspect")
    /\ \/ Goto(h, "register") /\ UNCHANGED job
       \/ Fail(h, "inspect")
    /\ UNCHANGED <<engine, ledger, nodes, shutdown>>

\* s.nodes = append(s.nodes, node), and the stub of the answer.
Register(h) ==
    /\ At(h, "register")
    /\ nodes' = Append(nodes, job[h].id)
    /\ LET mine == Append(job[h].mine, job[h].id)
       IN  \/ /\ job[h].name.type = "Beacon"
              /\ Goto(h, "beacons")
              /\ job' = [job EXCEPT ![h] = [@ EXCEPT !.left = job[h].left - 1, !.mine = mine]]
           \/ /\ job[h].name.type = "Validator"
              /\ Goto(h, "consume")
              /\ job' = [job EXCEPT ![h].mine = mine]
    /\ UNCHANGED <<engine, ledger, shutdown>>

\* Consumes the tranche the request names, even when the call made its own.
ConsumeBug(h) ==
    /\ At(h, "consume")
    /\ tranches' = [tranches EXCEPT ![req[h].tranche].validator = job[h].name]
    /\ Return(h, Answer(job[h].mine, {}))
    /\ UNCHANGED <<engine, files, batch, deposited, nodes, shutdown>>

\* tranche.Validator = name, the last thing NodeDeploy does.
Consume(h) ==
    /\ At(h, "consume")
    /\ tranches' = [tranches EXCEPT ![job[h].index].validator = job[h].name]
    /\ Return(h, Answer(job[h].mine, {}))
    /\ UNCHANGED <<engine, files, batch, deposited, nodes, shutdown>>

-----------------------------------------------------------------------------
(* The process: handleSignals and Stop. *)

\* Stop ranges over s.nodes without the lock.  While a call appends to it the
\* length it reads may be ahead of the array: its last element is garbage.
Signal ==
    /\ proc = "serving"
    /\ proc' = "stopping"
    /\ \/ snapshot' = nodes
       \/ /\ "race" \in Faults
          /\ \E h \in Handlers : pc[h] = "register"
          /\ snapshot' = Append(nodes, NoContainer)
    /\ UNCHANGED <<engine, lock, pc, req, job, reply, calls, ledger, nodes, next, unstopped>>

\* Gives up at the first node that cannot be stopped.
StopNodeBug ==
    /\ proc = "stopping"
    /\ next <= Len(snapshot)
    /\ LET id == snapshot[next]
       IN  \/ /\ ContainerStop(id)
              /\ next' = next + 1
              /\ UNCHANGED unstopped
           \/ /\ "stop" \in Faults
              /\ unstopped' = unstopped \cup {id}
              /\ next' = Len(snapshot) + 1
              /\ UNCHANGED engine
    /\ UNCHANGED <<lock, pc, req, job, reply, calls, ledger, nodes, proc, snapshot>>

\* A node that cannot be stopped is logged and passed over.
StopNode ==
    /\ proc = "stopping"
    /\ next <= Len(snapshot)
    /\ next' = next + 1
    /\ LET id == snapshot[next]
       IN  \/ /\ id = NoContainer
              /\ proc' = "crashed"
              /\ UNCHANGED <<engine, unstopped>>
           \/ /\ id # NoContainer
              /\ ContainerStop(id)
              /\ UNCHANGED <<proc, unstopped>>
           \/ /\ id # NoContainer
              /\ "stop" \in Faults
              /\ unstopped' = unstopped \cup {id}
              /\ UNCHANGED <<engine, proc>>
    /\ UNCHANGED <<lock, pc, req, job, reply, calls, ledger, nodes, snapshot>>

\* Stop is done: the process exits with 0, and every goroutine with it.
Exit ==
    /\ proc = "stopping"
    /\ next > Len(snapshot)
    /\ proc' = "exited"
    /\ UNCHANGED <<engine, lock, pc, req, job, reply, calls, ledger, nodes, snapshot, next, unstopped>>

\* A second signal ends the process with 1, whatever Stop still has to do.
SecondSignal ==
    /\ proc = "stopping"
    /\ proc' = "killed"
    /\ UNCHANGED <<engine, lock, pc, req, job, reply, calls, ledger, nodes, snapshot, next, unstopped>>

\* A container ends on its own; the agent takes no notice.
NodeExit ==
    /\ "exit" \in Faults
    /\ ContainerExit
    /\ UNCHANGED <<lock, pc, req, job, reply, calls, ledger, nodes, shutdown>>

Terminated == ~Alive /\ UNCHANGED vars

-----------------------------------------------------------------------------
\* What h does once it holds the lock, until it gives it back.
Step(h) ==
    \/ DepositList(h) \/ NodeList(h) \/ NodeStatus(h)
    \/ MakeDeposits(h) \/ WriteTranche(h) \/ InsertTranche(h)
    \/ DeployBeacon(h) \/ BeaconsDone(h)
    \/ PickTarget(h) \/ SelectTranche(h) \/ NameValidator(h)
    \/ CreateContainer(h) \/ StartContainer(h) \/ InspectContainer(h)
    \/ Register(h) \/ Consume(h)

Call(h) == Arrive(h) \/ RefuseNoName(h) \/ Lock(h) \/ Step(h)

\* Waits for Server.lock.
StopBug == lock = NoHandler /\ (StopNode \/ Exit)

Stop == StopNode \/ Exit

Next ==
    \/ \E h \in Handlers : Call(h)
    \/ Signal \/ Stop \/ SecondSignal \/ NodeExit
    \/ Terminated

Spec == Init /\ [][Next]_vars

\* The signal handler's goroutine is scheduled; nothing is said of the calls.
StopSpec == Spec /\ WF_vars(Stop)

\* A call that can take a step takes it, if Docker and the execution node answer;
\* sync.Mutex hands the lock to a goroutine that has waited for a millisecond.
CallSpec ==
    /\ Spec
    /\ \A h \in Handlers : WF_vars(RefuseNoName(h) \/ Step(h)) /\ SF_vars(Lock(h))

-----------------------------------------------------------------------------
(* Properties. *)

Accounts == Nat \X Nat

Labels == {"idle", "waiting", "depositList", "nodeList", "nodeStatus", "accounts", "write",
           "insert", "beacons", "target", "select", "name", "create", "start", "inspect",
           "register", "consume"}

ContainerType == [name : Names, keys : SUBSET Accounts, target : Nat]
TrancheType   == [accounts : SUBSET Accounts, validator : Names]
StubType      == [index : Nat, accounts : SUBSET Accounts, validator : Names]
JobType       == [left : Nat, mine : Seq(Nat), target : Nat, name : Names, index : Nat,
                  accounts : SUBSET Accounts, id : Nat]
ReplyType     == [ok : BOOLEAN, nodes : Seq(Nat), stubs : SUBSET StubType]

EngineOK ==
    /\ containers \in Seq(ContainerType)
    /\ running \subseteq 1..Len(containers)

NodesOK == nodes \in Seq(1..Len(containers))

LedgerOK ==
    /\ DOMAIN tranches \subseteq Nat /\ IsFiniteSet(DOMAIN tranches)
    /\ tranches \in [DOMAIN tranches -> TrancheType]
    /\ files \in [DOMAIN files -> SUBSET Accounts]
    /\ batch \in Nat
    /\ deposited \subseteq Nat

CallsOK ==
    /\ lock \in Handlers \cup {NoHandler}
    /\ pc \in [Handlers -> Labels]
    /\ req \in [Handlers -> Requests]
    /\ job \in [Handlers -> JobType]
    /\ reply \in [Handlers -> ReplyType]
    /\ calls \in Nat

ShutdownOK ==
    /\ proc \in {"serving", "stopping", "exited", "killed", "crashed"}
    /\ snapshot \in Seq(0..Len(containers))
    /\ next \in Nat \ {0}
    /\ unstopped \subseteq Nat

\* Every variable has its type; a node or a running container was created before.
TypeOK == EngineOK /\ NodesOK /\ LedgerOK /\ CallsOK /\ ShutdownOK

NodeName(i) == containers[nodes[i]].name

\* Two registered nodes never have the same name, or node status would answer
\* for one of them only (server.go:394, 452, 560-564).
NodeNamesUnique ==
    \A i, j \in DOMAIN nodes : i # j => NodeName(i) # NodeName(j)

\* The file of a tranche holds the keys the agent lists for it: an index is never
\* taken twice, and a write that failed is repaired before it shows (304-314).
TrancheFilesMatch ==
    \A i \in DOMAIN tranches : i \in DOMAIN files /\ files[i] = tranches[i].accounts

\* The call that registered this node has still to consume its tranche.
BeingConsumed(i) == \E h \in Handlers : pc[h] = "consume" /\ job[h].id = nodes[i]

\* A consumed tranche is the one of the validator client that runs its keys, and
\* every registered validator client consumed exactly one (441-442, 475-476).
OwnershipConsistent ==
    /\ \A t \in DOMAIN tranches : IsConsumed(tranches[t]) =>
          \E i \in OfType("Validator") :
              /\ NodeName(i) = tranches[t].validator
              /\ containers[nodes[i]].keys = tranches[t].accounts
    /\ \A i \in OfType("Validator") : ~BeingConsumed(i) =>
          Cardinality({t \in DOMAIN tranches : tranches[t].validator = NodeName(i)}) = 1

\* The keys of a tranche that a call created were all deposited first: an error
\* of MakeDeposits never lets the tranche through (288-292).
BackedByDeposits ==
    \A i \in DOMAIN tranches : i >= NumTranches =>
        \A a \in tranches[i].accounts : a[1] \in deposited

\* A registered validator client is connected to a beacon node of its own client
\* that was registered before it (421-431, 507-511).
TargetIsSound ==
    \A i \in OfType("Validator") : \E b \in OfType("Beacon") :
        /\ b < i
        /\ NodeName(b).client = NodeName(i).client
        /\ containers[nodes[i]].target = nodes[b]

\* A deployment that succeeded registered what was asked for, in that order: the
\* beacon nodes, then a validator client with the new or the selected keys that is
\* connected to the first of them (493-520).
DeployedAsAsked ==
    \A h \in Handlers :
        LET ids == reply[h].nodes
            validator == containers[ids[Len(ids)]]
        IN  /\ reply[h].ok /\ req[h].kind = "DeployBeacon" => Len(ids) = req[h].beacons
            /\ reply[h].ok /\ req[h].kind = "DeployValidator" =>
                  /\ Len(ids) = req[h].beacons + 1
                  /\ validator.name.type = "Validator"
                  /\ IF req[h].validators > 0 THEN Cardinality(validator.keys) = req[h].validators
                     ELSE validator.keys = tranches[req[h].tranche].accounts
                  /\ req[h].beacons > 0 => validator.target = ids[1]
            /\ \A k \in DOMAIN ids : \E i \in DOMAIN nodes : nodes[i] = ids[k]

\* The containers that run without being registered, nor by a call that is to register them.
Untracked ==
    {id \in running :
        /\ \A i \in DOMAIN nodes : nodes[i] # id
        /\ \A h \in Handlers : pc[h] \in {"inspect", "register"} => job[h].id # id}

\* The deployment of container id ends with an error.
DeployFails(id) ==
    \E h \in Handlers : /\ pc[h] \in {"start", "inspect"} /\ job[h].id = id
                        /\ pc'[h] = "idle" /\ ~reply'[h].ok

\* A container that runs gets lost in one way only: when its own start or inspection fails,
\* of which its caller is told (docker.go:170-177, server.go:228-233).  Nothing that other
\* calls, Stop or the later nodes of the same call do, or fail to do, loses one.
LossIsAnswered == [][\A id \in Untracked' \ Untracked : DeployFails(id)]_vars

\* A node that Stop has passed is down, unless Docker failed to stop it, however the process
\* then ends; and at a graceful exit Stop has passed every node that was registered when the
\* signal came (237-243).
OnlyLateNodesSurvive ==
    \A i \in DOMAIN snapshot :
        i < next \/ proc = "exited" => snapshot[i] \notin running \ unstopped

\* A signal is enough to end the process, even while a call that never ends holds
\* the lock (command.go:61-75; Stop takes no lock).
ShutdownCompletes == proc = "stopping" ~> ~Alive

\* Every call is answered as long as the process lives, on its error paths too.
EveryCallReturns == \A h \in Handlers : pc[h] # "idle" ~> pc[h] = "idle" \/ ~Alive

\* The tranches of the agent, seen as a ledger.
LedgerView == [i \in DOMAIN tranches |-> [keys  |-> tranches[i].accounts,
                                          owner |-> tranches[i].validator]]

Ledger == INSTANCE TrancheLedger WITH
    Keys <- Accounts, Owners <- Names \ {NoName}, NoOwner <- NoName, Genesis <- NumTranches,
    ledger <- LedgerView

\* Whatever calls run at once and fail, the tranches are the ledger TrancheLedger
\* promises: numbered without gaps, of keys they share with nobody, given away once
\* and for good, to a validator client that was given nothing else (285-318, 434-448,
\* 475-476).
LedgerSpec == Ledger!Spec

\* Where the deployment of the call that holds the lock is.
StageOf(label) == CASE label = "create"                -> "asked"
                    [] label = "start"                 -> "created"
                    [] label \in {"inspect", "register"} -> "started"
                    [] OTHER                           -> "idle"

Stage == StageOf(IF lock \in Handlers THEN pc[lock] ELSE "idle")

Promise == INSTANCE Deployment WITH
    Before <- 3, created <- Len(containers), deployed <- nodes, stage <- Stage

\* The deployments of all the calls together are those of one caller, with those of the
\* bootstrap before them (deployNode under Server.lock, server.go:220-235): the driver, of
\* which module Docker has one Deploy at a time, is never asked for two, and what Stop
\* and exits do to the containers meanwhile does not come between.
DeploymentSpec == Promise!Spec

-----------------------------------------------------------------------------
(* What the documentation, the tests or the commands say and the code does not do. *)

\* README.md: the containers "are stopped once the `server` process is over".
NothingSurvivesExit == proc = "exited" => running = {}

\* README.md: node status "queries the state of a specific node"; asking for a node
\* that does not exist ends the agent instead (552-578).
QueriesAreHarmless == proc # "crashed"

\* README.md: "Each validator client will own a single tranche of accounts".
NoTwoRunTheSameKeys ==
    \A c, d \in running : c # d => containers[c].keys \cap containers[d].keys = {}

\* deposit_create.go:62 prints the index of the tranche it was answered.
AnsweredIndexIsTheTranche ==
    \A h \in Handlers : req[h].kind = "DepositCreate" =>
        \A stub \in reply[h].stubs : tranches[stub.index].accounts = stub.accounts
=============================================================================
