# A verification of Viewpoint

Viewpoint is an agent that runs an Ethereum test network in Docker containers.
It is one process: `viewpoint server` boots the network, then answers gRPC calls
that deploy beacon nodes and validator clients and create validator accounts,
until a signal stops it. These modules model the agent, model-check it with TLC
on small instances and prove its main safety properties with TLAPS.

## The system

| Component | State | Operations | Interacts with |
| --- | --- | --- | --- |
| Agent (`internal/server/server.go`) | `nodes`, `tranches`, `lock` | `DepositList`, `DepositCreate`, `NodeDeploy`, `NodeList`, `NodeStatus`; `createTranche`, `deployNode`, `filterLocked` | called by gRPC goroutines; calls the Docker driver, the deposit handler and the data directory while it holds `lock` |
| Shutdown (`internal/cmd/server/command.go`, `Server.Stop`) | the process | first and second signal, `Stop`, exit | reads `nodes` without `lock`; stops containers |
| Deposit handler (`internal/server/deposit_handler.go`) | `nonce` | `MakeDeposits`, `MakeDeposit`, `sendTransaction`, `waitForReceipt` | one goroutine per account, a channel; talks to the eth1 node |
| Docker driver (`internal/docker/docker.go`) | a handle per container | `Deploy`, `Stop`, `run`, `retryFn`, `trackOutput` | the Docker daemon |
| Bootstrap (`NewServer`, `setupEth1Network`, `setupGenesis`) | `nodes`, the addresses of the bootnodes, `tranches`, the data directory | two bootnodes, the eth1 node, the deposit contract, the genesis tranches | everything above |
| Data directory (`logDir`) | tranche files, log files | `writeFile`, `CreateLogFile`, `Close` | the file system |
| Node builders (`internal/components`), `spec.Spec` | - | from a configuration to a container specification | called by `NodeDeploy` and the bootstrap, read by the driver |
| Configuration (`readConfig`, `config.go`), genesis (`internal/genesis`) | the specification of the network, the genesis state, `spec.yaml` | `readConfig`, `buildConfig`, `GenerateGenesis` | used by the bootstrap; read by the nodes |
| Command line (`internal/cmd`), gRPC stubs | - | one call per command | the agent |

What makes the system hard:

- **Concurrency.** Every gRPC call has its goroutine; they serialise on
  `Server.lock`, but `Stop` does not take it, and `MakeDeposits` leaves
  goroutines behind that run on during later calls.
- **Partial failure.** `createTranche` deposits, writes a file and inserts into a
  map; `Docker.Deploy` creates, starts and inspects; `NodeDeploy` deploys several
  nodes and consumes a tranche at the very end. Each step may fail after the ones
  before it were done, and nothing is undone.
- **Shutdown.** A signal comes at any time, a second one too; the gRPC server is
  never stopped; the containers survive the process.
- **Outliving.** A container runs on its own: it may exit before it was
  inspected, before the goroutine that waits for it has asked, or before the
  node that calls it is up, and its address goes to the next one. A command may
  be interrupted, or its agent end, while its call runs.
- **Agreement.** Three builders write files that a client will look for by a
  path in its command line; the network is told of its genesis by a state and by
  a file, from a configuration that is completed half way.
- **Ordering.** Nonces are handed out before transactions are sent, and the
  execution node mines a key's transactions in the order of their nonces only.

What makes each part correct: tranches partition the accounts and each is given
to one validator client (ledger); names identify nodes; a validator client is
connected to a beacon node of its kind; what runs is known to the agent and goes
down with it; calls return; deposits that are reported were made; a container
finds its files, its keys and its peers; the genesis agrees with the chain and
with the specification of the network; what a command reported is in later lists.

## The modules

| Module | Models |
| --- | --- |
| `DockerEngine` | the Docker daemon as the driver uses it (external): containers, the ones that run, create, start, stop, exit |
| `GoMap` | assignment to a Go map, map literals and their union |
| `TrancheLedger` | the abstract promise about tranches, in two actions: create, assign |
| `Server` | the agent from the end of `NewServer` on, and its shutdown; refines `TrancheLedger` and `Deployment` |
| `MCServer` | the requests and the symmetry for TLC |
| `ServerProofs` | theorems about `Server`: types, names, files, the ledger |
| `RegistryProofs` | theorems about `Server`: deposits, targets, owners, what runs and what survives `Stop`, deployments |
| `AnswerProofs` | theorem about `Server`: a deployment that succeeds is the one asked for |
| `DepositPromise` | the abstract promise of `MakeDeposits`: begin, deposit, return |
| `DepositHandler` | `MakeDeposits`, its goroutines and the execution node; refines `DepositPromise` |
| `MCDepositHandler` | its accounts for TLC |
| `DepositHandlerProofs` | theorems about `DepositHandler` |
| `Bootstrap` | `NewServer` and the retry loop of the driver; ends in an initial state of `Server` |
| `MCBootstrap` | its counts for TLC |
| `BootstrapProofs` | theorems about `Bootstrap` and `Genesis` |
| `Genesis` | the configuration, the genesis state and `spec.yaml` in `Bootstrap`, against a clock |
| `MCGenesis` | its flags for TLC |
| `Components` | `spec.Spec`, the builders of bootnodes, eth1, beacon nodes and validator clients |
| `Docker` | the driver: `Deploy`, `Stop`, `retryFn`, `run`, `trackOutput`, and the daemon's addresses |
| `Testnet` | `deployNode` with the two modules above: the containers of a network; refines `Deployment` |
| `Deployment` | the abstract promise of `Docker.Deploy` |
| `MCTestnet` | the accounts for TLC |
| `TestnetProofs` | theorems about `Testnet`: deployments, exits, addresses of nodes |
| `ContainerProofs` | theorems about `Testnet`: the files, keys and peers of its containers |
| `Commands` | the commands, in several terminals against `Server` |
| `MCCommands` | the command lines for TLC |
| `CommandsProofs` | theorems about `Commands` |

`Server`, `Bootstrap` and `Docker` are built on `DockerEngine` and `GoMap`. `Genesis` EXTENDS
`Bootstrap`, and `Commands` EXTENDS `Server`: their steps are those, with what is added.
`Testnet` and `Server` both instantiate `Deployment`: the one to state what the driver promises,
the other that it asks the driver for one deployment at a time and knows no more of it.
`Server` also instantiates `TrancheLedger`, and `DepositHandler` instantiates `DepositPromise`, to
state what they implement; `Bootstrap` instantiates `Server` to state what it ends in.

Operators named `...Bug` are faulty variants of the definition that follows them:
a dropped guard, a wrong index, a forgotten unlock. No specification uses them.
They show that the property next to them in `PROJECT.json` can fail.

### Server

`pc[h]` is where goroutine `h` is in its call. The labels cut a handler where it
talks to Docker, the execution node or the file system: there it can fail, and
there the signal handler or the exit of a container may come between. What runs
between two labels under the lock is one action, since only `Stop` ignores the
lock, and it only reads `nodes`.

| Code | Actions |
| --- | --- |
| a call comes in, waits, gets the lock | `Arrive`, `RefuseNoName`, `Lock` |
| `DepositList`, `NodeList`, `NodeStatus` | the actions of these names |
| `createTranche` | `MakeDeposits`, `WriteTranche`, `InsertTranche` |
| `NodeDeploy`: loop over beacon nodes | `DeployBeacon`, `BeaconsDone` |
| `deployValidator` | `PickTarget`, `SelectTranche`, `NameValidator`, `Consume` |
| `deployNode`, `Docker.Deploy` | `CreateContainer`, `StartContainer`, `InspectContainer`, `Register` |
| `handleSignals`, `Stop` | `Signal`, `StopNode`, `Exit`, `SecondSignal` |

`job[h]` holds the locals of a call (`left` beacon nodes to deploy, `mine` for
`createdNodes`, `target`, `name`, the tranche's `index` and `accounts`), `reply[h]`
its answer. The name `<type>-<n>-<client>` is a record of these three, and stands
for the two labels too, which say the same. An account is a pair of the call of
`NewAccounts` that made it and its place in it: keys are fresh. `WithBeacon` with
its count is `beacons` in a request, zero when the flag is not set. `Init` is what
`NewServer` leaves: three containers, some of which may have exited by then, and the
genesis tranches.

`Faults` says which failures an instance includes: `deposit`, `write`, `create`,
`start`, `inspect`, `stop` for the call that fails. A `deposit` that fails may be the wait for
the last receipt, so that all deposits were made, and a `start` that fails may have reached
the daemon, so that the container runs; `exit` is for containers that
end on their own, `race` for the unlocked read of `nodes` that sees the new length
with the old array, an outcome of the data race between `Stop` and the append.

Each call deploys its own nodes, but `Stage` is one for all of them, that of the call that holds
the lock: `DeploymentSpec` says that the deployments of all calls are those of one caller,
after the three of the bootstrap, whatever exits and `Stop` do meanwhile.

Assumed: a request of `NodeDeploy` names a node type (the command line always sets
it; without one the handler would panic), keys never repeat, counts fit an `int`.

### DepositHandler

`pc[a]` is the goroutine of account `a`: `fund` (nonce), `send`, `receipt`
(`waitForReceipt`), `deposit` (`txn.Do`), `wait` (`txn.Wait`), `report` (the send on
the channel), `done`. The caller receives with `Receive` and returns at the first
error, or with `ReturnNil`. `createTranche` calls it under the agent's lock, so
calls follow one another, while goroutines of a failed one go on. The execution
node mines the funding transactions in the order of their nonces (`head` is the
next), deposits in any order since each has a key of its own, and may revert one.
A request that fails may or may not have reached the node.

In `Server` the whole of it is the action `MakeDeposits`: either all the deposits
were made, or the call fails. `PromiseSpec` is what justifies that: it maps the answers of
the calls and the deposits on the chain to `DepositPromise`, where an answer is final, nil
means that all is deposited, and an error says nothing, not even that the call
is done with its accounts.

### Bootstrap

`step` is where `NewServer` is: `begin`; `create`, `start`, `inspect` and `retry` for the
node whose turn it is (the v5 bootnode, the v4 bootnode, eth1, by `Len(nodes) + 1`);
`contract`, `tranches`, `listen`. `proc` is the process: starting, serving, failed
(`NewServer` returned an error), crashed (the division by zero), killed (a signal
before `handleSignals`). `files` and `dir` are the data directory, and with
`containers` they outlive the process; `Restart` runs the command again under the same name,
with flags of its own.

| Code | Actions |
| --- | --- |
| the checks, `NewDocker`, `newLogDir` | `Begin` |
| `deployNode`, `Docker.Deploy` | `CreateNode`, `StartNode`, `InspectNode` |
| `retryFn` | `Poll` (the handler succeeds), `NodeStopped`, `GiveUp`; `Expire` is its timer |
| `run` | `CloseWaitCh` |
| `newDepositHandler` | `DeployContract` |
| `setupGenesis`, `createTranche` | `CreateTranche`, `SetupGenesis` |
| `setupGrpcServer` | `SetupGrpcServer` |

A poll that fails changes nothing and is a stutter. `ready` says which containers have
come up; the v4 bootnode's handler succeeds before that, with an empty address.
`BecomesServer` maps what is left to module `Server` and asks for its initial states,
`InitWith` the counts of this start: the nodes of the bootstrap become containers of another type,
without keys, and the tranches have no validator client. It speaks of every start. One that
fails leaves containers that no agent knows, but it leaves its directory too, which no
later start of that name accepts: they never are beside an agent that serves.
The failures of a step are of two kinds, those that leave nothing and those
that leave a file that is empty or half written (`CreateTranche`).

### Genesis

`eth2spec` is `Config.Spec`, of which the genesis time, the contract and the Altair epoch
are kept; `contract` the time of the block with the deposit contract; `state` the
genesis state; `specYaml` the file. `clock` counts seconds. Times are integers, as `int` and
`time.Duration` are: a `--genesis-time` far enough in the past is one before 1970, which
`GenerateGenesis` converts to a `uint64` of the far future (`uint64`, with `TwoTo64` for the
number of its values) and does not refuse.

| Code | Actions |
| --- | --- |
| `readConfig` | `GenesisInit`, `StartAgain` (for a second start) |
| `newDepositHandler`, `Spec.DepositContract` | `DeployDepositContract`, a `DeployContract` of `Bootstrap` |
| `setupGenesis` after the tranches, `GenerateGenesis`, `buildConfig` | `WriteGenesis`, a `SetupGenesis` of `Bootstrap` |
| time | `Tick` |

`Bootstrap` lets `SetupGenesis` fail at any time. Here a block that is too young makes it
fail, and a failure for another reason may come before the genesis state is made, after it,
or after `spec.yaml` was written. Blocks are dated by the clock: the execution node runs on
the same machine.

### Components, Docker and Testnet

A specification has the fields of `spec.Spec`. Its command line is kept as three functions
of its flags: the files it names (`input`), the ports it opens (`listen`), the addresses it
calls (`dial`). A path is the sequence of its parts, and a file says what it is and which
keys it holds. `Docker` has one `Deploy` at a time (`call`): so the handlers ask for them, since they hold
`Server.lock` (`DeploymentSpec` of `Server`), and `NewServer` makes one after the other.

| Code | Actions |
| --- | --- |
| `Deploy` | `Deploy`, `MakeMounts`, `WriteFiles`, `PrepareImage`, `CreateContainer`, `StartContainer`, `InspectContainer`; `ApiError` |
| `retryFn` | `Poll`, `NodeStopped`, `Expire`, `GiveUp` |
| `run`, `trackOutput` | `CloseWaitCh`, `WaitError`; `LogsEnd`, `LogsError` |
| `deployNode` | `DeployNode`, `Register`, `AnswerError` |
| `NewServer`, `deployBeacon`, `deployValidator` | `DeployBootnodeV5`, `DeployBootnodeV4`, `SetupEth1Network`; `DeployBeacon`, `DeployValidator` |

`WriteFiles` picks any mount that a path begins with, as the iteration over a Go map does.
The daemon is external: it hands out the lowest free address, so that an address is used
again as soon as it can be, and says that a container that is down has none. The agent never
restarts a container. `purpose` is a history variable: what each container was created for.
`DeployValidator` takes any beacon node of the client: which one is `Server`'s concern.

`Server` and `Bootstrap` know a deployment as a few steps that may fail and a container that
may exit. `DeploymentSpec` says that the driver is no more than that, whatever its files,
races and timers do.

### Commands

`term[t]` is the command of terminal `t`: the goroutine of the agent that serves its call and,
for a list, what had been reported when it was asked for (`since`). `acked` is what commands
that ended with 0 have reported. A terminal without a handler shows the prompt.

| Code | Actions |
| --- | --- |
| flags and checks of the `Run` methods | `Accepts`, `Refused` |
| the request, the client stub | `Request`, `Invoke` |
| the answer, and what is printed | `Answered`, `formatNodes`, `formatTranches` |
| no answer | `Unavailable`, `Interrupt` |

`Invoke` takes the place of `Arrive` of `Server`; its other actions are all there (`Agent`).
No handler looks at its context, so a call whose command is gone goes on and has its effects.
A command that does not list ends with what its answer said; one that was interrupted has
reported nothing, whether or not its call succeeded. `Fresh`, the choice of a goroutine that
serves nobody, stands for gRPC, which starts one for every call.

`ListsAreComplete` compares what was reported with the answer of the agent and with what is
printed of it: the stub of a tranche has just the accounts that were reported, and since a row
only has their number, no other stub may be printed like it. Of nodes it asks for those that still
run, which is what `node list` is for; that it shows others too, since nothing
is ever removed from `Server.nodes`, contradicts `README.md:120` and takes no run to see.

## The runs

| Run | Question | Bounds |
| --- | --- | --- |
| `server_safety` | do names, files, owners, targets, answers and the ledger stay consistent when deployments and deposits interleave and fail? is a container only lost by a call that says it failed? | 2 goroutines, 3 calls out of 5 requests, 2 clients, 1 genesis tranche of 1 account |
| `server_shutdown` | does a signal at any point end the process, with what was registered down? do its deployments follow one another all the same? | 2 goroutines, 2 calls, deployments or queries; nodes exit, fail to start, cannot be stopped, the racy read |
| `deposit_safety` | nonces, funding, honest and final results, the promise to `createTranche`, no goroutine left behind | 3 accounts in 2 calls, 1 failure, any number of timeouts, the count of `waitForReceipt` from 0 to 2 |
| `bootstrap` | is what `NewServer` reaches an initial state of `Server`, does its genesis agree with `spec.yaml` and the chain, are earlier files safe, does it end? | 2 starts, 2 tranches of 4 validators, the counts that are refused, a clock from 1 to 2, four pairs of `--genesis-time` and `--altair`, one of them before 1970 |
| `testnet` | do containers find their files, keys and peers, are exits noticed, is `Deploy` what its callers take it for? | 6 containers of 3 clients, tranches of 0 and 2 accounts, 1 failure, exit or stop |
| `commands` | do commands and calls end, do lists show what was reported, does only what `Server` expects reach the agent? | 2 terminals, 2 goroutines, 2 calls of 11 command lines, a creation that fails, a signal |

Three calls are enough for the hard cases of `server_safety`: two calls that compete
for a tranche and one that comes after both; a call that fails, one that reuses its
name, index or tranche, and one that looks at the result. Two beacon nodes in a call
are the least for which "the first" means something. One genesis tranche makes
deployments compete for it. Two accounts in the first deposit call race for
nonces, and the third meets the goroutines they left behind. Two starts are the least
for which files and containers of an earlier one exist, and two tranches the
least for which the genesis has accounts that the last tranche does not hold. With two
seconds a genesis time can be met, missed by the first block, or missed by a later one; `TwoTo64`
is 100, far above the clock.
Six containers are the three of the bootstrap and three more: beacon nodes of two
clients and a validator client, or a beacon node that has exited, another with its address,
and a validator client that calls the first. One event is enough for each race of the driver,
which is between one deployment and one exit or failure. Two calls are the least for
which a list can come after a deployment, and two terminals for which a command
can be interrupted or wait while another is served; what more than two calls do to the agent
is the question of `server_safety`.

Six runs show where the code does not do what its documentation says:

| Run | What happens |
| --- | --- |
| `server_leftover` | a node deployed while `Stop` runs outlives the agent (README: containers "are stopped once the `server` process is over") |
| `server_status` | `node status` of an unknown name ends the agent (README: it "queries the state of a specific node") |
| `server_samekeys` | a validator client whose inspection failed runs on, unregistered; the next one gets the same keys (README: "Each validator client will own a single tranche") |
| `server_index` | `deposit create` prints index 0 for every tranche (`deposit_create.go:62`) |
| `deposit_gap` | after one transaction that did not reach the node, no later account is ever funded (README: "For each one, it sends a deposit transaction") |
| `bootstrap_bootnode` | the v4 bootnode passes for ready without an address, and eth1 starts without a bootnode (`bootnode_test.go:30` asserts that it is not empty) |

### Fairness

- `StopSpec`: weak fairness of `Stop`. The goroutine `handleSignals` starts is
  scheduled, and Docker answers each stop, with an error or without. Nothing is
  assumed of the calls: `ShutdownCompletes` holds even if they hang.
- `CallSpec`: weak fairness of the steps of a call, since goroutines are scheduled
  and Docker, the node and the disk answer; strong fairness of `Lock`, since
  `sync.Mutex` hands itself to a goroutine that has waited for a millisecond
  (starvation mode).
- `FairSpec`: weak fairness of every goroutine, of the receiving caller, and of the
  execution node, which mines every two seconds whatever it can mine.
- `Spec` of `Bootstrap`: weak fairness of `NewServer`, whose goroutine is scheduled and
  whose requests to Docker and the eth1 node are answered, with an error or without, and
  of `Expire`, since time passes. Nothing is assumed of the containers: `BootstrapEnds`
  holds when none of them ever comes up or goes down. `GenesisSpec` assumes the same, and
  nothing of the clock.
- `Spec` of `Testnet`: weak fairness of the two goroutines of each node (`FollowNode`): they
  are scheduled, and the daemon answers `ContainerWait` and ends the logs of a container
  that is down. Nothing is assumed of `Deploy` or of the containers.
- `CommandsSpec`: that of `CallSpec`, and weak fairness of the return of a call to its command:
  the connection delivers the answer, or breaks when the agent is gone. Nothing is
  assumed of the users.

## The proofs

For any numbers of goroutines, clients, requests, accounts, calls, tranches and starts
and any mix of failures:

| Theorem | Says |
| --- | --- |
| `ServerProofs!TypeCorrect` | `Spec => []TypeOK` |
| `ServerProofs!NamesAreUnique` | no two registered nodes share a name |
| `ServerProofs!FilesMatch` | tranche files hold what the agent lists |
| `ServerProofs!ServerImplementsLedger` | `Server` refines `TrancheLedger` |
| `RegistryProofs!TranchesAreBacked` | no tranche is listed whose deposits were not made |
| `RegistryProofs!LossesAreAnswered` | a container is only lost by its own start or inspection, and its caller is told |
| `RegistryProofs!OnlyLateSurvive` | what `Stop` has passed is down, however the process ends; a node that survives `Stop` was registered after the signal |
| `RegistryProofs!TargetsAreSound` | a validator client uses an earlier beacon node of its client |
| `RegistryProofs!OwnersAreConsistent` | tranches and validator clients name each other |
| `RegistryProofs!AgentDeploysInTurn` | `Server` refines `Deployment` |
| `AnswerProofs!DeploymentsAreAsAsked` | a deployment that succeeds is the one asked for |
| `DepositHandlerProofs!TypeCorrect` | `Spec => []TypeOK` |
| `DepositHandlerProofs!NoncesAreUnique` | no nonce is used twice |
| `DepositHandlerProofs!FundedFirst` | no deposit before its funding is mined |
| `DepositHandlerProofs!NilIsHonest` | nil means that all deposits were made |
| `DepositHandlerProofs!ReportsAreTaken` | no goroutine blocks on its channel |
| `DepositHandlerProofs!PromiseKept` | `DepositHandler` refines `DepositPromise` |
| `BootstrapProofs!TypeCorrect` | `Spec => []TypeOK` |
| `BootstrapProofs!EarlierFilesKept` | no start writes over a tranche file |
| `BootstrapProofs!NodesAreReady` | the v5 bootnode and eth1 are registered only if they have come up, and the record of the first is known |
| `BootstrapProofs!GenesisHolds` | the genesis has the validators asked for: the accounts of the tranches |
| `BootstrapProofs!ServesFromInit` | an agent that serves is in an initial state of `Server` |
| `BootstrapProofs!BootstrapUnderClock` | `GenesisSpec` implies `Spec` of `Bootstrap`, with its fairness |
| `BootstrapProofs!GenesisFitsSpec` | the genesis state and `spec.yaml` agree, and the deposit contract is older than the genesis |
| `CommandsProofs!CommandsRunTheAgent` | under the commands the agent is `Server`: `CommandsSpec` implies `Spec` |
| `CommandsProofs!CommandsRunFairCalls` | and `CallSpec`, with the fairness of calls |
| `CommandsProofs!ListsShowAll` | lists have what commands reported before they were asked for and still runs, each tranche in a row of its own |
| `TestnetProofs!TestnetImplementsDeployment` | `Testnet` refines `Deployment` |
| `TestnetProofs!DownAreKnown` | a node whose exit is reported is down |
| `TestnetProofs!RunningHaveTheirAddress` | a node that is up is at the address the agent has for it |
| `ContainerProofs!TestnetTyped` | `Spec => []TypeOK` |
| `ContainerProofs!InputsAreInContainers` | what a command line names is in a mount of its container |
| `ContainerProofs!ValidatorsUseTheirKeys` | a validator client can open the keystores of its accounts, and no others |
| `ContainerProofs!CallersReachTheirTarget` | what calls another container has its address and port while it is up |

`ServerProofs`. None of the properties is inductive. `IInv` adds four parts to them:
`JobInv`, that the container of a call that is past its creation exists; `LockInv`,
that whoever is inside a handler holds the lock, so that at most one call is;
`NameInv`, that the numbers of the registered nodes of a type are below how many
there are, and that a name a call has chosen is the next one as long as the call
has not registered its node; `LedgerInv`, that the tranches are numbered from
zero without a gap, that their accounts come from distinct calls of
`NewAccounts`, that a pending insertion takes the next index and keys nobody has,
and that a pending consumption is of a tranche nobody owns by a name nobody has.
One lemma per group of actions shows `IInv` preserved; the refinement maps
`InsertTranche` to `Create`, `Consume` to `Assign` and everything else to a stutter.

`RegistryProofs`. On top of `IInv`, each property gets an invariant that says what a call under
way knows of it. `BackedInv`: the keys of a tranche that is being created were deposited.
`LossIsAnswered` is about steps and needs no failure to be left out: of the containers that run,
`Untracked` are those no node names and no call has in hand past its start. Only
`StartContainer` and `InspectContainer` let go of one they do not register, and they do so on
their error paths, which answer (`NextLoss`); every other step registers what it has in hand, starts
nothing, or leaves the nodes and the calls alone (`NothingLost`). What then becomes of a container
that was lost is the matter of `server_samekeys`.
`StopInv`: the nodes that
`Stop` has passed are down or were not stopped, and no container is started that was already
registered. `TargetInv`: the first node of `createdNodes` and `job.target` are
registered beacon nodes of the client of the request. `OwnerInv`: an assigned tranche
has its node, a call that gives keys away holds those of the tranche it selected, and the
node it has just registered, whose tranche is not consumed yet, carries just those.
That `Server` refines `Deployment` needs `LockInv`, by which the stage of the lock's holder is that
of every step a call takes, and `LastInv`: the container a call starts, inspects and registers is
the last that was created, since nobody else creates one meanwhile. Arrivals, queries,
deposits and the steps of the ledger change nothing `Deployment` sees; a `Stop` is an `Exit`, or
nothing for a container that is down.

`AnswerProofs`. `AnswerInv` counts: the nodes a call has registered and those left add up to what
was asked, all of them stay registered, and the keys are as many as asked for or those
of the tranche selected. With the invariants before it, the last step of a call turns these
into its answer, which later steps do not spoil.

`DepositHandlerProofs`. `NonceInv` bounds the nonces in use by the counter.
`OrderInv` says what a goroutine's place implies for the chain. `CountInv` counts:
reports received and reports in the channel add up to the goroutines that are
done; `ErrorInv` keeps an error that was reported in the channel for as long as
the call runs. So when as many reports were received as there are accounts, the
channel is empty and none of them was an error; and a goroutine that has not
reported leaves room for itself.
For the refinement of `DepositPromise`, `ResultInv` says that the calls were made in their order
and all but the last have answered: a deposit that a leftover goroutine makes is of a call
that has begun, `OrderInv` keeps it from being made twice, and `NilMeansAllDeposited` is the
guard of the return of nil.

`BootstrapProofs`. `NodeInv` adds to the types that a node is only deployed while one is
left and that its container exists past its creation; `TrancheInv`, that the tranches
are numbered from zero without a gap up to the configured count. `FilesInv` is
what keeps files safe: where there is no data directory there are no files, and
while tranches are created the files are exactly those of this run's tranches,
so the next number is free. That a registered node had come up needs `NodeInv`
only: `Poll` is the one step that registers. `GenesisInv` adds up the genesis:
its accounts are those of the tranches so far, as many as tranches times the share
`validators / tranches`, which is exact because `Begin` refuses a remainder, and none of them is
of a call of `NewAccounts` that is still to come.
What an agent serves from is stronger than that: it is exactly what this start made.
`OwnNodesInv` and `OwnTranchesInv` say so from the moment it has taken the directory. As
long as there is none there are no containers, files or accounts of an earlier start; from then
on the containers are those of this start's nodes in their order, with at most one more that is
being deployed, and the n-th tranche has the accounts of the n-th call of
`NewAccounts`, which are in its file. Together with `NodeInv` and the configured counts that is
`InitWith` of `Server`.

The second part of `BootstrapProofs` is about `Genesis`, each step of which is one of
`Bootstrap` or leaves its variables alone, and fairness carries over: the theorems about
`Bootstrap` hold of `Genesis` too.
`ContractIsOlder` says that the block of the contract is not of the future, so that the blocks
a genesis may stand on, which `GenerateGenesis` compares with its time, come after it.
`MatchInv` ties what was written, the genesis state and the file, to the
configuration of this run and to its contract, so that the two agree with each other.

`CommandsProofs`. `Invoke` is an `Arrive` of `Server`: the goroutine it takes serves nobody, and the
request is one of `Requests` because `Accepts` let its command line through. That is the
hypothesis `RequestsAreKnown`, which relates two constants: whatever is typed and accepted
becomes one of the requests `Server` is instantiated with. The theorems about `Server`
then hold under any commands. For the lists, `KnownInv` says that whatever an answer names is
settled: the node is registered and, if it is a validator client, no call is about to consume its
tranche, so that `OwnerInv` finds that tranche with its name and keys; and no later step unsettles
it. `CommandInv` carries this to what the terminals have been told.

`TestnetProofs`. `StageInv` says what the place of a deployment implies: past its creation its
container is the last one, which is what `Deployment` starts and registers. `Register`
maps to `Succeed`, `AnswerError` to nothing, since the abstract deployment has
failed when the concrete one has. `HandlesInv` adds that a handle is of a container that exists
and that the container of a deployment has none before it was inspected, so that a
container is never started after its exit was reported. `AddressInv` says that the addresses of
what runs are distinct and repeated by the handles; that the daemon finds a free one is the
pigeonhole principle, with one address more than there are containers.

`ContainerProofs`. What the theorems say of a container is said of a specification long before it
exists, so `ContainerInv` follows it through `Deploy`. `SpecInv`: while a
deployment is under way, its specification `Fits` what was asked for; this is where the
builders are opened, one lemma each, and what they have in common (all files are under one
directory that is mounted, each path holds one file, what a flag names is among them,
the keystores a flag leads to are those of the accounts) becomes the definition of `Fits`.
`DiskInv`: the directories that were made for a container are its own, were empty when its files
were written, and since then hold them under the mounts; without the first a later
deployment could write over them. `OrderInv`: what is asked for comes in the order of `NewServer`, so that
the v5 bootnode has left its record and the third node is eth1 when a beacon node
asks for them. `EndpointsInv`: an address in a command line is that of the handle the builder was
given, and a handle's address never changes; it is about handles, and `AddressInv` of `TestnetProofs`
adds that one that is up is where its handle says. `ShapeInv` counts containers, addresses
and handles against each other. The accounts stay a sequence of any length: the files of
the accounts are a set and a function of them, so that no induction over the list is needed.

The assumptions are those the modules declare on their constants: a value outside
`Handlers`, a client outside `Clients`, bounds that are numbers, requests of the right
type, a finite set of accounts, lists of accounts that are sequences. TLC evaluates them on every run.

Only model-checked: the six liveness properties, `ShutdownCompletes` and `EveryCallReturns` of the
agent, `DepositsEnd` of the deposit handler, `BootstrapEnds`, `EveryCommandEnds` and
`ExitIsNoticed`. Each rests on fairness, and so on `ENABLED`, which the prover cannot
expand. Every invariant and every action property or refinement that a passing run checks
is also a theorem.

## Not modelled

- Data no property tells apart: flags of the command lines that name no file, port or
  address; the eth1 genesis file (`Eth1Genesis.Build`); the SSZ encoding and the roots of the
  genesis state; the encryption of keystores; the generated accessors of the gRPC
  messages; the layout of what commands print.
- What is copied into log files, and `logDir.Close`, which runs through them
  without the lock of `CreateLogFile`: the process exits next, and nobody reads them back.
- What happens to the containers of a bootstrap that failed: they are in `Bootstrap`, nothing stops
  them, and no property claims that something does. Under another name an agent can be
  started beside them; two agents with different names are never modelled together.
- Counts that do not fit an `int`, and a genesis time so far in the past that the `uint64`
  wraps more than once.
- Below the driver: a container that was created although the reply of `ContainerCreate` was lost
  (it is never started); what a `WriteFile` that fails leaves in a directory that no container is
  given; `strings.HasPrefix` on paths, which compares characters and not the parts between
  slashes, the same for the one mount `/data` that the builders use.
- A request without a node type, which no command makes.

## The plan

1. Done: `Server` with its ledger and shutdown, `DepositHandler`, `Bootstrap`, the builders
   and the driver in `Testnet`, the configuration and the genesis against a clock, and the commands.
2. Done: the theorems of every safety property that a run checks, and the proofs that tie the
   modules together: what `Bootstrap` ends in is what `Server` begins with, what the agent asks of
   the driver and of the deposit handler is what these promise, and the commands leave the agent
   within its specification.
3. `Bootstrap` and `Server` in one behaviour, so that a start, its calls and its shutdown can be
   followed by another start under the same name.
4. The deployments of `Bootstrap` as those of `Deployment`, start by start: a start forgets the
   nodes of the one before it, which `Deployment` does not know.
5. `Server` over `DepositPromise`: its action `MakeDeposits` in the two steps of a call, and the
   deposits of one that failed going on during later calls.
