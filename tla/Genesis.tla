------------------------------- MODULE Genesis -------------------------------
(***************************************************************************)
(* NewServer against the clock: readConfig of internal/cmd/server fixes    *)
(* the genesis time when the command starts, setupGenesis takes the latest *)
(* block of the eth1 chain after images were pulled and a contract was     *)
(* mined, and GenerateGenesis refuses a block that is younger.  The        *)
(* network is told of its genesis twice, by the genesis state and by the   *)
(* file of its specification.  The steps are those of module Bootstrap.    *)
(*                                                                         *)
(* Definitions named ...Bug are faulty variants of the one that follows    *)
(* them: no specification uses them, they show that a property can fail.   *)
(***************************************************************************)
EXTENDS Bootstrap, Integers

CONSTANTS FirstStart, \* when the command is started for the first time
          Flags,      \* what --genesis-time may say, in seconds, and --altair
          TwoTo64,    \* how many values a uint64 has
          MaxClock    \* bound: the last second

\* Without --altair: a nil pointer in Eth2Spec, the epoch 2^64 - 1 in spec.yaml.
NoFork == -1

\* int(duration.Seconds()) may be negative: a genesis time may be before 1970.
ASSUME ClockAssumption == FirstStart \in Nat /\ MaxClock \in Nat
ASSUME FlagsAssumption ==
    /\ TwoTo64 \in Nat
    /\ \A flags \in Flags : /\ flags.delay \in Int /\ FirstStart + flags.delay >= -TwoTo64
                           /\ flags.altair \in Nat \cup {NoFork}

VARIABLES clock,    \* in seconds
          eth2spec, \* Config.Spec
          contract, \* the timestamp of the block that holds the deposit contract
          state,    \* Server.genesisSSZ
          specYaml  \* the file spec.yaml

network     == <<eth2spec, contract, state, specYaml>>
genesisVars == <<vars, clock, network>>

NoContract == "no contract"
NoState    == [fork |-> "none"]
NoFile     == [written |-> FALSE]

phase0ForkVersion == "0x00000000"
altairForkVersion == "0x80000070"

-----------------------------------------------------------------------------
(* The configuration. *)

DefaultEth2Spec == [MinGenesisTime |-> clock + 10, DepositContract |-> NoContract, Altair |-> NoFork]

\* The specification with the flags --genesis-time and --altair.
readConfig(flags) ==
    [DefaultEth2Spec EXCEPT !.MinGenesisTime = clock + flags.delay,
                            !.Altair = IF flags.altair >= 0 THEN flags.altair ELSE NoFork]

Readable == {readConfig(flags) : flags \in Flags}

\* fixtures/config.yaml.tmpl, as far as it is about the genesis.
buildConfig(spec) ==
    [written                  |-> TRUE,
     MIN_GENESIS_TIME         |-> spec.MinGenesisTime,
     GENESIS_FORK_VERSION     |-> "0x00000000",
     ALTAIR_FORK_VERSION      |-> "0x80000070",
     ALTAIR_FORK_EPOCH        |-> spec.Altair,
     DEPOSIT_CONTRACT_ADDRESS |-> spec.DepositContract]

\* Starts with the fork as soon as there is one.
ForkBug == IF eth2spec.Altair # NoFork THEN "altair" ELSE "phase0"

Fork == IF eth2spec.Altair = 0 THEN "altair" ELSE "phase0"

ForkVersion == IF Fork = "altair" THEN altairForkVersion ELSE phase0ForkVersion

\* The conversion of an int, which makes a time before 1970 one far in the future.
uint64(time) == IF time < 0 THEN time + TwoTo64 ELSE time

LowTimestamp(block) == uint64(eth2spec.MinGenesisTime) < block

GenerateGenesis(block) ==
    [fork |-> Fork, version |-> ForkVersion, time |-> uint64(eth2spec.MinGenesisTime),
     block |-> block, validators |-> genesis]

-----------------------------------------------------------------------------
GenesisInit ==
    /\ Init
    /\ clock = FirstStart
    /\ eth2spec \in Readable
    /\ contract = 0 /\ state = NoState /\ specYaml = NoFile

Tick ==
    /\ clock < MaxClock
    /\ clock' = clock + 1
    /\ UNCHANGED <<vars, network>>

\* newDepositHandler has waited for the block of the contract.
DeployDepositContract ==
    /\ DeployContract
    /\ IF step' = step THEN UNCHANGED <<eth2spec, contract>>
       ELSE /\ contract' = clock
            /\ eth2spec' = [eth2spec EXCEPT !.DepositContract = "contract"]
    /\ UNCHANGED <<clock, state, specYaml>>

\* The latest block is that of the contract or one that was mined since.  Without a request
\* that failed, only a block that is too young keeps the genesis from being written.
WriteGenesis ==
    /\ SetupGenesis
    /\ \E block \in contract..clock :
          \/ /\ step' # step
             /\ ~LowTimestamp(block)
             /\ state' = GenerateGenesis(block)
             /\ specYaml' = buildConfig(eth2spec)
          \/ /\ step' = step
             /\ state' \in {NoState} \cup IF LowTimestamp(block) THEN {} ELSE {GenerateGenesis(block)}
             /\ specYaml' \in {specYaml} \cup IF state' = NoState THEN {} ELSE {buildConfig(eth2spec)}
    /\ UNCHANGED <<clock, eth2spec, contract>>

\* The command reads its flags anew; the file is still there.
StartAgain ==
    /\ Restart
    /\ eth2spec' \in Readable
    /\ contract' = 0 /\ state' = NoState
    /\ UNCHANGED <<clock, specYaml>>

\* The steps of NewServer and of its surroundings that the genesis has no part in.
Other ==
    /\ \/ Begin
       \/ CreateNode \/ StartNode \/ InspectNode \/ Poll \/ NodeStopped \/ GiveUp
       \/ CreateTranche \/ SetupGrpcServer
       \/ Expire \/ CloseWaitCh \/ Kill
       \/ ContainerReady \/ NodeExit
       \/ Terminated
    /\ UNCHANGED <<clock, network>>

GenesisNext == Tick \/ DeployDepositContract \/ WriteGenesis \/ StartAgain \/ Other

\* The fairness of Bootstrap: the clock owes nobody a step.
GenesisSpec == GenesisInit /\ [][GenesisNext]_genesisVars /\ WF_vars(NewServer) /\ WF_vars(Expire)

-----------------------------------------------------------------------------
(* Properties. *)

\* The fork version at an epoch, as spec.yaml has it.
VersionAt(epoch) ==
    IF specYaml.ALTAIR_FORK_EPOCH # NoFork /\ epoch >= specYaml.ALTAIR_FORK_EPOCH
    THEN specYaml.ALTAIR_FORK_VERSION ELSE specYaml.GENESIS_FORK_VERSION

\* What the agent hands to a beacon node fits together: the genesis state has the time, the
\* fork and the fork version that spec.yaml gives to epoch 0, and spec.yaml names the deposit
\* contract, which is known only after the file's contents were first set up (config.go:52-64,
\* server.go:141, 173-199), and was mined before the genesis time, however slow the bootstrap
\* was (genesis.go:34).  A genesis time before 1970 is the one thing the two do not agree on.
GenesisMatchesSpec ==
    proc = "serving" =>
        /\ specYaml = buildConfig(eth2spec)
        /\ specYaml.MIN_GENESIS_TIME >= 0 => state.time = specYaml.MIN_GENESIS_TIME
        /\ contract <= state.time
        /\ state.version = VersionAt(0)
        /\ (state.fork = "altair") = (specYaml.ALTAIR_FORK_EPOCH = 0)
        /\ state.validators = genesis
        /\ specYaml.DEPOSIT_CONTRACT_ADDRESS = "contract"
=============================================================================
