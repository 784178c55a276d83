----------------------------- MODULE Components -----------------------------
(***************************************************************************)
(* The builders of internal/components: from a configuration to the        *)
(* specification of a container, of internal/spec/spec.go.  Of a command   *)
(* line they keep the flags with which a container reads a file, opens a   *)
(* port or calls another container, and of a file what it is.  A path is   *)
(* the sequence of its components, file name extensions are left out.      *)
(*                                                                         *)
(* Definitions named ...Bug are faulty variants of the one that follows    *)
(* them: no specification uses them, they show that a property can fail.   *)
(***************************************************************************)
EXTENDS GoMap, Naturals, SequencesExt

\* The empty string: no address, no key, no bootnode.
None == ""

\* The paths the builders agree on with the command lines they write.
Data == <<"data">>
In(dir, path) == dir \o path

ConfigYaml     == In(Data, <<"config">>)
GenesisSSZ     == In(Data, <<"genesis">>)
DeployBlock    == In(Data, <<"deploy_block">>)
BootEnr        == In(Data, <<"boot_enr">>)
WalletPassword == In(Data, <<"wallet-password">>)
AllAccounts    == In(Data, <<"direct", "accounts", "all-accounts">>)
EthPassword    == In(Data, <<"keystore-password">>)
EthKeystore    == In(Data, <<"keystore", "account">>)

\* What a file holds, and the keys that are in it.
Content(what)  == [what |-> what, keys |-> {}]
Keystore(keys) == [what |-> "keystore", keys |-> keys]
Password       == Content("password")

-----------------------------------------------------------------------------
(* spec.Spec.  Its command line is in functions of the flags: the files it names,  *)
(* the ports it opens, the addresses it calls; its bootnode has a field.  The type *)
(* and the client are those of its labels.                                         *)

NewSpec(repository) ==
    [repository |-> repository, type |-> "OtherType", client |-> "OtherClient",
     mount |-> <<>>, files |-> <<>>, input |-> <<>>, listen |-> <<>>, dial |-> <<>>,
     bootnode |-> None, retry |-> None, output |-> FALSE]

WithLabels(s, type, client) == [s EXCEPT !.type = type, !.client = client]

WithFile(s, path, content) == [s EXCEPT !.files = Put(s.files, path, content)]

\* WithFile for every i of a set: what two of them write to one path is the same.
WithFiles(s, S, path(_), content(_)) ==
    LET files == [p \in {path(i) : i \in S} |-> content(CHOOSE i \in S : path(i) = p)]
    IN  [s EXCEPT !.files = s.files ++ files]

WithMount(s, mount) == [s EXCEPT !.mount = Append(s.mount, mount)]

WithRetry(s, retry) == [s EXCEPT !.retry = retry]

WithOutput(s) == [s EXCEPT !.output = TRUE]

WithCmd(s, input, listen, dial) ==
    [s EXCEPT !.input = s.input ++ input, !.listen = s.listen ++ listen, !.dial = s.dial ++ dial]

WithBootnode(s, bootnode) == [s EXCEPT !.bootnode = bootnode]

-----------------------------------------------------------------------------
(* The bootnodes, which log to standard output, and the execution node.           *)

NewBootnodeV5 ==
    WithRetry(WithCmd(NewSpec("prysm/bootnode"), <<>>, Entry("--discv5-port", "eth.bootnode"), <<>>),
              "record in the logs")

NewBootnodeV4 ==
    WithRetry(WithCmd(NewSpec("client-go:alltools"), <<>>, Entry("--addr", "eth.bootnode"), <<>>),
              "first line of the logs")

\* The flags of a miner, its keystore and the password of it.
WithMiner(s, key) ==
    WithCmd(WithFile(WithFile(s, EthKeystore, Keystore({key})), EthPassword, Password),
            Entry("--password", EthPassword), <<>>, <<>>)

NewEth1Server(config) ==
    LET node == WithCmd(WithFile(WithMount(NewSpec("client-go"), Data),
                                 GenesisSSZ, Content("eth1 genesis")),
                        Entry("init", GenesisSSZ),
                        Entry("--port", "eth1.p2p") ++ Entry("--http.port", "eth1.http")
                            ++ Entry("--authrpc.port", "eth1.authrpc"),
                        <<>>)
    IN  WithRetry(WithBootnode(IF config.key = None THEN node ELSE WithMiner(node, config.key),
                               config.bootnode),
                  "http")

-----------------------------------------------------------------------------
(* Beacon nodes: the address of the execution node, the record of a bootnode, the  *)
(* specification of the network and the genesis state.                             *)

BeaconSpec(repository, client) ==
    WithFile(WithFile(WithMount(WithLabels(NewSpec(repository), "Beacon", client), Data),
                      ConfigYaml, Content("config")),
             GenesisSSZ, Content("genesis"))

NewTekuBeacon(config) ==
    WithBootnode(WithCmd(BeaconSpec("teku", "Teku"),
                         Entry("--network", ConfigYaml) ++ Entry("--initial-state", GenesisSSZ),
                         Entry("--rest-api-port", "eth2.http") ++ Entry("--p2p-port", "eth2.p2p"),
                         Entry("--eth1-endpoint", config.eth1)),
                 config.bootnode)

NewPrysmBeacon(config) ==
    WithBootnode(WithCmd(BeaconSpec("prysm/beacon-chain", "Prysm"),
                         Entry("--chain-config-file", ConfigYaml) ++ Entry("--genesis-state", GenesisSSZ),
                         Entry("--rpc-port", "eth2.prysm.grpc") ++ Entry("--grpc-gateway-port", "eth2.http")
                             ++ Entry("--p2p-tcp-port", "eth2.p2p") ++ Entry("--p2p-udp-port", "eth2.p2p"),
                         Entry("--http-web3provider", config.eth1)),
                 config.bootnode)

\* Its bootnode is a file of the testnet directory.
NewLighthouseBeacon(config) ==
    LET beacon == WithCmd(WithFile(BeaconSpec("lighthouse", "Lighthouse"),
                                   DeployBlock, Content("block")),
                          Entry("--testnet-dir", Data),
                          Entry("--http-port", "eth2.http") ++ Entry("--port", "eth2.p2p")
                              ++ Entry("--enr-udp-port", "eth2.p2p") ++ Entry("--enr-tcp-port", "eth2.p2p"),
                          Entry("--eth1-endpoints", config.eth1))
    IN  IF config.bootnode = None THEN beacon
        ELSE WithBootnode(WithFile(beacon, BootEnr, Content(config.bootnode)), config.bootnode)

-----------------------------------------------------------------------------
(* Validator clients: their accounts, and a beacon node, which is asked for the    *)
(* address of a port by name.                                                      *)

\* Gives every account the same file name.
AccountBug(i) == <<"account", 0>>

\* fmt.Sprintf("account_%d", indx): two indices have two names.
Account(i) == <<"account", i - 1>>

Keys(path)      == In(Data, <<"keys">> \o path)
Passwords(path) == In(Data, <<"pass">> \o path)

\* Mounts a directory of its own for the keys, inside the one of the data.
ValidatorSpecBug(repository, client) ==
    WithFile(WithMount(WithMount(WithLabels(NewSpec(repository), "Validator", client), Data),
                       Keys(<<>>)),
             ConfigYaml, Content("config"))

ValidatorSpec(repository, client) ==
    WithFile(WithMount(WithLabels(NewSpec(repository), "Validator", client), Data),
             ConfigYaml, Content("config"))

NewTekuValidator(config) ==
    LET indices == DOMAIN config.accounts
        spec == WithFiles(ValidatorSpec("teku", "Teku"), indices,
                          LAMBDA i : Keys(<<Account(i)>>),
                          LAMBDA i : Keystore({config.accounts[i]}))
    IN  WithCmd(WithFiles(spec, indices, LAMBDA i : Passwords(<<Account(i)>>), LAMBDA i : Password),
                Entry("--network", ConfigYaml) ++ Entry("--validator-keys", Keys(<<>>))
                    ++ Entry("--validator-keys passwords", Passwords(<<>>)),
                <<>>,
                Entry("--beacon-node-api-endpoint", config.beacon["eth2.http"]))

\* Calls the gateway instead of the gRPC endpoint.
NewPrysmValidatorBug(config) ==
    WithCmd(WithFile(WithFile(ValidatorSpec("prysm/validator", "Prysm"),
                              AllAccounts, Keystore(ToSet(config.accounts))),
                     WalletPassword, Password),
            Entry("--wallet-dir", Data) ++ Entry("--wallet-password-file", WalletPassword)
                ++ Entry("--chain-config-file", ConfigYaml),
            <<>>,
            Entry("--beacon-rpc-provider", config.beacon["eth2.http"]))

\* One keystore with all the accounts.
NewPrysmValidator(config) ==
    WithCmd(WithFile(WithFile(ValidatorSpec("prysm/validator", "Prysm"),
                              AllAccounts, Keystore(ToSet(config.accounts))),
                     WalletPassword, Password),
            Entry("--wallet-dir", Data) ++ Entry("--wallet-password-file", WalletPassword)
                ++ Entry("--chain-config-file", ConfigYaml),
            <<>>,
            Entry("--beacon-rpc-provider", config.beacon["eth2.prysm.grpc"]))

\* --datadir: the client creates it when it is missing.
Node == In(Data, <<"node">>)

VotingKeystore(pub) == In(Node, <<"validators", pub, "voting-keystore">>)
Secret(pub)         == In(Node, <<"secrets", pub>>)

NewLighthouseValidator(config) ==
    LET pubs == ToSet(config.accounts)
        spec == WithFiles(WithFile(ValidatorSpec("lighthouse", "Lighthouse"),
                                   DeployBlock, Content("block")),
                          pubs, VotingKeystore, LAMBDA pub : Keystore({pub}))
    IN  WithCmd(WithFiles(spec, pubs, Secret, LAMBDA pub : Password),
                Entry("--testnet-dir", Data),
                <<>>,
                Entry("--beacon-nodes", config.beacon["eth2.http"]))

-----------------------------------------------------------------------------
(* beaconFactory and validatorsFactory of internal/server/server.go. *)

ClientNames == {"Teku", "Prysm", "Lighthouse"}

beaconFactory(client, config) ==
    CASE client = "Teku"       -> NewTekuBeacon(config)
      [] client = "Prysm"      -> NewPrysmBeacon(config)
      [] client = "Lighthouse" -> NewLighthouseBeacon(config)

validatorsFactory(client, config) ==
    CASE client = "Teku"       -> NewTekuValidator(config)
      [] client = "Prysm"      -> NewPrysmValidator(config)
      [] client = "Lighthouse" -> NewLighthouseValidator(config)
=============================================================================
