-------------------------- MODULE ContainerProofs --------------------------
(***************************************************************************)
(* Theorems about the containers of Testnet, for any accounts and any      *)
(* number of containers and of failures: a container finds the files its   *)
(* command line names, a validator client can use exactly the keys of its  *)
(* tranche, and what calls another container has its address.              *)
(***************************************************************************)
EXTENDS TestnetProofs, SequenceTheorems

-----------------------------------------------------------------------------
(* Paths. *)

\* The paths of the files in the mount of the data.
InData(path) == \E S : \E rel \in Seq(S) : path = Data \o rel

LEMMA InDataOne ==
  ASSUME NEW a
  PROVE  <<"data", a>> = Data \o <<a>> /\ InData(<<"data", a>>)
<1>1. <<"data", a>> = Data \o <<a>>
  BY DEF Data
<1>2. <<a>> \in Seq({a})
  OBVIOUS
<1> QED
  BY <1>1, <1>2 DEF InData

LEMMA InDataTwo ==
  ASSUME NEW a, NEW b
  PROVE  <<"data", a, b>> = Data \o <<a, b>> /\ InData(<<"data", a, b>>)
<1>1. <<"data", a, b>> = Data \o <<a, b>>
  BY DEF Data
<1>2. <<a, b>> \in Seq({a, b})
  OBVIOUS
<1> QED
  BY <1>1, <1>2 DEF InData

LEMMA InDataThree ==
  ASSUME NEW a, NEW b, NEW c
  PROVE  <<"data", a, b, c>> = Data \o <<a, b, c>> /\ InData(<<"data", a, b, c>>)
<1>1. <<"data", a, b, c>> = Data \o <<a, b, c>>
  BY DEF Data
<1>2. <<a, b, c>> \in Seq({a, b, c})
  OBVIOUS
<1> QED
  BY <1>1, <1>2 DEF InData

LEMMA InDataFour ==
  ASSUME NEW a, NEW b, NEW c, NEW d
  PROVE  <<"data", a, b, c, d>> = Data \o <<a, b, c, d>> /\ InData(<<"data", a, b, c, d>>)
<1>1. <<"data", a, b, c, d>> = Data \o <<a, b, c, d>>
  BY DEF Data
<1>2. <<a, b, c, d>> \in Seq({a, b, c, d})
  OBVIOUS
<1> QED
  BY <1>1, <1>2 DEF InData

\* The paths of the builders, in full.
LEMMA Paths ==
  /\ ConfigYaml = <<"data", "config">>
  /\ GenesisSSZ = <<"data", "genesis">>
  /\ DeployBlock = <<"data", "deploy_block">>
  /\ BootEnr = <<"data", "boot_enr">>
  /\ WalletPassword = <<"data", "wallet-password">>
  /\ AllAccounts = <<"data", "direct", "accounts", "all-accounts">>
  /\ EthPassword = <<"data", "keystore-password">>
  /\ EthKeystore = <<"data", "keystore", "account">>
<1> USE DEF In
<1>1. /\ ConfigYaml = <<"data", "config">>
      /\ GenesisSSZ = <<"data", "genesis">>
      /\ DeployBlock = <<"data", "deploy_block">>
      /\ BootEnr = <<"data", "boot_enr">>
  BY InDataOne DEF ConfigYaml, GenesisSSZ, DeployBlock, BootEnr
<1>2. /\ WalletPassword = <<"data", "wallet-password">>
      /\ EthPassword = <<"data", "keystore-password">>
  BY InDataOne DEF WalletPassword, EthPassword
<1>3. AllAccounts = <<"data", "direct", "accounts", "all-accounts">>
  BY InDataThree DEF AllAccounts
<1>4. EthKeystore = <<"data", "keystore", "account">>
  BY InDataTwo DEF EthKeystore
<1> QED
  BY <1>1, <1>2, <1>3, <1>4

LEMMA KeyDirectories ==
  Keys(<<>>) = <<"data", "keys">> /\ Passwords(<<>>) = <<"data", "pass">>
<1>1. <<"keys">> = <<"keys">> \o <<>> /\ <<"pass">> = <<"pass">> \o <<>>
  OBVIOUS
<1> QED
  BY <1>1, InDataOne DEF Keys, Passwords, In

LEMMA AccountPaths ==
  ASSUME NEW a
  PROVE  /\ Keys(<<a>>) = <<"data", "keys", a>> /\ Passwords(<<a>>) = <<"data", "pass", a>>
         /\ VotingKeystore(a) = <<"data", "node", "validators", a, "voting-keystore">>
         /\ Secret(a) = <<"data", "node", "secrets", a>>
<1> USE DEF In
<1>1. <<"keys", a>> = <<"keys">> \o <<a>> /\ <<"pass", a>> = <<"pass">> \o <<a>>
  OBVIOUS
<1>2. Keys(<<a>>) = <<"data", "keys", a>> /\ Passwords(<<a>>) = <<"data", "pass", a>>
  BY <1>1, InDataTwo DEF Keys, Passwords
<1>3. Node = <<"data", "node">>
  BY InDataOne DEF Node
<1>4. /\ <<"data", "node", "validators", a, "voting-keystore">>
             = <<"data", "node">> \o <<"validators", a, "voting-keystore">>
      /\ <<"data", "node", "secrets", a>> = <<"data", "node">> \o <<"secrets", a>>
  OBVIOUS
<1> QED
  BY <1>2, <1>3, <1>4 DEF VotingKeystore, Secret

LEMMA PathsInData ==
  /\ InData(ConfigYaml) /\ InData(GenesisSSZ) /\ InData(DeployBlock) /\ InData(BootEnr)
  /\ InData(WalletPassword) /\ InData(AllAccounts)
  /\ InData(EthPassword) /\ InData(EthKeystore)
<1>1. /\ InData(ConfigYaml) /\ InData(GenesisSSZ) /\ InData(DeployBlock) /\ InData(BootEnr)
      /\ InData(WalletPassword) /\ InData(EthPassword)
  BY Paths, InDataOne
<1>2. InData(EthKeystore)
  BY Paths, InDataTwo
<1>3. InData(AllAccounts)
  BY Paths, InDataThree
<1> QED
  BY <1>1, <1>2, <1>3

LEMMA AccountPathsInData ==
  ASSUME NEW a
  PROVE  /\ InData(Keys(<<a>>)) /\ InData(Passwords(<<a>>))
         /\ InData(VotingKeystore(a)) /\ InData(Secret(a))
<1>1. InData(Keys(<<a>>)) /\ InData(Passwords(<<a>>))
  BY AccountPaths, InDataTwo
<1>2. InData(Secret(a))
  BY AccountPaths, InDataThree
<1>3. InData(VotingKeystore(a))
  <2>1. VotingKeystore(a) = <<"data", "node", "validators", a, "voting-keystore">>
    BY AccountPaths
  <2>2. InData(<<"data", "node", "validators", a, "voting-keystore">>)
    BY InDataFour
  <2> QED
    BY ONLY <2>1, <2>2
<1> QED
  BY <1>1, <1>2, <1>3

-----------------------------------------------------------------------------
(* The specifications of the builders. *)

IsSpec(s) == DOMAIN s = DOMAIN NewSpec(None)

\* Its files are in the one directory it mounts, or it has neither.
Placed(s) ==
    \/ s.mount = <<>> /\ DOMAIN s.files = {}
    \/ s.mount = <<Data>> /\ \A path \in DOMAIN s.files : InData(path)

\* Its files are there, but the key directories of a validator client without accounts.
Reads(s, accounts) ==
    \A flag \in DOMAIN s.input :
        \/ \E file \in DOMAIN s.files : IsPrefix(s.input[flag], file)
        \/ accounts = <<>> /\ s.input[flag] \in {Keys(<<>>), Passwords(<<>>)}

\* UsableKeys, of the files of a specification.
Usable(files) ==
    UNION {{pub \in files[file].keys :
               /\ PasswordOf(file, pub) \in DOMAIN files
               /\ files[PasswordOf(file, pub)] = Password} : file \in DOMAIN files}

\* The port of a beacon node its validator clients call.
Api(client) == IF client = "Prysm" THEN "eth2.prysm.grpc" ELSE "eth2.http"

Calls(s, address) == \A flag \in DOMAIN s.dial : s.dial[flag] = address

Offers(s, port) ==
    ApiFlag(s.repository) \in DOMAIN s.listen /\ s.listen[ApiFlag(s.repository)] = port

\* A file is a prefix of itself, and the directory of the data of every file in it.
LEMMA FilePrefix ==
  ASSUME NEW a
  PROVE  /\ IsPrefix(<<"data", a>>, <<"data", a>>)
         /\ IsPrefix(Data, <<"data", a>>)
<1>1. IsPrefix(<<"data", a>>, <<"data", a>>)
  BY DEF IsPrefix
<1>2. IsPrefix(<<"data">>, <<"data", a>>)
  BY DEF IsPrefix
<1> QED
  BY <1>1, <1>2 DEF Data

LEMMA TekuBeacon ==
  ASSUME NEW config, NEW s, s = NewTekuBeacon(config)
  PROVE  /\ IsSpec(s) /\ s.type = "Beacon" /\ s.client = "Teku" /\ s.bootnode = config.bootnode
         /\ s.retry = None
         /\ Placed(s) /\ \A accounts : Reads(s, accounts)
         /\ Calls(s, config.eth1) /\ Offers(s, Api("Teku"))
<1> USE DEF NewTekuBeacon, WithBootnode, WithCmd, BeaconSpec, WithFile, WithMount, WithLabels,
            NewSpec
<1>1. IsSpec(s)
  BY DEF IsSpec
<1>2. /\ s.repository = "teku" /\ s.type = "Beacon" /\ s.client = "Teku"
      /\ s.bootnode = config.bootnode /\ s.retry = None /\ s.mount = <<Data>>
      /\ s.files = Put(Put(<<>>, ConfigYaml, Content("config")), GenesisSSZ, Content("genesis"))
      /\ s.input = <<>> ++ (Entry("--network", ConfigYaml) ++ Entry("--initial-state", GenesisSSZ))
      /\ s.listen = <<>> ++ (Entry("--rest-api-port", "eth2.http") ++ Entry("--p2p-port", "eth2.p2p"))
      /\ s.dial = <<>> ++ Entry("--eth1-endpoint", config.eth1)
  OBVIOUS
<1> HIDE DEF NewTekuBeacon, WithBootnode, WithCmd, BeaconSpec, WithFile, WithMount, WithLabels,
             NewSpec
<1>3. DOMAIN s.files = {ConfigYaml, GenesisSSZ}
  BY <1>2 DEF Put
<1>4. Placed(s)
  BY <1>2, <1>3, PathsInData DEF Placed
<1>5. ASSUME NEW flag \in DOMAIN s.input
      PROVE  s.input[flag] \in {ConfigYaml, GenesisSSZ}
  BY <1>2 DEF Entry, ++
<1>6. IsPrefix(ConfigYaml, ConfigYaml) /\ IsPrefix(GenesisSSZ, GenesisSSZ)
  BY Paths, FilePrefix
<1>7. \A accounts : Reads(s, accounts)
  BY <1>3, <1>5, <1>6 DEF Reads
<1>8. Calls(s, config.eth1)
  BY <1>2 DEF Calls, Entry, ++
<1>9. Offers(s, Api("Teku"))
  BY <1>2 DEF Offers, ApiFlag, Api, Entry, ++
<1> QED
  BY <1>1, <1>2, <1>4, <1>7, <1>8, <1>9

LEMMA PrysmBeacon ==
  ASSUME NEW config, NEW s, s = NewPrysmBeacon(config)
  PROVE  /\ IsSpec(s) /\ s.type = "Beacon" /\ s.client = "Prysm" /\ s.bootnode = config.bootnode
         /\ s.retry = None
         /\ Placed(s) /\ \A accounts : Reads(s, accounts)
         /\ Calls(s, config.eth1) /\ Offers(s, Api("Prysm"))
<1> USE DEF NewPrysmBeacon, WithBootnode, WithCmd, BeaconSpec, WithFile, WithMount, WithLabels,
            NewSpec
<1>1. IsSpec(s)
  BY DEF IsSpec
<1>2. /\ s.repository = "prysm/beacon-chain" /\ s.type = "Beacon" /\ s.client = "Prysm"
      /\ s.bootnode = config.bootnode /\ s.retry = None /\ s.mount = <<Data>>
      /\ s.files = Put(Put(<<>>, ConfigYaml, Content("config")), GenesisSSZ, Content("genesis"))
      /\ s.input = <<>> ++ (Entry("--chain-config-file", ConfigYaml) ++ Entry("--genesis-state", GenesisSSZ))
      /\ s.listen = <<>> ++ (Entry("--rpc-port", "eth2.prysm.grpc") ++ Entry("--grpc-gateway-port", "eth2.http")
                                ++ Entry("--p2p-tcp-port", "eth2.p2p") ++ Entry("--p2p-udp-port", "eth2.p2p"))
      /\ s.dial = <<>> ++ Entry("--http-web3provider", config.eth1)
  OBVIOUS
<1> HIDE DEF NewPrysmBeacon, WithBootnode, WithCmd, BeaconSpec, WithFile, WithMount, WithLabels,
             NewSpec
<1>3. DOMAIN s.files = {ConfigYaml, GenesisSSZ}
  BY <1>2 DEF Put
<1>4. Placed(s)
  BY <1>2, <1>3, PathsInData DEF Placed
<1>5. ASSUME NEW flag \in DOMAIN s.input
      PROVE  s.input[flag] \in {ConfigYaml, GenesisSSZ}
  BY <1>2 DEF Entry, ++
<1>6. IsPrefix(ConfigYaml, ConfigYaml) /\ IsPrefix(GenesisSSZ, GenesisSSZ)
  BY Paths, FilePrefix
<1>7. \A accounts : Reads(s, accounts)
  BY <1>3, <1>5, <1>6 DEF Reads
<1>8. Calls(s, config.eth1)
  BY <1>2 DEF Calls, Entry, ++
<1>9. Offers(s, Api("Prysm"))
  BY <1>2 DEF Offers, ApiFlag, Api, Entry, ++
<1> QED
  BY <1>1, <1>2, <1>4, <1>7, <1>8, <1>9

LEMMA LighthouseBeacon ==
  ASSUME NEW config, NEW s, s = NewLighthouseBeacon(config)
  PROVE  /\ IsSpec(s) /\ s.type = "Beacon" /\ s.client = "Lighthouse" /\ s.bootnode = config.bootnode
         /\ s.retry = None
         /\ Placed(s) /\ \A accounts : Reads(s, accounts)
         /\ Calls(s, config.eth1) /\ Offers(s, Api("Lighthouse"))
<1> DEFINE base == Put(Put(Put(<<>>, ConfigYaml, Content("config")), GenesisSSZ, Content("genesis")),
                       DeployBlock, Content("block"))
<1> USE DEF NewLighthouseBeacon, WithBootnode, WithCmd, BeaconSpec, WithFile, WithMount, WithLabels,
            NewSpec
<1>1. IsSpec(s)
  BY DEF IsSpec
<1>2. /\ s.repository = "lighthouse" /\ s.type = "Beacon" /\ s.client = "Lighthouse"
      /\ s.bootnode = config.bootnode /\ s.retry = None /\ s.mount = <<Data>>
      /\ s.files \in {base, Put(base, BootEnr, Content(config.bootnode))}
      /\ s.input = <<>> ++ Entry("--testnet-dir", Data)
      /\ s.listen = <<>> ++ (Entry("--http-port", "eth2.http") ++ Entry("--port", "eth2.p2p")
                                ++ Entry("--enr-udp-port", "eth2.p2p") ++ Entry("--enr-tcp-port", "eth2.p2p"))
      /\ s.dial = <<>> ++ Entry("--eth1-endpoints", config.eth1)
  OBVIOUS
<1> HIDE DEF NewLighthouseBeacon, WithBootnode, WithCmd, BeaconSpec, WithFile, WithMount, WithLabels,
             NewSpec
<1>3. /\ DOMAIN s.files \subseteq {ConfigYaml, GenesisSSZ, DeployBlock, BootEnr}
      /\ ConfigYaml \in DOMAIN s.files
  BY <1>2 DEF Put
<1>4. Placed(s)
  BY <1>2, <1>3, PathsInData DEF Placed
<1>5. ASSUME NEW flag \in DOMAIN s.input
      PROVE  s.input[flag] = Data
  BY <1>2 DEF Entry, ++
<1>6. IsPrefix(Data, ConfigYaml)
  BY Paths, FilePrefix
<1>7. \A accounts : Reads(s, accounts)
  BY <1>3, <1>5, <1>6 DEF Reads
<1>8. Calls(s, config.eth1)
  BY <1>2 DEF Calls, Entry, ++
<1>9. Offers(s, Api("Lighthouse"))
  BY <1>2 DEF Offers, ApiFlag, Api, Entry, ++
<1> QED
  BY <1>1, <1>2, <1>4, <1>7, <1>8, <1>9

\* What DeployBeacon asks for.
LEMMA BeaconSpecs ==
  ASSUME NEW client \in ClientNames, NEW config, NEW s, s = beaconFactory(client, config)
  PROVE  /\ IsSpec(s) /\ s.type = "Beacon" /\ s.client = client /\ s.bootnode = config.bootnode
         /\ s.retry = None
         /\ Placed(s) /\ \A accounts : Reads(s, accounts)
         /\ Calls(s, config.eth1) /\ Offers(s, Api(client))
<1>1. CASE client = "Teku"
  <2>1. s = NewTekuBeacon(config)
    BY <1>1, Zenon DEF beaconFactory
  <2> QED
    BY <1>1, <2>1, TekuBeacon
<1>2. CASE client = "Prysm"
  <2>1. s = NewPrysmBeacon(config)
    BY <1>2, Zenon DEF beaconFactory
  <2> QED
    BY <1>2, <2>1, PrysmBeacon
<1>3. CASE client = "Lighthouse"
  <2>1. s = NewLighthouseBeacon(config)
    BY <1>3, Zenon DEF beaconFactory
  <2> QED
    BY <1>3, <2>1, LighthouseBeacon
<1> QED
  BY <1>1, <1>2, <1>3 DEF ClientNames

LEMMA Bootnodes ==
  ASSUME NEW s, s = NewBootnodeV5 \/ s = NewBootnodeV4
  PROVE  /\ IsSpec(s) /\ s.type = "OtherType"
         /\ Placed(s) /\ \A accounts : Reads(s, accounts)
         /\ DOMAIN s.dial = {}
<1> USE DEF NewBootnodeV5, NewBootnodeV4, WithRetry, WithCmd, NewSpec
<1>1. IsSpec(s)
  BY DEF IsSpec
<1>2. /\ s.type = "OtherType" /\ s.mount = <<>> /\ s.files = <<>>
      /\ s.input = <<>> ++ <<>> /\ s.dial = <<>> ++ <<>>
  OBVIOUS
<1> HIDE DEF NewBootnodeV5, NewBootnodeV4, WithRetry, WithCmd, NewSpec
<1>3. DOMAIN s.files = {} /\ DOMAIN s.input = {} /\ DOMAIN s.dial = {}
  BY <1>2, EmptyDomain DEF ++
<1> QED
  BY <1>1, <1>2, <1>3 DEF Placed, Reads

LEMMA BootnodeRetries ==
  /\ NewBootnodeV5.retry = "record in the logs"
  /\ NewBootnodeV4.retry = "first line of the logs"
  BY DEF NewBootnodeV5, NewBootnodeV4, WithRetry, WithCmd, NewSpec

LEMMA Eth1Server ==
  ASSUME NEW config, NEW s, s = NewEth1Server(config)
  PROVE  /\ IsSpec(s) /\ s.type = "OtherType" /\ s.retry = "http"
         /\ Placed(s) /\ \A accounts : Reads(s, accounts)
         /\ DOMAIN s.dial = {}
         /\ s.repository = "client-go" /\ Offers(s, "eth1.http")
<1> DEFINE genesis == Put(<<>>, GenesisSSZ, Content("eth1 genesis"))
           miner   == Put(Put(genesis, EthKeystore, Keystore({config.key})), EthPassword, Password)
           init    == <<>> ++ Entry("init", GenesisSSZ)
<1> USE DEF NewEth1Server, WithMiner, WithRetry, WithBootnode, WithCmd, WithFile, WithMount, NewSpec
<1>1. IsSpec(s)
  BY DEF IsSpec
<1>2. /\ s.type = "OtherType" /\ s.mount = <<Data>> /\ s.retry = "http" /\ s.repository = "client-go"
      /\ \/ s.files = genesis /\ s.input = init
         \/ s.files = miner /\ s.input = init ++ Entry("--password", EthPassword)
  OBVIOUS
<1>3. s.dial \in {<<>> ++ <<>>, (<<>> ++ <<>>) ++ <<>>}
  OBVIOUS
<1>4. LET listen == <<>> ++ (Entry("--port", "eth1.p2p") ++ Entry("--http.port", "eth1.http")
                                ++ Entry("--authrpc.port", "eth1.authrpc"))
      IN  s.listen \in {listen, listen ++ <<>>}
  OBVIOUS
<1> HIDE DEF NewEth1Server, WithMiner, WithRetry, WithBootnode, WithCmd, WithFile, WithMount, NewSpec
<1>5. /\ DOMAIN s.files \subseteq {GenesisSSZ, EthKeystore, EthPassword}
      /\ \A flag \in DOMAIN s.input :
            s.input[flag] \in {GenesisSSZ, EthPassword} /\ s.input[flag] \in DOMAIN s.files
  <2>1. CASE s.files = genesis /\ s.input = init
    <3>1. DOMAIN s.files = {GenesisSSZ}
      BY <2>1, EmptyDomain DEF Put, genesis
    <3>2. \A flag \in DOMAIN s.input : s.input[flag] = GenesisSSZ
      BY <2>1, EmptyDomain DEF Entry, ++, init
    <3> QED
      BY <3>1, <3>2
  <2>2. CASE s.files = miner /\ s.input = init ++ Entry("--password", EthPassword)
    <3>1. DOMAIN s.files = {GenesisSSZ, EthKeystore, EthPassword}
      BY <2>2, EmptyDomain DEF Put, genesis, miner
    <3>2. \A flag \in DOMAIN s.input : s.input[flag] \in {GenesisSSZ, EthPassword}
      BY <2>2, EmptyDomain DEF Entry, ++, init
    <3> QED
      BY <3>1, <3>2
  <2> QED
    BY <1>2, <2>1, <2>2
<1>6. Placed(s)
  BY <1>2, <1>5, PathsInData DEF Placed
<1>7. IsPrefix(GenesisSSZ, GenesisSSZ) /\ IsPrefix(EthPassword, EthPassword)
  BY Paths, FilePrefix
<1>8. \A accounts : Reads(s, accounts)
  BY <1>5, <1>7 DEF Reads
<1>9. DOMAIN s.dial = {}
  BY <1>3, EmptyDomain DEF ++
<1>10. Offers(s, "eth1.http")
  BY <1>2, <1>4, EmptyDomain DEF Offers, ApiFlag, Entry, ++
<1> QED
  BY <1>1, <1>2, <1>6, <1>8, <1>9, <1>10

-----------------------------------------------------------------------------
(* The keys of the validator clients. *)

LEMMA NoKeys ==
  /\ Password.keys = {}
  /\ \A what : Content(what).keys = {}
  /\ \A keys : Keystore(keys).keys = keys
  BY DEF Password, Content, Keystore

\* Files with keys that one of them holds, each with the password next to it.
LEMMA UsableFiles ==
  ASSUME NEW files, NEW keys,
         \A file \in DOMAIN files : \A pub \in files[file].keys :
             /\ pub \in keys
             /\ PasswordOf(file, pub) \in DOMAIN files
             /\ files[PasswordOf(file, pub)] = Password,
         \A pub \in keys : \E file \in DOMAIN files : pub \in files[file].keys
  PROVE  Usable(files) = keys
  BY DEF Usable

LEMMA KeyFilesDiffer ==
  ASSUME NEW pub
  PROVE  VotingKeystore(pub) # AllAccounts
<1>1. /\ VotingKeystore(pub) = <<"data", "node", "validators", pub, "voting-keystore">>
      /\ AllAccounts = <<"data", "direct", "accounts", "all-accounts">>
  BY AccountPaths, Paths
<1> QED
  BY <1>1

LEMMA PrysmPassword ==
  ASSUME NEW pub
  PROVE  PasswordOf(AllAccounts, pub) = WalletPassword
  BY KeyFilesDiffer DEF PasswordOf

LEMMA LighthousePassword ==
  ASSUME NEW pub
  PROVE  PasswordOf(VotingKeystore(pub), pub) = Secret(pub)
  BY KeyFilesDiffer DEF PasswordOf

LEMMA TekuPassword ==
  ASSUME NEW a, NEW pub
  PROVE  PasswordOf(Keys(<<a>>), pub) = Passwords(<<a>>)
<1>1. /\ Keys(<<a>>) = <<"data", "keys", a>>
      /\ VotingKeystore(pub) = <<"data", "node", "validators", pub, "voting-keystore">>
      /\ AllAccounts = <<"data", "direct", "accounts", "all-accounts">>
  BY AccountPaths, Paths
<1>2. Keys(<<a>>) # AllAccounts /\ Keys(<<a>>) # VotingKeystore(pub)
  BY <1>1
<1>3. SubSeq(Keys(<<a>>), 3, Len(Keys(<<a>>))) = <<a>>
  <2> DEFINE key == <<"data", "keys", a>>
  <2>1. Len(key) = 3 /\ key[3] = a
    OBVIOUS
  <2>2. SubSeq(key, 3, 3) \in Seq({a}) /\ Len(SubSeq(key, 3, 3)) = 1 /\ SubSeq(key, 3, 3)[1] = a
    <3> HIDE DEF key
    <3>1. \A i \in 3..3 : key[i] \in {a}
      BY <2>1
    <3> QED
      BY <2>1, <3>1, SubSeqProperties
  <2>3. <<a>> \in Seq({a}) /\ Len(<<a>>) = 1 /\ <<a>>[1] = a
    OBVIOUS
  <2> DEFINE part == SubSeq(key, 3, 3)
             one  == <<a>>
  <2>4. part \in Seq({a}) /\ one \in Seq({a}) /\ Len(part) = Len(one)
    BY <2>2, <2>3
  <2>5. \A i \in 1..Len(part) : part[i] = one[i]
    BY <2>2, <2>3
  <2>6. part = one
    <3> HIDE DEF part, one
    <3> QED
      BY <2>4, <2>5, SeqEqual
  <2> QED
    BY <1>1, <2>1, <2>6
<1> QED
  BY <1>2, <1>3 DEF PasswordOf

LEMMA PrysmValidator ==
  ASSUME NEW config, NEW s, s = NewPrysmValidator(config)
  PROVE  /\ IsSpec(s) /\ s.type = "Validator" /\ s.client = "Prysm" /\ s.retry = None
         /\ Placed(s) /\ Reads(s, config.accounts)
         /\ Usable(s.files) = ToSet(config.accounts)
         /\ Calls(s, config.beacon[Api("Prysm")])
<1> DEFINE files == Put(Put(Put(<<>>, ConfigYaml, Content("config")),
                            AllAccounts, Keystore(ToSet(config.accounts))), WalletPassword, Password)
<1> USE DEF NewPrysmValidator, WithCmd, ValidatorSpec, WithFile, WithMount, WithLabels, NewSpec
<1>1. IsSpec(s)
  BY DEF IsSpec
<1>2. /\ s.type = "Validator" /\ s.client = "Prysm" /\ s.retry = None /\ s.mount = <<Data>>
      /\ s.files = files
      /\ s.input = <<>> ++ (Entry("--wallet-dir", Data) ++ Entry("--wallet-password-file", WalletPassword)
                                ++ Entry("--chain-config-file", ConfigYaml))
      /\ s.dial = <<>> ++ Entry("--beacon-rpc-provider", config.beacon["eth2.prysm.grpc"])
  OBVIOUS
<1> HIDE DEF NewPrysmValidator, WithCmd, ValidatorSpec, WithFile, WithMount, WithLabels, NewSpec
<1>3. DOMAIN files = {ConfigYaml, AllAccounts, WalletPassword}
  BY EmptyDomain DEF Put, files
<1>4. /\ files[ConfigYaml] = Content("config")
      /\ files[AllAccounts] = Keystore(ToSet(config.accounts))
      /\ files[WalletPassword] = Password
  <2>1. ConfigYaml # AllAccounts /\ ConfigYaml # WalletPassword /\ AllAccounts # WalletPassword
    BY Paths
  <2> QED
    BY <2>1, EmptyDomain DEF Put, files
<1> HIDE DEF files
<1>5. Placed(s)
  BY <1>2, <1>3, PathsInData DEF Placed
<1>6. ASSUME NEW flag \in DOMAIN s.input
      PROVE  s.input[flag] \in {Data, WalletPassword, ConfigYaml}
  BY <1>2, EmptyDomain DEF Entry, ++
<1>7. /\ IsPrefix(ConfigYaml, ConfigYaml) /\ IsPrefix(WalletPassword, WalletPassword)
      /\ IsPrefix(Data, ConfigYaml)
  BY Paths, FilePrefix
<1>8. Reads(s, config.accounts)
  BY <1>2, <1>3, <1>6, <1>7 DEF Reads
<1>9. Usable(files) = ToSet(config.accounts)
  <2>1. ASSUME NEW file \in DOMAIN files, NEW pub \in files[file].keys
        PROVE  /\ pub \in ToSet(config.accounts)
               /\ PasswordOf(file, pub) \in DOMAIN files
               /\ files[PasswordOf(file, pub)] = Password
    <3>1. file = AllAccounts /\ pub \in ToSet(config.accounts)
      BY <1>3, <1>4, NoKeys
    <3> QED
      BY <1>3, <1>4, <3>1, PrysmPassword
  <2>2. \A pub \in ToSet(config.accounts) : \E file \in DOMAIN files : pub \in files[file].keys
    BY <1>3, <1>4, NoKeys
  <2> QED
    BY <2>1, <2>2, UsableFiles
<1>10. Calls(s, config.beacon[Api("Prysm")])
  BY <1>2, EmptyDomain DEF Calls, Api, Entry, ++
<1> QED
  BY <1>1, <1>2, <1>5, <1>8, <1>9, <1>10

LEMMA TekuValidator ==
  ASSUME NEW config, NEW s, s = NewTekuValidator(config), NEW S, config.accounts \in Seq(S)
  PROVE  /\ IsSpec(s) /\ s.type = "Validator" /\ s.client = "Teku" /\ s.retry = None
         /\ Placed(s) /\ Reads(s, config.accounts)
         /\ Usable(s.files) = ToSet(config.accounts)
         /\ Calls(s, config.beacon[Api("Teku")])
<1> DEFINE indices == DOMAIN config.accounts
           key(i)  == Keys(<<Account(i)>>)
           pass(i) == Passwords(<<Account(i)>>)
           keys    == [p \in {key(i) : i \in indices} |->
                          Keystore({config.accounts[CHOOSE i \in indices : key(i) = p]})]
           passes  == [p \in {pass(i) : i \in indices} |-> Password]
           files   == (Put(<<>>, ConfigYaml, Content("config")) ++ keys) ++ passes
<1> USE DEF NewTekuValidator, WithFiles, WithCmd, ValidatorSpec, WithFile, WithMount, WithLabels, NewSpec
<1>1. IsSpec(s)
  BY DEF IsSpec
<1>2. /\ s.type = "Validator" /\ s.client = "Teku" /\ s.retry = None /\ s.mount = <<Data>>
      /\ s.input = <<>> ++ (Entry("--network", ConfigYaml) ++ Entry("--validator-keys", Keys(<<>>))
                                ++ Entry("--validator-keys passwords", Passwords(<<>>)))
      /\ s.dial = <<>> ++ Entry("--beacon-node-api-endpoint", config.beacon["eth2.http"])
  OBVIOUS
<1>3. s.files = files
  OBVIOUS
<1> HIDE DEF NewTekuValidator, WithFiles, WithCmd, ValidatorSpec, WithFile, WithMount, WithLabels, NewSpec
<1>4. indices \subseteq Nat
  OBVIOUS
<1>5. /\ \A i \in indices : /\ key(i) = <<"data", "keys", <<"account", i - 1>>>>
                            /\ pass(i) = <<"data", "pass", <<"account", i - 1>>>>
      /\ ConfigYaml = <<"data", "config">>
  BY AccountPaths, Paths DEF Account
<1>6. /\ \A i, j \in indices : key(i) = key(j) => i = j
      /\ \A i, j \in indices : key(i) # pass(j) /\ key(i) # ConfigYaml /\ pass(i) # ConfigYaml
  <2>1. ASSUME NEW i \in indices, NEW j \in indices, key(i) = key(j)
        PROVE  i = j
    <3>1. key(i)[3] = <<"account", i - 1>> /\ key(j)[3] = <<"account", j - 1>>
      BY <1>5
    <3>2. <<"account", i - 1>> = <<"account", j - 1>>
      BY <2>1, <3>1
    <3> QED
      BY <1>4, <3>2
  <2>2. ASSUME NEW i \in indices, NEW j \in indices
        PROVE  key(i) # pass(j) /\ key(i) # ConfigYaml /\ pass(i) # ConfigYaml
    <3>1. key(i)[2] = "keys" /\ pass(i)[2] = "pass" /\ pass(j)[2] = "pass"
      BY <1>5
    <3>2. ConfigYaml[2] = "config"
      BY <1>5
    <3> QED
      BY <3>1, <3>2
  <2> QED
    BY <2>1, <2>2
<1> HIDE DEF indices, key, pass
<1>7. DOMAIN files = {ConfigYaml} \cup {key(i) : i \in indices} \cup {pass(i) : i \in indices}
  BY EmptyDomain DEF Put, ++
<1>8. files[ConfigYaml].keys = {}
  <2>1. files[ConfigYaml] = Content("config")
    BY <1>6 DEF Put, ++
  <2> QED
    BY <2>1, NoKeys
<1>9. \A i \in indices : files[pass(i)] = Password
  BY DEF ++
<1>10. ASSUME NEW i \in indices
       PROVE  files[key(i)].keys = {config.accounts[i]}
  <2>1. files[key(i)] = keys[key(i)]
    BY <1>6 DEF ++
  <2>2. (CHOOSE j \in indices : key(j) = key(i)) = i
    BY <1>6
  <2>3. keys[key(i)] = Keystore({config.accounts[i]})
    BY <2>2
  <2> QED
    BY <2>1, <2>3, NoKeys
<1> HIDE DEF files, keys, passes
<1>11. Placed(s)
  BY <1>2, <1>3, <1>7, PathsInData, AccountPathsInData DEF Placed, key, pass
<1>12. ASSUME NEW flag \in DOMAIN s.input
       PROVE  s.input[flag] \in {ConfigYaml, Keys(<<>>), Passwords(<<>>)}
  BY <1>2, EmptyDomain DEF Entry, ++
<1>13. IsPrefix(ConfigYaml, ConfigYaml)
  BY Paths, FilePrefix
<1>14. ASSUME config.accounts # <<>>
       PROVE  /\ \E file \in DOMAIN files : IsPrefix(Keys(<<>>), file)
              /\ \E file \in DOMAIN files : IsPrefix(Passwords(<<>>), file)
  <2>1. 1 \in indices
    BY <1>14 DEF indices
  <2>2. /\ key(1) = <<"data", "keys", <<"account", 0>>>> /\ Keys(<<>>) = <<"data", "keys">>
        /\ pass(1) = <<"data", "pass", <<"account", 0>>>> /\ Passwords(<<>>) = <<"data", "pass">>
    <3>1. 1 - 1 = 0
      OBVIOUS
    <3> QED
      BY <1>5, <2>1, <3>1, KeyDirectories
  <2>3. IsPrefix(Keys(<<>>), key(1))
    BY <2>2 DEF IsPrefix
  <2>4. IsPrefix(Passwords(<<>>), pass(1))
    BY <2>2 DEF IsPrefix
  <2> QED
    BY <1>7, <2>1, <2>3, <2>4
<1>15. Reads(s, config.accounts)
  BY <1>3, <1>7, <1>12, <1>13, <1>14 DEF Reads
<1>16. Usable(files) = ToSet(config.accounts)
  <2>1. ASSUME NEW file \in DOMAIN files, NEW pub \in files[file].keys
        PROVE  /\ pub \in ToSet(config.accounts)
               /\ PasswordOf(file, pub) \in DOMAIN files
               /\ files[PasswordOf(file, pub)] = Password
    <3>1. PICK i \in indices : file = key(i)
      BY <1>7, <1>8, <1>9, NoKeys
    <3>2. pub = config.accounts[i]
      BY <1>10, <3>1
    <3>3. PasswordOf(file, pub) = pass(i)
      BY <3>1, TekuPassword DEF key, pass
    <3> QED
      BY <1>7, <1>9, <3>2, <3>3 DEF indices, ToSet
  <2>2. \A pub \in ToSet(config.accounts) : \E file \in DOMAIN files : pub \in files[file].keys
    BY <1>7, <1>10 DEF ToSet, indices
  <2> QED
    BY <2>1, <2>2, UsableFiles
<1>17. Calls(s, config.beacon[Api("Teku")])
  BY <1>2, EmptyDomain DEF Calls, Api, Entry, ++
<1> QED
  BY <1>1, <1>2, <1>3, <1>11, <1>15, <1>16, <1>17

LEMMA LighthouseValidator ==
  ASSUME NEW config, NEW s, s = NewLighthouseValidator(config)
  PROVE  /\ IsSpec(s) /\ s.type = "Validator" /\ s.client = "Lighthouse" /\ s.retry = None
         /\ Placed(s) /\ Reads(s, config.accounts)
         /\ Usable(s.files) = ToSet(config.accounts)
         /\ Calls(s, config.beacon[Api("Lighthouse")])
<1> DEFINE pubs    == ToSet(config.accounts)
           first   == Put(Put(<<>>, ConfigYaml, Content("config")), DeployBlock, Content("block"))
           keys    == [p \in {VotingKeystore(pub) : pub \in pubs} |->
                          Keystore({CHOOSE pub \in pubs : VotingKeystore(pub) = p})]
           secrets == [p \in {Secret(pub) : pub \in pubs} |-> Password]
           files   == (first ++ keys) ++ secrets
<1> USE DEF NewLighthouseValidator, WithFiles, WithCmd, ValidatorSpec, WithFile, WithMount, WithLabels,
            NewSpec
<1>1. IsSpec(s)
  BY DEF IsSpec
<1>2. /\ s.type = "Validator" /\ s.client = "Lighthouse" /\ s.retry = None /\ s.mount = <<Data>>
      /\ s.input = <<>> ++ Entry("--testnet-dir", Data)
      /\ s.dial = <<>> ++ Entry("--beacon-nodes", config.beacon["eth2.http"])
  OBVIOUS
<1>3. s.files = files
  OBVIOUS
<1> HIDE DEF NewLighthouseValidator, WithFiles, WithCmd, ValidatorSpec, WithFile, WithMount, WithLabels,
             NewSpec
<1>4. /\ \A pub \in pubs : /\ VotingKeystore(pub) = <<"data", "node", "validators", pub, "voting-keystore">>
                           /\ Secret(pub) = <<"data", "node", "secrets", pub>>
      /\ ConfigYaml = <<"data", "config">> /\ DeployBlock = <<"data", "deploy_block">>
  BY AccountPaths, Paths
<1> HIDE DEF pubs
<1>5. ASSUME NEW a \in pubs, NEW b \in pubs, VotingKeystore(a) = VotingKeystore(b)
      PROVE  a = b
  <2>1. VotingKeystore(a)[4] = a /\ VotingKeystore(b)[4] = b
    BY <1>4
  <2> QED
    BY <1>5, <2>1
<1>6. ASSUME NEW a \in pubs, NEW b \in pubs
      PROVE  /\ VotingKeystore(a) # Secret(b) /\ VotingKeystore(a) \notin {ConfigYaml, DeployBlock}
             /\ Secret(a) \notin {ConfigYaml, DeployBlock}
  <2>1. /\ VotingKeystore(a)[3] = "validators" /\ Secret(b)[3] = "secrets"
        /\ VotingKeystore(a)[2] = "node" /\ Secret(a)[2] = "node"
    BY <1>4
  <2>2. ConfigYaml[2] = "config" /\ DeployBlock[2] = "deploy_block"
    BY <1>4
  <2> QED
    BY <2>1, <2>2
<1>7. DOMAIN files = {ConfigYaml, DeployBlock} \cup {VotingKeystore(pub) : pub \in pubs}
                          \cup {Secret(pub) : pub \in pubs}
  BY EmptyDomain DEF Put, ++
<1>8. \A file \in {ConfigYaml, DeployBlock} : files[file].keys = {}
  <2>1. \A file \in {ConfigYaml, DeployBlock} : files[file] \in {Content("config"), Content("block")}
    BY <1>6 DEF Put, ++
  <2> QED
    BY <2>1, NoKeys
<1>9. \A pub \in pubs : files[Secret(pub)] = Password
  BY DEF ++
<1>10. ASSUME NEW pub \in pubs
       PROVE  files[VotingKeystore(pub)].keys = {pub}
  <2>1. files[VotingKeystore(pub)] = keys[VotingKeystore(pub)]
    BY <1>6 DEF ++
  <2>2. (CHOOSE a \in pubs : VotingKeystore(a) = VotingKeystore(pub)) = pub
    BY <1>5
  <2>3. keys[VotingKeystore(pub)] = Keystore({pub})
    BY <2>2
  <2> QED
    BY <2>1, <2>3, NoKeys
<1> HIDE DEF files, keys, secrets
<1>11. Placed(s)
  BY <1>2, <1>3, <1>7, PathsInData, AccountPathsInData DEF Placed
<1>12. ASSUME NEW flag \in DOMAIN s.input
       PROVE  s.input[flag] = Data
  BY <1>2, EmptyDomain DEF Entry, ++
<1>13. IsPrefix(Data, ConfigYaml)
  BY Paths, FilePrefix
<1>14. Reads(s, config.accounts)
  BY <1>3, <1>7, <1>12, <1>13 DEF Reads
<1>15. Usable(files) = pubs
  <2>1. ASSUME NEW file \in DOMAIN files, NEW pub \in files[file].keys
        PROVE  /\ pub \in pubs
               /\ PasswordOf(file, pub) \in DOMAIN files
               /\ files[PasswordOf(file, pub)] = Password
    <3>1. PICK a \in pubs : file = VotingKeystore(a)
      BY <1>7, <1>8, <1>9, NoKeys
    <3>2. pub = a
      BY <1>10, <3>1
    <3>3. PasswordOf(file, pub) = Secret(pub)
      BY <3>1, <3>2, LighthousePassword
    <3> QED
      BY <1>7, <1>9, <3>2, <3>3
  <2>2. \A pub \in pubs : \E file \in DOMAIN files : pub \in files[file].keys
    BY <1>7, <1>10
  <2> QED
    BY <2>1, <2>2, UsableFiles
<1>16. Calls(s, config.beacon[Api("Lighthouse")])
  BY <1>2, EmptyDomain DEF Calls, Api, Entry, ++
<1> QED
  BY <1>1, <1>2, <1>3, <1>11, <1>14, <1>15, <1>16 DEF pubs

\* What DeployValidator asks for.
LEMMA ValidatorSpecs ==
  ASSUME NEW client \in ClientNames, NEW config, NEW s, s = validatorsFactory(client, config),
         NEW S, config.accounts \in Seq(S)
  PROVE  /\ IsSpec(s) /\ s.type = "Validator" /\ s.client = client /\ s.retry = None
         /\ Placed(s) /\ Reads(s, config.accounts)
         /\ Usable(s.files) = ToSet(config.accounts)
         /\ Calls(s, config.beacon[Api(client)])
<1>1. CASE client = "Teku"
  <2>1. s = NewTekuValidator(config)
    BY <1>1, Zenon DEF validatorsFactory
  <2> QED
    BY <1>1, <2>1, TekuValidator
<1>2. CASE client = "Prysm"
  <2>1. s = NewPrysmValidator(config)
    BY <1>2, Zenon DEF validatorsFactory
  <2> QED
    BY <1>2, <2>1, PrysmValidator
<1>3. CASE client = "Lighthouse"
  <2>1. s = NewLighthouseValidator(config)
    BY <1>3, Zenon DEF validatorsFactory
  <2> QED
    BY <1>3, <2>1, LighthouseValidator
<1> QED
  BY <1>1, <1>2, <1>3 DEF ClientNames

-----------------------------------------------------------------------------
(* What a container finds in its mounts. *)

\* The path of a file below the directory that is mounted.
Rel(path) == SubSeq(path, Len(Data) + 1, Len(path))

LEMMA RelPath ==
  ASSUME NEW path, InData(path)
  PROVE  Data \o Rel(path) = path /\ IsPrefix(Data, path) /\ Len(path) \in Nat
<1>1. PICK S, rel : rel \in Seq(S) /\ path = Data \o rel
  BY DEF InData
<1>2. SubSeq(Data \o rel, 2, Len(Data \o rel)) = rel
  BY <1>1 DEF Data
<1>3. Len(Data) + 1 = 2
  BY DEF Data
<1>4. IsPrefix(Data, Data \o rel)
  BY <1>1 DEF Data, IsPrefix
<1>5. Len(Data \o rel) \in Nat
  BY <1>1 DEF Data
<1> QED
  BY <1>1, <1>2, <1>3, <1>4, <1>5 DEF Rel

\* The directories that are bound hold the files and no others.
Holds(dirs, binds, files) ==
    \/ DOMAIN binds = {} /\ DOMAIN files = {}
    \/ /\ DOMAIN binds = {Data}
       /\ \A path \in DOMAIN files : InData(path)
       /\ DOMAIN dirs[binds[Data]] = {Rel(path) : path \in DOMAIN files}
       /\ \A path \in DOMAIN files : dirs[binds[Data]][Rel(path)] = files[path]

LEMMA ContainerFiles ==
  ASSUME NEW id, NEW files, Holds(disk, containers[id].binds, files)
  PROVE  Files(id) = DOMAIN files /\ \A path \in DOMAIN files : FileAt(id, path) = files[path]
<1> DEFINE binds == containers[id].binds
           below(m) == {n \in DOMAIN binds : IsStrictPrefix(m, n)}
           seen(m) == {m \o rel : rel \in {r \in DOMAIN disk[binds[m]] :
                                              \A n \in below(m) : ~IsPrefix(n, m \o r)}}
<1>1. Files(id) = UNION {seen(m) : m \in DOMAIN binds}
  BY DEF Files
<1>2. CASE DOMAIN binds = {} /\ DOMAIN files = {}
  BY <1>1, <1>2
<1>3. CASE /\ DOMAIN binds = {Data}
           /\ \A path \in DOMAIN files : InData(path)
           /\ DOMAIN disk[binds[Data]] = {Rel(path) : path \in DOMAIN files}
           /\ \A path \in DOMAIN files : disk[binds[Data]][Rel(path)] = files[path]
  <2>1. below(Data) = {}
    BY <1>3 DEF IsStrictPrefix
  <2> DEFINE inside == DOMAIN disk[binds[Data]]
  <2>2. seen(Data) = {Data \o rel : rel \in inside}
    <3>1. {r \in inside : \A n \in below(Data) : ~IsPrefix(n, Data \o r)} = inside
      BY <2>1
    <3> QED
      BY <3>1
  <2>3. seen(Data) = DOMAIN files
    <3>1. \A path \in DOMAIN files : Rel(path) \in inside /\ Data \o Rel(path) = path
      BY <1>3, RelPath
    <3>2. \A rel \in inside : \E path \in DOMAIN files : rel = Rel(path)
      BY <1>3
    <3> HIDE DEF inside, seen
    <3>3. ASSUME NEW file \in seen(Data)
          PROVE  file \in DOMAIN files
      <4>1. PICK rel \in inside : file = Data \o rel
        BY <2>2
      <4> QED
        BY <3>1, <3>2, <4>1
    <3>4. ASSUME NEW file \in DOMAIN files
          PROVE  file \in seen(Data)
      <4>1. Rel(file) \in inside /\ file = Data \o Rel(file)
        BY <3>1
      <4> QED
        BY <2>2, <4>1
    <3> QED
      BY <3>3, <3>4
  <2>4. Files(id) = DOMAIN files
    <3> HIDE DEF seen, binds
    <3>1. {seen(m) : m \in DOMAIN binds} = {seen(Data)}
      BY <1>3
    <3>2. UNION {seen(Data)} = seen(Data)
      OBVIOUS
    <3> QED
      BY <1>1, <2>3, <3>1, <3>2
  <2>5. ASSUME NEW path \in DOMAIN files
        PROVE  FileAt(id, path) = files[path]
    <3> DEFINE closest(m) == /\ IsPrefix(m, path)
                             /\ \A n \in DOMAIN binds : IsPrefix(n, path) => Len(n) <= Len(m)
    <3>1. Len(Data) <= Len(Data)
      BY DEF Data
    <3>2. closest(Data)
      BY <1>3, <3>1, RelPath
    <3>3. (CHOOSE m \in DOMAIN binds : closest(m)) = Data
      BY <1>3, <3>2
    <3>4. FileAt(id, path) = disk[binds[Data]][SubSeq(path, Len(Data) + 1, Len(path))]
      BY <3>3 DEF FileAt
    <3> QED
      BY <1>3, <3>4 DEF Rel
  <2> QED
    BY <2>4, <2>5
<1> QED
  BY <1>2, <1>3 DEF Holds

LEMMA ContainerKeys ==
  ASSUME NEW id, NEW files, Holds(disk, containers[id].binds, files)
  PROVE  UsableKeys(id) = Usable(files)
<1>1. Files(id) = DOMAIN files /\ \A path \in DOMAIN files : FileAt(id, path) = files[path]
  BY ContainerFiles
<1> QED
  BY <1>1 DEF UsableKeys, Usable

-----------------------------------------------------------------------------
(* The specification that fits a request, and the container that is built from one. *)

RequestTypes == {"BootnodeV5", "BootnodeV4", "Eth1", "Beacon", "Validator"}

Fits(s, request) ==
    /\ IsSpec(s) /\ Placed(s) /\ Reads(s, request.accounts) /\ s.output = TRUE
    /\ request.type \in RequestTypes
    /\ s.type = "Beacon" <=> request.type = "Beacon"
    /\ s.type = "Validator" <=> request.type = "Validator"
    /\ request.type = "BootnodeV5" => s.retry = "record in the logs"
    /\ request.type = "BootnodeV4" => s.retry = "first line of the logs"
    /\ request.type = "Eth1" => s.repository = "client-go" /\ Offers(s, "eth1.http")
    /\ request.type = "Beacon" =>
          s.client \in ClientNames /\ Offers(s, Api(s.client)) /\ s.bootnode = "enr"
    /\ request.type = "Validator" => Usable(s.files) = ToSet(request.accounts)

Built(container, s) ==
    /\ container.repository = s.repository /\ container.type = s.type /\ container.client = s.client
    /\ container.input = s.input /\ container.dial = s.dial /\ container.bootnode = s.bootnode
    /\ container.listen = [flag \in DOMAIN s.listen |-> defPorts[s.listen[flag]]]

\* Its calls go to the address of a node that had one, at the port of the API.
Reaches(nodeHandles, created, dial, target) ==
    target # NoContainer =>
        /\ target \in DOMAIN nodeHandles
        /\ \A flag \in DOMAIN dial :
              dial[flag] = [ip   |-> nodeHandles[target].ip,
                            port |-> created[target].listen[ApiFlag(created[target].repository)]]

LEMMA OutputOnly ==
  ASSUME NEW s, IsSpec(s), NEW t, t = WithOutput(s)
  PROVE  /\ IsSpec(t) /\ t.output = TRUE
         /\ t.repository = s.repository /\ t.type = s.type /\ t.client = s.client
         /\ t.mount = s.mount /\ t.files = s.files /\ t.input = s.input /\ t.listen = s.listen
         /\ t.dial = s.dial /\ t.bootnode = s.bootnode /\ t.retry = s.retry
  BY DEF IsSpec, WithOutput, NewSpec

-----------------------------------------------------------------------------
(* The kinds of steps. *)

\* The node that is asked for, and the specification the builders make of it.
Asks(request, spec) ==
    \/ /\ nodes = <<>>
       /\ request = Request("BootnodeV5", None, <<>>, NoContainer) /\ spec = NewBootnodeV5
    \/ /\ Len(nodes) = 1
       /\ request = Request("BootnodeV4", None, <<>>, NoContainer) /\ spec = NewBootnodeV4
    \/ /\ Len(nodes) = 2
       /\ request = Request("Eth1", None, <<>>, NoContainer)
       /\ spec = NewEth1Server([key |-> MinerKey, bootnode |-> enode])
    \/ \E client \in ClientNames :
          /\ Len(nodes) >= Eth1
          /\ request = Request("Beacon", client, <<>>, nodes[Eth1])
          /\ spec = beaconFactory(client, [eth1     |-> GetAddr(nodes[Eth1])["eth1.http"],
                                           bootnode |-> enr])
    \/ \E client \in ClientNames, accounts \in AccountLists, i \in DOMAIN nodes :
          /\ containers[nodes[i]].type = "Beacon" /\ containers[nodes[i]].client = client
          /\ request = Request("Validator", client, accounts, nodes[i])
          /\ spec = validatorsFactory(client, [accounts |-> accounts, beacon |-> GetAddr(nodes[i])])

AskKind == \E request, spec : DeployNode(request, spec) /\ Asks(request, spec)

SameNodes == UNCHANGED <<nodes, enr, enode>>

\* Containers stop, and the goroutines of the nodes end.
QuietKind ==
    /\ UNCHANGED <<containers, addr, disk, call, asked, purpose>> /\ SameNodes
    /\ running' \subseteq running
    /\ DOMAIN handles' = DOMAIN handles
    /\ \A id \in DOMAIN handles :
          \/ handles'[id] = handles[id]
          \/ \E state \in {"exited", "error"} : handles'[id] = [handles[id] EXCEPT !.waiter = state]
          \/ handles'[id] = [handles[id] EXCEPT !.tracker = "ended"]

\* The call goes on, or fails, and does nothing else, unless its container was to be started.
MoveKind ==
    /\ UNCHANGED <<containers, disk, handles, asked, purpose>> /\ SameNodes
    /\ addr' = addr \/ (Started /\ call'.at = "failed")
    /\ call'.spec = call.spec /\ call'.mountMap = call.mountMap /\ call'.id = call.id
    /\ \/ call.at \notin {"idle", "failed"} /\ call'.at = "failed"
       \/ call.at = "image" /\ call'.at = "create"
       \/ call.at = "retry" /\ call'.at = "retry"
       \/ call.at = "retry" /\ call'.at = "ok" /\ call'.found \in RetryResults

\* The steps of Deploy that make something.
MakeKind ==
    /\ SameNodes /\ asked' = asked
    /\ \/ MakeMounts /\ purpose' = purpose
       \/ WriteFiles /\ Goto("image") /\ purpose' = purpose
       \/ CreateContainer /\ purpose' = Append(purpose, asked)
       \/ StartContainer /\ purpose' = purpose
       \/ InspectContainer /\ purpose' = purpose

LEMMA MovesOn ==
  ASSUME StageInv, NEW label, call' = [call EXCEPT !.at = label]
  PROVE  /\ call'.at = label /\ call'.spec = call.spec /\ call'.mountMap = call.mountMap
         /\ call'.id = call.id /\ call'.found = call.found
  BY DEF StageInv, Idle

LEMMA DriverKinds ==
  ASSUME StageInv, HandlesInv, Step
  PROVE  QuietKind \/ MoveKind \/ MakeKind
<1>1. SameNodes /\ asked' = asked /\ DockerStep /\ Len(containers) \in Nat
  BY LengthTyped DEF Step, SameNodes
<1>2. containers' = containers => purpose' = purpose
  BY <1>1 DEF Step
<1>3. CASE PrepareImage \/ NodeStopped \/ GiveUp \/ ApiError \/ (WriteFiles /\ ~Goto("image"))
  <2>1. UNCHANGED <<containers, disk, handles>> /\ (addr' = addr \/ (ApiError /\ Started))
    BY <1>3, ErrorOrStart DEF PrepareImage, NodeStopped, GiveUp, WriteFiles, Fail, daemon, engine
  <2>2. /\ call.at \notin {"idle", "failed"}
        /\ \/ call' = [call EXCEPT !.at = "failed"]
           \/ call.at = "image" /\ call' = [call EXCEPT !.at = "create"]
    BY <1>3, ErrorOrStart DEF PrepareImage, NodeStopped, GiveUp, WriteFiles, Fail, Goto, At
  <2>3. ApiError => call' = [call EXCEPT !.at = "failed"]
    BY ErrorOrStart
  <2> QED
    BY <1>1, <1>2, <2>1, <2>2, <2>3, MovesOn DEF MoveKind
<1>4. CASE Poll
  <2>1. PICK found \in RetryResults : call' = [call EXCEPT !.at = "ok", !.found = found]
    BY <1>4 DEF Poll
  <2>2. /\ call'.spec = call.spec /\ call'.mountMap = call.mountMap /\ call'.id = call.id
        /\ call'.at = "ok" /\ call'.found = found
    BY <2>1 DEF StageInv, Idle
  <2>3. call.at = "retry" /\ UNCHANGED <<containers, running, addr, disk, handles>>
    BY <1>4 DEF Poll, At, daemon, engine
  <2> QED
    BY <1>1, <1>2, <2>2, <2>3 DEF MoveKind
<1>5. CASE Expire
  <2>1. /\ call'.spec = call.spec /\ call'.mountMap = call.mountMap /\ call'.id = call.id
        /\ call'.at = "retry"
    BY <1>5 DEF Expire, At, StageInv, Idle
  <2>2. call.at = "retry" /\ UNCHANGED <<containers, running, addr, disk, handles>>
    BY <1>5 DEF Expire, At, daemon, engine
  <2> QED
    BY <1>1, <1>2, <2>1, <2>2 DEF MoveKind
<1>6. ASSUME NEW id \in DOMAIN handles, Follow(id) \/ WaitError(id) \/ LogsError(id)
      PROVE  QuietKind
  <2>1. UNCHANGED <<containers, running, addr, disk, call>>
    BY <1>6 DEF Follow, CloseWaitCh, LogsEnd, WaitError, LogsError, daemon, engine
  <2>2. DOMAIN handles[id] = {"ip", "waiter", "tracker"}
    BY DEF HandlesInv
  <2>3. \/ \E state \in {"exited", "error"} : handles' = [handles EXCEPT ![id].waiter = state]
        \/ handles' = [handles EXCEPT ![id].tracker = "ended"]
    BY <1>6 DEF Follow, CloseWaitCh, LogsEnd, WaitError, LogsError
  <2>4. /\ DOMAIN handles' = DOMAIN handles
        /\ \A other \in DOMAIN handles \ {id} : handles'[other] = handles[other]
    BY <2>3
  <2>5. \/ \E state \in {"exited", "error"} : handles'[id] = [handles[id] EXCEPT !.waiter = state]
        \/ handles'[id] = [handles[id] EXCEPT !.tracker = "ended"]
    BY <2>3
  <2> QED
    BY <1>1, <1>2, <2>1, <2>4, <2>5 DEF QuietKind
<1>7. CASE ContainerReady \/ NodeExit
  <2>1. UNCHANGED <<containers, addr, disk, call, handles>> /\ running' \subseteq running
    BY <1>7 DEF ContainerReady, NodeExit, ContainerExit, driver, engine
  <2> QED
    BY <1>1, <1>2, <2>1 DEF QuietKind
<1>8. CASE MakeMounts \/ (WriteFiles /\ Goto("image")) \/ StartContainer \/ InspectContainer
  <2>1. containers' = containers
    BY <1>8 DEF MakeMounts, WriteFiles, Fail, StartContainer, ContainerStart, InspectContainer,
       daemon, engine
  <2> QED
    BY <1>1, <1>2, <1>8, <2>1 DEF MakeKind
<1>9. CASE CreateContainer
  <2>1. Len(containers') > Len(containers)
    <3>1. containers' = Append(containers, ContainerConfig)
      BY <1>9 DEF CreateContainer, ContainerCreate
    <3>2. Len(containers') = Len(containers) + 1
      BY <3>1, AppendLength DEF StageInv
    <3> QED
      BY <1>1, <3>2
  <2>2. purpose' = Append(purpose, asked)
    BY <2>1 DEF Step
  <2> QED
    BY <1>1, <1>9, <2>2 DEF MakeKind
<1> QED
  BY <1>1, <1>3, <1>4, <1>5, <1>6, <1>7, <1>8, <1>9 DEF DockerStep, DeployStep

LEMMA NextKinds ==
  ASSUME StageInv, HandlesInv, [Next]_vars
  PROVE  AskKind \/ QuietKind \/ MoveKind \/ MakeKind \/ Register \/ AnswerError
<1>1. CASE DeployBootnodeV5 \/ DeployBootnodeV4 \/ SetupEth1Network
  BY <1>1 DEF DeployBootnodeV5, DeployBootnodeV4, SetupEth1Network, AskKind, Asks
<1>2. ASSUME NEW client \in ClientNames,
             DeployBeacon(client) \/ \E accounts \in AccountLists : DeployValidator(client, accounts)
      PROVE  AskKind
  BY <1>2 DEF DeployBeacon, DeployValidator, AskKind, Asks
<1>3. CASE Step
  BY <1>3, DriverKinds
<1>4. CASE StopNode \/ Terminated \/ UNCHANGED vars
  <2>1. UNCHANGED <<containers, addr, disk, call, asked, purpose, handles>> /\ SameNodes
    BY <1>4 DEF StopNode, Stop, ContainerStop, Terminated, vars, docker, driver, daemon, engine, SameNodes
  <2>2. running' \subseteq running
    BY <1>4 DEF StopNode, Stop, ContainerStop, Terminated, vars, docker, daemon, engine
  <2> QED
    BY <2>1, <2>2 DEF QuietKind
<1> QED
  BY <1>1, <1>2, <1>3, <1>4 DEF Next

-----------------------------------------------------------------------------
(* The invariants. *)

Deploying == call.at \notin {"idle", "failed"}

SpecInv == Deploying => Fits(call.spec, asked)

\* How many containers, handles and nodes there are, and the address of each.
ShapeInv ==
    /\ Len(containers) <= MaxDeploys
    /\ call.at \in {"mounts", "files", "image", "create"} => Len(containers) < MaxDeploys
    /\ call.id \in 0..Len(containers)
    /\ DOMAIN addr \subseteq 1..Len(containers)
    /\ \A id \in DOMAIN addr : addr[id] \in 1..MaxDeploys
    /\ call.at = "start" => call.id \notin DOMAIN addr
    /\ call.at = "inspect" => call.id \in DOMAIN addr
    /\ call.at \in {"retry", "ok"} => call.id \in DOMAIN handles
    /\ DOMAIN handles \subseteq DOMAIN addr
    /\ \A id \in DOMAIN handles :
          handles[id] \in [ip      : 0..MaxDeploys,
                           waiter  : {"waiting", "exited", "error"},
                           tracker : {"following", "ended"}]
    /\ nodes \in Seq(DOMAIN handles)
    /\ \E S : purpose \in Seq(S)
    /\ Len(purpose) = Len(containers)

\* What the agent knows when it asks for the next node.
OrderInv ==
    /\ enr \in {None, "enr"} /\ enode \in {None, "enode"}
    /\ Len(nodes) >= 1 => enr = "enr"
    /\ Len(nodes) >= Eth1 => purpose[nodes[Eth1]].type = "Eth1"
    /\ \A id \in DOMAIN purpose : purpose[id].type = "Beacon" => Len(nodes) >= Eth1
    /\ Deploying =>
          /\ Len(nodes) = 0 => asked.type = "BootnodeV5"
          /\ Len(nodes) = 2 => asked.type = "Eth1"
          /\ asked.type = "Beacon" => Len(nodes) >= Eth1
    /\ call.at \in {"start", "inspect", "retry", "ok"} => purpose[call.id] = asked
    /\ call.at = "ok" =>
          /\ asked.type = "BootnodeV5" => call.found = "enr"
          /\ asked.type = "BootnodeV4" => call.found \in {None, "enode"}

\* Every directory of TempDir belongs to one container, and has the files of its mount.
DiskInv ==
    /\ \E S : disk \in Seq(S)
    /\ \A m \in DOMAIN call.mountMap : call.mountMap[m] \in DOMAIN disk
    /\ \A id \in DOMAIN containers : \A m \in DOMAIN containers[id].binds :
          containers[id].binds[m] \in DOMAIN disk
    /\ call.at = "files" =>
          /\ DOMAIN call.mountMap = ToSet(call.spec.mount)
          /\ \A m \in DOMAIN call.mountMap :
                /\ DOMAIN disk[call.mountMap[m]] = {}
                /\ \A id \in DOMAIN containers : \A n \in DOMAIN containers[id].binds :
                      containers[id].binds[n] # call.mountMap[m]
    /\ call.at \in {"image", "create"} => Holds(disk, call.mountMap, call.spec.files)
    /\ \A id \in DOMAIN containers :
          \E s : /\ Fits(s, purpose[id]) /\ Built(containers[id], s)
                 /\ Holds(disk, containers[id].binds, s.files)

EndpointsInv ==
    /\ Deploying => Reaches(handles, containers, call.spec.dial, asked.target)
    /\ \A id \in DOMAIN containers : Reaches(handles, containers, containers[id].dial, purpose[id].target)

-----------------------------------------------------------------------------
(* What the agent asks for. *)

LEMMA OutputKeeps ==
  ASSUME NEW s, IsSpec(s), NEW t, t = WithOutput(s)
  PROVE  /\ Placed(s) => Placed(t)
         /\ \A accounts : Reads(s, accounts) => Reads(t, accounts)
         /\ \A port : Offers(s, port) => Offers(t, port)
         /\ \A address : Calls(s, address) => Calls(t, address)
<1>1. /\ t.repository = s.repository /\ t.mount = s.mount /\ t.files = s.files
      /\ t.input = s.input /\ t.listen = s.listen /\ t.dial = s.dial
  BY OutputOnly
<1>2. Placed(s) => Placed(t)
  BY <1>1 DEF Placed
<1>3. \A accounts : Reads(s, accounts) => Reads(t, accounts)
  BY <1>1 DEF Reads
<1>4. \A port : Offers(s, port) => Offers(t, port)
  BY <1>1 DEF Offers
<1>5. \A address : Calls(s, address) => Calls(t, address)
  BY <1>1 DEF Calls
<1> QED
  BY <1>2, <1>3, <1>4, <1>5

LEMMA PortsKnown ==
  \A id, port : port \in {"eth1.http", "eth2.http", "eth2.prysm.grpc"} =>
      GetAddr(id)[port] = [ip |-> handles[id].ip, port |-> defPorts[port]]
<1>1. {"eth1.http", "eth2.http", "eth2.prysm.grpc"} \subseteq DOMAIN defPorts
  BY DEF defPorts, Entry, ++
<1> QED
  BY <1>1 DEF GetAddr

LEMMA ApiPort ==
  ASSUME NEW container, NEW s, Built(container, s), NEW port, Offers(s, port)
  PROVE  container.listen[ApiFlag(container.repository)] = defPorts[port]
  BY DEF Built, Offers

\* What is known of a container from the node it was created for, and the other way round.
LEMMA ContainersServe ==
  ASSUME DiskInv, NEW id \in DOMAIN containers
  PROVE  /\ purpose[id].type = "Eth1" =>
               containers[id].listen[ApiFlag(containers[id].repository)] = defPorts["eth1.http"]
         /\ containers[id].type = "Beacon" =>
               /\ purpose[id].type = "Beacon" /\ containers[id].bootnode = "enr"
               /\ containers[id].listen[ApiFlag(containers[id].repository)]
                     = defPorts[Api(containers[id].client)]
<1>1. PICK s : Fits(s, purpose[id]) /\ Built(containers[id], s)
  BY DEF DiskInv
<1>2. /\ containers[id].type = s.type /\ containers[id].client = s.client
      /\ containers[id].bootnode = s.bootnode
  BY <1>1 DEF Built
<1>3. purpose[id].type = "Eth1" => Offers(s, "eth1.http")
  BY <1>1 DEF Fits
<1>4. s.type = "Beacon" =>
         purpose[id].type = "Beacon" /\ s.bootnode = "enr" /\ Offers(s, Api(s.client))
  BY <1>1 DEF Fits
<1> QED
  BY <1>1, <1>2, <1>3, <1>4, ApiPort

LEMMA RequestFields ==
  ASSUME NEW type, NEW client, NEW accounts, NEW target,
         NEW request, request = Request(type, client, accounts, target)
  PROVE  /\ request.type = type /\ request.client = client
         /\ request.accounts = accounts /\ request.target = target
  BY DEF Request

LEMMA AskedBootnode ==
  ASSUME NEW type \in {"BootnodeV5", "BootnodeV4"},
         NEW spec, spec = IF type = "BootnodeV5" THEN NewBootnodeV5 ELSE NewBootnodeV4,
         NEW request, request = Request(type, None, <<>>, NoContainer),
         NEW s, s = WithOutput(spec)
  PROVE  Fits(s, request) /\ Reaches(handles, containers, s.dial, request.target)
<1>1. /\ IsSpec(spec) /\ spec.type = "OtherType"
      /\ Placed(spec) /\ \A accounts : Reads(spec, accounts)
  BY Bootnodes
<1>2. /\ type = "BootnodeV5" => spec.retry = "record in the logs"
      /\ type = "BootnodeV4" => spec.retry = "first line of the logs"
  BY BootnodeRetries
<1>3. IsSpec(s) /\ s.output = TRUE /\ s.type = "OtherType" /\ s.retry = spec.retry
  BY <1>1, OutputOnly
<1>4. Placed(s) /\ Reads(s, request.accounts)
  BY <1>1, OutputKeeps
<1>5. request.type = type /\ request.target = NoContainer
  BY RequestFields
<1> QED
  BY <1>2, <1>3, <1>4, <1>5 DEF Fits, Reaches, RequestTypes

LEMMA AskedEth1 ==
  ASSUME NEW config, NEW request, request = Request("Eth1", None, <<>>, NoContainer),
         NEW s, s = WithOutput(NewEth1Server(config))
  PROVE  Fits(s, request) /\ Reaches(handles, containers, s.dial, request.target)
<1> DEFINE spec == NewEth1Server(config)
<1>1. /\ IsSpec(spec) /\ spec.type = "OtherType"
      /\ Placed(spec) /\ \A accounts : Reads(spec, accounts)
      /\ spec.repository = "client-go" /\ Offers(spec, "eth1.http")
  BY Eth1Server
<1> HIDE DEF spec
<1>2. IsSpec(s) /\ s.output = TRUE /\ s.type = "OtherType" /\ s.repository = "client-go"
  BY <1>1, OutputOnly DEF spec
<1>3. Placed(s) /\ Reads(s, request.accounts) /\ Offers(s, "eth1.http")
  BY <1>1, OutputKeeps DEF spec
<1>4. request.type = "Eth1" /\ request.target = NoContainer
  BY RequestFields
<1> QED
  BY <1>2, <1>3, <1>4 DEF Fits, Reaches, RequestTypes

LEMMA AskedBeacon ==
  ASSUME DiskInv, NEW client \in ClientNames,
         NEW target \in DOMAIN handles, target \in DOMAIN containers, purpose[target].type = "Eth1",
         NEW request, request = Request("Beacon", client, <<>>, target),
         NEW spec, spec = beaconFactory(client, [eth1     |-> GetAddr(target)["eth1.http"],
                                                 bootnode |-> "enr"]),
         NEW s, s = WithOutput(spec)
  PROVE  Fits(s, request) /\ Reaches(handles, containers, s.dial, request.target)
<1> DEFINE config == [eth1 |-> GetAddr(target)["eth1.http"], bootnode |-> "enr"]
<1>1. config.eth1 = GetAddr(target)["eth1.http"] /\ config.bootnode = "enr"
  OBVIOUS
<1> HIDE DEF config
<1>2. /\ IsSpec(spec) /\ spec.type = "Beacon" /\ spec.client = client /\ spec.bootnode = "enr"
      /\ Placed(spec) /\ \A accounts : Reads(spec, accounts)
      /\ Calls(spec, config.eth1) /\ Offers(spec, Api(client))
  BY <1>1, BeaconSpecs DEF config
<1>3. /\ IsSpec(s) /\ s.output = TRUE /\ s.type = "Beacon" /\ s.client = client
      /\ s.bootnode = "enr"
  BY <1>2, OutputOnly
<1>4. /\ Placed(s) /\ Reads(s, request.accounts)
      /\ Calls(s, config.eth1) /\ Offers(s, Api(client))
  BY <1>2, OutputKeeps
<1>5. request.type = "Beacon" /\ request.target = target
  BY RequestFields
<1>6. Fits(s, request)
  BY <1>3, <1>4, <1>5 DEF Fits, RequestTypes
<1>7. config.eth1 = [ip   |-> handles[target].ip,
                     port |-> containers[target].listen[ApiFlag(containers[target].repository)]]
  BY <1>1, PortsKnown, ContainersServe
<1> QED
  BY <1>4, <1>5, <1>6, <1>7 DEF Reaches, Calls

LEMMA AskedValidator ==
  ASSUME DiskInv, NEW client \in ClientNames, NEW accounts \in AccountLists,
         NEW target \in DOMAIN handles, target \in DOMAIN containers,
         containers[target].type = "Beacon", containers[target].client = client,
         NEW request, request = Request("Validator", client, accounts, target),
         NEW spec, spec = validatorsFactory(client, [accounts |-> accounts,
                                                     beacon   |-> GetAddr(target)]),
         NEW s, s = WithOutput(spec)
  PROVE  Fits(s, request) /\ Reaches(handles, containers, s.dial, request.target)
<1> DEFINE config == [accounts |-> accounts, beacon |-> GetAddr(target)]
<1>1. config.accounts = accounts /\ config.beacon = GetAddr(target)
  OBVIOUS
<1>2. config.accounts \in Seq(ToSet(accounts))
  BY <1>1, AccountsAssumption
<1> HIDE DEF config
<1>3. /\ IsSpec(spec) /\ spec.type = "Validator"
      /\ Placed(spec) /\ Reads(spec, accounts) /\ Usable(spec.files) = ToSet(accounts)
      /\ Calls(spec, config.beacon[Api(client)])
  BY <1>1, <1>2, ValidatorSpecs DEF config
<1>4. IsSpec(s) /\ s.output = TRUE /\ s.type = "Validator" /\ s.files = spec.files
  BY <1>3, OutputOnly
<1>5. Placed(s) /\ Reads(s, accounts) /\ Calls(s, config.beacon[Api(client)])
  BY <1>3, OutputKeeps
<1>6. request.type = "Validator" /\ request.target = target /\ request.accounts = accounts
  BY RequestFields
<1>7. Fits(s, request)
  BY <1>3, <1>4, <1>5, <1>6 DEF Fits, RequestTypes
<1>8. Api(client) \in {"eth1.http", "eth2.http", "eth2.prysm.grpc"}
  BY DEF Api
<1>9. config.beacon[Api(client)]
         = [ip   |-> handles[target].ip,
            port |-> containers[target].listen[ApiFlag(containers[target].repository)]]
  BY <1>1, <1>8, PortsKnown, ContainersServe
<1> QED
  BY <1>5, <1>6, <1>7, <1>9 DEF Reaches, Calls

LEMMA NodesAreContainers ==
  ASSUME StageInv, ShapeInv
  PROVE  /\ DOMAIN containers = 1..Len(containers) /\ DOMAIN purpose = 1..Len(containers)
         /\ Len(nodes) \in Nat /\ DOMAIN nodes = 1..Len(nodes)
         /\ DOMAIN handles \subseteq 1..Len(containers)
         /\ \A i \in DOMAIN nodes : nodes[i] \in DOMAIN handles /\ nodes[i] \in DOMAIN containers
<1>1. DOMAIN containers = 1..Len(containers)
  BY DEF StageInv
<1>2. DOMAIN purpose = 1..Len(containers)
  BY DEF ShapeInv
<1>3. nodes \in Seq(DOMAIN handles) /\ DOMAIN handles \subseteq 1..Len(containers)
  BY DEF ShapeInv
<1> QED
  BY <1>1, <1>2, <1>3

LEMMA AsksFit ==
  ASSUME StageInv, ShapeInv, OrderInv, DiskInv, NEW request, NEW spec, Asks(request, spec),
         NEW s, s = WithOutput(spec)
  PROVE  /\ Fits(s, request) /\ Reaches(handles, containers, s.dial, request.target)
         /\ Len(nodes) = 0 => request.type = "BootnodeV5"
         /\ Len(nodes) = 2 => request.type = "Eth1"
         /\ request.type = "Beacon" => Len(nodes) >= Eth1
<1>1. Len(nodes) \in Nat /\ (nodes = <<>> <=> Len(nodes) = 0)
  BY NodesAreContainers DEF ShapeInv
<1>2. CASE /\ nodes = <<>>
           /\ request = Request("BootnodeV5", None, <<>>, NoContainer) /\ spec = NewBootnodeV5
  <2>1. Fits(s, request) /\ Reaches(handles, containers, s.dial, request.target)
    BY <1>2, AskedBootnode
  <2> QED
    BY <1>1, <1>2, <2>1, RequestFields
<1>3. CASE /\ Len(nodes) = 1
           /\ request = Request("BootnodeV4", None, <<>>, NoContainer) /\ spec = NewBootnodeV4
  <2>1. Fits(s, request) /\ Reaches(handles, containers, s.dial, request.target)
    BY <1>3, AskedBootnode
  <2> QED
    BY <1>3, <2>1, RequestFields
<1>4. CASE /\ Len(nodes) = 2
           /\ request = Request("Eth1", None, <<>>, NoContainer)
           /\ spec = NewEth1Server([key |-> MinerKey, bootnode |-> enode])
  <2>1. Fits(s, request) /\ Reaches(handles, containers, s.dial, request.target)
    BY <1>4, AskedEth1
  <2> QED
    BY <1>4, <2>1, RequestFields
<1>5. ASSUME NEW client \in ClientNames,
             Len(nodes) >= Eth1,
             request = Request("Beacon", client, <<>>, nodes[Eth1]),
             spec = beaconFactory(client, [eth1     |-> GetAddr(nodes[Eth1])["eth1.http"],
                                           bootnode |-> enr])
      PROVE  /\ Fits(s, request) /\ Reaches(handles, containers, s.dial, request.target)
             /\ Len(nodes) # 0 /\ Len(nodes) # 2
  <2>1. /\ Eth1 \in DOMAIN nodes /\ Len(nodes) >= 1
        /\ Len(nodes) # 0 /\ Len(nodes) # 2
    BY <1>1, <1>5, NodesAreContainers DEF Eth1
  <2>2. /\ nodes[Eth1] \in DOMAIN handles /\ nodes[Eth1] \in DOMAIN containers
        /\ purpose[nodes[Eth1]].type = "Eth1" /\ enr = "enr"
    BY <1>5, <2>1, NodesAreContainers DEF OrderInv
  <2> QED
    BY <1>5, <2>1, <2>2, AskedBeacon
<1>6. ASSUME NEW client \in ClientNames, NEW accounts \in AccountLists, NEW i \in DOMAIN nodes,
             containers[nodes[i]].type = "Beacon", containers[nodes[i]].client = client,
             request = Request("Validator", client, accounts, nodes[i]),
             spec = validatorsFactory(client, [accounts |-> accounts, beacon |-> GetAddr(nodes[i])])
      PROVE  /\ Fits(s, request) /\ Reaches(handles, containers, s.dial, request.target)
             /\ Len(nodes) # 0 /\ Len(nodes) # 2 /\ request.type = "Validator"
  <2>1. nodes[i] \in DOMAIN handles /\ nodes[i] \in DOMAIN containers /\ nodes[i] \in DOMAIN purpose
    BY NodesAreContainers
  <2>2. Fits(s, request) /\ Reaches(handles, containers, s.dial, request.target)
    BY <1>6, <2>1, AskedValidator
  <2>3. purpose[nodes[i]].type = "Beacon"
    BY <1>6, <2>1, ContainersServe
  <2>4. Len(nodes) # 0 /\ Len(nodes) # 2
    BY <1>1, <2>1, <2>3 DEF OrderInv, Eth1
  <2> QED
    BY <1>6, <2>2, <2>4, RequestFields
<1>7. ASSUME NEW client \in ClientNames, NEW target, request = Request("Beacon", client, <<>>, target)
      PROVE  request.type = "Beacon"
  BY <1>7, RequestFields
<1> QED
  BY <1>2, <1>3, <1>4, <1>5, <1>6, <1>7 DEF Asks

-----------------------------------------------------------------------------
(* What the kinds of steps do to the call. *)

LEMMA AskMoves ==
  ASSUME NEW request, NEW spec, DeployNode(request, spec)
  PROVE  /\ call.at = "idle" /\ call'.at = "mounts" /\ call'.spec = WithOutput(spec)
         /\ DOMAIN call'.mountMap = {} /\ call'.id = NoContainer
         /\ asked' = request /\ UNCHANGED <<containers, running, addr, disk, handles, purpose>>
         /\ SameNodes /\ Len(containers) < MaxDeploys
<1>1. /\ call.at = "idle" /\ call' = [Idle EXCEPT !.at = "mounts", !.spec = WithOutput(spec)]
      /\ asked' = request /\ UNCHANGED <<containers, running, addr, disk, handles, purpose>>
      /\ SameNodes /\ Len(containers) < MaxDeploys
  BY DEF DeployNode, Deploy, At, daemon, engine, SameNodes
<1>2. /\ call'.at = "mounts" /\ call'.spec = WithOutput(spec)
      /\ call'.mountMap = <<>> /\ call'.id = NoContainer
  BY <1>1 DEF Idle
<1> QED
  BY <1>1, <1>2, EmptyDomain

LEMMA MountsMove ==
  ASSUME StageInv, MakeMounts
  PROVE  /\ call.at = "mounts" /\ call'.at = "files" /\ call'.spec = call.spec /\ call'.id = call.id
         /\ call'.mountMap = [m \in ToSet(call.spec.mount) |->
                Len(disk) + (CHOOSE i \in DOMAIN call.spec.mount : call.spec.mount[i] = m)]
         /\ disk' = disk \o [i \in DOMAIN call.spec.mount |-> <<>>]
         /\ UNCHANGED <<containers, running, addr, handles>>
<1>1. /\ call.at = "mounts"
      /\ disk' = disk \o [i \in DOMAIN call.spec.mount |-> <<>>]
      /\ UNCHANGED <<containers, running, addr, handles>>
  BY DEF MakeMounts, At, daemon, engine
<1>2. call' = [call EXCEPT !.at = "files",
                           !.mountMap = [m \in ToSet(call.spec.mount) |->
                Len(disk) + (CHOOSE i \in DOMAIN call.spec.mount : call.spec.mount[i] = m)]]
  BY DEF MakeMounts
<1> QED
  BY <1>1, <1>2 DEF StageInv, Idle

LEMMA WritesMove ==
  ASSUME StageInv, WriteFiles, Goto("image")
  PROVE  /\ call.at = "files" /\ call'.at = "image" /\ call'.spec = call.spec /\ call'.id = call.id
         /\ call'.mountMap = call.mountMap
         /\ UNCHANGED <<containers, running, addr, handles>>
<1>1. call.at = "files" /\ UNCHANGED <<containers, running, addr, handles>>
  BY DEF WriteFiles, Fail, At, daemon, engine
<1>2. call' = [call EXCEPT !.at = "image"]
  BY DEF Goto
<1> QED
  BY <1>1, <1>2, MovesOn

LEMMA CreateMoves ==
  ASSUME StageInv, CreateContainer
  PROVE  /\ call.at = "create" /\ call'.at = "start" /\ call'.spec = call.spec
         /\ call'.id = Len(containers) + 1 /\ call'.mountMap = call.mountMap
         /\ containers' = Append(containers, ContainerConfig)
         /\ UNCHANGED <<running, addr, handles, disk>>
<1>1. /\ call.at = "create" /\ containers' = Append(containers, ContainerConfig)
      /\ UNCHANGED <<running, addr, handles, disk>>
  BY DEF CreateContainer, ContainerCreate, At
<1>2. call' = [call EXCEPT !.at = "start", !.id = NextContainer]
  BY DEF CreateContainer
<1>3. /\ call'.at = "start" /\ call'.spec = call.spec /\ call'.id = NextContainer
      /\ call'.mountMap = call.mountMap
  BY <1>2 DEF StageInv, Idle
<1> QED
  BY <1>1, <1>3 DEF NextContainer

LEMMA StartMoves ==
  ASSUME StageInv, StartContainer
  PROVE  /\ call.at = "start" /\ call'.at = "inspect" /\ call'.spec = call.spec /\ call'.id = call.id
         /\ call'.mountMap = call.mountMap
         /\ running' = running \cup {call.id} /\ addr' = Put(addr, call.id, FreeIP)
         /\ UNCHANGED <<containers, handles, disk>>
<1>1. /\ call.at = "start" /\ call' = [call EXCEPT !.at = "inspect"]
      /\ running' = running \cup {call.id} /\ addr' = Put(addr, call.id, FreeIP)
      /\ UNCHANGED <<containers, handles, disk>>
  BY DEF StartContainer, ContainerStart, Goto, At
<1> QED
  BY <1>1, MovesOn

LEMMA InspectMoves ==
  ASSUME StageInv, InspectContainer
  PROVE  /\ call.at = "inspect" /\ call'.at \in {"retry", "ok"} /\ call'.spec = call.spec
         /\ call'.at = "ok" => call.spec.retry = None
         /\ call'.id = call.id /\ call'.mountMap = call.mountMap
         /\ handles' = Put(handles, call.id, NewNode(IPAddress(call.id)))
         /\ UNCHANGED <<containers, running, addr, disk>>
<1>1. /\ call.at = "inspect" /\ handles' = Put(handles, call.id, NewNode(IPAddress(call.id)))
      /\ UNCHANGED <<containers, running, addr, disk>>
  BY DEF InspectContainer, At, daemon, engine
<1>2. PICK label \in {"retry", "ok"} : /\ call' = [call EXCEPT !.at = label]
                                       /\ label = "ok" => call.spec.retry = None
  BY Zenon DEF InspectContainer, Goto
<1> QED
  BY <1>1, <1>2, MovesOn

LEMMA EndMoves ==
  ASSUME Register \/ AnswerError
  PROVE  /\ call'.at = "idle" /\ DOMAIN call'.mountMap = {} /\ call'.id = NoContainer
         /\ UNCHANGED <<containers, running, addr, disk, handles, purpose>>
<1>1. call' = Idle /\ UNCHANGED <<containers, running, addr, disk, handles, purpose>>
  BY DEF Register, AnswerError, daemon, engine
<1> QED
  BY <1>1, EmptyDomain DEF Idle
\* Nothing but the agent's request changes what is asked for.
LEMMA RequestKept ==
  ASSUME StageInv, QuietKind \/ MoveKind \/ MakeKind \/ Register \/ AnswerError, Deploying'
  PROVE  Deploying /\ call'.spec = call.spec /\ asked' = asked
<1>1. CASE QuietKind
  BY <1>1 DEF QuietKind, Deploying
<1>2. CASE MoveKind
  BY <1>2 DEF MoveKind, Deploying
<1>3. CASE MakeKind
  <2>1. asked' = asked
    BY <1>3 DEF MakeKind
  <2>2. call.at \in {"mounts", "files", "create", "start", "inspect"} /\ call'.spec = call.spec
    BY <1>3, MountsMove, WritesMove, CreateMoves, StartMoves, InspectMoves DEF MakeKind
  <2> QED
    BY <2>1, <2>2 DEF Deploying
<1>4. CASE Register \/ AnswerError
  BY <1>4, EndMoves DEF Deploying
<1> QED
  BY <1>1, <1>2, <1>3, <1>4

LEMMA InitSpec == Init => SpecInv
  BY DEF Init, DockerInit, Idle, SpecInv, Deploying

LEMMA NextSpec ==
  ASSUME StageInv, HandlesInv, ShapeInv, OrderInv, DiskInv, SpecInv, [Next]_vars
  PROVE  SpecInv'
<1>1. CASE AskKind
  <2>1. PICK request, spec : DeployNode(request, spec) /\ Asks(request, spec)
    BY <1>1 DEF AskKind
  <2>2. call'.spec = WithOutput(spec) /\ asked' = request
    BY <2>1, AskMoves
  <2>3. Fits(WithOutput(spec), request)
    BY <2>1, AsksFit
  <2> QED
    BY <2>2, <2>3 DEF SpecInv
<1>2. CASE QuietKind \/ MoveKind \/ MakeKind \/ Register \/ AnswerError
  BY <1>2, RequestKept DEF SpecInv
<1> QED
  BY <1>1, <1>2, NextKinds

-----------------------------------------------------------------------------
(* Everything there is has its type. *)

LEMMA InitShape == Init => ShapeInv
<1> SUFFICES ASSUME Init PROVE ShapeInv
  OBVIOUS
<1>1. /\ containers = <<>> /\ addr = <<>> /\ handles = <<>> /\ nodes = <<>> /\ purpose = <<>>
      /\ call.at = "idle" /\ call.id = 0
  BY DEF Init, DockerInit, Idle, NoContainer
<1>2. <<>> \in Seq(DOMAIN handles)
  OBVIOUS
<1> QED
  BY <1>1, <1>2, EmptyDomain, EmptyIsSeq, DeploysAssumption DEF ShapeInv

LEMMA IntervalSize ==
  ASSUME NEW n \in Nat
  PROVE  IsFiniteSet(1..n) /\ Cardinality(1..n) = n
  BY FS_Interval

\* With one container that does not run, the addresses up to their number are enough.
LEMMA FreeIPIsLow ==
  ASSUME Len(containers) \in Nat, running \subseteq 1..Len(containers),
         NEW new \in 1..Len(containers), new \notin running
  PROVE  FreeIP \in 1..Len(containers)
<1> DEFINE n      == Len(containers)
           others == (1..n) \ {new}
           ips    == 1..n
<1>1. IsFiniteSet(ips) /\ Cardinality(ips) = n
  BY IntervalSize
<1>2. IsFiniteSet(others) /\ Cardinality(others) = n - 1
  BY <1>1, FS_RemoveElement
<1>3. running \subseteq others
  OBVIOUS
<1>4. IsFiniteSet(running) /\ Cardinality(running) <= n - 1
  <2> HIDE DEF others
  <2> QED
    BY <1>2, <1>3, FS_Subset
<1>5. PICK ip \in ips : \A id \in running : addr[id] # ip
  <2>1. SUFFICES ASSUME \A ip \in ips : \E id \in running : addr[id] = ip
                 PROVE  FALSE
    OBVIOUS
  <2> DEFINE holder == [ip \in ips |-> CHOOSE id \in running : addr[id] = ip]
  <2>2. \A ip \in ips : holder[ip] \in running /\ addr[holder[ip]] = ip
    BY <2>1
  <2>3. holder \in [ips -> running]
    BY <2>2
  <2>4. Cardinality(running) \in Nat
    BY <1>4, FS_CardinalityType
  <2>5. Cardinality(running) < Cardinality(ips)
    BY <1>1, <1>4, <2>4
  <2> HIDE DEF holder, ips
  <2>6. \E x, y \in ips : x # y /\ holder[x] = holder[y]
    BY <1>1, <1>4, <2>3, <2>5, FS_PigeonHole
  <2> QED
    BY <2>2, <2>6
<1> DEFINE first(f) == /\ \A id \in running : addr[id] # f
                       /\ \A low \in 1..(f - 1) : \E id \in running : addr[id] = low
<1>6. \E f \in 1..(n + 1) : first(f)
  <2> DEFINE free == {f \in ips : \A id \in running : addr[id] # f}
  <2>1. free # {}
    BY <1>5
  <2>2. free \subseteq Nat
    OBVIOUS
  <2> HIDE DEF free
  <2>3. PICK f \in free : \A low \in free : f <= low
    BY <2>1, <2>2, LeastNatural
  <2>4. f \in ips /\ \A id \in running : addr[id] # f
    BY DEF free
  <2>5. ASSUME NEW low \in 1..(f - 1)
        PROVE  \E id \in running : addr[id] = low
    <3>1. low \in ips /\ ~(f <= low)
      BY <2>4
    <3> QED
      BY <2>3, <3>1 DEF free
  <2> QED
    BY <2>4, <2>5
<1>7. FreeIP \in 1..(n + 1) /\ first(FreeIP)
  <2>1. FreeIP = CHOOSE f \in 1..(n + 1) : first(f)
    BY DEF FreeIP
  <2> HIDE DEF first
  <2> QED
    BY <1>6, <2>1
<1>8. ~(ip \in 1..(FreeIP - 1))
  BY <1>5, <1>7
<1> QED
  BY <1>5, <1>7, <1>8

LEMMA QuietHandles ==
  ASSUME HandlesInv, QuietKind
  PROVE  DOMAIN handles' = DOMAIN handles /\ \A id \in DOMAIN handles : handles'[id].ip = handles[id].ip
  BY DEF HandlesInv, QuietKind

HandleType ==
    [ip : 0..MaxDeploys, waiter : {"waiting", "exited", "error"}, tracker : {"following", "ended"}]

LEMMA HandleTypes ==
  /\ \A h \in HandleType : /\ \A state \in {"exited", "error"} : [h EXCEPT !.waiter = state] \in HandleType
                           /\ [h EXCEPT !.tracker = "ended"] \in HandleType
  /\ \A ip \in 0..MaxDeploys : call.spec.output = TRUE => NewNode(ip) \in HandleType
<1>1. \A h \in HandleType : /\ \A state \in {"exited", "error"} : [h EXCEPT !.waiter = state] \in HandleType
                            /\ [h EXCEPT !.tracker = "ended"] \in HandleType
  BY DEF HandleType
<1>2. \A ip \in 0..MaxDeploys : call.spec.output = TRUE => NewNode(ip) \in HandleType
  BY DEF HandleType, NewNode
<1> QED
  BY <1>1, <1>2

LEMMA SeqGrows ==
  ASSUME NEW S, NEW T, S \subseteq T, NEW s \in Seq(S)
  PROVE  s \in Seq(T)
  OBVIOUS

\* Steps that make no container, no address, no handle and no node.
LEMMA ShapeKept ==
  ASSUME ShapeInv, UNCHANGED <<containers, addr, handles, nodes, purpose>>,
         call'.id \in {call.id, 0},
         call'.at \in {"mounts", "files", "image", "create"} => Len(containers) < MaxDeploys,
         call'.at \notin {"start", "inspect"},
         call'.at \in {"retry", "ok"} => call.at = "retry" /\ call'.id = call.id
  PROVE  ShapeInv'
<1>1. Len(containers) \in Nat => 0 \in 0..Len(containers)
  OBVIOUS
<1>2. call'.id \in 0..Len(containers)
  BY DEF ShapeInv
<1>3. call'.at \in {"retry", "ok"} => call'.id \in DOMAIN handles
  BY DEF ShapeInv
<1> QED
  BY <1>2, <1>3 DEF ShapeInv

LEMMA StartShape ==
  ASSUME StageInv, HandlesInv, AddressInv, ShapeInv, Started, UNCHANGED <<nodes, purpose>>,
         call'.at \in {"inspect", "failed"}, call'.id = call.id
  PROVE  ShapeInv'
<1>1. /\ call.at = "start" /\ call'.at \in {"inspect", "failed"} /\ call'.id = call.id
      /\ addr' = Put(addr, call.id, FreeIP) /\ UNCHANGED <<containers, handles>>
  BY DEF Started
<1>2. call.id \in 1..Len(containers) /\ call.id \notin running
  BY <1>1 DEF HandlesInv, ShapeInv, AddressInv
<1>3. FreeIP \in 1..MaxDeploys
  <2>1. FreeIP \in 1..Len(containers)
    BY <1>2, FreeIPIsLow, LengthTyped DEF AddressInv
  <2> QED
    BY <2>1, LengthTyped, DeploysAssumption DEF ShapeInv
<1>4. /\ DOMAIN addr' = DOMAIN addr \cup {call.id} /\ addr'[call.id] = FreeIP
      /\ \A id \in DOMAIN addr \ {call.id} : addr'[id] = addr[id]
  BY <1>1 DEF Put
<1>5. /\ DOMAIN addr' \subseteq 1..Len(containers') /\ DOMAIN handles' \subseteq DOMAIN addr'
      /\ \A id \in DOMAIN addr' : addr'[id] \in 1..MaxDeploys
  BY <1>1, <1>2, <1>3, <1>4 DEF ShapeInv
<1> QED
  BY <1>1, <1>4, <1>5 DEF ShapeInv

LEMMA InspectShape ==
  ASSUME StageInv, HandlesInv, AddressInv, ShapeInv, SpecInv, InspectContainer,
         UNCHANGED <<nodes, purpose>>
  PROVE  ShapeInv'
<1>1. /\ call.at = "inspect" /\ call'.at \in {"retry", "ok"} /\ call'.id = call.id
      /\ handles' = Put(handles, call.id, NewNode(IPAddress(call.id)))
      /\ UNCHANGED <<containers, addr>>
  BY InspectMoves
<1>2. call.id \in DOMAIN addr
  BY <1>1 DEF ShapeInv
<1>3. IPAddress(call.id) \in 0..MaxDeploys
  BY <1>2, DeploysAssumption DEF IPAddress, NoIP, ShapeInv
<1>4. call.spec.output = TRUE
  BY <1>1 DEF SpecInv, Fits, Deploying
<1>5. NewNode(IPAddress(call.id)) \in HandleType
  BY <1>3, <1>4, HandleTypes
<1>6. /\ DOMAIN handles' = DOMAIN handles \cup {call.id}
      /\ \A id \in DOMAIN handles' : handles'[id] \in HandleType
  BY <1>1, <1>5 DEF Put, ShapeInv, HandleType
<1>7. nodes' \in Seq(DOMAIN handles')
  BY <1>6, SeqGrows DEF ShapeInv
<1> QED
  BY <1>1, <1>2, <1>6, <1>7 DEF ShapeInv, HandleType

LEMMA CreateShape ==
  ASSUME StageInv, ShapeInv, CreateContainer, UNCHANGED nodes, purpose' = Append(purpose, asked)
  PROVE  ShapeInv'
<1>1. /\ call.at = "create" /\ call'.at = "start" /\ call'.id = Len(containers) + 1
      /\ containers' = Append(containers, ContainerConfig) /\ UNCHANGED <<addr, handles>>
  BY CreateMoves
<1>2. Len(containers) \in Nat /\ Len(containers') = Len(containers) + 1
  BY <1>1, LengthTyped, AppendLength DEF StageInv
<1>3. Len(purpose') = Len(purpose) + 1 /\ \E S : purpose' \in Seq(S)
  BY AppendLength DEF ShapeInv
<1>4. 1..Len(containers) \subseteq 1..Len(containers')
  BY <1>2
<1>5. call'.id \notin 1..Len(containers)
  BY <1>1, <1>2
<1>6. Len(containers) < MaxDeploys
  BY <1>1 DEF ShapeInv
<1>7. /\ Len(containers') <= MaxDeploys /\ call'.id \in 0..Len(containers')
      /\ Len(purpose') = Len(containers')
  BY <1>1, <1>2, <1>3, <1>6, DeploysAssumption DEF ShapeInv
<1> QED
  BY <1>1, <1>3, <1>4, <1>5, <1>7 DEF ShapeInv

LEMMA NextShape ==
  ASSUME StageInv, HandlesInv, AddressInv, ShapeInv, SpecInv, [Next]_vars
  PROVE  ShapeInv'
<1>1. CASE AskKind
  <2>1. PICK request, spec : DeployNode(request, spec)
    BY <1>1 DEF AskKind
  <2>2. /\ call'.at = "mounts" /\ call'.id = 0 /\ Len(containers) < MaxDeploys
        /\ UNCHANGED <<containers, addr, handles, nodes, purpose>>
    BY <2>1, AskMoves DEF NoContainer, SameNodes
  <2> QED
    BY <2>2, ShapeKept
<1>2. CASE QuietKind
  <2>1. UNCHANGED <<containers, addr, call, nodes, purpose>> /\ DOMAIN handles' = DOMAIN handles
    BY <1>2 DEF QuietKind, SameNodes
  <2>2. ASSUME NEW id \in DOMAIN handles
        PROVE  handles'[id] \in HandleType
    <3>1. handles[id] \in HandleType
      BY DEF ShapeInv, HandleType
    <3>2. \/ handles'[id] = handles[id]
          \/ \E state \in {"exited", "error"} : handles'[id] = [handles[id] EXCEPT !.waiter = state]
          \/ handles'[id] = [handles[id] EXCEPT !.tracker = "ended"]
      BY <1>2 DEF QuietKind
    <3> QED
      BY <3>1, <3>2, HandleTypes
  <2> QED
    BY <2>1, <2>2 DEF ShapeInv, HandleType
<1>3. CASE MoveKind
  <2>1. UNCHANGED <<containers, handles, nodes, purpose>> /\ call'.id = call.id
    BY <1>3 DEF MoveKind, SameNodes
  <2>2. /\ call'.at \in {"mounts", "files", "image", "create"} => Len(containers) < MaxDeploys
        /\ call'.at \notin {"start", "inspect"}
        /\ call'.at \in {"retry", "ok"} => call.at = "retry"
    BY <1>3 DEF MoveKind, ShapeInv
  <2>3. CASE addr' = addr
    BY <2>1, <2>2, <2>3, ShapeKept
  <2>4. CASE Started /\ call'.at = "failed"
    BY <2>1, <2>4, StartShape
  <2> QED
    BY <1>3, <2>3, <2>4 DEF MoveKind
<1>4. CASE MakeKind
  <2>1. CASE (MakeMounts \/ (WriteFiles /\ Goto("image"))) /\ purpose' = purpose
    <3>1. /\ UNCHANGED <<containers, addr, handles, nodes, purpose>> /\ call'.id = call.id
          /\ call'.at \in {"files", "image"} /\ Len(containers) < MaxDeploys
      BY <1>4, <2>1, MountsMove, WritesMove DEF MakeKind, SameNodes, ShapeInv
    <3> QED
      BY <3>1, ShapeKept
  <2>2. CASE StartContainer /\ purpose' = purpose
    <3>1. Started /\ call'.at = "inspect" /\ call'.id = call.id /\ UNCHANGED <<nodes, purpose>>
      BY <1>4, <2>2, StartMoves DEF MakeKind, SameNodes, Started
    <3> QED
      BY <3>1, StartShape
  <2> QED
    BY <1>4, <2>1, <2>2, CreateShape, InspectShape DEF MakeKind, SameNodes
<1>5. CASE Register
  <2>1. /\ UNCHANGED <<containers, addr, handles, purpose>> /\ call'.at = "idle" /\ call'.id = 0
    BY <1>5, EndMoves DEF NoContainer
  <2>2. nodes' = Append(nodes, call.id) /\ call.at = "ok"
    BY <1>5 DEF Register, At
  <2>3. nodes' \in Seq(DOMAIN handles')
    BY <2>1, <2>2 DEF ShapeInv
  <2>4. 0 \in 0..Len(containers)
    BY LengthTyped
  <2> QED
    BY <2>1, <2>3, <2>4 DEF ShapeInv
<1>6. CASE AnswerError
  <2>1. /\ UNCHANGED <<containers, addr, handles, purpose, nodes>> /\ call'.at = "idle" /\ call'.id = 0
    BY <1>6, EndMoves DEF NoContainer, AnswerError
  <2> QED
    BY <2>1, ShapeKept
<1> QED
  BY <1>1, <1>2, <1>3, <1>4, <1>5, <1>6, NextKinds

-----------------------------------------------------------------------------
(* The order of the first nodes, and the record of the bootnode. *)

LEMMA RecordIsSome == "enr" # None /\ "record in the logs" # None /\ "first line of the logs" # None
<1>1. "enr" # None
  BY Zenon DEF None
<1>2. "record in the logs" # None
  BY Zenon DEF None
<1>3. "first line of the logs" # None
  BY Zenon DEF None
<1> QED
  BY <1>1, <1>2, <1>3

LEMMA RecordFound ==
  ASSUME call.spec.retry = "record in the logs", NEW found \in RetryResults
  PROVE  found = "enr"
<1>1. RetryResults = IF call.id \in ready THEN {"enr"} ELSE {}
  BY Zenon DEF RetryResults
<1> QED
  BY <1>1

LEMMA LineFound ==
  ASSUME call.spec.retry = "first line of the logs", NEW found \in RetryResults
  PROVE  found \in {None, "enode"}
<1>1. RetryResults = {None} \cup IF call.id \in ready THEN {"enode"} ELSE {}
  BY Zenon DEF RetryResults
<1> QED
  BY <1>1

LEMMA AppendEntries ==
  ASSUME NEW S, NEW s \in Seq(S), NEW x
  PROVE  /\ Len(Append(s, x)) = Len(s) + 1
         /\ DOMAIN Append(s, x) = 1..(Len(s) + 1) /\ DOMAIN s = 1..Len(s)
         /\ Append(s, x)[Len(s) + 1] = x
         /\ \A i \in 1..Len(s) : Append(s, x)[i] = s[i]
<1>1. Append(s, x) \in Seq(S \cup {x}) /\ Len(Append(s, x)) = Len(s) + 1
  BY AppendLength
<1>2. Append(s, x)[Len(s) + 1] = x /\ \A i \in 1..Len(s) : Append(s, x)[i] = s[i]
  OBVIOUS
<1> QED
  BY <1>1, <1>2

LEMMA InitOrder == Init => OrderInv
<1> SUFFICES ASSUME Init PROVE OrderInv
  OBVIOUS
<1>1. /\ nodes = <<>> /\ enr = None /\ enode = None /\ purpose = <<>> /\ call.at = "idle"
  BY DEF Init, DockerInit, Idle
<1> QED
  BY <1>1, EmptyDomain, EmptyIsSeq DEF OrderInv, Deploying, Eth1

\* Steps that leave the nodes and their purposes alone.
LEMMA OrderKept ==
  ASSUME OrderInv, UNCHANGED <<nodes, enr, enode, purpose>>,
         Deploying' => Deploying /\ asked' = asked,
         call'.at \in {"start", "inspect", "retry", "ok"} =>
             call.at \in {"start", "inspect", "retry", "ok"} /\ call'.id = call.id,
         call'.at = "ok" =>
             \/ call' = call
             \/ /\ asked.type = "BootnodeV5" => call'.found = "enr"
                /\ asked.type = "BootnodeV4" => call'.found \in {None, "enode"}
  PROVE  OrderInv'
<1>1. Deploying' <=> call'.at \notin {"idle", "failed"}
  BY DEF Deploying
<1>2. call'.at \in {"start", "inspect", "retry", "ok"} => purpose[call'.id] = asked'
  BY <1>1 DEF OrderInv
<1>3. call'.at = "ok" =>
          /\ asked'.type = "BootnodeV5" => call'.found = "enr"
          /\ asked'.type = "BootnodeV4" => call'.found \in {None, "enode"}
  BY <1>1 DEF OrderInv
<1>4. Deploying' =>
          /\ Len(nodes) = 0 => asked'.type = "BootnodeV5"
          /\ Len(nodes) = 2 => asked'.type = "Eth1"
          /\ asked'.type = "Beacon" => Len(nodes) >= Eth1
  BY DEF OrderInv
<1> QED
  BY <1>2, <1>3, <1>4 DEF OrderInv

LEMMA RegisterOrder ==
  ASSUME StageInv, ShapeInv, OrderInv, Register
  PROVE  OrderInv'
<1>1. /\ call.at = "ok" /\ nodes' = Append(nodes, call.id)
      /\ enr' = IF asked.type = "BootnodeV5" THEN call.found ELSE enr
      /\ enode' = IF asked.type = "BootnodeV4" THEN call.found ELSE enode
  BY DEF Register, At
<1>2. call'.at = "idle" /\ UNCHANGED purpose
  BY EndMoves
<1>3. PICK S : nodes \in Seq(S)
  BY DEF ShapeInv
<1>4. /\ Len(nodes) \in Nat /\ Len(nodes') = Len(nodes) + 1
      /\ nodes'[Len(nodes) + 1] = call.id /\ \A i \in 1..Len(nodes) : nodes'[i] = nodes[i]
  BY <1>1, <1>3, AppendEntries
<1>5. /\ enr' \in {None, "enr"} /\ enode' \in {None, "enode"}
      /\ asked.type = "BootnodeV5" => enr' = "enr"
  BY <1>1 DEF OrderInv
<1>6. enr' = "enr"
  <2>1. CASE asked.type = "BootnodeV5"
    BY <1>5, <2>1
  <2>2. CASE asked.type # "BootnodeV5"
    <3>1. Len(nodes) >= 1
      BY <1>1, <1>4, <2>2 DEF OrderInv, Deploying
    <3> QED
      BY <1>1, <2>2, <3>1 DEF OrderInv
  <2> QED
    BY <2>1, <2>2
<1>7. Len(nodes') >= Eth1 => purpose[nodes'[Eth1]].type = "Eth1"
  <2>1. CASE Len(nodes) >= Eth1
    BY <1>4, <2>1 DEF OrderInv, Eth1
  <2>2. CASE Len(nodes) = 2
    BY <1>1, <1>4, <2>2 DEF OrderInv, Eth1, Deploying
  <2>3. Len(nodes') >= 3 => Len(nodes) >= 3 \/ Len(nodes) = 2
    <3>1. \A n \in Nat : n + 1 >= 3 => n >= 3 \/ n = 2
      OBVIOUS
    <3>2. Len(nodes) \in Nat /\ Len(nodes') = Len(nodes) + 1
      BY <1>4
    <3> QED
      BY <3>1, <3>2
  <2> QED
    BY <2>1, <2>2, <2>3 DEF Eth1
<1>8. \A id \in DOMAIN purpose : purpose[id].type = "Beacon" => Len(nodes') >= Eth1
  BY <1>4 DEF OrderInv, Eth1
<1>9. ~Deploying'
  BY <1>2 DEF Deploying
<1> QED
  BY <1>2, <1>5, <1>6, <1>7, <1>8, <1>9 DEF OrderInv

LEMMA CreateOrder ==
  ASSUME StageInv, ShapeInv, OrderInv, CreateContainer, SameNodes, asked' = asked,
         purpose' = Append(purpose, asked)
  PROVE  OrderInv'
<1>1. call.at = "create" /\ call'.at = "start" /\ call'.id = Len(containers) + 1
  BY CreateMoves
<1>2. PICK S : purpose \in Seq(S)
  BY DEF ShapeInv
<1>3. /\ DOMAIN purpose = 1..Len(purpose) /\ DOMAIN purpose' = 1..(Len(purpose) + 1)
      /\ Len(purpose) = Len(containers) /\ Len(containers) \in Nat
      /\ purpose'[Len(purpose) + 1] = asked /\ \A id \in 1..Len(purpose) : purpose'[id] = purpose[id]
  BY <1>2, AppendEntries DEF ShapeInv
<1>4. purpose'[call'.id] = asked'
  BY <1>1, <1>3
<1>5. Len(nodes) >= Eth1 => purpose'[nodes[Eth1]].type = "Eth1"
  <2>1. Len(nodes) >= Eth1 => nodes[Eth1] \in 1..Len(containers)
    BY NodesAreContainers DEF Eth1
  <2> QED
    BY <1>3, <2>1 DEF OrderInv
<1>6. \A id \in DOMAIN purpose' : purpose'[id].type = "Beacon" => Len(nodes) >= Eth1
  <2>1. asked.type = "Beacon" => Len(nodes) >= Eth1
    BY <1>1 DEF OrderInv, Deploying
  <2>2. \A id \in DOMAIN purpose' : id \in DOMAIN purpose \/ id = Len(purpose) + 1
    BY <1>3
  <2> QED
    BY <1>3, <2>1, <2>2 DEF OrderInv
<1>7. Deploying
  BY <1>1 DEF Deploying
<1> QED
  BY <1>1, <1>4, <1>5, <1>6, <1>7 DEF OrderInv, SameNodes

LEMMA NextOrder ==
  ASSUME StageInv, HandlesInv, ShapeInv, DiskInv, SpecInv, OrderInv, [Next]_vars
  PROVE  OrderInv'
<1>1. CASE AskKind
  <2>1. PICK request, spec : DeployNode(request, spec) /\ Asks(request, spec)
    BY <1>1 DEF AskKind
  <2>2. call'.at = "mounts" /\ asked' = request /\ UNCHANGED <<nodes, enr, enode, purpose>>
    BY <2>1, AskMoves DEF SameNodes
  <2>3. /\ Len(nodes) = 0 => request.type = "BootnodeV5"
        /\ Len(nodes) = 2 => request.type = "Eth1"
        /\ request.type = "Beacon" => Len(nodes) >= Eth1
    BY <2>1, AsksFit
  <2> QED
    BY <2>2, <2>3 DEF OrderInv
<1>2. CASE QuietKind
  <2>1. UNCHANGED <<call, asked, nodes, enr, enode, purpose>>
    BY <1>2 DEF QuietKind, SameNodes
  <2> QED
    BY <2>1, OrderKept DEF Deploying
<1>3. CASE MoveKind
  <2>1. UNCHANGED <<asked, nodes, enr, enode, purpose>> /\ call'.id = call.id
    BY <1>3 DEF MoveKind, SameNodes
  <2>2. /\ Deploying' => Deploying
        /\ call'.at \in {"start", "inspect", "retry", "ok"} =>
               call.at \in {"start", "inspect", "retry", "ok"}
        /\ call'.at = "ok" => call.at = "retry" /\ call'.found \in RetryResults
    BY <1>3 DEF MoveKind, Deploying
  <2>3. call.at = "retry" =>
            /\ asked.type = "BootnodeV5" => call.spec.retry = "record in the logs"
            /\ asked.type = "BootnodeV4" => call.spec.retry = "first line of the logs"
    BY DEF SpecInv, Fits, Deploying
  <2>4. call'.at = "ok" =>
            /\ asked.type = "BootnodeV5" => call'.found = "enr"
            /\ asked.type = "BootnodeV4" => call'.found \in {None, "enode"}
    BY <2>2, <2>3, RecordFound, LineFound
  <2> QED
    BY <2>1, <2>2, <2>4, OrderKept
<1>4. CASE MakeKind
  <2>1. UNCHANGED <<asked, nodes, enr, enode>>
    BY <1>4 DEF MakeKind, SameNodes
  <2>2. CASE (MakeMounts \/ (WriteFiles /\ Goto("image")) \/ StartContainer) /\ purpose' = purpose
    <3>1. /\ call'.at \in {"files", "image", "inspect"} /\ call'.id = call.id /\ Deploying
          /\ call'.at = "inspect" => call.at = "start"
      BY <2>2, MountsMove, WritesMove, StartMoves DEF Deploying
    <3> QED
      BY <2>1, <2>2, <3>1, OrderKept
  <2>3. CASE InspectContainer /\ purpose' = purpose
    <3>1. /\ call.at = "inspect" /\ call'.at \in {"retry", "ok"} /\ call'.id = call.id /\ Deploying
          /\ call'.at = "ok" => call.spec.retry = None
      BY <2>3, InspectMoves DEF Deploying
    <3>2. /\ asked.type = "BootnodeV5" => call.spec.retry # None
          /\ asked.type = "BootnodeV4" => call.spec.retry # None
      BY <3>1, RecordIsSome DEF SpecInv, Fits
    <3> QED
      BY <2>1, <2>3, <3>1, <3>2, OrderKept
  <2> QED
    BY <1>4, <2>1, <2>2, <2>3, CreateOrder DEF MakeKind
<1>5. CASE AnswerError
  <2>1. call'.at = "idle" /\ UNCHANGED <<nodes, enr, enode, purpose>>
    BY <1>5, EndMoves DEF AnswerError
  <2> QED
    BY <2>1, OrderKept DEF Deploying
<1> QED
  BY <1>1, <1>2, <1>3, <1>4, <1>5, RegisterOrder, NextKinds

-----------------------------------------------------------------------------
(* The directories of the mounts. *)

LEMMA InitDisk == Init => DiskInv
<1> SUFFICES ASSUME Init PROVE DiskInv
  OBVIOUS
<1>1. disk = <<>> /\ containers = <<>> /\ call.mountMap = <<>> /\ call.at = "idle"
  BY DEF Init, DockerInit, Idle
<1> QED
  BY <1>1, EmptyDomain, EmptyIsSeq DEF DiskInv

LEMMA FunctionIsSeq ==
  ASSUME NEW n \in Nat, NEW f, f = [i \in 1..n |-> f[i]]
  PROVE  \E S : f \in Seq(S)
<1>1. f \in Seq({f[i] : i \in 1..n})
  OBVIOUS
<1> QED
  BY <1>1

\* What is bound to other directories holds what it held.
LEMMA HoldsKept ==
  ASSUME NEW dirs, NEW others, NEW binds, NEW files, Holds(dirs, binds, files),
         \A m \in DOMAIN binds : others[binds[m]] = dirs[binds[m]]
  PROVE  Holds(others, binds, files)
  BY DEF Holds

\* Every mount got an empty directory that was not there.
Made(mount, dirs, more, map) ==
    /\ \E T : more \in Seq(T)
    /\ DOMAIN dirs \subseteq DOMAIN more /\ \A d \in DOMAIN dirs : more[d] = dirs[d]
    /\ DOMAIN map = ToSet(mount)
    /\ \A m \in DOMAIN map : /\ map[m] \in DOMAIN more /\ map[m] \notin DOMAIN dirs
                             /\ DOMAIN more[map[m]] = {}

LEMMA NewDirectories ==
  ASSUME NEW mount, mount = <<>> \/ mount = <<Data>>,
         NEW dirs, \E S : dirs \in Seq(S),
         NEW more, more = dirs \o [i \in DOMAIN mount |-> <<>>],
         NEW map, map = [m \in ToSet(mount) |-> Len(dirs) + (CHOOSE i \in DOMAIN mount : mount[i] = m)]
  PROVE  Made(mount, dirs, more, map)
<1> DEFINE new == [i \in DOMAIN mount |-> <<>>]
<1>0. PICK S : dirs \in Seq(S)
  OBVIOUS
<1>1. new \in Seq({<<>>}) /\ Len(new) = Len(mount) /\ Len(mount) \in {0, 1}
  OBVIOUS
<1>2. more = dirs \o new /\ dirs \in Seq(S \cup {<<>>}) /\ new \in Seq(S \cup {<<>>})
  BY <1>0, <1>1
<1> HIDE DEF new
<1>3. /\ more \in Seq(S \cup {<<>>}) /\ Len(more) = Len(dirs) + Len(mount)
      /\ \A d \in 1..Len(dirs) : more[d] = dirs[d]
      /\ \A i \in 1..Len(mount) : more[Len(dirs) + i] = new[i]
  <2>1. more \in Seq(S \cup {<<>>}) /\ Len(more) = Len(dirs) + Len(new)
    BY <1>2
  <2>2. \A d \in 1..Len(dirs) : more[d] = dirs[d]
    BY <1>2
  <2>3. \A i \in 1..Len(new) : more[Len(dirs) + i] = new[i]
    BY <1>2
  <2> QED
    BY <1>1, <2>1, <2>2, <2>3
<1>4. DOMAIN dirs = 1..Len(dirs) /\ DOMAIN more = 1..(Len(dirs) + Len(mount)) /\ Len(dirs) \in Nat
  BY <1>1, <1>3
<1>5. DOMAIN dirs \subseteq DOMAIN more
  BY <1>1, <1>4
<1>6. DOMAIN map = ToSet(mount)
  OBVIOUS
<1>7. ASSUME NEW m \in DOMAIN map
      PROVE  map[m] = Len(dirs) + 1 /\ Len(mount) = 1
  <2>1. CASE mount = <<>>
    BY <1>6, <2>1 DEF ToSet
  <2>2. CASE mount = <<Data>>
    <3>1. DOMAIN mount = {1} /\ mount[1] = Data /\ Len(mount) = 1
      BY <2>2
    <3>2. m = Data
      BY <1>6, <3>1 DEF ToSet
    <3>3. (CHOOSE i \in DOMAIN mount : mount[i] = m) = 1
      BY <3>1, <3>2
    <3> QED
      BY <3>1, <3>3
  <2> QED
    BY <2>1, <2>2
<1>8. ASSUME NEW m \in DOMAIN map
      PROVE  /\ map[m] \in DOMAIN more /\ map[m] \notin DOMAIN dirs
             /\ DOMAIN more[map[m]] = {}
  <2>1. map[m] = Len(dirs) + 1 /\ Len(mount) = 1
    BY <1>7
  <2>2. new[1] = <<>>
    BY <1>1, <2>1 DEF new
  <2>3. more[map[m]] = <<>>
    BY <1>3, <2>1, <2>2
  <2>4. map[m] \in DOMAIN more /\ map[m] \notin DOMAIN dirs
    BY <1>4, <2>1
  <2> QED
    BY <2>3, <2>4, EmptyDomain
<1> QED
  BY <1>3, <1>4, <1>5, <1>6, <1>8 DEF Made

\* Where the files of a specification go.
LEMMA FilesWritten ==
  ASSUME StageInv, SpecInv, DiskInv, WriteFiles, Goto("image")
  PROVE  /\ \E S : disk' \in Seq(S)
         /\ DOMAIN disk' = DOMAIN disk
         /\ \A d \in DOMAIN disk :
               (\A m \in DOMAIN call.mountMap : call.mountMap[m] # d) => disk'[d] = disk[d]
         /\ Holds(disk', call.mountMap, call.spec.files)
<1> DEFINE files == call.spec.files
           map   == call.mountMap
<1>1. call.at = "files" /\ call'.at = "image"
  BY WritesMove
<1>2. Placed(call.spec) /\ DOMAIN map = ToSet(call.spec.mount)
  BY <1>1 DEF SpecInv, Deploying, Fits, DiskInv
<1>3. \A m \in DOMAIN map : map[m] \in DOMAIN disk /\ DOMAIN disk[map[m]] = {}
  BY <1>1 DEF DiskInv
<1>4. ~Goto("failed")
  <2>1. SUFFICES ASSUME Goto("failed") PROVE FALSE
    OBVIOUS
  <2>2. call'.at = "failed"
    BY <2>1, MovesOn DEF Goto
  <2> QED
    BY <1>1, <2>2
<1>5. PICK mount \in [DOMAIN files -> DOMAIN map] :
         /\ \A path \in DOMAIN files : IsPrefix(mount[path], path)
         /\ disk' = [d \in DOMAIN disk |->
               LET here == {p \in DOMAIN files : map[mount[p]] = d}
                   rel(p) == SubSeq(p, Len(mount[p]) + 1, Len(p))
               IN  IF here = {} THEN disk[d]
                   ELSE [r \in {rel(p) : p \in here} |-> files[CHOOSE p \in here : rel(p) = r]]]
  BY <1>4, Zenon DEF WriteFiles, Fail
<1>6. DOMAIN disk' = DOMAIN disk
  BY <1>5
<1>7. \E S : disk' \in Seq(S)
  <2>1. PICK n \in Nat : DOMAIN disk = 1..n
    BY DEF DiskInv
  <2>2. disk' = [d \in 1..n |-> disk'[d]]
    BY <1>5, <2>1
  <2> QED
    BY <2>2, FunctionIsSeq
<1> HIDE DEF files, map
<1>8. ASSUME NEW d \in DOMAIN disk, \A m \in DOMAIN map : map[m] # d
      PROVE  disk'[d] = disk[d]
  <2>1. {p \in DOMAIN files : map[mount[p]] = d} = {}
    BY <1>8
  <2> QED
    BY <1>5, <2>1
<1>9. CASE DOMAIN map = {}
  <2>1. DOMAIN files = {}
    BY <1>5, <1>9
  <2> QED
    BY <1>6, <1>7, <1>8, <1>9, <2>1 DEF Holds, files, map
<1>10. CASE DOMAIN map # {}
  <2>1. DOMAIN map = {Data} /\ \A path \in DOMAIN files : InData(path)
    <3>1. call.spec.mount = <<>> => DOMAIN map = {}
      BY <1>2 DEF ToSet
    <3>2. call.spec.mount = <<Data>> => DOMAIN map = {Data}
      BY <1>2 DEF ToSet
    <3> QED
      BY <1>2, <1>10, <3>1, <3>2 DEF Placed, files
  <2>2. \A p \in DOMAIN files : mount[p] = Data /\ SubSeq(p, Len(mount[p]) + 1, Len(p)) = Rel(p)
    BY <1>5, <2>1 DEF Rel
  <2>3. {p \in DOMAIN files : map[mount[p]] = map[Data]} = DOMAIN files
    BY <2>2
  <2>4. map[Data] \in DOMAIN disk /\ DOMAIN disk[map[Data]] = {}
    BY <1>3, <2>1 DEF map
  <2>5. \A p, q \in DOMAIN files : Rel(p) = Rel(q) => p = q
    <3>1. \A p \in DOMAIN files : Data \o Rel(p) = p
      BY <2>1, RelPath
    <3> QED
      BY <3>1
  <2>6. CASE DOMAIN files = {}
    <3>1. disk'[map[Data]] = disk[map[Data]]
      BY <1>5, <2>3, <2>4, <2>6
    <3>2. DOMAIN disk'[map[Data]] = {Rel(path) : path \in DOMAIN files}
      BY <2>4, <2>6, <3>1
    <3> QED
      BY <1>6, <1>7, <1>8, <2>1, <2>6, <3>2 DEF Holds, files, map
  <2>7. CASE DOMAIN files # {}
    <3>1. disk'[map[Data]] = [r \in {SubSeq(p, Len(mount[p]) + 1, Len(p)) : p \in DOMAIN files} |->
              files[CHOOSE p \in DOMAIN files : SubSeq(p, Len(mount[p]) + 1, Len(p)) = r]]
      <4> DEFINE write(here) ==
              IF here = {} THEN disk[map[Data]]
              ELSE [r \in {SubSeq(p, Len(mount[p]) + 1, Len(p)) : p \in here} |->
                       files[CHOOSE p \in here : SubSeq(p, Len(mount[p]) + 1, Len(p)) = r]]
      <4>1. disk'[map[Data]] = write({p \in DOMAIN files : map[mount[p]] = map[Data]})
        BY <1>5, <2>4
      <4>2. disk'[map[Data]] = write(DOMAIN files)
        <5> HIDE DEF write
        <5> QED
          BY <2>3, <4>1
      <4> QED
        BY <2>7, <4>2
    <3>2. {SubSeq(p, Len(mount[p]) + 1, Len(p)) : p \in DOMAIN files} = {Rel(p) : p \in DOMAIN files}
      BY <2>2
    <3>3. DOMAIN disk'[map[Data]] = {Rel(p) : p \in DOMAIN files}
      BY <3>1, <3>2
    <3>4. ASSUME NEW path \in DOMAIN files
          PROVE  disk'[map[Data]][Rel(path)] = files[path]
      <4>1. (CHOOSE p \in DOMAIN files : SubSeq(p, Len(mount[p]) + 1, Len(p)) = Rel(path)) = path
        BY <2>2, <2>5
      <4>2. Rel(path) \in {SubSeq(p, Len(mount[p]) + 1, Len(p)) : p \in DOMAIN files}
        BY <3>2
      <4> QED
        BY <3>1, <4>1, <4>2
    <3> QED
      BY <1>6, <1>7, <1>8, <2>1, <3>3, <3>4 DEF Holds, files, map
  <2> QED
    BY <2>6, <2>7
<1> QED
  BY <1>9, <1>10
\* Steps that touch neither a directory nor a container.
LEMMA DiskKept ==
  ASSUME DiskInv, UNCHANGED <<containers, disk, purpose>>, call'.at # "files",
         \A m \in DOMAIN call'.mountMap : m \in DOMAIN call.mountMap /\ call'.mountMap[m] = call.mountMap[m],
         call'.at \in {"image", "create"} =>
             /\ call.at \in {"image", "create"} /\ call'.spec = call.spec
             /\ call'.mountMap = call.mountMap
  PROVE  DiskInv'
<1>1. call'.at \in {"image", "create"} => Holds(disk, call'.mountMap, call'.spec.files)
  BY DEF DiskInv
<1> QED
  BY <1>1 DEF DiskInv

LEMMA MountsDisk ==
  ASSUME StageInv, SpecInv, DiskInv, MakeMounts, purpose' = purpose
  PROVE  DiskInv'
<1>1. /\ call.at = "mounts" /\ call'.at = "files" /\ call'.spec = call.spec
      /\ call'.mountMap = [m \in ToSet(call.spec.mount) |->
             Len(disk) + (CHOOSE i \in DOMAIN call.spec.mount : call.spec.mount[i] = m)]
      /\ disk' = disk \o [i \in DOMAIN call.spec.mount |-> <<>>]
      /\ containers' = containers
  BY MountsMove
<1>2. call.spec.mount \in {<<>>, <<Data>>}
  BY <1>1 DEF SpecInv, Deploying, Fits, Placed
<1>3. PICK S : disk \in Seq(S)
  BY DEF DiskInv
<1>4. /\ \E T : disk' \in Seq(T)
      /\ DOMAIN disk \subseteq DOMAIN disk' /\ \A d \in DOMAIN disk : disk'[d] = disk[d]
      /\ DOMAIN call'.mountMap = ToSet(call'.spec.mount)
      /\ \A m \in DOMAIN call'.mountMap :
            /\ call'.mountMap[m] \in DOMAIN disk' /\ call'.mountMap[m] \notin DOMAIN disk
            /\ DOMAIN disk'[call'.mountMap[m]] = {}
  <2>1. Made(call.spec.mount, disk, disk', call'.mountMap)
    BY <1>1, <1>2, <1>3, NewDirectories
  <2> QED
    BY <1>1, <2>1 DEF Made
<1>5. \A id \in DOMAIN containers : \A m \in DOMAIN containers[id].binds :
         containers[id].binds[m] \in DOMAIN disk
  BY DEF DiskInv
<1>6. \A id \in DOMAIN containers :
         \E s : /\ Fits(s, purpose[id]) /\ Built(containers[id], s)
                /\ Holds(disk', containers[id].binds, s.files)
  <2>1. SUFFICES ASSUME NEW id \in DOMAIN containers
                 PROVE  \E s : /\ Fits(s, purpose[id]) /\ Built(containers[id], s)
                               /\ Holds(disk', containers[id].binds, s.files)
    OBVIOUS
  <2>2. PICK s : /\ Fits(s, purpose[id]) /\ Built(containers[id], s)
                 /\ Holds(disk, containers[id].binds, s.files)
    BY DEF DiskInv
  <2>3. \A m \in DOMAIN containers[id].binds : disk'[containers[id].binds[m]] = disk[containers[id].binds[m]]
    BY <1>4, <1>5
  <2> QED
    BY <2>2, <2>3, HoldsKept
<1>7. \A m \in DOMAIN call'.mountMap : \A id \in DOMAIN containers :
         \A n \in DOMAIN containers[id].binds : containers[id].binds[n] # call'.mountMap[m]
  BY <1>4, <1>5
<1> QED
  BY <1>1, <1>4, <1>5, <1>6, <1>7 DEF DiskInv

LEMMA WritesDisk ==
  ASSUME StageInv, SpecInv, DiskInv, WriteFiles, Goto("image"), purpose' = purpose
  PROVE  DiskInv'
<1>1. /\ call.at = "files" /\ call'.at = "image" /\ call'.spec = call.spec
      /\ call'.mountMap = call.mountMap /\ containers' = containers
  BY WritesMove
<1>2. /\ \E S : disk' \in Seq(S)
      /\ DOMAIN disk' = DOMAIN disk
      /\ \A d \in DOMAIN disk :
            (\A m \in DOMAIN call.mountMap : call.mountMap[m] # d) => disk'[d] = disk[d]
      /\ Holds(disk', call.mountMap, call.spec.files)
  BY FilesWritten
<1>3. \A id \in DOMAIN containers : \A n \in DOMAIN containers[id].binds :
         /\ containers[id].binds[n] \in DOMAIN disk
         /\ \A m \in DOMAIN call.mountMap : containers[id].binds[n] # call.mountMap[m]
  BY <1>1 DEF DiskInv
<1>4. \A id \in DOMAIN containers :
         \E s : /\ Fits(s, purpose[id]) /\ Built(containers[id], s)
                /\ Holds(disk', containers[id].binds, s.files)
  <2>1. SUFFICES ASSUME NEW id \in DOMAIN containers
                 PROVE  \E s : /\ Fits(s, purpose[id]) /\ Built(containers[id], s)
                               /\ Holds(disk', containers[id].binds, s.files)
    OBVIOUS
  <2>2. PICK s : /\ Fits(s, purpose[id]) /\ Built(containers[id], s)
                 /\ Holds(disk, containers[id].binds, s.files)
    BY DEF DiskInv
  <2>3. \A m \in DOMAIN containers[id].binds : disk'[containers[id].binds[m]] = disk[containers[id].binds[m]]
    BY <1>2, <1>3
  <2> QED
    BY <2>2, <2>3, HoldsKept
<1>5. \A m \in DOMAIN call.mountMap : call.mountMap[m] \in DOMAIN disk
  BY DEF DiskInv
<1> QED
  BY <1>1, <1>2, <1>3, <1>4, <1>5 DEF DiskInv

LEMMA ConfigBuilt ==
  Built(ContainerConfig, call.spec) /\ ContainerConfig.binds = call.mountMap
  BY DEF Built, ContainerConfig

LEMMA CreateDisk ==
  ASSUME StageInv, ShapeInv, SpecInv, DiskInv, CreateContainer, purpose' = Append(purpose, asked)
  PROVE  DiskInv'
<1>1. /\ call.at = "create" /\ call'.at = "start" /\ call'.mountMap = call.mountMap
      /\ containers' = Append(containers, ContainerConfig) /\ disk' = disk
  BY CreateMoves
<1>2. PICK S : containers \in Seq(S)
  BY DEF StageInv
<1>3. PICK T : purpose \in Seq(T)
  BY DEF ShapeInv
<1>4. Len(purpose) = Len(containers) /\ Len(containers) \in Nat
  BY LengthTyped DEF ShapeInv
<1> DEFINE new == Len(containers) + 1
<1>5. /\ DOMAIN containers = 1..Len(containers) /\ DOMAIN containers' = 1..new
      /\ containers'[new] = ContainerConfig
      /\ \A id \in 1..Len(containers) : containers'[id] = containers[id]
  BY <1>1, <1>2, AppendEntries
<1>6. purpose'[new] = asked /\ \A id \in 1..Len(containers) : purpose'[id] = purpose[id]
  BY <1>3, <1>4, AppendEntries
<1>7. \A id \in DOMAIN containers' : id \in DOMAIN containers \/ id = new
  BY <1>4, <1>5
<1>8. \A m \in DOMAIN call.mountMap : call.mountMap[m] \in DOMAIN disk
  BY DEF DiskInv
<1>9. Fits(call.spec, asked) /\ Holds(disk, call.mountMap, call.spec.files)
  BY <1>1 DEF SpecInv, Deploying, DiskInv
<1> HIDE DEF new
<1>10. ASSUME NEW id \in DOMAIN containers'
       PROVE  /\ \A m \in DOMAIN containers'[id].binds : containers'[id].binds[m] \in DOMAIN disk
              /\ \E s : /\ Fits(s, purpose'[id]) /\ Built(containers'[id], s)
                        /\ Holds(disk, containers'[id].binds, s.files)
  <2>1. CASE id \in DOMAIN containers
    <3>1. containers'[id] = containers[id] /\ purpose'[id] = purpose[id]
      BY <1>5, <1>6, <2>1
    <3> QED
      BY <2>1, <3>1 DEF DiskInv
  <2>2. CASE id = new
    BY <1>5, <1>6, <1>8, <1>9, <2>2, ConfigBuilt
  <2> QED
    BY <1>7, <2>1, <2>2
<1> QED
  BY <1>1, <1>8, <1>10 DEF DiskInv

LEMMA NextDisk ==
  ASSUME StageInv, HandlesInv, ShapeInv, SpecInv, DiskInv, [Next]_vars
  PROVE  DiskInv'
<1>1. CASE AskKind
  <2>1. PICK request, spec : DeployNode(request, spec)
    BY <1>1 DEF AskKind
  <2>2. /\ call'.at = "mounts" /\ DOMAIN call'.mountMap = {}
        /\ UNCHANGED <<containers, disk, purpose>>
    BY <2>1, AskMoves
  <2> QED
    BY <2>2, DiskKept
<1>2. CASE QuietKind
  <2>1. UNCHANGED <<containers, disk, call, purpose>>
    BY <1>2 DEF QuietKind
  <2> QED
    BY <2>1 DEF DiskInv
<1>3. CASE MoveKind
  <2>1. /\ UNCHANGED <<containers, disk, purpose>> /\ call'.spec = call.spec
        /\ call'.mountMap = call.mountMap /\ call'.at \notin {"files", "image"}
        /\ call'.at = "create" => call.at = "image"
    BY <1>3 DEF MoveKind
  <2> QED
    BY <2>1, DiskKept
<1>4. CASE MakeKind
  <2>1. CASE (StartContainer \/ InspectContainer) /\ purpose' = purpose
    <3>1. /\ UNCHANGED <<containers, disk, purpose>> /\ call'.mountMap = call.mountMap
          /\ call'.at \in {"inspect", "retry", "ok"}
      BY <2>1, StartMoves, InspectMoves
    <3> QED
      BY <3>1, DiskKept
  <2> QED
    BY <1>4, <2>1, MountsDisk, WritesDisk, CreateDisk DEF MakeKind
<1>5. CASE Register \/ AnswerError
  <2>1. /\ call'.at = "idle" /\ DOMAIN call'.mountMap = {}
        /\ UNCHANGED <<containers, disk, purpose>>
    BY <1>5, EndMoves
  <2> QED
    BY <2>1, DiskKept
<1> QED
  BY <1>1, <1>2, <1>3, <1>4, <1>5, NextKinds

-----------------------------------------------------------------------------
(* The addresses the containers call. *)

LEMMA InitEndpoints == Init => EndpointsInv
<1> SUFFICES ASSUME Init PROVE EndpointsInv
  OBVIOUS
<1>1. containers = <<>> /\ call.at = "idle"
  BY DEF Init, DockerInit, Idle
<1> QED
  BY <1>1, EmptyDomain DEF EndpointsInv, Deploying

\* No handle loses its address, and no container its ports.
LEMMA StillReaches ==
  ASSUME \A id \in DOMAIN handles :
             /\ id \in DOMAIN handles' /\ handles'[id].ip = handles[id].ip
             /\ containers'[id] = containers[id]
  PROVE  \A dial, target : Reaches(handles, containers, dial, target) =>
                              Reaches(handles', containers', dial, target)
  BY DEF Reaches

LEMMA NextEndpoints ==
  ASSUME StageInv, HandlesInv, ShapeInv, SpecInv, OrderInv, DiskInv, EndpointsInv, [Next]_vars
  PROVE  EndpointsInv'
<1> DEFINE still == \A id \in DOMAIN handles :
                        /\ id \in DOMAIN handles' /\ handles'[id].ip = handles[id].ip
                        /\ containers'[id] = containers[id]
<1>1. still
  <2>1. CASE containers' = containers /\ UNCHANGED handles
    BY <2>1
  <2>2. CASE AskKind
    BY <2>1, <2>2, AskMoves DEF AskKind
  <2>3. CASE QuietKind
    BY <2>3, QuietHandles DEF QuietKind
  <2>4. CASE MoveKind
    BY <2>1, <2>4 DEF MoveKind
  <2>5. CASE MakeMounts \/ (WriteFiles /\ Goto("image")) \/ StartContainer \/ Register \/ AnswerError
    BY <2>1, <2>5, MountsMove, WritesMove, StartMoves, EndMoves
  <2>6. CASE InspectContainer
    <3>1. /\ handles' = Put(handles, call.id, NewNode(IPAddress(call.id)))
          /\ containers' = containers /\ call.at = "inspect"
      BY <2>6, InspectMoves
    <3>2. call.id \notin DOMAIN handles
      BY <3>1 DEF HandlesInv
    <3> QED
      BY <3>1, <3>2 DEF Put
  <2>7. CASE CreateContainer
    <3>1. UNCHANGED handles /\ containers' = Append(containers, ContainerConfig)
      BY <2>7, CreateMoves
    <3>2. DOMAIN handles \subseteq 1..Len(containers)
      BY DEF HandlesInv
    <3>3. \A id \in 1..Len(containers) : containers'[id] = containers[id]
      BY <3>1, AppendEntries DEF StageInv
    <3> QED
      BY <3>1, <3>2, <3>3
  <2> QED
    BY <2>2, <2>3, <2>4, <2>5, <2>6, <2>7, NextKinds DEF MakeKind
<1>2. \A dial, target : Reaches(handles, containers, dial, target) =>
                            Reaches(handles', containers', dial, target)
  BY <1>1, StillReaches
<1> HIDE DEF still
<1>3. Deploying' => Reaches(handles', containers', call'.spec.dial, asked'.target)
  <2>1. CASE AskKind
    <3>1. PICK request, spec : DeployNode(request, spec) /\ Asks(request, spec)
      BY <2>1 DEF AskKind
    <3>2. call'.spec = WithOutput(spec) /\ asked' = request
      BY <3>1, AskMoves
    <3>3. Reaches(handles, containers, WithOutput(spec).dial, request.target)
      BY <3>1, AsksFit
    <3> QED
      BY <1>2, <3>2, <3>3
  <2>2. CASE QuietKind \/ MoveKind \/ MakeKind \/ Register \/ AnswerError
    <3>1. SUFFICES ASSUME Deploying' PROVE Reaches(handles', containers', call'.spec.dial, asked'.target)
      OBVIOUS
    <3>2. Deploying /\ call'.spec = call.spec /\ asked' = asked
      BY <2>2, <3>1, RequestKept
    <3> QED
      BY <1>2, <3>2 DEF EndpointsInv
  <2> QED
    BY <2>1, <2>2, NextKinds
<1>4. \A id \in DOMAIN containers' : Reaches(handles', containers', containers'[id].dial, purpose'[id].target)
  <2>1. CASE UNCHANGED <<containers, purpose>>
    BY <1>2, <2>1 DEF EndpointsInv
  <2>2. CASE CreateContainer /\ purpose' = Append(purpose, asked)
    <3>1. call.at = "create" /\ containers' = Append(containers, ContainerConfig)
      BY <2>2, CreateMoves
    <3>2. PICK S : containers \in Seq(S)
      BY DEF StageInv
    <3>3. PICK T : purpose \in Seq(T)
      BY DEF ShapeInv
    <3>4. Len(purpose) = Len(containers) /\ Len(containers) \in Nat
      BY LengthTyped DEF ShapeInv
    <3> DEFINE new == Len(containers) + 1
    <3>5. /\ DOMAIN containers = 1..Len(containers) /\ DOMAIN containers' = 1..new
          /\ containers'[new] = ContainerConfig
          /\ \A id \in 1..Len(containers) : containers'[id] = containers[id]
      BY <3>1, <3>2, AppendEntries
    <3>6. purpose'[new] = asked /\ \A id \in 1..Len(containers) : purpose'[id] = purpose[id]
      BY <2>2, <3>3, <3>4, AppendEntries
    <3>7. \A id \in DOMAIN containers' : id \in DOMAIN containers \/ id = new
      BY <3>4, <3>5
    <3> HIDE DEF new
    <3>8. containers'[new].dial = call.spec.dial
      BY <3>5 DEF ContainerConfig
    <3>9. Reaches(handles', containers', call.spec.dial, asked.target)
      BY <1>2, <3>1 DEF EndpointsInv, Deploying
    <3>10. ASSUME NEW id \in DOMAIN containers
           PROVE  Reaches(handles', containers', containers'[id].dial, purpose'[id].target)
      <4>1. containers'[id] = containers[id] /\ purpose'[id] = purpose[id]
        BY <3>5, <3>6
      <4> QED
        BY <1>2, <4>1 DEF EndpointsInv
    <3> QED
      BY <3>6, <3>7, <3>8, <3>9, <3>10
  <2>3. CASE AskKind
    BY <2>1, <2>3, AskMoves DEF AskKind
  <2>4. CASE QuietKind \/ MoveKind
    BY <2>1, <2>4 DEF QuietKind, MoveKind
  <2>5. CASE MakeKind
    BY <2>1, <2>2, <2>5, MountsMove, WritesMove, StartMoves, InspectMoves DEF MakeKind
  <2> QED
    BY <2>1, <2>3, <2>4, <2>5, EndMoves, NextKinds
<1> QED
  BY <1>3, <1>4 DEF EndpointsInv

-----------------------------------------------------------------------------
(* The theorems. *)

EventsInv == events \in 0..MaxEvents

LEMMA InitEvents == Init => EventsInv
  BY EventsAssumption DEF Init, DockerInit, EventsInv

LEMMA NextEvents ==
  ASSUME EventsInv, [Next]_vars
  PROVE  EventsInv'
<1>1. events' = events \/ Event
  <2>1. CASE \/ DeployBootnodeV5 \/ DeployBootnodeV4 \/ SetupEth1Network
             \/ \E client \in ClientNames :
                   DeployBeacon(client) \/ \E accounts \in AccountLists : DeployValidator(client, accounts)
    <3>1. ASSUME NEW request, NEW spec, DeployNode(request, spec)
          PROVE  events' = events
      BY <3>1 DEF DeployNode, Deploy
    <3> QED
      BY <2>1, <3>1 DEF DeployBootnodeV5, DeployBootnodeV4, SetupEth1Network, DeployBeacon,
         DeployValidator
  <2>2. CASE Register \/ AnswerError \/ Terminated \/ UNCHANGED vars
    BY <2>2 DEF Register, AnswerError, Terminated, vars, docker
  <2>3. CASE StopNode \/ NodeExit \/ ApiError
    BY <2>3 DEF StopNode, Stop, NodeExit, ApiError
  <2>4. CASE MakeMounts \/ WriteFiles \/ PrepareImage \/ CreateContainer \/ StartContainer
    BY <2>4 DEF MakeMounts, WriteFiles, PrepareImage, CreateContainer, StartContainer, Fail
  <2>5. CASE InspectContainer \/ Poll \/ NodeStopped \/ GiveUp \/ Expire \/ ContainerReady
    BY <2>5 DEF InspectContainer, Poll, NodeStopped, GiveUp, Expire, ContainerReady, Fail
  <2>6. CASE \E id \in DOMAIN handles : Follow(id) \/ WaitError(id) \/ LogsError(id)
    BY <2>6 DEF Follow, CloseWaitCh, LogsEnd, WaitError, LogsError
  <2> QED
    BY <2>1, <2>2, <2>3, <2>4, <2>5, <2>6 DEF Next, Step, DockerStep, DeployStep
<1> QED
  BY <1>1, EventsAssumption DEF Event, EventsInv

ContainerInv ==
    /\ EventsInv /\ StageInv /\ HandlesInv /\ AddressInv /\ ShapeInv
    /\ SpecInv /\ OrderInv /\ DiskInv /\ EndpointsInv

LEMMA InitContainers == Init => ContainerInv
  BY InitEvents, InitStage, InitHandles, InitAddress, InitShape, InitSpec, InitOrder, InitDisk,
     InitEndpoints DEF ContainerInv

LEMMA NextContainers == ContainerInv /\ [Next]_vars => ContainerInv'
<1> SUFFICES ASSUME ContainerInv, [Next]_vars PROVE ContainerInv'
  OBVIOUS
<1>1. /\ EventsInv /\ StageInv /\ HandlesInv /\ AddressInv /\ ShapeInv
      /\ SpecInv /\ OrderInv /\ DiskInv /\ EndpointsInv
  BY DEF ContainerInv
<1>2. EventsInv' /\ StageInv'
  BY <1>1, NextEvents, StepImplements
<1>3. HandlesInv' /\ AddressInv'
  BY <1>1, <1>2, NextHandles, NextAddress
<1>4. ShapeInv' /\ SpecInv'
  BY <1>1, NextShape, NextSpec
<1>5. OrderInv' /\ DiskInv' /\ EndpointsInv'
  BY <1>1, NextOrder, NextDisk, NextEndpoints
<1> QED
  BY <1>2, <1>3, <1>4, <1>5 DEF ContainerInv

\* Deploy, the daemon and the agent keep their variables in their types, for any number of
\* containers and of failures: what runs has an address, what is a node has a handle, and the
\* directories that a call has bound exist (docker.go:61-201, server.go:104-146).
THEOREM TestnetTyped == Spec => []TypeOK
<1>1. ContainerInv => TypeOK
  <2> SUFFICES ASSUME ContainerInv PROVE TypeOK
    OBVIOUS
  <2>1. /\ EventsInv /\ StageInv /\ HandlesInv /\ AddressInv /\ ShapeInv
        /\ SpecInv /\ OrderInv /\ DiskInv /\ EndpointsInv
    BY DEF ContainerInv
  <2>2. DOMAIN containers = 1..Len(containers) /\ DOMAIN purpose = DOMAIN containers
    BY <2>1, NodesAreContainers
  <2>3. /\ Len(containers) <= MaxDeploys
        /\ running \subseteq DOMAIN addr /\ DOMAIN addr \subseteq DOMAIN containers
        /\ DOMAIN handles \subseteq DOMAIN addr
        /\ nodes \in Seq(DOMAIN handles)
        /\ call.id \in 0..Len(containers)
    BY <2>1, <2>2 DEF ShapeInv, AddressInv
  <2>4. \A id \in DOMAIN handles :
           handles[id] \in [ip      : 0..MaxDeploys,
                            waiter  : {"waiting", "exited", "error"},
                            tracker : {"following", "ended"}]
    BY <2>1 DEF ShapeInv
  <2>5. call.at \in Steps
    BY <2>1 DEF StageInv
  <2>6. \A m \in DOMAIN call.mountMap : call.mountMap[m] \in DOMAIN disk
    BY <2>1 DEF DiskInv
  <2>7. enr \in {None, "enr"} /\ enode \in {None, "enode"}
    BY <2>1 DEF OrderInv
  <2>8. events \in 0..MaxEvents
    BY <2>1 DEF EventsInv
  <2> QED
    BY <2>2, <2>3, <2>4, <2>5, <2>6, <2>7, <2>8 DEF TypeOK
<1> QED
  BY <1>1, InitContainers, NextContainers, PTL DEF Spec
\* Every file and directory that a container's command line names is in one of its mounts,
\* for any accounts and whichever directory WriteFiles took first (docker.go:85-112,
\* internal/components).
THEOREM InputsAreInContainers == Spec => []InputsAreThere
<1>1. ContainerInv => InputsAreThere
  <2> SUFFICES ASSUME ContainerInv, NEW id \in DOMAIN containers,
                      NEW flag \in DOMAIN containers[id].input
               PROVE  \/ \E file \in Files(id) : IsPrefix(containers[id].input[flag], file)
                      \/ /\ purpose[id].accounts = <<>>
                         /\ containers[id].input[flag] \in {Keys(<<>>), Passwords(<<>>)}
    BY DEF InputsAreThere
  <2>1. PICK s : /\ Fits(s, purpose[id]) /\ Built(containers[id], s)
                 /\ Holds(disk, containers[id].binds, s.files)
    BY DEF ContainerInv, DiskInv
  <2>2. Files(id) = DOMAIN s.files
    BY <2>1, ContainerFiles
  <2>3. containers[id].input = s.input /\ Reads(s, purpose[id].accounts)
    BY <2>1 DEF Fits, Built
  <2> QED
    BY <2>2, <2>3 DEF Reads
<1> QED
  BY <1>1, InitContainers, NextContainers, PTL DEF Spec

\* A validator client of any kind can open the keystores of all accounts of its tranche and of
\* no others, for any accounts (eth2_teku.go:71-80, eth2_prysm.go:63-100,
\* eth2_lighthouse.go:69-80).
THEOREM ValidatorsUseTheirKeys == Spec => []KeysAreOwn
<1>1. ContainerInv => KeysAreOwn
  <2> SUFFICES ASSUME ContainerInv, NEW id \in DOMAIN containers,
                      containers[id].type = "Validator"
               PROVE  UsableKeys(id) = ToSet(purpose[id].accounts)
    BY DEF KeysAreOwn
  <2>1. PICK s : /\ Fits(s, purpose[id]) /\ Built(containers[id], s)
                 /\ Holds(disk, containers[id].binds, s.files)
    BY DEF ContainerInv, DiskInv
  <2>2. UsableKeys(id) = Usable(s.files)
    BY <2>1, ContainerKeys
  <2>3. s.type = "Validator"
    BY <2>1 DEF Built
  <2>4. Usable(s.files) = ToSet(purpose[id].accounts)
    BY <2>1, <2>3 DEF Fits
  <2> QED
    BY <2>2, <2>4
<1> QED
  BY <1>1, InitContainers, NextContainers, PTL DEF Spec

\* What calls another container calls its address and the port of its API as long as it is up,
\* and a beacon node has the record the bootnode logged (server.go:133, 397-402, 455-459).
THEOREM CallersReachTheirTarget == Spec => []EndpointsReachTarget
<1>1. ContainerInv => EndpointsReachTarget
  <2> SUFFICES ASSUME ContainerInv, NEW id \in DOMAIN containers, NEW target,
                      target = purpose[id].target
               PROVE  /\ target \in running =>
                            \A flag \in DOMAIN containers[id].dial :
                                containers[id].dial[flag] =
                                    [ip   |-> addr[target],
                                     port |-> containers[target].listen[ApiFlag(containers[target].repository)]]
                      /\ containers[id].type = "Beacon" => containers[id].bootnode = enr /\ enr # None
    BY DEF EndpointsReachTarget
  <2>1. StageInv /\ ShapeInv /\ AddressInv /\ OrderInv /\ DiskInv /\ EndpointsInv
    BY DEF ContainerInv
  <2>2. Reaches(handles, containers, containers[id].dial, target)
    BY <2>1 DEF EndpointsInv
  <2>3. ASSUME target \in running, NEW flag \in DOMAIN containers[id].dial
        PROVE  containers[id].dial[flag] =
                   [ip   |-> addr[target],
                    port |-> containers[target].listen[ApiFlag(containers[target].repository)]]
    <3>1. target # NoContainer
      BY <2>1, <2>3, LengthTyped DEF AddressInv, NoContainer
    <3>2. target \in DOMAIN handles /\ handles[target].ip = addr[target]
      BY <2>1, <2>2, <2>3, <3>1 DEF Reaches, AddressInv
    <3> QED
      BY <2>2, <2>3, <3>1, <3>2 DEF Reaches
  <2>4. ASSUME containers[id].type = "Beacon"
        PROVE  containers[id].bootnode = enr /\ enr # None
    <3>1. purpose[id].type = "Beacon" /\ containers[id].bootnode = "enr"
      BY <2>1, <2>4, ContainersServe
    <3>2. id \in DOMAIN purpose /\ Len(nodes) \in Nat
      BY <2>1, NodesAreContainers
    <3>3. enr = "enr"
      BY <2>1, <3>1, <3>2 DEF OrderInv, Eth1
    <3> QED
      BY <3>1, <3>3, RecordIsSome
  <2> QED
    BY <2>3, <2>4
<1> QED
  BY <1>1, InitContainers, NextContainers, PTL DEF Spec
=============================================================================
