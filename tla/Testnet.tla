------------------------------- MODULE Testnet -------------------------------
(***************************************************************************)
(* The containers of a testnet: deployNode of internal/server/server.go    *)
(* with the builders (Components) and the driver (Docker) it calls.  Which *)
(* calls ask for which nodes, and how they compete, is module Server's.    *)
(* Here a deployment is what the agent may ask for next: the two bootnodes *)
(* and the eth1 node in that order, then beacon nodes, and validator       *)
(* clients that are connected to a beacon node of their own client.        *)
(*                                                                         *)
(* Definitions named ...Bug are faulty variants of the one that follows    *)
(* them: no specification uses them, they show that a property can fail.   *)
(***************************************************************************)
EXTENDS Docker

CONSTANTS AccountLists, \* the accounts of the tranches that validator clients may get
          MinerKey,     \* the key of NewDevGenesis
          MaxDeploys    \* bound: containers that are created

ASSUME AccountsAssumption == \A accounts \in AccountLists : accounts \in Seq(ToSet(accounts))
ASSUME DeploysAssumption  == MaxDeploys \in Nat

VARIABLES nodes,      \* Server.nodes
          enr, enode, \* Server.bootnodeENR and bootnodeEC
          asked,      \* the node the agent is deploying
          purpose     \* container -> the node it was created for

vars == <<docker, nodes, enr, enode, asked, purpose>>

Eth1 == 3

Request(type, client, accounts, target) ==
    [type |-> type, client |-> client, accounts |-> accounts, target |-> target]

NoRequest == Request(None, None, <<>>, NoContainer)

Init ==
    /\ DockerInit
    /\ nodes = <<>> /\ enr = None /\ enode = None
    /\ asked = NoRequest /\ purpose = <<>>

-----------------------------------------------------------------------------
\* deployNode up to the call of Deploy: the log file, and the labels every node has.
DeployNode(request, spec) ==
    /\ Len(containers) < MaxDeploys
    /\ Deploy(WithOutput(spec))
    /\ asked' = request
    /\ UNCHANGED <<nodes, enr, enode, purpose>>

DeployBootnodeV5 ==
    /\ nodes = <<>>
    /\ DeployNode(Request("BootnodeV5", None, <<>>, NoContainer), NewBootnodeV5)

DeployBootnodeV4 ==
    /\ Len(nodes) = 1
    /\ DeployNode(Request("BootnodeV4", None, <<>>, NoContainer), NewBootnodeV4)

SetupEth1Network ==
    /\ Len(nodes) = 2
    /\ DeployNode(Request("Eth1", None, <<>>, NoContainer),
                  NewEth1Server([key |-> MinerKey, bootnode |-> enode]))

DeployBeacon(client) ==
    /\ Len(nodes) >= Eth1
    /\ DeployNode(Request("Beacon", client, <<>>, nodes[Eth1]),
                  beaconFactory(client, [eth1     |-> GetAddr(nodes[Eth1])["eth1.http"],
                                         bootnode |-> enr]))

\* The first beacon node of the client, or the first of those the same call deployed.
DeployValidator(client, accounts) ==
    \E i \in DOMAIN nodes :
        /\ containers[nodes[i]].type = "Beacon"
        /\ containers[nodes[i]].client = client
        /\ DeployNode(Request("Validator", client, accounts, nodes[i]),
                      validatorsFactory(client, [accounts |-> accounts,
                                                 beacon   |-> GetAddr(nodes[i])]))

\* s.nodes = append(s.nodes, node); NewServer takes the address of a bootnode.
Register ==
    /\ At("ok")
    /\ nodes' = Append(nodes, call.id)
    /\ enr' = IF asked.type = "BootnodeV5" THEN call.found ELSE enr
    /\ enode' = IF asked.type = "BootnodeV4" THEN call.found ELSE enode
    /\ call' = Idle
    /\ asked' = NoRequest
    /\ UNCHANGED <<daemon, disk, handles, events, purpose>>

\* Registers the node before it looks at the error.
AnswerErrorBug ==
    /\ At("failed")
    /\ Len(nodes) >= Eth1
    /\ nodes' = Append(nodes, call.id)
    /\ call' = Idle
    /\ asked' = NoRequest
    /\ UNCHANGED <<daemon, disk, handles, events, enr, enode, purpose>>

\* The call is answered with an error; without one of its first nodes the agent ends.
AnswerError ==
    /\ At("failed")
    /\ Len(nodes) >= Eth1
    /\ call' = Idle
    /\ asked' = NoRequest
    /\ UNCHANGED <<daemon, disk, handles, events, nodes, enr, enode, purpose>>

Step ==
    /\ DockerStep
    /\ purpose' = IF Len(containers') > Len(containers) THEN Append(purpose, asked) ELSE purpose
    /\ UNCHANGED <<nodes, enr, enode, asked>>

\* A step of the goroutines of a node.
FollowNode(id) ==
    /\ id \in DOMAIN handles
    /\ Follow(id)
    /\ UNCHANGED <<nodes, enr, enode, asked, purpose>>

\* Server.Stop, or docker stop by hand.
StopNode ==
    /\ \E i \in DOMAIN nodes : Stop(nodes[i])
    /\ UNCHANGED <<nodes, enr, enode, asked, purpose>>

\* Every node was asked for, or the agent has ended.
Terminated ==
    /\ \/ At("idle") /\ Len(containers) >= MaxDeploys
       \/ At("failed") /\ Len(nodes) < Eth1
    /\ UNCHANGED vars

Next ==
    \/ DeployBootnodeV5 \/ DeployBootnodeV4 \/ SetupEth1Network
    \/ \E client \in ClientNames :
          DeployBeacon(client) \/ \E accounts \in AccountLists : DeployValidator(client, accounts)
    \/ Register \/ AnswerError
    \/ Step \/ StopNode
    \/ Terminated

\* The goroutines of a node are scheduled, and the daemon answers them.
Spec ==
    /\ Init /\ [][Next]_vars
    /\ \A id \in 1..MaxDeploys : WF_vars(FollowNode(id))

-----------------------------------------------------------------------------
(* Properties. *)

Steps == {"idle", "mounts", "files", "image", "create", "start", "inspect", "retry", "ok", "failed"}

\* Every variable has its type; whatever runs has an address, and every node a container.
TypeOK ==
    /\ Len(containers) <= MaxDeploys
    /\ running \subseteq DOMAIN addr /\ DOMAIN addr \subseteq DOMAIN containers
    /\ DOMAIN handles \subseteq DOMAIN addr
    /\ \A id \in DOMAIN handles :
          handles[id] \in [ip      : 0..MaxDeploys,
                           waiter  : {"waiting", "exited", "error"},
                           tracker : {"following", "ended"}]
    /\ nodes \in Seq(DOMAIN handles)
    /\ call.at \in Steps /\ call.id \in 0..Len(containers)
    /\ \A m \in DOMAIN call.mountMap : call.mountMap[m] \in DOMAIN disk
    /\ DOMAIN purpose = DOMAIN containers
    /\ enr \in {None, "enr"} /\ enode \in {None, "enode"}
    /\ events \in 0..MaxEvents

\* The files that a container sees: those of the directory that is bound closest to them.
Files(id) ==
    LET binds == containers[id].binds
        below(m) == {n \in DOMAIN binds : IsStrictPrefix(m, n)}
    IN  UNION {{m \o rel : rel \in {r \in DOMAIN disk[binds[m]] :
                                       \A n \in below(m) : ~IsPrefix(n, m \o r)}}
                  : m \in DOMAIN binds}

FileAt(id, path) ==
    LET binds == containers[id].binds
        m == CHOOSE m \in DOMAIN binds :
                /\ IsPrefix(m, path)
                /\ \A n \in DOMAIN binds : IsPrefix(n, path) => Len(n) <= Len(m)
    IN  disk[binds[m]][SubSeq(path, Len(m) + 1, Len(path))]

\* Every file or directory that the command line of a container names is in the container,
\* wherever its mounts are and in whatever order its files were written (docker.go:85-112);
\* the key directories of a validator client without accounts are not there.
InputsAreThere ==
    \A id \in DOMAIN containers : \A flag \in DOMAIN containers[id].input :
        LET path == containers[id].input[flag]
        IN  \/ \E file \in Files(id) : IsPrefix(path, file)
            \/ purpose[id].accounts = <<>> /\ path \in {Keys(<<>>), Passwords(<<>>)}

\* Where a client looks for the password of a keystore.
PasswordOf(file, pub) ==
    CASE file = AllAccounts         -> WalletPassword
      [] file = VotingKeystore(pub) -> Secret(pub)
      [] OTHER                      -> Passwords(SubSeq(file, 3, Len(file)))

\* The keys a validator client can use: those of its keystores whose password it finds.
UsableKeys(id) ==
    UNION {{pub \in FileAt(id, file).keys :
               /\ PasswordOf(file, pub) \in Files(id)
               /\ FileAt(id, PasswordOf(file, pub)) = Password} : file \in Files(id)}

\* A validator client runs exactly the accounts of its tranche, each from a keystore it can
\* open: two accounts never share a file (eth2_teku.go:71-80, eth2_prysm.go:63-100,
\* eth2_lighthouse.go:69-80).
KeysAreOwn ==
    \A id \in DOMAIN containers : containers[id].type = "Validator" =>
        UsableKeys(id) = ToSet(purpose[id].accounts)

\* The flag of a node that opens the port of the API its callers speak: the last is of
\* Lighthouse.
ApiFlag(repository) ==
    CASE repository = "client-go"          -> "--http.port"
      [] repository = "teku"               -> "--rest-api-port"
      [] repository = "prysm/beacon-chain" -> "--rpc-port"
      [] OTHER                             -> "--http-port"

\* As long as the node a container was connected to is up, the address it calls is that of
\* the node, and the port is the one where the node offers that API; a beacon node got the
\* record of the bootnode (server.go:133, 397-402, 455-459).
EndpointsReachTarget ==
    \A id \in DOMAIN containers :
        LET target == purpose[id].target
        IN  /\ target \in running =>
                  \A flag \in DOMAIN containers[id].dial :
                      containers[id].dial[flag] =
                          [ip   |-> addr[target],
                           port |-> containers[target].listen[ApiFlag(containers[target].repository)]]
            /\ containers[id].type = "Beacon" => containers[id].bootnode = enr /\ enr # None

\* A node that is up has the address its handle says, which is no other running container's;
\* only a container that was down before it was inspected has none (docker.go:174-179).
RunningNodeHasItsAddress ==
    \A id \in DOMAIN handles \cap running :
        /\ handles[id].ip = addr[id]
        /\ \A other \in running : other # id => addr[other] # handles[id].ip

\* When waitCh is closed and no error is recorded, the container is down (docker.go:245-262).
DownIsKnown == \A id \in DOMAIN handles : handles[id].waiter = "exited" => id \notin running

\* The exit of a container is noticed, even one that came before the goroutine waited for it:
\* waitCh is closed and its log file gets no more (docker.go:246, 280-296).
ExitIsNoticed ==
    \A id \in 1..MaxDeploys :
        id \in DOMAIN handles \ running ~>
            id \in DOMAIN handles /\ Closed(id) /\ handles[id].tracker # "following"

Stage == CASE call.at \in {"mounts", "files", "image", "create"} -> "asked"
           [] call.at = "start"                   -> "created"
           [] call.at \in {"inspect", "retry", "ok"} -> "started"
           [] call.at \in {"idle", "failed"}      -> "idle"

Deployments == INSTANCE Deployment WITH
    Before <- 0, created <- Len(containers), deployed <- nodes, stage <- Stage

\* However its steps fail and race the container, Deploy is what Deployment says of it
\* (docker.go:61-201): modules Server and Bootstrap rely on no more.
DeploymentSpec == Deployments!Spec
=============================================================================
