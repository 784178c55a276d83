------------------------------- MODULE Docker -------------------------------
(***************************************************************************)
(* The driver of internal/docker/docker.go: Deploy turns a specification   *)
(* into a container, in steps that each may fail and leave behind what the *)
(* steps before them did.  One Deploy runs at a time: NewServer makes one  *)
(* after the other, and the handlers hold Server.lock.  The container runs *)
(* on its own, and two goroutines follow each node: run waits for the exit *)
(* of its container, trackOutput copies its logs.                          *)
(*                                                                         *)
(* Definitions named ...Bug are faulty variants of the one that follows    *)
(* them: no specification uses them, they show that a property can fail.   *)
(***************************************************************************)
EXTENDS DockerEngine, Components

CONSTANTS MaxEvents  \* bound: failures of the Docker API, exits and stops of containers

ASSUME EventsAssumption == MaxEvents \in Nat

VARIABLES ready,   \* the containers that have come up (in the daemon)
          addr,    \* the address of every running container (in the daemon)
          disk,    \* the directories of TempDir: the files in each
          call,    \* the Deploy in progress and its locals
          handles, \* the nodes: container -> address, and its two goroutines
          events   \* how many failures, exits and stops there were

driver == <<disk, call, handles>>
daemon == <<engine, ready, addr>>
docker == <<daemon, driver, events>>

NoIP == 0

Idle == [at |-> "idle", spec |-> NewSpec(None), mountMap |-> <<>>,
         id |-> NoContainer, expired |-> FALSE, found |-> None]

DockerInit ==
    /\ containers = <<>> /\ running = {} /\ ready = {}
    /\ addr = <<>> /\ disk = <<>> /\ handles = <<>>
    /\ call = Idle
    /\ events = 0

At(label) == call.at = label

Goto(label) == call' = [call EXCEPT !.at = label]

\* A bounded event: something outside the agent goes wrong.
Event == events < MaxEvents /\ events' = events + 1

\* return nil, err: what was done so far stays.
Fail == Goto("failed") /\ UNCHANGED <<daemon, disk, handles, events>>

-----------------------------------------------------------------------------
(* The addresses. *)

defPorts ==
    Entry("eth.bootnode", 30303) ++ Entry("eth1.p2p", 30303) ++ Entry("eth1.http", 8545)
        ++ Entry("eth1.authrpc", 8547) ++ Entry("eth2.p2p", 20202) ++ Entry("eth2.http", 9545)
        ++ Entry("eth2.prysm.grpc", 9546)

\* The URL of a port of a node, by the name of the port.
GetAddr(id) == [port \in DOMAIN defPorts |-> [ip |-> handles[id].ip, port |-> defPorts[port]]]

\* The bridge network hands out the lowest address that no running container has, so
\* that the address of one that is down is soon that of another.
FreeIP == CHOOSE ip \in 1..(Len(containers) + 1) :
              /\ \A id \in running : addr[id] # ip
              /\ \A low \in 1..(ip - 1) : \E id \in running : addr[id] = low

\* What ContainerInspect says: a container that is down has none.
IPAddress(id) == IF id \in running THEN addr[id] ELSE NoIP

-----------------------------------------------------------------------------
(* Deploy. *)

Deploy(spec) ==
    /\ At("idle")
    /\ call' = [Idle EXCEPT !.at = "mounts", !.spec = spec]
    /\ UNCHANGED <<daemon, disk, handles, events>>

\* A directory of its own for every mount.
MakeMounts ==
    /\ At("mounts")
    /\ LET mount == call.spec.mount
       IN  /\ disk' = disk \o [i \in DOMAIN mount |-> <<>>]
           /\ call' = [call EXCEPT !.at = "files",
                                   !.mountMap = [m \in ToSet(mount) |->
                                       Len(disk) + (CHOOSE i \in DOMAIN mount : mount[i] = m)]]
    /\ UNCHANGED <<daemon, handles, events>>

\* Every file goes into the directory of a mount its path begins with, whichever the
\* iteration over the map comes to first.
WriteFiles ==
    /\ At("files")
    /\ LET files  == call.spec.files
           mounts == DOMAIN call.mountMap
           matches(path) == {m \in mounts : IsPrefix(m, path)}
       IN  \/ \E mount \in [DOMAIN files -> mounts] :
                 /\ \A path \in DOMAIN files : mount[path] \in matches(path)
                 /\ disk' = [d \in DOMAIN disk |->
                       LET here == {p \in DOMAIN files : call.mountMap[mount[p]] = d}
                           rel(p) == SubSeq(p, Len(mount[p]) + 1, Len(p))
                       IN  IF here = {} THEN disk[d]
                           ELSE [r \in {rel(p) : p \in here} |->
                                    files[CHOOSE p \in here : rel(p) = r]]]
                 /\ Goto("image")
                 /\ UNCHANGED <<daemon, handles, events>>
           \/ /\ \E path \in DOMAIN files : matches(path) = {}
              /\ Fail

\* The image is there or can be pulled, and execCmd knows the ports of the command line.
PrepareImage ==
    /\ At("image")
    /\ IF \A flag \in DOMAIN call.spec.listen : call.spec.listen[flag] \in DOMAIN defPorts
       THEN Goto("create") /\ UNCHANGED <<daemon, disk, handles, events>>
       ELSE Fail

\* The container's command line with its ports, and its binds.
ContainerConfig ==
    [repository |-> call.spec.repository, type |-> call.spec.type, client |-> call.spec.client,
     input |-> call.spec.input, dial |-> call.spec.dial, bootnode |-> call.spec.bootnode,
     listen |-> [flag \in DOMAIN call.spec.listen |-> defPorts[call.spec.listen[flag]]],
     binds |-> call.mountMap, retry |-> call.spec.retry]

CreateContainer ==
    /\ At("create")
    /\ ContainerCreate(ContainerConfig)
    /\ call' = [call EXCEPT !.at = "start", !.id = NextContainer]
    /\ UNCHANGED <<ready, addr, disk, handles, events>>

\* Waits for the next exit: one that is past is not seen.
NewNodeBug(ip) ==
    [ip |-> ip, waiter |-> IF call.id \in running THEN "waiting" ELSE "none",
     tracker |-> IF call.spec.output THEN "following" ELSE "none"]

\* The goroutines: run waits, trackOutput follows the logs if somebody wants them.
NewNode(ip) ==
    [ip |-> ip, waiter |-> "waiting", tracker |-> IF call.spec.output THEN "following" ELSE "none"]

\* Inspects the container before it is started.
StartContainerBug ==
    /\ At("start")
    /\ ContainerStart(call.id)
    /\ addr' = Put(addr, call.id, FreeIP)
    /\ handles' = Put(handles, call.id, NewNode(NoIP))
    /\ Goto("retry")
    /\ UNCHANGED <<ready, disk, events>>

StartContainer ==
    /\ At("start")
    /\ ContainerStart(call.id)
    /\ addr' = Put(addr, call.id, FreeIP)
    /\ Goto("inspect")
    /\ UNCHANGED <<ready, disk, handles, events>>

\* n.ip, go n.run(), go n.trackOutput(), and the timer of retryFn.
InspectContainer ==
    /\ At("inspect")
    /\ handles' = Put(handles, call.id, NewNode(IPAddress(call.id)))
    /\ Goto(IF call.spec.retry = None THEN "ok" ELSE "retry")
    /\ UNCHANGED <<daemon, disk, events>>

\* Tries again with a new container.
ApiErrorBug ==
    /\ call.at \in {"mounts", "files", "image", "create", "start", "inspect"}
    /\ Event
    /\ Goto(IF call.at = "inspect" THEN "create" ELSE "failed")
    /\ UNCHANGED <<daemon, disk, handles>>

\* TempDir, WriteFile, the pull, ContainerCreate, ContainerStart or ContainerInspect fails.
\* A start that fails may have reached the daemon, so that the container is up.  The files
\* that a WriteFile which fails leaves are in directories no container is ever given.
ApiError ==
    /\ call.at \in {"mounts", "files", "image", "create", "start", "inspect"}
    /\ Event
    /\ Goto("failed")
    /\ \/ UNCHANGED daemon
       \/ /\ At("start")
          /\ ContainerStart(call.id)
          /\ addr' = Put(addr, call.id, FreeIP)
          /\ UNCHANGED ready
    /\ UNCHANGED <<disk, handles>>

-----------------------------------------------------------------------------
(* retryFn. *)

\* What the retry function of the specification may find when it succeeds: an answer, the
\* record of the bootnode, the first line of whatever was logged so far.
RetryResults ==
    LET up == call.id \in ready
    IN  CASE call.spec.retry = "http"                   -> IF up /\ call.id \in running THEN {None} ELSE {}
          [] call.spec.retry = "record in the logs"     -> IF up THEN {"enr"} ELSE {}
          [] call.spec.retry = "first line of the logs" -> {None} \cup IF up THEN {"enode"} ELSE {}

Poll ==
    /\ At("retry")
    /\ \E found \in RetryResults : call' = [call EXCEPT !.at = "ok", !.found = found]
    /\ UNCHANGED <<daemon, disk, handles, events>>

Closed(id) == handles[id].waiter \in {"exited", "error"}

\* case <-n.waitCh
NodeStopped ==
    /\ At("retry")
    /\ Closed(call.id)
    /\ Fail

\* The minute is over, and case <-timeoutT.C.
Expire ==
    /\ At("retry")
    /\ call' = [call EXCEPT !.expired = TRUE]
    /\ UNCHANGED <<daemon, disk, handles, events>>

GiveUp ==
    /\ At("retry")
    /\ call.expired
    /\ Fail

-----------------------------------------------------------------------------
(* run and trackOutput of every node. *)

\* Takes the headers of the answer for the answer.
CloseWaitChBug(id) ==
    /\ handles[id].waiter = "waiting"
    /\ handles' = [handles EXCEPT ![id].waiter = "exited"]
    /\ UNCHANGED <<daemon, disk, call, events>>

\* WaitConditionNotRunning: answered as well when the container was down before.  Then
\* close(n.waitCh).
CloseWaitCh(id) ==
    /\ handles[id].waiter = "waiting"
    /\ id \notin running
    /\ handles' = [handles EXCEPT ![id].waiter = "exited"]
    /\ UNCHANGED <<daemon, disk, call, events>>

\* case err := <-errCh, while the container may be up or down.
WaitError(id) ==
    /\ handles[id].waiter = "waiting"
    /\ Event
    /\ handles' = [handles EXCEPT ![id].waiter = "error"]
    /\ UNCHANGED <<daemon, disk, call>>

\* The logs of a container that is down have an end.
LogsEnd(id) ==
    /\ handles[id].tracker = "following"
    /\ id \notin running
    /\ handles' = [handles EXCEPT ![id].tracker = "ended"]
    /\ UNCHANGED <<daemon, disk, call, events>>

\* ContainerLogs fails, or StdCopy cannot go on: the rest of the logs is not copied.
LogsError(id) ==
    /\ handles[id].tracker = "following"
    /\ Event
    /\ handles' = [handles EXCEPT ![id].tracker = "ended"]
    /\ UNCHANGED <<daemon, disk, call>>

Stop(id) ==
    /\ Event
    /\ ContainerStop(id)
    /\ UNCHANGED <<ready, addr, driver>>

-----------------------------------------------------------------------------
(* The daemon. *)

\* Only the container that is waited for is ever asked whether it is ready.
ContainerReady ==
    /\ At("retry")
    /\ call.id \in running \ ready
    /\ ready' = ready \cup {call.id}
    /\ UNCHANGED <<engine, addr, driver, events>>

NodeExit ==
    /\ Event
    /\ ContainerExit
    /\ UNCHANGED <<ready, addr, driver>>

DeployStep ==
    \/ MakeMounts \/ WriteFiles \/ PrepareImage
    \/ CreateContainer \/ StartContainer \/ InspectContainer
    \/ Poll \/ NodeStopped \/ GiveUp

Follow(id) == CloseWaitCh(id) \/ LogsEnd(id)

DockerStep ==
    \/ DeployStep \/ ApiError \/ Expire
    \/ \E id \in DOMAIN handles : Follow(id) \/ WaitError(id) \/ LogsError(id)
    \/ ContainerReady \/ NodeExit
=============================================================================
