--------------------------- MODULE TestnetProofs ---------------------------
(***************************************************************************)
(* Testnet implements Deployment, for any accounts and any number of       *)
(* containers and of failures: a deployment makes one container, starts it *)
(* once, and succeeds only after that. A node whose exit the driver        *)
(* reports is down, and one that is up is at the address the agent has.    *)
(***************************************************************************)
EXTENDS Testnet, FiniteSetTheorems, WellFoundedInduction, TLAPS

\* Past its creation the container of a deployment is the last one.
StageInv ==
    /\ \E S : containers \in Seq(S)
    /\ DOMAIN call = DOMAIN Idle
    /\ call.at \in Steps
    /\ call.at \in {"start", "inspect", "retry", "ok"} => call.id = Len(containers)

LEMMA AppendLength ==
  ASSUME NEW S, NEW s \in Seq(S), NEW x
  PROVE  Len(Append(s, x)) = Len(s) + 1 /\ Append(s, x) \in Seq(S \cup {x})
<1>1. s \in Seq(S \cup {x})
  OBVIOUS
<1> QED
  BY <1>1

LEMMA EmptyIsSeq == Len(<<>>) = 0 /\ <<>> \in Seq({})
  OBVIOUS

LEMMA InitStage == Init => StageInv /\ Deployments!Init
<1> SUFFICES ASSUME Init PROVE StageInv /\ Deployments!Init
  OBVIOUS
<1>1. call = Idle /\ call.at = "idle"
  BY DEF Init, DockerInit, Idle
<1>2. containers = <<>> /\ running = {} /\ nodes = <<>>
  BY DEF Init, DockerInit
<1>3. Stage = "idle"
  BY <1>1 DEF Stage
<1> QED
  BY <1>1, <1>2, <1>3, EmptyIsSeq DEF StageInv, Steps, Deployments!Init

-----------------------------------------------------------------------------
(* What an action does to the call: it moves on, or it fails. *)

LEMMA CallMoves ==
  ASSUME StageInv, NEW label \in Steps, call' = [call EXCEPT !.at = label]
  PROVE  DOMAIN call' = DOMAIN Idle /\ call'.at = label /\ call'.id = call.id
  BY DEF StageInv, Idle

\* Steps of Deploy that no caller can tell apart.
LEMMA SameStage ==
  ASSUME StageInv, DOMAIN call' = DOMAIN Idle, call'.at \in Steps, call'.id = call.id,
         UNCHANGED <<containers, nodes>>,
         \/ /\ call.at \in {"mounts", "files", "image"}
            /\ call'.at \in {"mounts", "files", "image", "create"}
         \/ /\ call.at \in {"inspect", "retry"}
            /\ call'.at \in {"inspect", "retry", "ok"}
         \/ call'.at = call.at
  PROVE  StageInv' /\ Stage' = Stage
<1>1. StageInv'
  BY DEF StageInv, Steps
<1>2. Stage' = Stage
  BY DEF StageInv, Steps, Stage
<1> QED
  BY <1>1, <1>2

\* Wherever Deploy fails: it is over, and what there is stays, but for a container that was
\* to be started.
LEMMA Fails ==
  ASSUME StageInv, call' = [call EXCEPT !.at = "failed"],
         call.at \in Steps \ {"idle", "failed"},
         UNCHANGED <<containers, nodes>>,
         running' = running \/ (call.at = "start" /\ running' = running \cup {call.id})
  PROVE  StageInv' /\ Deployments!Fail
<1>1. DOMAIN call' = DOMAIN Idle /\ call'.at = "failed"
  BY CallMoves DEF Steps
<1>2. StageInv'
  BY <1>1 DEF StageInv, Steps
<1>3. Stage # "idle"
  BY DEF Stage, Steps
<1>4. Stage' = "idle"
  BY <1>1 DEF Stage
<1>5. call.at = "start" => Stage = "created" /\ call.id = Len(containers)
  BY DEF Stage, StageInv
<1> QED
  BY <1>2, <1>3, <1>4, <1>5 DEF Deployments!Fail

\* The container of the call is started, whatever the driver is told of it.
Started ==
    /\ call.at = "start"
    /\ running' = running \cup {call.id} /\ addr' = Put(addr, call.id, FreeIP)
    /\ UNCHANGED <<containers, handles>>

LEMMA ErrorOrStart ==
  ASSUME ApiError
  PROVE  /\ call.at \in {"mounts", "files", "image", "create", "start", "inspect"}
         /\ call' = [call EXCEPT !.at = "failed"]
         /\ UNCHANGED <<containers, disk, handles>>
         /\ UNCHANGED <<running, addr>> \/ Started
  BY DEF ApiError, Goto, At, ContainerStart, Started, daemon, engine

\* What runs besides Deploy leaves the stage alone.
LEMMA Aside ==
  ASSUME StageInv, UNCHANGED <<call, containers, nodes>>
  PROVE  StageInv' /\ Stage' = Stage
  BY SameStage DEF StageInv

-----------------------------------------------------------------------------
(* Every action is an action of Deployment, or one that it does not see. *)

Same == UNCHANGED <<Len(containers), running, nodes, Stage>>

LEMMA AskStep ==
  ASSUME StageInv, NEW request, NEW spec, DeployNode(request, spec)
  PROVE  StageInv' /\ Deployments!Ask
<1>1. /\ call.at = "idle"
      /\ call' = [Idle EXCEPT !.at = "mounts", !.spec = WithOutput(spec)]
      /\ UNCHANGED <<containers, running, nodes>>
  BY DEF DeployNode, Deploy, At, daemon, engine
<1>2. DOMAIN call' = DOMAIN Idle /\ call'.at = "mounts"
  BY <1>1 DEF Idle
<1>3. StageInv'
  BY <1>1, <1>2 DEF StageInv, Steps
<1>4. Stage = "idle" /\ Stage' = "asked"
  BY <1>1, <1>2 DEF Stage
<1> QED
  BY <1>1, <1>3, <1>4 DEF Deployments!Ask

LEMMA DriverStep ==
  ASSUME StageInv, DockerStep, UNCHANGED nodes
  PROVE  StageInv' /\ (Deployments!Next \/ Same)
<1>1. CASE MakeMounts
  <2>1. /\ call.at = "mounts" /\ UNCHANGED <<containers, running>>
        /\ \E m : call' = [call EXCEPT !.at = "files", !.mountMap = m]
    BY <1>1 DEF MakeMounts, At, daemon, engine
  <2>2. DOMAIN call' = DOMAIN Idle /\ call'.at = "files" /\ call'.id = call.id
    BY <2>1 DEF StageInv, Idle
  <2> QED
    BY <2>1, <2>2, SameStage DEF Same, Steps
<1>2. CASE WriteFiles \/ PrepareImage
  <2>1. /\ call.at \in {"files", "image"} /\ UNCHANGED <<containers, running>>
        /\ \E label \in {"image", "create", "failed"} : call' = [call EXCEPT !.at = label]
    BY <1>2 DEF WriteFiles, PrepareImage, Goto, Fail, At, daemon, engine
  <2>2. CASE call' = [call EXCEPT !.at = "failed"]
    BY <2>1, <2>2, Fails DEF Steps, Deployments!Next
  <2>3. CASE \E label \in {"image", "create"} : call' = [call EXCEPT !.at = label]
    <3>1. /\ DOMAIN call' = DOMAIN Idle /\ call'.id = call.id
          /\ call'.at \in {"image", "create"}
      BY <2>3, CallMoves DEF Steps
    <3> QED
      BY <2>1, <3>1, SameStage DEF Same, Steps
  <2> QED
    BY <2>1, <2>2, <2>3
<1>3. CASE CreateContainer
  <2>1. /\ call.at = "create"
        /\ call' = [call EXCEPT !.at = "start", !.id = NextContainer]
        /\ containers' = Append(containers, ContainerConfig) /\ UNCHANGED running
    BY <1>3 DEF CreateContainer, ContainerCreate, At
  <2>2. DOMAIN call' = DOMAIN Idle /\ call'.at = "start" /\ call'.id = NextContainer
    BY <2>1 DEF StageInv, Idle
  <2>3. PICK S : containers \in Seq(S)
    BY DEF StageInv
  <2>4. /\ Len(containers') = Len(containers) + 1
        /\ containers' \in Seq(S \cup {ContainerConfig})
    BY <2>1, <2>3, AppendLength
  <2>5. StageInv'
    BY <2>2, <2>4 DEF StageInv, Steps, NextContainer
  <2>6. Stage = "asked" /\ Stage' = "created"
    BY <2>1, <2>2 DEF Stage
  <2> QED
    BY <2>1, <2>4, <2>5, <2>6 DEF Deployments!Create, Deployments!Next
<1>4. CASE StartContainer
  <2>1. /\ call.at = "start" /\ call' = [call EXCEPT !.at = "inspect"]
        /\ running' = running \cup {call.id} /\ UNCHANGED containers
    BY <1>4 DEF StartContainer, ContainerStart, Goto, At
  <2>2. DOMAIN call' = DOMAIN Idle /\ call'.at = "inspect" /\ call'.id = call.id
    BY <2>1, CallMoves DEF Steps
  <2>3. StageInv'
    BY <2>1, <2>2 DEF StageInv, Steps
  <2>4. Stage = "created" /\ Stage' = "started" /\ call.id = Len(containers)
    BY <2>1, <2>2 DEF Stage, StageInv
  <2> QED
    BY <2>1, <2>3, <2>4 DEF Deployments!Start, Deployments!Next
<1>5. CASE InspectContainer
  <2>1. /\ call.at = "inspect" /\ UNCHANGED <<containers, running>>
        /\ \E label \in {"ok", "retry"} : call' = [call EXCEPT !.at = label]
    BY <1>5 DEF InspectContainer, Goto, At, daemon, engine
  <2>2. DOMAIN call' = DOMAIN Idle /\ call'.at \in {"ok", "retry"} /\ call'.id = call.id
    BY <2>1, CallMoves DEF Steps
  <2> QED
    BY <2>1, <2>2, SameStage DEF Same, Steps
<1>6. CASE Poll
  <2>1. /\ call.at = "retry" /\ UNCHANGED <<containers, running>>
        /\ \E found : call' = [call EXCEPT !.at = "ok", !.found = found]
    BY <1>6 DEF Poll, At, daemon, engine
  <2>2. DOMAIN call' = DOMAIN Idle /\ call'.at = "ok" /\ call'.id = call.id
    BY <2>1 DEF StageInv, Idle
  <2> QED
    BY <2>1, <2>2, SameStage DEF Same, Steps
<1>7. CASE NodeStopped \/ GiveUp \/ ApiError
  <2>1. /\ call.at \in Steps \ {"idle", "failed"} /\ call' = [call EXCEPT !.at = "failed"]
        /\ UNCHANGED containers
        /\ running' = running \/ (call.at = "start" /\ running' = running \cup {call.id})
    <3>1. CASE NodeStopped \/ GiveUp
      BY <3>1 DEF NodeStopped, GiveUp, Fail, Goto, At, Steps, daemon, engine
    <3>2. CASE ApiError
      BY <3>2, ErrorOrStart DEF Started, Steps
    <3> QED
      BY <1>7, <3>1, <3>2
  <2> QED
    BY <2>1, Fails DEF Deployments!Next
<1>8. CASE Expire
  <2>1. call' = [call EXCEPT !.expired = TRUE] /\ UNCHANGED <<containers, running>>
    BY <1>8 DEF Expire, daemon, engine
  <2>2. DOMAIN call' = DOMAIN Idle /\ call'.at = call.at /\ call'.id = call.id
    BY <2>1 DEF StageInv, Idle
  <2>3. call.at \in Steps
    BY DEF StageInv
  <2> QED
    BY <2>1, <2>2, <2>3, SameStage DEF Same
<1>9. CASE ContainerReady \/ \E id \in DOMAIN handles : Follow(id) \/ WaitError(id) \/ LogsError(id)
  <2>1. UNCHANGED <<call, containers, running>>
    BY <1>9 DEF ContainerReady, Follow, CloseWaitCh, LogsEnd, WaitError, LogsError, driver,
         daemon, engine
  <2> QED
    BY <2>1, Aside DEF Same
<1>10. CASE NodeExit
  <2>1. /\ UNCHANGED <<call, containers>>
        /\ \E id \in running : running' = running \ {id}
    BY <1>10 DEF NodeExit, ContainerExit, driver
  <2> QED
    BY <2>1, Aside DEF Deployments!Exit, Deployments!Next
<1> QED
  BY <1>1, <1>2, <1>3, <1>4, <1>5, <1>6, <1>7, <1>8, <1>9, <1>10 DEF DockerStep, DeployStep

LEMMA StepImplements ==
  StageInv /\ [Next]_vars => StageInv' /\ (Deployments!Next \/ Same)
<1> SUFFICES ASSUME StageInv, [Next]_vars PROVE StageInv' /\ (Deployments!Next \/ Same)
  OBVIOUS
<1>1. ASSUME NEW request, NEW spec, DeployNode(request, spec)
      PROVE  StageInv' /\ Deployments!Next
  BY <1>1, AskStep DEF Deployments!Next
<1>2. CASE DeployBootnodeV5 \/ DeployBootnodeV4 \/ SetupEth1Network
  BY <1>1, <1>2 DEF DeployBootnodeV5, DeployBootnodeV4, SetupEth1Network
<1>3. ASSUME NEW client \in ClientNames,
             DeployBeacon(client) \/ \E accounts \in AccountLists : DeployValidator(client, accounts)
      PROVE  StageInv' /\ Deployments!Next
  BY <1>1, <1>3 DEF DeployBeacon, DeployValidator
<1>4. CASE Register
  <2>1. /\ call.at = "ok" /\ call' = Idle /\ nodes' = Append(nodes, call.id)
        /\ UNCHANGED <<containers, running>>
    BY <1>4 DEF Register, At, daemon, engine
  <2>2. call'.at = "idle" /\ DOMAIN call' = DOMAIN Idle
    BY <2>1 DEF Idle
  <2>3. StageInv'
    BY <2>1, <2>2 DEF StageInv, Steps
  <2>4. Stage = "started" /\ Stage' = "idle" /\ call.id = Len(containers)
    BY <2>1, <2>2 DEF Stage, StageInv
  <2> QED
    BY <2>1, <2>3, <2>4 DEF Deployments!Succeed, Deployments!Next
<1>5. CASE AnswerError
  <2>1. /\ call.at = "failed" /\ call' = Idle /\ UNCHANGED <<containers, running, nodes>>
    BY <1>5 DEF AnswerError, At, daemon, engine
  <2>2. call'.at = "idle" /\ DOMAIN call' = DOMAIN Idle
    BY <2>1 DEF Idle
  <2>3. StageInv'
    BY <2>1, <2>2 DEF StageInv, Steps
  <2>4. Stage' = Stage
    BY <2>1, <2>2 DEF Stage
  <2> QED
    BY <2>1, <2>3, <2>4 DEF Same
<1>6. CASE Step
  BY <1>6, DriverStep DEF Step
<1>7. CASE StopNode
  <2>1. PICK id : UNCHANGED <<call, containers, nodes>> /\ running' = running \ {id}
    BY <1>7 DEF StopNode, Stop, ContainerStop, driver
  <2>2. CASE id \in running
    BY <2>1, <2>2, Aside DEF Deployments!Exit, Deployments!Next
  <2>3. CASE id \notin running
    <3>1. running' = running
      BY <2>1, <2>3
    <3> QED
      BY <2>1, <3>1, Aside DEF Same
  <2> QED
    BY <2>2, <2>3
<1>8. CASE Terminated \/ UNCHANGED vars
  <2>1. UNCHANGED <<call, containers, running, nodes>>
    BY <1>8 DEF Terminated, vars, docker, driver, daemon, engine
  <2> QED
    BY <2>1, Aside DEF Same
<1> QED
  BY <1>2, <1>3, <1>4, <1>5, <1>6, <1>7, <1>8 DEF Next

\* Whatever fails and whenever a container exits: a deployment makes at most one container,
\* starts it once, and registers it only after it was started (docker.go:61-201).
THEOREM TestnetImplementsDeployment == Spec => DeploymentSpec
<1>1. Init => StageInv /\ Deployments!Init
  BY InitStage
<1>2. StageInv /\ [Next]_vars => StageInv'
  BY StepImplements
<1>3. StageInv /\ [Next]_vars => [Deployments!Next]_<<Len(containers), running, nodes, Stage>>
  BY StepImplements DEF Same
<1> QED
  BY <1>1, <1>2, <1>3, PTL DEF Spec, DeploymentSpec, Deployments!Spec

-----------------------------------------------------------------------------
(* The goroutine that waits for the exit of a container. *)

\* A handle is of a container that exists, and the container of a deployment has none
\* before it was inspected.
HandlesInv ==
    /\ DOMAIN handles \subseteq 1..Len(containers)
    /\ \A id \in DOMAIN handles : DOMAIN handles[id] = {"ip", "waiter", "tracker"}
    /\ call.at \in {"start", "inspect"} => call.id \in (1..Len(containers)) \ DOMAIN handles
    /\ DownIsKnown

LEMMA EmptyDomain == DOMAIN <<>> = {}
  OBVIOUS

LEMMA InitHandles == Init => HandlesInv
  BY EmptyDomain DEF Init, DockerInit, Idle, HandlesInv, DownIsKnown

LEMMA LengthTyped == StageInv => Len(containers) \in Nat
  BY DEF StageInv

\* Nothing is started and no handle changes.
LEMMA HandlesKept ==
  ASSUME StageInv, HandlesInv, UNCHANGED <<handles, containers>>, running' \subseteq running,
         call'.at \in {"start", "inspect"} => call'.at = call.at /\ call'.id = call.id
  PROVE  HandlesInv'
  BY DEF HandlesInv, DownIsKnown

\* A handle keeps its shape when its goroutine moves on.
LEMMA HandleMoves ==
  ASSUME HandlesInv, UNCHANGED <<containers, running, call>>, NEW id \in DOMAIN handles,
         \/ /\ \E state : handles' = [handles EXCEPT ![id].waiter = state]
            /\ handles'[id].waiter = "exited" => id \notin running
         \/ \E state : handles' = [handles EXCEPT ![id].tracker = state]
  PROVE  HandlesInv'
<1>1. DOMAIN handles' = DOMAIN handles /\ \A other \in DOMAIN handles \ {id} : handles'[other] = handles[other]
  OBVIOUS
<1>2. DOMAIN handles'[id] = {"ip", "waiter", "tracker"}
  BY DEF HandlesInv
<1>3. handles'[id].waiter = "exited" => id \notin running
  BY DEF HandlesInv, DownIsKnown
<1> QED
  BY <1>1, <1>2, <1>3 DEF HandlesInv, DownIsKnown

LEMMA DriverHandles ==
  ASSUME StageInv, StageInv', HandlesInv, DockerStep
  PROVE  HandlesInv'
<1>1. CASE MakeMounts \/ WriteFiles \/ PrepareImage \/ Poll \/ NodeStopped \/ GiveUp
  <2>1. UNCHANGED <<containers, running, handles>>
    BY <1>1 DEF MakeMounts, WriteFiles, PrepareImage, Poll, NodeStopped, GiveUp, Fail,
       daemon, engine
  <2>2. call'.at \notin {"start", "inspect"}
    BY <1>1 DEF MakeMounts, WriteFiles, PrepareImage, Poll, NodeStopped, GiveUp, Fail,
       Goto, StageInv, Idle
  <2> QED
    BY <2>1, <2>2, HandlesKept
<1>8. CASE ApiError
  <2>1. call'.at = "failed" /\ UNCHANGED <<containers, handles>>
    BY <1>8, ErrorOrStart DEF StageInv, Idle
  <2>2. CASE UNCHANGED running
    BY <2>1, <2>2, HandlesKept
  <2>3. CASE Started
    BY <2>1, <2>3 DEF Started, HandlesInv, DownIsKnown
  <2> QED
    BY <1>8, <2>2, <2>3, ErrorOrStart
<1>2. CASE CreateContainer
  <2>1. /\ UNCHANGED <<running, handles>>
        /\ call' = [call EXCEPT !.at = "start", !.id = NextContainer]
        /\ containers' = Append(containers, ContainerConfig)
    BY <1>2 DEF CreateContainer, ContainerCreate
  <2>2. call'.at = "start" /\ call'.id = Len(containers) + 1
    BY <2>1 DEF StageInv, Idle, NextContainer
  <2>3. Len(containers') = Len(containers) + 1
    BY <2>2 DEF StageInv
  <2> QED
    BY <2>1, <2>2, <2>3, LengthTyped DEF HandlesInv, DownIsKnown
<1>3. CASE StartContainer
  <2>1. /\ call.at = "start" /\ call' = [call EXCEPT !.at = "inspect"]
        /\ running' = running \cup {call.id} /\ UNCHANGED <<containers, handles>>
    BY <1>3 DEF StartContainer, ContainerStart, Goto, At
  <2>2. call'.at = "inspect" /\ call'.id = call.id
    BY <2>1, CallMoves DEF Steps
  <2> QED
    BY <2>1, <2>2 DEF HandlesInv, DownIsKnown
<1>4. CASE InspectContainer
  <2>1. PICK ip : /\ call.at = "inspect" /\ UNCHANGED <<containers, running>>
                  /\ handles' = Put(handles, call.id, NewNode(ip))
                  /\ \E label \in {"ok", "retry"} : call' = [call EXCEPT !.at = label]
    BY <1>4 DEF InspectContainer, Goto, At, daemon, engine
  <2>2. call'.at \in {"ok", "retry"} /\ call'.id = call.id
    BY <2>1, CallMoves DEF Steps
  <2>3. call.id \in 1..Len(containers)
    BY <2>1 DEF HandlesInv
  <2> QED
    BY <2>1, <2>2, <2>3 DEF HandlesInv, DownIsKnown, Put, NewNode
<1>5. CASE Expire
  <2>1. /\ UNCHANGED <<containers, running, handles>>
        /\ call.at = "retry" /\ call' = [call EXCEPT !.expired = TRUE]
    BY <1>5 DEF Expire, At, daemon, engine
  <2>2. call'.at = "retry"
    BY <2>1 DEF StageInv, Idle
  <2> QED
    BY <2>1, <2>2, HandlesKept
<1>6. ASSUME NEW id \in DOMAIN handles, Follow(id) \/ WaitError(id) \/ LogsError(id)
      PROVE  HandlesInv'
  <2>1. UNCHANGED <<containers, running, call>>
    BY <1>6 DEF Follow, CloseWaitCh, LogsEnd, WaitError, LogsError, daemon, engine
  <2>2. DOMAIN handles[id] = {"ip", "waiter", "tracker"}
    BY DEF HandlesInv
  <2>3. CASE CloseWaitCh(id) \/ WaitError(id)
    <3>1. /\ \E state : handles' = [handles EXCEPT ![id].waiter = state]
          /\ handles'[id].waiter = "exited" => id \notin running
      BY <2>2, <2>3 DEF CloseWaitCh, WaitError
    <3> QED
      BY <2>1, <3>1, HandleMoves
  <2>4. CASE LogsEnd(id) \/ LogsError(id)
    <3>1. \E state : handles' = [handles EXCEPT ![id].tracker = state]
      BY <2>4 DEF LogsEnd, LogsError
    <3> QED
      BY <2>1, <3>1, HandleMoves
  <2> QED
    BY <1>6, <2>3, <2>4 DEF Follow
<1>7. CASE ContainerReady \/ NodeExit
  <2>1. UNCHANGED <<containers, handles, call>> /\ running' \subseteq running
    BY <1>7 DEF ContainerReady, NodeExit, ContainerExit, driver, engine
  <2> QED
    BY <2>1, HandlesKept
<1> QED
  BY <1>1, <1>2, <1>3, <1>4, <1>5, <1>6, <1>7, <1>8 DEF DockerStep, DeployStep

LEMMA NextHandles ==
  ASSUME StageInv, StageInv', HandlesInv, [Next]_vars
  PROVE  HandlesInv'
<1>1. ASSUME NEW request, NEW spec, DeployNode(request, spec)
      PROVE  HandlesInv'
  <2>1. /\ call' = [Idle EXCEPT !.at = "mounts", !.spec = WithOutput(spec)]
        /\ UNCHANGED <<containers, running, handles>>
    BY <1>1 DEF DeployNode, Deploy, daemon, engine
  <2>2. call'.at = "mounts"
    BY <2>1 DEF Idle
  <2> QED
    BY <2>1, <2>2, HandlesKept
<1>2. CASE DeployBootnodeV5 \/ DeployBootnodeV4 \/ SetupEth1Network
  BY <1>1, <1>2 DEF DeployBootnodeV5, DeployBootnodeV4, SetupEth1Network
<1>3. ASSUME NEW client \in ClientNames,
             DeployBeacon(client) \/ \E accounts \in AccountLists : DeployValidator(client, accounts)
      PROVE  HandlesInv'
  BY <1>1, <1>3 DEF DeployBeacon, DeployValidator
<1>4. CASE Register \/ AnswerError
  <2>1. call' = Idle /\ UNCHANGED <<containers, running, handles>>
    BY <1>4 DEF Register, AnswerError, daemon, engine
  <2>2. call'.at = "idle"
    BY <2>1 DEF Idle
  <2> QED
    BY <2>1, <2>2, HandlesKept
<1>5. CASE Step
  BY <1>5, DriverHandles DEF Step
<1>6. CASE StopNode
  <2>1. UNCHANGED <<call, containers, handles>> /\ running' \subseteq running
    BY <1>6 DEF StopNode, Stop, ContainerStop, driver
  <2> QED
    BY <2>1, HandlesKept
<1>7. CASE Terminated \/ UNCHANGED vars
  <2>1. UNCHANGED <<call, containers, running, handles>>
    BY <1>7 DEF Terminated, vars, docker, driver, daemon, engine
  <2> QED
    BY <2>1, HandlesKept
<1> QED
  BY <1>2, <1>3, <1>4, <1>5, <1>6, <1>7 DEF Next

\* When the agent takes a container for exited it is down, for any number of containers and
\* of failures: none is started again (docker.go:245-262).
THEOREM DownAreKnown == Spec => []DownIsKnown
<1>1. StageInv /\ [Next]_vars => StageInv'
  BY StepImplements
<1>2. StageInv /\ StageInv' /\ HandlesInv /\ [Next]_vars => HandlesInv'
  BY NextHandles
<1>3. HandlesInv => DownIsKnown
  BY DEF HandlesInv
<1>4. Init => StageInv /\ HandlesInv
  BY InitStage, InitHandles
<1> QED
  BY <1>1, <1>2, <1>3, <1>4, PTL DEF Spec

-----------------------------------------------------------------------------
(* The addresses. *)

LEMMA LeastNatural ==
  ASSUME NEW T, T \subseteq Nat, T # {}
  PROVE  \E x \in T : \A y \in T : x <= y
<1>1. PICK x \in T : \A y \in T : <<y, x>> \notin OpToRel(<, Nat)
  BY NatLessThanWellFounded, WFMin
<1>2. \A y \in T : ~(y < x)
  BY <1>1 DEF OpToRel
<1> QED
  BY <1>2

\* Whatever runs has an address of its own, which its handle repeats.
AddressInv ==
    /\ running \subseteq 1..Len(containers)
    /\ running \subseteq DOMAIN addr
    /\ \A a, b \in running : a # b => addr[a] # addr[b]
    /\ \A id \in DOMAIN handles \cap running : handles[id].ip = addr[id]

\* One more address than there are containers is enough for one to be free.
LEMMA SomeIPIsFree ==
  ASSUME Len(containers) \in Nat, running \subseteq 1..Len(containers)
  PROVE  \E ip \in 1..(Len(containers) + 1) : \A id \in running : addr[id] # ip
<1> DEFINE n   == Len(containers)
           ips == 1..(n + 1)
<1>1. IsFiniteSet(running) /\ Cardinality(running) <= n
  <2>1. IsFiniteSet(1..n) /\ Cardinality(1..n) = n
    BY FS_Interval
  <2> QED
    BY <2>1, FS_Subset
<1>2. IsFiniteSet(ips) /\ Cardinality(ips) = n + 1
  BY FS_Interval
<1>3. SUFFICES ASSUME \A ip \in ips : \E id \in running : addr[id] = ip
               PROVE  FALSE
  OBVIOUS
<1> DEFINE holder == [ip \in ips |-> CHOOSE id \in running : addr[id] = ip]
<1>4. \A ip \in ips : holder[ip] \in running /\ addr[holder[ip]] = ip
  BY <1>3
<1>5. holder \in [ips -> running]
  BY <1>4
<1>6. Cardinality(running) \in Nat /\ Cardinality(running) < Cardinality(ips)
  BY <1>1, <1>2, FS_CardinalityType
<1> HIDE DEF holder, ips
<1>7. \E x, y \in ips : x # y /\ holder[x] = holder[y]
  BY <1>1, <1>2, <1>5, <1>6, FS_PigeonHole
<1> QED
  BY <1>4, <1>7

\* The address of a new container is nobody else's.
LEMMA FreeIPIsFree ==
  ASSUME Len(containers) \in Nat, running \subseteq 1..Len(containers)
  PROVE  \A id \in running : addr[id] # FreeIP
<1> DEFINE ips   == 1..(Len(containers) + 1)
           free  == {ip \in ips : \A id \in running : addr[id] # ip}
<1>1. free # {}
  BY SomeIPIsFree
<1>2. PICK ip \in free : \A low \in free : ip <= low
  <2>1. free \subseteq Nat
    OBVIOUS
  <2> HIDE DEF free
  <2> QED
    BY <1>1, <2>1, LeastNatural
<1>3. ip \in ips /\ \A id \in running : addr[id] # ip
  OBVIOUS
<1>4. ASSUME NEW low \in 1..(ip - 1)
      PROVE  \E id \in running : addr[id] = low
  <2>1. low \in ips /\ ~(ip <= low)
    BY <1>3
  <2> QED
    BY <1>2, <2>1
<1>5. \E first \in 1..(Len(containers) + 1) :
         /\ \A id \in running : addr[id] # first
         /\ \A low \in 1..(first - 1) : \E id \in running : addr[id] = low
  BY <1>3, <1>4
<1> QED
  BY <1>5 DEF FreeIP

LEMMA InitAddress == Init => AddressInv
  BY EmptyDomain DEF Init, DockerInit, AddressInv

\* Nothing is started, and no handle gets another address.
LEMMA AddressKept ==
  ASSUME StageInv, AddressInv, addr' = addr, running' \subseteq running,
         \/ containers' = containers
         \/ Len(containers') = Len(containers) + 1,
         DOMAIN handles' = DOMAIN handles,
         \A id \in DOMAIN handles : handles'[id].ip = handles[id].ip
  PROVE  AddressInv'
<1>1. 1..Len(containers) \subseteq 1..Len(containers')
  BY LengthTyped
<1> QED
  BY <1>1 DEF AddressInv

LEMMA StartAddress ==
  ASSUME StageInv, HandlesInv, AddressInv, Started
  PROVE  AddressInv'
<1>1. /\ running' = running \cup {call.id} /\ UNCHANGED <<containers, handles>>
      /\ addr' = Put(addr, call.id, FreeIP)
  BY DEF Started
<1>2. call.id \in 1..Len(containers) /\ call.id \notin DOMAIN handles
  BY DEF Started, HandlesInv
<1>3. \A id \in running : addr[id] # FreeIP
  BY LengthTyped, FreeIPIsFree DEF AddressInv
<1>4. /\ DOMAIN addr' = DOMAIN addr \cup {call.id}
      /\ addr'[call.id] = FreeIP
      /\ \A id \in DOMAIN addr \ {call.id} : addr'[id] = addr[id]
  BY <1>1 DEF Put
<1>5. \A a, b \in running' : a # b => addr'[a] # addr'[b]
  BY <1>1, <1>3, <1>4 DEF AddressInv
<1>6. \A id \in DOMAIN handles' \cap running' : handles'[id].ip = addr'[id]
  BY <1>1, <1>2, <1>4 DEF AddressInv
<1> QED
  BY <1>1, <1>2, <1>4, <1>5, <1>6 DEF AddressInv

LEMMA InspectAddress ==
  ASSUME AddressInv, InspectContainer
  PROVE  AddressInv'
<1>1. /\ UNCHANGED <<containers, running, addr>>
      /\ handles' = Put(handles, call.id, NewNode(IPAddress(call.id)))
  BY DEF InspectContainer, daemon, engine
<1>2. /\ DOMAIN handles' = DOMAIN handles \cup {call.id}
      /\ handles'[call.id].ip = IPAddress(call.id)
      /\ \A id \in DOMAIN handles \ {call.id} : handles'[id] = handles[id]
  BY <1>1 DEF Put, NewNode
<1>3. \A id \in DOMAIN handles' \cap running' : handles'[id].ip = addr'[id]
  BY <1>1, <1>2 DEF AddressInv, IPAddress
<1> QED
  BY <1>1, <1>3 DEF AddressInv

LEMMA DriverAddress ==
  ASSUME StageInv, HandlesInv, AddressInv, DockerStep
  PROVE  AddressInv'
<1>1. CASE MakeMounts \/ WriteFiles \/ PrepareImage \/ Poll \/ NodeStopped \/ GiveUp \/ Expire
  <2>1. UNCHANGED <<containers, running, addr, handles>>
    BY <1>1 DEF MakeMounts, WriteFiles, PrepareImage, Poll, NodeStopped, GiveUp, Fail,
       Expire, daemon, engine
  <2> QED
    BY <2>1, AddressKept
<1>7. CASE ApiError
  BY <1>7, ErrorOrStart, AddressKept, StartAddress
<1>2. CASE CreateContainer
  <2>1. UNCHANGED <<running, addr, handles>> /\ containers' = Append(containers, ContainerConfig)
    BY <1>2 DEF CreateContainer, ContainerCreate
  <2>2. Len(containers') = Len(containers) + 1
    BY <2>1, AppendLength DEF StageInv
  <2> QED
    BY <2>1, <2>2, AddressKept
<1>3. CASE StartContainer
  BY <1>3, StartAddress DEF StartContainer, ContainerStart, At, Started
<1>4. CASE InspectContainer
  BY <1>4, InspectAddress
<1>5. ASSUME NEW id \in DOMAIN handles, Follow(id) \/ WaitError(id) \/ LogsError(id)
      PROVE  AddressInv'
  <2>1. UNCHANGED <<containers, running, addr>>
    BY <1>5 DEF Follow, CloseWaitCh, LogsEnd, WaitError, LogsError, daemon, engine
  <2>2. DOMAIN handles[id] = {"ip", "waiter", "tracker"}
    BY DEF HandlesInv
  <2>3. \E state : \/ handles' = [handles EXCEPT ![id].waiter = state]
                   \/ handles' = [handles EXCEPT ![id].tracker = state]
    BY <1>5 DEF Follow, CloseWaitCh, LogsEnd, WaitError, LogsError
  <2>4. /\ DOMAIN handles' = DOMAIN handles
        /\ \A other \in DOMAIN handles : handles'[other].ip = handles[other].ip
    BY <2>2, <2>3
  <2> QED
    BY <2>1, <2>4, AddressKept
<1>6. CASE ContainerReady \/ NodeExit
  <2>1. UNCHANGED <<containers, addr, handles>> /\ running' \subseteq running
    BY <1>6 DEF ContainerReady, NodeExit, ContainerExit, driver, engine
  <2> QED
    BY <2>1, AddressKept
<1> QED
  BY <1>1, <1>2, <1>3, <1>4, <1>5, <1>6, <1>7 DEF DockerStep, DeployStep

LEMMA NextAddress ==
  ASSUME StageInv, HandlesInv, AddressInv, [Next]_vars
  PROVE  AddressInv'
<1>1. ASSUME NEW request, NEW spec, DeployNode(request, spec)
      PROVE  AddressInv'
  BY <1>1, AddressKept DEF DeployNode, Deploy, daemon, engine
<1>2. CASE DeployBootnodeV5 \/ DeployBootnodeV4 \/ SetupEth1Network
  BY <1>1, <1>2 DEF DeployBootnodeV5, DeployBootnodeV4, SetupEth1Network
<1>3. ASSUME NEW client \in ClientNames,
             DeployBeacon(client) \/ \E accounts \in AccountLists : DeployValidator(client, accounts)
      PROVE  AddressInv'
  BY <1>1, <1>3 DEF DeployBeacon, DeployValidator
<1>4. CASE Register \/ AnswerError
  BY <1>4, AddressKept DEF Register, AnswerError, daemon, engine
<1>5. CASE Step
  BY <1>5, DriverAddress DEF Step
<1>6. CASE StopNode
  <2>1. UNCHANGED <<containers, addr, handles>> /\ running' \subseteq running
    BY <1>6 DEF StopNode, Stop, ContainerStop, driver
  <2> QED
    BY <2>1, AddressKept
<1>7. CASE Terminated \/ UNCHANGED vars
  BY <1>7, AddressKept DEF Terminated, vars, docker, driver, daemon, engine
<1> QED
  BY <1>2, <1>3, <1>4, <1>5, <1>6, <1>7 DEF Next

\* A node that is up is at the address the agent has for it, and nothing else is, whatever
\* containers went down and left their addresses to others before (docker.go:174-179).
THEOREM RunningHaveTheirAddress == Spec => []RunningNodeHasItsAddress
<1>1. StageInv /\ [Next]_vars => StageInv'
  BY StepImplements
<1>2. StageInv /\ StageInv' /\ HandlesInv /\ [Next]_vars => HandlesInv'
  BY NextHandles
<1>3. StageInv /\ HandlesInv /\ AddressInv /\ [Next]_vars => AddressInv'
  BY NextAddress
<1>4. AddressInv => RunningNodeHasItsAddress
  BY DEF AddressInv, RunningNodeHasItsAddress
<1>5. Init => StageInv /\ HandlesInv /\ AddressInv
  BY InitStage, InitHandles, InitAddress
<1> QED
  BY <1>1, <1>2, <1>3, <1>4, <1>5, PTL DEF Spec
=============================================================================
