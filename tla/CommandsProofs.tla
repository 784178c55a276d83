--------------------------- MODULE CommandsProofs ---------------------------
(***************************************************************************)
(* Theorems about Commands: as long as the commands make no request that   *)
(* module Server was not told of, the agent they use is that of module     *)
(* Server, so that what is proved in ServerProofs holds under them; and    *)
(* lists have all that was reported.                                       *)
(***************************************************************************)
EXTENDS Commands, AnswerProofs

\* What the command lines ask of the agent is among its Requests.
RequestsAreKnown == \A line \in CommandLines : Accepts(line) => Request(line) \in Requests

LEMMA InvokeArrives ==
  ASSUME RequestsAreKnown, NEW t \in Terminals, Invoke(t)
  PROVE  \E h \in Handlers : Arrive(h)
<1>1. PICK line \in CommandLines :
         LET h == CHOOSE h \in Fresh : TRUE
         IN  /\ Accepts(line)
             /\ req' = [req EXCEPT ![h] = Request(line)]
             /\ pc' = [pc EXCEPT ![h] = "waiting"]
             /\ reply' = [reply EXCEPT ![h] = Error]
  BY DEF Invoke
<1> DEFINE h == CHOOSE h \in Fresh : TRUE
<1>2. h \in Fresh
  BY DEF Invoke
<1>3. h \in Handlers /\ pc[h] = "idle"
  BY <1>2 DEF Fresh
<1>4. Request(line) \in Requests
  BY <1>1 DEF RequestsAreKnown
<1>5. /\ Alive /\ calls < MaxCalls /\ calls' = calls + 1
      /\ UNCHANGED <<engine, lock, job, ledger, nodes, shutdown>>
  BY DEF Invoke
<1>6. Arrive(h)
  BY <1>1, <1>3, <1>4, <1>5 DEF Arrive
<1> QED
  BY <1>3, <1>6

LEMMA NextIsAgents == RequestsAreKnown /\ [CommandsNext]_allVars => [Next]_vars
<1> SUFFICES ASSUME RequestsAreKnown, [CommandsNext]_allVars PROVE [Next]_vars
  OBVIOUS
<1>1. ASSUME NEW t \in Terminals, Refused(t) PROVE UNCHANGED vars
  BY <1>1 DEF Refused, allVars
<1>2. ASSUME NEW t \in Terminals, Invoke(t) PROVE Next
  BY <1>2, InvokeArrives DEF Next, Call
<1>3. ASSUME NEW t \in Terminals, InvokeReturns(t) PROVE UNCHANGED vars
  BY <1>3 DEF InvokeReturns, Unavailable, Answered
<1>4. ASSUME NEW t \in Terminals, Interrupt(t) PROVE UNCHANGED vars
  BY <1>4 DEF Interrupt
<1>5. CASE Agent
  BY <1>5 DEF Agent, Next, Call
<1>6. CASE UNCHANGED allVars
  BY <1>6 DEF allVars
<1> QED
  BY <1>1, <1>2, <1>3, <1>4, <1>5, <1>6 DEF CommandsNext

\* Whatever is typed in however many terminals, answered or interrupted, the agent takes the
\* steps of module Server and no others (internal/cmd/commands.go, node_deploy_beacon.go:56-59).
THEOREM CommandsRunTheAgent == RequestsAreKnown => (CommandsSpec => AgentUnderCommands)
<1> SUFFICES ASSUME RequestsAreKnown PROVE CommandsSpec => AgentUnderCommands
  OBVIOUS
<1>1. CommandsInit => Init
  BY DEF CommandsInit
<1>2. [CommandsNext]_allVars => [Next]_vars
  BY NextIsAgents
<1> QED
  BY <1>1, <1>2, PTL DEF CommandsSpec, AgentUnderCommands, Spec

\* The same with the fairness of the calls: EveryCallReturns, too, is a matter of module
\* Server alone (server.go:360).
THEOREM CommandsRunFairCalls == RequestsAreKnown => (CommandsSpec => CallSpec)
<1> SUFFICES ASSUME RequestsAreKnown PROVE CommandsSpec => CallSpec
  OBVIOUS
<1>1. CommandsSpec => Spec
  BY CommandsRunTheAgent DEF AgentUnderCommands
<1> QED
  BY <1>1, PTL DEF CommandsSpec, CallSpec

-----------------------------------------------------------------------------
(* A terminal gets a goroutine that serves nobody, and keeps it until its command ends. *)

TerminalsTyped == DOMAIN term = Terminals

\* A command that waits has a goroutine of its own.
OwnHandlers ==
    \A t \in Terminals :
        /\ term[t].handler \in Handlers \cup {NoHandler}
        /\ \A u \in Terminals \ {t} : Waiting(t) => term[u].handler # term[t].handler

LEMMA InitTerminals == CommandsInit => TerminalsTyped /\ OwnHandlers
<1> SUFFICES ASSUME CommandsInit PROVE TerminalsTyped /\ OwnHandlers
  OBVIOUS
<1>1. term = [t \in Terminals |-> Prompt]
  BY DEF CommandsInit
<1>2. Prompt.handler = NoHandler
  BY DEF Prompt
<1> QED
  BY <1>1, <1>2 DEF TerminalsTyped, OwnHandlers, Waiting

LEMMA EndKeepsType ==
  ASSUME TerminalsTyped, OwnHandlers, NEW t \in Terminals,
         term' = [term EXCEPT ![t] = Prompt]
  PROVE  TerminalsTyped' /\ OwnHandlers'
<1>1. /\ DOMAIN term' = Terminals
      /\ \A u \in Terminals : term'[u].handler = IF u = t THEN NoHandler ELSE term[u].handler
  BY DEF TerminalsTyped, Prompt
<1> QED
  BY <1>1 DEF TerminalsTyped, OwnHandlers, Waiting

LEMMA NextTerminals ==
  TerminalsTyped /\ OwnHandlers /\ [CommandsNext]_allVars => TerminalsTyped' /\ OwnHandlers'
<1> SUFFICES ASSUME TerminalsTyped, OwnHandlers, [CommandsNext]_allVars
             PROVE  TerminalsTyped' /\ OwnHandlers'
  OBVIOUS
<1>1. CASE UNCHANGED term
  BY <1>1 DEF TerminalsTyped, OwnHandlers, Waiting
<1>2. ASSUME NEW t \in Terminals, Refused(t) PROVE UNCHANGED term
  BY <1>2 DEF Refused, allVars, cli
<1>3. ASSUME NEW t \in Terminals, Invoke(t) PROVE TerminalsTyped' /\ OwnHandlers'
  <2> DEFINE h == CHOOSE h \in Fresh : TRUE
  <2>1. h \in Fresh
    BY <1>3 DEF Invoke
  <2>2. h \in Handlers /\ \A u \in Terminals : term[u].handler # h
    BY <2>1 DEF Fresh
  <2>3. PICK line \in CommandLines :
            term' = [term EXCEPT ![t] =
                [Prompt EXCEPT !.handler = h, !.command = line.command,
                               !.since = IF line.command \in Lists THEN acked ELSE Nothing]]
    BY <1>3 DEF Invoke
  <2> HIDE DEF h
  <2>4. /\ DOMAIN term' = Terminals
        /\ \A u \in Terminals : term'[u].handler = IF u = t THEN h ELSE term[u].handler
    BY <2>3 DEF TerminalsTyped, Prompt
  <2> QED
    BY <2>2, <2>4 DEF TerminalsTyped, OwnHandlers, Waiting
<1>4. ASSUME NEW t \in Terminals, InvokeReturns(t) \/ Interrupt(t)
      PROVE  TerminalsTyped' /\ OwnHandlers'
  <2>1. term' = [term EXCEPT ![t] = Prompt]
    BY <1>4 DEF InvokeReturns, Unavailable, Answered, Interrupt, Exit1
  <2> QED
    BY <2>1, EndKeepsType
<1>5. CASE Agent
  BY <1>1, <1>5 DEF Agent, cli
<1>6. CASE UNCHANGED allVars
  BY <1>1, <1>6 DEF allVars, cli
<1> QED
  BY <1>1, <1>2, <1>3, <1>4, <1>5, <1>6 DEF CommandsNext

-----------------------------------------------------------------------------
(* What the agent has answered stays true. *)

\* The node is registered, and if it is a validator client its tranche is consumed.
Settled(id) == Registered(id) /\ \A g \in Handlers : pc[g] = "consume" => job[g].id # id

\* A tranche has these keys.
Listed(keys) == \E i \in DOMAIN tranches : tranches[i].accounts = keys

AnswerKnown(answer) ==
    /\ \A k \in DOMAIN answer.nodes : Settled(answer.nodes[k])
    /\ \A s \in answer.stubs : Listed(s.accounts)

Queries == {"depositList", "nodeList", "nodeStatus"}

\* A query is where its kind says, and an answer is of things that are settled.
KnownInv ==
    \A h \in Handlers :
        /\ pc[h] \in Queries => pc[h] = FirstStep(req[h].kind)
        /\ AnswerKnown(reply[h])

\* All that is known of the agent.
AgentInv == AllInv /\ KnownInv

\* The number of a node that is being deployed is taken by nobody.
LEMMA NewNodeIsNew ==
  ASSUME IInv, NEW h \in Handlers, pc[h] = "register"
  PROVE  ~Registered(job[h].id)
<1> SUFFICES ASSUME NEW i \in DOMAIN nodes, nodes[i] = job[h].id PROVE FALSE
  BY DEF Registered
<1>1. /\ NodeName(i) = job[h].name
      /\ job[h].name.type # "OtherType"
      /\ job[h].name.num = numOfNodes(job[h].name.type)
  BY DEF IInv, NameInv, NodeName
<1>2. NodeName(i).num < numOfNodes(NodeName(i).type)
  BY <1>1 DEF IInv, NameInv, NumbersBelowCount
<1>3. numOfNodes(job[h].name.type) \in Nat
  BY CountTyped DEF IInv, TypeInv, TypeOK
<1> QED
  BY <1>1, <1>2, <1>3

\* A call that is about to consume a tranche has just registered its node.
LEMMA ConsumeShape ==
  ASSUME IInv, [Next]_vars, NEW g \in Handlers, pc'[g] = "consume"
  PROVE  job'[g].id = job[g].id /\ pc[g] \in {"register", "consume"}
<1> USE DEF IInv, TypeInv, TypeOK
<1>1. ASSUME NEW h \in Handlers, Begins(h)
      PROVE  job'[g].id = job[g].id /\ pc[g] = "consume"
  BY <1>1, BeginShape DEF Outside, Entries
<1>2. ASSUME NEW h \in Handlers, Step(h), g # h
      PROVE  job'[g].id = job[g].id /\ pc[g] = "consume"
  BY <1>2, StepShape
<1>3. ASSUME Step(g)
      PROVE  job'[g].id = job[g].id /\ pc[g] = "register"
  <2>1. CASE Register(g)
    BY <2>1, RequestTyped DEF Register, At, Goto, CallsOK, JobType
  <2>2. CASE ~Register(g)
    <3>1. pc'[g] # "consume"
      BY <1>3, <2>2, StepShape DEF Step, DepositList, NodeList, NodeStatus, MakeDeposits, WriteTranche,
         InsertTranche, DeployBeacon, NameBeacon, BeaconsDone, PickTarget, Target, SelectTranche,
         NameValidator, CreateContainer, StartContainer, InspectContainer, Consume, At, Goto,
         Return, Fail, CallsOK
    <3> QED
      BY <3>1
  <2> QED
    BY <2>1, <2>2
<1>4. CASE Environment
  BY <1>4, EnvironmentShape
<1> QED
  BY <1>1, <1>2, <1>3, <1>4, NextShape

LEMMA SettledStays ==
  ASSUME IInv, [Next]_vars, NEW id, Settled(id)
  PROVE  Settled(id)'
<1>1. Registered(id)'
  BY RegisteredStays DEF Settled, IInv
<1>2. ASSUME NEW g \in Handlers, pc'[g] = "consume"
      PROVE  job'[g].id # id
  BY <1>2, ConsumeShape, NewNodeIsNew DEF Settled
<1> QED
  BY <1>1, <1>2 DEF Settled

LEMMA ListedStays ==
  ASSUME IInv, [Next]_vars, NEW keys, Listed(keys)
  PROVE  Listed(keys)'
  BY TranchesGrow DEF Listed, IInv

LEMMA KnownStays ==
  ASSUME IInv, [Next]_vars, NEW answer, AnswerKnown(answer)
  PROVE  AnswerKnown(answer)'
  BY SettledStays, ListedStays DEF AnswerKnown

\* While a call works under the lock no other is about to consume a tranche.
LEMMA QuietSettled ==
  ASSUME IInv, NEW h \in Handlers, Step(h), pc'[h] # "consume", NEW id, Registered(id)'
  PROVE  Settled(id)'
<1>1. \A g \in Handlers \ {h} : pc'[g] \in Outside
  BY OthersOutside DEF IInv, TypeInv, TypeOK
<1> QED
  BY <1>1 DEF Settled, Outside
\* Where an answer other than an error comes from.
Created(h) ==
    /\ InsertTranche(h)
    /\ req[h].kind = "DepositCreate"
    /\ reply'[h] = Answer(<<>>, {ToProto(0, [accounts |-> job[h].accounts, validator |-> NoName])})

Deployed(h) ==
    /\ req[h].kind \in {"DeployBeacon", "DeployValidator"}
    /\ reply'[h] = Answer(job[h].mine, {})

LEMMA StepReplies ==
  ASSUME CallsOK, NEW h \in Handlers, CallProgress(h), Step(h)
  PROVE  /\ req' = req
         /\ \A g \in Handlers \ {h} : reply'[g] = reply[g]
         /\ reply'[h] = reply[h] \/ pc'[h] = "idle"
         /\ pc'[h] \in Queries => pc'[h] = pc[h]
         /\ \/ reply'[h] \in {reply[h], Error}
            \/ DepositList(h) \/ NodeList(h) \/ NodeStatus(h)
            \/ Created(h) \/ Deployed(h)
<1> DOMAIN reply = Handlers /\ DOMAIN pc = Handlers
  BY DEF CallsOK
<1> USE DEF Queries
<1>0. req' = req
  BY StepKeepsRequests
<1>1. \A r : Return(h, r) =>
         /\ reply'[h] = r /\ pc'[h] = "idle"
         /\ \A g \in Handlers \ {h} : reply'[g] = reply[g]
  BY DEF Return
<1>2. \A f : Fail(h, f) => Return(h, Error)
  BY DEF Fail
<1>3. \A l : Goto(h, l) => reply' = reply /\ pc'[h] = l
  BY DEF Goto
<1>4. CASE DepositList(h) \/ NodeList(h)
  BY <1>0, <1>1, <1>4 DEF DepositList, NodeList
<1>5. CASE NodeStatus(h)
  BY <1>0, <1>1, <1>5 DEF NodeStatus, At
<1>6. CASE InsertTranche(h)
  BY <1>0, <1>1, <1>3, <1>6 DEF InsertTranche, Created
<1>7. CASE BeaconsDone(h)
  BY <1>0, <1>1, <1>3, <1>7 DEF BeaconsDone, Deployed
<1>8. CASE Consume(h)
  <2>1. req[h].kind = "DeployValidator"
    BY <1>8 DEF Consume, At, CallProgress
  <2> QED
    BY <1>0, <1>1, <1>8, <2>1 DEF Consume, Deployed
<1>9. CASE MakeDeposits(h) \/ WriteTranche(h)
  BY <1>0, <1>1, <1>2, <1>3, <1>9 DEF MakeDeposits, WriteTranche
<1>10. CASE DeployBeacon(h) \/ PickTarget(h) \/ SelectTranche(h) \/ NameValidator(h)
  BY <1>0, <1>1, <1>3, <1>10 DEF DeployBeacon, NameBeacon, PickTarget, Target, SelectTranche,
     NameValidator
<1>11. CASE CreateContainer(h) \/ StartContainer(h) \/ InspectContainer(h) \/ Register(h)
  BY <1>0, <1>1, <1>2, <1>3, <1>11 DEF CreateContainer, StartContainer, InspectContainer, Register
<1> QED
  BY <1>4, <1>5, <1>6, <1>7, <1>8, <1>9, <1>10, <1>11 DEF Step
LEMMA BeginReplies ==
  ASSUME CallsOK, NEW h \in Handlers, Begins(h)
  PROVE  /\ pc'[h] \in Queries => pc'[h] = FirstStep(req'[h].kind)
         /\ reply'[h] \in {reply[h], Error}
         /\ \A g \in Handlers \ {h} : pc'[g] = pc[g] /\ req'[g] = req[g] /\ reply'[g] = reply[g]
<1> DOMAIN reply = Handlers /\ DOMAIN pc = Handlers /\ DOMAIN req = Handlers
  BY DEF CallsOK
<1>1. CASE Arrive(h)
  BY <1>1 DEF Arrive, Queries
<1>2. CASE RefuseNoName(h)
  BY <1>2 DEF RefuseNoName, Queries
<1>3. CASE Lock(h)
  BY <1>3 DEF Lock
<1> QED
  BY <1>1, <1>2, <1>3 DEF Begins

LEMMA NothingAnswered ==
  /\ AnswerKnown(Error)
  /\ AnswerKnown(Error)'
<1>1. Error.stubs = {} /\ Error.nodes = <<>>
  BY DEF Error
<1>2. DOMAIN Error.nodes = {}
  BY <1>1
<1> QED
  BY <1>1, <1>2 DEF AnswerKnown, Error

LEMMA InitKnown == Init => KnownInv
  BY NothingAnswered DEF Init, InitWith, KnownInv, Queries

\* The tranches of an answer are there.
LEMMA StubsAreListed ==
  ASSUME AgentInv, NEW h \in Handlers, Step(h), reply'[h] # reply[h],
         NEW s \in reply'[h].stubs
  PROVE  Listed(s.accounts)'
<1> USE DEF AgentInv, AllInv, IInv, TypeInv, TypeOK
<1>1. CASE DepositList(h)
  <2>1. reply'[h] = Answer(<<>>, {ToProto(i, tranches[i]) : i \in DOMAIN tranches})
    BY <1>1 DEF DepositList, Return, CallsOK
  <2>2. PICK i \in DOMAIN tranches : s = ToProto(i, tranches[i])
    BY <2>1 DEF Answer
  <2>3. s.accounts = tranches[i].accounts /\ tranches' = tranches
    BY <1>1, <2>2 DEF DepositList, ledger, ToProto
  <2> QED
    BY <2>3 DEF Listed
<1>2. CASE NodeList(h)
  BY <1>2 DEF NodeList, Return, CallsOK, Answer
<1>3. CASE NodeStatus(h)
  BY <1>3 DEF NodeStatus, Return, CallsOK, Answer
<1>4. CASE Created(h)
  <2> DEFINE tranche == [accounts |-> job[h].accounts, validator |-> NoName]
  <2>1. s = ToProto(0, tranche)
    BY <1>4 DEF Created, Answer
  <2>2. tranches' = Put(tranches, job[h].index, tranche)
    BY <1>4 DEF Created, InsertTranche
  <2>3. /\ job[h].index \in DOMAIN tranches'
        /\ tranches'[job[h].index] = tranche
    BY <2>2 DEF Put
  <2> QED
    BY <2>1, <2>3 DEF Listed, ToProto
<1>5. CASE reply'[h] = Error \/ Deployed(h)
  BY <1>5 DEF Deployed, Answer, Error
<1> QED
  BY <1>1, <1>2, <1>3, <1>4, <1>5, StepReplies DEF AnswerInv

LEMMA NextKnown ==
  ASSUME AgentInv, [Next]_vars
  PROVE  KnownInv'
<1> USE DEF AgentInv
<1>0. IInv /\ CallsOK
  BY DEF AllInv, IInv, TypeInv, TypeOK
<1>1. \A g \in Handlers : reply'[g] = reply[g] => AnswerKnown(reply[g])'
  <2> TAKE g \in Handlers
  <2> HAVE reply'[g] = reply[g]
  <2>1. AnswerKnown(reply[g])
    BY DEF KnownInv
  <2> DEFINE r == reply[g]
  <2>2. PICK answer : answer = reply[g]
    OBVIOUS
  <2>3. AnswerKnown(answer)'
    BY <1>0, <2>1, <2>2, KnownStays
  <2> QED
    BY <2>2, <2>3 DEF AnswerKnown, Settled, Registered, Listed
<1>2. ASSUME NEW h \in Handlers, Begins(h) PROVE KnownInv'
  <2>1. AnswerKnown(reply[h])'
    <3>1. CASE reply'[h] = reply[h]
      BY <1>1, <3>1
    <3>2. CASE reply'[h] = Error
      BY <3>2, NothingAnswered DEF AnswerKnown, Error
    <3> QED
      BY <1>0, <1>2, <3>1, <3>2, BeginReplies
  <2> QED
    BY <1>0, <1>1, <1>2, <2>1, BeginReplies DEF KnownInv
<1>3. ASSUME NEW h \in Handlers, Step(h) PROVE KnownInv'
  <2>1. \A g \in Handlers \ {h} : pc'[g] = pc[g] /\ req'[g] = req[g] /\ reply'[g] = reply[g]
    BY <1>0, <1>3, StepShape, StepReplies DEF AllInv, AnswerInv
  <2>2. req' = req /\ (pc'[h] \in Queries => pc'[h] = pc[h])
    BY <1>0, <1>3, StepReplies DEF AllInv, AnswerInv
  <2>3. AnswerKnown(reply[h])'
    <3>1. CASE reply'[h] = reply[h]
      BY <1>1, <3>1
    <3>2. CASE reply'[h] # reply[h]
      <4>1. pc'[h] = "idle"
        BY <1>0, <1>3, <3>2, StepReplies DEF AllInv, AnswerInv
      <4>2. AnswerInv'
        BY NextAnswer DEF AllInv
      <4>3. \A k \in DOMAIN reply'[h].nodes : Registered(reply[h].nodes[k])'
        BY <4>2 DEF AnswerInv, AnswerAsked
      <4>4. \A k \in DOMAIN reply'[h].nodes : Settled(reply[h].nodes[k])'
        <5> TAKE k \in DOMAIN reply'[h].nodes
        <5>1. PICK id : id = reply'[h].nodes[k]
          OBVIOUS
        <5>2. Registered(id)'
          BY <4>3, <5>1 DEF Registered
        <5>3. Settled(id)'
          BY <1>0, <1>3, <4>1, <5>2, QuietSettled
        <5> QED
          BY <5>1, <5>3 DEF Settled, Registered
      <4>5. \A s \in reply'[h].stubs : Listed(s.accounts)'
        BY <1>3, <3>2, StubsAreListed
      <4> QED
        BY <4>4, <4>5 DEF AnswerKnown
    <3> QED
      BY <3>1, <3>2
  <2> QED
    BY <1>1, <2>1, <2>2, <2>3 DEF KnownInv
<1>4. CASE Environment
  BY <1>1, <1>4, EnvironmentShape DEF KnownInv
<1> QED
  BY <1>2, <1>3, <1>4, NextShape
-----------------------------------------------------------------------------
(* What the commands know of the agent. *)

\* A tranche has that validator and those keys.
Served(name, keys) ==
    \E i \in DOMAIN tranches : tranches[i].validator = name /\ tranches[i].accounts = keys

LEMMA SettledAreServed ==
  ASSUME IInv, OwnerInv, NEW id, Settled(id), containers[id].name.type = "Validator"
  PROVE  Served(containers[id].name, containers[id].keys)
<1>1. PICK i \in DOMAIN nodes : nodes[i] = id
  BY DEF Settled, Registered
<1>2. i \in OfType("Validator") /\ NodeName(i) = containers[id].name
  BY <1>1 DEF OfType, NodeName
<1>3. ~BeingConsumed(i)
  BY <1>1 DEF Settled, BeingConsumed
<1>4. PICK t0 \in DOMAIN tranches : tranches[t0].validator = NodeName(i)
  BY <1>2, <1>3 DEF OwnerInv, ValidatorsOwn, OwnsOne
<1>5. NodeName(i) # NoName
  BY <1>2 DEF NoName, Name
<1>6. PICK j \in DOMAIN nodes : OwnerNode(j, tranches[t0].validator, tranches[t0].accounts)
  BY <1>4, <1>5 DEF OwnerInv, TranchesOwned
<1>7. j = i
  BY <1>4, <1>6 DEF OwnerNode, IInv, NameInv, NodeNamesUnique
<1> QED
  BY <1>1, <1>2, <1>4, <1>6, <1>7 DEF Served, OwnerNode

\* A list is answered by its own handler.
LEMMA ListsAnswer ==
  ASSUME AgentInv, [Next]_vars, NEW h \in Handlers, reply'[h] # reply[h], reply'[h].ok
  PROVE  /\ req[h].kind = "NodeList" => NodeList(h)
         /\ req[h].kind = "DepositList" => DepositList(h)
<1>0. CallsOK
  BY DEF AgentInv, AllInv, IInv, TypeInv, TypeOK
<1>1. reply'[h] # Error
  BY DEF Error
<1>2. ~Environment
  BY EnvironmentShape
<1>3. \A g \in Handlers : ~Begins(g)
  BY <1>0, <1>1, BeginReplies
<1>4. PICK g \in Handlers : Step(g)
  BY <1>2, <1>3, NextShape
<1>5. \A k \in Handlers : CallProgress(k)
  BY DEF AgentInv, AllInv, AnswerInv
<1>6. g = h
  BY <1>0, <1>4, <1>5, StepReplies
<1>7. DepositList(h) \/ NodeList(h) \/ NodeStatus(h) \/ Created(h) \/ Deployed(h)
  BY <1>0, <1>1, <1>4, <1>5, <1>6, StepReplies
<1>8. pc[h] \in Queries => pc[h] = FirstStep(req[h].kind)
  BY DEF AgentInv, KnownInv
<1>9. CASE DepositList(h)
  BY <1>8, <1>9 DEF DepositList, At, Queries, FirstStep
<1>10. CASE NodeList(h)
  BY <1>8, <1>10 DEF NodeList, At, Queries, FirstStep
<1>11. CASE NodeStatus(h)
  BY <1>8, <1>11 DEF NodeStatus, At, Queries, FirstStep
<1>12. CASE Created(h) \/ Deployed(h)
  BY <1>12 DEF Created, Deployed
<1> QED
  BY <1>7, <1>9, <1>10, <1>11, <1>12

\* What was reported before is settled.
Reported(known) ==
    /\ \A id \in known.nodes : Settled(id)
    /\ \A keys \in known.tranches : Listed(keys)

NodesShown(since, answer) == \A id \in since.nodes : \E k \in DOMAIN answer.nodes : answer.nodes[k] = id

\* Every stub has an index of its own, so that no two are printed alike.
IndexesDiffer(stubs) == \A s, o \in stubs : s.index = o.index => s = o

TranchesShown(since, answer) ==
    /\ IndexesDiffer(answer.stubs)
    /\ \A keys \in since.tranches : \E s \in answer.stubs : s.accounts = keys
    /\ \A id \in since.nodes : containers[id].name.type = "Validator" =>
          \E s \in answer.stubs :
              s.validator = containers[id].name /\ s.accounts = containers[id].keys

\* What is known of the call of a command.
CallKnown(command, since, h) ==
    /\ Reported(since)
    /\ command = "node list" =>
          /\ req[h].kind = "NodeList"
          /\ reply[h].ok => NodesShown(since, reply[h])
    /\ command = "deposit list" =>
          /\ req[h].kind = "DepositList"
          /\ reply[h].ok => TranchesShown(since, reply[h])

LEMMA ReportedStays ==
  ASSUME IInv, [Next]_vars, NEW known, Reported(known)
  PROVE  Reported(known)'
  BY SettledStays, ListedStays DEF Reported

LEMMA NodesAreShown ==
  ASSUME CallsOK, NEW h \in Handlers, NodeList(h), NEW since, Reported(since)
  PROVE  NodesShown(since, reply[h])'
<1>1. reply'[h] = Answer(nodes, {})
  BY DEF NodeList, Return, CallsOK
<1>2. reply'[h].nodes = nodes
  BY <1>1 DEF Answer
<1> QED
  BY <1>2 DEF NodesShown, Reported, Settled, Registered

LEMMA TranchesAreShown ==
  ASSUME IInv, OwnerInv, NEW h \in Handlers, DepositList(h), NEW since, Reported(since)
  PROVE  TranchesShown(since, reply[h])'
<1>1. reply'[h] = Answer(<<>>, {ToProto(i, tranches[i]) : i \in DOMAIN tranches})
  BY DEF DepositList, Return, CallsOK, IInv, TypeInv, TypeOK
<1>2. \A i \in DOMAIN tranches : \E s \in reply'[h].stubs :
         s.accounts = tranches[i].accounts /\ s.validator = tranches[i].validator
  <2> TAKE i \in DOMAIN tranches
  <2>1. reply'[h].stubs = {ToProto(j, tranches[j]) : j \in DOMAIN tranches}
    BY <1>1 DEF Answer
  <2>2. ToProto(i, tranches[i]) \in reply'[h].stubs
    BY <2>1
  <2> WITNESS ToProto(i, tranches[i]) \in reply'[h].stubs
  <2> QED
    BY DEF ToProto
<1>3. containers' = containers
  BY DEF DepositList, engine
<1>4. \A keys \in since.tranches : \E s \in reply'[h].stubs : s.accounts = keys
  BY <1>2 DEF Reported, Listed
<1>5. ASSUME NEW id \in since.nodes, containers[id].name.type = "Validator"
      PROVE  \E s \in reply'[h].stubs :
                s.validator = containers[id].name /\ s.accounts = containers[id].keys
  <2>1. Served(containers[id].name, containers[id].keys)
    BY <1>5, SettledAreServed DEF Reported
  <2> QED
    BY <1>2, <2>1 DEF Served
<1>6. IndexesDiffer(reply[h].stubs)'
  <2>1. reply'[h].stubs = {ToProto(j, tranches[j]) : j \in DOMAIN tranches}
    BY <1>1 DEF Answer
  <2>2. ASSUME NEW s \in reply'[h].stubs, NEW o \in reply'[h].stubs, s.index = o.index
        PROVE  s = o
    <3>1. PICK i \in DOMAIN tranches : s = ToProto(i, tranches[i])
      BY <2>1
    <3>2. PICK j \in DOMAIN tranches : o = ToProto(j, tranches[j])
      BY <2>1
    <3>3. i = j
      BY <2>2, <3>1, <3>2 DEF ToProto
    <3> QED
      BY <3>1, <3>2, <3>3
  <2> QED
    BY <2>2 DEF IndexesDiffer
<1> QED
  BY <1>3, <1>4, <1>5, <1>6 DEF TranchesShown

LEMMA CallKnownStays ==
  ASSUME AgentInv, [Next]_vars, NEW command, NEW since, NEW h \in Handlers, req'[h] = req[h],
         CallKnown(command, since, h)
  PROVE  CallKnown(command, since, h)'
<1>0. IInv /\ OwnerInv /\ CallsOK /\ TypeInv
  BY DEF AgentInv, AllInv, IInv, TypeInv, TypeOK
<1>1. Reported(since)'
  BY <1>0, ReportedStays DEF CallKnown
<1>2. ASSUME reply'[h] = reply[h], TranchesShown(since, reply[h])
      PROVE  TranchesShown(since, reply[h])'
  <2>1. \A id \in since.nodes : containers'[id] = containers[id]
    BY <1>0, RegisteredStays DEF CallKnown, Reported, Settled
  <2> QED
    BY <1>2, <2>1 DEF TranchesShown, IndexesDiffer
<1>3. CASE reply'[h] = reply[h]
  <2>1. NodesShown(since, reply[h]) => NodesShown(since, reply[h])'
    BY <1>3 DEF NodesShown
  <2> QED
    BY <1>1, <1>2, <1>3, <2>1 DEF CallKnown
<1>4. CASE reply'[h] # reply[h] /\ reply'[h].ok
  <2>1. command = "node list" => NodesShown(since, reply[h])'
    BY <1>0, <1>4, ListsAnswer, NodesAreShown DEF CallKnown
  <2>2. command = "deposit list" => TranchesShown(since, reply[h])'
    BY <1>0, <1>4, ListsAnswer, TranchesAreShown DEF CallKnown
  <2> QED
    BY <1>1, <2>1, <2>2 DEF CallKnown
<1>5. CASE ~reply'[h].ok
  BY <1>1, <1>5 DEF CallKnown
<1> QED
  BY <1>3, <1>4, <1>5
\* A command waits for a call that is known, and what all of them reported is settled.
CommandInv ==
    /\ TerminalsTyped
    /\ OwnHandlers
    /\ Reported(acked)
    /\ \A t \in Terminals : Waiting(t) =>
          CallKnown(term[t].command, term[t].since, term[t].handler)

LEMMA NothingReported == Reported(Nothing)
  BY DEF Reported, Nothing

LEMMA InitCommand == CommandsInit => CommandInv
<1> SUFFICES ASSUME CommandsInit PROVE CommandInv
  OBVIOUS
<1>1. \A t \in Terminals : ~Waiting(t)
  BY DEF CommandsInit, Prompt, Waiting
<1>2. Reported(acked)
  BY NothingReported DEF CommandsInit
<1> QED
  BY <1>1, <1>2, InitTerminals DEF CommandInv

\* A terminal that goes on waiting while its call is left alone.
LEMMA CallsStay ==
  ASSUME AgentInv, [Next]_vars, CommandInv, NEW t \in Terminals, Waiting(t), term'[t] = term[t],
         req'[term[t].handler] = req[term[t].handler]
  PROVE  CallKnown(term[t].command, term[t].since, term[t].handler)'
<1>1. PICK command, since, h :
         command = term[t].command /\ since = term[t].since /\ h = term[t].handler
  OBVIOUS
<1>2. h \in Handlers
  BY <1>1 DEF CommandInv, OwnHandlers, Waiting
<1>3. CallKnown(command, since, h)
  BY <1>1 DEF CommandInv
<1>4. CallKnown(command, since, h)'
  BY <1>1, <1>2, <1>3, CallKnownStays
<1>5. term'[t].command = command /\ term'[t].since = since /\ term'[t].handler = h
  BY <1>1
<1> QED
  BY <1>4, <1>5 DEF CallKnown, Reported, Settled, Registered, Listed, NodesShown, TranchesShown,
     IndexesDiffer

\* The requests that commands make for their lists.
LEMMA RequestOfList ==
  ASSUME NEW line
  PROVE  /\ line.command = "node list" => Request(line).kind = "NodeList"
         /\ line.command = "deposit list" => Request(line).kind = "DepositList"
  BY DEF Request, NodeListRequest, DepositListRequest, Bare
LEMMA AgentKeepsRequests == Agent => req' = req
  BY StepKeepsRequests DEF Agent, RefuseNoName, Lock, Signal, Stop, StopNode, Exit, SecondSignal,
     NodeExit, Terminated, vars

\* A command ends, and its terminal waits no more.
LEMMA EndKeepsCalls ==
  ASSUME AgentInv, [Next]_vars, CommandInv, UNCHANGED vars, NEW t \in Terminals,
         term' = [term EXCEPT ![t] = Prompt], Reported(acked)'
  PROVE  CommandInv'
<1>1. TerminalsTyped' /\ OwnHandlers'
  BY EndKeepsType DEF CommandInv
<1>2. DOMAIN term = Terminals
  BY DEF CommandInv, TerminalsTyped
<1>3. ASSUME NEW u \in Terminals, Waiting(u)'
      PROVE  CallKnown(term[u].command, term[u].since, term[u].handler)'
  <2>1. Prompt.handler = NoHandler
    BY DEF Prompt
  <2>2. u # t
    BY <1>2, <1>3, <2>1 DEF Waiting
  <2>3. term'[u] = term[u]
    BY <1>2, <2>2
  <2>4. Waiting(u)
    BY <1>3, <2>3 DEF Waiting
  <2>5. req' = req
    BY DEF vars
  <2> QED
    BY <2>3, <2>4, <2>5, CallsStay
<1> QED
  BY <1>1, <1>3 DEF CommandInv

LEMMA ReturnKeepsCalls ==
  ASSUME AgentInv, CommandInv, NEW t \in Terminals, InvokeReturns(t) \/ Interrupt(t)
  PROVE  CommandInv'
<1>1. UNCHANGED vars /\ term' = [term EXCEPT ![t] = Prompt]
  BY DEF InvokeReturns, Unavailable, Answered, Interrupt, Exit1
<1>2. IInv
  BY DEF AgentInv, AllInv
<1>3. PICK after : after = acked'
  OBVIOUS
<1>4. Reported(after)
  <2>1. CASE acked' = acked
    BY <1>3, <2>1 DEF CommandInv
  <2>2. CASE acked' # acked
    <3> DEFINE r == reply[term[t].handler]
    <3>1. /\ Waiting(t)
          /\ acked' = [nodes    |-> acked.nodes \cup {r.nodes[i] : i \in DOMAIN r.nodes},
                       tranches |-> acked.tranches \cup {s.accounts : s \in r.stubs}]
      BY <2>2 DEF InvokeReturns, Unavailable, Answered, Interrupt, Exit1
    <3>2. term[t].handler \in Handlers
      BY <3>1 DEF CommandInv, OwnHandlers, Waiting
    <3>3. AnswerKnown(r)
      BY <3>2 DEF AgentInv, KnownInv
    <3> HIDE DEF r
    <3>4. after.nodes = acked.nodes \cup {r.nodes[i] : i \in DOMAIN r.nodes}
      BY <1>3, <3>1
    <3>5. after.tranches = acked.tranches \cup {s.accounts : s \in r.stubs}
      BY <1>3, <3>1
    <3>6. \A id \in after.nodes : Settled(id)
      BY <3>3, <3>4 DEF CommandInv, Reported, AnswerKnown
    <3>7. \A keys \in after.tranches : Listed(keys)
      BY <3>3, <3>5 DEF CommandInv, Reported, AnswerKnown
    <3> QED
      BY <3>6, <3>7 DEF Reported
  <2> QED
    BY <2>1, <2>2
<1>5. [Next]_vars
  BY <1>1
<1>6. Reported(after)'
  BY <1>2, <1>4, <1>5, ReportedStays
<1>7. Reported(acked)'
  BY <1>3, <1>6 DEF Reported
<1> QED
  BY <1>1, <1>5, <1>7, EndKeepsCalls

LEMMA InvokeKeepsCalls ==
  ASSUME AgentInv, [Next]_vars, CommandInv, NEW t \in Terminals, Invoke(t)
  PROVE  CallKnown(term[t].command, term[t].since, term[t].handler)' /\ Reported(acked)'
         /\ \A u \in Terminals \ {t} : Waiting(u) =>
                /\ term'[u] = term[u]
                /\ req'[term[u].handler] = req[term[u].handler]
<1>0. IInv /\ CallsOK
  BY DEF AgentInv, AllInv, IInv, TypeInv, TypeOK
<1> DEFINE fresh == CHOOSE g \in Fresh : TRUE
<1>1. fresh \in Fresh
  BY DEF Invoke
<1>2. PICK line \in CommandLines :
         /\ term' = [term EXCEPT ![t] =
               [Prompt EXCEPT !.handler = fresh, !.command = line.command,
                              !.since = IF line.command \in Lists THEN acked ELSE Nothing]]
         /\ req' = [req EXCEPT ![fresh] = Request(line)]
         /\ reply' = [reply EXCEPT ![fresh] = Error]
  BY DEF Invoke
<1>3. PICK h \in Handlers : h = fresh /\ \A u \in Terminals : term[u].handler # h
  BY <1>1 DEF Fresh
<1> HIDE DEF fresh
<1>4. PICK since : since = IF line.command \in Lists THEN acked ELSE Nothing
  OBVIOUS
<1>5. term'[t] = [Prompt EXCEPT !.handler = h, !.command = line.command, !.since = since]
  BY <1>2, <1>3, <1>4 DEF CommandInv, TerminalsTyped
<1>6. term'[t].handler = h /\ term'[t].command = line.command /\ term'[t].since = since
  <2>1. PICK p : p = term'[t]
    OBVIOUS
  <2>2. PICK command : command = line.command
    OBVIOUS
  <2>3. p = [Prompt EXCEPT !.handler = h, !.command = command, !.since = since]
    BY <1>5, <2>1, <2>2
  <2>4. p.handler = h /\ p.command = command /\ p.since = since
    BY <2>3 DEF Prompt
  <2> QED
    BY <2>1, <2>2, <2>4
<1>7. acked' = acked
  BY DEF Invoke
<1>8. Reported(since)
  BY <1>4, NothingReported DEF CommandInv
<1>9. Reported(since)'
  BY <1>0, <1>8, ReportedStays
<1>10. Reported(acked)'
  <2>1. PICK known : known = acked
    OBVIOUS
  <2>2. Reported(known)'
    BY <1>0, <2>1, ReportedStays DEF CommandInv
  <2> QED
    BY <1>7, <2>1, <2>2 DEF Reported
<1>11. req'[h] = Request(line) /\ reply'[h] = Error
  BY <1>0, <1>2, <1>3 DEF CallsOK
<1>12. ~reply'[h].ok
  BY <1>11 DEF Error
<1>13. CallKnown(line.command, since, h)'
  <2>1. line.command = "node list" => req'[h].kind = "NodeList"
    BY <1>11, RequestOfList
  <2>2. line.command = "deposit list" => req'[h].kind = "DepositList"
    BY <1>11, RequestOfList
  <2> QED
    BY <1>9, <1>12, <2>1, <2>2 DEF CallKnown
<1>14. CallKnown(term[t].command, term[t].since, term[t].handler)'
  BY <1>6, <1>13 DEF CallKnown, Reported, NodesShown, TranchesShown,
     IndexesDiffer
<1>15. \A u \in Terminals \ {t} : Waiting(u) =>
          /\ term'[u] = term[u]
          /\ req'[term[u].handler] = req[term[u].handler]
  BY <1>0, <1>2, <1>3 DEF CommandInv, TerminalsTyped, OwnHandlers, Waiting, CallsOK
<1> QED
  BY <1>10, <1>14, <1>15

LEMMA NextCommand ==
  ASSUME RequestsAreKnown, AgentInv, CommandInv, [CommandsNext]_allVars
  PROVE  CommandInv'
<1>0. [Next]_vars
  BY NextIsAgents
<1>1. TerminalsTyped' /\ OwnHandlers'
  BY NextTerminals DEF CommandInv
<1>2. ASSUME UNCHANGED cli, req' = req PROVE CommandInv'
  <2>1. IInv
    BY DEF AgentInv, AllInv
  <2>2. Reported(acked)'
    <3>1. PICK known : known = acked
      OBVIOUS
    <3>2. Reported(known)'
      BY <1>0, <2>1, <3>1, ReportedStays DEF CommandInv
    <3> QED
      BY <1>2, <3>1, <3>2 DEF Reported, cli
  <2>3. ASSUME NEW u \in Terminals, Waiting(u)'
        PROVE  CallKnown(term[u].command, term[u].since, term[u].handler)'
    <3>1. term' = term /\ Waiting(u)
      BY <1>2, <2>3 DEF cli, Waiting
    <3> QED
      BY <1>0, <1>2, <3>1, CallsStay
  <2> QED
    BY <1>1, <2>2, <2>3 DEF CommandInv
<1>3. ASSUME NEW t \in Terminals, Refused(t) PROVE CommandInv'
  BY <1>2, <1>3 DEF Refused, allVars, vars
<1>4. ASSUME NEW t \in Terminals, Invoke(t) PROVE CommandInv'
  <2>1. ASSUME NEW u \in Terminals, u # t, Waiting(u)'
        PROVE  CallKnown(term[u].command, term[u].since, term[u].handler)'
    <3>1. term'[u] = term[u]
      BY <1>4, <2>1 DEF Invoke, CommandInv, TerminalsTyped
    <3>2. Waiting(u)
      BY <2>1, <3>1 DEF Waiting
    <3> QED
      BY <1>0, <1>4, <2>1, <3>1, <3>2, InvokeKeepsCalls, CallsStay
  <2> QED
    BY <1>0, <1>1, <1>4, <2>1, InvokeKeepsCalls DEF CommandInv
<1>5. ASSUME NEW t \in Terminals, InvokeReturns(t) \/ Interrupt(t) PROVE CommandInv'
  BY <1>5, ReturnKeepsCalls
<1>6. CASE Agent
  BY <1>2, <1>6, AgentKeepsRequests DEF Agent
<1>7. CASE UNCHANGED allVars
  BY <1>2, <1>7 DEF allVars, vars
<1> QED
  BY <1>3, <1>4, <1>5, <1>6, <1>7 DEF CommandsNext

\* Where indexes differ, every stub has a row of its own.
LEMMA RowsDiffer ==
  ASSUME NEW stubs, IndexesDiffer(stubs), NEW s \in stubs
  PROVE  HasOwnRow(s, stubs)
<1>1. Row(s) \in formatTranches(stubs)
  BY DEF formatTranches
<1>2. ASSUME NEW o \in stubs, Row(o) = Row(s) PROVE o = s
  <2>1. Row(o).index = o.index /\ Row(s).index = s.index
    BY DEF Row
  <2> QED
    BY <1>2, <2>1 DEF IndexesDiffer
<1> QED
  BY <1>1, <1>2 DEF HasOwnRow

LEMMA ShownIsComplete == CommandInv => ListsAreComplete
<1> SUFFICES ASSUME CommandInv, NEW t \in Terminals, Waiting(t)
             PROVE  LET r == reply[term[t].handler]
                        since == term[t].since
                    IN  /\ term[t].command = "node list" /\ r.ok =>
                              {containers[id].name : id \in since.nodes \cap running}
                                  \subseteq formatNodes(r.nodes)
                        /\ term[t].command = "deposit list" /\ r.ok =>
                              /\ \A keys \in since.tranches :
                                    \E s \in r.stubs : s.accounts = keys /\ HasOwnRow(s, r.stubs)
                              /\ \A id \in since.nodes : containers[id].name.type = "Validator" =>
                                    \E s \in r.stubs :
                                        /\ s.validator = containers[id].name
                                        /\ s.accounts = containers[id].keys
                                        /\ HasOwnRow(s, r.stubs)
  BY DEF ListsAreComplete
<1> DEFINE r == reply[term[t].handler]
           since == term[t].since
<1>1. CallKnown(term[t].command, since, term[t].handler)
  BY DEF CommandInv
<1>2. ASSUME term[t].command = "node list", r.ok, NEW id \in since.nodes
      PROVE  containers[id].name \in formatNodes(r.nodes)
  BY <1>1, <1>2 DEF CallKnown, NodesShown, formatNodes
<1>3. ASSUME term[t].command = "deposit list", r.ok
      PROVE  TranchesShown(since, r) /\ \A s \in r.stubs : HasOwnRow(s, r.stubs)
  <2>1. TranchesShown(since, r)
    BY <1>1, <1>3 DEF CallKnown
  <2>2. PICK stubs : stubs = r.stubs
    OBVIOUS
  <2>3. IndexesDiffer(stubs)
    BY <2>1, <2>2 DEF TranchesShown, IndexesDiffer
  <2>4. \A s \in stubs : HasOwnRow(s, stubs)
    BY <2>3, RowsDiffer
  <2> QED
    BY <2>1, <2>2, <2>4
<1>4. ASSUME term[t].command = "deposit list", r.ok, NEW keys \in since.tranches
      PROVE  \E s \in r.stubs : s.accounts = keys /\ HasOwnRow(s, r.stubs)
  BY <1>3, <1>4 DEF TranchesShown
<1>5. ASSUME term[t].command = "deposit list", r.ok, NEW id \in since.nodes,
             containers[id].name.type = "Validator"
      PROVE  \E s \in r.stubs :
                 /\ s.validator = containers[id].name
                 /\ s.accounts = containers[id].keys
                 /\ HasOwnRow(s, r.stubs)
  BY <1>3, <1>5 DEF TranchesShown
<1> QED
  BY <1>2, <1>4, <1>5

\* A list has what commands have reported before it was asked for, whichever calls run and fail
\* in between: the nodes, as far as they still run, and the stub with just the accounts of each
\* deposit's tranche and with the validator client a tranche went to, in a row of its own
\* (server.go:325-332, 542-548; node_list.go:54-63, deposit_list.go:53-65).
THEOREM ListsShowAll == RequestsAreKnown => (CommandsSpec => []ListsAreComplete)
<1> SUFFICES ASSUME RequestsAreKnown PROVE CommandsSpec => []ListsAreComplete
  OBVIOUS
<1>1. CommandsInit => AgentInv /\ CommandInv
  BY InitIInv, InitTarget, InitOwner, InitAnswer, InitKnown, InitCommand
     DEF CommandsInit, AgentInv, AllInv
<1>2. AgentInv /\ CommandInv /\ [CommandsNext]_allVars => (AgentInv /\ CommandInv)'
  <2> SUFFICES ASSUME AgentInv, CommandInv, [CommandsNext]_allVars
               PROVE  (AgentInv /\ CommandInv)'
    OBVIOUS
  <2>1. [Next]_vars
    BY NextIsAgents
  <2>2. AllInv'
    BY <2>1, NextIInv, NextTarget, NextOwner, NextAnswer DEF AgentInv, AllInv
  <2>3. KnownInv'
    BY <2>1, NextKnown
  <2>4. CommandInv'
    BY NextCommand
  <2> QED
    BY <2>2, <2>3, <2>4 DEF AgentInv
<1>3. CommandInv => ListsAreComplete
  BY ShownIsComplete
<1> QED
  BY <1>1, <1>2, <1>3, PTL DEF CommandsSpec
=============================================================================
