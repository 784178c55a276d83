----------------------------- MODULE AnswerProofs -----------------------------
(***************************************************************************)
(* A deployment that the agent of Server answers is what was asked for.    *)
(* Rests on the invariants of ServerProofs and RegistryProofs.             *)
(***************************************************************************)
EXTENDS RegistryProofs

\* The call still has beacon nodes to deploy, or is deploying one.
Looping(h) == pc[h] = "beacons" \/ (Deploying(h) /\ job[h].name.type = "Beacon")

\* How far a call has come: what it was asked, the nodes it registered and the beacon
\* node of its validator client.
CallProgress(h) ==
    /\ pc[h] # "idle" => reply[h] = Error
    /\ pc[h] \in {"depositList", "nodeList", "nodeStatus"} =>
          req[h].kind \notin {"DeployBeacon", "DeployValidator"}
    /\ Aimed(h) \/ pc[h] \in {"target", "consume"} => req[h].kind = "DeployValidator"
    /\ Looping(h) => Len(job[h].mine) + job[h].left = req[h].beacons
    /\ Aimed(h) \/ pc[h] = "target" => Len(job[h].mine) = req[h].beacons
    /\ Aimed(h) /\ req[h].beacons > 0 => job[h].mine[1] = job[h].target
    /\ pc[h] = "consume" =>
          /\ Len(job[h].mine) = req[h].beacons + 1
          /\ job[h].mine[Len(job[h].mine)] = job[h].id
          /\ req[h].beacons > 0 => containers[job[h].id].target = job[h].mine[1]
    /\ \A k \in DOMAIN job[h].mine : Registered(job[h].mine[k])

\* The keys are the new ones, as many as asked for, or those of the selected tranche.
KeysAsked(keys, r) ==
    IF r.validators > 0 THEN Cardinality(keys) = r.validators
    ELSE r.tranche \in DOMAIN tranches /\ keys = tranches[r.tranche].accounts

\* The keys a call has made or selected.
CallKeys(h) ==
    /\ pc[h] = "select" => req[h].validators = 0
    /\ pc[h] \in {"accounts", "write", "insert"} /\ req[h].kind = "DeployValidator" =>
          req[h].validators > 0
    /\ pc[h] \in {"write", "insert"} => Cardinality(job[h].accounts) = req[h].validators
    /\ Giving(h) => KeysAsked(job[h].accounts, req[h])

\* The validator client that a call with that many beacon nodes registered last.
ValidatorAsked(ids, r) ==
    LET validator == containers[ids[Len(ids)]]
    IN  /\ Len(ids) = r.beacons + 1
        /\ validator.name.type = "Validator"
        /\ KeysAsked(validator.keys, r)
        /\ r.beacons > 0 => validator.target = ids[1]

AnswerAsked(a, r) ==
    /\ a.ok /\ r.kind = "DeployBeacon" => Len(a.nodes) = r.beacons
    /\ a.ok /\ r.kind = "DeployValidator" => ValidatorAsked(a.nodes, r)
    /\ \A k \in DOMAIN a.nodes : Registered(a.nodes[k])

AnswerInv ==
    \A h \in Handlers : CallProgress(h) /\ CallKeys(h) /\ AnswerAsked(reply[h], req[h])

\* All that is known of the calls.
AllInv == IInv /\ TargetInv /\ OwnerInv /\ AnswerInv

LEMMA ErrorAsked == \A r : AnswerAsked(Error, r)
  BY DEF AnswerAsked, Error

LEMMA InitAnswer == Init => AnswerInv
  <1> SUFFICES ASSUME Init, NEW h \in Handlers
               PROVE  CallProgress(h) /\ CallKeys(h) /\ AnswerAsked(reply[h], req[h])
    BY DEF AnswerInv
  <1>1. pc[h] = "idle" /\ reply[h] = Error /\ job[h].mine = <<>>
    BY DEF Init, InitWith, NoJob
  <1>2. CallProgress(h)
    BY <1>1 DEF CallProgress, Aimed, Looping, Deploying
  <1>3. CallKeys(h)
    BY <1>1 DEF CallKeys, Giving, Deploying
  <1> QED
    BY <1>1, <1>2, <1>3, ErrorAsked

-----------------------------------------------------------------------------
(* What stays true of a call while others run. *)

LEMMA RegisteredStays ==
    ASSUME TypeInv, [Next]_vars
    PROVE  \A id : Registered(id) =>
              /\ Registered(id)'
              /\ id \in 1..Len(containers)
              /\ containers'[id] = containers[id]
  BY NodesGrow DEF Registered, TypeInv, TypeOK, NodesOK

LEMMA TranchesGrow ==
    ASSUME TypeInv, LedgerInv, [Next]_vars
    PROVE  \A t \in DOMAIN tranches :
              t \in DOMAIN tranches' /\ tranches'[t].accounts = tranches[t].accounts
  <1> USE DEF TypeInv, TypeOK
  <1>1. ASSUME NEW h \in Handlers, InsertTranche(h)
        PROVE  \A t \in DOMAIN tranches :
                  t \in DOMAIN tranches' /\ tranches'[t].accounts = tranches[t].accounts
    <2>1. job[h].index = Cardinality(DOMAIN tranches) /\ job[h].index \in Nat
      BY <1>1, FS_CardinalityType DEF InsertTranche, At, LedgerInv, CallLedger, LedgerOK
    <2>2. job[h].index \notin DOMAIN tranches
      BY <2>1 DEF LedgerInv, Indexed
    <2> QED
      BY <1>1, <2>2 DEF InsertTranche, Put
  <1>2. ASSUME NEW h \in Handlers, Consume(h)
        PROVE  \A t \in DOMAIN tranches :
                  t \in DOMAIN tranches' /\ tranches'[t].accounts = tranches[t].accounts
    BY <1>2 DEF Consume, LedgerOK, TrancheType
  <1>3. ASSUME NEW h \in Handlers, Step(h), ~InsertTranche(h), ~Consume(h)
        PROVE  UNCHANGED tranches
    BY <1>3 DEF Step, DepositList, NodeList, NodeStatus, MakeDeposits, WriteTranche, DeployBeacon,
       NameBeacon, BeaconsDone, PickTarget, SelectTranche, NameValidator, CreateContainer,
       StartContainer, InspectContainer, Register, ledger
  <1>4. ASSUME NEW h \in Handlers, Begins(h)
        PROVE  UNCHANGED tranches
    BY <1>4, BeginShape DEF ledger
  <1>5. CASE Environment
    BY <1>5, EnvironmentShape DEF ledger
  <1> QED
    BY <1>1, <1>2, <1>3, <1>4, <1>5, NextShape

LEMMA KeysAskedStays ==
    ASSUME TypeInv, LedgerInv, [Next]_vars
    PROVE  \A keys, r : KeysAsked(keys, r) => KeysAsked(keys, r)'
  BY TranchesGrow DEF KeysAsked

LEMMA AnswerStays ==
    ASSUME TypeInv, LedgerInv, [Next]_vars, NEW a, NEW r, a.nodes \in Seq(Nat), r.beacons \in Nat,
           AnswerAsked(a, r)
    PROVE  AnswerAsked(a, r)'
  <1>1. \A k \in DOMAIN a.nodes : Registered(a.nodes[k])'
    BY RegisteredStays DEF AnswerAsked
  <1>2. ASSUME a.ok, r.kind = "DeployValidator"
        PROVE  ValidatorAsked(a.nodes, r)'
    <2>1. ValidatorAsked(a.nodes, r)
      BY <1>2 DEF AnswerAsked
    <2>2. Len(a.nodes) \in DOMAIN a.nodes
      BY <2>1 DEF ValidatorAsked
    <2>3. containers'[a.nodes[Len(a.nodes)]] = containers[a.nodes[Len(a.nodes)]]
      BY <2>2, RegisteredStays DEF AnswerAsked
    <2> QED
      BY <2>1, <2>3, KeysAskedStays DEF ValidatorAsked
  <1> QED
    BY <1>1, <1>2 DEF AnswerAsked

\* A call that is left alone knows what it knew.
LEMMA CallKept ==
    ASSUME AllInv, [Next]_vars, NEW g \in Handlers,
           pc'[g] = pc[g], job'[g] = job[g], req'[g] = req[g], reply'[g] = reply[g]
    PROVE  CallProgress(g)' /\ CallKeys(g)' /\ AnswerAsked(reply[g], req[g])'
  <1> USE DEF AllInv, IInv, TypeInv, TypeOK
  <1>1. CallProgress(g) /\ CallKeys(g) /\ AnswerAsked(reply[g], req[g])
    BY DEF AnswerInv
  <1>2. /\ job[g].mine \in Seq(Nat) /\ req[g].beacons \in Nat
        /\ reply[g].nodes \in Seq(Nat)
    BY RequestTyped DEF CallsOK, ReplyType, JobType
  <1>3. pc[g] = "consume" => containers'[job[g].id] = containers[job[g].id]
    <2>1. pc[g] = "consume" => Registered(job[g].id)
      BY <1>1, <1>2 DEF CallProgress
    <2> QED
      BY <2>1, RegisteredStays
  <1>4. CallProgress(g)'
    BY <1>1, <1>3, RegisteredStays DEF CallProgress, Aimed, Looping, Deploying
  <1>5. CallKeys(g)'
    BY <1>1, KeysAskedStays DEF CallKeys, Giving, Deploying
  <1>6. AnswerAsked(reply[g], req[g])'
    BY <1>1, <1>2, AnswerStays
  <1> QED
    BY <1>4, <1>5, <1>6

\* It is enough to look at the call that takes the step.
LEMMA AnswerStep ==
    ASSUME AllInv, [Next]_vars, NEW h \in Handlers, Step(h),
           CallProgress(h)' /\ CallKeys(h)' /\ AnswerAsked(reply[h], req[h])'
    PROVE  AnswerInv'
  <1> USE DEF AllInv, IInv, TypeInv, TypeOK
  <1>1. UNCHANGED req /\ \A g \in Handlers \ {h} : pc'[g] = pc[g] /\ job'[g] = job[g]
    BY StepShape, StepKeepsRequests
  <1>2. \A g \in Handlers \ {h} : reply'[g] = reply[g]
    BY DEF Step, DepositList, NodeList, NodeStatus, MakeDeposits, WriteTranche, InsertTranche,
       DeployBeacon, NameBeacon, BeaconsDone, PickTarget, Target, SelectTranche, NameValidator,
       CreateContainer, StartContainer, InspectContainer, Register, Consume, Goto, Return, Fail,
       CallsOK
  <1> QED
    BY <1>1, <1>2, CallKept DEF AnswerInv

\* A call that returns has only its answer left.
LEMMA ReturnAsked ==
    ASSUME AllInv, [Next]_vars, NEW h \in Handlers, Step(h), NEW r, Return(h, r),
           AnswerAsked(r, req[h])'
    PROVE  AnswerInv'
  <1>1. pc'[h] = "idle" /\ job'[h].mine = <<>> /\ reply'[h] = r
    BY DEF Return, NoJob, AllInv, IInv, TypeInv, TypeOK, CallsOK
  <1>2. CallProgress(h)' /\ CallKeys(h)'
    BY <1>1 DEF CallProgress, CallKeys, Aimed, Looping, Giving, Deploying
  <1> QED
    BY <1>1, <1>2, AnswerStep

LEMMA ErrorReturned ==
    ASSUME AllInv, [Next]_vars, NEW h \in Handlers, Step(h),
           Return(h, Error) \/ \E f : Fail(h, f)
    PROVE  AnswerInv'
  <1>1. AnswerAsked(Error, req[h])'
    BY DEF AnswerAsked, Error
  <1> QED
    BY <1>1, ReturnAsked DEF Fail

\* A call that goes on has no answer yet.
LEMMA GoesOn ==
    ASSUME AllInv, [Next]_vars, NEW h \in Handlers, Step(h), UNCHANGED reply,
           CallProgress(h)', CallKeys(h)'
    PROVE  AnswerInv'
  <1>1. pc[h] # "idle"
    BY StepShape DEF AllInv, IInv, TypeInv, TypeOK, Outside
  <1>2. reply'[h] = Error
    BY <1>1 DEF AllInv, AnswerInv, CallProgress
  <1>3. AnswerAsked(reply[h], req[h])'
    BY <1>2 DEF AnswerAsked, Error
  <1> QED
    BY <1>3, AnswerStep

-----------------------------------------------------------------------------
(* Every step keeps it. *)

LEMMA BeginAnswers ==
    ASSUME AllInv, [Next]_vars, NEW h \in Handlers, Begins(h)
    PROVE  AnswerInv'
  <1> USE DEF AllInv, IInv, TypeInv, TypeOK
  <1>0. job[h].mine = <<>>
    BY BeginShape DEF TargetInv, CallTarget
  <1>1. job'[h].mine = <<>>
    BY <1>0, BeginShape, RequestTyped DEF JobType
  <1>2. \A g \in Handlers \ {h} :
           pc'[g] = pc[g] /\ job'[g] = job[g] /\ req'[g] = req[g] /\ reply'[g] = reply[g]
    BY BeginShape DEF Begins, Arrive, RefuseNoName, Lock, CallsOK
  <1>3. \/ reply'[h] = Error
        \/ reply' = reply /\ pc[h] = "waiting"
    BY DEF Begins, Arrive, RefuseNoName, Lock, At, CallsOK
  <1>4. reply'[h] = Error
    BY <1>3 DEF AnswerInv, CallProgress
  <1>5. \/ pc'[h] \in Outside
        \/ /\ pc'[h] = FirstStep(req[h].kind)
           /\ req'[h] = req[h]
           /\ job'[h].left = req[h].beacons
    BY RequestTyped DEF Begins, Arrive, RefuseNoName, Lock, At, CallsOK, Outside, JobType
  <1>6. CASE pc'[h] \in Outside
    <2>1. CallProgress(h)' /\ CallKeys(h)'
      BY <1>1, <1>4, <1>6 DEF CallProgress, CallKeys, Aimed, Looping, Giving, Deploying, Outside
    <2>2. AnswerAsked(reply[h], req[h])'
      BY <1>4 DEF AnswerAsked, Error
    <2> QED
      BY <1>2, <2>1, <2>2, CallKept DEF AnswerInv
  <1>7. CASE /\ pc'[h] = FirstStep(req[h].kind) /\ req'[h] = req[h]
             /\ job'[h].left = req[h].beacons
    <2>1. /\ pc'[h] \in Entries
          /\ pc'[h] = "accounts" => req[h].kind = "DepositCreate"
          /\ pc'[h] \in {"depositList", "nodeList", "nodeStatus"} =>
                req[h].kind \notin {"DeployBeacon", "DeployValidator"}
      BY <1>7 DEF FirstStep, Entries
    <2>2. /\ ~Aimed(h)' /\ ~Giving(h)'
          /\ Looping(h)' => pc'[h] = "beacons"
          /\ pc'[h] \notin {"target", "consume", "select", "write", "insert"}
      BY <1>7, <2>1 DEF Aimed, Giving, Looping, Deploying, Entries
    <2>3. req[h].beacons \in Nat
      BY RequestTyped
    <2>4. CallProgress(h)'
      BY <1>1, <1>4, <1>7, <2>1, <2>2, <2>3 DEF CallProgress
    <2>5. CallKeys(h)'
      BY <1>7, <2>1, <2>2 DEF CallKeys
    <2>6. AnswerAsked(reply[h], req[h])'
      BY <1>4 DEF AnswerAsked, Error
    <2> QED
      BY <1>2, <2>4, <2>5, <2>6, CallKept DEF AnswerInv
  <1> QED
    BY <1>5, <1>6, <1>7

LEMMA QueriesAnswer ==
    ASSUME AllInv, [Next]_vars, NEW h \in Handlers,
           DepositList(h) \/ NodeList(h) \/ NodeStatus(h)
    PROVE  AnswerInv'
  <1> USE DEF AllInv, IInv, TypeInv, TypeOK
  <1>1. /\ req[h].kind \notin {"DeployBeacon", "DeployValidator"}
        /\ UNCHANGED <<nodes, req>>
    BY StepKeepsRequests DEF Step, DepositList, NodeList, NodeStatus, At, AnswerInv, CallProgress
  <1>2. ASSUME NEW r, Return(h, r), \A k \in DOMAIN r.nodes : Registered(r.nodes[k])
        PROVE  AnswerInv'
    <2>1. AnswerAsked(r, req[h])'
      BY <1>1, <1>2, RegisteredStays DEF AnswerAsked
    <2> QED
      BY <1>2, <2>1, ReturnAsked DEF Step
  <1>3. CASE DepositList(h)
    BY <1>2, <1>3 DEF DepositList, Answer
  <1>4. CASE NodeList(h)
    BY <1>2, <1>4 DEF NodeList, Answer, Registered
  <1>5. ASSUME NEW i \in DOMAIN nodes, Return(h, Answer(<<nodes[i]>>, {}))
        PROVE  AnswerInv'
    BY <1>2, <1>5 DEF Answer, Registered
  <1>6. CASE NodeStatus(h) /\ UNCHANGED <<pc, req, job, reply>>
    BY <1>6, CallKept DEF AnswerInv
  <1> QED
    BY <1>3, <1>4, <1>5, <1>6 DEF NodeStatus

LEMMA BatchCount ==
    ASSUME NEW n \in Nat, NEW b
    PROVE  Cardinality({b} \X (1..n)) = n
  <1>1. IsFiniteSet({b}) /\ Cardinality({b}) = 1
    BY FS_Singleton
  <1>2. IsFiniteSet(1..n) /\ Cardinality(1..n) = n
    BY FS_Interval
  <1>3. Cardinality({b} \X (1..n)) = Cardinality({b}) * Cardinality(1..n)
    BY <1>1, <1>2, FS_Product
  <1> QED
    BY <1>1, <1>2, <1>3

\* createTranche on the way to a deployment.
LEMMA CreationAnswers ==
    ASSUME AllInv, [Next]_vars, NEW h \in Handlers,
           MakeDeposits(h) \/ WriteTranche(h) \/ InsertTranche(h)
    PROVE  AnswerInv'
  <1> USE DEF AllInv, IInv, TypeInv, TypeOK
  <1>0. Step(h) /\ CallProgress(h) /\ CallKeys(h)
    BY DEF Step, AnswerInv
  <1>1. CASE \E f : Fail(h, f)
    BY <1>0, <1>1, ErrorReturned
  <1>2. ASSUME Return(h, Answer(<<>>, {ToProto(0, [accounts |-> job[h].accounts, validator |-> NoName])})),
               req[h].kind = "DepositCreate"
        PROVE  AnswerInv'
    <2> DEFINE r == Answer(<<>>, {ToProto(0, [accounts |-> job[h].accounts, validator |-> NoName])})
    <2>1. req' = req
      BY <1>0, StepKeepsRequests
    <2>2. r.nodes = <<>> /\ Return(h, r)
      BY <1>2 DEF Answer
    <2> HIDE DEF r
    <2>3. \A a : a.nodes = <<>> => AnswerAsked(a, req[h])'
      BY <1>2, <2>1 DEF AnswerAsked
    <2>4. \A a : a.nodes = <<>> /\ Return(h, a) => AnswerInv'
      BY <1>0, <2>3, ReturnAsked
    <2> QED
      BY <2>2, <2>4
  <1>3. ASSUME UNCHANGED reply,
               pc[h] \in {"accounts", "write", "insert"}, pc'[h] \in {"write", "insert", "name"},
               pc'[h] = "name" => pc[h] = "insert" /\ req[h].kind = "DeployValidator",
               job'[h].mine = job[h].mine, job'[h].target = job[h].target,
               Cardinality(job'[h].accounts) = req[h].validators
        PROVE  AnswerInv'
    <2>1. req' = req /\ reply[h] = Error
      BY <1>0, <1>3, StepKeepsRequests DEF CallProgress
    <2>2. Aimed(h)' => Aimed(h)
      BY <1>3, <2>1 DEF Aimed, Deploying
    <2>3. \A k \in DOMAIN job'[h].mine : Registered(job[h].mine[k])'
      BY <1>0, <1>3, RegisteredStays DEF CallProgress
    <2>4. CallProgress(h)'
      BY <1>0, <1>3, <2>1, <2>2, <2>3 DEF CallProgress, Looping, Deploying
    <2>5. CallKeys(h)'
      BY <1>0, <1>3, <2>1 DEF CallKeys, KeysAsked, Giving, Deploying
    <2> QED
      BY <1>0, <1>3, <2>4, <2>5, GoesOn
  <1>4. CASE MakeDeposits(h) /\ ~\E f : Fail(h, f)
    <2>1. /\ pc[h] = "accounts" /\ pc'[h] = "write" /\ UNCHANGED reply
          /\ job'[h].mine = job[h].mine /\ job'[h].target = job[h].target
          /\ job'[h].accounts = {batch} \X (1..req[h].validators)
      BY <1>4, RequestTyped DEF MakeDeposits, NewAccounts, At, Goto, CallsOK, JobType
    <2>2. Cardinality({batch} \X (1..req[h].validators)) = req[h].validators
      BY RequestTyped, BatchCount
    <2> QED
      BY <1>3, <2>1, <2>2
  <1>5. CASE WriteTranche(h) /\ ~\E f : Fail(h, f)
    <2>1. /\ pc[h] = "write" /\ pc'[h] = "insert" /\ UNCHANGED reply
          /\ job'[h].mine = job[h].mine /\ job'[h].target = job[h].target
          /\ job'[h].accounts = job[h].accounts
      BY <1>5, RequestTyped DEF WriteTranche, At, Goto, CallsOK, JobType
    <2> QED
      BY <1>0, <1>3, <2>1 DEF CallKeys
  <1>6. CASE InsertTranche(h) /\ Goto(h, "name") /\ UNCHANGED job /\ req[h].kind = "DeployValidator"
    <2>1. pc[h] = "insert" /\ pc'[h] = "name" /\ UNCHANGED reply
      BY <1>6 DEF InsertTranche, At, Goto, CallsOK
    <2> QED
      BY <1>0, <1>3, <1>6, <2>1 DEF CallKeys
  <1> QED
    BY <1>1, <1>2, <1>4, <1>5, <1>6 DEF InsertTranche

\* The loop over the beacon nodes.
LEMMA LoopAnswers ==
    ASSUME AllInv, [Next]_vars, NEW h \in Handlers, DeployBeacon(h) \/ BeaconsDone(h)
    PROVE  AnswerInv'
  <1> USE DEF AllInv, IInv, TypeInv, TypeOK
  <1>0. Step(h) /\ CallProgress(h) /\ CallKeys(h) /\ pc[h] = "beacons" /\ Looping(h)
    BY DEF Step, AnswerInv, DeployBeacon, NameBeacon, BeaconsDone, At, Looping
  <1>1. req' = req /\ reply[h] = Error
    BY <1>0, StepKeepsRequests DEF CallProgress
  <1>2. CASE Return(h, Error)
    BY <1>0, <1>2, ErrorReturned
  <1>3. CASE DeployBeacon(h) /\ ~Return(h, Error)
    <2>1. /\ pc'[h] = "create" /\ UNCHANGED reply
          /\ job'[h].mine = job[h].mine /\ job'[h].left = job[h].left
          /\ job'[h].name = Name("Beacon", numOfNodes("Beacon"), req[h].client)
      BY <1>3, RequestTyped DEF DeployBeacon, NameBeacon, Goto, CallsOK, JobType
    <2>2. job'[h].name.type = "Beacon"
      BY <2>1 DEF Name
    <2>3. \A k \in DOMAIN job'[h].mine : Registered(job[h].mine[k])'
      BY <1>0, <2>1, RegisteredStays DEF CallProgress
    <2>4. ~Aimed(h)' /\ ~Giving(h)'
      BY <2>1, <2>2 DEF Aimed, Giving
    <2>5. CallProgress(h)'
      BY <1>0, <1>1, <2>1, <2>3, <2>4 DEF CallProgress
    <2>6. CallKeys(h)'
      BY <2>1, <2>4 DEF CallKeys
    <2> QED
      BY <1>0, <2>1, <2>5, <2>6, GoesOn
  <1>4. CASE /\ BeaconsDone(h) /\ Return(h, Answer(job[h].mine, {}))
             /\ req[h].kind = "DeployBeacon"
    <2>1. PICK r : r = Answer(job[h].mine, {})
      OBVIOUS
    <2>2. r.nodes = job[h].mine /\ Len(job[h].mine) = req[h].beacons
      <3>1. job[h].left = 0 /\ Len(job[h].mine) + job[h].left = req[h].beacons
        BY <1>0, <1>4 DEF BeaconsDone, CallProgress
      <3>2. Len(job[h].mine) \in Nat
        BY RequestTyped DEF JobType
      <3> QED
        BY <2>1, <3>1, <3>2 DEF Answer
    <2>3. AnswerAsked(r, req[h])'
      BY <1>0, <1>1, <1>4, <2>2, RegisteredStays DEF AnswerAsked, CallProgress
    <2> QED
      BY <1>0, <1>4, <2>1, <2>3, ReturnAsked
  <1>5. CASE BeaconsDone(h) /\ Goto(h, "target") /\ UNCHANGED job /\ req[h].kind = "DeployValidator"
    <2>1. pc'[h] = "target" /\ UNCHANGED <<reply, job>>
      BY <1>5 DEF Goto, CallsOK
    <2>2. Len(job[h].mine) = req[h].beacons
      <3>1. job[h].left = 0 /\ Len(job[h].mine) + job[h].left = req[h].beacons
        BY <1>0, <1>5 DEF BeaconsDone, CallProgress
      <3>2. Len(job[h].mine) \in Nat
        BY RequestTyped DEF JobType
      <3> QED
        BY <3>1, <3>2
    <2>3. \A k \in DOMAIN job'[h].mine : Registered(job[h].mine[k])'
      BY <1>0, <2>1, RegisteredStays DEF CallProgress
    <2>4. ~Aimed(h)' /\ ~Giving(h)' /\ ~Looping(h)'
      BY <2>1 DEF Aimed, Giving, Looping, Deploying
    <2>5. CallProgress(h)'
      BY <1>1, <1>5, <2>1, <2>2, <2>3, <2>4 DEF CallProgress
    <2>6. CallKeys(h)'
      BY <2>1, <2>4 DEF CallKeys
    <2> QED
      BY <1>0, <2>1, <2>5, <2>6, GoesOn
  <1> QED
    BY <1>2, <1>3, <1>4, <1>5 DEF BeaconsDone

\* The choice of the beacon node and of the tranche, and the name of the validator client.
LEMMA ChoicesAnswer ==
    ASSUME AllInv, [Next]_vars, NEW h \in Handlers,
           PickTarget(h) \/ SelectTranche(h) \/ NameValidator(h)
    PROVE  AnswerInv'
  <1> USE DEF AllInv, IInv, TypeInv, TypeOK
  <1>0. /\ Step(h) /\ CallProgress(h) /\ CallKeys(h)
        /\ pc[h] \in {"target", "select", "name"}
        /\ Aimed(h) \/ pc[h] = "target"
    BY DEF Step, AnswerInv, PickTarget, SelectTranche, NameValidator, At, Aimed
  <1>1. /\ req' = req /\ reply[h] = Error
        /\ req[h].kind = "DeployValidator"
        /\ Len(job[h].mine) = req[h].beacons
        /\ job[h].mine \in Seq(Nat) /\ req[h].beacons \in Nat /\ req[h].validators \in Nat
    BY <1>0, StepKeepsRequests, RequestTyped DEF CallProgress, JobType
  <1>2. CASE Return(h, Error)
    BY <1>0, <1>2, ErrorReturned
  <1>3. ASSUME UNCHANGED reply, job'[h].mine = job[h].mine, Aimed(h)', ~Looping(h)',
               pc'[h] \notin {"idle", "target", "consume", "depositList", "nodeList", "nodeStatus"},
               req[h].beacons > 0 => job[h].mine[1] = job'[h].target,
               CallKeys(h)'
        PROVE  AnswerInv'
    <2>1. \A k \in DOMAIN job'[h].mine : Registered(job[h].mine[k])'
      BY <1>0, <1>3, RegisteredStays DEF CallProgress
    <2>2. CallProgress(h)'
      BY <1>1, <1>3, <2>1 DEF CallProgress
    <2> QED
      BY <1>0, <1>3, <2>2, GoesOn
  <1>4. ASSUME PickTarget(h), NEW id, Target(h, id), job[h].mine # <<>> => id = Head(job[h].mine)
        PROVE  AnswerInv'
    <2>1. /\ pc'[h] = IF req[h].validators = 0 THEN "select" ELSE "accounts"
          /\ UNCHANGED reply
          /\ job'[h].mine = job[h].mine /\ job'[h].target = id
      BY <1>4, RequestTyped DEF Target, Goto, CallsOK, JobType
    <2>2. Aimed(h)' /\ ~Looping(h)' /\ ~Giving(h)'
      BY <1>1, <2>1 DEF Aimed, Looping, Giving, Deploying
    <2>3. CallKeys(h)'
      BY <1>1, <2>1, <2>2 DEF CallKeys
    <2>4. req[h].beacons > 0 => job[h].mine[1] = id
      BY <1>1, <1>4
    <2> QED
      BY <1>3, <2>1, <2>2, <2>3, <2>4
  <1>5. CASE SelectTranche(h) /\ ~Return(h, Error)
    <2> DEFINE index == req[h].tranche
    <2>1. /\ pc[h] = "select" /\ pc'[h] = "name" /\ UNCHANGED <<reply, tranches>>
          /\ index \in DOMAIN tranches
          /\ job' = [job EXCEPT ![h] = [@ EXCEPT !.index = index,
                                                 !.accounts = tranches[index].accounts]]
      BY <1>5 DEF SelectTranche, At, Goto, ledger, CallsOK
    <2>2. /\ job'[h].mine = job[h].mine /\ job'[h].target = job[h].target
          /\ job'[h].accounts = tranches[index].accounts
      BY <2>1, RequestTyped DEF CallsOK, JobType
    <2>3. Aimed(h) /\ Aimed(h)' /\ ~Looping(h)' /\ req[h].validators = 0
      BY <1>0, <2>1 DEF Aimed, Looping, Deploying, CallKeys
    <2>4. CallKeys(h)'
      BY <1>1, <2>1, <2>2, <2>3 DEF CallKeys, KeysAsked
    <2> QED
      BY <1>0, <1>3, <2>1, <2>2, <2>3, <2>4 DEF CallProgress
  <1>6. CASE NameValidator(h) /\ ~Return(h, Error)
    <2>1. /\ pc[h] = "name" /\ pc'[h] = "create" /\ UNCHANGED <<reply, tranches>>
          /\ job'[h].mine = job[h].mine /\ job'[h].target = job[h].target
          /\ job'[h].accounts = job[h].accounts
          /\ job'[h].name = Name("Validator", numOfNodes("Validator"), req[h].client)
      BY <1>6, RequestTyped DEF NameValidator, At, Goto, ledger, CallsOK, JobType
    <2>2. job'[h].name.type = "Validator"
      BY <2>1 DEF Name
    <2>3. Aimed(h) /\ Giving(h) /\ Aimed(h)' /\ ~Looping(h)'
      BY <2>1, <2>2 DEF Aimed, Looping, Giving, Deploying
    <2>4. CallKeys(h)'
      BY <1>0, <1>1, <2>1, <2>3 DEF CallKeys, KeysAsked
    <2> QED
      BY <1>0, <1>3, <2>1, <2>3, <2>4 DEF CallProgress
  <1> QED
    BY <1>2, <1>4, <1>5, <1>6, <1>0 DEF PickTarget

\* A container that is created, started and inspected on the way.
LEMMA ContainerAnswers ==
    ASSUME AllInv, [Next]_vars, NEW h \in Handlers,
           CreateContainer(h) \/ StartContainer(h) \/ InspectContainer(h)
    PROVE  AnswerInv'
  <1> USE DEF AllInv, IInv, TypeInv, TypeOK
  <1>0. Step(h) /\ CallProgress(h) /\ CallKeys(h) /\ Deploying(h)
    BY DEF Step, AnswerInv, CreateContainer, StartContainer, InspectContainer, At, Deploying
  <1>1. CASE \E f : Fail(h, f)
    BY <1>0, <1>1, ErrorReturned
  <1>2. CASE ~\E f : Fail(h, f)
    <2>1. /\ pc'[h] \in {"start", "inspect", "register"} /\ UNCHANGED <<reply, tranches>>
          /\ job'[h].mine = job[h].mine /\ job'[h].target = job[h].target
          /\ job'[h].left = job[h].left /\ job'[h].name = job[h].name
          /\ job'[h].accounts = job[h].accounts
      BY <1>2, RequestTyped DEF CreateContainer, StartContainer, InspectContainer, At, Goto, ledger,
         CallsOK, JobType
    <2>2. req' = req /\ reply[h] = Error
      BY <1>0, StepKeepsRequests DEF CallProgress, Deploying
    <2>3. /\ Aimed(h)' <=> Aimed(h)
          /\ Looping(h)' <=> Looping(h)
          /\ Giving(h)' <=> Giving(h)
      BY <1>0, <2>1 DEF Aimed, Looping, Giving, Deploying
    <2>4. \A k \in DOMAIN job'[h].mine : Registered(job[h].mine[k])'
      BY <1>0, <2>1, RegisteredStays DEF CallProgress
    <2>5. CallProgress(h)'
      BY <1>0, <2>1, <2>2, <2>3, <2>4 DEF CallProgress
    <2>6. CallKeys(h)'
      BY <1>0, <2>1, <2>2, <2>3 DEF CallKeys, KeysAsked
    <2> QED
      BY <1>0, <2>1, <2>5, <2>6, GoesOn
  <1> QED
    BY <1>1, <1>2

LEMMA RegisterAnswers ==
    ASSUME AllInv, [Next]_vars, NEW h \in Handlers, Register(h)
    PROVE  AnswerInv'
  <1> USE DEF AllInv, IInv, TypeInv, TypeOK
  <1>0. /\ Step(h) /\ CallProgress(h) /\ CallKeys(h)
        /\ pc[h] = "register" /\ Deploying(h)
        /\ req' = req /\ reply' = reply /\ reply[h] = Error
        /\ containers' = containers /\ tranches' = tranches
    BY DEF Step, AnswerInv, Register, At, Goto, Deploying, CallProgress, engine, ledger
  <1>1. PICK id, mine : id = job[h].id /\ mine = job[h].mine
    OBVIOUS
  <1>2. /\ mine \in Seq(Nat) /\ id \in Nat /\ job[h].left \in Nat /\ req[h].beacons \in Nat
    BY <1>1, RequestTyped DEF JobType
  <1>3. /\ Append(mine, id) \in Seq(Nat)
        /\ Len(Append(mine, id)) = Len(mine) + 1
        /\ DOMAIN Append(mine, id) = DOMAIN mine \cup {Len(mine) + 1}
        /\ \A k \in DOMAIN mine : Append(mine, id)[k] = mine[k]
        /\ Append(mine, id)[Len(mine) + 1] = id
    BY <1>2
  <1>4. \A k \in DOMAIN Append(mine, id) : \E i \in DOMAIN nodes' : nodes'[i] = Append(mine, id)[k]
    <2>1. \A k \in DOMAIN mine : \E i \in DOMAIN nodes' : nodes'[i] = mine[k]
      BY <1>0, <1>1, NodesGrow DEF CallProgress, Registered
    <2>2. \E i \in DOMAIN nodes' : nodes'[i] = id
      BY <1>1 DEF Register, NodesOK
    <2> QED
      BY <1>3, <2>1, <2>2
  <1>5. CASE job[h].name.type = "Beacon"
    <2>1. /\ pc'[h] = "beacons"
          /\ job'[h].mine = Append(mine, id) /\ job'[h].left = job[h].left - 1
      BY <1>1, <1>5, RequestTyped DEF Register, Goto, CallsOK, JobType
    <2>2. Looping(h) /\ ~Aimed(h)' /\ ~Giving(h)'
      BY <1>0, <1>5, <2>1 DEF Looping, Aimed, Giving, Deploying
    <2>3. Len(mine) + job[h].left = req[h].beacons
      BY <1>0, <1>1, <2>2 DEF CallProgress
    <2>4. Len(job'[h].mine) + job'[h].left = req[h].beacons
      BY <1>2, <1>3, <2>1, <2>3
    <2>5. CallProgress(h)'
      BY <1>0, <1>4, <2>1, <2>2, <2>4 DEF CallProgress, Registered
    <2>6. CallKeys(h)'
      BY <2>1, <2>2 DEF CallKeys
    <2> QED
      BY <1>0, <2>5, <2>6, GoesOn
  <1>6. CASE job[h].name.type = "Validator"
    <2>1. /\ pc'[h] = "consume"
          /\ job'[h].mine = Append(mine, id) /\ job'[h].id = id
          /\ job'[h].accounts = job[h].accounts
      BY <1>1, <1>6, RequestTyped DEF Register, Goto, CallsOK, JobType
    <2>2. Aimed(h) /\ Giving(h) /\ ~Aimed(h)' /\ ~Looping(h)'
      BY <1>0, <1>6, <2>1 DEF Looping, Aimed, Giving, Deploying
    <2>3. /\ Len(mine) = req[h].beacons
          /\ req[h].kind = "DeployValidator"
          /\ req[h].beacons > 0 => mine[1] = job[h].target
      BY <1>0, <1>1, <2>2 DEF CallProgress
    <2>4. containers[id].target = job[h].target
      BY <1>0, <1>1 DEF TargetInv, CallTarget
    <2>5. req[h].beacons > 0 => containers[id].target = Append(mine, id)[1]
      BY <1>2, <1>3, <2>3, <2>4
    <2>6. CallProgress(h)'
      BY <1>0, <1>3, <1>4, <2>1, <2>2, <2>3, <2>5 DEF CallProgress, Registered
    <2>7. CallKeys(h)'
      BY <1>0, <2>1, <2>2 DEF CallKeys, KeysAsked
    <2> QED
      BY <1>0, <2>6, <2>7, GoesOn
  <1> QED
    BY <1>5, <1>6 DEF Register

LEMMA ConsumeAnswers ==
    ASSUME AllInv, [Next]_vars, NEW h \in Handlers, Consume(h)
    PROVE  AnswerInv'
  <1> USE DEF AllInv, IInv, TypeInv, TypeOK
  <1>0. /\ Step(h) /\ CallProgress(h) /\ CallKeys(h)
        /\ pc[h] = "consume" /\ Giving(h)
        /\ req' = req /\ containers' = containers /\ nodes' = nodes
        /\ Return(h, Answer(job[h].mine, {}))
    BY DEF Step, AnswerInv, Consume, At, Return, Giving, engine
  <1>1. PICK r, ids : r = Answer(job[h].mine, {}) /\ ids = job[h].mine
    OBVIOUS
  <1>2. r.nodes = ids /\ ids \in Seq(Nat) /\ req[h].beacons \in Nat
    BY <1>1, RequestTyped DEF Answer, JobType
  <1>3. /\ Len(ids) = req[h].beacons + 1
        /\ ids[Len(ids)] = job[h].id
        /\ req[h].kind = "DeployValidator"
        /\ req[h].beacons > 0 => containers[job[h].id].target = ids[1]
    BY <1>0, <1>1 DEF CallProgress
  <1>4. /\ containers[job[h].id].name.type = "Validator"
        /\ containers[job[h].id].keys = job[h].accounts
    <2>1. PICK i \in DOMAIN nodes :
             nodes[i] = job[h].id /\ OwnerNode(i, job[h].name, job[h].accounts)
      BY <1>0 DEF OwnerInv, CallOwner
    <2> QED
      BY <2>1 DEF OwnerNode, OfType
  <1>5. KeysAsked(containers[job[h].id].keys, req[h])
    BY <1>0, <1>4 DEF CallKeys
  <1>6. ValidatorAsked(ids, req[h])
    BY <1>3, <1>4, <1>5 DEF ValidatorAsked
  <1>7. ValidatorAsked(ids, req[h])'
    BY <1>0, <1>6, KeysAskedStays DEF ValidatorAsked
  <1>8. \A k \in DOMAIN ids : Registered(ids[k])'
    BY <1>0, <1>1, RegisteredStays DEF CallProgress
  <1>9. AnswerAsked(r, req[h])'
    BY <1>0, <1>2, <1>3, <1>7, <1>8 DEF AnswerAsked
  <1> QED
    BY <1>0, <1>1, <1>9, ReturnAsked

LEMMA NextAnswer ==
    ASSUME AllInv, [Next]_vars
    PROVE  AnswerInv'
  <1>1. CASE Environment
    BY <1>1, EnvironmentShape, CallKept DEF AnswerInv
  <1> QED
    BY <1>1, NextShape, BeginAnswers, QueriesAnswer, CreationAnswers, LoopAnswers, ChoicesAnswer,
       ContainerAnswers, RegisterAnswers, ConsumeAnswers DEF Step

\* A deployment that succeeded registered the beacon nodes that were asked for and then
\* the validator client with the keys that were asked for, connected to the first of
\* them: for any request, and whatever else runs and fails in the meantime.
THEOREM DeploymentsAreAsAsked == Spec => []DeployedAsAsked
  <1>1. AnswerInv => DeployedAsAsked
    BY DEF AnswerInv, AnswerAsked, ValidatorAsked, KeysAsked, DeployedAsAsked, Registered
  <1>2. AllInv /\ [Next]_vars => AllInv'
    BY NextIInv, NextTarget, NextOwner, NextAnswer DEF AllInv
  <1>3. Init => AllInv
    BY InitIInv, InitTarget, InitOwner, InitAnswer DEF AllInv
  <1>4. AllInv => AnswerInv
    BY DEF AllInv
  <1> QED
    BY <1>1, <1>2, <1>3, <1>4, PTL DEF Spec
=============================================================================
