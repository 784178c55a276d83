---------------------------- MODULE ServerProofs ----------------------------
(***************************************************************************)
(* Theorems about Server, for any set of handlers and of requests and any  *)
(* mix of failures.                                                        *)
(***************************************************************************)
EXTENDS Server, FiniteSetTheorems, TLAPS

-----------------------------------------------------------------------------
(* Type correctness. *)

\* The container of a call that is past its creation exists, and a beacon node is
\* only deployed while some are left to deploy.
JobInv ==
    \A h \in Handlers :
        /\ pc[h] \in {"start", "inspect", "register"} => job[h].id \in 1..Len(containers)
        /\ pc[h] \in {"create", "start", "inspect", "register"} /\ job[h].name.type = "Beacon"
               => job[h].left > 0

TypeInv == TypeOK /\ JobInv

LEMMA SeqMonotone ==
    ASSUME NEW S, NEW T, S \subseteq T, NEW s \in Seq(S)
    PROVE  s \in Seq(T)
  OBVIOUS

LEMMA NamesTyped ==
    /\ NoName \in Names
    /\ \A n \in Nat, c \in Clients \cup {OtherClient} :
           /\ Name("Beacon", n, c) \in Names
           /\ Name("Validator", n, c) \in Names
           /\ Name("OtherType", n, c) \in Names
  BY DEF NoName, Name, Names

LEMMA ErrorTyped == Error \in ReplyType
  BY DEF Error, ReplyType

LEMMA NoJobTyped == NoJob \in JobType
  BY NamesTyped DEF NoJob, JobType, NoContainer

\* Returning, and so failing, leaves every call well typed.
LEMMA ReturnTyped ==
    ASSUME CallsOK, JobInv, NEW h \in Handlers, NEW r \in ReplyType, Return(h, r),
           UNCHANGED containers
    PROVE  CallsOK' /\ JobInv'
  <1>1. CallsOK'
    BY NoJobTyped DEF CallsOK, Return, Labels
  <1>2. JobInv'
    BY DEF JobInv, CallsOK, Return
  <1> QED
    BY <1>1, <1>2

LEMMA FailTyped ==
    ASSUME CallsOK, JobInv, NEW h \in Handlers, NEW f, Fail(h, f), UNCHANGED containers
    PROVE  CallsOK' /\ JobInv'
  BY ReturnTyped, ErrorTyped DEF Fail

\* So does going on to another step with locals that are good enough for it.
LEMMA GotoTyped ==
    ASSUME CallsOK, JobInv, NEW h \in Handlers, NEW l \in Labels, NEW j \in JobType,
           Goto(h, l), job' = [job EXCEPT ![h] = j], UNCHANGED containers,
           l \in {"start", "inspect", "register"} => j.id \in 1..Len(containers),
           l \in {"create", "start", "inspect", "register"} /\ j.name.type = "Beacon"
               => j.left > 0
    PROVE  CallsOK' /\ JobInv'
  <1>1. CallsOK'
    BY DEF CallsOK, Goto
  <1>2. JobInv'
    BY DEF JobInv, CallsOK, Goto
  <1> QED
    BY <1>1, <1>2

LEMMA IdTyped ==
    ASSUME NEW j \in JobType, NEW id \in Nat
    PROVE  [j EXCEPT !.id = id] \in JobType
  BY DEF JobType

LEMMA RequestTyped ==
    ASSUME CallsOK, NEW h \in Handlers
    PROVE  /\ req[h].beacons \in Nat /\ req[h].validators \in Nat /\ req[h].tranche \in Nat
           /\ req[h].client \in Clients \cup {OtherClient}
           /\ job[h] \in JobType
  BY RequestsAssumption DEF CallsOK, RequestType

\* The number of nodes of a type is a natural number.
LEMMA CountTyped ==
    ASSUME NodesOK, NEW type
    PROVE  IsFiniteSet(OfType(type)) /\ numOfNodes(type) \in Nat
  <1>1. IsFiniteSet(1..Len(nodes))
    BY FS_Interval DEF NodesOK
  <1>2. OfType(type) \subseteq 1..Len(nodes)
    BY DEF OfType, NodesOK
  <1> QED
    BY <1>1, <1>2, FS_Subset, FS_CardinalityType DEF numOfNodes

LEMMA InitTyped == Init => TypeInv
  <1> SUFFICES ASSUME Init PROVE TypeInv
    OBVIOUS
  <1> USE DEF Init, InitWith
  <1>1. EngineOK
    BY NamesTyped DEF EngineOK, ContainerType, NoContainer
  <1>2. NodesOK
    BY DEF NodesOK
  <1>3. LedgerOK
    <2>1. DOMAIN tranches = 0..(NumTranches - 1) /\ IsFiniteSet(DOMAIN tranches)
      BY FS_Interval, NumbersAssumption
    <2> QED
      BY <2>1, NamesTyped, NumbersAssumption DEF LedgerOK, TrancheType, Accounts
  <1>4. CallsOK
    BY NoJobTyped, ErrorTyped, RequestsAssumption DEF CallsOK, Labels
  <1>5. ShutdownOK
    BY DEF ShutdownOK
  <1>6. JobInv
    BY DEF JobInv
  <1> QED
    BY <1>1, <1>2, <1>3, <1>4, <1>5, <1>6 DEF TypeInv, TypeOK

\* Every step keeps the types.
LEMMA NextTyped ==
    ASSUME TypeInv, [Next]_vars
    PROVE  TypeInv'
  <1> USE DEF TypeInv, TypeOK
  <1>1. ASSUME NEW h \in Handlers, Arrive(h)
        PROVE  TypeInv'
    <2> USE <1>1 DEF Arrive, engine, ledger, shutdown
    <2>1. CallsOK'
      BY ErrorTyped DEF CallsOK, Labels
    <2>2. JobInv'
      BY DEF JobInv, CallsOK
    <2> QED
      BY <2>1, <2>2 DEF EngineOK, NodesOK, LedgerOK, ShutdownOK
  <1>2. ASSUME NEW h \in Handlers, RefuseNoName(h)
        PROVE  TypeInv'
    <2> USE <1>2 DEF RefuseNoName, engine, ledger, shutdown
    <2>1. CallsOK'
      BY DEF CallsOK, Labels
    <2>2. JobInv'
      BY DEF JobInv, CallsOK
    <2> QED
      BY <2>1, <2>2 DEF EngineOK, NodesOK, LedgerOK, ShutdownOK
  <1>3. ASSUME NEW h \in Handlers, Lock(h)
        PROVE  TypeInv'
    <2> USE <1>3 DEF Lock, engine, ledger, shutdown
    <2>1. FirstStep(req[h].kind) \in Labels \ {"create", "start", "inspect", "register"}
      BY DEF FirstStep, Labels
    <2>2. CallsOK'
      BY <2>1, RequestTyped DEF CallsOK, JobType
    <2>3. JobInv'
      BY <2>1 DEF JobInv, CallsOK
    <2> QED
      BY <2>2, <2>3 DEF EngineOK, NodesOK, LedgerOK, ShutdownOK
  <1>4. ASSUME NEW h \in Handlers, DepositList(h)
        PROVE  TypeInv'
    <2> USE <1>4 DEF DepositList, engine, ledger, shutdown
    <2>1. Answer(<<>>, {ToProto(i, tranches[i]) : i \in DOMAIN tranches}) \in ReplyType
      BY DEF Answer, ReplyType, StubType, ToProto, LedgerOK, TrancheType
    <2> QED
      BY <2>1, ReturnTyped DEF EngineOK, NodesOK, LedgerOK, ShutdownOK
  <1>5. ASSUME NEW h \in Handlers, NodeList(h)
        PROVE  TypeInv'
    <2> USE <1>5 DEF NodeList, engine, ledger, shutdown
    <2>1. nodes \in Seq(Nat)
      BY SeqMonotone DEF NodesOK, EngineOK
    <2>2. Answer(nodes, {}) \in ReplyType
      BY <2>1 DEF Answer, ReplyType
    <2> QED
      BY <2>2, ReturnTyped DEF EngineOK, NodesOK, LedgerOK, ShutdownOK
  <1>6. ASSUME NEW h \in Handlers, NodeStatus(h)
        PROVE  TypeInv'
    <2> USE <1>6 DEF NodeStatus, engine, ledger, shutdown
    <2>1. ASSUME NEW i \in DOMAIN nodes, Return(h, Answer(<<nodes[i]>>, {})), UNCHANGED proc
          PROVE  TypeInv'
      <3>1. nodes[i] \in Nat
        BY DEF NodesOK
      <3>2. Answer(<<nodes[i]>>, {}) \in ReplyType
        BY <3>1 DEF Answer, ReplyType
      <3> QED
        BY <2>1, <3>2, ReturnTyped DEF EngineOK, NodesOK, LedgerOK, ShutdownOK
    <2>2. CASE proc' = "crashed" /\ UNCHANGED <<lock, pc, req, job, reply, calls>>
      BY <2>2 DEF JobInv, CallsOK, EngineOK, NodesOK, LedgerOK, ShutdownOK
    <2> QED
      BY <2>1, <2>2
  <1>7. ASSUME NEW h \in Handlers, MakeDeposits(h)
        PROVE  TypeInv'
    <2> USE <1>7 DEF MakeDeposits, engine, ledger, shutdown
    <2> DEFINE j == [job[h] EXCEPT !.accounts = NewAccounts(req[h].validators)]
    <2>1. NewAccounts(req[h].validators) \subseteq Accounts
      BY RequestTyped DEF NewAccounts, Accounts, LedgerOK
    <2>2. j \in JobType
      BY <2>1, RequestTyped DEF JobType
    <2>3. CallsOK' /\ JobInv'
      BY <2>2, GotoTyped, FailTyped DEF Labels
    <2>4. LedgerOK'
      BY DEF LedgerOK
    <2> QED
      BY <2>3, <2>4 DEF EngineOK, NodesOK, LedgerOK, ShutdownOK
  <1>8. ASSUME NEW h \in Handlers, WriteTranche(h)
        PROVE  TypeInv'
    <2> USE <1>8 DEF WriteTranche, engine, ledger, shutdown
    <2> DEFINE n == Cardinality(DOMAIN tranches)
               j == [job[h] EXCEPT !.index = n]
    <2>1. n \in Nat
      BY FS_CardinalityType DEF LedgerOK
    <2>2. j \in JobType
      BY <2>1, RequestTyped DEF JobType
    <2>3. CallsOK' /\ JobInv'
      BY <2>2, GotoTyped, FailTyped DEF Labels
    <2>4. job[h].accounts \subseteq Accounts
      BY RequestTyped DEF JobType
    <2>5. LedgerOK'
      BY <2>1, <2>4 DEF LedgerOK, Put
    <2> QED
      BY <2>3, <2>5 DEF EngineOK, NodesOK, LedgerOK, ShutdownOK
  <1>9. ASSUME NEW h \in Handlers, InsertTranche(h)
        PROVE  TypeInv'
    <2> USE <1>9 DEF InsertTranche, engine, ledger, shutdown
    <2> DEFINE tranche == [accounts |-> job[h].accounts, validator |-> NoName]
    <2>1. tranche \in TrancheType /\ job[h].index \in Nat
      BY NamesTyped, RequestTyped DEF TrancheType, JobType
    <2>2. Answer(<<>>, {ToProto(0, tranche)}) \in ReplyType
      BY <2>1 DEF Answer, ReplyType, StubType, ToProto, TrancheType
    <2>3. ASSUME Goto(h, "name"), UNCHANGED job
          PROVE  CallsOK' /\ JobInv'
      BY <2>3 DEF Goto, CallsOK, JobInv, Labels
    <2>4. CallsOK' /\ JobInv'
      BY <2>2, <2>3, ReturnTyped
    <2>5. LedgerOK'
      BY <2>1, FS_AddElement DEF LedgerOK, Put
    <2> QED
      BY <2>4, <2>5 DEF EngineOK, NodesOK, LedgerOK, ShutdownOK
  <1>10. ASSUME NEW h \in Handlers, DeployBeacon(h)
        PROVE  TypeInv'
    <2> USE <1>10 DEF DeployBeacon, NameBeacon, engine, ledger, shutdown
    <2> DEFINE j == [job[h] EXCEPT !.name = Name("Beacon", numOfNodes("Beacon"), req[h].client)]
    <2>1. j \in JobType /\ j.left > 0
      BY CountTyped, NamesTyped, RequestTyped DEF JobType
    <2>2. CallsOK' /\ JobInv'
      BY <2>1, GotoTyped, ReturnTyped, ErrorTyped DEF Labels
    <2> QED
      BY <2>2 DEF EngineOK, NodesOK, LedgerOK, ShutdownOK
  <1>11. ASSUME NEW h \in Handlers, BeaconsDone(h)
        PROVE  TypeInv'
    <2> USE <1>11 DEF BeaconsDone, engine, ledger, shutdown
    <2>1. Answer(job[h].mine, {}) \in ReplyType
      BY RequestTyped DEF Answer, ReplyType, JobType
    <2>2. ASSUME Goto(h, "target"), UNCHANGED job
          PROVE  CallsOK' /\ JobInv'
      BY <2>2 DEF Goto, CallsOK, JobInv, Labels
    <2>3. CallsOK' /\ JobInv'
      BY <2>1, <2>2, ReturnTyped
    <2> QED
      BY <2>3 DEF EngineOK, NodesOK, LedgerOK, ShutdownOK
  <1>12. ASSUME NEW h \in Handlers, PickTarget(h)
        PROVE  TypeInv'
    <2> USE <1>12 DEF PickTarget, engine, ledger, shutdown
    <2>1. ASSUME NEW id \in Nat, Target(h, id)
          PROVE  CallsOK' /\ JobInv'
      <3> DEFINE j == [job[h] EXCEPT !.target = id]
      <3>1. j \in JobType
        BY RequestTyped DEF JobType
      <3> QED
        BY <2>1, <3>1, GotoTyped DEF Target, Labels
    <2>2. job[h].mine # <<>> => Head(job[h].mine) \in Nat
      BY RequestTyped DEF JobType
    <2>3. \A i \in DOMAIN nodes : nodes[i] \in Nat
      BY DEF NodesOK
    <2>4. CallsOK' /\ JobInv'
      BY <2>1, <2>2, <2>3, ReturnTyped, ErrorTyped
    <2> QED
      BY <2>4 DEF EngineOK, NodesOK, LedgerOK, ShutdownOK
  <1>13. ASSUME NEW h \in Handlers, SelectTranche(h)
        PROVE  TypeInv'
    <2> USE <1>13 DEF SelectTranche, engine, ledger, shutdown
    <2> DEFINE index == req[h].tranche
               j == [job[h] EXCEPT !.index = index, !.accounts = tranches[index].accounts]
    <2>1. index \in DOMAIN tranches => j \in JobType
      BY RequestTyped DEF JobType, LedgerOK, TrancheType
    <2>2. CallsOK' /\ JobInv'
      BY <2>1, GotoTyped, ReturnTyped, ErrorTyped DEF Labels
    <2> QED
      BY <2>2 DEF EngineOK, NodesOK, LedgerOK, ShutdownOK
  <1>14. ASSUME NEW h \in Handlers, NameValidator(h)
        PROVE  TypeInv'
    <2> USE <1>14 DEF NameValidator, engine, ledger, shutdown
    <2> DEFINE j == [job[h] EXCEPT !.name = Name("Validator", numOfNodes("Validator"), req[h].client)]
    <2>1. j \in JobType /\ j.name.type = "Validator"
      BY CountTyped, NamesTyped, RequestTyped DEF JobType, Name
    <2>2. CallsOK' /\ JobInv'
      BY <2>1, GotoTyped, ReturnTyped, ErrorTyped DEF Labels
    <2> QED
      BY <2>2 DEF EngineOK, NodesOK, LedgerOK, ShutdownOK
  <1>15. ASSUME NEW h \in Handlers, CreateContainer(h)
        PROVE  TypeInv'
    <2> USE <1>15 DEF CreateContainer, ContainerCreate, NextContainer, engine, ledger, shutdown
    <2> DEFINE c == [name |-> job[h].name, keys |-> job[h].accounts, target |-> job[h].target]
               j == [job[h] EXCEPT !.id = Len(containers) + 1]
    <2>0. job[h] \in JobType /\ Len(containers) \in Nat
      BY RequestTyped DEF EngineOK
    <2>1. c \in ContainerType /\ j \in JobType
      <3>1. c \in ContainerType
        BY ONLY <2>0 DEF JobType, ContainerType
      <3>2. j \in JobType
        BY ONLY <2>0, IdTyped
      <3> QED
        BY <3>1, <3>2
    <2>2. CASE UNCHANGED engine
      BY <2>2, FailTyped, GotoTyped DEF EngineOK, NodesOK, LedgerOK, ShutdownOK
    <2>3. ASSUME Goto(h, "start"), containers' = Append(containers, c), UNCHANGED running,
                 job' = [job EXCEPT ![h] = j]
          PROVE  TypeInv'
      <3>1. containers' \in Seq(ContainerType) /\ Len(containers') = Len(containers) + 1
        BY <2>1, <2>3 DEF EngineOK
      <3>2. EngineOK' /\ ShutdownOK' /\ NodesOK'
        BY <2>0, <2>3, <3>1, SeqMonotone DEF EngineOK, ShutdownOK, NodesOK
      <3>3. CallsOK'
        BY <2>1, <2>3 DEF CallsOK, Goto, Labels
      <3>4. JobInv'
        <4>1. Len(containers) + 1 \in 1..Len(containers')
          BY <2>0, <3>1
        <4>2. j.id = Len(containers) + 1 /\ j.name = job[h].name /\ j.left = job[h].left
          BY <2>0 DEF JobType
        <4>3. \A g \in Handlers : job'[g] = IF g = h THEN j ELSE job[g]
          BY <2>3 DEF CallsOK
        <4>4. \A g \in Handlers : pc'[g] = IF g = h THEN "start" ELSE pc[g]
          BY <2>3 DEF CallsOK, Goto
        <4> HIDE DEF j
        <4> QED
          BY <2>0, <3>1, <4>1, <4>2, <4>3, <4>4 DEF JobInv, At
      <3> QED
        BY <3>2, <3>3, <3>4 DEF LedgerOK
    <2> QED
      BY <2>2, <2>3
  <1>16. ASSUME NEW h \in Handlers, StartContainer(h)
        PROVE  TypeInv'
    <2> USE <1>16 DEF StartContainer, ContainerStart, engine, ledger, shutdown
    <2>1. job[h].id \in 1..Len(containers)
      BY DEF JobInv, At
    <2>2. ASSUME Goto(h, "inspect"), UNCHANGED <<job, containers>>
          PROVE  CallsOK' /\ JobInv'
      BY <2>2 DEF Goto, CallsOK, JobInv, Labels, At
    <2>3. CallsOK' /\ JobInv'
      BY <2>2, FailTyped
    <2>4. EngineOK'
      BY <2>1 DEF EngineOK
    <2> QED
      BY <2>3, <2>4 DEF EngineOK, NodesOK, LedgerOK, ShutdownOK
  <1>17. ASSUME NEW h \in Handlers, InspectContainer(h)
        PROVE  TypeInv'
    <2> USE <1>17 DEF InspectContainer, engine, ledger, shutdown
    <2>1. ASSUME Goto(h, "register"), UNCHANGED job
          PROVE  CallsOK' /\ JobInv'
      BY <2>1 DEF Goto, CallsOK, JobInv, Labels, At
    <2>2. CallsOK' /\ JobInv'
      BY <2>1, FailTyped
    <2> QED
      BY <2>2 DEF EngineOK, NodesOK, LedgerOK, ShutdownOK
  <1>18. ASSUME NEW h \in Handlers, Register(h)
        PROVE  TypeInv'
    <2> USE <1>18 DEF Register, engine, ledger, shutdown
    <2> DEFINE mine == Append(job[h].mine, job[h].id)
               beacon == [job[h] EXCEPT !.left = job[h].left - 1, !.mine = mine]
               validator == [job[h] EXCEPT !.mine = mine]
    <2>1. job[h] \in JobType /\ job[h].id \in 1..Len(containers)
      BY RequestTyped DEF JobInv, At
    <2>2. job[h].name.type = "Beacon" => job[h].left > 0
      BY DEF JobInv, At
    <2>3. mine \in Seq(Nat)
      BY <2>1 DEF JobType
    <2>4. validator \in JobType
      BY <2>1, <2>3 DEF JobType
    <2>5. job[h].name.type = "Beacon" => beacon \in JobType
      <3>1. job[h].name.type = "Beacon" => job[h].left - 1 \in Nat
        BY <2>1, <2>2 DEF JobType
      <3> QED
        BY <2>1, <2>3, <3>1 DEF JobType
    <2>6. CallsOK' /\ JobInv'
      <3>1. CASE job[h].name.type = "Beacon"
        <4>1. Goto(h, "beacons") /\ job' = [job EXCEPT ![h] = beacon]
          BY <3>1
        <4> HIDE DEF beacon
        <4> QED
          BY <2>5, <3>1, <4>1, GotoTyped DEF Labels
      <3>2. CASE job[h].name.type = "Validator"
        <4>1. Goto(h, "consume") /\ job' = [job EXCEPT ![h] = validator]
          BY <3>2
        <4> HIDE DEF validator
        <4> QED
          BY <2>4, <4>1, GotoTyped DEF Labels
      <3> QED
        BY <3>1, <3>2
    <2>7. NodesOK'
      BY <2>1 DEF NodesOK
    <2> QED
      BY <2>6, <2>7 DEF EngineOK, NodesOK, LedgerOK, ShutdownOK
  <1>19. ASSUME NEW h \in Handlers, Consume(h)
        PROVE  TypeInv'
    <2> USE <1>19 DEF Consume, engine, ledger, shutdown
    <2>1. job[h].name \in Names /\ Answer(job[h].mine, {}) \in ReplyType
      BY RequestTyped DEF JobType, Answer, ReplyType
    <2>2. CallsOK' /\ JobInv'
      BY <2>1, ReturnTyped
    <2>3. LedgerOK'
      BY <2>1 DEF LedgerOK, TrancheType
    <2> QED
      BY <2>2, <2>3 DEF EngineOK, NodesOK, LedgerOK, ShutdownOK
  <1>20. CASE Signal
    <2> USE <1>20 DEF Signal, engine, ledger, shutdown
    <2>1. nodes \in Seq(0..Len(containers))
      BY SeqMonotone DEF NodesOK, EngineOK
    <2>2. ShutdownOK'
      <3>1. Append(nodes, NoContainer) \in Seq(0..Len(containers))
        BY <2>1 DEF EngineOK, NoContainer
      <3> QED
        BY <2>1, <3>1 DEF ShutdownOK
    <2> QED
      BY <2>2 DEF EngineOK, NodesOK, LedgerOK, CallsOK, JobInv
  <1>21. CASE StopNode
    <2> USE <1>21 DEF StopNode, ContainerStop, engine, ledger, shutdown
    <2>1. ShutdownOK'
      <3>1. snapshot[next] \in Nat
        BY DEF ShutdownOK, EngineOK
      <3>2. unstopped' \subseteq Nat
        BY <3>1 DEF ShutdownOK
      <3>3. snapshot' \in Seq(0..Len(containers'))
        BY DEF ShutdownOK
      <3> QED
        BY <3>2, <3>3 DEF ShutdownOK
    <2>2. EngineOK'
      BY DEF EngineOK
    <2> QED
      BY <2>1, <2>2 DEF NodesOK, LedgerOK, CallsOK, JobInv
  <1>22. CASE Exit \/ SecondSignal \/ Terminated \/ UNCHANGED vars
    BY <1>22 DEF Exit, SecondSignal, Terminated, vars, engine, ledger, shutdown,
       EngineOK, NodesOK, LedgerOK, CallsOK, ShutdownOK, JobInv
  <1>23. CASE NodeExit
    BY <1>23 DEF NodeExit, ContainerExit, ledger, shutdown,
       EngineOK, NodesOK, LedgerOK, CallsOK, ShutdownOK, JobInv
  <1> QED
    BY <1>1, <1>2, <1>3, <1>4, <1>5, <1>6, <1>7, <1>8, <1>9, <1>10, <1>11, <1>12, <1>13, <1>14,
       <1>15, <1>16, <1>17, <1>18, <1>19, <1>20, <1>21, <1>22, <1>23 DEF Next, Call, Step, Stop

\* In every reachable state every variable has its type.
THEOREM TypeCorrect == Spec => []TypeOK
  <1>1. TypeInv => TypeOK
    BY DEF TypeInv
  <1> QED
    BY InitTyped, NextTyped, <1>1, PTL DEF Spec

-----------------------------------------------------------------------------
(* The lock. *)

Outside == {"idle", "waiting"}

\* A call that has work to do holds the lock.
LockInv == \A h \in Handlers : pc[h] \notin Outside => lock = h

\* A step under the lock leaves the other calls alone, and keeps the lock or returns.
LEMMA StepShape ==
    ASSUME CallsOK, NEW h \in Handlers, Step(h)
    PROVE  /\ pc[h] \notin Outside
           /\ \A g \in Handlers \ {h} : pc'[g] = pc[g] /\ job'[g] = job[g]
           /\ \/ lock' = lock /\ pc'[h] \notin Outside
              \/ lock' = NoHandler /\ pc'[h] = "idle"
  <1> DEFINE Shape == /\ pc[h] \notin Outside
                      /\ \A g \in Handlers \ {h} : pc'[g] = pc[g] /\ job'[g] = job[g]
                      /\ \/ lock' = lock /\ pc'[h] \notin Outside
                         \/ lock' = NoHandler /\ pc'[h] = "idle"
  <1> USE DEF CallsOK, At, Goto, Return, Fail, Outside
  <1>1. CASE DepositList(h) \/ NodeList(h) \/ NodeStatus(h)
    BY <1>1 DEF DepositList, NodeList, NodeStatus
  <1>2. CASE MakeDeposits(h) \/ WriteTranche(h) \/ InsertTranche(h)
    BY <1>2 DEF MakeDeposits, WriteTranche, InsertTranche
  <1>3. CASE DeployBeacon(h) \/ BeaconsDone(h)
    BY <1>3 DEF DeployBeacon, NameBeacon, BeaconsDone
  <1>4. CASE PickTarget(h) \/ SelectTranche(h) \/ NameValidator(h)
    BY <1>4 DEF PickTarget, Target, SelectTranche, NameValidator
  <1>5. CASE CreateContainer(h) \/ StartContainer(h) \/ InspectContainer(h)
    BY <1>5 DEF CreateContainer, StartContainer, InspectContainer
  <1>6. CASE Register(h) \/ Consume(h)
    BY <1>6 DEF Register, Consume
  <1> QED
    BY <1>1, <1>2, <1>3, <1>4, <1>5, <1>6 DEF Step

LEMMA NextLocks ==
    ASSUME TypeInv, LockInv, [Next]_vars
    PROVE  LockInv'
  <1> USE DEF LockInv, Outside, TypeInv, TypeOK
  <1>1. ASSUME NEW h \in Handlers, Step(h)
        PROVE  LockInv'
    BY <1>1, StepShape, HandlersAssumption
  <1>2. ASSUME NEW h \in Handlers, Lock(h)
        PROVE  LockInv'
    BY <1>2, HandlersAssumption DEF Lock, CallsOK
  <1>3. ASSUME NEW h \in Handlers, Arrive(h) \/ RefuseNoName(h)
        PROVE  LockInv'
    BY <1>3 DEF Arrive, RefuseNoName, CallsOK
  <1>4. CASE UNCHANGED <<lock, pc>>
    BY <1>4
  <1> QED
    BY <1>1, <1>2, <1>3, <1>4 DEF Next, Call, Stop, Signal, StopNode, Exit, SecondSignal,
       NodeExit, Terminated, vars

\* At most one call works at a time.
LEMMA Exclusion ==
    ASSUME LockInv, NEW g \in Handlers, NEW h \in Handlers, g # h, pc[h] \notin Outside
    PROVE  pc[g] \in Outside
  BY DEF LockInv

-----------------------------------------------------------------------------
(* The names of the nodes. *)

NumbersBelowCount ==
    \A i \in DOMAIN nodes :
        NodeName(i).type # "OtherType" => NodeName(i).num < numOfNodes(NodeName(i).type)

\* The number in a name is below the count of its type, and a call that deploys a
\* node has numbered it with the count as it is now.
NameInv ==
    /\ NumbersBelowCount
    /\ NodeNamesUnique
    /\ \A h \in Handlers :
           /\ pc[h] \in {"create", "start", "inspect", "register"} =>
                 /\ job[h].name.type # "OtherType"
                 /\ job[h].name.num = numOfNodes(job[h].name.type)
           /\ pc[h] \in {"start", "inspect", "register"} =>
                 containers[job[h].id].name = job[h].name

\* What registering a node does to the names and to the counts.
LEMMA AppendNode ==
    ASSUME EngineOK, NodesOK, NEW id \in 1..Len(containers), nodes' = Append(nodes, id),
           UNCHANGED containers
    PROVE  /\ DOMAIN nodes' = DOMAIN nodes \cup {Len(nodes) + 1}
           /\ Len(nodes) + 1 \notin DOMAIN nodes
           /\ \A i \in DOMAIN nodes : nodes'[i] = nodes[i]
           /\ nodes'[Len(nodes) + 1] = id
           /\ \A t : numOfNodes(t)' = IF containers[id].name.type = t THEN numOfNodes(t) + 1
                                                                     ELSE numOfNodes(t)
  <1> USE DEF NodesOK
  <1>1. /\ DOMAIN nodes' = DOMAIN nodes \cup {Len(nodes) + 1}
        /\ Len(nodes) + 1 \notin DOMAIN nodes
        /\ \A i \in DOMAIN nodes : nodes'[i] = nodes[i]
        /\ nodes'[Len(nodes) + 1] = id
    OBVIOUS
  <1>2. ASSUME NEW t
        PROVE  numOfNodes(t)' = IF containers[id].name.type = t THEN numOfNodes(t) + 1
                                                               ELSE numOfNodes(t)
    <2>1. OfType(t)' = IF containers[id].name.type = t THEN OfType(t) \cup {Len(nodes) + 1}
                                                      ELSE OfType(t)
      BY <1>1 DEF OfType
    <2>2. Len(nodes) + 1 \notin OfType(t)
      BY <1>1 DEF OfType
    <2> QED
      BY <2>1, <2>2, CountTyped, FS_AddElement DEF numOfNodes
  <1> QED
    BY <1>1, <1>2

\* A step that touches no node and no container keeps the names in order if the call
\* that takes it is well named wherever it goes.
LEMMA NamesKept ==
    ASSUME NameInv, UNCHANGED <<nodes, containers>>, NEW h \in Handlers,
           \A g \in Handlers \ {h} : pc'[g] = pc[g] /\ job'[g] = job[g],
           pc'[h] \in {"create", "start", "inspect", "register"} =>
              /\ job'[h].name.type # "OtherType"
              /\ job'[h].name.num = numOfNodes(job'[h].name.type),
           pc'[h] \in {"start", "inspect", "register"} =>
              containers[job'[h].id].name = job'[h].name
    PROVE  NameInv'
  <1>1. \A t : numOfNodes(t)' = numOfNodes(t)
    BY DEF numOfNodes, OfType
  <1>2. \A i \in DOMAIN nodes : NodeName(i)' = NodeName(i)
    BY DEF NodeName
  <1> QED
    BY <1>1, <1>2 DEF NameInv, NodeNamesUnique, NumbersBelowCount

LEMMA InitNames == Init => NameInv
  <1> SUFFICES ASSUME Init PROVE NameInv
    OBVIOUS
  <1>1. \A i \in DOMAIN nodes : NodeName(i) = Name("OtherType", i, OtherClient)
    BY DEF Init, InitWith, NodeName
  <1> QED
    BY <1>1 DEF Init, InitWith, NameInv, NodeNamesUnique, NumbersBelowCount, Name

LEMMA NextNames ==
    ASSUME TypeInv, LockInv, NameInv, [Next]_vars
    PROVE  NameInv'
  <1> USE DEF TypeInv, TypeOK
  <1>1. ASSUME NEW h \in Handlers, Arrive(h) \/ RefuseNoName(h) \/ Lock(h)
        PROVE  NameInv'
    <2>1. FirstStep(req[h].kind) \notin {"create", "start", "inspect", "register"}
      BY DEF FirstStep
    <2>2. pc'[h] \notin {"create", "start", "inspect", "register"}
      BY <1>1, <2>1 DEF Arrive, RefuseNoName, Lock, CallsOK
    <2>3. \A g \in Handlers \ {h} : pc'[g] = pc[g] /\ job'[g] = job[g]
      BY <1>1 DEF Arrive, RefuseNoName, Lock, CallsOK
    <2> QED
      BY <1>1, <2>2, <2>3, NamesKept DEF Arrive, RefuseNoName, Lock, engine
  <1>2. ASSUME NEW h \in Handlers, Step(h), UNCHANGED <<nodes, containers>>,
               pc'[h] \notin {"create", "start", "inspect", "register"}
        PROVE  NameInv'
    BY <1>2, StepShape, NamesKept
  <1>3. ASSUME NEW h \in Handlers, DepositList(h) \/ NodeList(h) \/ NodeStatus(h) \/
               MakeDeposits(h) \/ WriteTranche(h) \/ InsertTranche(h) \/ BeaconsDone(h) \/
               PickTarget(h) \/ SelectTranche(h) \/ Consume(h)
        PROVE  NameInv'
    <2>1. /\ pc'[h] \notin {"create", "start", "inspect", "register"}
          /\ UNCHANGED <<nodes, containers>>
      BY <1>3 DEF DepositList, NodeList, NodeStatus, MakeDeposits, WriteTranche, InsertTranche,
         BeaconsDone, PickTarget, Target, SelectTranche, Consume, At, Return, Goto, Fail, engine,
         CallsOK
    <2> QED
      BY <1>2, <1>3, <2>1 DEF Step
  <1>4. ASSUME NEW h \in Handlers, DeployBeacon(h) \/ NameValidator(h)
        PROVE  NameInv'
    <2>1. CASE pc'[h] \notin {"create", "start", "inspect", "register"}
      BY <1>2, <1>4, <2>1 DEF Step, DeployBeacon, NameBeacon, NameValidator, engine
    <2>2. ASSUME NEW t \in {"Beacon", "Validator"}, UNCHANGED <<nodes, containers>>,
                 Goto(h, "create"),
                 job' = [job EXCEPT ![h].name = Name(t, numOfNodes(t), req[h].client)]
          PROVE  NameInv'
      <3>1. \A g \in Handlers \ {h} : pc'[g] = pc[g] /\ job'[g] = job[g]
        BY <2>2 DEF Goto, CallsOK
      <3>2. pc'[h] = "create" /\ job'[h].name = Name(t, numOfNodes(t), req[h].client)
        BY <2>2, RequestTyped DEF Goto, CallsOK, JobType
      <3> QED
        BY <2>2, <3>1, <3>2, NamesKept DEF Name
    <2> QED
      BY <1>4, <2>1, <2>2 DEF DeployBeacon, NameBeacon, NameValidator, Return, engine, CallsOK
  <1>5. ASSUME NEW h \in Handlers, StartContainer(h) \/ InspectContainer(h)
        PROVE  NameInv'
    <2>1. \/ pc'[h] = "idle"
          \/ job'[h] = job[h] /\ pc'[h] \in {"inspect", "register"}
      BY <1>5 DEF StartContainer, InspectContainer, Goto, Fail, Return, CallsOK
    <2>2. /\ job[h].name.type # "OtherType"
          /\ job[h].name.num = numOfNodes(job[h].name.type)
          /\ containers[job[h].id].name = job[h].name
      BY <1>5 DEF StartContainer, InspectContainer, At, NameInv
    <2>3. \A g \in Handlers \ {h} : pc'[g] = pc[g] /\ job'[g] = job[g]
      BY <1>5, StepShape DEF Step
    <2>4. UNCHANGED <<nodes, containers>>
      BY <1>5 DEF StartContainer, InspectContainer, ContainerStart, engine
    <2> QED
      BY <2>1, <2>2, <2>3, <2>4, NamesKept
  <1>6. ASSUME NEW h \in Handlers, CreateContainer(h)
        PROVE  NameInv'
    <2>1. CASE UNCHANGED engine /\ Fail(h, "create")
      BY <1>2, <1>6, <2>1 DEF Step, CreateContainer, Fail, Return, engine, CallsOK
    <2>2. ASSUME NEW c, c.name = job[h].name, containers' = Append(containers, c),
                 Goto(h, "start"), job' = [job EXCEPT ![h].id = Len(containers) + 1]
          PROVE  NameInv'
      <3>1. /\ \A k \in 1..Len(containers) : containers'[k] = containers[k]
            /\ containers'[Len(containers) + 1] = c
        BY <2>2 DEF EngineOK
      <3>2. \A i \in DOMAIN nodes : containers'[nodes[i]] = containers[nodes[i]]
        BY <3>1 DEF NodesOK
      <3>3. UNCHANGED nodes
        BY <1>6 DEF CreateContainer
      <3>4. \A t : numOfNodes(t)' = numOfNodes(t)
        BY <3>2, <3>3 DEF numOfNodes, OfType
      <3>5. \A i \in DOMAIN nodes : NodeName(i)' = NodeName(i)
        BY <3>2, <3>3 DEF NodeName
      <3>6. pc[h] = "create"
        BY <1>6 DEF CreateContainer, At
      <3>7. \A g \in Handlers \ {h} : pc'[g] \in Outside
        BY <2>2, <3>6, Exclusion DEF Goto, CallsOK, Outside
      <3>8. job'[h].name = job[h].name /\ job'[h].id = Len(containers) + 1
        BY <2>2, RequestTyped DEF CallsOK, JobType
      <3> QED
        BY <2>2, <3>1, <3>3, <3>4, <3>5, <3>6, <3>7, <3>8 DEF NameInv, NodeNamesUnique,
           NumbersBelowCount, Outside
    <2> QED
      BY <1>6, <2>1, <2>2 DEF CreateContainer, ContainerCreate, NextContainer
  <1>7. ASSUME NEW h \in Handlers, Register(h)
        PROVE  NameInv'
    <2> DEFINE id == job[h].id
               name == job[h].name
    <2>0. PICK new : new = Len(nodes) + 1
      OBVIOUS
    <2>1. id \in 1..Len(containers) /\ containers[id].name = name
      BY <1>7 DEF Register, At, JobInv, NameInv
    <2>2. name.type # "OtherType" /\ name.num = numOfNodes(name.type) /\ name.num \in Nat
      BY <1>7, RequestTyped DEF Register, At, NameInv, JobType, Names
    <2>3. nodes' = Append(nodes, id) /\ UNCHANGED containers
      BY <1>7 DEF Register, engine
    <2>4. /\ DOMAIN nodes' = DOMAIN nodes \cup {new}
          /\ new \notin DOMAIN nodes
          /\ \A i \in DOMAIN nodes : nodes'[i] = nodes[i]
          /\ nodes'[new] = id
          /\ \A t : numOfNodes(t)' = IF name.type = t THEN numOfNodes(t) + 1 ELSE numOfNodes(t)
      BY <2>0, <2>1, <2>3, AppendNode
    <2>5. /\ \A i \in DOMAIN nodes : NodeName(i)' = NodeName(i)
          /\ NodeName(new)' = name
      BY <2>1, <2>3, <2>4 DEF NodeName
    <2>6. \A t : numOfNodes(t) \in Nat
      BY CountTyped
    <2>7. \A i \in DOMAIN nodes : containers[nodes[i]] \in ContainerType
      BY DEF NodesOK, EngineOK
    <2>8. \A i \in DOMAIN nodes : NodeName(i).num \in Nat
      BY <2>7 DEF NodeName, ContainerType, Names
    <2>9. \A i \in DOMAIN nodes : NodeName(i) # name
      <3> SUFFICES ASSUME NEW i \in DOMAIN nodes, NodeName(i) = name PROVE FALSE
        OBVIOUS
      <3>1. NodeName(i).num < numOfNodes(NodeName(i).type)
        BY <2>2 DEF NameInv, NumbersBelowCount
      <3> QED
        BY <2>2, <2>6, <3>1
    <2>10. NumbersBelowCount'
      BY <2>2, <2>4, <2>5, <2>6, <2>8 DEF NameInv, NumbersBelowCount
    <2>11. NodeNamesUnique'
      BY <2>4, <2>5, <2>9 DEF NodeNamesUnique, NameInv
    <2>12. \A g \in Handlers : pc'[g] \notin {"create", "start", "inspect", "register"}
      BY <1>7, Exclusion DEF Register, At, Goto, CallsOK, Outside
    <2> QED
      BY <2>10, <2>11, <2>12 DEF NameInv
  <1>8. CASE UNCHANGED <<nodes, containers, pc, job>>
    <2>1. \A t : numOfNodes(t)' = numOfNodes(t)
      BY <1>8 DEF numOfNodes, OfType
    <2>2. \A i \in DOMAIN nodes : NodeName(i)' = NodeName(i)
      BY <1>8 DEF NodeName
    <2> QED
      BY <1>8, <2>1, <2>2 DEF NameInv, NodeNamesUnique, NumbersBelowCount
  <1> QED
    BY <1>1, <1>3, <1>4, <1>5, <1>6, <1>7, <1>8 DEF Next, Call, Step, Stop, Signal, StopNode, Exit,
       SecondSignal, NodeExit, ContainerExit, ContainerStop, Terminated, vars, engine

-----------------------------------------------------------------------------
(* The tranches. *)

Indexed == DOMAIN tranches = 0..(Cardinality(DOMAIN tranches) - 1)

KeysDisjoint ==
    \A i, j \in DOMAIN tranches : i # j => tranches[i].accounts \cap tranches[j].accounts = {}

KeysOld == \A i \in DOMAIN tranches : \A a \in tranches[i].accounts : a[1] < batch

\* A consumed tranche has the name of a validator client that was registered.
OwnersOld ==
    \A i \in DOMAIN tranches : IsConsumed(tranches[i]) =>
        tranches[i].validator.type = "Validator" /\ tranches[i].validator.num < numOfNodes("Validator")

Creating(h)  == pc[h] \in {"write", "insert"}
Deploying(h) == pc[h] \in {"create", "start", "inspect", "register"}
Giving(h)    == pc[h] \in {"name", "consume"} \/ (Deploying(h) /\ job[h].name.type = "Validator")

\* What a call knows of its tranche: its keys are new until it is inserted, and it
\* belongs to nobody until it is consumed.
CallLedger(h) ==
    /\ Creating(h) =>
          /\ \A i \in DOMAIN tranches : job[h].accounts \cap tranches[i].accounts = {}
          /\ \A a \in job[h].accounts : a[1] < batch
    /\ pc[h] = "insert" =>
          /\ job[h].index = Cardinality(DOMAIN tranches)
          /\ job[h].index \in DOMAIN files
          /\ files[job[h].index] = job[h].accounts
    /\ Giving(h) =>
          /\ job[h].index \in DOMAIN tranches
          /\ ~IsConsumed(tranches[job[h].index])
    /\ pc[h] = "consume" =>
          /\ job[h].name.type = "Validator"
          /\ job[h].name.num < numOfNodes("Validator")
          /\ \A i \in DOMAIN tranches : IsConsumed(tranches[i]) =>
                tranches[i].validator.num < job[h].name.num

LedgerInv ==
    /\ Indexed
    /\ KeysDisjoint
    /\ KeysOld
    /\ OwnersOld
    /\ TrancheFilesMatch
    /\ \A h \in Handlers : CallLedger(h)

Working == {"write", "insert", "name", "create", "start", "inspect", "register", "consume"}

\* A call that is not working on a tranche knows nothing of one.
LEMMA NothingKnown ==
    ASSUME NEW h \in Handlers, pc'[h] \notin Working
    PROVE  CallLedger(h)'
  BY DEF CallLedger, Creating, Giving, Deploying, Working

\* Under the lock the call that takes the step is the only one that matters.
LEMMA LedgerStep ==
    ASSUME CallsOK, LockInv, NEW h \in Handlers, Step(h), CallLedger(h)'
    PROVE  \A g \in Handlers : CallLedger(g)'
  <1> SUFFICES ASSUME NEW g \in Handlers, g # h PROVE CallLedger(g)'
    OBVIOUS
  <1>1. pc'[g] = pc[g] /\ pc[g] \in Outside
    BY StepShape, Exclusion
  <1> QED
    BY <1>1, NothingKnown DEF Outside, Working

\* A step that leaves the tranches and the count of the validator clients alone.
LEMMA LedgerKept ==
    ASSUME LedgerInv, UNCHANGED <<tranches, files, batch>>,
           numOfNodes("Validator")' = numOfNodes("Validator"),
           \A g \in Handlers : CallLedger(g)'
    PROVE  LedgerInv'
  BY DEF LedgerInv, Indexed, KeysDisjoint, KeysOld, OwnersOld, TrancheFilesMatch

LEMMA InitLedger == Init => LedgerInv
  <1> SUFFICES ASSUME Init PROVE LedgerInv
    OBVIOUS
  <1> USE NumbersAssumption DEF Init, InitWith
  <1>1. DOMAIN tranches = 0..(NumTranches - 1) /\ Cardinality(DOMAIN tranches) = NumTranches
    BY FS_Interval
  <1>2. Indexed
    BY <1>1 DEF Indexed
  <1>3. \A i \in DOMAIN tranches : tranches[i] = [accounts  |-> {i} \X (1..GenesisAccounts),
                                                 validator |-> NoName]
    BY <1>1
  <1>4. KeysDisjoint /\ KeysOld
    BY <1>1, <1>3 DEF KeysDisjoint, KeysOld
  <1>5. OwnersOld /\ TrancheFilesMatch
    BY <1>1, <1>3 DEF OwnersOld, TrancheFilesMatch, IsConsumed
  <1>6. \A h \in Handlers : CallLedger(h)
    BY DEF CallLedger, Creating, Giving, Deploying
  <1> QED
    BY <1>2, <1>4, <1>5, <1>6 DEF LedgerInv

\* The nodes and the containers they were made from stay, and so do the counts.
LEMMA CountKept ==
    ASSUME EngineOK, NodesOK, UNCHANGED nodes,
           \A k \in 1..Len(containers) : containers'[k] = containers[k]
    PROVE  \A t : numOfNodes(t)' = numOfNodes(t)
  <1>1. \A i \in DOMAIN nodes : containers'[nodes[i]] = containers[nodes[i]]
    BY DEF NodesOK
  <1>2. \A t : OfType(t)' = OfType(t)
    BY <1>1 DEF OfType
  <1> QED
    BY <1>2 DEF numOfNodes

LEMMA NextLedger ==
    ASSUME TypeInv, LockInv, NameInv, LedgerInv, [Next]_vars
    PROVE  LedgerInv'
  <1> USE DEF TypeInv, TypeOK
  <1>1. ASSUME NEW h \in Handlers, Arrive(h) \/ RefuseNoName(h) \/ Lock(h)
        PROVE  LedgerInv'
    <2>1. UNCHANGED <<engine, tranches, files, batch, nodes>>
      BY <1>1 DEF Arrive, RefuseNoName, Lock, ledger
    <2>2. \A t : numOfNodes(t)' = numOfNodes(t)
      BY <2>1, CountKept DEF engine
    <2>3. FirstStep(req[h].kind) \notin Working
      BY DEF FirstStep, Working
    <2>4. pc'[h] \notin Working
      BY <1>1, <2>3 DEF Arrive, RefuseNoName, Lock, CallsOK, Working
    <2>5. ASSUME NEW g \in Handlers, g # h
          PROVE  CallLedger(g)'
      <3>1. pc'[g] = pc[g] /\ job'[g] = job[g]
        BY <1>1, <2>5 DEF Arrive, RefuseNoName, Lock, CallsOK
      <3> QED
        BY <2>1, <2>2, <3>1 DEF LedgerInv, CallLedger, Creating, Giving, Deploying
    <2> QED
      BY <2>1, <2>2, <2>4, <2>5, NothingKnown, LedgerKept
  <1>2. ASSUME NEW h \in Handlers, Step(h), UNCHANGED <<engine, tranches, files, batch, nodes>>,
               CallLedger(h)'
        PROVE  LedgerInv'
    <2>1. numOfNodes("Validator")' = numOfNodes("Validator")
      BY <1>2, CountKept DEF engine
    <2> QED
      BY <1>2, <2>1, LedgerStep, LedgerKept
  <1>3. ASSUME NEW h \in Handlers, DepositList(h) \/ NodeList(h) \/ NodeStatus(h) \/
               BeaconsDone(h) \/ PickTarget(h)
        PROVE  LedgerInv'
    <2>1. /\ pc'[h] \notin Working
          /\ UNCHANGED <<engine, tranches, files, batch, nodes>>
      BY <1>3 DEF DepositList, NodeList, NodeStatus, BeaconsDone, PickTarget, Target, At, Return,
         Goto, ledger, CallsOK, Working
    <2> QED
      BY <1>2, <1>3, <2>1, NothingKnown DEF Step
  <1>4. ASSUME NEW h \in Handlers, MakeDeposits(h)
        PROVE  LedgerInv'
    <2>1. /\ UNCHANGED <<engine, tranches, files, nodes>>
          /\ batch' = batch + 1 /\ batch \in Nat
          /\ \/ pc'[h] = "idle"
             \/ /\ pc'[h] = "write"
                /\ job'[h].accounts = {batch} \X (1..req[h].validators)
      BY <1>4, RequestTyped DEF MakeDeposits, NewAccounts, Goto, Fail, Return, CallsOK, JobType,
         LedgerOK
    <2>2. \A t : numOfNodes(t)' = numOfNodes(t)
      BY <2>1, CountKept DEF engine
    <2>3. \A i \in DOMAIN tranches : \A a \in tranches[i].accounts : a[1] \in Nat /\ a[1] < batch
      BY DEF LedgerInv, KeysOld, LedgerOK, TrancheType, Accounts
    <2>4. KeysOld'
      BY <2>1, <2>3 DEF KeysOld
    <2>5. CallLedger(h)'
      BY <2>1, <2>3 DEF CallLedger, Creating, Giving, Deploying
    <2>6. \A g \in Handlers : CallLedger(g)'
      BY <1>4, <2>5, LedgerStep DEF Step
    <2> QED
      BY <2>1, <2>2, <2>4, <2>6 DEF LedgerInv, Indexed, KeysDisjoint, OwnersOld, TrancheFilesMatch
  <1>5. ASSUME NEW h \in Handlers, WriteTranche(h)
        PROVE  LedgerInv'
    <2> DEFINE n == Cardinality(DOMAIN tranches)
    <2>1. n \in Nat /\ n \notin DOMAIN tranches
      BY FS_CardinalityType DEF LedgerInv, Indexed, LedgerOK
    <2>2. /\ UNCHANGED <<engine, tranches, batch, nodes>>
          /\ \A i \in DOMAIN files : i \in DOMAIN files' /\ (i # n => files'[i] = files[i])
          /\ \/ pc'[h] = "idle"
             \/ /\ pc[h] = "write" /\ pc'[h] = "insert"
                /\ job'[h].index = n /\ job'[h].accounts = job[h].accounts
                /\ n \in DOMAIN files' /\ files'[n] = job[h].accounts
      BY <1>5, RequestTyped DEF WriteTranche, Put, Goto, Fail, Return, CallsOK, JobType, At
    <2>3. \A t : numOfNodes(t)' = numOfNodes(t)
      BY <2>2, CountKept DEF engine
    <2>4. CallLedger(h)'
      BY <2>2 DEF LedgerInv, CallLedger, Creating, Giving, Deploying
    <2>5. TrancheFilesMatch'
      BY <2>1, <2>2 DEF LedgerInv, TrancheFilesMatch
    <2>6. \A g \in Handlers : CallLedger(g)'
      BY <1>5, <2>4, LedgerStep DEF Step
    <2> QED
      BY <2>2, <2>3, <2>5, <2>6 DEF LedgerInv, Indexed, KeysDisjoint, KeysOld, OwnersOld
  <1>6. ASSUME NEW h \in Handlers, InsertTranche(h)
        PROVE  LedgerInv'
    <2> DEFINE n == Cardinality(DOMAIN tranches)
               tranche == [accounts |-> job[h].accounts, validator |-> NoName]
    <2>1. n \in Nat /\ DOMAIN tranches = 0..(n - 1) /\ n \notin DOMAIN tranches
      BY FS_CardinalityType DEF LedgerInv, Indexed, LedgerOK
    <2>2. /\ job[h].index = n
          /\ n \in DOMAIN files /\ files[n] = job[h].accounts
          /\ \A i \in DOMAIN tranches : job[h].accounts \cap tranches[i].accounts = {}
          /\ \A a \in job[h].accounts : a[1] < batch
      BY <1>6 DEF InsertTranche, At, LedgerInv, CallLedger, Creating
    <2>3. /\ UNCHANGED <<engine, files, batch, nodes>>
          /\ DOMAIN tranches' = DOMAIN tranches \cup {n}
          /\ \A i \in DOMAIN tranches : tranches'[i] = tranches[i]
          /\ tranches'[n] = tranche
          /\ \/ pc'[h] = "idle"
             \/ pc'[h] = "name" /\ job'[h] = job[h]
      BY <1>6, <2>1, <2>2 DEF InsertTranche, Put, Goto, Return, CallsOK
    <2>4. \A t : numOfNodes(t)' = numOfNodes(t)
      BY <2>3, CountKept DEF engine
    <2>5. Cardinality(DOMAIN tranches') = n + 1
      BY <2>1, <2>3, FS_AddElement DEF LedgerOK
    <2>6. Indexed'
      BY <2>1, <2>3, <2>5 DEF Indexed
    <2>7. KeysDisjoint' /\ KeysOld'
      BY <2>2, <2>3 DEF LedgerInv, KeysDisjoint, KeysOld
    <2>8. OwnersOld' /\ TrancheFilesMatch'
      BY <2>1, <2>2, <2>3, <2>4 DEF LedgerInv, OwnersOld, TrancheFilesMatch, IsConsumed
    <2>9. CallLedger(h)'
      BY <2>2, <2>3 DEF CallLedger, Creating, Giving, Deploying, IsConsumed
    <2>10. \A g \in Handlers : CallLedger(g)'
      BY <1>6, <2>9, LedgerStep DEF Step
    <2> QED
      BY <2>6, <2>7, <2>8, <2>10 DEF LedgerInv
  <1>7. ASSUME NEW h \in Handlers, DeployBeacon(h)
        PROVE  LedgerInv'
    <2>1. /\ UNCHANGED <<engine, tranches, files, batch, nodes>>
          /\ \/ pc'[h] = "idle"
             \/ pc'[h] = "create" /\ job'[h].name.type = "Beacon"
      BY <1>7, RequestTyped DEF DeployBeacon, NameBeacon, Goto, Return, ledger, CallsOK, JobType, Name
    <2>2. CallLedger(h)'
      BY <2>1 DEF CallLedger, Creating, Giving, Deploying
    <2> QED
      BY <1>2, <1>7, <2>1, <2>2 DEF Step
  <1>8. ASSUME NEW h \in Handlers, SelectTranche(h)
        PROVE  LedgerInv'
    <2>1. /\ UNCHANGED <<engine, tranches, files, batch, nodes>>
          /\ \/ pc'[h] = "idle"
             \/ /\ pc'[h] = "name"
                /\ job'[h].index \in DOMAIN tranches
                /\ ~IsConsumed(tranches[job'[h].index])
      BY <1>8, RequestTyped DEF SelectTranche, Goto, Return, ledger, CallsOK, JobType
    <2>2. CallLedger(h)'
      BY <2>1 DEF CallLedger, Creating, Giving, Deploying
    <2> QED
      BY <1>2, <1>8, <2>1, <2>2 DEF Step
  <1>9. ASSUME NEW h \in Handlers, NameValidator(h) \/ StartContainer(h) \/ InspectContainer(h)
        PROVE  LedgerInv'
    <2>1. /\ UNCHANGED <<containers, tranches, files, batch, nodes>>
          /\ \/ pc'[h] = "idle"
             \/ /\ pc[h] = "name" \/ (Deploying(h) /\ job'[h].name.type = job[h].name.type)
                /\ pc'[h] \in {"create", "inspect", "register"}
                /\ job'[h].index = job[h].index
      BY <1>9, RequestTyped DEF NameValidator, StartContainer, InspectContainer, ContainerStart,
         Goto, Fail, Return, ledger, engine, CallsOK, JobType, At, Deploying
    <2>2. CallLedger(h)'
      BY <2>1 DEF LedgerInv, CallLedger, Creating, Giving, Deploying
    <2>3. \A t : numOfNodes(t)' = numOfNodes(t)
      BY <2>1, CountKept
    <2>4. \A g \in Handlers : CallLedger(g)'
      BY <1>9, <2>2, LedgerStep DEF Step
    <2> QED
      BY <2>1, <2>3, <2>4, LedgerKept
  <1>10. ASSUME NEW h \in Handlers, CreateContainer(h)
         PROVE  LedgerInv'
    <2>1. /\ UNCHANGED <<tranches, files, batch, nodes>>
          /\ \A k \in 1..Len(containers) : containers'[k] = containers[k]
          /\ \/ pc'[h] = "idle"
             \/ /\ Deploying(h)
                /\ pc'[h] = "start"
                /\ job'[h].name = job[h].name /\ job'[h].index = job[h].index
      BY <1>10, RequestTyped DEF CreateContainer, ContainerCreate, Goto, Fail, Return, ledger, engine,
         CallsOK, JobType, At, Deploying, EngineOK
    <2>2. CallLedger(h)'
      BY <2>1 DEF LedgerInv, CallLedger, Creating, Giving, Deploying
    <2>3. \A t : numOfNodes(t)' = numOfNodes(t)
      BY <2>1, CountKept
    <2>4. \A g \in Handlers : CallLedger(g)'
      BY <1>10, <2>2, LedgerStep DEF Step
    <2> QED
      BY <2>1, <2>3, <2>4, LedgerKept
  <1>11. ASSUME NEW h \in Handlers, Register(h)
         PROVE  LedgerInv'
    <2> DEFINE count == numOfNodes("Validator")
               name  == job[h].name
    <2>1. job[h].id \in 1..Len(containers) /\ containers[job[h].id].name = name
      BY <1>11 DEF Register, At, JobInv, NameInv
    <2>2. name.num = numOfNodes(name.type) /\ Deploying(h)
      BY <1>11 DEF Register, At, NameInv, Deploying
    <2>3. count' = IF name.type = "Validator" THEN count + 1 ELSE count
      BY <1>11, <2>1, AppendNode DEF Register, engine
    <2>4. count \in Nat
      BY CountTyped
    <2>5. /\ UNCHANGED <<tranches, files, batch>>
          /\ \/ pc'[h] = "beacons"
             \/ /\ name.type = "Validator"
                /\ pc'[h] = "consume"
                /\ job'[h].name = name /\ job'[h].index = job[h].index
      BY <1>11, RequestTyped DEF Register, Goto, ledger, CallsOK, JobType
    <2>6. \A i \in DOMAIN tranches : tranches[i].validator.num \in Nat
      BY DEF LedgerOK, TrancheType, Names
    <2>7. OwnersOld'
      BY <2>3, <2>4, <2>5, <2>6 DEF LedgerInv, OwnersOld
    <2>8. CallLedger(h)'
      BY <2>2, <2>3, <2>4, <2>5 DEF LedgerInv, OwnersOld, CallLedger, Creating, Giving, Deploying
    <2>9. \A g \in Handlers : CallLedger(g)'
      BY <1>11, <2>8, LedgerStep DEF Step
    <2> QED
      BY <2>5, <2>7, <2>9 DEF LedgerInv, Indexed, KeysDisjoint, KeysOld, TrancheFilesMatch
  <1>12. ASSUME NEW h \in Handlers, Consume(h)
         PROVE  LedgerInv'
    <2> DEFINE n == job[h].index
    <2>1. /\ n \in DOMAIN tranches
          /\ job[h].name.type = "Validator" /\ job[h].name.num < numOfNodes("Validator")
      BY <1>12 DEF Consume, At, LedgerInv, CallLedger, Giving
    <2>2. /\ UNCHANGED <<engine, files, batch, nodes>>
          /\ pc'[h] = "idle"
          /\ DOMAIN tranches' = DOMAIN tranches
          /\ \A i \in DOMAIN tranches :
                /\ tranches'[i].accounts = tranches[i].accounts
                /\ tranches'[i].validator = IF i = n THEN job[h].name ELSE tranches[i].validator
      BY <1>12 DEF Consume, Return, CallsOK, LedgerOK, TrancheType
    <2>3. \A t : numOfNodes(t)' = numOfNodes(t)
      BY <2>2, CountKept DEF engine
    <2>4. Indexed' /\ KeysDisjoint' /\ KeysOld' /\ TrancheFilesMatch'
      BY <2>2 DEF LedgerInv, Indexed, KeysDisjoint, KeysOld, TrancheFilesMatch
    <2>5. OwnersOld'
      BY <2>1, <2>2, <2>3 DEF LedgerInv, OwnersOld, IsConsumed
    <2>6. CallLedger(h)'
      BY <2>2, NothingKnown DEF Working
    <2>7. \A g \in Handlers : CallLedger(g)'
      BY <1>12, <2>6, LedgerStep DEF Step
    <2> QED
      BY <2>4, <2>5, <2>7 DEF LedgerInv
  <1>13. CASE UNCHANGED <<containers, ledger, nodes, pc, job>>
    <2>1. \A t : numOfNodes(t)' = numOfNodes(t)
      BY <1>13, CountKept
    <2>2. \A g \in Handlers : CallLedger(g)'
      BY <1>13, <2>1 DEF LedgerInv, CallLedger, Creating, Giving, Deploying, ledger
    <2> QED
      BY <1>13, <2>1, <2>2, LedgerKept DEF ledger
  <1> QED
    BY <1>1, <1>3, <1>4, <1>5, <1>6, <1>7, <1>8, <1>9, <1>10, <1>11, <1>12, <1>13 DEF Next, Call,
       Step, Stop, Signal, StopNode, Exit, SecondSignal, NodeExit, ContainerExit, ContainerStop,
       Terminated, vars, engine

-----------------------------------------------------------------------------
(* The inductive invariant, and what follows from it. *)

\* The types, the lock, the names and the ledger, each of which needs those before it.
IInv == TypeInv /\ LockInv /\ NameInv /\ LedgerInv

LEMMA InitIInv == Init => IInv
  <1>1. Init => LockInv
    BY DEF Init, InitWith, LockInv, Outside
  <1> QED
    BY <1>1, InitTyped, InitNames, InitLedger DEF IInv

LEMMA NextIInv == IInv /\ [Next]_vars => IInv'
  BY NextTyped, NextLocks, NextNames, NextLedger DEF IInv

\* No two registered nodes ever have the same name, whichever calls run and fail: node
\* status is unambiguous.
THEOREM NamesAreUnique == Spec => []NodeNamesUnique
  <1>1. IInv => NodeNamesUnique
    BY DEF IInv, NameInv
  <1> QED
    BY <1>1, InitIInv, NextIInv, PTL DEF Spec

\* The tranche files hold what the agent lists, for any number of calls and failures.
THEOREM FilesMatch == Spec => []TrancheFilesMatch
  <1>1. IInv => TrancheFilesMatch
    BY DEF IInv, LedgerInv
  <1> QED
    BY <1>1, InitIInv, NextIInv, PTL DEF Spec

-----------------------------------------------------------------------------
(* Server implements TrancheLedger. *)

LEMMA EntryTyped ==
    ASSUME LedgerOK
    PROVE  /\ DOMAIN LedgerView = DOMAIN tranches
           /\ LedgerView \in [DOMAIN tranches -> Ledger!Entries]
  BY NamesTyped DEF LedgerView, Ledger!Entries, LedgerOK, TrancheType

LEMMA InitImplements == Init => Ledger!Init
  <1> SUFFICES ASSUME Init PROVE Ledger!Init
    OBVIOUS
  <1>1. LedgerOK /\ KeysDisjoint
    BY InitTyped, InitLedger DEF TypeInv, TypeOK, LedgerInv
  <1>2. DOMAIN tranches = 0..(NumTranches - 1)
    BY NumbersAssumption DEF Init, InitWith
  <1>3. \A i \in DOMAIN tranches : LedgerView[i].owner = NoName
    BY NumbersAssumption DEF Init, InitWith, LedgerView
  <1>4. Ledger!Disjoint(LedgerView)
    BY <1>1, EntryTyped DEF Ledger!Disjoint, KeysDisjoint, LedgerView
  <1> QED
    BY <1>1, <1>2, <1>3, <1>4, EntryTyped DEF Ledger!Init

\* Inserting a tranche is creating it in the ledger.
LEMMA InsertImplements ==
    ASSUME TypeInv, LedgerInv, TypeInv', LedgerInv', NEW h \in Handlers, InsertTranche(h)
    PROVE  Ledger!Create
  <1> DEFINE n == Cardinality(DOMAIN tranches)
  <1> USE DEF TypeInv, TypeOK
  <1>1. n \in Nat /\ DOMAIN tranches = 0..(n - 1) /\ n \notin DOMAIN tranches
    BY FS_CardinalityType DEF LedgerInv, Indexed, LedgerOK
  <1>2. job[h].index = n
    BY DEF InsertTranche, At, LedgerInv, CallLedger
  <1>3. /\ DOMAIN tranches' = DOMAIN tranches \cup {n}
        /\ \A i \in DOMAIN tranches : tranches'[i] = tranches[i]
        /\ tranches'[n].validator = NoName
    BY <1>1, <1>2 DEF InsertTranche, Put
  <1>4. DOMAIN tranches' = 0..n
    BY <1>1, <1>3
  <1>5. DOMAIN LedgerView = 0..(n - 1)
    BY <1>1, EntryTyped
  <1>6. LedgerView' \in [0..n -> Ledger!Entries]
    BY <1>4, EntryTyped, NamesTyped DEF LedgerView, Ledger!Entries, LedgerOK, TrancheType
  <1>7. \A i \in DOMAIN LedgerView : LedgerView'[i] = LedgerView[i]
    BY <1>3 DEF LedgerView
  <1>8. LedgerView'[n].owner = NoName
    BY <1>3 DEF LedgerView
  <1>9. Ledger!Disjoint(LedgerView')
    BY DEF LedgerInv, KeysDisjoint, LedgerView, Ledger!Disjoint
  <1> QED
    BY <1>1, <1>5, <1>6, <1>7, <1>8, <1>9 DEF Ledger!Create

\* Consuming a tranche is assigning it in the ledger.
LEMMA ConsumeImplements ==
    ASSUME TypeInv, LedgerInv, NEW h \in Handlers, Consume(h)
    PROVE  Ledger!Assign
  <1> DEFINE n == job[h].index
             name == job[h].name
  <1> USE DEF TypeInv, TypeOK
  <1>1. /\ n \in DOMAIN tranches
        /\ tranches[n].validator = NoName
        /\ name.type = "Validator"
        /\ \A i \in DOMAIN tranches : tranches[i].validator # NoName =>
              tranches[i].validator.num < name.num
    BY DEF Consume, At, LedgerInv, CallLedger, Giving, IsConsumed
  <1>2. name \in Names \ {NoName} /\ name.num \in Nat
    BY <1>1, RequestTyped DEF JobType, Names, NoName, Name
  <1>3. \A i \in DOMAIN tranches : tranches[i].validator # name
    BY <1>1, <1>2
  <1>4. tranches' = [tranches EXCEPT ![n].validator = name]
    BY DEF Consume
  <1>5. LedgerView' = [LedgerView EXCEPT ![n].owner = name]
    BY <1>1, <1>4 DEF LedgerView, LedgerOK, TrancheType
  <1>6. n \in DOMAIN LedgerView /\ LedgerView[n].owner = NoName
    BY <1>1 DEF LedgerView
  <1>7. LedgerView'[n].owner = name
    BY <1>1, <1>5 DEF LedgerView
  <1>8. \A i \in DOMAIN LedgerView : LedgerView[i].owner # name
    BY <1>3 DEF LedgerView
  <1> QED
    BY <1>2, <1>5, <1>6, <1>7, <1>8 DEF Ledger!Assign

\* Every other step leaves the ledger as it is.
LEMMA StepImplements ==
    ASSUME TypeInv, LedgerInv, TypeInv', LedgerInv', [Next]_vars
    PROVE  [Ledger!Next]_LedgerView
  <1>1. ASSUME NEW h \in Handlers, InsertTranche(h)
        PROVE  Ledger!Next
    BY <1>1, InsertImplements DEF Ledger!Next
  <1>2. ASSUME NEW h \in Handlers, Consume(h)
        PROVE  Ledger!Next
    BY <1>2, ConsumeImplements DEF Ledger!Next
  <1>3. CASE UNCHANGED tranches
    BY <1>3 DEF LedgerView
  <1>4. ASSUME NEW h \in Handlers, Call(h), ~InsertTranche(h), ~Consume(h)
        PROVE  UNCHANGED tranches
    BY <1>4 DEF Call, Step, Arrive, RefuseNoName, Lock, DepositList, NodeList, NodeStatus,
       MakeDeposits, WriteTranche, DeployBeacon, NameBeacon, BeaconsDone, PickTarget, SelectTranche,
       NameValidator, CreateContainer, StartContainer, InspectContainer, Register, ledger
  <1>5. CASE Signal \/ Stop \/ SecondSignal \/ NodeExit \/ Terminated \/ UNCHANGED vars
    BY <1>3, <1>5 DEF Signal, Stop, StopNode, Exit, SecondSignal, NodeExit, Terminated, vars, ledger
  <1> QED
    BY <1>1, <1>2, <1>3, <1>4, <1>5 DEF Next

\* The agent's tranches are a TrancheLedger: initial states are initial states of the
\* ledger, and every step of the agent is one of the ledger or leaves it alone.
THEOREM ServerImplementsLedger == Spec => LedgerSpec
  <1>1. Init => Ledger!Init
    BY InitImplements
  <1>2. IInv /\ IInv' /\ [Next]_vars => [Ledger!Next]_LedgerView
    BY StepImplements DEF IInv
  <1> QED
    BY <1>1, <1>2, InitIInv, NextIInv, PTL DEF Spec, LedgerSpec, Ledger!Spec
=============================================================================
