------------------------------ MODULE Commands ------------------------------
(***************************************************************************)
(* The commands of internal/cmd, run in several terminals against one      *)
(* agent.  A command checks its flags, makes one gRPC call, waits for the  *)
(* answer, prints it and ends with an exit code.  The agent may end before *)
(* it answers, and the user may interrupt a command: no handler looks at   *)
(* the context of its call, so that the agent goes on with it.             *)
(*                                                                         *)
(* Definitions named ...Bug are faulty variants of the one that follows    *)
(* them: no specification uses them, they show that a property can fail.   *)
(***************************************************************************)
EXTENDS Server

CONSTANTS Terminals,   \* shells of the users
          CommandLines \* what may be typed, after flags.Parse

\* A command line: its flags, and the arguments that are no flags.
LineType == [command : {"deposit create", "deposit list", "node deploy beacon",
                        "node deploy validator", "node list", "node status"},
             type : STRING, count : Nat, beacon : BOOLEAN, validators : Nat, tranche : Nat,
             args : Seq(Names)]

ASSUME LinesAssumption == \A line \in CommandLines : line \in LineType

VARIABLES term,   \* per terminal: its command and the goroutine that serves the call
          acked   \* what commands that ended with 0 have reported: nodes, and accounts of tranches

cli     == <<term, acked>>
allVars == <<vars, cli>>

Lists == {"deposit list", "node list"}

Nothing == [nodes |-> {}, tranches |-> {}]

Prompt == [command |-> "", handler |-> NoHandler, since |-> Nothing]

CommandsInit ==
    /\ Init
    /\ term = [t \in Terminals |-> Prompt]
    /\ acked = Nothing

-----------------------------------------------------------------------------
(* From the flags to the request. *)

\* strings.Title: it raises the first letter only, and OtherClient is a name too.
Title(str) == CASE str = "teku"        -> "Teku"
                [] str = "prysm"       -> "Prysm"
                [] str = "lighthouse"  -> "Lighthouse"
                [] str = "otherClient" -> "OtherClient"
                [] OTHER               -> str

StringToNodeClient(str) == {client \in Clients \cup {OtherClient} : client = Title(str)}

\* Lets a count of zero through.
AcceptsBug(line) ==
    CASE line.command \in {"node deploy beacon", "node deploy validator"} ->
             StringToNodeClient(line.type) # {}
      [] line.command = "node status" -> Len(line.args) = 1
      [] OTHER -> TRUE

\* The client is known, and --count or --beacon-count is not zero, even when it is not used.
Accepts(line) ==
    CASE line.command \in {"node deploy beacon", "node deploy validator"} ->
             StringToNodeClient(line.type) # {} /\ line.count # 0
      [] line.command = "node status" -> Len(line.args) = 1
      [] OTHER -> TRUE

\* A call without arguments.
Bare(kind) == [kind |-> kind, client |-> OtherClient, beacons |-> 0, validators |-> 0,
                tranche |-> 0, name |-> NoName]

DepositCreateRequest(line) == [Bare("DepositCreate") EXCEPT !.validators = line.validators]

DepositListRequest(line) == Bare("DepositList")

NodeDeployRequest_Beacon(line) ==
    [Bare("DeployBeacon") EXCEPT !.client = Title(line.type), !.beacons = line.count]

\* --beacon-count means something with --beacon only.
NodeDeployRequest_Validator(line) ==
    [Bare("DeployValidator") EXCEPT !.client = Title(line.type),
                                     !.beacons = IF line.beacon THEN line.count ELSE 0,
                                     !.validators = line.validators,
                                     !.tranche = line.tranche]

NodeListRequest(line) == Bare("NodeList")

NodeStatusRequest(line) == [Bare("NodeStatus") EXCEPT !.name = Head(line.args)]

Request(line) ==
    CASE line.command = "deposit create"        -> DepositCreateRequest(line)
      [] line.command = "deposit list"          -> DepositListRequest(line)
      [] line.command = "node deploy beacon"    -> NodeDeployRequest_Beacon(line)
      [] line.command = "node deploy validator" -> NodeDeployRequest_Validator(line)
      [] line.command = "node list"             -> NodeListRequest(line)
      [] line.command = "node status"           -> NodeStatusRequest(line)

-----------------------------------------------------------------------------
(* The life of a command. *)

Waiting(t) == term[t].handler # NoHandler

\* The command ends with 1: its user knows nothing.
Exit1(t) == term' = [term EXCEPT ![t] = Prompt] /\ UNCHANGED acked

\* The flags are refused, or nobody listens at the address: grpc.Dial does not wait, and
\* the call fails.  The command ends with 1, and nothing has changed.
Refused(t) ==
    /\ ~Waiting(t)
    /\ {line \in CommandLines : Accepts(line) => ~Alive} # {}
    /\ UNCHANGED allVars

\* The goroutines that serve nobody: gRPC starts one for every call.
Fresh == {h \in Handlers : pc[h] = "idle" /\ \A t \in Terminals : term[t].handler # h}

\* The call reaches the agent, which serves it in a goroutine of its own.
Invoke(t) ==
    /\ ~Waiting(t)
    /\ Alive
    /\ calls < MaxCalls
    /\ Fresh # {}
    /\ \E line \in CommandLines :
          LET h == CHOOSE h \in Fresh : TRUE
          IN  /\ Accepts(line)
              /\ term' = [term EXCEPT ![t] =
                    [Prompt EXCEPT !.handler = h, !.command = line.command,
                                   !.since = IF line.command \in Lists THEN acked ELSE Nothing]]
              /\ req' = [req EXCEPT ![h] = Request(line)]
              /\ pc' = [pc EXCEPT ![h] = "waiting"]
              /\ reply' = [reply EXCEPT ![h] = Error]
    /\ calls' = calls + 1
    /\ UNCHANGED <<engine, lock, job, ledger, nodes, shutdown, acked>>

\* The connection breaks before the answer is there.
Unavailable(t) ==
    /\ Waiting(t)
    /\ ~Alive
    /\ Exit1(t)
    /\ UNCHANGED vars

\* Loses the row of the last node.
formatNodesBug(ids) == {containers[ids[i]].name : i \in DOMAIN ids \ {Len(ids)}}

\* A row for every node, with what its labels say.
formatNodes(ids) == {containers[ids[i]].name : i \in DOMAIN ids}

\* The row of a tranche: its index, its validator client and how many accounts it has.
Row(stub) ==
    [index |-> stub.index, validator |-> stub.validator, accounts |-> Cardinality(stub.accounts)]

formatTranches(stubs) == {Row(s) : s \in stubs}

\* The answer arrives and is printed; what the command did or showed is known from now on.
Answered(t) ==
    /\ Waiting(t)
    /\ LET h == term[t].handler
           r == reply[h]
       IN  /\ pc[h] = "idle"
           /\ \/ /\ r.ok
                 /\ term' = [term EXCEPT ![t] = Prompt]
                 /\ acked' = IF term[t].command \in Lists THEN acked
                             ELSE [nodes    |-> acked.nodes \cup {r.nodes[i] : i \in DOMAIN r.nodes},
                                   tranches |-> acked.tranches \cup {s.accounts : s \in r.stubs}]
              \/ /\ ~r.ok
                 /\ Exit1(t)
    /\ UNCHANGED vars

\* Ctrl-C: the command ends at once, its call goes on.
Interrupt(t) ==
    /\ Waiting(t)
    /\ Exit1(t)
    /\ UNCHANGED vars

\* Waits for the agent to come back.
InvokeReturnsBug(t) == Answered(t)

\* The call returns to the command.
InvokeReturns(t) == Unavailable(t) \/ Answered(t)

\* What the agent does of its own, and the signals it gets.
Agent ==
    /\ \/ \E h \in Handlers : RefuseNoName(h) \/ Lock(h) \/ Step(h)
       \/ Signal \/ Stop \/ SecondSignal \/ NodeExit
       \/ Terminated
    /\ UNCHANGED cli

CommandsNext ==
    \/ \E t \in Terminals : Refused(t) \/ Invoke(t) \/ InvokeReturns(t) \/ Interrupt(t)
    \/ Agent

\* As CallSpec of Server, and the commands are scheduled.
CommandsSpec ==
    /\ CommandsInit /\ [][CommandsNext]_allVars
    /\ \A h \in Handlers : WF_vars(RefuseNoName(h) \/ Step(h)) /\ SF_vars(Lock(h))
    /\ \A t \in Terminals : WF_allVars(InvokeReturns(t))

-----------------------------------------------------------------------------
(* Properties. *)

\* A command ends, whatever the agent answers, and also when the agent ends first: none hangs
\* on a connection nobody serves (commands.go:84-91).
EveryCommandEnds == \A t \in Terminals : Waiting(t) ~> ~Waiting(t)

\* The user can tell a tranche from the others: no other is printed like it.
HasOwnRow(stub, stubs) ==
    Row(stub) \in formatTranches(stubs) /\ \A s \in stubs : Row(s) = Row(stub) => s = stub

\* A list has what was reported before it was asked for: of the nodes of a deployment that ended
\* with 0 those that still run; for the tranche of a deposit, and for the validator client a
\* tranche went to, the stub with just those accounts, printed in a row no other stub is printed
\* as (server.go:325-332, 542-548; node_list.go:54-63, deposit_list.go:53-65).
ListsAreComplete ==
    \A t \in Terminals : Waiting(t) =>
        LET r == reply[term[t].handler]
            since == term[t].since
        IN  /\ term[t].command = "node list" /\ r.ok =>
                  {containers[id].name : id \in since.nodes \cap running} \subseteq formatNodes(r.nodes)
            /\ term[t].command = "deposit list" /\ r.ok =>
                  /\ \A keys \in since.tranches :
                        \E s \in r.stubs : s.accounts = keys /\ HasOwnRow(s, r.stubs)
                  /\ \A id \in since.nodes : containers[id].name.type = "Validator" =>
                        \E s \in r.stubs :
                            /\ s.validator = containers[id].name
                            /\ s.accounts = containers[id].keys
                            /\ HasOwnRow(s, r.stubs)

\* Under these commands the agent behaves as module Server says of its Requests: no deployment
\* of no beacon nodes reaches it (node_deploy_beacon.go:56-59, node_deploy_validator.go:64-76).
AgentUnderCommands == Spec
=============================================================================
