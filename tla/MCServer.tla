------------------------------ MODULE MCServer ------------------------------
(* Constants of Server for TLC. *)
EXTENDS Server, TLC

CONSTANTS teku, prysm, unknown

Request(kind, client, beacons, validators, tranche, name) ==
    [kind |-> kind, client |-> client, beacons |-> beacons, validators |-> validators,
     tranche |-> tranche, name |-> name]

Beacon(client, n)        == Request("DeployBeacon", client, n, 0, 0, NoName)
Validator(client, b, v, t) == Request("DeployValidator", client, b, v, t, NoName)
Create(n)                == Request("DepositCreate", unknown, 0, n, 0, NoName)
ListTranches             == Request("DepositList", unknown, 0, 0, 0, NoName)
ListNodes                == Request("NodeList", unknown, 0, 0, 0, NoName)
Status(name)             == Request("NodeStatus", unknown, 0, 0, 0, name)

\* Every kind of call, with the counts at which the code branches.
AllRequests ==
    {Beacon(teku, 1), Beacon(unknown, 1), Validator(teku, 0, 0, 0), Validator(teku, 1, 1, 0),
     Create(0), Create(1), ListTranches, ListNodes, Status(NoName), Status(Name("Beacon", 0, teku))}

\* The calls that change something: deployments of two clients that compete for the
\* genesis tranche or bring their own, and one of two beacon nodes.
Deployments ==
    {Beacon(teku, 2), Validator(teku, 0, 0, 0), Validator(teku, 1, 2, 0),
     Validator(prysm, 1, 0, 0), Create(1)}

\* Calls that may be under way when the agent is told to stop: deployments, which Stop
\* races, and queries, which only take the lock, or end the process.
StopRequests == {Beacon(teku, 1), ListTranches, ListNodes, Status(NoName),
                 Status(Name("Beacon", 0, teku))}

HandlerSymmetry == Permutations(Handlers)
=============================================================================
