----------------------------- MODULE MCCommands -----------------------------
(* Constants of Commands for TLC. *)
EXTENDS Commands

Line(command, type, count, beacon, validators, tranche, args) ==
    [command |-> command, type |-> type, count |-> count, beacon |-> beacon,
     validators |-> validators, tranche |-> tranche, args |-> args]

Plain(command, args) == Line(command, "", 1, FALSE, 0, 0, args)

\* Every command, with the flags at which the code branches: a client that is no client, a
\* client that no factory knows, a count of zero, a count that is not used.
SomeLines ==
    {Plain("deposit list", <<>>), Plain("node list", <<>>),
     Plain("node status", <<>>), Plain("node status", <<NoName>>),
     Plain("node status", <<Name("Beacon", 0, "Teku")>>),
     Line("deposit create", "", 1, FALSE, 1, 0, <<>>),
     Line("node deploy beacon", "teku", 1, FALSE, 0, 0, <<>>),
     Line("node deploy beacon", "Teku", 0, FALSE, 0, 0, <<>>),
     Line("node deploy beacon", "geth", 1, FALSE, 0, 0, <<>>),
     Line("node deploy validator", "otherClient", 1, FALSE, 0, 0, <<>>),
     Line("node deploy validator", "teku", 1, TRUE, 0, 0, <<>>)}

\* What the agent is asked for: deployments of one beacon node or none of its own.
SomeRequests ==
    {r \in [kind : Kinds, client : {"Teku", "OtherClient"}, beacons : {0, 1},
            validators : {0, 1}, tranche : {0}, name : {NoName, Name("Beacon", 0, "Teku")}] :
        r.kind = "DeployBeacon" => r.beacons = 1}
=============================================================================
