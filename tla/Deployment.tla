----------------------------- MODULE Deployment -----------------------------
(***************************************************************************)
(* What the callers of Docker.Deploy take for granted, and what modules    *)
(* Server and Bootstrap are built on: one deployment makes at most one     *)
(* container, starts it at most once, and is a success only after it was   *)
(* started.  A failure leaves what there is.  A node is a container of a   *)
(* deployment that succeeded; one that is down stays down.                 *)
(***************************************************************************)
EXTENDS Naturals, Sequences

CONSTANT Before  \* how many nodes there were before the first of these deployments

VARIABLES created,  \* how many containers there are: they are numbered from one
          running,  \* those that are up
          deployed, \* the nodes, in the order of their deployment
          stage     \* of the deployment in progress

Init ==
    /\ created = Before
    /\ running \subseteq 1..Before
    /\ deployed = [i \in 1..Before |-> i]
    /\ stage = "idle"

Ask == stage = "idle" /\ stage' = "asked" /\ UNCHANGED <<created, running, deployed>>

Create ==
    /\ stage = "asked" /\ stage' = "created"
    /\ created' = created + 1
    /\ UNCHANGED <<running, deployed>>

Start ==
    /\ stage = "created" /\ stage' = "started"
    /\ running' = running \cup {created}
    /\ UNCHANGED <<created, deployed>>

Succeed ==
    /\ stage = "started" /\ stage' = "idle"
    /\ deployed' = Append(deployed, created)
    /\ UNCHANGED <<created, running>>

\* The container of the deployment may be up, if it was asked to start.
Fail ==
    /\ stage # "idle" /\ stage' = "idle"
    /\ running' \in {running} \cup IF stage = "created" THEN {running \cup {created}} ELSE {}
    /\ UNCHANGED <<created, deployed>>

Exit ==
    /\ \E id \in running : running' = running \ {id}
    /\ UNCHANGED <<created, deployed, stage>>

Next == Ask \/ Create \/ Start \/ Succeed \/ Fail \/ Exit

Spec == Init /\ [][Next]_<<created, running, deployed, stage>>
=============================================================================
