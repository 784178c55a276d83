---------------------------- MODULE DockerEngine ----------------------------
(***************************************************************************)
(* The Docker daemon as internal/docker/docker.go uses it: containers are  *)
(* created, started and stopped one by one, and any of them may exit on    *)
(* its own.  The daemon is not part of the agent: what it holds survives   *)
(* the agent's exit.  A container id is a position in containers, and the  *)
(* specification a container was created from never changes.               *)
(***************************************************************************)
EXTENDS Naturals, Sequences

VARIABLES containers, \* the specification of every container ever created
          running     \* the ids of the containers that are up

engine == <<containers, running>>

NoContainer == 0

NextContainer == Len(containers) + 1

ContainerCreate(spec) ==
    /\ containers' = Append(containers, spec)
    /\ UNCHANGED running

ContainerStart(id) ==
    /\ running' = running \cup {id}
    /\ UNCHANGED containers

\* Stopping a container that is already down succeeds.
ContainerStop(id) ==
    /\ running' = running \ {id}
    /\ UNCHANGED containers

\* The process inside a container ends: nobody asked for it.
ContainerExit ==
    /\ \E id \in running : running' = running \ {id}
    /\ UNCHANGED containers
=============================================================================
