------------------------------ MODULE DockerEngine ------------------------------
(***************************************************************************)
(* The part of the Docker engine the provider works with: the containers   *)
(* of functions, the networks, and the networks the gateway's own          *)
(* container is attached to.  The engine is not in this repository: the    *)
(* operators say what the calls in pkg/provider rely on.                   *)
(*                                                                         *)
(* A container's id is <<creator, replica>>: the request that created it   *)
(* and the replica index it was created for.  A request creates an index   *)
(* at most once, so an id is never used twice, as with Docker's ids.  The  *)
(* container's NAME is the service and the index it was created for        *)
(* ("service-replica"), and no two containers ever have the same name.     *)
(* Its labels name a service and a replica as well, and listing goes by    *)
(* the labels; a deployment's own labels can make the two differ.          *)
(***************************************************************************)
EXTENDS FaasTypes

CONSTANT Creators        \* what can create a container

VARIABLES containers,    \* id -> container, for the containers that exist
          networks,      \* network -> the service in its function label
          attached       \* the networks the gateway container is attached to

engineVars == <<containers, networks, attached>>

ContainerIds == Creators \X Replicas

EngineStates == {"created", "running", "restarting", "exited"}

\* service and replica are what the labels com.docker-faas.function and .replica say.
Container == [name : Services \X Replicas, service : Services, replica : Replicas,
              image : Images, limited : BOOLEAN, network : Networks, state : EngineStates]

EngineTypeOK ==
    /\ DOMAIN containers \subseteq ContainerIds
    /\ \A c \in DOMAIN containers : containers[c] \in Container
    /\ DOMAIN networks \subseteq Networks
    /\ \A n \in DOMAIN networks : networks[n] \in Services
    /\ attached \subseteq DOMAIN networks

Existing == DOMAIN containers

\* listFunctionContainers: every container, running or not, by its label.
ContainersOf(s) == {c \in Existing : containers[c].service = s}

Running(s) == {c \in ContainersOf(s) : containers[c].state = "running"}

Named(s, i) == {c \in Existing : containers[c].name = <<s, i>>}

\* The containers NetworkInspect reports: those with an endpoint.
Endpoints(n) == {c \in Existing : containers[c].network = n /\ containers[c].state = "running"}

\* What createContainer asks for: the deployment's labels are the container's.
Made(dep, i) ==
    [name |-> <<dep.service, i>>, service |-> dep.labels[i][1], replica |-> dep.labels[i][2],
     image |-> dep.image, limited |-> dep.limited, network |-> dep.network,
     state |-> "created"]

ContainerCreate(c, dep, i) ==
    /\ Named(dep.service, i) = {}
    /\ containers' = [d \in Existing \cup {c} |-> IF d = c THEN Made(dep, i) ELSE containers[d]]
    /\ UNCHANGED <<networks, attached>>

SetState(c, state) ==
    containers' = [containers EXCEPT ![c].state = state]

Startable(c) == c \in Existing /\ containers[c].network \in DOMAIN networks

ContainerStart(c) ==
    /\ Startable(c)
    /\ SetState(c, "running")
    /\ UNCHANGED <<networks, attached>>

\* ContainerStop on a container that is not up, or that is gone, changes nothing.
ContainerStop(c) ==
    /\ IF c \in Existing /\ containers[c].state \in {"running", "restarting"}
       THEN SetState(c, "exited")
       ELSE UNCHANGED containers
    /\ UNCHANGED <<networks, attached>>

\* ContainerRemove with Force; a container that is gone is no error to the callers.
ContainerRemove(c) ==
    /\ containers' = [d \in Existing \ {c} |-> containers[d]]
    /\ UNCHANGED <<networks, attached>>

NetworkCreate(n, s) ==
    /\ n \notin DOMAIN networks
    /\ networks' = [m \in DOMAIN networks \cup {n} |-> IF m = n THEN s ELSE networks[m]]
    /\ UNCHANGED <<containers, attached>>

NetworkConnect(n) ==
    /\ n \in DOMAIN networks
    /\ attached' = attached \cup {n}
    /\ UNCHANGED <<containers, networks>>

NetworkDisconnect(n) ==
    /\ attached' = attached \ {n}
    /\ UNCHANGED <<containers, networks>>

InUse(n) == n \in attached \/ Endpoints(n) # {}

NetworkRemove(n) ==
    /\ n \in DOMAIN networks /\ ~InUse(n)
    /\ networks' = [m \in DOMAIN networks \ {n} |-> networks[m]]
    /\ UNCHANGED <<containers, attached>>

\* A function's process ends: the restart policy "unless-stopped" (createContainer)
\* has the engine bring the container back.
ContainerExits(c) ==
    /\ c \in Existing /\ containers[c].state = "running"
    /\ SetState(c, "restarting")
    /\ UNCHANGED <<networks, attached>>

ContainerRestarts(c) ==
    /\ Startable(c) /\ containers[c].state = "restarting"
    /\ SetState(c, "running")
    /\ UNCHANGED <<networks, attached>>
================================================================================
