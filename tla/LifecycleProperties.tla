--------------------------- MODULE LifecycleProperties ---------------------------
(***************************************************************************)
(* What the gateway promises about the life of a function.  A run names    *)
(* the environment under which a promise is kept: calls one at a time or   *)
(* concurrent, with or without faults.                                     *)
(***************************************************************************)
EXTENDS LifecycleRefinement

Quiet == InFlight = {}

ReplicasOf(s) == {containers[c].replica : c \in ContainersOf(s)}

\* A row whose containers are exactly its replicas, up, of its image and on its
\* network, to which the gateway is attached.
AsStored(s) ==
    /\ ReplicasOf(s) = 0 .. rows[s].replicas - 1
    /\ \A c \in ContainersOf(s) :
          /\ containers[c].state = "running"
          /\ containers[c].image = rows[s].image
          /\ containers[c].network = rows[s].network
    /\ rows[s].replicas > 0 => rows[s].network \in attached

\* Calls made one at a time, with no faults, keep the store and the engine in
\* step: between calls every row has exactly its containers and a service without
\* a row has none.  (Every handler changes the engine first and the store last.)
StoreAndEngineAgree ==
    Quiet => \A s \in Services : IF Stored(s) THEN AsStored(s) ELSE ContainersOf(s) = {}

\* No sequence of calls, one at a time and without faults, leads to a state in which a
\* handler fails: every answer is success, 404 or 409, and an invocation gets as far as
\* the forward.  (What the container answers then is not the gateway's: waitForFunctionReady
\* looks at its status only, and a process that does not listen yet makes a 500.)
NoCallFails ==
    [][\A r \in Requests :
          pc[r] \notin {"done", "forward"} /\ pc'[r] = "done" =>
             req'[r].answer \notin {500, 504}]_vars

Completes(r, op, code) ==
    /\ pc[r] # "done" /\ pc'[r] = "done"
    /\ req[r].call.op = op /\ req'[r].answer = code

\* A delete that is answered leaves no row, no container and, unless another
\* service's container is on it, no network of the function's row behind.
DeleteReleases ==
    [][\A r \in Requests : Completes(r, "delete", 202) =>
          /\ ~Stored(Service(r)) /\ ContainersOf(Service(r)) = {}
          /\ OldNet(r) \notin DOMAIN networks' \/ Endpoints(OldNet(r)) # {}]_vars

\* An invocation of a function that has a row gets to a running container of it, at the
\* address read when it was routed and on a network the gateway is on, also when the
\* function was scaled to zero before, and also when it is asynchronous and nobody would
\* hear of a failure (HandleInvokeFunction, HandleInvokeFunctionAsync).
InvokeArrives ==
    [][\A r \in Requests :
          req[r].job \in {"invoke", "wake"} /\ pc'[r] = "done" => req'[r].arrived]_vars

\* Whatever faults happened before and during it, a scale that is answered 202
\* leaves exactly the replicas asked for, none of them stale, and the count stored.
ScaleConverges ==
    [][\A r \in Requests : Completes(r, "scale", 202) =>
          LET s == Service(r) n == req[r].call.target
          IN  /\ ReplicasOf(s) = 0 .. n - 1
              /\ \A c \in ContainersOf(s) : ~IsStale(containers[c].state)
              /\ rows'[s].replicas = n]_vars

\* Whatever faults happened before and during it, an update or build that is
\* answered 202 has recreated every replica of the row: the replica is a container
\* this request made, of the new image.
UpdateRecreates ==
    [][\A r \in Requests :
          Completes(r, "update", 202) \/ (Completes(r, "build", 202) /\ Stored(Service(r))) =>
          \A i \in 0 .. rows'[Service(r)].replicas - 1 :
             \E c \in Named(Service(r), i) :
                c[1] = r /\ containers[c].image = rows'[Service(r)].image]_vars

\* The containers that are s's by name and by label.  (A client's labels can list a
\* container of one service as another's, and then it is a prey to the calls of both.)
OwnContainers(s) == {c \in ContainersOf(s) : containers[c].name[1] = s}

\* A handler acts on container ids it listed by label several calls ago, and on names;
\* whatever other requests have done meanwhile, and whatever labels clients have given
\* their own functions, its step touches no row and no container of a service other than
\* its own, and makes none that bears the other's name and label.
Isolation ==
    [][\A r \in Requests, s \in Services :
          Handle(r) /\ Service(r) # s =>
             /\ OwnContainers(s)' = OwnContainers(s)
             /\ \A c \in OwnContainers(s) : containers'[c] = containers[c]
             /\ GetFunction(s)' = GetFunction(s)]_vars

Accepted(op, s) ==
    {r \in Requests : req[r].call # NoCall /\ Op(r) = op /\ Service(r) = s
                      /\ req[r].answer = 202}

\* Deletes that have deleted the row and are cleaning up the network.
Deleting(s) ==
    {r \in InFlight : req[r].job = "delete" /\ Service(r) = s
                      /\ pc[r] \in {"netinspect", "disconnect", "netreinspect", "netremove"}}

\* The deploys accepted, less the rows deleted, less the row there is.
Balance(s) ==
    Cardinality(Accepted("deploy", s))
       - Cardinality(Accepted("delete", s) \cup Deleting(s))
       - (IF Stored(s) THEN 1 ELSE 0)

\* However deploys and deletes of one name race, the answers add up to the row, from the
\* row there was before the first call on: each accepted deploy makes it, each delete
\* removes it, no two deploys are accepted for one vacancy of the name and no two deletes
\* for one row.
RowLedger == [][\A s \in Services : Balance(s)' = Balance(s)]_vars

AllServedCalls(ops) == \A r \in Requests : pc[r] = "done" /\ Op(r) \in ops

\* Invocations that race to start a function from zero leave it, once they are
\* answered, at one running replica and stored so: what the losers of the race
\* removed or failed to create does not show.
ColdStartSettles ==
    AllServedCalls({"invoke", "async"}) =>
       \A r \in Requests : Stored(Service(r)) =>
          LET s == Service(r)
          IN  /\ Running(s) = ContainersOf(s) /\ Cardinality(Running(s)) = 1
              /\ rows[s].replicas = 1

\* ... and one of them at least gets to it: the losers may be routed to a container that
\* is not started yet and has no address, or is removed before they are forwarded.
ColdStartArrives ==
    AllServedCalls({"invoke", "async"}) =>
       \A r \in Requests : Stored(Service(r)) =>
          \E t \in Requests : Service(t) = Service(r) /\ req[t].arrived

--------------------------------------------------------------------------------
(* Claims of the documentation the code does not keep *)

\* docs/ARCHITECTURE.md, Error Recovery: "Failed deployments rolled back".  A rolled
\* back deploy would leave the function of an accepted one alone.
AcceptedDeployStands ==
    AllServedCalls({"deploy"}) => \A s \in DOMAIN rows : Running(s) # {}

\* docs/ARCHITECTURE.md, Error Recovery: "Orphaned containers cleaned up".  A
\* container nobody answers for would not stand in the way of a later deploy.
OrphansDoNotBlock == NoCallFails

\* docs/ARCHITECTURE.md, Container Isolation: "Resource limits enforced".
LimitsAreEnforced ==
    Quiet => \A s \in DOMAIN rows : \A c \in ContainersOf(s) :
                rows[s].limited => containers[c].limited

\* docs/ARCHITECTURE.md, Load Balancing: "Filters for running containers only".
RoutesToRunning ==
    [][\A r \in Requests : pc[r] = "route" /\ pc'[r] = "forward" =>
          req'[r].cur \in Running(Service(r)) \/ ~Up(Service(r))]_vars
================================================================================
