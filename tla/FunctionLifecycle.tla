---------------------------- MODULE FunctionLifecycle ----------------------------
(***************************************************************************)
(* The gateway's handlers for the life of a function: deploy, update,      *)
(* build-and-deploy, delete, scale, synchronous and asynchronous           *)
(* invocation with scale-from-zero (pkg/gateway), through the provider     *)
(* (pkg/provider), against the store and the Docker engine.                *)
(*                                                                         *)
(* net/http runs every request in its own goroutine and no lock spans a    *)
(* handler, so a request is a process that makes one store or engine call  *)
(* per step and all requests interleave between calls.  What a handler     *)
(* computes from a call's result up to the next call is part of the step.  *)
(*                                                                         *)
(* The environment may break an engine call or a store call, hang up on a  *)
(* request (its context is cancelled and every later engine call under it  *)
(* fails), make a container exit, or crash the gateway; MaxFaults bounds   *)
(* how often.  Whether a running container answers is not the gateway's    *)
(* to know, and no fault: it looks at the container's status only, so a    *)
(* forwarded call may always come back without an answer.                  *)
(***************************************************************************)
EXTENDS ReplicaPlan, DockerEngine, FunctionStore

CONSTANTS Requests,      \* request ids, each used for one client call
          NoNetwork,     \* the empty network name in a call
          NoContainer, NoCall,
          OwnNetwork,    \* FunctionNetworkName: service -> its own network
          Calls,         \* the calls clients may make
          InitialRows,   \* the functions deployed when the behaviour begins
          MaxInFlight,   \* bound: requests handled at the same time
          Faults,        \* the kinds of faults that may happen
          MaxFaults      \* bound: how many of them

Ops == {"deploy", "update", "build", "delete", "scale", "invoke", "async"}

Call == [op : Ops, service : Services, image : Images, limited : BOOLEAN,
         network : Networks \cup {NoNetwork}, labels : LabelMaps,
         target : 0 .. MaxReplicas]

FaultKinds == {"engine", "store", "hangup", "exit", "crash"}

ASSUME LifecycleAssumption ==
    /\ Calls \subseteq Call
    /\ NoCall \notin Call
    /\ NoNetwork \notin Networks
    /\ NoContainer \notin ContainerIds
    /\ OwnNetwork \in [Services -> Networks]
    /\ Creators = Requests \cup Services
    /\ Requests \cap Services = {}
    /\ Faults \subseteq FaultKinds
    /\ MaxFaults \in Nat
    /\ MaxInFlight \in Nat
    /\ \A R \in InitialRows :
          /\ DOMAIN R \subseteq Services
          /\ \A s \in DOMAIN R : R[s] \in Row

VARIABLES pc,            \* the call a request makes next
          req,           \* what a request's handler knows
          faults         \* how many faults have happened

vars == <<containers, networks, attached, rows, pc, req, faults>>

Labels == {"idle", "lookup", "list", "reap", "remove", "pull", "create", "netcreate",
           "connect", "inspect", "rmstale", "ccreate", "cstart", "insert", "save",
           "setreplicas", "deleterow", "netinspect", "disconnect", "netreinspect",
           "netremove", "probe", "wait", "accept", "route", "forward", "done"}

\* What a handler is doing for its call; "build" becomes a deploy or an update.
Jobs == {"none", "deploy", "rollback", "update", "delete", "scale", "wake", "invoke"}

Summaries == [id : ContainerIds, state : EngineStates, replica : Replicas, created : {0}]

NoAnswer == 0
Answers  == {NoAnswer, 200, 202, 404, 409, 500, 504}

Request == [call : Calls \cup {NoCall}, job : Jobs,
            row : Row \cup {NoRow},               \* the row it read
            victims : SUBSET Summaries,           \* listed containers still to remove
            missing : SUBSET Replicas,            \* replica indices still to create
            cur : ContainerIds \cup {NoContainer},
            cancelled : BOOLEAN,                  \* its context
            answer : Answers, arrived : BOOLEAN]

TypeOK ==
    /\ EngineTypeOK
    /\ StoreTypeOK
    /\ pc \in [Requests -> Labels]
    /\ req \in [Requests -> Request]
    /\ faults \in 0 .. MaxFaults

Blank(call, answer, arrived) ==
    [call |-> call, job |-> "none", row |-> NoRow, victims |-> {}, missing |-> {},
     cur |-> NoContainer, cancelled |-> FALSE, answer |-> answer, arrived |-> arrived]

DeploymentIn(R, s) ==
    [service |-> s, image |-> R[s].image, limited |-> R[s].limited,
     network |-> R[s].network, labels |-> R[s].labels]

\* The functions of R deployed and scaled: what a quiet gateway leaves behind.
Deployed(R) ==
    /\ rows = R
    /\ containers = [c \in {d \in Services \X Replicas :
                               d[1] \in DOMAIN R /\ d[2] < R[d[1]].replicas} |->
          [Made(DeploymentIn(R, c[1]), c[2]) EXCEPT !.state = "running"]]
    /\ networks \in [{R[s].network : s \in DOMAIN R} -> DOMAIN R]
    /\ \A n \in DOMAIN networks : R[networks[n]].network = n
    /\ attached = DOMAIN networks

Init ==
    /\ \E R \in InitialRows : Deployed(R)
    /\ pc = [r \in Requests |-> "idle"]
    /\ req = [r \in Requests |-> Blank(NoCall, NoAnswer, FALSE)]
    /\ faults = 0

--------------------------------------------------------------------------------
(* Control flow *)

Service(r) == req[r].call.service
Op(r)      == req[r].call.op

InFlight == {r \in Requests : pc[r] \notin {"idle", "done"}}

Goto(r, label, local) ==
    /\ pc' = [pc EXCEPT ![r] = label]
    /\ req' = [req EXCEPT ![r] = local]

Finish(r, answer, arrived) == Goto(r, "done", Blank(req[r].call, answer, arrived))

\* http.Error and WriteHeader end a handler; a background invocation has
\* answered before.
Answer(r, code) ==
    Finish(r, IF req[r].answer = NoAnswer THEN code ELSE req[r].answer, FALSE)

Fault(kind) == kind \in Faults /\ faults < MaxFaults /\ faults' = faults + 1

\* An engine call of r is carried out, or is refused: by the engine, or because
\* the context of the request is cancelled.
Reaches(r) == ~req[r].cancelled /\ UNCHANGED faults
Refused(r) == IF req[r].cancelled THEN UNCHANGED faults ELSE Fault("engine")

\* What the job does to containers.
RemovesAll(r) == req[r].job \in {"update", "delete", "rollback"}

\* Mutants of Target: the target is taken as a difference; waking is, too, up to the bound.
TargetRelative(r) ==
    IF req[r].job = "wake" THEN 1 ELSE req[r].row.replicas + req[r].call.target
TargetWakeRelative(r) ==
    IF req[r].job # "wake" THEN req[r].call.target
    ELSE IF req[r].row.replicas < MaxReplicas THEN req[r].row.replicas + 1 ELSE MaxReplicas

Target(r) == IF req[r].job = "wake" THEN 1 ELSE req[r].call.target

\* The replicas DeployFunction is asked for: 1, or the row's when updating.
DeployReplicas(r) == IF req[r].job = "update" THEN req[r].row.replicas ELSE 1

\* Mutant of NetworkFor: an update that names no network goes to the function's own.
NetworkForOwn(r) ==
    IF req[r].call.network # NoNetwork THEN req[r].call.network ELSE OwnNetwork[Service(r)]

\* The network of a deployment whose call may leave it empty.
NetworkFor(r) ==
    IF req[r].call.network # NoNetwork THEN req[r].call.network
    ELSE IF Op(r) = "update" THEN req[r].row.network
    ELSE OwnNetwork[Service(r)]

\* The deployment handed to the provider.  HandleScaleFunction rebuilds it from
\* the row without the limits, scaleFromZero with them.
DeploymentOf(r) ==
    [ service |-> Service(r),
      image   |-> IF req[r].job \in {"scale", "wake"} THEN req[r].row.image
                  ELSE req[r].call.image,
      limited |-> CASE req[r].job = "scale" -> FALSE
                    [] req[r].job = "wake"  -> req[r].row.limited
                    [] OTHER                -> req[r].call.limited,
      network |-> IF req[r].job \in {"scale", "wake"} THEN req[r].row.network
                  ELSE NetworkFor(r),
      labels  |-> IF req[r].job \in {"scale", "wake"} THEN req[r].row.labels
                  ELSE req[r].call.labels ]

NextReplica(r) == CHOOSE i \in req[r].missing : \A j \in req[r].missing : i <= j

Up(s) == Running(s) # {}

--------------------------------------------------------------------------------
(* The handlers: a call arrives, and store.GetFunction is the first step *)

Arrive(r) ==
    /\ pc[r] = "idle"
    /\ Cardinality(InFlight) < MaxInFlight
    /\ \E call \in Calls : Goto(r, "lookup", Blank(call, NoAnswer, FALSE))
    /\ UNCHANGED <<engineVars, rows, faults>>

Begin(r, label, job, row) ==
    Goto(r, label, [req[r] EXCEPT !.job = job, !.row = row])

\* The row read is the stored one, or none because the query failed.
LookedUp(r, row) ==
    \/ row = GetFunction(Service(r)) /\ UNCHANGED faults
    \/ row = NoRow /\ Stored(Service(r)) /\ Fault("store")

HandleDeployFunction(r, row) ==
    IF row = NoRow THEN Begin(r, "pull", "deploy", row) ELSE Answer(r, 409)

HandleUpdateFunction(r, row) ==
    IF row = NoRow THEN Answer(r, 404) ELSE Begin(r, "list", "update", row)

\* What a build that succeeded goes on with: an update or a deploy.
DeployBuiltImage(r, row) ==
    IF row = NoRow THEN Begin(r, "pull", "deploy", row) ELSE Begin(r, "list", "update", row)

HandleDeleteFunction(r, row) ==
    IF row = NoRow THEN Answer(r, 404) ELSE Begin(r, "list", "delete", row)

HandleScaleFunction(r, row) ==
    IF row = NoRow THEN Answer(r, 404) ELSE Begin(r, "list", "scale", row)

HandleInvokeFunction(r, row) ==
    IF row = NoRow THEN Answer(r, 404) ELSE Begin(r, "probe", "invoke", row)

Lookup(r) ==
    /\ pc[r] = "lookup"
    /\ \E row \in {GetFunction(Service(r)), NoRow} :
          /\ LookedUp(r, row)
          /\ \/ Op(r) = "deploy" /\ HandleDeployFunction(r, row)
             \/ Op(r) = "update" /\ HandleUpdateFunction(r, row)
             \/ Op(r) = "build"  /\ DeployBuiltImage(r, row)
             \/ Op(r) = "delete" /\ HandleDeleteFunction(r, row)
             \/ Op(r) = "scale"  /\ HandleScaleFunction(r, row)
             \/ Op(r) \in {"invoke", "async"} /\ HandleInvokeFunction(r, row)
    /\ UNCHANGED <<engineVars, rows>>

--------------------------------------------------------------------------------
(* Provider: removing containers (RemoveFunction, the first half of ScaleFunction) *)

Summary(c) == [id |-> c, state |-> containers[c].state,
               replica |-> containers[c].replica, created |-> 0]

\* Mutants of Listing: ContainerList without All; the filter on the type label only.
ListingOfRunning(s) == {Summary(c) : c \in Running(s)}
ListingOfAll(s) == {Summary(c) : c \in Existing}

Listing(s) == {Summary(c) : c \in ContainersOf(s)}

\* listFunctionContainers.  RemoveFunction is to remove all it lists; ScaleFunction
\* plans.  UpdateFunction only warns when RemoveFunction fails and the cleanup after
\* a failed insert ignores its error.
List(r) ==
    /\ pc[r] = "list"
    /\ \/ /\ Reaches(r)
          /\ LET listed == Listing(Service(r))
                 plan   == ScalePlan(listed, Target(r))
             IN  Goto(r, "reap",
                      IF RemovesAll(r) THEN [req[r] EXCEPT !.victims = listed]
                      ELSE [req[r] EXCEPT !.victims = plan.stale \cup plan.active,
                                          !.missing = plan.missing])
       \/ /\ Refused(r)
          /\ IF req[r].job = "update" THEN Goto(r, "pull", req[r]) ELSE Answer(r, 500)
    /\ UNCHANGED <<engineVars, rows>>

\* ScaleFunction removes the stale containers first, then from the lowest index.
NextVictims(r) ==
    LET stale == {v \in req[r].victims : IsStale(v.state)}
    IN  IF RemovesAll(r) THEN req[r].victims
        ELSE IF stale # {} THEN stale
        ELSE {v \in req[r].victims : \A w \in req[r].victims : v.replica <= w.replica}

\* RemoveFunction stops every container, removeContainerSummary those listed as running.
Stops(r, v) == RemovesAll(r) \/ IsRunning(v.state)

Gone(r, v) == [req[r] EXCEPT !.victims = @ \ {v}, !.cur = NoContainer]

\* A failed stop is a warning to RemoveFunction and the end of a ScaleFunction.
StopVictim(r) ==
    /\ pc[r] = "reap"
    /\ \E v \in NextVictims(r) :
          /\ Stops(r, v)
          /\ \/ /\ Reaches(r)
                /\ ContainerStop(v.id)
                /\ Goto(r, "remove", [req[r] EXCEPT !.cur = v.id])
             \/ /\ Refused(r)
                /\ IF RemovesAll(r) THEN Goto(r, "remove", [req[r] EXCEPT !.cur = v.id])
                   ELSE Answer(r, 500)
                /\ UNCHANGED engineVars
    /\ UNCHANGED rows

\* So is a failed removal.
RemoveVictim(r) ==
    /\ \E v \in req[r].victims :
          /\ \/ pc[r] = "remove" /\ v.id = req[r].cur
             \/ pc[r] = "reap" /\ v \in NextVictims(r) /\ ~Stops(r, v)
          /\ \/ /\ Reaches(r)
                /\ ContainerRemove(v.id)
                /\ Goto(r, "reap", Gone(r, v))
             \/ /\ Refused(r)
                /\ IF RemovesAll(r) THEN Goto(r, "reap", Gone(r, v)) ELSE Answer(r, 500)
                /\ UNCHANGED engineVars
    /\ UNCHANGED rows

\* The loop over the victims is over.
Reaped(r) ==
    /\ pc[r] = "reap" /\ req[r].victims = {}
    /\ CASE req[r].job = "update"             -> Goto(r, "pull", req[r])
         [] req[r].job = "delete"             -> Goto(r, "deleterow", req[r])
         [] req[r].job = "rollback"           -> Answer(r, 500)
         [] req[r].job \in {"scale", "wake"}  -> Goto(r, "create", req[r])
    /\ UNCHANGED <<engineVars, rows, faults>>

--------------------------------------------------------------------------------
(* Provider: creating containers (DeployFunction, the second half of ScaleFunction) *)

PullImage(r) ==
    /\ pc[r] = "pull"
    /\ \/ /\ Reaches(r)
          /\ Goto(r, "create", [req[r] EXCEPT !.missing = 0 .. DeployReplicas(r) - 1])
       \/ Refused(r) /\ Answer(r, 500)
    /\ UNCHANGED <<engineVars, rows>>

Net(r) == DeploymentOf(r).network

\* createContainer for the next index: ensureNetwork lists the networks ...
ListNetworks(r) ==
    /\ pc[r] = "create" /\ req[r].missing # {}
    /\ \/ /\ Reaches(r)
          /\ Goto(r, IF Net(r) \in DOMAIN networks THEN "connect" ELSE "netcreate", req[r])
       \/ Refused(r) /\ Answer(r, 500)
    /\ UNCHANGED <<engineVars, rows>>

\* ... and creates the one it did not find; somebody else may have meanwhile.
CreateNetwork(r) ==
    /\ pc[r] = "netcreate"
    /\ \/ /\ Reaches(r)
          /\ NetworkCreate(Net(r), Service(r))
          /\ Goto(r, "connect", req[r])
       \/ /\ IF Net(r) \in DOMAIN networks THEN UNCHANGED faults ELSE Refused(r)
          /\ Answer(r, 500)
          /\ UNCHANGED engineVars
    /\ UNCHANGED rows

\* Mutants of ConnectGateway: "already connected" is an error; nothing is connected.
ConnectGatewayOnce(r) ==
    /\ pc[r] = "connect"
    /\ \/ Net(r) \notin attached /\ Reaches(r) /\ NetworkConnect(Net(r)) /\ Goto(r, "inspect", req[r])
       \/ Net(r) \in attached /\ Answer(r, 500) /\ UNCHANGED <<engineVars, faults>>
    /\ UNCHANGED rows
ConnectGatewayNever(r) ==
    pc[r] = "connect" /\ Goto(r, "inspect", req[r]) /\ UNCHANGED <<engineVars, rows, faults>>

\* ensureGatewayConnected: being connected already is no error.
ConnectGateway(r) ==
    /\ pc[r] = "connect"
    /\ \/ /\ Reaches(r)
          /\ NetworkConnect(Net(r))
          /\ Goto(r, "inspect", req[r])
       \/ /\ IF Net(r) \notin DOMAIN networks THEN UNCHANGED faults ELSE Refused(r)
          /\ Answer(r, 500)
          /\ UNCHANGED engineVars
    /\ UNCHANGED rows

\* Mutant of InspectName: a container that is not stale is taken for the replica.
InspectNameReuses(r) ==
    /\ pc[r] = "inspect" /\ Reaches(r)
    /\ LET named == Named(Service(r), NextReplica(r))
       IN  IF named = {} THEN Goto(r, "ccreate", req[r])
           ELSE \E c \in named :
                  IF IsStale(containers[c].state)
                  THEN Goto(r, "rmstale", [req[r] EXCEPT !.cur = c])
                  ELSE Goto(r, "create", [req[r] EXCEPT !.missing = @ \ {NextReplica(r)}])
    /\ UNCHANGED <<engineVars, rows>>

\* removeStaleContainerByName inspects the name; a container that is not stale is
\* an error.
InspectName(r) ==
    /\ pc[r] = "inspect"
    /\ \/ /\ Reaches(r)
          /\ LET named == Named(Service(r), NextReplica(r))
             IN  IF named = {} THEN Goto(r, "ccreate", req[r])
                 ELSE \E c \in named :
                        IF IsStale(containers[c].state)
                        THEN Goto(r, "rmstale", [req[r] EXCEPT !.cur = c])
                        ELSE Answer(r, 500)
       \/ Refused(r) /\ Answer(r, 500)
    /\ UNCHANGED <<engineVars, rows>>

\* It removes the container it inspected, whatever its state is by now.
RemoveStale(r) ==
    /\ pc[r] = "rmstale"
    /\ \/ /\ Reaches(r)
          /\ ContainerRemove(req[r].cur)
          /\ Goto(r, "ccreate", [req[r] EXCEPT !.cur = NoContainer])
       \/ Refused(r) /\ Answer(r, 500) /\ UNCHANGED engineVars
    /\ UNCHANGED rows

NewContainer(r) == <<r, NextReplica(r)>>

CreateContainer(r) ==
    /\ pc[r] = "ccreate"
    /\ \/ /\ Reaches(r)
          /\ ContainerCreate(NewContainer(r), DeploymentOf(r), NextReplica(r))
          /\ Goto(r, "cstart", req[r])
       \/ /\ IF Named(Service(r), NextReplica(r)) # {} THEN UNCHANGED faults ELSE Refused(r)
          /\ Answer(r, 500)
          /\ UNCHANGED engineVars
    /\ UNCHANGED rows

\* A start that fails leaves the container behind, created.
StartContainer(r) ==
    /\ pc[r] = "cstart"
    /\ \/ /\ Reaches(r)
          /\ ContainerStart(NewContainer(r))
          /\ Goto(r, "create", [req[r] EXCEPT !.missing = @ \ {NextReplica(r)}])
       \/ /\ IF ~Startable(NewContainer(r)) THEN UNCHANGED faults ELSE Refused(r)
          /\ Answer(r, 500)
          /\ UNCHANGED engineVars
    /\ UNCHANGED rows

\* Every replica is created: the handler turns to the store.
Created(r) ==
    /\ pc[r] = "create" /\ req[r].missing = {}
    /\ Goto(r, CASE req[r].job = "deploy" -> "insert"
                 [] req[r].job = "update" -> "save"
                 [] OTHER                 -> "setreplicas", req[r])
    /\ UNCHANGED <<engineVars, rows, faults>>

--------------------------------------------------------------------------------
(* The store, after the containers *)

\* Mutant of InsertRow: INSERT OR REPLACE.
InsertRowReplaces(r) ==
    /\ pc[r] = "insert"
    /\ rows' = [t \in DOMAIN rows \cup {Service(r)} |->
                  IF t # Service(r) THEN rows[t]
                  ELSE [image |-> req[r].call.image, limited |-> req[r].call.limited,
                        network |-> NetworkFor(r), labels |-> req[r].call.labels,
                        replicas |-> 1]]
    /\ Answer(r, 202)
    /\ UNCHANGED <<engineVars, faults>>

\* CreateFunction; when it fails the handler removes the function's containers.
InsertRow(r) ==
    /\ pc[r] = "insert"
    /\ \/ /\ CreateFunction(Service(r), [image |-> req[r].call.image,
                                         limited |-> req[r].call.limited,
                                         network |-> NetworkFor(r),
                                         labels |-> req[r].call.labels, replicas |-> 1])
          /\ Answer(r, 202)
          /\ UNCHANGED faults
       \/ /\ IF Stored(Service(r)) THEN UNCHANGED faults ELSE Fault("store")
          /\ Begin(r, "list", "rollback", NoRow)
          /\ UNCHANGED rows
    /\ UNCHANGED engineVars

\* Mutant of SaveRow: the replica count of a first deploy is stored.
SaveRowAsDeployed(r) ==
    /\ pc[r] = "save"
    /\ UpdateFunction(Service(r), [image |-> req[r].call.image, limited |-> req[r].call.limited,
                                   network |-> NetworkFor(r),
                                   labels |-> req[r].call.labels, replicas |-> 1])
    /\ Answer(r, 202)
    /\ UNCHANGED <<engineVars, faults>>

\* UpdateFunction writes the row read at the start back, replicas included, with
\* what the call sets; no limits in the call leaves the limits of the row.
SaveRow(r) ==
    /\ pc[r] = "save"
    /\ \/ /\ UpdateFunction(Service(r), [image |-> req[r].call.image,
                                         limited |-> req[r].call.limited \/ req[r].row.limited,
                                         network |-> NetworkFor(r),
                                         labels |-> req[r].call.labels,
                                         replicas |-> req[r].row.replicas])
          /\ Answer(r, 202)
          /\ UNCHANGED faults
       \/ /\ IF ~Stored(Service(r)) THEN UNCHANGED faults ELSE Fault("store")
          /\ Answer(r, 500)
          /\ UNCHANGED rows
    /\ UNCHANGED engineVars

\* Mutant of SetReplicas: a failing update is a warning to both handlers.
SetReplicasWarns(r) ==
    /\ pc[r] = "setreplicas"
    /\ \/ UpdateReplicas(Service(r), Target(r)) /\ UNCHANGED faults
       \/ Fault("store") /\ UNCHANGED rows
    /\ IF req[r].job = "wake" THEN Goto(r, "wait", req[r]) ELSE Answer(r, 202)
    /\ UNCHANGED engineVars

\* UpdateReplicas: its failure is an error to HandleScaleFunction and a warning to
\* scaleFromZero.
SetReplicas(r) ==
    /\ pc[r] = "setreplicas"
    /\ \/ /\ UpdateReplicas(Service(r), Target(r))
          /\ IF req[r].job = "wake" THEN Goto(r, "wait", req[r]) ELSE Answer(r, 202)
          /\ UNCHANGED faults
       \/ /\ IF ~Stored(Service(r)) THEN UNCHANGED faults ELSE Fault("store")
          /\ IF req[r].job = "wake" THEN Goto(r, "wait", req[r]) ELSE Answer(r, 500)
          /\ UNCHANGED rows
    /\ UNCHANGED engineVars

\* Mutant of DeleteRow: a DELETE that finds no row is no error.
DeleteRowIfAny(r) ==
    /\ pc[r] = "deleterow"
    /\ IF Stored(Service(r)) THEN DeleteFunction(Service(r)) ELSE UNCHANGED rows
    /\ Goto(r, "netinspect", req[r])
    /\ UNCHANGED <<engineVars, faults>>

DeleteRow(r) ==
    /\ pc[r] = "deleterow"
    /\ \/ /\ DeleteFunction(Service(r))
          /\ Goto(r, "netinspect", req[r])
          /\ UNCHANGED faults
       \/ /\ IF ~Stored(Service(r)) THEN UNCHANGED faults ELSE Fault("store")
          /\ Answer(r, 500)
          /\ UNCHANGED rows
    /\ UNCHANGED engineVars

--------------------------------------------------------------------------------
(* CleanupFunctionNetwork, whose errors HandleDeleteFunction only logs *)

OldNet(r) == req[r].row.network

\* isManagedFunctionNetwork: by its name or by its label.
Managed(n, s) == n = OwnNetwork[s] \/ networks[n] = s

InspectNetwork(r) ==
    /\ pc[r] = "netinspect"
    /\ \/ /\ Reaches(r)
          /\ IF OldNet(r) \in DOMAIN networks /\ Managed(OldNet(r), Service(r))
             THEN Goto(r, "disconnect", req[r])
             ELSE Answer(r, 202)
       \/ Refused(r) /\ Answer(r, 202)
    /\ UNCHANGED <<engineVars, rows>>

\* Mutant of DisconnectGateway: the gateway stays connected.
DisconnectGatewayNever(r) ==
    /\ pc[r] = "disconnect"
    /\ Goto(r, "netreinspect", req[r])
    /\ UNCHANGED <<engineVars, rows, faults>>

DisconnectGateway(r) ==
    /\ pc[r] = "disconnect"
    /\ \/ Reaches(r) /\ NetworkDisconnect(OldNet(r))
       \/ Refused(r) /\ UNCHANGED engineVars
    /\ Goto(r, "netreinspect", req[r])
    /\ UNCHANGED rows

ReinspectNetwork(r) ==
    /\ pc[r] = "netreinspect"
    /\ \/ /\ Reaches(r)
          /\ IF OldNet(r) \in DOMAIN networks /\ ~InUse(OldNet(r))
             THEN Goto(r, "netremove", req[r])
             ELSE Answer(r, 202)
       \/ Refused(r) /\ Answer(r, 202)
    /\ UNCHANGED <<engineVars, rows>>

RemoveNetwork(r) ==
    /\ pc[r] = "netremove"
    /\ \/ Reaches(r) /\ NetworkRemove(OldNet(r))
       \/ /\ IF OldNet(r) \notin DOMAIN networks \/ InUse(OldNet(r)) THEN UNCHANGED faults
             ELSE Refused(r)
          /\ UNCHANGED engineVars
    /\ Answer(r, 202)
    /\ UNCHANGED rows

--------------------------------------------------------------------------------
(* Invocation *)

Ready(r) == IF Op(r) = "async" THEN "accept" ELSE "route"

\* GetFunctionContainers, and whether one of them is up; if not, scaleFromZero.  A
\* listing that fails is an error; an inspection that fails hides its container, so
\* that a function that is up may be woken.
Probe(r) ==
    /\ pc[r] = "probe"
    /\ \/ /\ Reaches(r)
          /\ IF Up(Service(r)) THEN Goto(r, Ready(r), req[r])
             ELSE Begin(r, "list", "wake", req[r].row)
       \/ Refused(r) /\ Answer(r, 500)
       \/ /\ ~req[r].cancelled /\ Up(Service(r)) /\ Fault("engine")
          /\ Begin(r, "list", "wake", req[r].row)
    /\ UNCHANGED <<engineVars, rows>>

\* waitForFunctionReady polls every 500 ms; a poll that fails or finds nothing up
\* is followed by another one, or by the end of the 30 seconds.
Poll(r) ==
    /\ pc[r] = "wait" /\ Up(Service(r)) /\ Reaches(r)
    /\ Goto(r, Ready(r), req[r])
    /\ UNCHANGED <<engineVars, rows>>

\* Mutants of WaitTimeout: the deadline is looked at before the containers; there is
\* no deadline.
WaitTimeoutFirst(r) ==
    pc[r] = "wait" /\ Answer(r, 504) /\ UNCHANGED <<engineVars, rows, faults>>
WaitTimeoutNever(r) ==
    pc[r] = "wait" /\ req[r].cancelled /\ Answer(r, 504) /\ UNCHANGED <<engineVars, rows, faults>>

WaitTimeout(r) ==
    /\ pc[r] = "wait"
    /\ IF Up(Service(r)) THEN Refused(r) ELSE UNCHANGED faults
    /\ Answer(r, 504)
    /\ UNCHANGED <<engineVars, rows>>

\* HandleInvokeFunctionAsync answers; a goroutine goes on with a context of its own.
Accept(r) ==
    /\ pc[r] = "accept"
    /\ Goto(r, "route", [req[r] EXCEPT !.answer = 202, !.cancelled = FALSE])
    /\ UNCHANGED <<engineVars, rows, faults>>

\* RouteRequest: the counter picks any of the containers listed, for the filter on
\* running ones compares the status with "running" and "Up", which Docker's
\* statuses ("Up 5 minutes") never equal.  The address is read here, and a container
\* that is not running has none.
Route(r) ==
    /\ pc[r] = "route"
    /\ \/ /\ Reaches(r)
          /\ \/ /\ ContainersOf(Service(r)) = {}
                /\ Answer(r, 500)
             \/ \E c \in ContainersOf(Service(r)) :
                    Goto(r, "forward", [req[r] EXCEPT !.cur =
                        IF c \in Running(Service(r)) THEN c ELSE NoContainer])
       \/ Refused(r) /\ Answer(r, 500)
    /\ UNCHANGED <<engineVars, rows>>

Reachable(c) ==
    c \in Existing /\ containers[c].state = "running" /\ containers[c].network \in attached

\* Whether the call gets to a running container of the function.
Arrives(r) == ~req[r].cancelled /\ Reachable(req[r].cur)

\* forwardRequest passes on what port 8080 of the address answers.  A container that
\* was reached may not listen yet, or not answer in time.  Without an address the call
\* is made to the gateway's own port, and what is passed on is not the function's.
Forward(r) ==
    /\ pc[r] = "forward"
    /\ \E code \in {200, 500} :
          /\ code = 200 => Arrives(r) \/ (~req[r].cancelled /\ req[r].cur = NoContainer)
          /\ Finish(r, IF req[r].answer = NoAnswer THEN code ELSE req[r].answer, Arrives(r))
    /\ UNCHANGED <<engineVars, rows, faults>>

--------------------------------------------------------------------------------
(* The environment *)

\* The client goes away: net/http cancels the context of its request.
HangUp(r) ==
    /\ r \in InFlight /\ ~req[r].cancelled /\ req[r].answer = NoAnswer
    /\ Fault("hangup")
    /\ Goto(r, pc[r], [req[r] EXCEPT !.cancelled = TRUE])
    /\ UNCHANGED <<engineVars, rows>>

Exit(c) ==
    /\ ContainerExits(c)
    /\ Fault("exit")
    /\ UNCHANGED <<rows, pc, req>>

Restart(c) == ContainerRestarts(c) /\ UNCHANGED <<rows, pc, req, faults>>

RowNetworks == {rows[s].network : s \in DOMAIN rows}

\* The gateway dies and comes back: every request and goroutine in flight is lost.
\* Its container is the old one or a new one, which is on no function network yet;
\* before it serves, main runs ReconcileOnce over the networks of the rows.
CrashAndRestart ==
    /\ Fault("crash")
    /\ pc' = [r \in Requests |-> IF r \in InFlight THEN "done" ELSE pc[r]]
    /\ req' = [r \in Requests |-> IF r \in InFlight
                                  THEN Blank(req[r].call, req[r].answer, FALSE) ELSE req[r]]
    /\ \E before \in {attached, {}} :
          attached' = before \cup (RowNetworks \cap DOMAIN networks)
    /\ UNCHANGED <<containers, networks, rows>>

--------------------------------------------------------------------------------

Remove(r)  == List(r) \/ StopVictim(r) \/ RemoveVictim(r) \/ Reaped(r)

Create(r)  == \/ PullImage(r) \/ ListNetworks(r) \/ CreateNetwork(r) \/ ConnectGateway(r)
              \/ InspectName(r) \/ RemoveStale(r) \/ CreateContainer(r)
              \/ StartContainer(r) \/ Created(r)

Store(r)   == InsertRow(r) \/ SaveRow(r) \/ SetReplicas(r) \/ DeleteRow(r)

Cleanup(r) == InspectNetwork(r) \/ DisconnectGateway(r) \/ ReinspectNetwork(r) \/ RemoveNetwork(r)

Invoke(r)  == Probe(r) \/ Poll(r) \/ WaitTimeout(r) \/ Accept(r) \/ Route(r) \/ Forward(r)

\* A request's handler makes progress.
Handle(r) == Lookup(r) \/ Remove(r) \/ Create(r) \/ Store(r) \/ Cleanup(r) \/ Invoke(r)

Disturb ==
    \/ \E r \in Requests : HangUp(r)
    \/ \E c \in ContainerIds : Exit(c) \/ Restart(c)

\* Every call was made and handled.
Quiesced == (\A r \in Requests : pc[r] = "done") /\ UNCHANGED vars

Next == (\E r \in Requests : Arrive(r) \/ Handle(r)) \/ Disturb \/ CrashAndRestart \/ Quiesced

Spec == Init /\ [][Next]_vars
================================================================================
