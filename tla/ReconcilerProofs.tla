----------------------------- MODULE ReconcilerProofs -----------------------------
(***************************************************************************)
(* The handlers next to the reconciler: what is proved of the handlers     *)
(* alone stays true between the reconciler's calls, and deletes release    *)
(* the networks of their functions whatever passes run in between:         *)
(* OwnNetworksReleased, for every number of requests and functions of      *)
(* which none is put on the own network of another.                        *)
(*                                                                         *)
(* The invariant follows the own network of a function whose calls are     *)
(* deletes only: the gateway is on it while the function is stored, so no  *)
(* pass finds it missing; and once the row is gone, the delete that        *)
(* removed the row has the network to itself.                              *)
(***************************************************************************)
EXTENDS NetworkReconciler, LifecycleProofs

\* The networks the gateway may put service s on: its own, those its calls name, and
\* those of its row when the behaviour begins.
Uses(s) ==
    {OwnNetwork[s]}
    \cup {call.network : call \in {k \in Calls : k.service = s /\ k.network # NoNetwork}}
    \cup {R[s].network : R \in {Q \in InitialRows : s \in DOMAIN Q}}

\* No call, and no row of the beginning, puts a function on another one's own network or
\* labels its containers as another one's.
OwnNetworksApart ==
    /\ OwnLabelsOnly
    /\ \A s, t \in Services : s # t => OwnNetwork[s] \notin Uses(t)

\* Containers, rows and handlers keep to the networks of their service.
KeepsToUses ==
    /\ \A c \in Existing : containers[c].network \in Uses(containers[c].name[1])
    /\ \A s \in DOMAIN rows : rows[s].network \in Uses(s)
    /\ \A r \in Requests : req[r].row # NoRow => req[r].row.network \in Uses(Service(r))

CleaningUp == {"netinspect", "disconnect", "netreinspect", "netremove"}

\* Every call made for s so far is a delete, or has not done anything yet and never will.
OnlyDeletes(s) ==
    \A r \in Requests : req[r].call # NoCall /\ Service(r) = s =>
       \/ Op(r) = "delete" \/ pc[r] = "lookup"
       \/ pc[r] = "done" /\ req[r].answer \in {404, 409}

\* What a delete has to do with each of its calls: the row it read is the stored one, it is
\* to remove every container there is, it deletes the row when there is none any more,
\* and nobody brings the gateway back onto the network it has left.
Clears(r) ==
    LET s == Service(r)
    IN  /\ req[r].job \in {"none", "delete"}
        /\ req[r].job = "delete" /\ Stored(s) => req[r].row = rows[s]
        /\ pc[r] \in {"reap", "remove"} =>
              \A c \in ContainersOf(s) : \E v \in req[r].victims : v.id = c
        /\ pc[r] \in {"deleterow"} \cup CleaningUp => ContainersOf(s) = {}
        /\ pc[r] \in CleaningUp => ~Stored(s)
        /\ pc[r] \in {"netreinspect", "netremove"} /\ OldNet(r) = OwnNetwork[s] =>
              OwnNetwork[s] \notin attached

OnOwn(s) == Stored(s) /\ rows[s].network = OwnNetwork[s]

Releases(r, s) ==
    req[r].call # NoCall /\ Service(r) = s /\ pc[r] \in CleaningUp /\ OldNet(r) = OwnNetwork[s]

\* The own network of s: no pass of the reconciler is going to connect the gateway to it,
\* and it exists only while s is on it or a delete is about to remove it.
Watched(s) ==
    /\ \A entry \in todo : entry[2] # OwnNetwork[s]
    /\ OnOwn(s) => OwnNetwork[s] \in attached
    /\ OnOwn(s) /\ rpc = "listrows" => OwnNetwork[s] \in known
    /\ OwnNetwork[s] \in DOMAIN networks => OnOwn(s) \/ \E r \in Requests : Releases(r, s)

Undisturbed(s) ==
    /\ Watched(s)
    /\ \A r \in Requests : req[r].call # NoCall /\ Service(r) = s => Clears(r)

\* Only its look-up turns a call away.
Unrefused == \A r \in Requests : pc[r] # "done" => req[r].answer \in {NoAnswer, 202}

\* As long as nothing has failed, a function that is only deleted goes undisturbed.
LeftAlone ==
    faults = 0 =>
       /\ \A r \in Requests : ~req[r].cancelled
       /\ \A s \in Services : OnlyDeletes(s) => Undisturbed(s)

\* Nothing is to be connected between two passes.
Orderly == ReconcilerTypeOK /\ (rpc # "connect" => todo = {})

\* What the handlers keep, they keep next to the reconciler.
TogetherInv == Inv /\ Serving /\ KeepsToUses /\ Unrefused /\ Orderly

--------------------------------------------------------------------------------
(* What a handler's step does, whoever is interested *)

\* It reads the row of its service or none, and answers 404 and 409 only after the look-up.
LEMMA HandlerTurns ==
    ASSUME Inv, Serving, NEW r \in Requests, Handle(r)
    PROVE  /\ req'[r].row \in {req[r].row, NoRow, GetFunction(Service(r))}
           /\ pc'[r] # "done" => req'[r].answer \in {req[r].answer, 202}
           /\ pc'[r] = "lookup" => pc[r] = "lookup"
           /\ pc'[r] = "done" /\ pc[r] # "lookup" /\ req[r].answer \in {NoAnswer, 202} =>
                 req'[r].answer \notin {404, 409}
  <1>1. Registry!Turn(r) \/ UNCHANGED <<rows, Asks>>
    BY HandleSimulates DEF Serving, Simulates
  <1>2. /\ Asks[r].phase = Phase(pc[r]) /\ Asks[r].call = req[r].call
        /\ Asks[r].read = req[r].row /\ Asks[r].answer = req[r].answer
        /\ Asks'[r].phase = Phase(pc'[r]) /\ Asks'[r].read = req'[r].row
        /\ Asks'[r].answer = req'[r].answer
    BY DEF Asks
  <1>3. Asks = [t \in Requests |-> Asks[t]]
    BY DEF Asks
  <1>4. \A t \in Requests : Asks[t] = [phase |-> Phase(pc[t]), call |-> req[t].call,
                                       read |-> req[t].row, answer |-> req[t].answer]
    BY DEF Asks
  <1>5. pc[r] \in Labels /\ pc'[r] \in Labels /\ pc[r] \notin {"idle", "done"}
    <2>1. HandlerStep(r) /\ TypeOK
      BY HandleSteps DEF Inv
    <2>2. pc[r] \in Labels /\ pc'[r] \in Labels
      BY <2>1 DEF HandlerStep, Advances, Goto, TypeOK
    <2>3. pc[r] \notin {"idle", "done"}
      BY HandlesInFlight DEF InFlight
    <2> QED
      BY <2>2, <2>3
  <1>6. /\ Phase(pc'[r]) = "answered" <=> pc'[r] = "done"
        /\ Phase(pc[r]) = "called" <=> pc[r] = "lookup"
        /\ Phase(pc'[r]) = "called" <=> pc'[r] = "lookup"
        /\ Phase(pc[r]) \notin {"idle", "answered"}
    BY <1>5 DEF Phase
  <1>7. CASE UNCHANGED <<rows, Asks>>
    BY <1>2, <1>6, <1>7
  <1>8. ASSUME NEW code, Registry!Answered(r, code), code \notin {404, 409} \/ pc[r] = "lookup"
        PROVE  /\ req'[r].row = NoRow /\ pc'[r] = "done"
               /\ pc[r] # "lookup" /\ req[r].answer \in {NoAnswer, 202} =>
                     req'[r].answer \notin {404, 409}
    <2>1. /\ Asks'[r].phase = "answered" /\ Asks'[r].read = NoRow
          /\ Asks'[r].answer = IF Asks[r].answer = Registry!NoAnswer THEN code ELSE Asks[r].answer
      BY <1>3, <1>8 DEF Registry!Answered
    <2> QED
      BY <1>2, <1>6, <1>8, <2>1 DEF Registry!NoAnswer, NoAnswer
  <1>9. CASE Registry!Turn(r)
    <2>1. CASE Registry!Read(r)
      <3>1. PICK row \in {NoRow} \cup {rows[s] : s \in DOMAIN rows \cap {Registry!Service(r)}} :
               Asks' = [Asks EXCEPT ![r].phase = "read", ![r].read = row]
        BY <2>1 DEF Registry!Read
      <3>2. Asks'[r].read = row /\ Asks'[r].answer = Asks[r].answer /\ Asks'[r].phase = "read"
        <4>1. r \in DOMAIN Asks
          BY DEF Asks
        <4>2. Asks'[r] = [Asks[r] EXCEPT !.phase = "read", !.read = row]
          BY <3>1, <4>1
        <4> QED
          BY <1>4, <4>2
      <3>3. row \in {NoRow, GetFunction(Service(r))}
        BY <1>2, <3>1 DEF Registry!Service, Service, GetFunction, Stored
      <3>4. req'[r].row = row /\ req'[r].answer = req[r].answer /\ Phase(pc'[r]) = "read"
        BY <1>2, <3>2
      <3>5. pc'[r] \notin {"done", "lookup"}
        BY <1>6, <3>4
      <3> QED
        BY <3>3, <3>4, <3>5
    <2>2. CASE Registry!Remove(r) \/ Registry!Settle(r)
      <3>1. Asks' = [Asks EXCEPT ![r].phase = "settled"]
        BY <2>2 DEF Registry!Remove, Registry!Settle
      <3>2. /\ Asks'[r].read = Asks[r].read /\ Asks'[r].answer = Asks[r].answer
            /\ Asks'[r].phase = "settled"
        BY <1>4, <3>1 DEF Asks
      <3> QED
        BY <1>2, <1>6, <3>2
    <2>3. CASE Registry!Accept(r)
      <3>1. Asks' = [Asks EXCEPT ![r].answer = 202] /\ Asks[r].phase = "settled"
        BY <2>3 DEF Registry!Accept
      <3>2. /\ Asks'[r].read = Asks[r].read /\ Asks'[r].answer = 202
            /\ Asks'[r].phase = "settled"
        BY <1>4, <3>1 DEF Asks
      <3> QED
        BY <1>2, <1>6, <3>2
    <2>4. CASE Registry!Refuse(r)
      <3>1. pc[r] = "lookup" /\ \E code : Registry!Answered(r, code)
        BY <1>2, <1>6, <2>4 DEF Registry!Refuse
      <3> QED
        BY <1>8, <3>1
    <2>5. CASE \/ Registry!Register(r) \/ Registry!Modify(r) \/ Registry!Scale(r)
               \/ Registry!Complete(r) \/ Registry!Fail(r)
      <3>1. \E code \in {200, 202, 500, 504} : Registry!Answered(r, code)
        BY <2>5 DEF Registry!Register, Registry!Modify, Registry!Scale, Registry!Complete,
                    Registry!Fail
      <3> QED
        BY <1>8, <3>1
    <2>6. ~Registry!Ask(r)
      BY <1>2, <1>6 DEF Registry!Ask
    <2> QED
      BY <1>9, <2>1, <2>2, <2>3, <2>4, <2>5, <2>6 DEF Registry!Turn
  <1> QED
    BY <1>1, <1>7, <1>9

\* A container stays on its network; a new one is on the network of its deployment.
LEMMA ContainersStayOn ==
    ASSUME Inv, NEW r \in Requests, Handle(r), NEW c \in Existing'
    PROVE  \/ /\ c \in Existing
              /\ containers'[c].name = containers[c].name
              /\ containers'[c].network = containers[c].network
           \/ /\ pc[r] = "ccreate"
              /\ containers'[c].name[1] = Service(r) /\ containers'[c].network = Net(r)
  <1>1. CASE UNCHANGED containers
    BY <1>1 DEF Existing
  <1>2. CASE \E d, state : SetState(d, state)
    <2>1. PICK d, state : SetState(d, state)
      BY <1>2
    <2> QED
      BY <2>1 DEF SetState, Existing, Inv, TypeOK, EngineTypeOK, Container
  <1>3. CASE \E d : ContainerRemove(d)
    BY <1>3 DEF ContainerRemove, Existing
  <1>4. CASE CreateContainer(r)
    <2>1. CASE UNCHANGED engineVars
      BY <1>1, <2>1 DEF engineVars
    <2>2. CASE ContainerCreate(NewContainer(r), DeploymentOf(r), NextReplica(r))
      <3>1. DeploymentOf(r).service = Service(r) /\ DeploymentOf(r).network = Net(r)
        BY DEF DeploymentOf, Net
      <3> HIDE DEF Inv
      <3> QED
        BY <1>4, <2>2, <3>1 DEF CreateContainer, ContainerCreate, Made, Existing
    <2> QED
      BY <1>4, <2>1, <2>2 DEF CreateContainer
  <1>5. CASE Remove(r)
    BY <1>1, <1>2, <1>3, <1>5
    DEF Remove, List, StopVictim, RemoveVictim, Reaped, ContainerStop, engineVars
  <1>6. CASE Create(r)
    BY <1>1, <1>2, <1>3, <1>4, <1>6
    DEF Create, PullImage, ListNetworks, CreateNetwork, ConnectGateway, InspectName, RemoveStale,
        StartContainer, Created, NetworkCreate, NetworkConnect, ContainerStart, engineVars
  <1>7. CASE Lookup(r) \/ Store(r) \/ Cleanup(r) \/ Invoke(r)
    BY <1>1, <1>7
    DEF Lookup, Store, InsertRow, SaveRow, SetReplicas, DeleteRow, Cleanup, InspectNetwork,
        DisconnectGateway, ReinspectNetwork, RemoveNetwork, NetworkDisconnect, NetworkRemove,
        Invoke, Probe, Poll, WaitTimeout, Accept, Route, Forward, engineVars
  <1> QED
    BY <1>5, <1>6, <1>7 DEF Handle

\* So does a row; a new or updated one has the network of its call.
LEMMA RowsStayOn ==
    ASSUME Inv, NEW r \in Requests, Handle(r), NEW s \in DOMAIN rows'
    PROVE  \/ s \in DOMAIN rows /\ rows'[s].network = rows[s].network
           \/ pc[r] \in {"insert", "save"} /\ s = Service(r) /\ rows'[s].network = NetworkFor(r)
  <1>1. CASE UNCHANGED rows
    BY <1>1
  <1>2. CASE Remove(r) \/ Create(r)
    BY <1>1, <1>2, RemoveWorks, CreateWorks
  <1>3. CASE Lookup(r) \/ Cleanup(r) \/ Invoke(r)
    BY <1>1, <1>3
    DEF Lookup, Cleanup, InspectNetwork, DisconnectGateway, ReinspectNetwork, RemoveNetwork,
        Invoke, Probe, Poll, WaitTimeout, Accept, Route, Forward
  <1>4. CASE InsertRow(r)
    BY <1>1, <1>4 DEF InsertRow, CreateFunction
  <1>5. CASE SaveRow(r)
    BY <1>1, <1>5 DEF SaveRow, UpdateFunction, Stored
  <1>6. CASE SetReplicas(r)
    <2>1. CASE UpdateReplicas(Service(r), Target(r))
      BY <2>1 DEF UpdateReplicas, Stored, Inv, TypeOK, StoreTypeOK, Row
    <2> QED
      BY <1>1, <1>6, <2>1 DEF SetReplicas
  <1>7. CASE DeleteRow(r)
    BY <1>1, <1>7 DEF DeleteRow, DeleteFunction
  <1> QED
    BY <1>2, <1>3, <1>4, <1>5, <1>6, <1>7 DEF Handle, Store

\* The networks it names are networks its service may be put on.
LEMMA NetIsUsed ==
    ASSUME Inv, KeepsToUses, NEW r \in Requests
    PROVE  /\ pc[r] \in CreatingLabels => Net(r) \in Uses(Service(r))
           /\ pc[r] \in {"insert", "save"} => NetworkFor(r) \in Uses(Service(r))
           /\ pc[r] \in CleaningUp => OldNet(r) \in Uses(Service(r))
  <1>1. Knows(pc[r], req[r]) /\ (pc[r] # "idle" => req[r].call \in Calls)
    BY DEF Inv, TypeOK, Request, Knows
  <1>2. req[r].row # NoRow => req[r].row.network \in Uses(Service(r))
    BY DEF KeepsToUses
  <1>3. ASSUME pc[r] # "idle", Op(r) = "update" => req[r].row # NoRow
        PROVE  NetworkFor(r) \in Uses(Service(r))
    BY <1>1, <1>2, <1>3 DEF NetworkFor, Uses, Service
  <1>4. CASE pc[r] \in CreatingLabels
    <2>1. CASE req[r].job \in {"scale", "wake"}
      BY <1>1, <1>2, <1>4, <2>1 DEF Net, DeploymentOf, Knows, CleaningUp, CreatingLabels
    <2>2. CASE req[r].job \in {"deploy", "update"}
      <3>1. Net(r) = NetworkFor(r)
        BY <2>2 DEF Net, DeploymentOf
      <3>2. Op(r) = "update" => req[r].row # NoRow
        BY <1>1, <1>4 DEF Knows, CreatingLabels, Op
      <3> QED
        BY <1>3, <1>4, <3>1, <3>2 DEF CreatingLabels, CleaningUp
    <2> QED
      BY <1>1, <1>4, <2>1, <2>2 DEF Knows, CreatingLabels
  <1>5. CASE pc[r] \in {"insert", "save"}
    <2>1. Op(r) = "update" => req[r].row # NoRow
      BY <1>1, <1>5 DEF Knows, Op
    <2> QED
      BY <1>3, <1>5, <2>1 DEF CreatingLabels, CleaningUp
  <1>6. CASE pc[r] \in CleaningUp
    BY <1>1, <1>2, <1>6 DEF Knows, CleaningUp, OldNet, CreatingLabels
  <1> QED
    BY <1>4, <1>5, <1>6

\* The gateway's attachments and the networks of others stay.
LEMMA OtherNetworksStay ==
    ASSUME Inv, KeepsToUses, NEW r \in Requests, Handle(r), NEW n, n \notin Uses(Service(r))
    PROVE  /\ n \in attached' <=> n \in attached
           /\ n \in DOMAIN networks' <=> n \in DOMAIN networks
  <1>1. CASE UNCHANGED <<networks, attached>>
    BY <1>1
  <1>2. CASE \E m \in Uses(Service(r)) :
                \/ NetworkCreate(m, Service(r)) \/ NetworkConnect(m)
                \/ NetworkDisconnect(m) \/ NetworkRemove(m)
    BY <1>2 DEF NetworkCreate, NetworkConnect, NetworkDisconnect, NetworkRemove
  <1>3. CASE Remove(r)
    BY <1>1, <1>3
    DEF Remove, List, StopVictim, RemoveVictim, Reaped, ContainerStop, ContainerRemove, engineVars
  <1>4. CASE CreateNetwork(r) \/ ConnectGateway(r)
    <2>1. Net(r) \in Uses(Service(r))
      BY <1>4, NetIsUsed DEF CreateNetwork, ConnectGateway, CreatingLabels
    <2> QED
      BY <1>1, <1>2, <1>4, <2>1 DEF CreateNetwork, ConnectGateway, engineVars
  <1>5. CASE Create(r) /\ ~CreateNetwork(r) /\ ~ConnectGateway(r)
    BY <1>1, <1>5
    DEF Create, PullImage, ListNetworks, InspectName, RemoveStale, CreateContainer,
        StartContainer, Created, ContainerRemove, ContainerCreate, ContainerStart, engineVars
  <1>6. CASE DisconnectGateway(r) \/ RemoveNetwork(r)
    <2>1. OldNet(r) \in Uses(Service(r))
      BY <1>6, NetIsUsed DEF DisconnectGateway, RemoveNetwork, CleaningUp
    <2> QED
      BY <1>1, <1>2, <1>6, <2>1 DEF DisconnectGateway, RemoveNetwork, engineVars
  <1>7. CASE Lookup(r) \/ Store(r) \/ InspectNetwork(r) \/ ReinspectNetwork(r) \/ Invoke(r)
    BY <1>1, <1>7
    DEF Lookup, Store, InsertRow, SaveRow, SetReplicas, DeleteRow, InspectNetwork,
        ReinspectNetwork, Invoke, Probe, Poll, WaitTimeout, Accept, Route, Forward, engineVars
  <1> QED
    BY <1>3, <1>4, <1>5, <1>6, <1>7 DEF Handle, Cleanup

LEMMA HandleKeepsToUses ==
    ASSUME Inv, Serving, KeepsToUses, NEW r \in Requests, Handle(r)
    PROVE  KeepsToUses'
  <1>1. Inv' /\ HandlerStep(r) /\ r \in Requests
    BY HandleSteps, HandlerStepPreserves
  <1>2. /\ \A t \in Requests : req'[t].call = req[t].call
        /\ \A t \in Requests : t # r => req'[t] = req[t]
    BY <1>1 DEF HandlerStep, Advances, Goto, Inv, TypeOK
  <1>3. ASSUME NEW c \in Existing'
        PROVE  containers'[c].network \in Uses(containers'[c].name[1])
    BY <1>3, ContainersStayOn, NetIsUsed DEF KeepsToUses, CreatingLabels
  <1>4. ASSUME NEW s \in DOMAIN rows'
        PROVE  rows'[s].network \in Uses(s)
    BY <1>4, RowsStayOn, NetIsUsed DEF KeepsToUses
  <1>5. ASSUME NEW t \in Requests, req'[t].row # NoRow
        PROVE  req'[t].row.network \in Uses(Service(t)')
    <2>1. Service(t)' = Service(t)
      BY <1>2 DEF Service
    <2>2. CASE t # r
      BY <1>2, <1>5, <2>1, <2>2 DEF KeepsToUses
    <2>3. CASE t = r
      BY <1>5, <2>1, <2>3, HandlerTurns DEF KeepsToUses, GetFunction, Stored
    <2> QED
      BY <2>2, <2>3
  <1> QED
    BY <1>3, <1>4, <1>5 DEF KeepsToUses, Uses

--------------------------------------------------------------------------------
(* A delete, step by step *)

\* Nothing comes to s, its row or its own network.
Ebbs(s) ==
    /\ ContainersOf(s)' \subseteq ContainersOf(s)
    /\ Stored(s)' => Stored(s) /\ rows'[s] = rows[s]
    /\ OwnNetwork[s] \in attached' => OwnNetwork[s] \in attached
    /\ OwnNetwork[s] \in DOMAIN networks' => OwnNetwork[s] \in DOMAIN networks
    /\ OnOwn(s)' /\ OwnNetwork[s] \in attached => OwnNetwork[s] \in attached'

\* The step of a delete, which has the own network to release when the row is gone and
\* keeps at it until the network is removed.
Deletes(r, s) ==
    /\ Clears(r)'
    /\ Ebbs(s)
    /\ OnOwn(s) /\ ~Stored(s)' => Releases(r, s)'
    /\ Releases(r, s) => Releases(r, s)' \/ OwnNetwork[s] \notin DOMAIN networks'

LEMMA ClearsStill ==
    ASSUME NEW t, NEW s, s = Service(t), Clears(t), Ebbs(s), pc'[t] = pc[t], req'[t] = req[t]
    PROVE  Clears(t)'
  <1>1. Service(t)' = s /\ OldNet(t)' = OldNet(t)
    BY DEF Service, OldNet
  <1> QED
    BY <1>1 DEF Clears, Ebbs, Stored

\* Nobody is on the own network of s but the containers of s.
LEMMA OwnNetworkIsFree ==
    ASSUME Inv, KeepsToUses, OwnNetworksApart, NEW s \in Services, ContainersOf(s) = {}
    PROVE  Endpoints(OwnNetwork[s]) = {}
  <1> SUFFICES ASSUME NEW c \in Existing, containers[c].network = OwnNetwork[s]
               PROVE  FALSE
    BY DEF Endpoints
  <1>0. containers[c].name[1] = containers[c].service
    BY DEF OwnNetworksApart, Inv, Ownership, Marked
  <1>1. containers[c].service \in Services /\ containers[c].network \in Uses(containers[c].service)
    BY <1>0 DEF Existing, Inv, TypeOK, EngineTypeOK, Container, KeepsToUses
  <1>2. containers[c].service = s
    BY <1>1 DEF OwnNetworksApart
  <1> QED
    BY <1>2 DEF ContainersOf

LEMMA NothingFailed ==
    ASSUME Inv, faults' = 0
    PROVE  /\ \A kind : ~Fault(kind)
           /\ \A r : ~req[r].cancelled => ~Refused(r)
  <1>1. \A kind : ~Fault(kind)
    BY DEF Fault, Inv, TypeOK
  <1> QED
    BY <1>1 DEF Refused

LEMMA DeleteAnswered ==
    ASSUME Inv, NEW r \in Requests, NEW s, NEW code, Answer(r, code),
           UNCHANGED <<engineVars, rows>>,
           Releases(r, s) => OwnNetwork[s] \notin DOMAIN networks
    PROVE  Deletes(r, s)
  <1>1. pc'[r] = "done" /\ req'[r].job = "none"
    BY DEF Answer, Finish, Goto, Blank, Inv, TypeOK
  <1>2. Clears(r)'
    BY <1>1 DEF Clears, CleaningUp
  <1>3. UNCHANGED <<containers, networks, attached, rows>>
    BY DEF engineVars
  <1>4. Ebbs(s)
    BY <1>3 DEF Ebbs, ContainersOf, Existing, Stored, OnOwn
  <1>5. Stored(s)' = Stored(s)
    BY <1>3 DEF Stored
  <1> QED
    BY <1>2, <1>3, <1>4, <1>5 DEF Deletes, OnOwn

\* It goes on to remove containers, or to delete the row.
LEMMA DeleteGoesOn ==
    ASSUME Inv, NEW r \in Requests, NEW s, s = Service(r), pc[r] \notin CleaningUp,
           NEW label \in {"list", "reap", "remove", "deleterow"}, NEW q, Goto(r, label, q),
           q.call = req[r].call, q.job = "delete",
           Stored(s) => q.row = rows[s],
           UNCHANGED <<networks, attached, rows>>,
           ContainersOf(s)' \subseteq ContainersOf(s),
           label \in {"reap", "remove"} =>
              \A c \in ContainersOf(s)' : \E v \in q.victims : v.id = c,
           label = "deleterow" => ContainersOf(s)' = {}
    PROVE  Deletes(r, s)
  <1>1. pc'[r] = label /\ req'[r] = q
    BY DEF Goto, Inv, TypeOK
  <1>2. Service(r)' = s /\ Stored(s)' = Stored(s)
    BY <1>1 DEF Service, Stored
  <1>3. Clears(r)'
    BY <1>1, <1>2 DEF Clears, CleaningUp
  <1>4. Ebbs(s)
    BY DEF Ebbs, Stored, OnOwn
  <1> QED
    BY <1>2, <1>3, <1>4 DEF Deletes, OnOwn, Releases

\* What a request that is to delete s brings to its next call.
DeletePending(r, s) ==
    /\ Inv /\ Serving /\ KeepsToUses /\ faults' = 0
    /\ r \in Requests /\ s = Service(r) /\ s \in Services
    /\ Op(r) = "delete" /\ ~req[r].cancelled /\ Clears(r)

LEMMA DeleteFacts ==
    ASSUME NEW r, NEW s, DeletePending(r, s), pc[r] \notin {"idle", "done", "lookup"}
    PROVE  /\ TypeOK /\ req[r] \in Request /\ req[r].job = "delete"
           /\ Stored(s) => req[r].row = rows[s]
           /\ ~Refused(r) /\ \A kind : ~Fault(kind)
           /\ pc[r] \in {"list", "reap", "remove", "deleterow"} \cup CleaningUp
  <1>1. /\ TypeOK /\ req[r] \in Request /\ ~Refused(r) /\ pc[r] \in Labels
        /\ \A kind : ~Fault(kind)
    BY RequestFacts, NothingFailed DEF DeletePending, Inv
  <1>2. Knows(pc[r], req[r]) /\ Serves(pc[r], req[r]) /\ req[r].job \in {"none", "delete"}
    BY DEF DeletePending, Inv, Serving, Clears
  <1>3. pc[r] \in {"list", "reap", "remove", "deleterow"} \cup CleaningUp
    BY <1>1, <1>2 DEF Knows, Labels, CleaningUp
  <1>4. req[r].job = "delete"
    BY <1>2, <1>3 DEF Knows, CleaningUp
  <1> QED
    BY <1>1, <1>3, <1>4 DEF DeletePending, Clears

LEMMA LookupDeletes ==
    ASSUME NEW r, NEW s, DeletePending(r, s), Lookup(r)
    PROVE  Deletes(r, s)
  <1>1. /\ Inv /\ r \in Requests /\ pc[r] = "lookup" /\ Op(r) = "delete"
        /\ UNCHANGED <<engineVars, rows>> /\ req[r] \in Request
        /\ \A kind : ~Fault(kind)
    BY RequestFacts, NothingFailed DEF DeletePending, Lookup
  <1>2. ~Releases(r, s)
    BY <1>1 DEF Releases, CleaningUp
  <1>3. PICK row : LookedUp(r, row) /\ HandleDeleteFunction(r, row)
    BY <1>1 DEF Lookup
  <1>4. CASE Answer(r, 404)
    BY <1>1, <1>2, <1>4, DeleteAnswered
  <1>5. CASE row # NoRow /\ Begin(r, "list", "delete", row)
    <2> DEFINE q == [req[r] EXCEPT !.job = "delete", !.row = row]
    <2>1. Goto(r, "list", q)
      BY <1>5 DEF Begin
    <2>2. q.call = req[r].call /\ q.job = "delete" /\ q.row = row
      BY <1>1 DEF Request
    <2>3. row = GetFunction(s)
      BY <1>1, <1>3 DEF LookedUp, DeletePending
    <2>4. Stored(s) => q.row = rows[s]
      BY <2>2, <2>3 DEF GetFunction
    <2>5. UNCHANGED <<containers, networks, attached, rows>> /\ s = Service(r)
      BY <1>1 DEF engineVars, DeletePending
    <2>6. ContainersOf(s)' \subseteq ContainersOf(s)
      BY <2>5 DEF ContainersOf, Existing
    <2> HIDE DEF q
    <2> QED
      BY <1>1, <2>1, <2>2, <2>4, <2>5, <2>6, DeleteGoesOn DEF CleaningUp
  <1> QED
    BY <1>3, <1>4, <1>5 DEF HandleDeleteFunction

LEMMA ListDeletes ==
    ASSUME NEW r, NEW s, DeletePending(r, s), List(r)
    PROVE  Deletes(r, s)
  <1>1. /\ pc[r] = "list" /\ UNCHANGED <<engineVars, rows>> /\ Inv /\ r \in Requests
        /\ s = Service(r)
    BY DEF List, DeletePending
  <1>2. /\ req[r] \in Request /\ req[r].job = "delete" /\ ~Refused(r)
        /\ Stored(s) => req[r].row = rows[s]
    BY <1>1, DeleteFacts
  <1> DEFINE q == [req[r] EXCEPT !.victims = Listing(s)]
  <1>3. Goto(r, "reap", q)
    BY <1>1, <1>2 DEF List, RemovesAll
  <1>4. q.call = req[r].call /\ q.job = "delete" /\ q.row = req[r].row /\ q.victims = Listing(s)
    BY <1>2 DEF Request
  <1> HIDE DEF q
  <1>5. UNCHANGED <<containers, networks, attached, rows>>
    BY <1>1 DEF engineVars
  <1>6. ContainersOf(s)' = ContainersOf(s)
    BY <1>5 DEF ContainersOf, Existing
  <1>7. \A c \in ContainersOf(s) : \E v \in q.victims : v.id = c
    <2>1. \A c \in ContainersOf(s) : Summary(c) \in q.victims
      BY <1>4 DEF Listing
    <2>2. \A c : Summary(c).id = c
      BY DEF Summary
    <2> QED
      BY <2>1, <2>2
  <1> QED
    BY <1>1, <1>2, <1>3, <1>4, <1>5, <1>6, <1>7, DeleteGoesOn DEF CleaningUp

LEMMA StopVictimDeletes ==
    ASSUME NEW r, NEW s, DeletePending(r, s), StopVictim(r)
    PROVE  Deletes(r, s)
  <1>1. /\ pc[r] = "reap" /\ UNCHANGED rows /\ Inv /\ r \in Requests
        /\ s = Service(r) /\ Clears(r)
    BY DEF StopVictim, DeletePending
  <1>2. /\ req[r] \in Request /\ req[r].job = "delete" /\ ~Refused(r)
        /\ Stored(s) => req[r].row = rows[s]
    BY <1>1, DeleteFacts
  <1>3. PICK v \in req[r].victims :
           ContainerStop(v.id) /\ Goto(r, "remove", [req[r] EXCEPT !.cur = v.id])
    BY <1>2 DEF StopVictim, NextVictims
  <1> DEFINE q == [req[r] EXCEPT !.cur = v.id]
  <1>4. Goto(r, "remove", q)
    BY <1>3
  <1>5. /\ q.call = req[r].call /\ q.job = "delete" /\ q.row = req[r].row
        /\ q.victims = req[r].victims
    BY <1>2 DEF Request
  <1> HIDE DEF q
  <1>6. UNCHANGED <<networks, attached>>
    BY <1>3 DEF ContainerStop
  <1>7. ContainersOf(s)' = ContainersOf(s)
    BY <1>1, <1>3
    DEF ContainerStop, SetState, ContainersOf, Existing, Inv, TypeOK, EngineTypeOK, Container
  <1>8. \A c \in ContainersOf(s) : \E w \in q.victims : w.id = c
    BY <1>1, <1>5 DEF Clears
  <1> QED
    BY <1>1, <1>2, <1>4, <1>5, <1>6, <1>7, <1>8, DeleteGoesOn DEF CleaningUp

LEMMA RemoveVictimDeletes ==
    ASSUME NEW r, NEW s, DeletePending(r, s), RemoveVictim(r)
    PROVE  Deletes(r, s)
  <1>1. /\ pc[r] \in {"reap", "remove"} /\ UNCHANGED rows /\ Inv /\ r \in Requests
        /\ s = Service(r) /\ Clears(r)
    BY DEF RemoveVictim, DeletePending
  <1>2. /\ req[r] \in Request /\ req[r].job = "delete" /\ ~Refused(r)
        /\ Stored(s) => req[r].row = rows[s]
    BY <1>1, DeleteFacts
  <1>3. PICK v \in req[r].victims : ContainerRemove(v.id) /\ Goto(r, "reap", Gone(r, v))
    BY <1>2 DEF RemoveVictim
  <1> DEFINE q == Gone(r, v)
  <1>4. Goto(r, "reap", q)
    BY <1>3
  <1>5. /\ q.call = req[r].call /\ q.job = "delete" /\ q.row = req[r].row
        /\ q.victims = req[r].victims \ {v}
    BY <1>2 DEF Request, Gone
  <1> HIDE DEF q
  <1>6. UNCHANGED <<networks, attached>>
    BY <1>3 DEF ContainerRemove
  <1>7. ContainersOf(s)' = ContainersOf(s) \ {v.id}
    BY <1>3 DEF ContainerRemove, ContainersOf, Existing
  <1>8. \A c \in ContainersOf(s)' : \E w \in q.victims : w.id = c
    <2> SUFFICES ASSUME NEW c \in ContainersOf(s), c # v.id
                 PROVE  \E w \in q.victims : w.id = c
      BY <1>7
    <2>1. PICK w \in req[r].victims : w.id = c
      BY <1>1 DEF Clears
    <2> QED
      BY <1>5, <2>1
  <1> QED
    BY <1>1, <1>2, <1>4, <1>5, <1>6, <1>7, <1>8, DeleteGoesOn DEF CleaningUp

LEMMA ReapedDeletes ==
    ASSUME NEW r, NEW s, DeletePending(r, s), Reaped(r)
    PROVE  Deletes(r, s)
  <1>1. /\ pc[r] = "reap" /\ UNCHANGED <<engineVars, rows>> /\ Inv /\ r \in Requests
        /\ s = Service(r) /\ Clears(r) /\ req[r].victims = {}
    BY DEF Reaped, DeletePending
  <1>2. req[r].job = "delete" /\ (Stored(s) => req[r].row = rows[s])
    BY <1>1, DeleteFacts
  <1>3. Goto(r, "deleterow", req[r])
    BY <1>2 DEF Reaped
  <1>4. UNCHANGED <<containers, networks, attached, rows>>
    BY <1>1 DEF engineVars
  <1>5. ContainersOf(s)' = ContainersOf(s) /\ ContainersOf(s) = {}
    BY <1>1, <1>4 DEF ContainersOf, Existing, Clears
  <1> QED
    BY <1>1, <1>2, <1>3, <1>4, <1>5, DeleteGoesOn DEF CleaningUp

\* It cleans up the network after it has deleted the row.
LEMMA CleanupGoesOn ==
    ASSUME NEW r, NEW s, DeletePending(r, s), pc[r] \in {"deleterow"} \cup CleaningUp,
           NEW label \in CleaningUp, Goto(r, label, req[r]),
           UNCHANGED containers, ~Stored(s)',
           OwnNetwork[s] \in attached' => OwnNetwork[s] \in attached,
           OwnNetwork[s] \in DOMAIN networks' => OwnNetwork[s] \in DOMAIN networks,
           pc[r] = "deleterow" => Stored(s),
           label \in {"netreinspect", "netremove"} /\ OldNet(r) = OwnNetwork[s] =>
              OwnNetwork[s] \notin attached'
    PROVE  Deletes(r, s)
  <1>1. pc'[r] = label /\ req'[r] = req[r]
    BY DEF Goto, Inv, TypeOK, DeletePending
  <1>2. Service(r)' = s /\ OldNet(r)' = OldNet(r) /\ ContainersOf(s)' = ContainersOf(s)
    BY <1>1 DEF Service, ContainersOf, Existing, OldNet, DeletePending
  <1>3. ContainersOf(s) = {}
    BY DEF DeletePending, Clears
  <1>4. req[r].job = "delete" /\ (Stored(s) => req[r].row = rows[s])
    BY DeleteFacts DEF CleaningUp
  <1>5. Clears(r)'
    BY <1>1, <1>2, <1>3, <1>4 DEF Clears, CleaningUp
  <1>6. Ebbs(s)
    BY <1>2 DEF Ebbs, OnOwn
  <1>7. Service(r) = s /\ req[r].call # NoCall
    BY DEF DeletePending, Inv, Knows, CleaningUp
  <1>8. OnOwn(s) => Releases(r, s)'
    BY <1>1, <1>2, <1>4, <1>7 DEF OnOwn, Releases, OldNet
  <1>9. Releases(r, s) => Releases(r, s)'
    BY <1>1, <1>2, <1>7 DEF Releases
  <1> QED
    BY <1>5, <1>6, <1>8, <1>9 DEF Deletes

LEMMA DeleteRowDeletes ==
    ASSUME NEW r, NEW s, DeletePending(r, s), DeleteRow(r)
    PROVE  Deletes(r, s)
  <1>1. /\ pc[r] = "deleterow" /\ UNCHANGED engineVars /\ Inv /\ r \in Requests
        /\ s = Service(r)
    BY DEF DeleteRow, DeletePending
  <1>2. UNCHANGED <<containers, networks, attached>>
    BY <1>1 DEF engineVars
  <1>3. CASE DeleteFunction(s) /\ Goto(r, "netinspect", req[r])
    <2>1. Stored(s) /\ ~Stored(s)'
      BY <1>3 DEF DeleteFunction, Stored
    <2> QED
      BY <1>1, <1>2, <1>3, <2>1, CleanupGoesOn DEF CleaningUp
  <1>4. CASE Answer(r, 500) /\ UNCHANGED rows
    <2>1. ~Releases(r, s)
      BY <1>1 DEF Releases, CleaningUp
    <2> QED
      BY <1>1, <1>4, <2>1, DeleteAnswered
  <1> QED
    BY <1>1, <1>3, <1>4 DEF DeleteRow

LEMMA CleanupDeletes ==
    ASSUME NEW r, NEW s, DeletePending(r, s), OwnNetworksApart, Cleanup(r)
    PROVE  Deletes(r, s)
  <1>1. /\ pc[r] \in CleaningUp /\ Inv /\ r \in Requests /\ s = Service(r) /\ s \in Services
        /\ UNCHANGED rows /\ Clears(r) /\ KeepsToUses
    BY DEF Cleanup, InspectNetwork, DisconnectGateway, ReinspectNetwork, RemoveNetwork, CleaningUp,
           DeletePending
  <1>2. ~Refused(r)
    BY <1>1, DeleteFacts DEF CleaningUp
  <1>3. ~Stored(s) /\ ~Stored(s)'
    BY <1>1 DEF Clears, Stored
  <1>4. Endpoints(OwnNetwork[s]) = {}
    BY <1>1, OwnNetworkIsFree DEF Clears
  <1>5. CASE InspectNetwork(r)
    <2>1. UNCHANGED engineVars /\ UNCHANGED <<containers, networks, attached>>
      BY <1>5 DEF InspectNetwork, engineVars
    <2>2. CASE Goto(r, "disconnect", req[r])
      BY <1>1, <1>3, <2>1, <2>2, CleanupGoesOn DEF CleaningUp
    <2>3. CASE Answer(r, 202) /\ ~(OldNet(r) \in DOMAIN networks /\ Managed(OldNet(r), s))
      <3>1. Releases(r, s) => OwnNetwork[s] \notin DOMAIN networks
        BY <2>3 DEF Releases, Managed
      <3> QED
        BY <1>1, <2>1, <2>3, <3>1, DeleteAnswered
    <2> QED
      BY <1>1, <1>2, <1>5, <2>2, <2>3 DEF InspectNetwork
  <1>6. CASE DisconnectGateway(r)
    <2>1. NetworkDisconnect(OldNet(r)) /\ Goto(r, "netreinspect", req[r])
      BY <1>2, <1>6 DEF DisconnectGateway
    <2>2. attached' = attached \ {OldNet(r)} /\ UNCHANGED <<containers, networks>>
      BY <2>1 DEF NetworkDisconnect
    <2> QED
      BY <1>1, <1>3, <1>6, <2>1, <2>2, CleanupGoesOn DEF CleaningUp, DisconnectGateway
  <1>7. CASE ReinspectNetwork(r)
    <2>1. UNCHANGED engineVars /\ UNCHANGED <<containers, networks, attached>>
      BY <1>7 DEF ReinspectNetwork, engineVars
    <2>2. pc[r] = "netreinspect"
      BY <1>7 DEF ReinspectNetwork
    <2>3. OldNet(r) = OwnNetwork[s] => OwnNetwork[s] \notin attached
      BY <1>1, <2>2 DEF Clears
    <2>4. CASE Goto(r, "netremove", req[r])
      BY <1>1, <1>3, <2>1, <2>2, <2>3, <2>4, CleanupGoesOn DEF CleaningUp
    <2>5. CASE Answer(r, 202) /\ ~(OldNet(r) \in DOMAIN networks /\ ~InUse(OldNet(r)))
      <3>1. Releases(r, s) => OwnNetwork[s] \notin DOMAIN networks
        BY <1>4, <2>3, <2>5 DEF Releases, InUse
      <3> QED
        BY <1>1, <2>1, <2>5, <3>1, DeleteAnswered
    <2> QED
      BY <1>2, <1>7, <2>4, <2>5 DEF ReinspectNetwork
  <1>8. CASE RemoveNetwork(r)
    <2>1. pc[r] = "netremove" /\ Answer(r, 202)
      BY <1>8 DEF RemoveNetwork
    <2>2. OldNet(r) = OwnNetwork[s] => OwnNetwork[s] \notin attached
      BY <1>1, <2>1 DEF Clears
    <2>3. CASE UNCHANGED engineVars /\ (OldNet(r) \notin DOMAIN networks \/ InUse(OldNet(r)))
      <3>1. Releases(r, s) => OwnNetwork[s] \notin DOMAIN networks
        BY <1>4, <2>2, <2>3 DEF Releases, InUse
      <3> QED
        BY <1>1, <2>1, <2>3, <3>1, DeleteAnswered
    <2>4. CASE NetworkRemove(OldNet(r))
      <3>1. pc'[r] = "done" /\ req'[r].job = "none"
        BY <1>1, <2>1 DEF Answer, Finish, Goto, Blank, Inv, TypeOK
      <3>2. Clears(r)'
        BY <3>1 DEF Clears, CleaningUp
      <3>3. /\ UNCHANGED <<containers, attached, rows>>
            /\ DOMAIN networks' = DOMAIN networks \ {OldNet(r)}
        BY <1>1, <2>4 DEF NetworkRemove
      <3>4. Ebbs(s)
        BY <1>3, <3>3 DEF Ebbs, ContainersOf, Existing, OnOwn
      <3> QED
        BY <1>3, <3>2, <3>3, <3>4 DEF Deletes, OnOwn, Releases
    <2> QED
      BY <1>2, <1>8, <2>3, <2>4 DEF RemoveNetwork
  <1> QED
    BY <1>5, <1>6, <1>7, <1>8 DEF Cleanup

LEMMA HandleDeletes ==
    ASSUME NEW r, NEW s, DeletePending(r, s), OwnNetworksApart, Handle(r)
    PROVE  Deletes(r, s)
  <1>1. pc[r] = "lookup" \/ pc[r] \in {"list", "reap", "remove", "deleterow"} \cup CleaningUp
    <2>1. pc[r] \notin {"idle", "done"}
      BY HandlesInFlight DEF DeletePending, InFlight
    <2>2. CASE pc[r] # "lookup"
      BY <2>1, <2>2, DeleteFacts
    <2> QED
      BY <2>2
  <1>2. ~Create(r)
    BY <1>1
    DEF CleaningUp, Create, PullImage, ListNetworks, CreateNetwork, ConnectGateway, InspectName,
        RemoveStale, CreateContainer, StartContainer, Created
  <1>3. ~Invoke(r)
    BY <1>1 DEF CleaningUp, Invoke, Probe, Poll, WaitTimeout, Accept, Route, Forward
  <1>4. ~InsertRow(r) /\ ~SaveRow(r) /\ ~SetReplicas(r)
    BY <1>1 DEF CleaningUp, InsertRow, SaveRow, SetReplicas
  <1>5. CASE Remove(r)
    BY <1>5, ListDeletes, StopVictimDeletes, RemoveVictimDeletes, ReapedDeletes DEF Remove
  <1>6. CASE Lookup(r) \/ Cleanup(r) \/ DeleteRow(r)
    BY <1>6, LookupDeletes, DeleteRowDeletes, CleanupDeletes
  <1> QED
    BY <1>2, <1>3, <1>4, <1>5, <1>6 DEF Handle, Store

--------------------------------------------------------------------------------
(* A function that is only deleted, next to a handler's step *)

LEMMA StillOnlyDeletes ==
    ASSUME Inv, Serving, Unrefused, NEW r \in Requests, Handle(r), NEW s, OnlyDeletes(s)'
    PROVE  OnlyDeletes(s)
  <1>1. HandlerStep(r)
    BY HandleSteps
  <1>2. /\ \A t \in Requests : req'[t].call = req[t].call
        /\ \A t \in Requests : t # r => pc'[t] = pc[t] /\ req'[t] = req[t]
    BY <1>1 DEF HandlerStep, Advances, Goto, Inv, TypeOK
  <1>3. \A t \in Requests : Service(t)' = Service(t) /\ Op(t)' = Op(t)
    BY <1>2 DEF Service, Op
  <1>4. pc[r] # "done" /\ req[r].answer \in {NoAnswer, 202}
    BY HandlesInFlight DEF InFlight, Unrefused
  <1>5. ASSUME NEW t \in Requests, req[t].call # NoCall, Service(t) = s
        PROVE  \/ Op(t) = "delete" \/ pc[t] = "lookup"
               \/ pc[t] = "done" /\ req[t].answer \in {404, 409}
    <2>1. \/ Op(t) = "delete" \/ pc'[t] = "lookup"
          \/ pc'[t] = "done" /\ req'[t].answer \in {404, 409}
      BY <1>2, <1>3, <1>5 DEF OnlyDeletes
    <2>2. CASE t # r
      BY <1>2, <2>1, <2>2
    <2>3. CASE t = r
      BY <1>4, <2>1, <2>3, HandlerTurns
    <2> QED
      BY <2>2, <2>3
  <1> QED
    BY <1>5 DEF OnlyDeletes

\* What the other requests for s know stays true.
LEMMA OthersClear ==
    ASSUME Inv, NEW r \in Requests, HandlerStep(r), NEW s, Ebbs(s),
           NEW t \in Requests, t # r, Clears(t), req'[t].call # NoCall, Service(t)' = s
    PROVE  Clears(t)'
  <1>1. pc'[t] = pc[t] /\ req'[t] = req[t]
    BY DEF HandlerStep, Advances, Goto, Inv, TypeOK
  <1>2. Service(t) = s
    BY <1>1 DEF Service
  <1> QED
    BY <1>1, <1>2, ClearsStill

\* The step of a handler of another function.
LEMMA OtherFunctionStep ==
    ASSUME Inv, KeepsToUses, OwnNetworksApart, NEW r \in Requests, Handle(r),
           NEW s \in Services, Service(r) # s, UNCHANGED reconcilerVars, Undisturbed(s)
    PROVE  Undisturbed(s)'
  <1>1. HandlerStep(r) /\ Service(r) \in Services /\ EngineStep(Service(r)) /\ StoreStep(Service(r))
    BY HandleSteps, HandlesInFlight, RequestFacts DEF HandlerStep, InFlight
  <1>2. /\ ContainersOf(s)' = ContainersOf(s) /\ Stored(s)' = Stored(s)
        /\ Stored(s) => rows'[s] = rows[s]
    BY <1>1, OthersUntouched DEF OwnNetworksApart
  <1>3. OwnNetwork[s] \notin Uses(Service(r))
    BY <1>1 DEF OwnNetworksApart
  <1>4. /\ OwnNetwork[s] \in attached' <=> OwnNetwork[s] \in attached
        /\ OwnNetwork[s] \in DOMAIN networks' <=> OwnNetwork[s] \in DOMAIN networks
    BY <1>3, OtherNetworksStay
  <1>5. Ebbs(s)
    BY <1>2, <1>4 DEF Ebbs
  <1>6. \A t \in Requests : t # r => pc'[t] = pc[t] /\ req'[t] = req[t]
    BY <1>1 DEF HandlerStep, Advances, Goto, Inv, TypeOK
  <1>7. Service(r)' # s
    BY <1>1 DEF HandlerStep, Advances, Goto, Inv, TypeOK, Service
  <1>8. \A t \in Requests : req'[t].call # NoCall /\ Service(t)' = s => Clears(t)'
    <2> SUFFICES ASSUME NEW t \in Requests, req'[t].call # NoCall, Service(t)' = s
                 PROVE  Clears(t)'
      OBVIOUS
    <2>1. t # r /\ Clears(t)
      BY <1>6, <1>7 DEF Service, Undisturbed
    <2> QED
      BY <1>1, <1>5, <2>1, OthersClear
  <1>9. \A t \in Requests : Releases(t, s) => Releases(t, s)'
    BY <1>6 DEF Releases, Service, OldNet
  <1>10. OnOwn(s)' <=> OnOwn(s)
    BY <1>2 DEF OnOwn, Stored
  <1>11. Watched(s)'
    BY <1>4, <1>9, <1>10 DEF Watched, Undisturbed, reconcilerVars
  <1> QED
    BY <1>8, <1>11 DEF Undisturbed

\* The step of a delete, or of another call that is turned away.
LEMMA OwnFunctionStep ==
    ASSUME Inv, Serving, KeepsToUses, OwnNetworksApart, NEW r \in Requests, Handle(r),
           NEW s \in Services, Service(r) = s, UNCHANGED reconcilerVars,
           faults' = 0, ~req[r].cancelled, OnlyDeletes(s), OnlyDeletes(s)', Undisturbed(s)
    PROVE  Undisturbed(s)'
  <1>1. HandlerStep(r) /\ pc[r] \notin {"idle", "done"} /\ req[r].call # NoCall
    BY HandleSteps, HandlesInFlight, RequestFacts DEF InFlight, Knows
  <1>2. /\ \A t \in Requests : t # r => pc'[t] = pc[t] /\ req'[t] = req[t]
        /\ req'[r].call = req[r].call
    BY <1>1 DEF HandlerStep, Advances, Goto, Inv, TypeOK
  <1>3. Deletes(r, s)
    <2>1. CASE Op(r) = "delete"
      BY <1>1, <2>1, HandleDeletes DEF DeletePending, Undisturbed
    <2>2. CASE Op(r) # "delete"
      <3>1. Op(r)' # "delete" /\ Service(r)' = s
        BY <1>2, <2>2 DEF Op, Service
      <3>2. pc[r] = "lookup" /\ pc'[r] \in {"lookup", "done"}
        BY <1>1, <1>2, <2>2, <3>1 DEF OnlyDeletes
      <3>3. Lookup(r)
        BY <3>2
        DEF Handle, Lookup, Remove, List, StopVictim, RemoveVictim, Reaped, Create, PullImage,
            ListNetworks, CreateNetwork, ConnectGateway, InspectName, RemoveStale,
            CreateContainer, StartContainer, Created, Store, InsertRow, SaveRow, SetReplicas,
            DeleteRow, Cleanup, InspectNetwork, DisconnectGateway, ReinspectNetwork,
            RemoveNetwork, Invoke, Probe, Poll, WaitTimeout, Accept, Route, Forward
      <3>4. \A label, job, row : label \in {"pull", "list", "probe"} => ~Begin(r, label, job, row)
        BY <3>2 DEF Begin, Goto, Inv, TypeOK
      <3>5. \E code : Answer(r, code)
        BY <3>3, <3>4
        DEF Lookup, HandleDeployFunction, HandleUpdateFunction, DeployBuiltImage,
            HandleDeleteFunction, HandleScaleFunction, HandleInvokeFunction
      <3>6. UNCHANGED <<engineVars, rows>> /\ ~Releases(r, s)
        BY <3>2, <3>3 DEF Lookup, Releases, CleaningUp
      <3> QED
        BY <3>5, <3>6, DeleteAnswered
    <2> QED
      BY <2>1, <2>2
  <1>4. Ebbs(s) /\ Clears(r)'
    BY <1>3 DEF Deletes
  <1>5. \A t \in Requests : req'[t].call # NoCall /\ Service(t)' = s => Clears(t)'
    <2> SUFFICES ASSUME NEW t \in Requests, t # r, req'[t].call # NoCall, Service(t)' = s
                 PROVE  Clears(t)'
      BY <1>4
    <2>1. Clears(t)
      BY <1>2 DEF Service, Undisturbed
    <2> QED
      BY <1>1, <1>4, <2>1, OthersClear
  <1>6. OnOwn(s)' => OnOwn(s)
    BY <1>4 DEF Ebbs, OnOwn
  <1>7. OwnNetwork[s] \in DOMAIN networks' => OnOwn(s)' \/ \E t \in Requests : Releases(t, s)'
    <2> SUFFICES ASSUME OwnNetwork[s] \in DOMAIN networks'
                 PROVE  OnOwn(s)' \/ \E t \in Requests : Releases(t, s)'
      OBVIOUS
    <2>1. OnOwn(s) \/ \E t \in Requests : Releases(t, s)
      BY <1>4 DEF Ebbs, Watched, Undisturbed
    <2>2. CASE OnOwn(s)
      BY <1>3, <1>4, <2>2 DEF Deletes, Ebbs, OnOwn
    <2>3. ASSUME NEW t \in Requests, Releases(t, s)
          PROVE  Releases(t, s)'
      <3>1. CASE t = r
        BY <1>3, <2>3, <3>1 DEF Deletes
      <3>2. CASE t # r
        BY <1>2, <2>3, <3>2 DEF Releases, Service, OldNet
      <3> QED
        BY <3>1, <3>2
    <2> QED
      BY <2>1, <2>2, <2>3
  <1>8. OnOwn(s)' => OwnNetwork[s] \in attached'
    BY <1>4, <1>6 DEF Ebbs, Watched, Undisturbed
  <1>9. Watched(s)'
    BY <1>6, <1>7, <1>8 DEF Watched, Undisturbed, reconcilerVars
  <1> QED
    BY <1>5, <1>9 DEF Undisturbed

--------------------------------------------------------------------------------
(* The steps that are no handler's *)

\* Rows, containers and what a handler read stay, or are forgotten.
LEMMA KeepsToUsesStill ==
    ASSUME KeepsToUses, UNCHANGED rows,
           \A c \in Existing' : /\ c \in Existing
                                /\ containers'[c].name = containers[c].name
                                /\ containers'[c].network = containers[c].network,
           \A r \in Requests : \/ req'[r].row = NoRow
                               \/ req'[r].row = req[r].row /\ req'[r].call = req[r].call
    PROVE  KeepsToUses'
  <1>1. \A c \in Existing' : containers'[c].network \in Uses(containers'[c].name[1])
    BY DEF KeepsToUses
  <1>2. \A s \in DOMAIN rows' : rows'[s].network \in Uses(s)
    BY DEF KeepsToUses
  <1>3. \A r \in Requests : req'[r].row # NoRow => req'[r].row.network \in Uses(req'[r].call.service)
    BY DEF KeepsToUses, Service
  <1> QED
    BY <1>1, <1>2, <1>3 DEF KeepsToUses, Uses, Service

LEMMA ArriveKeeps ==
    ASSUME Inv, KeepsToUses, Unrefused, NEW r \in Requests, Arrive(r)
    PROVE  KeepsToUses' /\ Unrefused'
  <1>1. PICK call \in Calls : Goto(r, "lookup", Blank(call, NoAnswer, FALSE))
    BY DEF Arrive
  <1>2. /\ pc'[r] = "lookup" /\ req'[r].row = NoRow /\ req'[r].answer = NoAnswer
        /\ \A t \in Requests : t # r => pc'[t] = pc[t] /\ req'[t] = req[t]
    BY <1>1 DEF Goto, Blank, Inv, TypeOK
  <1>3. UNCHANGED <<containers, rows>>
    BY DEF Arrive, engineVars
  <1>4. KeepsToUses'
    BY <1>2, <1>3, KeepsToUsesStill DEF Existing
  <1> QED
    BY <1>2, <1>4 DEF Unrefused

LEMMA HangUpKeeps ==
    ASSUME Inv, KeepsToUses, Unrefused, NEW r \in Requests, HangUp(r)
    PROVE  KeepsToUses' /\ Unrefused'
  <1>1. /\ pc'[r] = pc[r] /\ req'[r].row = req[r].row /\ req'[r].answer = req[r].answer
        /\ req'[r].call = req[r].call
        /\ \A t \in Requests : t # r => pc'[t] = pc[t] /\ req'[t] = req[t]
    BY DEF HangUp, Goto, Inv, TypeOK, Request
  <1>2. UNCHANGED <<containers, rows>>
    BY DEF HangUp, engineVars
  <1>3. \A t \in Requests : req'[t].row = req[t].row /\ req'[t].call = req[t].call
    BY <1>1
  <1>4. KeepsToUses'
    BY <1>2, <1>3, KeepsToUsesStill DEF Existing
  <1> QED
    BY <1>1, <1>4 DEF Unrefused

LEMMA ExitRestartKeeps ==
    ASSUME Inv, KeepsToUses, Unrefused, NEW c \in ContainerIds, Exit(c) \/ Restart(c)
    PROVE  KeepsToUses' /\ Unrefused'
  <1>1. \E state : SetState(c, state)
    BY DEF Exit, Restart, ContainerExits, ContainerRestarts
  <1>2. \A d \in Existing' : /\ d \in Existing
                             /\ containers'[d].name = containers[d].name
                             /\ containers'[d].network = containers[d].network
    BY <1>1 DEF SetState, Existing, Inv, TypeOK, EngineTypeOK, Container
  <1>3. UNCHANGED <<rows, pc, req>>
    BY DEF Exit, Restart
  <1>4. KeepsToUses'
    BY <1>2, <1>3, KeepsToUsesStill
  <1> QED
    BY <1>3, <1>4 DEF Unrefused

LEMMA CrashKeeps ==
    ASSUME Inv, KeepsToUses, Unrefused, CrashAndRestart
    PROVE  KeepsToUses' /\ Unrefused'
  <1>1. \A r \in Requests :
           \/ pc'[r] = pc[r] /\ req'[r] = req[r]
           \/ pc'[r] = "done" /\ req'[r].row = NoRow
    BY DEF CrashAndRestart, Blank
  <1>2. UNCHANGED <<containers, rows>>
    BY DEF CrashAndRestart
  <1>3. KeepsToUses'
    BY <1>1, <1>2, KeepsToUsesStill DEF Existing
  <1> QED
    BY <1>1, <1>3 DEF Unrefused

\* The reconciler changes nothing but the gateway's networks, and those to existing ones.
LEMMA ReconcileTouches ==
    ASSUME Inv, ReconcileOnce
    PROVE  /\ UNCHANGED <<containers, networks, rows, pc, req>>
           /\ attached' \subseteq DOMAIN networks /\ faults' \in 0 .. MaxFaults
  <1>1. attached \subseteq DOMAIN networks /\ faults \in 0 .. MaxFaults
    BY DEF Inv, TypeOK, EngineTypeOK
  <1>2. UNCHANGED faults \/ (\E kind : Fault(kind)) => faults' \in 0 .. MaxFaults
    BY <1>1, FaultsAreCounted
  <1>3. CASE InspectGateway \/ ListRowNetworks \/ EndOfPass
    BY <1>1, <1>2, <1>3 DEF InspectGateway, ListRowNetworks, EndOfPass, engineVars, vars
  <1>4. CASE ConnectNext
    BY <1>1, <1>2, <1>4 DEF ConnectNext, NetworkConnect, engineVars
  <1> QED
    BY <1>3, <1>4 DEF ReconcileOnce

LEMMA ReconcileKeeps ==
    ASSUME Inv, Serving, KeepsToUses, Unrefused, ReconcileOnce
    PROVE  Inv' /\ Serving' /\ KeepsToUses' /\ Unrefused'
  <1>1. /\ UNCHANGED <<containers, networks, rows, pc, req>>
        /\ attached' \subseteq DOMAIN networks /\ faults' \in 0 .. MaxFaults
    BY ReconcileTouches
  <1>2. Inv'
    BY <1>1 DEF Inv, TypeOK, EngineTypeOK, StoreTypeOK, Ownership, Marked, Existing, CreatedFor, Aims
  <1>3. Serving'
    BY <1>1, Stands
  <1>4. KeepsToUses'
    BY <1>1, KeepsToUsesStill DEF Existing
  <1> QED
    BY <1>1, <1>2, <1>3, <1>4 DEF Unrefused

LEMMA ReconcileOrderly ==
    ASSUME Inv, Orderly, ReconcileOnce
    PROVE  Orderly'
  <1>1. /\ attached \subseteq Networks
        /\ \A s \in DOMAIN rows : s \in Services /\ rows[s].network \in Networks
    BY DEF Inv, TypeOK, EngineTypeOK, StoreTypeOK, Row
  <1>2. CASE InspectGateway
    BY <1>1, <1>2 DEF InspectGateway, Orderly, ReconcilerTypeOK
  <1>3. CASE ListRowNetworks
    BY <1>1, <1>3 DEF ListRowNetworks, Orderly, ReconcilerTypeOK, Reset
  <1>4. CASE ConnectNext
    BY <1>4 DEF ConnectNext, Orderly, ReconcilerTypeOK
  <1>5. CASE EndOfPass
    BY <1>5 DEF EndOfPass, Orderly, ReconcilerTypeOK, Reset
  <1> QED
    BY <1>2, <1>3, <1>4, <1>5 DEF ReconcileOnce

\* As long as nobody handles a request, only new calls can arrive.
Called(r) ==
    /\ pc[r] = "idle" /\ pc'[r] = "lookup"
    /\ \E call \in Calls : req'[r] = Blank(call, NoAnswer, FALSE)

Waits(r) == Called(r) \/ (pc'[r] = pc[r] /\ req'[r] = req[r])

\* A function that is only deleted, when others make a step that nothing fails in.
LEMMA UndisturbedStill ==
    ASSUME Inv, UNCHANGED <<rows, networks>>, \A r \in Requests : Waits(r), NEW s \in Services,
           ContainersOf(s)' = ContainersOf(s),
           OwnNetwork[s] \in attached' <=> OwnNetwork[s] \in attached,
           Undisturbed(s), \A entry \in todo' : entry[2] # OwnNetwork[s],
           OnOwn(s) /\ rpc' = "listrows" => OwnNetwork[s] \in known'
    PROVE  Undisturbed(s)'
  <1>1. Stored(s)' = Stored(s) /\ OnOwn(s)' = OnOwn(s)
    BY DEF Stored, OnOwn
  <1>2. Ebbs(s)
    BY <1>1 DEF Ebbs, Watched, Undisturbed
  <1>3. \A r \in Requests : pc'[r] = "lookup" /\ req'[r].job = "none" => Clears(r)'
    BY DEF Clears, CleaningUp
  <1>4. \A r \in Requests : Called(r) => Clears(r)'
    BY <1>3 DEF Called, Blank
  <1>5. \A r \in Requests : req'[r].call # NoCall /\ Service(r)' = s => Clears(r)'
    <2> SUFFICES ASSUME NEW r \in Requests, req'[r].call # NoCall, Service(r)' = s,
                        pc'[r] = pc[r], req'[r] = req[r]
                 PROVE  Clears(r)'
      BY <1>4 DEF Waits
    <2>1. Service(r) = s /\ Clears(r)
      BY DEF Service, Undisturbed
    <2> QED
      BY <1>2, <2>1, ClearsStill
  <1>6. \A r \in Requests : Releases(r, s) => Releases(r, s)'
    BY DEF Waits, Called, Releases, Service, OldNet, CleaningUp
  <1>7. Watched(s)'
    BY <1>1, <1>6 DEF Watched, Undisturbed
  <1> QED
    BY <1>5, <1>7 DEF Undisturbed

LEMMA OnlyDeletesWaits ==
    ASSUME Inv, \A r \in Requests : Waits(r), NEW s, OnlyDeletes(s)'
    PROVE  OnlyDeletes(s)
  <1>1. \A r \in Requests : req[r].call # NoCall => pc'[r] = pc[r] /\ req'[r] = req[r]
    BY DEF Waits, Called, Inv, Knows
  <1> QED
    BY <1>1 DEF OnlyDeletes, Service, Op

\* No pass connects the gateway to the own network of a function that is only deleted.
LEMMA ReconcileLeaves ==
    ASSUME Inv, KeepsToUses, OwnNetworksApart, Orderly, ReconcileOnce, faults' = 0,
           NEW s \in Services, Undisturbed(s)
    PROVE  Undisturbed(s)'
  <1>1. UNCHANGED <<containers, networks, rows, pc, req>>
    BY ReconcileTouches
  <1>2. ContainersOf(s)' = ContainersOf(s) /\ \A r \in Requests : Waits(r)
    BY <1>1 DEF ContainersOf, Existing, Waits
  <1>3. \A kind : ~Fault(kind)
    BY NothingFailed
  <1>4. /\ \A entry \in todo : entry[2] # OwnNetwork[s]
        /\ OnOwn(s) => OwnNetwork[s] \in attached
        /\ OnOwn(s) /\ rpc = "listrows" => OwnNetwork[s] \in known
    BY DEF Undisturbed, Watched
  <1>5. OwnNetwork[s] \in RowNetworks => OnOwn(s)
    <2> SUFFICES ASSUME NEW t \in DOMAIN rows, rows[t].network = OwnNetwork[s]
                 PROVE  OnOwn(s)
      BY DEF RowNetworks
    <2>1. t \in Services /\ rows[t].network \in Uses(t)
      BY DEF Inv, TypeOK, StoreTypeOK, KeepsToUses
    <2>2. t = s
      BY <2>1 DEF OwnNetworksApart
    <2> QED
      BY <2>2 DEF OnOwn, Stored
  <1>6. /\ OwnNetwork[s] \in attached' <=> OwnNetwork[s] \in attached
        /\ \A entry \in todo' : entry[2] # OwnNetwork[s]
        /\ OnOwn(s) /\ rpc' = "listrows" => OwnNetwork[s] \in known'
    <2>1. CASE InspectGateway
      BY <1>3, <1>4, <2>1 DEF InspectGateway, engineVars
    <2>2. CASE ListRowNetworks
      BY <1>3, <1>4, <1>5, <2>2 DEF ListRowNetworks, RowNetworks, engineVars
    <2>3. CASE ConnectNext
      BY <1>3, <1>4, <2>3 DEF ConnectNext, NetworkConnect, engineVars
    <2>4. CASE EndOfPass
      BY <1>4, <2>4 DEF EndOfPass, Reset, vars
    <2> QED
      BY <2>1, <2>2, <2>3, <2>4 DEF ReconcileOnce
  <1> QED
    BY <1>1, <1>2, <1>6, UndisturbedStill

--------------------------------------------------------------------------------
(* The invariants *)

LEMMA InitTogether ==
    ASSUME ReconcilerInit
    PROVE  TogetherInv
  <1>1. Inv /\ Serving
    BY InitInv, InitSimulates DEF ReconcilerInit
  <1>2. PICK R \in InitialRows : Deployed(R)
    BY DEF ReconcilerInit, Init
  <1>3. \A r \in Requests : req[r] = Blank(NoCall, NoAnswer, FALSE)
    BY DEF ReconcilerInit, Init
  <1>4. \A r \in Requests : req[r].row = NoRow /\ req[r].answer = NoAnswer
    BY <1>3 DEF Blank
  <1>5. \A s \in DOMAIN rows : rows[s].network \in Uses(s)
    BY <1>2 DEF Deployed, Uses
  <1>6. \A c \in Existing : containers[c].network \in Uses(containers[c].name[1])
    <2> DEFINE ids == {d \in Services \X Replicas : d[1] \in DOMAIN R /\ d[2] < R[d[1]].replicas}
               made(c) == Made(DeploymentIn(R, c[1]), c[2])
    <2>1. containers = [c \in ids |-> [made(c) EXCEPT !.state = "running"]]
      BY <1>2 DEF Deployed
    <2>2. \A c \in ids : c[1] \in DOMAIN R
      OBVIOUS
    <2>3. \A c : /\ [made(c) EXCEPT !.state = "running"].name[1] = c[1]
                 /\ [made(c) EXCEPT !.state = "running"].network = R[c[1]].network
      BY DEF Made, DeploymentIn
    <2> HIDE DEF ids, made
    <2>4. \A c \in Existing : /\ c[1] \in DOMAIN R /\ containers[c].name[1] = c[1]
                              /\ containers[c].network = R[c[1]].network
      BY <2>1, <2>2, <2>3 DEF Existing
    <2> QED
      BY <2>4 DEF Uses
  <1>7. Orderly
    BY DEF ReconcilerInit, AtRest, Orderly, ReconcilerTypeOK
  <1> QED
    BY <1>1, <1>4, <1>5, <1>6, <1>7 DEF TogetherInv, KeepsToUses, Unrefused

LEMMA HandleTogether ==
    ASSUME TogetherInv, NEW r \in Requests, Handle(r), UNCHANGED reconcilerVars
    PROVE  TogetherInv'
  <1>1. Inv' /\ HandlerStep(r)
    BY HandleSteps, HandlerStepPreserves DEF TogetherInv
  <1>2. Serving'
    BY HandleSimulates, ServingGoesOn DEF TogetherInv, Serving, Simulates, Inv
  <1>3. KeepsToUses'
    BY HandleKeepsToUses DEF TogetherInv
  <1>4. Unrefused'
    <2>1. \A t \in Requests : t # r => pc'[t] = pc[t] /\ req'[t] = req[t]
      BY <1>1 DEF HandlerStep, Advances, Goto, TogetherInv, Inv, TypeOK
    <2>2. req[r].answer \in {NoAnswer, 202}
      BY HandlesInFlight DEF InFlight, TogetherInv, Unrefused
    <2>3. pc'[r] # "done" => req'[r].answer \in {NoAnswer, 202}
      BY <2>2, HandlerTurns DEF TogetherInv
    <2> QED
      BY <2>1, <2>3 DEF TogetherInv, Unrefused
  <1>5. Orderly'
    BY DEF TogetherInv, Orderly, ReconcilerTypeOK, reconcilerVars
  <1> QED
    BY <1>1, <1>2, <1>3, <1>4, <1>5 DEF TogetherInv

LEMMA NextTogether ==
    ASSUME TogetherInv, [ReconcilerNext]_allVars
    PROVE  TogetherInv'
  <1>1. Inv /\ Serving /\ KeepsToUses /\ Unrefused /\ Orderly
    BY DEF TogetherInv
  <1>2. [Next]_vars => Inv' /\ Serving'
    BY <1>1, NextInv, NextSimulates
  <1>3. UNCHANGED reconcilerVars \/ Reset => Orderly'
    BY <1>1 DEF Orderly, ReconcilerTypeOK, reconcilerVars, Reset
  <1>4. ASSUME NEW r \in Requests, Arrive(r) \/ HangUp(r), UNCHANGED reconcilerVars
        PROVE  TogetherInv'
    <2>1. [Next]_vars
      BY <1>4 DEF Next, Disturb
    <2> QED
      BY <1>1, <1>2, <1>3, <1>4, <2>1, ArriveKeeps, HangUpKeeps DEF TogetherInv
  <1>5. ASSUME NEW c \in ContainerIds, Exit(c) \/ Restart(c), UNCHANGED reconcilerVars
        PROVE  TogetherInv'
    <2>1. [Next]_vars
      BY <1>5 DEF Next, Disturb
    <2> QED
      BY <1>1, <1>2, <1>3, <1>5, <2>1, ExitRestartKeeps DEF TogetherInv
  <1>6. CASE CrashAndRestart /\ Reset
    <2>1. [Next]_vars
      BY <1>6 DEF Next
    <2> QED
      BY <1>1, <1>2, <1>3, <1>6, <2>1, CrashKeeps DEF TogetherInv
  <1>7. CASE ReconcileOnce
    BY <1>1, <1>7, ReconcileKeeps, ReconcileOrderly DEF TogetherInv
  <1>8. CASE UNCHANGED allVars
    <2>1. UNCHANGED vars /\ UNCHANGED reconcilerVars
      BY <1>8 DEF allVars
    <2>2. UNCHANGED <<containers, rows, pc, req>>
      BY <2>1 DEF vars
    <2>3. KeepsToUses' /\ Unrefused'
      BY <1>1, <2>2, KeepsToUsesStill DEF Existing, Unrefused
    <2> QED
      BY <1>2, <1>3, <2>1, <2>3 DEF TogetherInv
  <1> QED
    BY <1>4, <1>5, <1>6, <1>7, <1>8, HandleTogether DEF ReconcilerNext, Disturb

LEMMA InitLeftAlone ==
    ASSUME ReconcilerInit, OwnNetworksApart
    PROVE  LeftAlone
  <1>1. TogetherInv
    BY InitTogether
  <1>2. PICK R \in InitialRows : Deployed(R)
    BY DEF ReconcilerInit, Init
  <1>3. \A r \in Requests : pc[r] = "idle" /\ req[r] = Blank(NoCall, NoAnswer, FALSE)
    BY DEF ReconcilerInit, Init
  <1>4. \A r \in Requests : req[r].call = NoCall /\ ~req[r].cancelled
    BY <1>3 DEF Blank
  <1>5. ASSUME NEW s \in Services
        PROVE  Undisturbed(s)
    <2>1. todo = {} /\ rpc = "tick"
      BY DEF ReconcilerInit, AtRest
    <2>2. DOMAIN networks = {R[t].network : t \in DOMAIN R} /\ attached = DOMAIN networks /\ rows = R
      BY <1>2 DEF Deployed
    <2>3. OnOwn(s) => OwnNetwork[s] \in attached
      BY <2>2 DEF OnOwn, Stored
    <2>4. OwnNetwork[s] \in DOMAIN networks => OnOwn(s)
      <3> SUFFICES ASSUME NEW t \in DOMAIN rows, rows[t].network = OwnNetwork[s]
                   PROVE  OnOwn(s)
        BY <2>2
      <3>1. t \in Services /\ rows[t].network \in Uses(t)
        BY <1>1 DEF TogetherInv, Inv, TypeOK, StoreTypeOK, KeepsToUses
      <3>2. t = s
        BY <3>1 DEF OwnNetworksApart
      <3> QED
        BY <3>2 DEF OnOwn, Stored
    <2> QED
      BY <1>4, <2>1, <2>3, <2>4 DEF Undisturbed, Watched
  <1> QED
    BY <1>4, <1>5 DEF LeftAlone

\* A handler leaves the faults alone, or something fails.
LEMMA HandleFails ==
    ASSUME NEW r \in Requests, Handle(r)
    PROVE  UNCHANGED faults \/ \E kind : Fault(kind)
  <1>1. CASE Lookup(r)
    BY <1>1 DEF Lookup, LookedUp
  <1>2. CASE Remove(r)
    BY <1>2 DEF Remove, List, StopVictim, RemoveVictim, Reaped, Reaches, Refused
  <1>3. CASE Create(r)
    BY <1>3
    DEF Create, PullImage, ListNetworks, CreateNetwork, ConnectGateway, InspectName,
        RemoveStale, CreateContainer, StartContainer, Created, Reaches, Refused
  <1>4. CASE Store(r)
    BY <1>4 DEF Store, InsertRow, SaveRow, SetReplicas, DeleteRow
  <1>5. CASE Cleanup(r)
    BY <1>5
    DEF Cleanup, InspectNetwork, DisconnectGateway, ReinspectNetwork, RemoveNetwork, Reaches,
        Refused
  <1>6. CASE Invoke(r)
    BY <1>6 DEF Invoke, Probe, Poll, WaitTimeout, Accept, Route, Forward, Reaches, Refused
  <1> QED
    BY <1>1, <1>2, <1>3, <1>4, <1>5, <1>6 DEF Handle

\* It does not cancel its own context.
LEMMA HandleStaysConnected ==
    ASSUME Inv, NEW r \in Requests, Handle(r), ~req[r].cancelled
    PROVE  ~req'[r].cancelled
  <1>1. req[r] \in Request /\ \A label, q : Goto(r, label, q) => req'[r] = q
    BY DEF Inv, TypeOK, Goto
  <1>2. \A label, job, row : Begin(r, label, job, row) => ~req'[r].cancelled
    BY <1>1 DEF Begin, Request
  <1>3. \A code, served : Finish(r, code, served) => ~req'[r].cancelled
    BY <1>1 DEF Finish, Blank
  <1>4. \A code : Answer(r, code) => ~req'[r].cancelled
    BY <1>3 DEF Answer
  <1>5. \A label : Goto(r, label, req[r]) => ~req'[r].cancelled
    BY <1>1
  <1>6. \A label, x : Goto(r, label, [req[r] EXCEPT !.cur = x]) => ~req'[r].cancelled
    BY <1>1 DEF Request
  <1>7. \A label, x : Goto(r, label, [req[r] EXCEPT !.missing = x]) => ~req'[r].cancelled
    BY <1>1 DEF Request
  <1>8. \A label, x : Goto(r, label, [req[r] EXCEPT !.victims = x]) => ~req'[r].cancelled
    BY <1>1 DEF Request
  <1>9. \A label, x, y :
           Goto(r, label, [req[r] EXCEPT !.victims = x, !.missing = y]) => ~req'[r].cancelled
    BY <1>1 DEF Request
  <1>10. \A label, v : Goto(r, label, Gone(r, v)) => ~req'[r].cancelled
    BY <1>1 DEF Request, Gone
  <1>11. \A label :
           Goto(r, label, [req[r] EXCEPT !.answer = 202, !.cancelled = FALSE]) => ~req'[r].cancelled
    BY <1>1 DEF Request
  <1> HIDE DEF Inv
  <1>12. CASE Lookup(r)
    BY <1>2, <1>4, <1>12
    DEF Lookup, HandleDeployFunction, HandleUpdateFunction, DeployBuiltImage,
        HandleDeleteFunction, HandleScaleFunction, HandleInvokeFunction
  <1>13. CASE List(r) \/ Reaped(r)
    <2>1. CASE List(r)
      BY <1>4, <1>5, <1>8, <1>9, <2>1 DEF List
    <2>2. CASE Reaped(r)
      <3>1. req[r].job \in {"update", "delete", "rollback", "scale", "wake"}
        BY <2>2 DEF Reaped, Inv, Knows
      <3>2. CASE req[r].job = "rollback"
        BY <1>4, <2>2, <3>2 DEF Reaped
      <3>3. CASE req[r].job # "rollback"
        <4>1. \E label : Goto(r, label, req[r])
          BY <2>2, <3>1, <3>3 DEF Reaped
        <4> QED
          BY <1>5, <4>1
      <3> QED
        BY <3>2, <3>3
    <2> QED
      BY <1>13, <2>1, <2>2
  <1>14. CASE StopVictim(r) \/ RemoveVictim(r)
    <2>1. CASE StopVictim(r)
      <3>1. Answer(r, 500) \/ \E x : Goto(r, "remove", [req[r] EXCEPT !.cur = x])
        BY <2>1 DEF StopVictim
      <3> QED
        BY <1>4, <1>6, <3>1
    <2>2. CASE RemoveVictim(r)
      <3>1. Answer(r, 500) \/ \E v : Goto(r, "reap", Gone(r, v))
        BY <2>2 DEF RemoveVictim
      <3> QED
        BY <1>4, <1>10, <3>1
    <2> QED
      BY <1>14, <2>1, <2>2
  <1>15. CASE Create(r)
    <2>1. CASE PullImage(r) \/ StartContainer(r)
      <3>1. Answer(r, 500) \/ \E label, x : Goto(r, label, [req[r] EXCEPT !.missing = x])
        BY <2>1 DEF PullImage, StartContainer
      <3> QED
        BY <1>4, <1>7, <3>1
    <2>2. CASE InspectName(r) \/ RemoveStale(r)
      <3>1. \/ Answer(r, 500) \/ \E label : Goto(r, label, req[r])
            \/ \E label, x : Goto(r, label, [req[r] EXCEPT !.cur = x])
        BY <2>2 DEF InspectName, RemoveStale
      <3> QED
        BY <1>4, <1>5, <1>6, <3>1
    <2>3. CASE ListNetworks(r) \/ CreateNetwork(r) \/ ConnectGateway(r) \/ CreateContainer(r)
               \/ Created(r)
      BY <1>4, <1>5, <2>3
      DEF ListNetworks, CreateNetwork, ConnectGateway, CreateContainer, Created
    <2> QED
      BY <1>15, <2>1, <2>2, <2>3 DEF Create
  <1>16. CASE Store(r)
    BY <1>2, <1>4, <1>5, <1>16 DEF Store, InsertRow, SaveRow, SetReplicas, DeleteRow
  <1>17. CASE Cleanup(r)
    BY <1>4, <1>5, <1>17
    DEF Cleanup, InspectNetwork, DisconnectGateway, ReinspectNetwork, RemoveNetwork
  <1>18. CASE Invoke(r)
    <2>1. CASE Probe(r) \/ Poll(r) \/ WaitTimeout(r)
      BY <1>2, <1>3, <1>4, <1>5, <1>6, <1>11, <2>1 DEF Probe, Poll, WaitTimeout
    <2>2. CASE Accept(r) \/ Route(r)
      BY <1>2, <1>3, <1>4, <1>5, <1>6, <1>11, <2>2 DEF Accept, Route
    <2>3. CASE Forward(r)
      BY <1>2, <1>3, <1>4, <1>5, <1>6, <1>11, <2>3 DEF Forward
    <2> QED
      BY <1>18, <2>1, <2>2, <2>3 DEF Invoke
  <1> QED
    BY <1>12, <1>13, <1>14, <1>15, <1>16, <1>17, <1>18 DEF Handle, Remove

LEMMA HandleLeavesAlone ==
    ASSUME TogetherInv, LeftAlone, OwnNetworksApart, NEW r \in Requests, Handle(r),
           UNCHANGED reconcilerVars, faults' = 0
    PROVE  LeftAlone'
  <1>1. Inv /\ Serving /\ KeepsToUses /\ Unrefused
    BY DEF TogetherInv
  <1>2. faults = 0
    BY <1>1, NothingFailed, HandleFails
  <1>3. \A t \in Requests : t # r => req'[t] = req[t]
    BY <1>1, HandleSteps DEF HandlerStep, Advances, Goto, Inv, TypeOK
  <1>4. \A t \in Requests : ~req[t].cancelled /\ ~req'[t].cancelled
    BY <1>1, <1>2, <1>3, HandleStaysConnected DEF LeftAlone
  <1>5. ASSUME NEW s \in Services, OnlyDeletes(s)'
        PROVE  Undisturbed(s)'
    <2>1. OnlyDeletes(s) /\ Undisturbed(s)
      BY <1>1, <1>2, <1>5, StillOnlyDeletes DEF LeftAlone
    <2>2. CASE Service(r) = s
      BY <1>1, <1>4, <1>5, <2>1, <2>2, OwnFunctionStep
    <2>3. CASE Service(r) # s
      BY <1>1, <2>1, <2>3, OtherFunctionStep
    <2> QED
      BY <2>2, <2>3
  <1> QED
    BY <1>4, <1>5 DEF LeftAlone

\* Nor does a step in which no handler goes on.
LEMMA OthersLeaveAlone ==
    ASSUME TogetherInv, LeftAlone, faults = 0, \A r \in Requests : Waits(r),
           \A s \in Services : Undisturbed(s) => Undisturbed(s)'
    PROVE  LeftAlone'
  <1>1. \A call : ~Blank(call, NoAnswer, FALSE).cancelled
    BY DEF Blank
  <1>2. \A r \in Requests : ~req'[r].cancelled
    BY <1>1 DEF LeftAlone, Waits, Called
  <1>3. \A s \in Services : OnlyDeletes(s)' => Undisturbed(s)'
    BY OnlyDeletesWaits DEF LeftAlone, TogetherInv
  <1> QED
    BY <1>2, <1>3 DEF LeftAlone

LEMMA NextLeftAlone ==
    ASSUME TogetherInv, LeftAlone, OwnNetworksApart, [ReconcilerNext]_allVars
    PROVE  LeftAlone'
  <1> SUFFICES ASSUME faults' = 0
               PROVE  LeftAlone'
    BY DEF LeftAlone
  <1>1. Inv /\ KeepsToUses /\ Orderly
    BY DEF TogetherInv
  <1>2. \A kind : ~Fault(kind)
    BY <1>1, NothingFailed
  <1>3. ASSUME UNCHANGED <<containers, networks, attached, rows, faults>>, UNCHANGED reconcilerVars,
               \A r \in Requests : Waits(r)
        PROVE  LeftAlone'
    <2>1. ASSUME NEW s \in Services, Undisturbed(s)
          PROVE  Undisturbed(s)'
      BY <1>1, <1>3, <2>1, UndisturbedStill
      DEF ContainersOf, Existing, Undisturbed, Watched, reconcilerVars
    <2> QED
      BY <1>3, <2>1, OthersLeaveAlone
  <1>4. ASSUME NEW r \in Requests, Arrive(r), UNCHANGED reconcilerVars
        PROVE  LeftAlone'
    <2>1. UNCHANGED <<containers, networks, attached, rows, faults>>
      BY <1>4 DEF Arrive, engineVars
    <2>2. Called(r)
      BY <1>1, <1>4 DEF Called, Arrive, Goto, Inv, TypeOK
    <2>3. \A t \in Requests : t # r => pc'[t] = pc[t] /\ req'[t] = req[t]
      BY <1>1, <1>4 DEF Arrive, Goto, Inv, TypeOK
    <2> QED
      BY <1>3, <1>4, <2>1, <2>2, <2>3 DEF Waits
  <1>5. ASSUME NEW c \in ContainerIds, Restart(c), UNCHANGED reconcilerVars
        PROVE  LeftAlone'
    <2>1. /\ UNCHANGED <<networks, attached, rows, pc, req, faults>> /\ SetState(c, "running")
      BY <1>5 DEF Restart, ContainerRestarts
    <2>2. \A s : ContainersOf(s)' = ContainersOf(s)
      BY <1>1, <2>1 DEF SetState, ContainersOf, Existing, Inv, TypeOK, EngineTypeOK, Container
    <2>3. \A r \in Requests : Waits(r)
      BY <2>1 DEF Waits
    <2>4. ASSUME NEW s \in Services, Undisturbed(s)
          PROVE  Undisturbed(s)'
      BY <1>1, <1>5, <2>1, <2>2, <2>3, <2>4, UndisturbedStill
      DEF Undisturbed, Watched, reconcilerVars
    <2> QED
      BY <2>1, <2>3, <2>4, OthersLeaveAlone
  <1>6. CASE ReconcileOnce
    <2>1. UNCHANGED <<pc, req>> /\ \A r \in Requests : Waits(r)
      BY <1>1, <1>6, ReconcileTouches DEF Waits
    <2>2. UNCHANGED faults
      BY <1>2, <1>6
      DEF ReconcileOnce, InspectGateway, ListRowNetworks, ConnectNext, EndOfPass, vars
    <2> QED
      BY <1>1, <1>6, <2>1, <2>2, ReconcileLeaves, OthersLeaveAlone
  <1>7. CASE UNCHANGED allVars
    <2>1. UNCHANGED <<containers, networks, attached, rows, faults, pc, req>>
          /\ UNCHANGED reconcilerVars
      BY <1>7 DEF allVars, vars
    <2> QED
      BY <1>3, <2>1 DEF Waits
  <1>8. /\ \A r : ~HangUp(r)
        /\ \A c : ~Exit(c)
        /\ ~CrashAndRestart
    BY <1>2 DEF HangUp, Exit, CrashAndRestart
  <1> QED
    BY <1>4, <1>5, <1>6, <1>7, <1>8, HandleLeavesAlone DEF ReconcilerNext, Disturb

LEMMA TogetherSimulates ==
    ASSUME TogetherInv, [ReconcilerNext]_allVars
    PROVE  [Registry!Next]_<<rows, Asks>>
  <1>1. Inv /\ Serving
    BY DEF TogetherInv
  <1>2. CASE [Next]_vars
    BY <1>1, <1>2, NextSimulates
  <1>3. CASE ReconcileOnce
    BY <1>1, <1>3, ReconcileTouches, Stands
  <1>4. UNCHANGED allVars => UNCHANGED vars
    BY DEF allVars
  <1> QED
    BY <1>2, <1>3, <1>4 DEF ReconcilerNext, Next

\* What is proved of the handlers alone holds next to the reconciler, whatever it inspected
\* and connects in between (ReconcileOnce): what each handler knows at its calls, whom every
\* container was created for, and what the registry promises of calls, writes and answers.
THEOREM HandlersGoTogether == ReconcilerSpec => []Inv /\ RefinesRegistry
  <1>1. ReconcilerInit => TogetherInv
    BY InitTogether
  <1>2. TogetherInv /\ [ReconcilerNext]_allVars => TogetherInv'
    BY NextTogether
  <1>3. ReconcilerInit => Registry!Init
    BY InitSimulates DEF ReconcilerInit
  <1>4. TogetherInv /\ [ReconcilerNext]_allVars => [Registry!Next]_<<rows, Asks>>
    BY TogetherSimulates
  <1>5. TogetherInv => Inv
    BY DEF TogetherInv
  <1> QED
    BY <1>1, <1>2, <1>3, <1>4, <1>5, PTL
    DEF ReconcilerSpec, RefinesRegistry, Registry!Spec

\* What the reconciler keeps from one of its calls to the next has its type: in particular
\* it is never about to connect a network it found the gateway on (listNetworks).
THEOREM ReconcilerTypeCorrect == ReconcilerSpec => []ReconcilerTypeOK
  <1>1. ReconcilerInit => TogetherInv
    BY InitTogether
  <1>2. TogetherInv /\ [ReconcilerNext]_allVars => TogetherInv'
    BY NextTogether
  <1>3. TogetherInv => ReconcilerTypeOK
    BY DEF TogetherInv, Orderly
  <1> QED
    BY <1>1, <1>2, <1>3, PTL DEF ReconcilerSpec

\* When every request is answered, a function that was only deleted has its row or no
\* network of its own.
LEMMA QuietReleases ==
    ASSUME TogetherInv, LeftAlone
    PROVE  OwnNetworksReleased
  <1> SUFFICES ASSUME Quiet, faults = 0, NEW s \in Services, OnlyDeleted(s),
                      OwnNetwork[s] \in DOMAIN networks
               PROVE  OwnNetwork[s] \in RowNetworks
    BY DEF OwnNetworksReleased
  <1>1. \A r \in Requests : req[r].call # NoCall => pc[r] = "done"
    BY DEF Quiet, InFlight, TogetherInv, Inv, Knows
  <1>2. OnlyDeletes(s)
    BY <1>1 DEF OnlyDeleted, OnlyDeletes
  <1>3. \A r \in Requests : ~Releases(r, s)
    BY <1>1 DEF Releases, CleaningUp
  <1>4. OnOwn(s)
    BY <1>2, <1>3 DEF LeftAlone, Undisturbed, Watched
  <1> QED
    BY <1>4 DEF OnOwn, Stored, RowNetworks

\* Deletes, also concurrent ones, release the networks of their functions as long as nothing
\* fails, whatever passes of the reconciler run between the disconnect and the removal of
\* CleanupFunctionNetwork: no function has to be put on the own network of another one
\* (FunctionNetworkName makes it from the function's name).
THEOREM DeletesReleaseNetworks ==
    ASSUME OwnNetworksApart
    PROVE  ReconcilerSpec => []OwnNetworksReleased
  <1> DEFINE Released == TogetherInv /\ LeftAlone
  <1>1. ReconcilerInit => Released
    BY InitTogether, InitLeftAlone
  <1>2. Released /\ [ReconcilerNext]_allVars => Released'
    BY NextTogether, NextLeftAlone
  <1>3. Released => OwnNetworksReleased
    BY QuietReleases
  <1> HIDE DEF Released
  <1> QED
    BY <1>1, <1>2, <1>3, PTL DEF ReconcilerSpec
================================================================================
