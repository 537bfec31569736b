------------------------------ MODULE SerialProofs ------------------------------
(***************************************************************************)
(* The lifecycle when nothing fails.                                       *)
(*                                                                         *)
(* First, calls made one at a time.  They keep the store and the engine in *)
(* step, never fail, get every invocation of a function that has a row to  *)
(* a running container of it and clean up after a delete:                  *)
(* StoreAndEngineAgree, NoCallFails, InvokeArrives and DeleteReleases, for *)
(* every sequence of calls on every number of functions that share no      *)
(* network and whose labels say nothing the gateway's own do not.  The     *)
(* invariant says, for each call a handler makes, which of the replicas it *)
(* is to leave behind exist by then (Stage), and that a function nobody    *)
(* handles is as its row says (Agreed).                                    *)
(*                                                                         *)
(* Then, any number of invocations at once, of functions that have one     *)
(* replica or none: ColdStartSettles and ColdStartArrives.  They read,     *)
(* create, start and give up in any order, so their invariant does not say *)
(* what each of them has done but that somebody always goes on for the     *)
(* function (Rises).                                                       *)
(***************************************************************************)
EXTENDS LifecycleProofs

\* The networks the gateway may put service s on: its own, those its calls name, and
\* those of its row when the behaviour begins.
Uses(s) ==
    {OwnNetwork[s]}
    \cup {call.network : call \in {k \in Calls : k.service = s /\ k.network # NoNetwork}}
    \cup {R[s].network : R \in {Q \in InitialRows : s \in DOMAIN Q}}

\* One request at a time, nothing fails, labels are left to the gateway, and no two
\* functions share a network.  (The cleanup of a deleted function's network disconnects
\* the gateway from it.)
OneByOne ==
    /\ MaxInFlight \in {0, 1}
    /\ Faults = {}
    /\ OwnLabelsOnly
    /\ \A s, t \in Services : s # t => Uses(s) \cap Uses(t) = {}

Agreed(s) == IF Stored(s) THEN AsStored(s) ELSE ContainersOf(s) = {}

\* The row a handler works from is still the stored one; a deploy works from none.
Tied(r) ==
    IF req[r].job = "deploy" THEN ~Stored(Service(r))
    ELSE Stored(Service(r)) /\ req[r].row = rows[Service(r)]

\* The replicas it is to leave behind.
Goal(r) == IF req[r].job \in {"deploy", "update"} THEN DeployReplicas(r) ELSE Target(r)

Wanted(r, c) ==
    containers[c].image = DeploymentOf(r).image /\ containers[c].network = Net(r)

\* The containers in C are the replicas it does not have to create any more.
Built(r, C) ==
    /\ req[r].missing \subseteq 0 .. Goal(r) - 1
    /\ {containers[c].replica : c \in C} = (0 .. Goal(r) - 1) \ req[r].missing
    /\ \A c \in C : Wanted(r, c) /\ containers[c].state = "running"
    /\ C # {} => Net(r) \in attached

\* The containers it will not remove.
Spared(r) == {c \in ContainersOf(Service(r)) : \A v \in req[r].victims : v.id # c}

Reaping(r) == IF RemovesAll(r) THEN Spared(r) = {} ELSE Built(r, Spared(r))

\* It has created a replica and starts it next.
Starting(r) ==
    /\ NewContainer(r) \in ContainersOf(Service(r))
    /\ containers[NewContainer(r)].replica = NextReplica(r)
    /\ Wanted(r, NewContainer(r))
    /\ Built(r, ContainersOf(Service(r)) \ {NewContainer(r)})

Building   == {"create", "netcreate", "connect", "inspect", "ccreate"}
Writing    == {"insert", "save", "setreplicas"}
CleaningUp == {"netinspect", "disconnect", "netreinspect", "netremove"}
Delivering == {"wait", "accept", "route", "forward"}

\* What is true of the function of a request at each of its handler's calls.
Stage(r) ==
    /\ ~req[r].cancelled
    /\ pc[r] # "done" => req[r].answer \notin {500, 504}
    /\ req[r].job # "rollback" /\ pc[r] # "rmstale"
    /\ pc[r] \in {"idle", "lookup", "done"} => req[r].job = "none"
    /\ req[r].row # NoRow => req[r].row.network \in Uses(Service(r))
    /\ pc[r] = "lookup" => Agreed(Service(r))
    /\ pc[r] \in Working => Tied(r)
    /\ pc[r] \in {"list", "probe"} => AsStored(Service(r))
    /\ pc[r] \in {"reap", "remove"} => Reaping(r)
    /\ pc[r] \in {"pull", "deleterow"} => ContainersOf(Service(r)) = {}
    /\ pc[r] = "pull" => req[r].job \in {"deploy", "update"}
    /\ pc[r] \in Building \cup Writing => Built(r, ContainersOf(Service(r)))
    /\ pc[r] \in Writing => req[r].missing = {}
    /\ pc[r] = "netcreate" => Net(r) \notin DOMAIN networks
    /\ pc[r] = "connect" => Net(r) \in DOMAIN networks
    /\ pc[r] \in {"inspect", "ccreate", "cstart"} => Net(r) \in attached
    /\ pc[r] = "cstart" => Starting(r)
    /\ pc[r] \in CleaningUp => ~Stored(Service(r)) /\ ContainersOf(Service(r)) = {}
    /\ pc[r] \in {"netreinspect", "netremove"} => OldNet(r) \notin attached
    /\ pc[r] \in Delivering =>
          Stored(Service(r)) /\ AsStored(Service(r)) /\ ContainersOf(Service(r)) # {}
    /\ pc[r] = "forward" => req[r].cur \in ContainersOf(Service(r))

\* What is true of the engine and the store whoever is being handled.
World ==
    /\ \A c \in Existing : containers[c].state # "restarting" /\ containers[c].replica = c[2]
    /\ \A c, d \in Existing :
          containers[c].service = containers[d].service /\
          containers[c].replica = containers[d].replica => c = d
    /\ \A n \in DOMAIN networks : n \in Uses(networks[n])
    /\ \A s \in DOMAIN rows : rows[s].network \in Uses(s)

Alone == \A r, t \in InFlight : r = t

SerialInv ==
    /\ World
    /\ Alone
    /\ \A r \in Requests : Stage(r)
    /\ \A s \in Services : (\A r \in InFlight : Service(r) # s) => Agreed(s)

--------------------------------------------------------------------------------
(* The environment: nothing fails, and every function has its networks *)

LEMMA OwnNetworks ==
    ASSUME NEW s
    PROVE  /\ OwnNetwork[s] \in Uses(s)
           /\ \A call \in Calls : call.service = s /\ call.network # NoNetwork =>
                                     call.network \in Uses(s)
           /\ \A R \in InitialRows : s \in DOMAIN R => R[s].network \in Uses(s)
  BY DEF Uses

LEMMA NothingFails ==
    ASSUME OneByOne
    PROVE  /\ \A kind : ~Fault(kind)
           /\ \A r : ~req[r].cancelled => ~Refused(r)
  BY DEF OneByOne, Fault, Refused

\* The network a handler creates its replicas on is one of its function's.
LEMMA NetIsOwn ==
    ASSUME Inv, NEW r \in Requests, Stage(r), Knows("create", req[r])
    PROVE  /\ Net(r) \in Uses(Service(r))
           /\ req[r].job \in {"deploy", "update"} => Net(r) = NetworkFor(r)
  <1>1. req[r].call \in Calls
    BY DEF Inv, TypeOK, Request, Knows
  <1>2. req[r].row # NoRow => req[r].row.network \in Uses(Service(r))
    BY DEF Stage
  <1>3. CASE req[r].job \in {"scale", "wake"}
    <2>1. Net(r) = req[r].row.network
      BY <1>3 DEF Net, DeploymentOf
    <2> QED
      BY <1>2, <1>3, <2>1 DEF Knows
  <1>4. CASE req[r].job \in {"deploy", "update"}
    <2>1. Net(r) = NetworkFor(r)
      BY <1>4 DEF Net, DeploymentOf
    <2>2. Op(r) = "update" => req[r].row # NoRow
      BY <1>4 DEF Knows, Op
    <2>3. NetworkFor(r) \in Uses(Service(r))
      BY <1>1, <1>2, <2>2, OwnNetworks DEF NetworkFor, Service
    <2> QED
      BY <2>1, <2>3
  <1> QED
    BY <1>3, <1>4 DEF Knows

--------------------------------------------------------------------------------
(* One step of the one handler *)

\* Its last step has done what its job is: a delete leaves nothing behind, an
\* invocation has arrived; a call whose look-up ends it is not accepted.
Ends(r) ==
    /\ req[r].job = "none" => req'[r].answer # 202
    /\ req[r].job \in {"invoke", "wake"} => req'[r].arrived
    /\ req[r].job = "delete" =>
          /\ ~Stored(Service(r)) /\ ContainersOf(Service(r)) = {}
          /\ OldNet(r) \notin DOMAIN networks' \/ Endpoints(OldNet(r)) # {}

\* It reaches the next stage, or leaves its function as the row says; the networks
\* of the other functions stay attached.
Proceeds(r) ==
    /\ Stage(r)'
    /\ pc'[r] = "done" =>
          /\ Agreed(Service(r))' /\ Ends(r)
          /\ pc[r] # "forward" => req'[r].answer \notin {500, 504}
    /\ World'
    /\ \A n \in attached : n \in Uses(Service(r)) \/ n \in attached'

\* A handler that goes on with its call, job and row has the plan it had.
LEMMA SamePlan ==
    ASSUME TypeOK, NEW r \in Requests, NEW label, NEW q, Goto(r, label, q), Keeps(r, q)
    PROVE  /\ pc'[r] = label /\ req'[r] = q
           /\ Service(r)' = Service(r) /\ Op(r)' = Op(r)
           /\ DeploymentOf(r)' = DeploymentOf(r) /\ Net(r)' = Net(r)
           /\ Goal(r)' = Goal(r) /\ Target(r)' = Target(r) /\ OldNet(r)' = OldNet(r)
           /\ RemovesAll(r)' = RemovesAll(r)
  <1>1. pc'[r] = label /\ req'[r] = q
    BY DEF TypeOK, Goto
  <1>2. /\ req'[r].call = req[r].call /\ req'[r].job = req[r].job /\ req'[r].row = req[r].row
    BY <1>1 DEF Keeps
  <1>3. Service(r)' = Service(r) /\ Op(r)' = Op(r)
    BY <1>2 DEF Service, Op
  <1>4. NetworkFor(r)' = NetworkFor(r)
    BY <1>2, <1>3 DEF NetworkFor
  <1>5. DeploymentOf(r)' = DeploymentOf(r)
    BY <1>2, <1>3, <1>4 DEF DeploymentOf
  <1> QED
    BY <1>1, <1>2, <1>3, <1>5
    DEF Net, Goal, Target, DeployReplicas, OldNet, RemovesAll

\* Nothing happens to engine and store.
LEMMA WorldStands ==
    ASSUME World, UNCHANGED <<engineVars, rows>>
    PROVE  World'
  BY DEF World, Existing, engineVars

\* The facts of one request in flight.
LEMMA StageFacts ==
    ASSUME Inv, Serving, SerialInv, NEW r \in Requests
    PROVE  /\ TypeOK /\ World /\ Stage(r)
           /\ pc[r] \in Labels /\ req[r] \in Request
           /\ Knows(pc[r], req[r]) /\ Serves(pc[r], req[r])
           /\ ~req[r].cancelled
  BY DEF Inv, TypeOK, Serving, SerialInv, Stage

--------------------------------------------------------------------------------
(* What a step does to the functions nobody handles *)

LEMMA OthersAgree ==
    ASSUME OneByOne, Inv, World, NEW s \in Services, NEW t \in Services, s # t,
           EngineStep(t), StoreStep(t), Agreed(s),
           \A n \in attached : n \in Uses(t) \/ n \in attached'
    PROVE  Agreed(s)'
  <1>1. /\ ContainersOf(s)' = ContainersOf(s)
        /\ \A c \in ContainersOf(s) : containers'[c] = containers[c]
        /\ Stored(s)' = Stored(s)
        /\ Stored(s) => rows'[s] = rows[s]
    BY OthersUntouched DEF OneByOne
  <1>2. CASE ~Stored(s)
    BY <1>1, <1>2 DEF Agreed
  <1>3. CASE Stored(s)
    <2>1. AsStored(s)
      BY <1>3 DEF Agreed
    <2>2. ReplicasOf(s)' = ReplicasOf(s)
      BY <1>1 DEF ReplicasOf
    <2>3. rows[s].network \notin Uses(t)
      BY <1>3 DEF World, Stored, OneByOne
    <2>4. AsStored(s)'
      BY <1>1, <1>3, <2>1, <2>2, <2>3 DEF AsStored
    <2> QED
      BY <1>1, <1>3, <2>4 DEF Agreed
  <1> QED
    BY <1>2, <1>3

LEMMA HandledPreserves ==
    ASSUME OneByOne, Inv, SerialInv, NEW r \in Requests, pc[r] \notin {"idle", "done"},
           HandlerStep(r), Proceeds(r)
    PROVE  SerialInv'
  <1>1. PICK label \in Labels, q \in Request :
           label # "idle" /\ q.call = req[r].call /\ Goto(r, label, q)
    BY DEF HandlerStep, Advances
  <1>2. \A t \in Requests : IF t = r THEN pc'[t] = label /\ req'[t] = q
                                       ELSE pc'[t] = pc[t] /\ req'[t] = req[t]
    BY <1>1 DEF Goto, Inv, TypeOK
  <1>3. r \in InFlight /\ (\A t \in InFlight : t = r)
    BY DEF InFlight, SerialInv, Alone
  <1>4. InFlight' \subseteq {r}
    BY <1>2, <1>3 DEF InFlight
  <1>5. Alone'
    BY <1>4 DEF Alone
  <1>6. \A t \in Requests : Stage(t)'
    <2> SUFFICES ASSUME NEW t \in Requests, t # r
                 PROVE  Stage(t)'
      BY DEF Proceeds
    <2>1. pc[t] \in {"idle", "done"} /\ pc'[t] = pc[t] /\ req'[t] = req[t] /\ Stage(t)
      BY <1>2, <1>3 DEF InFlight, SerialInv
    <2> QED
      BY <2>1 DEF Stage, Service, Working, Building, Writing, CleaningUp, Delivering
  <1>7. Service(r) \in Services /\ Service(r)' = Service(r)
    BY <1>1, <1>2, RequestFacts DEF Service
  <1>8. ASSUME NEW s \in Services, \A t \in InFlight' : Service(t)' # s
        PROVE  Agreed(s)'
    <2>1. CASE s = Service(r)
      <3>1. r \notin InFlight'
        BY <1>7, <1>8, <2>1
      <3>2. pc'[r] = "done"
        BY <1>1, <1>2, <3>1 DEF InFlight
      <3> QED
        BY <1>7, <2>1, <3>2 DEF Proceeds
    <2>2. CASE s # Service(r)
      <3>1. Agreed(s)
        BY <1>3, <2>2 DEF SerialInv
      <3> QED
        BY <1>7, <2>2, <3>1, OthersAgree DEF HandlerStep, Proceeds, SerialInv
    <2> QED
      BY <2>1, <2>2
  <1> QED
    BY <1>5, <1>6, <1>8 DEF SerialInv, Proceeds

\* A handler that answers, with its function as its row says.
LEMMA FinishProceeds ==
    ASSUME Inv, SerialInv, NEW r \in Requests, NEW code, NEW arrived \in BOOLEAN,
           Finish(r, code, arrived), pc[r] # "forward" => code \notin {500, 504},
           NEW s, s = Service(r), Agreed(s)', World', Ends(r),
           \A n \in attached : n \in Uses(s) \/ n \in attached'
    PROVE  Proceeds(r)
  <1> DEFINE q == Blank(req[r].call, code, arrived)
  <1>1. /\ q.call = req[r].call /\ q.job = "none" /\ q.row = NoRow /\ q.cancelled = FALSE
        /\ q.answer = code
    BY DEF Blank
  <1>2. Goto(r, "done", q)
    BY DEF Finish
  <1> HIDE DEF q
  <1>3. pc'[r] = "done" /\ req'[r] = q
    BY <1>2 DEF Inv, TypeOK, Goto
  <1>4. Service(r)' = s
    BY <1>1, <1>3 DEF Service
  <1>5. Stage(r)'
    BY <1>1, <1>3 DEF Stage, Working, Building, Writing, CleaningUp, Delivering
  <1> QED
    BY <1>1, <1>3, <1>4, <1>5 DEF Proceeds

LEMMA AnswerProceeds ==
    ASSUME Inv, SerialInv, NEW r \in Requests, pc[r] # "done",
           NEW code, code \notin {500, 504}, Answer(r, code),
           NEW s, s = Service(r), Agreed(s)', World', Ends(r),
           \A n \in attached : n \in Uses(s) \/ n \in attached'
    PROVE  Proceeds(r)
  <1>1. req[r].answer \notin {500, 504}
    BY DEF SerialInv, Stage
  <1>2. Finish(r, code, FALSE) \/ Finish(r, req[r].answer, FALSE)
    BY DEF Answer
  <1> QED
    BY <1>1, <1>2, FinishProceeds

\* Functions are as they were when a step makes no call that changes anything.
LEMMA NothingChanges ==
    ASSUME World, UNCHANGED <<engineVars, rows>>, NEW s
    PROVE  /\ World'
           /\ Stored(s)' = Stored(s) /\ ContainersOf(s)' = ContainersOf(s)
           /\ AsStored(s)' = AsStored(s) /\ Agreed(s)' = Agreed(s)
           /\ \A n \in attached : n \in Uses(s) \/ n \in attached'
  <1>1. UNCHANGED <<containers, networks, attached, rows>>
    BY DEF engineVars
  <1>2. Stored(s)' = Stored(s) /\ ContainersOf(s)' = ContainersOf(s)
    BY <1>1 DEF Stored, ContainersOf, Existing
  <1>3. AsStored(s)' = AsStored(s)
    BY <1>1, <1>2 DEF AsStored, ReplicasOf
  <1> QED
    BY <1>1, <1>2, <1>3, WorldStands DEF Agreed

LEMMA LookupProceeds ==
    ASSUME OneByOne, Inv, Serving, SerialInv, NEW r \in Requests, Lookup(r)
    PROVE  Proceeds(r)
  <1>1. /\ TypeOK /\ World /\ Stage(r) /\ req[r] \in Request
        /\ pc[r] = "lookup" /\ UNCHANGED <<engineVars, rows>> /\ ~req[r].cancelled
    BY StageFacts DEF Lookup
  <1> DEFINE s == Service(r)
  <1>2. Agreed(s) /\ s \in Services
    BY <1>1, RequestFacts DEF Stage
  <1>3. PICK row \in {GetFunction(s), NoRow} :
          /\ LookedUp(r, row)
          /\ \/ Op(r) = "deploy" /\ HandleDeployFunction(r, row)
             \/ Op(r) = "update" /\ HandleUpdateFunction(r, row)
             \/ Op(r) = "build"  /\ DeployBuiltImage(r, row)
             \/ Op(r) = "delete" /\ HandleDeleteFunction(r, row)
             \/ Op(r) = "scale"  /\ HandleScaleFunction(r, row)
             \/ Op(r) \in {"invoke", "async"} /\ HandleInvokeFunction(r, row)
    BY DEF Lookup
  <1>4. row = GetFunction(s)
    BY <1>3, NothingFails DEF LookedUp
  <1>5. IF row = NoRow THEN ~Stored(s) ELSE Stored(s) /\ row = rows[s]
    BY <1>1, <1>4, NoRowAssumption DEF GetFunction, Stored, TypeOK, StoreTypeOK
  <1>6. row # NoRow => row.network \in Uses(s)
    BY <1>1, <1>5 DEF World, Stored
  <1>7. ASSUME NEW t, t = s
        PROVE  /\ World' /\ Stored(t)' = Stored(t) /\ ContainersOf(t)' = ContainersOf(t)
               /\ AsStored(t)' = AsStored(t) /\ Agreed(t)'
               /\ \A n \in attached : n \in Uses(t) \/ n \in attached'
    BY <1>1, <1>2, <1>7, NothingChanges
  <1>8. ASSUME NEW code \in {404, 409}, Answer(r, code)
        PROVE  Proceeds(r)
    <2>1. PICK t : t = s
      OBVIOUS
    <2>2. req[r].answer = NoAnswer /\ req[r].job = "none"
      BY <1>1, StageFacts DEF Serves, Stage
    <2>3. req'[r].answer = code
      BY <1>1, <1>8, <2>2 DEF Answer, Finish, Goto, Blank, TypeOK
    <2>4. Ends(r)
      BY <1>8, <2>2, <2>3 DEF Ends
    <2> QED
      BY <1>1, <1>7, <1>8, <2>1, <2>4, AnswerProceeds
  <1>9. ASSUME NEW label, NEW job \in Jobs, Begin(r, label, job, row),
               \/ label = "pull" /\ job = "deploy" /\ row = NoRow
               \/ label = "list" /\ job \in {"update", "delete", "scale"} /\ row # NoRow
               \/ label = "probe" /\ job = "invoke" /\ row # NoRow
        PROVE  Proceeds(r)
    <2> DEFINE q == [req[r] EXCEPT !.job = job, !.row = row]
    <2>1. /\ q.job = job /\ q.row = row /\ q.call = req[r].call /\ q.answer = req[r].answer
          /\ q.cancelled = req[r].cancelled
      BY <1>1 DEF Request
    <2>2. Goto(r, label, q)
      BY <1>9 DEF Begin
    <2> HIDE DEF q
    <2>3. pc'[r] = label /\ req'[r] = q
      BY <1>1, <2>2 DEF Goto, TypeOK
    <2>4. PICK t : t = s
      OBVIOUS
    <2>5. Service(r)' = t
      BY <2>1, <2>3, <2>4 DEF Service
    <2>6. /\ ~Stored(t) => ContainersOf(t) = {} /\ ContainersOf(t)' = {}
          /\ Stored(t) => AsStored(t) /\ AsStored(t)'
      BY <1>2, <1>7, <2>4 DEF Agreed
    <2>7. Tied(r)'
      BY <1>5, <1>7, <1>9, <1>1, <2>1, <2>3, <2>4, <2>5 DEF Tied, Stored
    <2>8. Stage(r)'
      BY <1>1, <1>5, <1>6, <1>9, <2>1, <2>3, <2>4, <2>5, <2>6, <2>7
      DEF Stage, Working, Building, Writing, CleaningUp, Delivering
    <2> QED
      BY <1>7, <1>9, <2>3, <2>4, <2>5, <2>8 DEF Proceeds
  <1> QED
    BY <1>3, <1>8, <1>9
    DEF HandleDeployFunction, HandleUpdateFunction, DeployBuiltImage, HandleDeleteFunction,
        HandleScaleFunction, HandleInvokeFunction, Jobs

--------------------------------------------------------------------------------
(* Removing containers *)

\* What is built stays built while the handler goes on, when its containers, and the
\* networks that are attached, stay.
LEMMA BuiltStands ==
    ASSUME TypeOK, NEW r \in Requests, NEW label, NEW q, Goto(r, label, q), Keeps(r, q),
           q.missing = req[r].missing,
           NEW C, Built(r, C), \A c \in C : containers'[c] = containers[c],
           attached \subseteq attached'
    PROVE  Built(r, C)'
  <1>1. /\ req'[r] = q /\ DeploymentOf(r)' = DeploymentOf(r) /\ Net(r)' = Net(r)
        /\ Goal(r)' = Goal(r)
    BY SamePlan
  <1>2. {containers'[c].replica : c \in C} = {containers[c].replica : c \in C}
    OBVIOUS
  <1> QED
    BY <1>1, <1>2 DEF Built, Wanted

\* Of a function that is as its row says, a scale removes the replicas from the
\* target up, and misses those below it that do not exist.
LEMMA PlanOfAgreed ==
    ASSUME TypeOK, World, NEW s, AsStored(s), NEW target \in 0 .. MaxReplicas,
           NEW plan, plan = ScalePlan(Listing(s), target)
    PROVE  /\ plan.missing = (0 .. target - 1) \ ReplicasOf(s)
           /\ \A c \in ContainersOf(s) :
                 (\E v \in plan.stale \cup plan.active : v.id = c)
                    <=> containers[c].replica >= target
  <1> DEFINE L == Listing(s)
  <1>1. \A c \in ContainersOf(s) : containers[c].replica \in Nat /\ containers[c].state = "running"
    BY MaxReplicasAssumption DEF TypeOK, EngineTypeOK, ContainersOf, Existing, Container, Replicas, AsStored
  <1>2. \A v \in L : /\ v.id \in ContainersOf(s) /\ v = Summary(v.id)
                     /\ v.replica = containers[v.id].replica /\ v.state = "running"
                     /\ v.created = 0 /\ v.replica \in Nat
    BY <1>1 DEF Listing, Summary
  <1>3. \A v, w \in L : v.replica = w.replica => v = w
    <2> TAKE v, w \in L
    <2> HAVE v.replica = w.replica
    <2>1. v.id = w.id
      BY <1>2 DEF World, ContainersOf
    <2> QED
      BY <1>2, <2>1
  <1>4. \A c \in ContainersOf(s) : Summary(c) \in L /\ Summary(c).id = c
                                   /\ Summary(c).replica = containers[c].replica
    BY DEF Listing, Summary
  <1> HIDE DEF L
  <1>5. Live(L) = L
    BY <1>2 DEF Live, IsStale
  <1>6. Indices(L) = {v.replica : v \in L}
    BY <1>2, <1>5 DEF Indices, NoIndex
  <1>7. {v.replica : v \in L} = ReplicasOf(s)
    BY <1>2, <1>4 DEF ReplicasOf
  <1>8. L \subseteq Kept(L)
    <2> SUFFICES ASSUME NEW v \in L
                 PROVE  v \in Kept(L)
      OBVIOUS
    <2>1. Group(L, v.replica) = {v}
      BY <1>3, <1>5 DEF Group
    <2>2. ~Preferred(v, v)
      BY <1>2 DEF Preferred
    <2>3. Keeper({v}) = v
      BY <2>2 DEF Keeper, IsKeeper
    <2>4. v.replica \in Indices(L)
      BY <1>6
    <2> QED
      BY <2>1, <2>3, <2>4 DEF Kept
  <1>9. plan.stale = {} /\ plan.active = {v \in L : v.replica >= target}
    BY <1>2, <1>5, <1>8 DEF ScalePlan, L, NoIndex
  <1>10. plan.missing = (0 .. target - 1) \ ReplicasOf(s)
    BY <1>6, <1>7 DEF ScalePlan, L
  <1>11. \A c \in ContainersOf(s) :
            (\E v \in plan.stale \cup plan.active : v.id = c) <=> containers[c].replica >= target
    BY <1>2, <1>4, <1>9
  <1> QED
    BY <1>10, <1>11

LEMMA ListProceeds ==
    ASSUME OneByOne, Inv, Serving, SerialInv, NEW r \in Requests, List(r)
    PROVE  Proceeds(r)
  <1>1. /\ TypeOK /\ World /\ Stage(r) /\ req[r] \in Request /\ Knows(pc[r], req[r])
        /\ pc[r] = "list" /\ UNCHANGED <<engineVars, rows>> /\ ~req[r].cancelled
    BY StageFacts DEF List
  <1>2. PICK s : s = Service(r)
    OBVIOUS
  <1>3. AsStored(s) /\ Stored(s) /\ req[r].row = rows[s]
    BY <1>1, <1>2 DEF Stage, Working, Tied, Knows
  <1>4. /\ World' /\ Stored(s)' = Stored(s) /\ ContainersOf(s)' = ContainersOf(s)
        /\ \A n \in attached : n \in Uses(s) \/ n \in attached'
        /\ UNCHANGED <<containers, attached, rows>>
    BY <1>1, NothingChanges DEF engineVars
  <1> DEFINE plan == ScalePlan(Listing(s), Target(r))
             aimed(q) == IF RemovesAll(r) THEN q = [req[r] EXCEPT !.victims = Listing(s)]
                         ELSE q = [req[r] EXCEPT !.victims = plan.stale \cup plan.active,
                                                 !.missing = plan.missing]
  <1>5. PICK q : aimed(q) /\ Goto(r, "reap", q)
    BY <1>1, <1>2, NothingFails DEF List
  <1>6. /\ Keeps(r, q) /\ q.cancelled = req[r].cancelled
        /\ IF RemovesAll(r) THEN q.victims = Listing(s)
           ELSE q.victims = plan.stale \cup plan.active /\ q.missing = plan.missing
    BY <1>1, <1>5 DEF Request, Keeps
  <1> HIDE DEF plan, aimed
  <1>7. /\ pc'[r] = "reap" /\ req'[r] = q /\ Service(r)' = s
        /\ DeploymentOf(r)' = DeploymentOf(r) /\ Net(r)' = Net(r) /\ Goal(r)' = Goal(r)
        /\ RemovesAll(r)' = RemovesAll(r)
    BY <1>1, <1>2, <1>5, <1>6, SamePlan
  <1>8. Tied(r)'
    BY <1>1, <1>3, <1>4, <1>6, <1>7 DEF Tied, Keeps, Knows, Stored
  <1>9. Spared(r)' = {c \in ContainersOf(s) : \A v \in q.victims : v.id # c}
    BY <1>4, <1>7 DEF Spared
  <1>10. Reaping(r)'
    <2>1. CASE RemovesAll(r)
      <3>1. \A c \in ContainersOf(s) : Summary(c) \in q.victims /\ Summary(c).id = c
        BY <1>6, <2>1 DEF Listing, Summary
      <3> QED
        BY <1>7, <1>9, <2>1, <3>1 DEF Reaping
    <2>2. CASE ~RemovesAll(r)
      <3>1. req[r].job \in {"scale", "wake"}
        BY <1>1, <2>2 DEF Stage, Knows, RemovesAll
      <3>2. Target(r) \in 0 .. MaxReplicas /\ Goal(r) = Target(r)
        BY <1>1, <3>1, TargetBound DEF Goal
      <3>3. /\ q.missing = (0 .. Target(r) - 1) \ ReplicasOf(s)
            /\ \A c \in ContainersOf(s) :
                 (\E v \in q.victims : v.id = c) <=> containers[c].replica >= Target(r)
        BY <1>1, <1>3, <1>6, <2>2, <3>2, PlanOfAgreed DEF plan
      <3>4. \A c \in ContainersOf(s) : containers[c].replica \in Nat
        BY <1>1, MaxReplicasAssumption
        DEF TypeOK, EngineTypeOK, ContainersOf, Existing, Container, Replicas
      <3>0. PICK C : C = {c \in ContainersOf(s) : \A v \in q.victims : v.id # c}
        OBVIOUS
      <3>5. C = {c \in ContainersOf(s) : containers[c].replica < Target(r)}
        BY <3>0, <3>2, <3>3, <3>4, MaxReplicasAssumption
      <3>6. {containers[c].replica : c \in C} = (0 .. Target(r) - 1) \ q.missing
        BY <3>2, <3>3, <3>4, <3>5, MaxReplicasAssumption DEF ReplicasOf
      <3>7. \A c \in C : Wanted(r, c) /\ containers[c].state = "running"
        BY <1>3, <3>1, <3>5 DEF Wanted, AsStored, DeploymentOf, Net
      <3>8. C # {} => Net(r) \in attached
        <4> SUFFICES ASSUME NEW c \in C
                     PROVE  Net(r) \in attached
          OBVIOUS
        <4>1. containers[c].replica \in 0 .. rows[s].replicas - 1
          BY <1>3, <3>5 DEF AsStored, ReplicasOf
        <4>2. rows[s].replicas \in Nat
          BY <1>1, <1>3, MaxReplicasAssumption DEF TypeOK, StoreTypeOK, Stored, Row
        <4>3. Net(r) = rows[s].network
          BY <1>3, <3>1 DEF Net, DeploymentOf
        <4> QED
          BY <1>3, <4>1, <4>2, <4>3 DEF AsStored
      <3>9. q.missing \subseteq 0 .. Goal(r) - 1
        BY <3>2, <3>3
      <3>10. Spared(r)' = C
        BY <1>9, <3>0
      <3>11. \A c \in C : Wanted(r, c)'
        BY <1>4, <1>7, <3>7 DEF Wanted
      <3>12. Built(r, C)'
        BY <1>4, <1>7, <3>2, <3>6, <3>7, <3>8, <3>9, <3>11 DEF Built
      <3>13. Built(r, Spared(r))'
        BY <3>10, <3>12
      <3> QED
        BY <1>7, <2>2, <3>13 DEF Reaping
    <2> QED
      BY <2>1, <2>2
  <1>11. Stage(r)'
    BY <1>1, <1>2, <1>6, <1>7, <1>8, <1>10
    DEF Stage, Keeps, Building, Writing, CleaningUp, Delivering
  <1> QED
    BY <1>4, <1>7, <1>11 DEF Proceeds

\* The state of a container may change short of "restarting", its label and name may not.
LEMMA WorldSetsState ==
    ASSUME TypeOK, World, NEW c, NEW state, state # "restarting", SetState(c, state),
           UNCHANGED <<networks, attached, rows>>
    PROVE  World' /\ Existing' = Existing
  <1>1. Existing' = Existing
    BY DEF SetState, Existing
  <1>2. \A d \in Existing :
          /\ containers'[d].service = containers[d].service
          /\ containers'[d].replica = containers[d].replica
          /\ containers'[d].state # "restarting"
    BY DEF SetState, Existing, TypeOK, EngineTypeOK, Container, World
  <1> QED
    BY <1>1, <1>2 DEF World

LEMMA WorldStops ==
    ASSUME TypeOK, World, NEW c, ContainerStop(c), UNCHANGED rows
    PROVE  /\ World' /\ Existing' = Existing /\ UNCHANGED <<networks, attached>>
           /\ \A d \in Existing : /\ containers'[d].service = containers[d].service
                                  /\ d # c => containers'[d] = containers[d]
  <1>1. CASE SetState(c, "exited")
    <2>1. World' /\ Existing' = Existing
      BY <1>1, WorldSetsState DEF ContainerStop
    <2>2. \A d \in Existing : /\ containers'[d].service = containers[d].service
                              /\ d # c => containers'[d] = containers[d]
      BY <1>1 DEF SetState, Existing, TypeOK, EngineTypeOK, Container
    <2> QED
      BY <2>1, <2>2 DEF ContainerStop
  <1>2. CASE UNCHANGED containers
    BY <1>2, WorldStands DEF ContainerStop, engineVars, Existing
  <1> QED
    BY <1>1, <1>2 DEF ContainerStop

LEMMA WorldRemoves ==
    ASSUME World, NEW c, ContainerRemove(c), UNCHANGED rows
    PROVE  /\ World' /\ Existing' = Existing \ {c} /\ UNCHANGED <<networks, attached>>
           /\ \A d \in Existing \ {c} : containers'[d] = containers[d]
  <1>1. /\ Existing' = Existing \ {c} /\ UNCHANGED <<networks, attached>>
        /\ \A d \in Existing \ {c} : containers'[d] = containers[d]
    BY DEF ContainerRemove, Existing
  <1> QED
    BY <1>1 DEF World

\* A handler that goes on removing, or begins to.
LEMMA ReapProceeds ==
    ASSUME Inv, SerialInv, NEW r \in Requests, pc[r] \in {"reap", "remove"},
           NEW label \in {"reap", "remove"}, NEW q, Goto(r, label, q), Keeps(r, q),
           q.cancelled = req[r].cancelled, q.missing = req[r].missing,
           World', UNCHANGED <<attached, rows>>,
           NEW C, C = Spared(r), Spared(r)' = C,
           \A c \in C : containers'[c] = containers[c]
    PROVE  Proceeds(r)
  <1>1. TypeOK /\ Stage(r)
    BY DEF Inv, SerialInv
  <1>2. /\ pc'[r] = label /\ req'[r] = q /\ Service(r)' = Service(r)
        /\ RemovesAll(r)' = RemovesAll(r)
    BY <1>1, SamePlan
  <1>3. Tied(r)'
    BY <1>1, <1>2 DEF Stage, Working, Tied, Keeps, Stored
  <1>4. Reaping(r)'
    <2>1. CASE RemovesAll(r)
      BY <1>1, <1>2, <2>1 DEF Stage, Reaping
    <2>2. CASE ~RemovesAll(r)
      <3>1. Built(r, C)
        BY <1>1, <2>2 DEF Stage, Reaping
      <3>2. Built(r, C)'
        BY <1>1, <3>1, BuiltStands
      <3>3. Built(r, Spared(r))'
        BY <3>2
      <3> QED
        BY <1>2, <2>2, <3>3 DEF Reaping
    <2> QED
      BY <2>1, <2>2
  <1>5. Stage(r)'
    BY <1>1, <1>2, <1>3, <1>4
    DEF Stage, Keeps, Building, Writing, CleaningUp, Delivering
  <1> QED
    BY <1>2, <1>5 DEF Proceeds

LEMMA StopVictimProceeds ==
    ASSUME OneByOne, Inv, Serving, SerialInv, NEW r \in Requests, StopVictim(r)
    PROVE  Proceeds(r)
  <1>1. /\ TypeOK /\ World /\ Stage(r) /\ req[r] \in Request
        /\ pc[r] = "reap" /\ UNCHANGED rows /\ ~req[r].cancelled
    BY StageFacts DEF StopVictim
  <1>2. PICK v \in req[r].victims :
          ContainerStop(v.id) /\ Goto(r, "remove", [req[r] EXCEPT !.cur = v.id])
    BY <1>1, NothingFails DEF StopVictim, NextVictims
  <1>3. PICK q : q = [req[r] EXCEPT !.cur = v.id] /\ Goto(r, "remove", q)
    BY <1>2
  <1>4. /\ Keeps(r, q) /\ q.cancelled = req[r].cancelled /\ q.missing = req[r].missing
        /\ q.victims = req[r].victims
    BY <1>1, <1>3 DEF Request, Keeps
  <1>5. /\ World' /\ Existing' = Existing /\ UNCHANGED <<networks, attached>>
        /\ \A d \in Existing : /\ containers'[d].service = containers[d].service
                               /\ d # v.id => containers'[d] = containers[d]
    BY <1>1, <1>2, WorldStops
  <1>6. PICK C : C = Spared(r)
    OBVIOUS
  <1>7. req'[r] = q /\ Service(r)' = Service(r)
    BY <1>1, <1>3, <1>4, SamePlan
  <1>8. Spared(r)' = C
    BY <1>4, <1>5, <1>6, <1>7 DEF Spared, ContainersOf
  <1>9. \A c \in C : containers'[c] = containers[c]
    BY <1>2, <1>5, <1>6 DEF Spared, ContainersOf
  <1> QED
    BY <1>1, <1>3, <1>4, <1>5, <1>6, <1>8, <1>9, ReapProceeds

LEMMA RemoveVictimProceeds ==
    ASSUME OneByOne, Inv, Serving, SerialInv, NEW r \in Requests, RemoveVictim(r)
    PROVE  Proceeds(r)
  <1>1. /\ TypeOK /\ World /\ Stage(r) /\ req[r] \in Request
        /\ pc[r] \in {"reap", "remove"} /\ UNCHANGED rows /\ ~req[r].cancelled
    BY StageFacts DEF RemoveVictim
  <1>2. PICK v \in req[r].victims : ContainerRemove(v.id) /\ Goto(r, "reap", Gone(r, v))
    BY <1>1, NothingFails DEF RemoveVictim
  <1>3. PICK q : q = Gone(r, v) /\ Goto(r, "reap", q)
    BY <1>2
  <1>4. /\ Keeps(r, q) /\ q.cancelled = req[r].cancelled /\ q.missing = req[r].missing
        /\ q.victims = req[r].victims \ {v}
    BY <1>1, <1>3 DEF Request, Keeps, Gone
  <1>5. /\ World' /\ Existing' = Existing \ {v.id} /\ UNCHANGED <<networks, attached>>
        /\ \A d \in Existing \ {v.id} : containers'[d] = containers[d]
    BY <1>1, <1>2, WorldRemoves
  <1>6. PICK C : C = Spared(r)
    OBVIOUS
  <1>7. req'[r] = q /\ Service(r)' = Service(r)
    BY <1>1, <1>3, <1>4, SamePlan
  <1>8. Spared(r)' = C
    BY <1>2, <1>4, <1>5, <1>6, <1>7 DEF Spared, ContainersOf
  <1>9. \A c \in C : containers'[c] = containers[c]
    BY <1>2, <1>5, <1>6 DEF Spared, ContainersOf
  <1> QED
    BY <1>1, <1>3, <1>4, <1>5, <1>6, <1>8, <1>9, ReapProceeds

LEMMA ReapedProceeds ==
    ASSUME OneByOne, Inv, Serving, SerialInv, NEW r \in Requests, Reaped(r)
    PROVE  Proceeds(r)
  <1>1. /\ TypeOK /\ World /\ Stage(r) /\ Knows(pc[r], req[r]) /\ ~req[r].cancelled
        /\ pc[r] = "reap" /\ req[r].victims = {} /\ UNCHANGED <<engineVars, rows>>
    BY StageFacts DEF Reaped
  <1>2. PICK s : s = Service(r)
    OBVIOUS
  <1>3. /\ World' /\ Stored(s)' = Stored(s) /\ ContainersOf(s)' = ContainersOf(s)
        /\ \A n \in attached : n \in Uses(s) \/ n \in attached'
        /\ UNCHANGED <<containers, networks, attached, rows>>
    BY <1>1, NothingChanges DEF engineVars
  <1>4. Spared(r) = ContainersOf(s)
    BY <1>1, <1>2 DEF Spared
  <1>5. PICK label \in {"pull", "deleterow", "create"} :
          /\ Goto(r, label, req[r])
          /\ label \in {"pull", "deleterow"} => RemovesAll(r)
          /\ label = "pull" => req[r].job = "update"
          /\ label = "create" => ~RemovesAll(r)
    <2>1. req[r].job \in {"update", "delete", "scale", "wake"}
      BY <1>1 DEF Knows, Stage
    <2> QED
      BY <1>1, <2>1 DEF Reaped, RemovesAll
  <1>6. Keeps(r, req[r])
    BY DEF Keeps
  <1>7. pc'[r] = label /\ req'[r] = req[r] /\ Service(r)' = s
    BY <1>1, <1>2, <1>5, <1>6, SamePlan
  <1>8. Tied(r)'
    BY <1>1, <1>2, <1>3, <1>7 DEF Stage, Working, Tied, Stored
  <1>9. CASE label \in {"pull", "deleterow"}
    <2>1. ContainersOf(s) = {}
      BY <1>1, <1>4, <1>5, <1>9 DEF Stage, Reaping
    <2>2. Stage(r)'
      BY <1>1, <1>2, <1>3, <1>5, <1>7, <1>8, <1>9, <2>1
      DEF Stage, Building, Writing, CleaningUp, Delivering
    <2> QED
      BY <1>3, <1>7, <1>9, <2>2 DEF Proceeds
  <1>10. CASE label = "create"
    <2>1. PICK C : C = ContainersOf(s)
      OBVIOUS
    <2>2. Built(r, C)
      BY <1>1, <1>4, <1>5, <1>10, <2>1 DEF Stage, Reaping
    <2>3. Built(r, C)'
      BY <1>1, <1>3, <1>5, <1>6, <2>2, BuiltStands
    <2>4. Built(r, ContainersOf(Service(r)))'
      BY <1>3, <1>7, <2>1, <2>3
    <2>5. Stage(r)'
      BY <1>1, <1>2, <1>3, <1>7, <1>8, <1>10, <2>4
      DEF Stage, Building, Writing, CleaningUp, Delivering
    <2> QED
      BY <1>3, <1>7, <1>10, <2>5 DEF Proceeds
  <1> QED
    BY <1>5, <1>9, <1>10

--------------------------------------------------------------------------------
(* Creating containers *)

LEMMA PullImageProceeds ==
    ASSUME OneByOne, Inv, Serving, SerialInv, NEW r \in Requests, PullImage(r)
    PROVE  Proceeds(r)
  <1>1. /\ TypeOK /\ World /\ Stage(r) /\ req[r] \in Request /\ ~req[r].cancelled
        /\ pc[r] = "pull" /\ UNCHANGED <<engineVars, rows>>
    BY StageFacts DEF PullImage
  <1>2. PICK s : s = Service(r)
    OBVIOUS
  <1>3. /\ World' /\ Stored(s)' = Stored(s) /\ ContainersOf(s)' = ContainersOf(s)
        /\ \A n \in attached : n \in Uses(s) \/ n \in attached'
    BY <1>1, NothingChanges
  <1>4. PICK q : /\ q = [req[r] EXCEPT !.missing = 0 .. DeployReplicas(r) - 1]
                 /\ Goto(r, "create", q)
    BY <1>1, NothingFails DEF PullImage
  <1>5. /\ Keeps(r, q) /\ q.cancelled = req[r].cancelled
        /\ q.missing = 0 .. DeployReplicas(r) - 1
    BY <1>1, <1>4 DEF Request, Keeps
  <1>6. pc'[r] = "create" /\ req'[r] = q /\ Service(r)' = s /\ Goal(r)' = Goal(r)
    BY <1>1, <1>2, <1>4, <1>5, SamePlan
  <1>7. Goal(r) = DeployReplicas(r) /\ ContainersOf(s) = {}
    BY <1>1, <1>2 DEF Stage, Goal
  <1>8. Built(r, {})'
    BY <1>5, <1>6, <1>7 DEF Built
  <1>9. Built(r, ContainersOf(Service(r)))'
    BY <1>3, <1>6, <1>7, <1>8
  <1>10. UNCHANGED rows
    BY <1>1
  <1>11. Tied(r)'
    BY <1>1, <1>2, <1>3, <1>5, <1>6, <1>10 DEF Stage, Working, Tied, Stored, Keeps
  <1>12. Stage(r)'
    BY <1>1, <1>2, <1>5, <1>6, <1>9, <1>11
    DEF Stage, Keeps, Building, Writing, CleaningUp, Delivering
  <1> QED
    BY <1>2, <1>3, <1>6, <1>12 DEF Proceeds

\* A handler that is creating a replica goes on to the next call of createContainer.
LEMMA BuildingGoesOn ==
    ASSUME Inv, SerialInv, NEW r \in Requests, pc[r] \in Building,
           NEW label \in {"netcreate", "connect", "inspect", "ccreate"},
           Goto(r, label, req[r]), World', UNCHANGED <<containers, rows>>,
           attached \subseteq attached',
           label = "netcreate" => Net(r) \notin DOMAIN networks',
           label = "connect" => Net(r) \in DOMAIN networks',
           label \in {"inspect", "ccreate"} => Net(r) \in attached'
    PROVE  Proceeds(r)
  <1>1. TypeOK /\ Stage(r) /\ Keeps(r, req[r])
    BY DEF Inv, SerialInv, Keeps
  <1>2. /\ pc'[r] = label /\ req'[r] = req[r] /\ Service(r)' = Service(r) /\ Net(r)' = Net(r)
    BY <1>1, SamePlan
  <1>3. PICK C : C = ContainersOf(Service(r))
    OBVIOUS
  <1>4. ContainersOf(Service(r))' = C
    BY <1>2, <1>3 DEF ContainersOf, Existing
  <1>5. Built(r, C)
    BY <1>1, <1>3 DEF Stage
  <1>6. Built(r, C)'
    BY <1>1, <1>5, BuiltStands
  <1>7. Built(r, ContainersOf(Service(r)))'
    BY <1>4, <1>6
  <1>8. Tied(r)'
    BY <1>1, <1>2 DEF Stage, Building, Working, Tied, Stored
  <1>9. Stage(r)'
    BY <1>1, <1>2, <1>7, <1>8
    DEF Stage, Building, Writing, CleaningUp, Delivering
  <1> QED
    BY <1>2, <1>9 DEF Proceeds

LEMMA ListNetworksProceeds ==
    ASSUME OneByOne, Inv, Serving, SerialInv, NEW r \in Requests, ListNetworks(r)
    PROVE  Proceeds(r)
  <1>1. /\ World /\ ~req[r].cancelled /\ pc[r] \in Building /\ UNCHANGED <<engineVars, rows>>
    BY StageFacts DEF ListNetworks, Building
  <1>2. PICK label \in {"connect", "netcreate"} :
          /\ Goto(r, label, req[r])
          /\ IF label = "connect" THEN Net(r) \in DOMAIN networks
             ELSE Net(r) \notin DOMAIN networks
    BY <1>1, NothingFails DEF ListNetworks
  <1>3. World' /\ UNCHANGED <<containers, networks, attached, rows>>
    BY <1>1, WorldStands DEF engineVars
  <1> QED
    BY <1>1, <1>2, <1>3, BuildingGoesOn

LEMMA CreateNetworkProceeds ==
    ASSUME OneByOne, Inv, Serving, SerialInv, NEW r \in Requests, CreateNetwork(r)
    PROVE  Proceeds(r)
  <1>1. /\ World /\ Stage(r) /\ ~req[r].cancelled /\ pc[r] = "netcreate" /\ UNCHANGED rows
    BY StageFacts DEF CreateNetwork
  <1>2. Net(r) \notin DOMAIN networks /\ Net(r) \in Uses(Service(r))
    BY <1>1, DeploymentIsOwn, NetIsOwn DEF Stage, CreatingLabels
  <1>3. NetworkCreate(Net(r), Service(r)) /\ Goto(r, "connect", req[r])
    BY <1>1, <1>2, NothingFails DEF CreateNetwork
  <1>4. /\ DOMAIN networks' = DOMAIN networks \cup {Net(r)} /\ UNCHANGED <<containers, attached>>
        /\ \A n \in DOMAIN networks' :
              networks'[n] = IF n = Net(r) THEN Service(r) ELSE networks[n]
    BY <1>3 DEF NetworkCreate
  <1>5. World'
    BY <1>1, <1>2, <1>4 DEF World, Existing
  <1> QED
    BY <1>1, <1>3, <1>4, <1>5, BuildingGoesOn DEF Building

LEMMA ConnectGatewayProceeds ==
    ASSUME OneByOne, Inv, Serving, SerialInv, NEW r \in Requests, ConnectGateway(r)
    PROVE  Proceeds(r)
  <1>1. /\ World /\ Stage(r) /\ ~req[r].cancelled /\ pc[r] = "connect" /\ UNCHANGED rows
    BY StageFacts DEF ConnectGateway
  <1>2. Net(r) \in DOMAIN networks
    BY <1>1 DEF Stage
  <1>3. NetworkConnect(Net(r)) /\ Goto(r, "inspect", req[r])
    BY <1>1, <1>2, NothingFails DEF ConnectGateway
  <1>4. attached' = attached \cup {Net(r)} /\ UNCHANGED <<containers, networks>>
    BY <1>3 DEF NetworkConnect
  <1>5. World'
    BY <1>1, <1>4 DEF World, Existing
  <1> QED
    BY <1>1, <1>3, <1>4, <1>5, BuildingGoesOn DEF Building

\* The replica a handler creates next does not exist.
LEMMA NextReplicaIsFree ==
    ASSUME OneByOne, Inv, NEW r \in Requests,
           Built(r, ContainersOf(Service(r))), req[r].missing # {}
    PROVE  Named(Service(r), NextReplica(r)) = {} /\ NextReplica(r) \in req[r].missing
  <1>1. NextReplica(r) \in req[r].missing
    BY NextReplicaIsMissing
  <1>2. \A c \in ContainersOf(Service(r)) : containers[c].replica # NextReplica(r)
    BY <1>1 DEF Built
  <1> QED
    BY <1>1, <1>2, OwnersByLabel DEF OneByOne

LEMMA InspectNameProceeds ==
    ASSUME OneByOne, Inv, Serving, SerialInv, NEW r \in Requests, InspectName(r)
    PROVE  Proceeds(r)
  <1>1. /\ World /\ Stage(r) /\ ~req[r].cancelled /\ pc[r] = "inspect"
        /\ Knows(pc[r], req[r]) /\ UNCHANGED <<engineVars, rows>>
    BY StageFacts DEF InspectName
  <1>2. Named(Service(r), NextReplica(r)) = {}
    BY <1>1, NextReplicaIsFree DEF Stage, Knows, Building
  <1>3. Goto(r, "ccreate", req[r])
    BY <1>1, <1>2, NothingFails DEF InspectName
  <1>4. World' /\ UNCHANGED <<containers, networks, attached, rows>> /\ Net(r) \in attached
    BY <1>1, WorldStands DEF engineVars, Stage
  <1> QED
    BY <1>1, <1>3, <1>4, BuildingGoesOn DEF Building

LEMMA CreatedProceeds ==
    ASSUME OneByOne, Inv, Serving, SerialInv, NEW r \in Requests, Created(r)
    PROVE  Proceeds(r)
  <1>1. /\ TypeOK /\ World /\ Stage(r) /\ Knows(pc[r], req[r]) /\ ~req[r].cancelled
        /\ pc[r] = "create" /\ req[r].missing = {} /\ UNCHANGED <<engineVars, rows>>
        /\ Keeps(r, req[r])
    BY StageFacts DEF Created, Keeps
  <1>2. PICK label \in Writing : Goto(r, label, req[r])
    BY DEF Created, Writing
  <1>3. /\ pc'[r] = label /\ req'[r] = req[r] /\ Service(r)' = Service(r)
    BY <1>1, <1>2, SamePlan
  <1>4. World' /\ UNCHANGED <<containers, networks, attached, rows>>
    BY <1>1, WorldStands DEF engineVars
  <1>5. PICK C : C = ContainersOf(Service(r))
    OBVIOUS
  <1>6. ContainersOf(Service(r))' = C
    BY <1>3, <1>4, <1>5 DEF ContainersOf, Existing
  <1>7. Built(r, C)
    BY <1>1, <1>5 DEF Stage, Building
  <1>8. Built(r, C)'
    BY <1>1, <1>2, <1>4, <1>7, BuiltStands
  <1>9. Built(r, ContainersOf(Service(r)))'
    BY <1>6, <1>8
  <1>10. Tied(r)'
    BY <1>1, <1>3, <1>4 DEF Stage, Working, Tied, Stored
  <1>11. Stage(r)'
    BY <1>1, <1>3, <1>9, <1>10
    DEF Stage, Building, Writing, CleaningUp, Delivering
  <1> QED
    BY <1>2, <1>3, <1>4, <1>11 DEF Proceeds, Writing

LEMMA CreateContainerProceeds ==
    ASSUME OneByOne, Inv, Serving, SerialInv, NEW r \in Requests, CreateContainer(r)
    PROVE  Proceeds(r)
  <1>1. /\ TypeOK /\ World /\ Stage(r) /\ ~req[r].cancelled /\ pc[r] = "ccreate"
        /\ Knows(pc[r], req[r]) /\ UNCHANGED rows /\ Keeps(r, req[r])
    BY StageFacts DEF CreateContainer, Keeps
  <1>2. PICK s, i, c, C : /\ s = Service(r) /\ i = NextReplica(r) /\ c = NewContainer(r)
                          /\ C = ContainersOf(s)
    OBVIOUS
  <1>3. Built(r, C) /\ Named(s, i) = {} /\ i \in req[r].missing
    BY <1>1, <1>2, NextReplicaIsFree DEF Stage, Knows, Building
  <1>4. ContainerCreate(c, DeploymentOf(r), i) /\ Goto(r, "cstart", req[r])
    BY <1>1, <1>2, <1>3, NothingFails DEF CreateContainer
  <1>5. /\ DeploymentOf(r).service = s /\ i \in Replicas
        /\ DeploymentOf(r).labels = OwnLabels(s)
    BY <1>1, <1>2, <1>3, NextReplicaIsMissing, DeploymentIsOwn DEF OneByOne, CreatingLabels
  <1>6. /\ Existing' = Existing \cup {c} /\ UNCHANGED <<networks, attached>>
        /\ \A d \in Existing : d # c => containers'[d] = containers[d]
        /\ containers'[c] = [name |-> <<s, i>>, service |-> s, replica |-> i,
                             image |-> DeploymentOf(r).image,
                             limited |-> DeploymentOf(r).limited, network |-> Net(r),
                             state |-> "created"]
    BY <1>4, <1>5 DEF ContainerCreate, Existing, Net, Made, OwnLabels
  <1>7. \A d \in Existing : containers[d].service = s => containers[d].replica # i
    BY <1>3, OwnersByLabel DEF OneByOne, ContainersOf
  <1>8. World'
    <2>1. c[2] = i
      BY <1>2 DEF NewContainer
    <2> QED
      BY <1>1, <1>6, <1>7, <2>1 DEF World
  <1>9. c \notin C
    <2>1. c[2] = i
      BY <1>2 DEF NewContainer
    <2>2. \A d \in C : containers[d].replica = d[2] /\ containers[d].service = s
      BY <1>1, <1>2 DEF World, ContainersOf
    <2>3. \A d \in C : d \in Existing
      BY <1>2 DEF ContainersOf
    <2> QED
      BY <1>7, <2>1, <2>2, <2>3
  <1>10. /\ pc'[r] = "cstart" /\ req'[r] = req[r] /\ Service(r)' = s
         /\ DeploymentOf(r)' = DeploymentOf(r) /\ Net(r)' = Net(r)
    BY <1>1, <1>2, <1>4, SamePlan
  <1>11. NextReplica(r)' = i /\ NewContainer(r)' = c
    BY <1>2, <1>10 DEF NextReplica, NewContainer
  <1>12. ContainersOf(s)' = C \cup {c}
    BY <1>2, <1>6, <1>9 DEF ContainersOf
  <1>13. \A d \in C : containers'[d] = containers[d]
    BY <1>2, <1>6, <1>9 DEF ContainersOf
  <1>14. Built(r, C)'
    BY <1>1, <1>3, <1>4, <1>6, <1>13, BuiltStands
  <1>15. Built(r, ContainersOf(Service(r)) \ {NewContainer(r)})'
    <2>1. ContainersOf(s)' \ {c} = C
      BY <1>9, <1>12
    <2> QED
      BY <1>10, <1>11, <1>14, <2>1
  <1>16. Starting(r)'
    BY <1>6, <1>10, <1>11, <1>12, <1>15 DEF Starting, Wanted
  <1>17. Tied(r)'
    BY <1>1, <1>2, <1>10 DEF Stage, Working, Tied, Stored
  <1>18. Stage(r)'
    BY <1>1, <1>2, <1>6, <1>10, <1>16, <1>17
    DEF Stage, Building, Writing, CleaningUp, Delivering
  <1> QED
    BY <1>6, <1>8, <1>10, <1>18 DEF Proceeds

LEMMA StartContainerProceeds ==
    ASSUME OneByOne, Inv, Serving, SerialInv, NEW r \in Requests, StartContainer(r)
    PROVE  Proceeds(r)
  <1>1. /\ TypeOK /\ World /\ Stage(r) /\ req[r] \in Request /\ ~req[r].cancelled
        /\ pc[r] = "cstart" /\ Knows(pc[r], req[r]) /\ UNCHANGED rows
    BY StageFacts DEF StartContainer
  <1>2. PICK s, i, c, C : /\ s = Service(r) /\ i = NextReplica(r) /\ c = NewContainer(r)
                          /\ C = ContainersOf(s)
    OBVIOUS
  <1>3. /\ c \in C /\ containers[c].replica = i /\ Wanted(r, c) /\ Built(r, C \ {c})
        /\ Net(r) \in attached
    BY <1>1, <1>2 DEF Stage, Starting
  <1>4. i \in req[r].missing
    BY <1>1, <1>2, NextReplicaIsMissing DEF Knows
  <1>5. Startable(c) /\ c \in Existing /\ containers[c] \in Container
    BY <1>1, <1>2, <1>3 DEF Startable, Wanted, ContainersOf, Existing, TypeOK, EngineTypeOK
  <1>6. PICK q : /\ q = [req[r] EXCEPT !.missing = @ \ {i}] /\ Goto(r, "create", q)
                 /\ ContainerStart(c)
    BY <1>1, <1>2, <1>5, NothingFails DEF StartContainer
  <1>7. Keeps(r, q) /\ q.cancelled = req[r].cancelled /\ q.missing = req[r].missing \ {i}
    BY <1>1, <1>6 DEF Request, Keeps
  <1>8. /\ pc'[r] = "create" /\ req'[r] = q /\ Service(r)' = s
        /\ DeploymentOf(r)' = DeploymentOf(r) /\ Net(r)' = Net(r) /\ Goal(r)' = Goal(r)
    BY <1>1, <1>2, <1>6, <1>7, SamePlan
  <1>9. World' /\ Existing' = Existing /\ UNCHANGED <<networks, attached>>
    BY <1>1, <1>6, WorldSetsState DEF ContainerStart
  <1>10. /\ \A d \in Existing : d # c => containers'[d] = containers[d]
         /\ containers'[c].service = containers[c].service
         /\ containers'[c].replica = containers[c].replica
         /\ containers'[c].image = containers[c].image
         /\ containers'[c].network = containers[c].network
         /\ containers'[c].state = "running"
    BY <1>5, <1>6 DEF ContainerStart, SetState, Existing, Container
  <1>11. ContainersOf(s)' = C
    BY <1>2, <1>9, <1>10 DEF ContainersOf
  <1>12. \A d \in C : d # c => containers'[d] = containers[d]
    BY <1>2, <1>10 DEF ContainersOf
  <1>13. Built(r, C)'
    <2>1. q.missing \subseteq 0 .. Goal(r) - 1 /\ i \in 0 .. Goal(r) - 1
      BY <1>3, <1>4, <1>7 DEF Built
    <2>2. {containers'[d].replica : d \in C}
             = {containers[d].replica : d \in C \ {c}} \cup {i}
      BY <1>3, <1>10, <1>12
    <2>3. {containers'[d].replica : d \in C} = (0 .. Goal(r) - 1) \ q.missing
      BY <1>3, <1>4, <1>7, <2>1, <2>2 DEF Built
    <2>4. \A d \in C : Wanted(r, d)' /\ containers'[d].state = "running"
      BY <1>3, <1>8, <1>10, <1>12 DEF Built, Wanted
    <2> QED
      BY <1>3, <1>8, <1>9, <2>1, <2>3, <2>4 DEF Built
  <1>14. Built(r, ContainersOf(Service(r)))'
    BY <1>8, <1>11, <1>13
  <1>15. Tied(r)'
    BY <1>1, <1>2, <1>7, <1>8 DEF Stage, Working, Tied, Stored, Keeps
  <1>16. Stage(r)'
    BY <1>1, <1>2, <1>7, <1>8, <1>14, <1>15
    DEF Stage, Keeps, Building, Writing, CleaningUp, Delivering
  <1> QED
    BY <1>2, <1>8, <1>9, <1>16 DEF Proceeds

--------------------------------------------------------------------------------
(* Writing the row *)

\* What is built for the whole of a row is what the row says.
LEMMA BuiltAsStored ==
    ASSUME NEW s, NEW C, NEW image, NEW net, NEW n \in Nat,
           ContainersOf(s)' = C, UNCHANGED <<containers, attached>>,
           {containers[c].replica : c \in C} = 0 .. n - 1,
           \A c \in C : /\ containers[c].image = image /\ containers[c].network = net
                        /\ containers[c].state = "running",
           C # {} => net \in attached,
           Stored(s)', rows'[s].image = image, rows'[s].network = net, rows'[s].replicas = n
    PROVE  AsStored(s)' /\ Agreed(s)' /\ (n > 0 => C # {})
  <1>1. ReplicasOf(s)' = 0 .. rows'[s].replicas - 1
    BY DEF ReplicasOf
  <1>2. n > 0 => C # {}
    <2> HAVE n > 0
    <2>1. 0 \in 0 .. n - 1
      OBVIOUS
    <2> QED
      BY <2>1
  <1>3. AsStored(s)'
    BY <1>1, <1>2 DEF AsStored
  <1> QED
    BY <1>2, <1>3 DEF Agreed

\* A statement on the row of one function that keeps it on its networks.
LEMMA WorldWrites ==
    ASSUME World, UNCHANGED engineVars, NEW s, NEW net \in Uses(s),
           \A t \in DOMAIN rows' : IF t = s THEN rows'[t].network = net
                                   ELSE t \in DOMAIN rows /\ rows'[t] = rows[t]
    PROVE  World'
  BY DEF World, Existing, engineVars

LEMMA WritingFacts ==
    ASSUME OneByOne, Inv, Serving, SerialInv, NEW r \in Requests, pc[r] \in Writing
    PROVE  /\ TypeOK /\ World /\ Stage(r) /\ req[r] \in Request /\ ~req[r].cancelled
           /\ Knows(pc[r], req[r]) /\ Net(r) \in Uses(Service(r))
           /\ req[r].job \in {"deploy", "update"} => Net(r) = NetworkFor(r)
           /\ Tied(r) /\ Built(r, ContainersOf(Service(r))) /\ req[r].missing = {}
  <1>1. /\ TypeOK /\ World /\ Stage(r) /\ req[r] \in Request /\ ~req[r].cancelled
        /\ Knows(pc[r], req[r])
    BY StageFacts
  <1>2. Knows("create", req[r])
    BY <1>1 DEF Knows, Writing
  <1>3. Tied(r) /\ Built(r, ContainersOf(Service(r))) /\ req[r].missing = {}
    BY <1>1 DEF Stage, Writing, Working
  <1> QED
    BY <1>1, <1>2, <1>3, NetIsOwn

LEMMA InsertRowProceeds ==
    ASSUME OneByOne, Inv, Serving, SerialInv, NEW r \in Requests, InsertRow(r)
    PROVE  Proceeds(r)
  <1>1. /\ World /\ Knows(pc[r], req[r]) /\ Tied(r) /\ Built(r, ContainersOf(Service(r)))
        /\ req[r].missing = {} /\ Net(r) \in Uses(Service(r))
        /\ req[r].job \in {"deploy", "update"} => Net(r) = NetworkFor(r)
        /\ pc[r] = "insert" /\ UNCHANGED engineVars
    BY WritingFacts DEF InsertRow, Writing
  <1>2. PICK s, C : s = Service(r) /\ C = ContainersOf(s)
    OBVIOUS
  <1>3. req[r].job = "deploy" /\ Net(r) = NetworkFor(r)
    BY <1>1 DEF Knows
  <1>4. ~Stored(s)
    BY <1>1, <1>2, <1>3 DEF Tied
  <1>5. PICK row : /\ CreateFunction(s, row) /\ Answer(r, 202)
                   /\ row.image = req[r].call.image /\ row.network = NetworkFor(r)
                   /\ row.replicas = 1
    BY <1>2, <1>4, NothingFails DEF InsertRow
  <1>6. /\ Stored(s)' /\ rows'[s] = row
        /\ \A t \in DOMAIN rows' : t # s => t \in DOMAIN rows /\ rows'[t] = rows[t]
    BY <1>5 DEF CreateFunction, Stored
  <1>7. World'
    BY <1>1, <1>2, <1>3, <1>5, <1>6, WorldWrites
  <1>8. UNCHANGED <<containers, attached>> /\ ContainersOf(s)' = C
    BY <1>1, <1>2 DEF engineVars, ContainersOf, Existing
  <1>9. Goal(r) = 1 /\ DeploymentOf(r).image = row.image
    BY <1>3, <1>5 DEF Goal, DeployReplicas, DeploymentOf
  <1>10. /\ {containers[c].replica : c \in C} = 0 .. 1 - 1
         /\ \A c \in C : /\ containers[c].image = row.image /\ containers[c].network = row.network
                         /\ containers[c].state = "running"
         /\ C # {} => row.network \in attached
    BY <1>1, <1>2, <1>3, <1>5, <1>9 DEF Built, Wanted
  <1>11. Agreed(s)'
    BY <1>5, <1>6, <1>8, <1>10, BuiltAsStored
  <1>12. Ends(r)
    BY <1>3 DEF Ends
  <1> QED
    BY <1>1, <1>2, <1>5, <1>7, <1>8, <1>11, <1>12, AnswerProceeds

LEMMA SaveRowProceeds ==
    ASSUME OneByOne, Inv, Serving, SerialInv, NEW r \in Requests, SaveRow(r)
    PROVE  Proceeds(r)
  <1>1. /\ World /\ Knows(pc[r], req[r]) /\ Tied(r) /\ Built(r, ContainersOf(Service(r)))
        /\ req[r].missing = {} /\ Net(r) \in Uses(Service(r))
        /\ req[r].job \in {"deploy", "update"} => Net(r) = NetworkFor(r)
        /\ pc[r] = "save" /\ UNCHANGED engineVars /\ req[r] \in Request
    BY WritingFacts DEF SaveRow, Writing
  <1>2. PICK s, C, n : s = Service(r) /\ C = ContainersOf(s) /\ n = req[r].row.replicas
    OBVIOUS
  <1>3. req[r].job = "update" /\ req[r].row # NoRow /\ Net(r) = NetworkFor(r)
    BY <1>1 DEF Knows
  <1>4. Stored(s)
    BY <1>1, <1>2, <1>3 DEF Tied
  <1>5. PICK row : /\ UpdateFunction(s, row) /\ Answer(r, 202)
                   /\ row.image = req[r].call.image /\ row.network = NetworkFor(r)
                   /\ row.replicas = n
    BY <1>2, <1>4, NothingFails DEF SaveRow
  <1>6. /\ Stored(s)' /\ rows'[s] = row
        /\ \A t \in DOMAIN rows' : t # s => t \in DOMAIN rows /\ rows'[t] = rows[t]
    BY <1>5 DEF UpdateFunction, Stored
  <1>7. World'
    BY <1>1, <1>2, <1>3, <1>5, <1>6, WorldWrites
  <1>8. UNCHANGED <<containers, attached>> /\ ContainersOf(s)' = C
    BY <1>1, <1>2 DEF engineVars, ContainersOf, Existing
  <1>9. Goal(r) = n /\ DeploymentOf(r).image = row.image /\ n \in Nat
    BY <1>1, <1>2, <1>3, <1>5, MaxReplicasAssumption
    DEF Goal, DeployReplicas, DeploymentOf, Request, Row
  <1>10. /\ {containers[c].replica : c \in C} = 0 .. n - 1
         /\ \A c \in C : /\ containers[c].image = row.image /\ containers[c].network = row.network
                         /\ containers[c].state = "running"
         /\ C # {} => row.network \in attached
    BY <1>1, <1>2, <1>3, <1>5, <1>9 DEF Built, Wanted
  <1>11. Agreed(s)'
    BY <1>5, <1>6, <1>8, <1>9, <1>10, BuiltAsStored
  <1>12. Ends(r)
    BY <1>3 DEF Ends
  <1> QED
    BY <1>1, <1>2, <1>5, <1>7, <1>8, <1>11, <1>12, AnswerProceeds

LEMMA SetReplicasProceeds ==
    ASSUME OneByOne, Inv, Serving, SerialInv, NEW r \in Requests, SetReplicas(r)
    PROVE  Proceeds(r)
  <1>1. /\ TypeOK /\ World /\ Stage(r) /\ Knows(pc[r], req[r]) /\ Tied(r)
        /\ Built(r, ContainersOf(Service(r)))
        /\ req[r].missing = {} /\ Net(r) \in Uses(Service(r)) /\ ~req[r].cancelled
        /\ pc[r] = "setreplicas" /\ UNCHANGED engineVars /\ req[r] \in Request
    BY WritingFacts DEF SetReplicas, Writing
  <1>2. PICK s, C, n : s = Service(r) /\ C = ContainersOf(s) /\ n = Target(r)
    OBVIOUS
  <1>3. req[r].job \in {"scale", "wake"} /\ req[r].row # NoRow /\ req[r].call # NoCall
    BY <1>1 DEF Knows
  <1>4. Stored(s) /\ req[r].row = rows[s] /\ rows[s] \in Row
    BY <1>1, <1>2, <1>3 DEF Tied, Stored, TypeOK, StoreTypeOK
  <1>5. /\ UpdateReplicas(s, n)
        /\ IF req[r].job = "wake" THEN Goto(r, "wait", req[r]) ELSE Answer(r, 202)
    BY <1>2, <1>4, NothingFails DEF SetReplicas
  <1>6. /\ Stored(s)' /\ rows'[s].image = rows[s].image /\ rows'[s].network = rows[s].network
        /\ rows'[s].replicas = n
        /\ \A t \in DOMAIN rows' : t # s => t \in DOMAIN rows /\ rows'[t] = rows[t]
    BY <1>4, <1>5 DEF UpdateReplicas, Stored, Row
  <1>7. Net(r) = rows[s].network /\ DeploymentOf(r).image = rows[s].image /\ Goal(r) = n
    BY <1>2, <1>3, <1>4 DEF Net, DeploymentOf, Goal
  <1>8. World'
    BY <1>1, <1>2, <1>6, <1>7, WorldWrites
  <1>9. UNCHANGED <<containers, attached>> /\ ContainersOf(s)' = C
    BY <1>1, <1>2 DEF engineVars, ContainersOf, Existing
  <1>10. n \in Nat
    BY <1>1, <1>2, <1>3, TargetBound, MaxReplicasAssumption
  <1>11. /\ {containers[c].replica : c \in C} = 0 .. n - 1
         /\ \A c \in C : /\ containers[c].image = rows[s].image
                         /\ containers[c].network = rows[s].network
                         /\ containers[c].state = "running"
         /\ C # {} => rows[s].network \in attached
    BY <1>1, <1>2, <1>7, <1>10 DEF Built, Wanted
  <1>12. AsStored(s)' /\ Agreed(s)' /\ (n > 0 => C # {})
    BY <1>6, <1>9, <1>10, <1>11, BuiltAsStored
  <1>13. CASE req[r].job = "wake"
    <2>1. Keeps(r, req[r]) /\ n = 1
      BY <1>2, <1>13 DEF Keeps, Target
    <2>2. /\ pc'[r] = "wait" /\ req'[r] = req[r] /\ Service(r)' = s
      BY <1>1, <1>2, <1>5, <1>13, <2>1, SamePlan
    <2>3. Stage(r)'
      BY <1>1, <1>2, <1>6, <1>9, <1>12, <2>1, <2>2
      DEF Stage, Working, Building, Writing, CleaningUp, Delivering
    <2> QED
      BY <1>8, <1>9, <2>2, <2>3 DEF Proceeds
  <1>14. CASE req[r].job # "wake"
    <2>1. Ends(r)
      BY <1>3, <1>14 DEF Ends
    <2> QED
      BY <1>1, <1>2, <1>5, <1>8, <1>9, <1>12, <1>14, <2>1, AnswerProceeds
  <1> QED
    BY <1>13, <1>14

LEMMA DeleteRowProceeds ==
    ASSUME OneByOne, Inv, Serving, SerialInv, NEW r \in Requests, DeleteRow(r)
    PROVE  Proceeds(r)
  <1>1. /\ TypeOK /\ World /\ Stage(r) /\ Knows(pc[r], req[r]) /\ ~req[r].cancelled
        /\ pc[r] = "deleterow" /\ UNCHANGED engineVars /\ Keeps(r, req[r])
    BY StageFacts DEF DeleteRow, Keeps
  <1>2. PICK s : s = Service(r)
    OBVIOUS
  <1>3. Stored(s) /\ ContainersOf(s) = {}
    BY <1>1, <1>2 DEF Stage, Working, Tied, Knows
  <1>4. DeleteFunction(s) /\ Goto(r, "netinspect", req[r])
    BY <1>2, <1>3, NothingFails DEF DeleteRow
  <1>5. ~Stored(s)' /\ (\A t \in DOMAIN rows' : t \in DOMAIN rows /\ rows'[t] = rows[t])
    BY <1>4 DEF DeleteFunction, Stored
  <1>6. UNCHANGED <<containers, networks, attached>> /\ ContainersOf(s)' = {}
    BY <1>1, <1>3 DEF engineVars, ContainersOf, Existing
  <1>7. World'
    BY <1>1, <1>5, <1>6 DEF World, Existing
  <1>8. pc'[r] = "netinspect" /\ req'[r] = req[r] /\ Service(r)' = s
    BY <1>1, <1>2, <1>4, SamePlan
  <1>9. Stage(r)'
    BY <1>1, <1>2, <1>5, <1>6, <1>8
    DEF Stage, Working, Building, Writing, CleaningUp, Delivering
  <1> QED
    BY <1>6, <1>7, <1>8, <1>9 DEF Proceeds

--------------------------------------------------------------------------------
(* Cleaning up the network of a deleted function *)

LEMMA CleaningFacts ==
    ASSUME Inv, Serving, SerialInv, NEW r \in Requests, pc[r] \in CleaningUp
    PROVE  /\ TypeOK /\ World /\ Stage(r) /\ Knows(pc[r], req[r]) /\ ~req[r].cancelled
           /\ req[r].job = "delete" /\ OldNet(r) \in Uses(Service(r))
           /\ ~Stored(Service(r)) /\ ContainersOf(Service(r)) = {}
           /\ Service(r) \in Services
  <1>1. /\ TypeOK /\ World /\ Stage(r) /\ Knows(pc[r], req[r]) /\ ~req[r].cancelled
    BY StageFacts
  <1>2. req[r].job = "delete" /\ req[r].row # NoRow
    BY <1>1 DEF Knows, CleaningUp
  <1>3. ~Stored(Service(r)) /\ ContainersOf(Service(r)) = {} /\ OldNet(r) \in Uses(Service(r))
    BY <1>1, <1>2 DEF Stage, OldNet
  <1>4. Service(r) \in Services
    BY RequestFacts DEF CleaningUp
  <1> QED
    BY <1>1, <1>2, <1>3, <1>4

\* It goes on, or answers when there is nothing to clean up any more.
LEMMA CleaningGoesOn ==
    ASSUME Inv, Serving, SerialInv, NEW r \in Requests, pc[r] \in CleaningUp,
           UNCHANGED <<containers, rows>>, World',
           \A n \in attached : n \in Uses(Service(r)) \/ n \in attached',
           \/ /\ Answer(r, 202)
              /\ OldNet(r) \notin DOMAIN networks' \/ Endpoints(OldNet(r)) # {}
           \/ \E label \in CleaningUp :
                 /\ Goto(r, label, req[r])
                 /\ label \in {"netreinspect", "netremove"} => OldNet(r) \notin attached'
    PROVE  Proceeds(r)
  <1>1. /\ TypeOK /\ World /\ Stage(r) /\ Knows(pc[r], req[r]) /\ ~req[r].cancelled
        /\ req[r].job = "delete" /\ ~Stored(Service(r)) /\ ContainersOf(Service(r)) = {}
    BY CleaningFacts
  <1>2. PICK s : s = Service(r)
    OBVIOUS
  <1>3. ~Stored(s)' /\ ContainersOf(s)' = {} /\ Agreed(s)'
    BY <1>1, <1>2 DEF Stored, ContainersOf, Existing, Agreed
  <1>4. CASE /\ Answer(r, 202)
             /\ OldNet(r) \notin DOMAIN networks' \/ Endpoints(OldNet(r)) # {}
    <2>1. Ends(r)
      BY <1>1, <1>4 DEF Ends
    <2> QED
      BY <1>2, <1>3, <1>4, <2>1, AnswerProceeds DEF CleaningUp
  <1>5. ASSUME NEW label \in CleaningUp, Goto(r, label, req[r]),
               label \in {"netreinspect", "netremove"} => OldNet(r) \notin attached'
        PROVE  Proceeds(r)
    <2>1. Keeps(r, req[r])
      BY DEF Keeps
    <2>2. pc'[r] = label /\ req'[r] = req[r] /\ Service(r)' = s /\ OldNet(r)' = OldNet(r)
      BY <1>1, <1>2, <1>5, <2>1, SamePlan
    <2>3. label \notin {"deleterow"} \cup Working \cup Building \cup Writing \cup Delivering
      BY <1>5 DEF CleaningUp, Working, Building, Writing, Delivering
    <2>4. Stage(r)'
      BY <1>1, <1>2, <1>3, <1>5, <2>2, <2>3
      DEF Stage, CleaningUp, Building, Writing, Delivering
    <2> QED
      BY <1>5, <2>2, <2>4 DEF Proceeds, CleaningUp
  <1> QED
    BY <1>4, <1>5

LEMMA InspectNetworkProceeds ==
    ASSUME OneByOne, Inv, Serving, SerialInv, NEW r \in Requests, InspectNetwork(r)
    PROVE  Proceeds(r)
  <1>1. pc[r] = "netinspect" /\ UNCHANGED <<engineVars, rows>> /\ pc[r] \in CleaningUp
    BY DEF InspectNetwork, CleaningUp
  <1>2. /\ TypeOK /\ World /\ ~req[r].cancelled /\ OldNet(r) \in Uses(Service(r))
        /\ Service(r) \in Services
    BY <1>1, CleaningFacts
  <1>3. World' /\ UNCHANGED <<containers, networks, attached>>
    BY <1>1, <1>2, WorldStands DEF engineVars
  <1>4. OldNet(r) \in DOMAIN networks => Managed(OldNet(r), Service(r))
    <2> HAVE OldNet(r) \in DOMAIN networks
    <2>1. OldNet(r) \in Uses(networks[OldNet(r)]) /\ networks[OldNet(r)] \in Services
      BY <1>2 DEF World, TypeOK, EngineTypeOK
    <2>2. networks[OldNet(r)] = Service(r)
      BY <1>2, <2>1 DEF OneByOne
    <2> QED
      BY <2>2 DEF Managed
  <1>5. IF OldNet(r) \in DOMAIN networks THEN Goto(r, "disconnect", req[r]) ELSE Answer(r, 202)
    BY <1>2, <1>4, NothingFails DEF InspectNetwork
  <1> QED
    BY <1>1, <1>3, <1>5, CleaningGoesOn DEF CleaningUp

LEMMA DisconnectGatewayProceeds ==
    ASSUME OneByOne, Inv, Serving, SerialInv, NEW r \in Requests, DisconnectGateway(r)
    PROVE  Proceeds(r)
  <1>1. pc[r] = "disconnect" /\ UNCHANGED rows /\ pc[r] \in CleaningUp
    BY DEF DisconnectGateway, CleaningUp
  <1>2. World /\ ~req[r].cancelled /\ OldNet(r) \in Uses(Service(r))
    BY <1>1, CleaningFacts
  <1>3. NetworkDisconnect(OldNet(r)) /\ Goto(r, "netreinspect", req[r])
    BY <1>2, NothingFails DEF DisconnectGateway
  <1>4. attached' = attached \ {OldNet(r)} /\ UNCHANGED <<containers, networks>>
    BY <1>3 DEF NetworkDisconnect
  <1>5. World'
    BY <1>1, <1>2, <1>4 DEF World, Existing
  <1> QED
    BY <1>1, <1>2, <1>3, <1>4, <1>5, CleaningGoesOn DEF CleaningUp

LEMMA ReinspectNetworkProceeds ==
    ASSUME OneByOne, Inv, Serving, SerialInv, NEW r \in Requests, ReinspectNetwork(r)
    PROVE  Proceeds(r)
  <1>1. /\ pc[r] = "netreinspect" /\ UNCHANGED <<engineVars, rows>> /\ pc[r] \in CleaningUp
    BY DEF ReinspectNetwork, CleaningUp
  <1>2. World /\ Stage(r) /\ ~req[r].cancelled
    BY <1>1, CleaningFacts
  <1>3. World' /\ UNCHANGED <<containers, networks, attached>>
    BY <1>1, <1>2, WorldStands DEF engineVars
  <1>4. OldNet(r) \notin attached
    BY <1>1, <1>2 DEF Stage
  <1>5. \/ Goto(r, "netremove", req[r])
        \/ Answer(r, 202) /\ (OldNet(r) \notin DOMAIN networks \/ InUse(OldNet(r)))
    BY <1>2, NothingFails DEF ReinspectNetwork
  <1> QED
    BY <1>1, <1>3, <1>4, <1>5, CleaningGoesOn DEF CleaningUp, InUse

LEMMA RemoveNetworkProceeds ==
    ASSUME OneByOne, Inv, Serving, SerialInv, NEW r \in Requests, RemoveNetwork(r)
    PROVE  Proceeds(r)
  <1>1. pc[r] = "netremove" /\ UNCHANGED rows /\ Answer(r, 202) /\ pc[r] \in CleaningUp
    BY DEF RemoveNetwork, CleaningUp
  <1>2. World /\ Stage(r) /\ ~req[r].cancelled
    BY <1>1, CleaningFacts
  <1>3. OldNet(r) \notin attached
    BY <1>1, <1>2 DEF Stage
  <1>4. \/ NetworkRemove(OldNet(r))
        \/ /\ OldNet(r) \notin DOMAIN networks \/ InUse(OldNet(r))
           /\ UNCHANGED engineVars
    BY <1>2, NothingFails DEF RemoveNetwork
  <1>5. CASE NetworkRemove(OldNet(r))
    <2>1. /\ UNCHANGED <<containers, attached>> /\ OldNet(r) \notin DOMAIN networks'
          /\ \A n \in DOMAIN networks' : n \in DOMAIN networks /\ networks'[n] = networks[n]
      BY <1>5 DEF NetworkRemove
    <2>2. World'
      BY <1>1, <1>2, <2>1 DEF World, Existing
    <2> QED
      BY <1>1, <2>1, <2>2, CleaningGoesOn
  <1>6. CASE /\ OldNet(r) \notin DOMAIN networks \/ InUse(OldNet(r))
             /\ UNCHANGED engineVars
    <2>1. World' /\ UNCHANGED <<containers, networks, attached>>
      BY <1>1, <1>2, <1>6, WorldStands DEF engineVars
    <2> QED
      BY <1>1, <1>3, <1>6, <2>1, CleaningGoesOn DEF InUse
  <1> QED
    BY <1>4, <1>5, <1>6

--------------------------------------------------------------------------------
(* Invoking *)

LEMMA UpWhenBuilt ==
    ASSUME NEW s, AsStored(s)
    PROVE  Up(s) <=> ContainersOf(s) # {}
  BY DEF Up, Running, AsStored

LEMMA InvokingFacts ==
    ASSUME Inv, Serving, SerialInv, NEW r \in Requests, pc[r] \in {"probe"} \cup Delivering
    PROVE  /\ TypeOK /\ World /\ Stage(r) /\ req[r] \in Request /\ ~req[r].cancelled
           /\ req[r].job \in {"invoke", "wake"} /\ req[r].row # NoRow
           /\ Stored(Service(r)) /\ AsStored(Service(r))
           /\ pc[r] \in Delivering => ContainersOf(Service(r)) # {} /\ Up(Service(r))
  <1>1. /\ TypeOK /\ World /\ Stage(r) /\ Knows(pc[r], req[r]) /\ ~req[r].cancelled
        /\ req[r] \in Request
    BY StageFacts
  <1>2. req[r].job \in {"invoke", "wake"} /\ req[r].row # NoRow
    BY <1>1 DEF Knows, Delivering
  <1>3. /\ Stored(Service(r)) /\ AsStored(Service(r))
        /\ pc[r] \in Delivering => ContainersOf(Service(r)) # {}
    BY <1>1, <1>2 DEF Stage, Delivering, Working, Tied
  <1> QED
    BY <1>1, <1>2, <1>3, UpWhenBuilt

\* An invocation goes on, of a function that has a container.
LEMMA InvokingGoesOn ==
    ASSUME Inv, Serving, SerialInv, NEW r \in Requests, pc[r] \in {"probe"} \cup Delivering,
           UNCHANGED <<engineVars, rows>>, ContainersOf(Service(r)) # {},
           NEW label \in Delivering, NEW q, Goto(r, label, q),
           q.call = req[r].call, q.job = req[r].job, q.row = req[r].row,
           ~q.cancelled, q.answer \notin {500, 504},
           label = "forward" => q.cur \in ContainersOf(Service(r))
    PROVE  Proceeds(r)
  <1>1. /\ TypeOK /\ World /\ Stage(r) /\ req[r].job \in {"invoke", "wake"}
        /\ Stored(Service(r)) /\ AsStored(Service(r))
    BY InvokingFacts
  <1>2. PICK s : s = Service(r)
    OBVIOUS
  <1>3. /\ World' /\ Stored(s)' /\ ContainersOf(s)' = ContainersOf(s) /\ AsStored(s)'
        /\ \A n \in attached : n \in Uses(s) \/ n \in attached'
    BY <1>1, <1>2, NothingChanges
  <1>4. pc'[r] = label /\ req'[r] = q
    BY <1>1 DEF Goto, TypeOK
  <1>5. Service(r)' = s
    BY <1>2, <1>4 DEF Service
  <1>6. label \notin {"idle", "lookup", "done", "rmstale", "pull", "deleterow"}
                     \cup Working \cup Building \cup Writing \cup CleaningUp
    BY DEF Delivering, Working, Building, Writing, CleaningUp
  <1>7. label \notin {"list", "probe", "reap", "remove", "netcreate", "connect", "inspect",
                      "ccreate", "cstart", "netreinspect", "netremove"}
    BY DEF Delivering
  <1>8. Stage(r)'
    BY <1>1, <1>2, <1>3, <1>4, <1>5, <1>6, <1>7 DEF Stage
  <1> QED
    BY <1>2, <1>3, <1>4, <1>6, <1>8 DEF Proceeds

LEMMA ProbeProceeds ==
    ASSUME OneByOne, Inv, Serving, SerialInv, NEW r \in Requests, Probe(r)
    PROVE  Proceeds(r)
  <1>1. pc[r] = "probe" /\ UNCHANGED <<engineVars, rows>>
    BY DEF Probe
  <1>2. /\ TypeOK /\ World /\ Stage(r) /\ req[r] \in Request /\ ~req[r].cancelled
        /\ req[r].job \in {"invoke", "wake"} /\ req[r].row # NoRow
        /\ Stored(Service(r)) /\ AsStored(Service(r))
    BY <1>1, InvokingFacts
  <1>3. PICK s : s = Service(r)
    OBVIOUS
  <1>4. IF Up(s) THEN Goto(r, Ready(r), req[r]) ELSE Begin(r, "list", "wake", req[r].row)
    BY <1>2, <1>3, NothingFails DEF Probe
  <1>5. CASE Up(s)
    <2>1. ContainersOf(s) # {} /\ Ready(r) \in {"accept", "route"}
      BY <1>2, <1>3, <1>5, UpWhenBuilt DEF Ready
    <2>2. req[r].answer \notin {500, 504}
      BY <1>2 DEF Stage
    <2> QED
      BY <1>1, <1>2, <1>3, <1>4, <1>5, <2>1, <2>2, InvokingGoesOn DEF Delivering
  <1>6. CASE ~Up(s)
    <2>1. PICK q : q = [req[r] EXCEPT !.job = "wake", !.row = req[r].row] /\ Goto(r, "list", q)
      BY <1>4, <1>6 DEF Begin
    <2>2. /\ q.call = req[r].call /\ q.job = "wake" /\ q.row = req[r].row
          /\ q.cancelled = req[r].cancelled /\ q.answer = req[r].answer
      BY <1>2, <2>1 DEF Request
    <2>3. pc'[r] = "list" /\ req'[r] = q
      BY <1>2, <2>1 DEF Goto, TypeOK
    <2>4. Service(r)' = s
      BY <1>3, <2>2, <2>3 DEF Service
    <2>5. /\ World' /\ Stored(s)' /\ AsStored(s)' /\ UNCHANGED rows
          /\ \A n \in attached : n \in Uses(s) \/ n \in attached'
      BY <1>1, <1>2, <1>3, NothingChanges
    <2>6. req[r].row = rows[s]
      BY <1>1, <1>2, <1>3 DEF Stage, Working, Tied
    <2>7. Tied(r)'
      BY <2>2, <2>3, <2>4, <2>5, <2>6 DEF Tied
    <2>8. Stage(r)'
      BY <1>2, <1>3, <2>2, <2>3, <2>4, <2>5, <2>7
      DEF Stage, Building, Writing, CleaningUp, Delivering
    <2> QED
      BY <1>3, <2>3, <2>5, <2>8 DEF Proceeds
  <1> QED
    BY <1>5, <1>6

LEMMA PollProceeds ==
    ASSUME OneByOne, Inv, Serving, SerialInv, NEW r \in Requests, Poll(r)
    PROVE  Proceeds(r)
  <1>1. /\ pc[r] = "wait" /\ UNCHANGED <<engineVars, rows>> /\ Goto(r, Ready(r), req[r])
        /\ pc[r] \in Delivering
    BY DEF Poll, Delivering
  <1>2. /\ Stage(r) /\ ~req[r].cancelled /\ ContainersOf(Service(r)) # {}
    BY <1>1, InvokingFacts
  <1>3. req[r].answer \notin {500, 504} /\ Ready(r) \in {"accept", "route"}
    BY <1>1, <1>2 DEF Stage, Ready
  <1> QED
    BY <1>1, <1>2, <1>3, InvokingGoesOn DEF Delivering

LEMMA NoTimeout ==
    ASSUME OneByOne, Inv, Serving, SerialInv, NEW r \in Requests
    PROVE  ~WaitTimeout(r)
  <1> SUFFICES ASSUME WaitTimeout(r)
               PROVE  FALSE
    OBVIOUS
  <1>1. pc[r] \in Delivering
    BY DEF WaitTimeout, Delivering
  <1>2. ~req[r].cancelled /\ Up(Service(r))
    BY <1>1, InvokingFacts
  <1> QED
    BY <1>2, NothingFails DEF WaitTimeout

LEMMA AcceptProceeds ==
    ASSUME OneByOne, Inv, Serving, SerialInv, NEW r \in Requests, Accept(r)
    PROVE  Proceeds(r)
  <1>1. /\ UNCHANGED <<engineVars, rows>> /\ pc[r] \in Delivering
    BY DEF Accept, Delivering
  <1>2. /\ req[r] \in Request /\ ContainersOf(Service(r)) # {}
    BY <1>1, InvokingFacts
  <1>3. PICK q : /\ q = [req[r] EXCEPT !.answer = 202, !.cancelled = FALSE]
                 /\ Goto(r, "route", q)
    BY DEF Accept
  <1>4. /\ q.call = req[r].call /\ q.job = req[r].job /\ q.row = req[r].row
        /\ ~q.cancelled /\ q.answer = 202
    BY <1>2, <1>3 DEF Request
  <1>5. q.answer \notin {500, 504} /\ Goto(r, "route", q)
    BY <1>3, <1>4
  <1> QED
    BY <1>1, <1>2, <1>4, <1>5, InvokingGoesOn DEF Delivering

LEMMA RouteProceeds ==
    ASSUME OneByOne, Inv, Serving, SerialInv, NEW r \in Requests, Route(r)
    PROVE  Proceeds(r)
  <1>1. /\ UNCHANGED <<engineVars, rows>> /\ pc[r] \in Delivering
    BY DEF Route, Delivering
  <1>2. /\ Stage(r) /\ req[r] \in Request /\ ContainersOf(Service(r)) # {} /\ ~req[r].cancelled
    BY <1>1, InvokingFacts
  <1>3. PICK c \in ContainersOf(Service(r)) : Goto(r, "forward", [req[r] EXCEPT !.cur = c])
    <2>1. PICK c \in ContainersOf(Service(r)) :
             Goto(r, "forward", [req[r] EXCEPT !.cur =
                 IF c \in Running(Service(r)) THEN c ELSE NoContainer])
      BY <1>2, NothingFails DEF Route
    <2>2. c \in Running(Service(r))
      BY <1>1, InvokingFacts DEF AsStored, Running
    <2> QED
      BY <2>1, <2>2
  <1>4. PICK q : q = [req[r] EXCEPT !.cur = c] /\ Goto(r, "forward", q)
    BY <1>3
  <1>5. /\ q.call = req[r].call /\ q.job = req[r].job /\ q.row = req[r].row
        /\ q.cancelled = req[r].cancelled /\ q.answer = req[r].answer /\ q.cur = c
    BY <1>2, <1>4 DEF Request
  <1>6. q.answer \notin {500, 504} /\ ~q.cancelled /\ Goto(r, "forward", q)
    BY <1>1, <1>2, <1>4, <1>5 DEF Stage, Delivering
  <1> QED
    BY <1>1, <1>2, <1>5, <1>6, InvokingGoesOn DEF Delivering

LEMMA ForwardProceeds ==
    ASSUME OneByOne, Inv, Serving, SerialInv, NEW r \in Requests, Forward(r)
    PROVE  Proceeds(r)
  <1>1. /\ pc[r] = "forward" /\ UNCHANGED <<engineVars, rows>> /\ pc[r] \in Delivering
    BY DEF Forward, Delivering
  <1>2. /\ TypeOK /\ World /\ Stage(r) /\ ~req[r].cancelled /\ req[r].job \in {"invoke", "wake"}
        /\ Stored(Service(r)) /\ AsStored(Service(r))
    BY <1>1, InvokingFacts
  <1>3. PICK s : s = Service(r)
    OBVIOUS
  <1>4. PICK c : c = req[r].cur
    OBVIOUS
  <1>5. c \in ContainersOf(s)
    BY <1>1, <1>2, <1>3, <1>4 DEF Stage
  <1>6. Arrives(r)
    <2>1. containers[c].replica \in 0 .. rows[s].replicas - 1 /\ rows[s].replicas \in Nat
      BY <1>2, <1>3, <1>5, MaxReplicasAssumption
      DEF AsStored, ReplicasOf, TypeOK, StoreTypeOK, Stored, Row
    <2>2. rows[s].replicas > 0
      BY <2>1
    <2> QED
      BY <1>2, <1>3, <1>4, <1>5, <2>2 DEF AsStored, Arrives, Reachable, ContainersOf
  <1>7. PICK arrived \in BOOLEAN : arrived /\ \E code : Finish(r, code, arrived)
    <2>1. PICK arrived \in BOOLEAN : arrived = Arrives(r) /\ \E code : Finish(r, code, arrived)
      BY <1>6 DEF Forward, Arrives, Reachable
    <2> QED
      BY <1>6, <2>1
  <1>9. req'[r].arrived
    BY <1>2, <1>7 DEF Finish, Goto, Blank, TypeOK
  <1>10. Ends(r)
    BY <1>2, <1>9 DEF Ends
  <1>11. /\ World' /\ AsStored(s)' /\ Stored(s)'
         /\ \A n \in attached : n \in Uses(s) \/ n \in attached'
    BY <1>1, <1>2, <1>3, NothingChanges
  <1>12. Agreed(s)'
    BY <1>11 DEF Agreed
  <1> QED
    BY <1>1, <1>3, <1>7, <1>10, <1>11, <1>12, FinishProceeds

--------------------------------------------------------------------------------
(* The invariant *)

LEMMA HandleProceeds ==
    ASSUME OneByOne, Inv, Serving, SerialInv, NEW r \in Requests, Handle(r)
    PROVE  Proceeds(r) /\ pc[r] \notin {"idle", "done"}
  <1>1. pc[r] # "rmstale" /\ ~WaitTimeout(r)
    BY NoTimeout DEF SerialInv, Stage
  <1>2. CASE Lookup(r)
    BY <1>2, LookupProceeds DEF Lookup
  <1>3. CASE Remove(r)
    <2>1. pc[r] \in {"list", "reap", "remove"}
      BY <1>3 DEF Remove, List, StopVictim, RemoveVictim, Reaped
    <2> QED
      BY <1>3, <2>1, ListProceeds, StopVictimProceeds, RemoveVictimProceeds, ReapedProceeds
      DEF Remove
  <1>4. CASE Create(r)
    <2>1. ~RemoveStale(r)
      BY <1>1 DEF RemoveStale
    <2>2. pc[r] \notin {"idle", "done"}
      BY <1>4 DEF Create, PullImage, ListNetworks, CreateNetwork, ConnectGateway, InspectName,
                  RemoveStale, CreateContainer, StartContainer, Created
    <2> QED
      BY <1>4, <2>1, <2>2, PullImageProceeds, ListNetworksProceeds, CreateNetworkProceeds,
         ConnectGatewayProceeds, InspectNameProceeds, CreateContainerProceeds,
         StartContainerProceeds, CreatedProceeds
      DEF Create
  <1>5. CASE Store(r)
    <2>1. pc[r] \notin {"idle", "done"}
      BY <1>5 DEF Store, InsertRow, SaveRow, SetReplicas, DeleteRow
    <2> QED
      BY <1>5, <2>1, InsertRowProceeds, SaveRowProceeds, SetReplicasProceeds, DeleteRowProceeds
      DEF Store
  <1>6. CASE Cleanup(r)
    <2>1. pc[r] \notin {"idle", "done"}
      BY <1>6 DEF Cleanup, InspectNetwork, DisconnectGateway, ReinspectNetwork, RemoveNetwork
    <2> QED
      BY <1>6, <2>1, InspectNetworkProceeds, DisconnectGatewayProceeds,
         ReinspectNetworkProceeds, RemoveNetworkProceeds
      DEF Cleanup
  <1>7. CASE Invoke(r)
    <2>1. pc[r] \notin {"idle", "done"}
      BY <1>7 DEF Invoke, Probe, Poll, WaitTimeout, Accept, Route, Forward
    <2> QED
      BY <1>1, <1>7, <2>1, ProbeProceeds, PollProceeds, AcceptProceeds, RouteProceeds,
         ForwardProceeds
      DEF Invoke
  <1> QED
    BY <1>2, <1>3, <1>4, <1>5, <1>6, <1>7 DEF Handle

\* A request arrives when no other is handled.
LEMMA ArriveSerial ==
    ASSUME OneByOne, Inv, SerialInv, NEW r \in Requests, Arrive(r)
    PROVE  SerialInv'
  <1>1. PICK call \in Calls : Goto(r, "lookup", Blank(call, NoAnswer, FALSE))
    BY DEF Arrive
  <1>2. PICK q : /\ Goto(r, "lookup", q) /\ q.call = call /\ q.job = "none"
                 /\ q.row = NoRow /\ ~q.cancelled /\ q.answer \notin {500, 504}
    BY <1>1 DEF Blank, NoAnswer
  <1>3. \A t \in Requests : IF t = r THEN pc'[t] = "lookup" /\ req'[t] = q
                                       ELSE pc'[t] = pc[t] /\ req'[t] = req[t]
    BY <1>2 DEF Goto, Inv, TypeOK
  <1>4. UNCHANGED <<engineVars, rows>> /\ pc[r] = "idle"
    BY DEF Arrive
  <1>5. World /\ UNCHANGED <<containers, networks, attached, rows>>
    BY <1>4 DEF SerialInv, engineVars
  <1>6. InFlight = {}
    <2> SUFFICES ASSUME NEW t \in InFlight
                 PROVE  FALSE
      OBVIOUS
    <2>1. InFlight = {t}
      BY DEF SerialInv, Alone
    <2>2. Cardinality(InFlight) = 1
      BY <2>1, FS_Singleton
    <2> QED
      BY <2>2 DEF Arrive, OneByOne
  <1>7. InFlight' \subseteq {r}
    BY <1>3, <1>6 DEF InFlight
  <1>8. World' /\ (\A s \in Services : Agreed(s)')
    <2>1. \A s \in Services : Agreed(s)
      BY <1>6 DEF SerialInv
    <2>2. \A s \in Services : World' /\ Agreed(s)' = Agreed(s)
      BY <1>4, <1>5, NothingChanges
    <2> QED
      BY <1>4, <1>5, <2>1, <2>2, WorldStands
  <1>9. \A t \in Requests : Stage(t)'
    <2>1. ASSUME NEW t \in Requests, t # r
          PROVE  Stage(t)'
      <3>1. pc[t] \in {"idle", "done"} /\ pc'[t] = pc[t] /\ req'[t] = req[t] /\ Stage(t)
        BY <1>3, <1>6, <2>1 DEF InFlight, SerialInv
      <3> QED
        BY <3>1 DEF Stage, Service, Working, Building, Writing, CleaningUp, Delivering
    <2>2. Stage(r)'
      <3>1. pc'[r] = "lookup" /\ req'[r] = q
        BY <1>3
      <3>2. PICK s : s = call.service
        OBVIOUS
      <3>3. Service(r)' = s /\ s \in Services
        BY <1>2, <3>1, <3>2, LifecycleAssumption DEF Service, Call
      <3>4. Agreed(s)'
        BY <1>8, <3>3
      <3> QED
        BY <1>2, <3>1, <3>3, <3>4
        DEF Stage, Working, Building, Writing, CleaningUp, Delivering
    <2> QED
      BY <2>1, <2>2
  <1>10. Alone'
    BY <1>7 DEF Alone
  <1> QED
    BY <1>8, <1>9, <1>10 DEF SerialInv

LEMMA StutterSerial ==
    ASSUME SerialInv, UNCHANGED vars
    PROVE  SerialInv'
  <1>1. UNCHANGED <<engineVars, rows>> /\ World
    BY DEF vars, engineVars, SerialInv
  <1>2. World' /\ \A s \in Services : Agreed(s)' = Agreed(s)
    BY <1>1, NothingChanges, WorldStands
  <1>3. InFlight' = InFlight /\ \A r : Service(r)' = Service(r)
    BY DEF vars, InFlight, Service
  <1>4. Alone'
    BY <1>3 DEF SerialInv, Alone
  <1>5. \A r \in Requests : Stage(r)'
    <2> TAKE r \in Requests
    <2>1. Stage(r)' = Stage(r)
      BY DEF vars, Stage, Working, Building, Writing, CleaningUp, Delivering, Tied, Reaping, Spared,
             Built, Wanted, Starting, Goal, Target, DeployReplicas, DeploymentOf, Net,
             NetworkFor, Op, Service, OldNet, NewContainer, NextReplica, RemovesAll,
             Agreed, AsStored, ReplicasOf, ContainersOf, Existing, Stored
    <2> QED
      BY <2>1 DEF SerialInv
  <1> QED
    BY <1>2, <1>3, <1>4, <1>5 DEF SerialInv

LEMMA NextSerial ==
    ASSUME OneByOne, Inv, Serving, SerialInv, [Next]_vars
    PROVE  SerialInv'
  <1>1. ASSUME NEW r \in Requests, Arrive(r)
        PROVE  SerialInv'
    BY <1>1, ArriveSerial
  <1>2. ASSUME NEW r \in Requests, Handle(r)
        PROVE  SerialInv'
    BY <1>2, HandleSteps, HandleProceeds, HandledPreserves
  <1>3. ~CrashAndRestart /\ (\A r : ~HangUp(r)) /\ (\A c : ~Exit(c))
    BY NothingFails DEF CrashAndRestart, HangUp, Exit
  <1>4. \A c : ~Restart(c)
    BY DEF Restart, ContainerRestarts, Startable, SerialInv, World
  <1>5. CASE UNCHANGED vars
    BY <1>5, StutterSerial
  <1> QED
    BY <1>1, <1>2, <1>3, <1>4, <1>5 DEF Next, Disturb, Quiesced

LEMMA InitSerial ==
    ASSUME OneByOne, Init
    PROVE  SerialInv
  <1>1. PICK R \in InitialRows : Deployed(R)
    BY DEF Init
  <1>2. DOMAIN R \subseteq Services /\ \A s \in DOMAIN R : R[s] \in Row
    BY LifecycleAssumption
  <1>3. rows = R
    BY <1>1 DEF Deployed
  <1>4. /\ Existing = {d \in Services \X Replicas : d[1] \in DOMAIN R /\ d[2] < R[d[1]].replicas}
        /\ \A c \in Existing :
              /\ containers[c].service = c[1] /\ containers[c].replica = c[2]
              /\ containers[c].image = R[c[1]].image /\ containers[c].network = R[c[1]].network
              /\ containers[c].state = "running"
    BY <1>1, DeployedContainers DEF OneByOne
  <1>5. /\ DOMAIN networks = {R[s].network : s \in DOMAIN R} /\ attached = DOMAIN networks
        /\ \A n \in DOMAIN networks : networks[n] \in DOMAIN R /\ R[networks[n]].network = n
    BY <1>1 DEF Deployed
  <1>6. \A s \in DOMAIN R : R[s].network \in Uses(s)
    BY OwnNetworks
  <1>7. World
    <2>1. \A c, d \in Existing : c[1] = d[1] /\ c[2] = d[2] => c = d
      BY <1>4
    <2> QED
      BY <1>3, <1>4, <1>5, <1>6, <2>1 DEF World
  <1>8. \A s \in Services : Agreed(s)
    <2> SUFFICES ASSUME NEW s \in Services
                 PROVE  Agreed(s)
      OBVIOUS
    <2>1. CASE s \notin DOMAIN R
      BY <1>3, <1>4, <2>1 DEF Agreed, Stored, ContainersOf
    <2>2. CASE s \in DOMAIN R
      <3>1. R[s].replicas \in 0 .. MaxReplicas
        BY <1>2, <2>2 DEF Row
      <3>2. \A i \in 0 .. R[s].replicas - 1 : <<s, i>> \in ContainersOf(s)
        BY <1>4, <2>2, <3>1, MaxReplicasAssumption DEF Replicas, ContainersOf
      <3>3. \A c \in ContainersOf(s) : containers[c].replica \in 0 .. R[s].replicas - 1
        BY <1>4, <2>2, <3>1, MaxReplicasAssumption DEF Replicas, ContainersOf
      <3>4. \A i \in 0 .. R[s].replicas - 1 : containers[<<s, i>>].replica = i
        BY <1>4, <3>2 DEF ContainersOf
      <3>5. ReplicasOf(s) = 0 .. R[s].replicas - 1
        BY <3>2, <3>3, <3>4 DEF ReplicasOf
      <3>6. AsStored(s)
        BY <1>3, <1>4, <1>5, <2>2, <3>5 DEF AsStored, ContainersOf
      <3> QED
        BY <1>3, <2>2, <3>6 DEF Agreed, Stored
    <2> QED
      BY <2>1, <2>2
  <1>9. \A r \in Requests : Stage(r) /\ pc[r] = "idle"
    <2> TAKE r \in Requests
    <2>1. /\ req[r].job = "none" /\ req[r].row = NoRow /\ ~req[r].cancelled
          /\ req[r].answer \notin {500, 504}
      BY DEF Init, Blank, NoAnswer
    <2>2. pc[r] = "idle"
      BY DEF Init
    <2> QED
      BY <2>1, <2>2 DEF Stage, Working, Building, Writing, CleaningUp, Delivering
  <1>10. InFlight = {}
    BY <1>9 DEF InFlight
  <1> QED
    BY <1>7, <1>8, <1>9, <1>10 DEF SerialInv, Alone

LEMMA SerialInvariance ==
    ASSUME OneByOne
    PROVE  Spec => [](Inv /\ Serving /\ SerialInv)
  <1>1. Init => Inv /\ Serving /\ SerialInv
    BY InitInv, InitSimulates, InitSerial
  <1>2. Inv /\ Serving /\ SerialInv /\ [Next]_vars => (Inv /\ Serving /\ SerialInv)'
    BY NextInv, NextSimulates, NextSerial
  <1> QED
    BY <1>1, <1>2, PTL DEF Spec

\* The step that ends a request is one of its handler's.
LEMMA EndsAsItShould ==
    ASSUME OneByOne, Inv, Serving, SerialInv, [Next]_vars, NEW r \in Requests,
           pc[r] # "done", pc'[r] = "done"
    PROVE  Ends(r) /\ (pc[r] # "forward" => req'[r].answer \notin {500, 504})
  <1>1. ASSUME NEW t \in Requests, Arrive(t)
        PROVE  FALSE
    BY <1>1 DEF Arrive, Goto, Inv, TypeOK
  <1>2. ASSUME NEW t \in Requests, Handle(t)
        PROVE  Ends(r) /\ (pc[r] # "forward" => req'[r].answer \notin {500, 504})
    <2>1. HandlerStep(t) /\ Proceeds(t)
      BY <1>2, HandleSteps, HandleProceeds
    <2>2. t = r
      BY <2>1 DEF HandlerStep, Advances, Goto, Inv, TypeOK
    <2> QED
      BY <2>1, <2>2 DEF Proceeds
  <1>3. ~CrashAndRestart /\ (\A t : ~HangUp(t)) /\ (\A c : ~Exit(c))
    BY NothingFails DEF CrashAndRestart, HangUp, Exit
  <1>4. \A c : ~Restart(c)
    BY DEF Restart, ContainerRestarts, Startable, SerialInv, World
  <1> QED
    BY <1>1, <1>2, <1>3, <1>4 DEF Next, Disturb, Quiesced, vars

\* Between calls made one at a time, every row has exactly its replicas, running, of
\* its image and on its network, with the gateway attached to it, and a service without
\* a row has no container (every handler: the engine first, the store last).
THEOREM CallsLeaveNothingOpen ==
    ASSUME OneByOne
    PROVE  Spec => []StoreAndEngineAgree
  <1>1. SerialInv => StoreAndEngineAgree
    BY DEF SerialInv, StoreAndEngineAgree, Quiet, Agreed
  <1> QED
    BY <1>1, SerialInvariance, PTL

\* No sequence of calls, made one at a time while nothing fails, leads to a state in
\* which a handler answers 500 or 504 before it forwards.
THEOREM NoSequenceFails ==
    ASSUME OneByOne
    PROVE  Spec => NoCallFails
  <1> DEFINE Step == \A r \in Requests :
                        pc[r] \notin {"done", "forward"} /\ pc'[r] = "done" =>
                           req'[r].answer \notin {500, 504}
  <1>1. Inv /\ Serving /\ SerialInv /\ [Next]_vars => Step
    BY EndsAsItShould
  <1>2. Inv /\ Serving /\ SerialInv /\ [Next]_vars => [Step]_vars
    BY <1>1
  <1> QED
    BY <1>2, SerialInvariance, PTL DEF Spec, NoCallFails

\* Made one at a time, an invocation of a function that has a row gets to a running
\* container of it, also when it finds the function at zero replicas and also when it is
\* asynchronous.
THEOREM InvocationsArrive ==
    ASSUME OneByOne
    PROVE  Spec => InvokeArrives
  <1> DEFINE Step == \A r \in Requests :
                        req[r].job \in {"invoke", "wake"} /\ pc'[r] = "done" => req'[r].arrived
  <1>1. Inv /\ Serving /\ SerialInv /\ [Next]_vars => Step
    <2> SUFFICES ASSUME Inv, Serving, SerialInv, [Next]_vars, NEW r \in Requests,
                        req[r].job \in {"invoke", "wake"}, pc'[r] = "done"
                 PROVE  req'[r].arrived
      OBVIOUS
    <2>1. pc[r] # "done"
      BY DEF SerialInv, Stage
    <2> QED
      BY <2>1, EndsAsItShould DEF Ends
  <1>2. Inv /\ Serving /\ SerialInv /\ [Next]_vars => [Step]_vars
    BY <1>1
  <1> QED
    BY <1>2, SerialInvariance, PTL DEF Spec, InvokeArrives

\* Made one at a time, a delete that is answered 202 leaves no row, no container and
\* no network of its function behind, unless a container is on that network.
THEOREM DeletesRelease ==
    ASSUME OneByOne
    PROVE  Spec => DeleteReleases
  <1> DEFINE Step == \A r \in Requests : Completes(r, "delete", 202) =>
                        /\ ~Stored(Service(r)) /\ ContainersOf(Service(r)) = {}
                        /\ OldNet(r) \notin DOMAIN networks' \/ Endpoints(OldNet(r)) # {}
  <1>1. Inv /\ Serving /\ SerialInv /\ [Next]_vars => Step
    <2> SUFFICES ASSUME Inv, Serving, SerialInv, [Next]_vars, NEW r \in Requests,
                        Completes(r, "delete", 202)
                 PROVE  /\ ~Stored(Service(r)) /\ ContainersOf(Service(r)) = {}
                        /\ OldNet(r) \notin DOMAIN networks' \/ Endpoints(OldNet(r)) # {}
      OBVIOUS
    <2>1. Ends(r)
      BY EndsAsItShould DEF Completes
    <2>2. req[r].job \in Jobs /\ req[r].call.op = "delete" /\ req'[r].answer = 202
      BY DEF Inv, TypeOK, Request, Completes
    <2>3. req[r].job \in {"none", "delete"}
      BY <2>2 DEF Serving, Serves, SerialInv, Stage, Jobs
    <2> QED
      BY <2>1, <2>2, <2>3 DEF Ends
  <1>2. Inv /\ Serving /\ SerialInv /\ [Next]_vars => [Step]_vars
    BY <1>1
  <1> QED
    BY <1>2, SerialInvariance, PTL DEF Spec, DeleteReleases

--------------------------------------------------------------------------------
(* Cold starts: invocations that race to wake their functions *)

\* Nothing fails, labels are left to the gateway, and no function has more than one
\* replica when the behaviour begins.
FromZeroOrOne ==
    /\ Faults = {}
    /\ OwnLabelsOnly
    /\ \A R \in InitialRows : \A s \in DOMAIN R : R[s].replicas \in {0, 1}

\* No call of the behaviour so far is anything but an invocation.
OnlyInvoked ==
    \A r \in Requests : req[r].call # NoCall => Op(r) \in {"invoke", "async"}

\* Somebody has called s.
Called(s) == \E r \in Requests : req[r].call # NoCall /\ Service(r) = s

\* A function has one container at most, up or about to be started by its creator.
Scene ==
    /\ \A s \in DOMAIN rows : rows[s].network \in DOMAIN networks /\ rows[s].replicas \in {0, 1}
    /\ \A c \in Existing :
          /\ containers[c].replica = 0
          /\ containers[c].network \in attached
          /\ \/ containers[c].state = "running"
             \/ /\ containers[c].state = "created"
                /\ c[1] \in Requests /\ pc[c[1]] = "cstart" /\ c[2] = 0
    /\ \A c, d \in Existing : containers[c].service = containers[d].service => c = d

\* What an invocation that may be waking its function knows.
Rouses(r) ==
    /\ ~req[r].cancelled
    /\ req[r].job \in {"none", "invoke", "wake"}
    /\ req[r].job # "none" => Stored(Service(r)) /\ req[r].row.network \in DOMAIN networks
    /\ pc[r] \notin {"remove", "pull", "netcreate"}
    /\ \A v \in req[r].victims : pc[r] = "reap" /\ IsStale(v.state) /\ req[r].missing = {0}
    /\ req[r].missing \in {{}, {0}}
    /\ pc[r] \in {"inspect", "rmstale", "ccreate", "cstart"} => req[r].row.network \in attached

\* It may yet start a container of s, ...
Starts(r, s) ==
    /\ pc[r] # "idle" /\ Service(r) = s
    /\ \/ pc[r] \in {"lookup", "probe", "list"}
       \/ /\ pc[r] \in {"reap", "create", "connect", "inspect", "rmstale", "ccreate"}
          /\ req[r].missing = {0}
       \/ pc[r] = "cstart" /\ <<r, 0>> \in Existing

\* ... it is about to store that s has one replica, ...
Records(r, s) ==
    /\ pc[r] # "idle" /\ Service(r) = s
    /\ pc[r] = "setreplicas" \/ (pc[r] = "create" /\ req[r].missing = {})

\* ... it has got to s, or will if s stays up.
Attends(r, s) ==
    /\ pc[r] # "idle" /\ Service(r) = s
    /\ \/ pc[r] = "done" /\ req[r].arrived
       \/ pc[r] \in {"lookup", "probe", "list", "setreplicas", "wait", "accept", "route"}
       \/ pc[r] \in {"reap", "create"} /\ req[r].missing = {}
       \/ pc[r] = "forward" /\ req[r].cur \in Running(s)

\* ... and one of them at least does so as long as it has to be done.
Rises(s) ==
    /\ Called(s) => Up(s) \/ \E r \in Requests : Starts(r, s)
    /\ Up(s) => rows[s].replicas = 1 \/ \E r \in Requests : Records(r, s)
    /\ Up(s) /\ Called(s) => \E r \in Requests : Attends(r, s)

Cold ==
    /\ Scene
    /\ \A r \in Requests : Rouses(r)
    /\ \A s \in DOMAIN rows : Rises(s)

\* The first call that is no invocation ends what is said.
ColdInv == OnlyInvoked => Cold

--------------------------------------------------------------------------------

LEMMA NoFaults ==
    ASSUME FromZeroOrOne
    PROVE  \A kind : ~Fault(kind)
  BY DEF FromZeroOrOne, Fault

LEMMA RouseFacts ==
    ASSUME Inv, Cold, NEW r \in Requests
    PROVE  /\ TypeOK /\ Scene /\ Rouses(r)
           /\ req[r] \in Request /\ Knows(pc[r], req[r]) /\ Aims(req[r])
           /\ pc[r] # "idle" => Service(r) \in Services
           /\ pc[r] \notin {"idle", "lookup", "done"} => Stored(Service(r))
           /\ pc[r] \in {"list", "reap", "setreplicas"} \cup CreatingLabels =>
                 /\ req[r].job = "wake" /\ ~RemovesAll(r) /\ Target(r) = 1
                 /\ Net(r) = req[r].row.network /\ Net(r) \in DOMAIN networks
           /\ pc[r] \notin {"pull", "insert", "save", "deleterow", "netinspect", "disconnect",
                            "netreinspect", "netremove"}
           /\ req[r].missing # {} => req[r].missing = {0} /\ NextReplica(r) = 0
  <1>1. /\ TypeOK /\ Scene /\ Rouses(r)
        /\ req[r] \in Request /\ Knows(pc[r], req[r]) /\ Aims(req[r]) /\ pc[r] \in Labels
        /\ pc[r] # "idle" => Service(r) \in Services
    BY RequestFacts DEF Inv, Cold
  <1>2. pc[r] \in {"list", "reap", "setreplicas"} \cup CreatingLabels => req[r].job = "wake"
    BY <1>1 DEF Rouses, Knows, CreatingLabels
  <1>3. req[r].job = "wake" => Net(r) = req[r].row.network /\ ~RemovesAll(r) /\ Target(r) = 1
    BY DEF Net, DeploymentOf, RemovesAll, Target
  <1>4. pc[r] \notin {"pull", "insert", "save", "deleterow", "netinspect", "disconnect",
                      "netreinspect", "netremove"}
    BY <1>1 DEF Rouses, Knows
  <1>5. pc[r] \notin {"idle", "lookup", "done"} => req[r].job # "none"
    BY <1>1, <1>2, <1>4 DEF Rouses, Knows, Labels, CreatingLabels
  <1>6. ASSUME req[r].missing # {}
        PROVE  req[r].missing = {0} /\ NextReplica(r) = 0
    <2>1. req[r].missing = {0}
      BY <1>1, <1>6 DEF Rouses
    <2> QED
      BY <2>1, <1>6, NextReplicaIsMissing
  <1> QED
    BY <1>1, <1>2, <1>3, <1>4, <1>5, <1>6 DEF Rouses

\* A container that exists is up, or its creator is about to start it.
LEMMA SomebodyStarts ==
    ASSUME FromZeroOrOne, Inv, Cold, NEW s, NEW c \in ContainersOf(s)
    PROVE  Up(s) \/ \E t \in Requests : pc[t] = "cstart" /\ Starts(t, s)
  <1>1. /\ c \in Existing /\ containers[c].service = s /\ Scene
        /\ CreatedFor(c, s)
    BY OwnersByLabel DEF ContainersOf, Cold, FromZeroOrOne
  <1>2. CASE containers[c].state = "running"
    BY <1>1, <1>2 DEF Up, Running
  <1>3. CASE c[1] \in Requests /\ pc[c[1]] = "cstart" /\ c[2] = 0
    <2>1. c = <<c[1], 0>>
      BY <1>1, <1>3 DEF CreatedFor, ContainerIds
    <2>2. Service(c[1]) = s
      BY <1>1, <1>3, LifecycleAssumption DEF CreatedFor, Service
    <2> QED
      BY <1>1, <1>3, <2>1, <2>2 DEF Starts
  <1> QED
    BY <1>1, <1>2, <1>3 DEF Scene

--------------------------------------------------------------------------------
(* A step of one handler, and the others *)

LEMMA OthersRouse ==
    ASSUME FromZeroOrOne, Inv, Cold, NEW r \in Requests, pc[r] # "idle", HandlerStep(r),
           Scene', Rouses(r)', networks' = networks, attached \subseteq attached',
           DOMAIN rows' = DOMAIN rows,
           NEW u, u = Service(r), u \in DOMAIN rows => Rises(u)'
    PROVE  Cold'
  <1>1. PICK label \in Labels, q \in Request :
           label # "idle" /\ q.call = req[r].call /\ Goto(r, label, q)
    BY DEF HandlerStep, Advances
  <1>2. \A t \in Requests : IF t = r THEN pc'[t] = label /\ req'[t] = q
                                     ELSE pc'[t] = pc[t] /\ req'[t] = req[t]
    BY <1>1 DEF Goto, Inv, TypeOK
  <1>3. \A t \in Requests : Service(t)' = Service(t) /\ req'[t].call = req[t].call
    BY <1>1, <1>2 DEF Service
  <1>4. \A t \in Requests : Rouses(t)'
    <2> SUFFICES ASSUME NEW t \in Requests, t # r
                 PROVE  Rouses(t)'
      OBVIOUS
    <2>1. Rouses(t) /\ pc'[t] = pc[t] /\ req'[t] = req[t]
      BY <1>2 DEF Cold
    <2> QED
      BY <2>1, <1>3 DEF Rouses, Stored
  <1>5. ASSUME NEW s \in DOMAIN rows, s # Service(r)
        PROVE  Rises(s)'
    <2>1. Rises(s) /\ s \in Services /\ Service(r) \in Services
      BY RequestFacts DEF Cold, Inv, TypeOK, StoreTypeOK
    <2>2. /\ ContainersOf(s)' = ContainersOf(s)
          /\ \A c \in ContainersOf(s) : containers'[c] = containers[c]
          /\ rows'[s] = rows[s]
      BY <1>5, <2>1, OthersUntouched DEF HandlerStep, Stored, FromZeroOrOne
    <2>3. Running(s)' = Running(s)
      BY <2>2 DEF Running
    <2>4. Called(s)' => Called(s)
      BY <1>3 DEF Called
    <2>5. ASSUME NEW t \in Requests, Starts(t, s)
          PROVE  Starts(t, s)'
      <3>1. t # r /\ pc'[t] = pc[t] /\ req'[t] = req[t] /\ Service(t)' = s /\ Service(t) = s
        BY <1>2, <1>3, <1>5, <2>5 DEF Starts
      <3>2. ASSUME pc[t] = "cstart", <<t, 0>> \in Existing
            PROVE  <<t, 0>> \in Existing'
        <4>1. req[t].call # NoCall /\ req[t].call.service = s
          BY <3>1, <3>2, RequestFacts DEF Knows, Service
        <4>2. CreatedFor(<<t, 0>>, containers[<<t, 0>>].service)
          BY <3>2, OwnersByLabel DEF FromZeroOrOne
        <4>3. CreatedFor(<<t, 0>>, s)
          BY <4>1, <4>2 DEF CreatedFor
        <4>4. <<t, 0>> \in ContainersOf(s)
          BY <3>2, <4>2, <4>3, OneOwner DEF ContainersOf
        <4> QED
          BY <2>2, <4>4 DEF ContainersOf
      <3> QED
        BY <2>5, <3>1, <3>2 DEF Starts
    <2>6. \A t \in Requests : Records(t, s) => Records(t, s)'
      BY <1>2, <1>3, <1>5 DEF Records
    <2>7. \A t \in Requests : Attends(t, s) => Attends(t, s)'
      BY <1>2, <1>3, <1>5, <2>3 DEF Attends
    <2> QED
      BY <2>1, <2>2, <2>3, <2>4, <2>5, <2>6, <2>7 DEF Rises, Up
  <1>6. \A s \in DOMAIN rows' : Rises(s)'
    BY <1>5
  <1> QED
    BY <1>4, <1>6 DEF Cold

\* It changes nothing but its own place: whom it leaves its function to.
LEMMA LookingOn ==
    ASSUME FromZeroOrOne, Inv, Cold, NEW r \in Requests, pc[r] # "idle", HandlerStep(r),
           UNCHANGED <<containers, networks, rows>>, attached \subseteq attached',
           NEW label, NEW q, Goto(r, label, q), q.call = req[r].call, label # "idle",
           Rouses(r)', pc[r] = "cstart" => <<r, 0>> \notin Existing,
           NEW s, s = Service(r),
           s \in DOMAIN rows =>
              /\ Starts(r, s) => \/ Up(s) \/ Starts(r, s)'
                                 \/ \E t \in Requests : t # r /\ Starts(t, s)
              /\ Records(r, s) => Records(r, s)'
              /\ Up(s) /\ Attends(r, s) => Attends(r, s)'
    PROVE  Cold'
  <1>1. \A t \in Requests : IF t = r THEN pc'[t] = label /\ req'[t] = q
                                     ELSE pc'[t] = pc[t] /\ req'[t] = req[t]
    BY DEF Goto, Inv, TypeOK
  <1>2. \A t \in Requests : Service(t)' = Service(t) /\ req'[t].call = req[t].call
    BY <1>1 DEF Service
  <1>3. Existing' = Existing /\ Running(s)' = Running(s) /\ Up(s)' = Up(s)
    BY DEF Existing, Up, Running, ContainersOf
  <1>4. Scene'
    <2>1. Scene
      BY DEF Cold
    <2>2. ASSUME NEW c \in Existing
          PROVE  /\ containers[c].replica = 0
                 /\ containers[c].network \in attached'
                 /\ \/ containers[c].state = "running"
                    \/ /\ containers[c].state = "created"
                       /\ c[1] \in Requests /\ pc'[c[1]] = "cstart" /\ c[2] = 0
      <3>1. CASE containers[c].state = "running"
        BY <2>1, <3>1 DEF Scene
      <3>2. CASE containers[c].state # "running"
        <4>1. /\ containers[c].state = "created" /\ c[1] \in Requests
              /\ pc[c[1]] = "cstart" /\ c[2] = 0
          BY <2>1, <3>2 DEF Scene
        <4>2. c = <<c[1], 0>>
          BY <4>1 DEF Inv, TypeOK, EngineTypeOK, Existing, ContainerIds
        <4>3. c[1] # r
          BY <4>1, <4>2
        <4> QED
          BY <1>1, <2>1, <4>1, <4>3 DEF Scene
      <3> QED
        BY <3>1, <3>2
    <2> QED
      BY <1>3, <2>1, <2>2 DEF Scene
  <1>5. ASSUME s \in DOMAIN rows
        PROVE  Rises(s)'
    <2>1. Rises(s)
      BY <1>5 DEF Cold
    <2>2. Called(s)' => Called(s)
      BY <1>2 DEF Called
    <2>3. \A t \in Requests : t # r /\ Starts(t, s) => Starts(t, s)'
      BY <1>1, <1>2, <1>3 DEF Starts
    <2>4. \A t \in Requests : t # r /\ Records(t, s) => Records(t, s)'
      BY <1>1, <1>2 DEF Records
    <2>5. \A t \in Requests : t # r /\ Attends(t, s) => Attends(t, s)'
      BY <1>1, <1>2, <1>3 DEF Attends
    <2>6. Called(s)' => Up(s)' \/ \E t \in Requests : Starts(t, s)'
      BY <1>3, <1>5, <2>1, <2>2, <2>3 DEF Rises
    <2>7. Up(s)' => rows'[s].replicas = 1 \/ \E t \in Requests : Records(t, s)'
      BY <1>3, <1>5, <2>1, <2>4 DEF Rises
    <2>8. Up(s)' /\ Called(s)' => \E t \in Requests : Attends(t, s)'
      BY <1>3, <1>5, <2>1, <2>2, <2>5 DEF Rises
    <2> QED
      BY <2>6, <2>7, <2>8 DEF Rises
  <1> QED
    BY <1>4, <1>5, OthersRouse

\* Its handler ends: it got to s, or somebody is left to do what it did not.
LEMMA EndsCold ==
    ASSUME FromZeroOrOne, Inv, Cold, NEW r \in Requests, pc[r] # "idle", HandlerStep(r),
           UNCHANGED <<engineVars, rows>>,
           NEW code, NEW arrived \in BOOLEAN, Finish(r, code, arrived),
           pc[r] = "cstart" => <<r, 0>> \notin Existing,
           NEW s, s = Service(r),
           s \in DOMAIN rows =>
              /\ Starts(r, s) => Up(s) \/ \E t \in Requests : t # r /\ Starts(t, s)
              /\ ~Records(r, s)
              /\ Up(s) /\ Attends(r, s) => arrived
    PROVE  Cold'
  <1> DEFINE q == Blank(req[r].call, code, arrived)
  <1>1. /\ q.call = req[r].call /\ q.job = "none" /\ q.victims = {} /\ q.missing = {}
        /\ q.cancelled = FALSE /\ q.arrived = arrived
    BY DEF Blank
  <1>2. Goto(r, "done", q)
    BY DEF Finish
  <1> HIDE DEF q
  <1>3. pc'[r] = "done" /\ req'[r] = q /\ Service(r)' = s
    BY <1>1, <1>2 DEF Goto, Inv, TypeOK, Service
  <1>4. Rouses(r)'
    BY <1>1, <1>3 DEF Rouses
  <1>5. arrived => Attends(r, s)'
    BY <1>1, <1>3 DEF Attends
  <1>6. UNCHANGED <<containers, networks, rows, attached>>
    BY DEF engineVars
  <1> QED
    BY <1>1, <1>2, <1>4, <1>5, <1>6, LookingOn

LEMMA AnswersCold ==
    ASSUME FromZeroOrOne, Inv, Cold, NEW r \in Requests, pc[r] # "idle", HandlerStep(r),
           UNCHANGED <<engineVars, rows>>, NEW code, Answer(r, code),
           pc[r] = "cstart" => <<r, 0>> \notin Existing,
           NEW s, s = Service(r),
           s \in DOMAIN rows =>
              /\ Starts(r, s) => Up(s) \/ \E t \in Requests : t # r /\ Starts(t, s)
              /\ ~Records(r, s)
              /\ ~(Up(s) /\ Attends(r, s))
    PROVE  Cold'
  <1>1. PICK c : Finish(r, c, FALSE)
    BY DEF Answer
  <1> QED
    BY <1>1, EndsCold

--------------------------------------------------------------------------------
(* The steps of an invocation *)

LEMMA LookupCold ==
    ASSUME FromZeroOrOne, Inv, Cold, NEW r \in Requests, Lookup(r), HandlerStep(r),
           Op(r) \in {"invoke", "async"}
    PROVE  Cold'
  <1>1. /\ pc[r] = "lookup" /\ UNCHANGED <<engineVars, rows>>
        /\ TypeOK /\ Scene /\ Rouses(r) /\ req[r] \in Request
    BY RouseFacts DEF Lookup
  <1>2. PICK s : s = Service(r)
    OBVIOUS
  <1>3. PICK row \in {GetFunction(s), NoRow} :
          LookedUp(r, row) /\ HandleInvokeFunction(r, row)
    BY <1>2 DEF Lookup
  <1>4. row = GetFunction(s)
    BY <1>2, <1>3, NoFaults DEF LookedUp
  <1>5. IF row = NoRow THEN s \notin DOMAIN rows ELSE s \in DOMAIN rows /\ row = rows[s]
    BY <1>1, <1>4, NoRowAssumption DEF GetFunction, Stored, TypeOK, StoreTypeOK
  <1>6. CASE row = NoRow
    BY <1>1, <1>2, <1>3, <1>5, <1>6, AnswersCold DEF HandleInvokeFunction
  <1>7. CASE row # NoRow
    <2> DEFINE q == [req[r] EXCEPT !.job = "invoke", !.row = row]
    <2>1. /\ q.job = "invoke" /\ q.row = row /\ q.call = req[r].call
          /\ q.cancelled = req[r].cancelled /\ q.victims = req[r].victims
          /\ q.missing = req[r].missing
      BY <1>1 DEF Request
    <2>2. Goto(r, "probe", q)
      BY <1>3, <1>7 DEF HandleInvokeFunction, Begin
    <2> HIDE DEF q
    <2>3. pc'[r] = "probe" /\ req'[r] = q /\ Service(r)' = s
      BY <1>1, <1>2, <2>1, <2>2 DEF Goto, TypeOK, Service
    <2>4. row.network \in DOMAIN networks
      BY <1>1, <1>5, <1>7 DEF Scene
    <2>5. UNCHANGED <<containers, networks, attached, rows>>
      BY <1>1 DEF engineVars
    <2>6. Rouses(r)'
      BY <1>1, <1>5, <1>7, <2>1, <2>3, <2>4, <2>5 DEF Rouses, Stored
    <2>7. Starts(r, s)' /\ Attends(r, s)' /\ ~Records(r, s)
      BY <1>1, <2>3 DEF Starts, Attends, Records
    <2> QED
      BY <1>1, <1>2, <2>1, <2>2, <2>5, <2>6, <2>7, LookingOn
  <1> QED
    BY <1>6, <1>7

\* A handler that goes on with what it knows.
LEMMA GoesOnCold ==
    ASSUME FromZeroOrOne, Inv, Cold, NEW r \in Requests, pc[r] # "idle", HandlerStep(r),
           UNCHANGED <<engineVars, rows>>, pc[r] # "cstart",
           NEW label, NEW q, Goto(r, label, q), Keeps(r, q), q.cancelled = req[r].cancelled,
           label \notin {"idle", "remove", "pull", "netcreate"},
           label \in {"inspect", "rmstale", "ccreate", "cstart"} => req[r].row.network \in attached,
           q.missing \in {{}, {0}},
           \A v \in q.victims : label = "reap" /\ IsStale(v.state) /\ q.missing = {0},
           NEW s, s = Service(r),
           s \in DOMAIN rows =>
              /\ Starts(r, s) => Up(s) \/ Starts(r, s)'
              /\ Records(r, s) => Records(r, s)'
              /\ Up(s) /\ Attends(r, s) => Attends(r, s)'
    PROVE  Cold'
  <1>1. UNCHANGED <<containers, networks, attached, rows>>
    BY DEF engineVars
  <1>2. /\ pc'[r] = label /\ req'[r] = q /\ Service(r)' = s
        /\ q.call = req[r].call /\ q.job = req[r].job /\ q.row = req[r].row
    BY DEF Goto, Inv, TypeOK, Keeps, Service
  <1>3. Rouses(r)
    BY DEF Cold
  <1>4. Rouses(r)'
    BY <1>1, <1>2, <1>3 DEF Rouses, Stored
  <1> QED
    BY <1>1, <1>2, <1>4, LookingOn

\* What the provider lists of a function and plans for one replica.
LEMMA PlanOfOne ==
    ASSUME Inv, Cold, NEW s, NEW plan, plan = ScalePlan(Listing(s), 1)
    PROVE  /\ plan.missing \in {{}, {0}}
           /\ (plan.missing = {}) <=> Up(s)
           /\ \A v \in plan.stale \cup plan.active : IsStale(v.state) /\ plan.missing = {0}
  <1> DEFINE L == Listing(s)
  <1>1. \A c \in ContainersOf(s) :
           /\ containers[c].replica = 0
           /\ containers[c].state = "running" \/ containers[c].state = "created"
           /\ \A d \in ContainersOf(s) : d = c
    BY DEF Cold, Scene, ContainersOf
  <1>2. \A v \in L : /\ v.id \in ContainersOf(s) /\ v = Summary(v.id)
                     /\ v.state = containers[v.id].state /\ v.replica = 0 /\ v.created = 0
                     /\ v.state = "running" \/ v.state = "created"
    BY <1>1 DEF Listing, Summary
  <1>3. \A v, w \in L : v = w
    BY <1>1, <1>2
  <1>4. Up(s) <=> \E v \in L : v.state = "running"
    <2>1. \A c \in ContainersOf(s) : Summary(c) \in L /\ Summary(c).state = containers[c].state
      BY DEF Listing, Summary
    <2> QED
      BY <1>2, <2>1 DEF Up, Running
  <1> HIDE DEF L
  <1>5. Live(L) = {v \in L : v.state = "running"}
    BY <1>2 DEF Live, IsStale
  <1>6. Indices(L) = IF Up(s) THEN {0} ELSE {}
    BY <1>2, <1>4, <1>5 DEF Indices, NoIndex
  <1>7. plan.missing = {0} \ Indices(L)
    BY DEF ScalePlan, L
  <1>8. \A v \in Live(L) : v \in Kept(L)
    <2> TAKE v \in Live(L)
    <2>1. v \in L /\ v.replica = 0 /\ v.created = 0 /\ v.state = "running"
      BY <1>2, <1>5
    <2>2. Group(L, 0) = {v}
      BY <1>3, <1>5, <2>1 DEF Group
    <2>3. ~Preferred(v, v)
      BY <2>1 DEF Preferred
    <2>4. Keeper({v}) = v
      BY <2>3 DEF Keeper, IsKeeper
    <2>5. 0 \in Indices(L)
      BY <1>4, <1>6, <2>1
    <2> QED
      BY <2>2, <2>4, <2>5 DEF Kept
  <1>9. plan.active = {} /\ plan.stale = L \ Live(L)
    BY <1>2, <1>5, <1>8 DEF ScalePlan, L, NoIndex
  <1>10. \A v \in plan.stale : v.state = "created" /\ Live(L) = {}
    BY <1>2, <1>3, <1>5, <1>9
  <1> QED
    BY <1>4, <1>5, <1>6, <1>7, <1>9, <1>10 DEF IsStale

LEMMA ListCold ==
    ASSUME FromZeroOrOne, Inv, Cold, NEW r \in Requests, List(r), HandlerStep(r)
    PROVE  Cold'
  <1>1. /\ pc[r] = "list" /\ UNCHANGED <<engineVars, rows>>
        /\ TypeOK /\ Rouses(r) /\ req[r] \in Request
        /\ ~RemovesAll(r) /\ Target(r) = 1
    BY RouseFacts DEF List
  <1>2. PICK s : s = Service(r)
    OBVIOUS
  <1>3. ~Refused(r)
    BY <1>1, NoFaults DEF Refused, Rouses
  <1> DEFINE plan == ScalePlan(Listing(s), 1)
             q == [req[r] EXCEPT !.victims = plan.stale \cup plan.active,
                                 !.missing = plan.missing]
  <1>4. Goto(r, "reap", q)
    BY <1>1, <1>2, <1>3 DEF List
  <1>5. /\ Keeps(r, q) /\ q.call = req[r].call /\ q.cancelled = req[r].cancelled
        /\ q.victims = plan.stale \cup plan.active /\ q.missing = plan.missing
    BY <1>1 DEF Request, Keeps
  <1> HIDE DEF plan, q
  <1>6. /\ q.missing \in {{}, {0}} /\ (q.missing = {} <=> Up(s))
        /\ \A v \in q.victims : IsStale(v.state) /\ q.missing = {0}
    BY <1>5, PlanOfOne DEF plan
  <1>7. pc'[r] = "reap" /\ req'[r] = q /\ Service(r)' = s
    BY <1>1, <1>2, <1>4, <1>5 DEF Goto, TypeOK, Service
  <1>8. q.missing = {0} \/ q.missing = {}
    BY <1>6
  <1>9. Up(s) \/ Starts(r, s)'
    BY <1>6, <1>7, <1>8 DEF Starts
  <1>10. ~Records(r, s)
    BY <1>1 DEF Records
  <1>11. Up(s) => Attends(r, s)'
    BY <1>6, <1>7 DEF Attends
  <1> QED
    BY <1>1, <1>2, <1>4, <1>5, <1>6, <1>9, <1>10, <1>11, GoesOnCold

\* It removes a container of its function, to make one in its place.
LEMMA RemovesCold ==
    ASSUME FromZeroOrOne, Inv, Cold, NEW r \in Requests, pc[r] # "idle", HandlerStep(r),
           pc[r] \in {"reap", "rmstale"}, UNCHANGED rows,
           NEW c, NEW s, s = Service(r), CreatedFor(c, s), ContainerRemove(c),
           NEW label, NEW q, Goto(r, label, q), q.call = req[r].call,
           Rouses(r)', Starts(r, s)', ~Records(r, s), ~Attends(r, s)
    PROVE  Cold'
  <1>1. \A t \in Requests : IF t = r THEN pc'[t] = label /\ req'[t] = q
                                     ELSE pc'[t] = pc[t] /\ req'[t] = req[t]
    BY DEF Goto, Inv, TypeOK
  <1>2. \A t \in Requests : Service(t)' = Service(t) /\ req'[t].call = req[t].call
    BY <1>1 DEF Service
  <1>3. /\ Existing' = Existing \ {c} /\ UNCHANGED <<networks, attached>>
        /\ \A d \in Existing' : d \in Existing /\ containers'[d] = containers[d]
    BY DEF ContainerRemove, Existing
  <1>4. Scene
    BY DEF Cold
  <1>5. \A d \in Existing' : d[1] \in Requests /\ pc[d[1]] = "cstart" => pc'[d[1]] = "cstart"
    BY <1>1
  <1>6. Scene'
    BY <1>3, <1>4, <1>5 DEF Scene
  <1>7. ASSUME s \in DOMAIN rows
        PROVE  Rises(s)'
    <2>1. Rises(s)
      BY <1>7 DEF Cold
    <2>2. Running(s)' \subseteq Running(s) /\ (Up(s)' => Up(s))
      BY <1>3 DEF Running, ContainersOf, Up
    <2>3. Up(s)' => Running(s)' = Running(s)
      BY <1>3, <1>4 DEF Up, Running, ContainersOf, Scene
    <2>4. Called(s)' => Called(s)
      BY <1>2 DEF Called
    <2>5. \A t \in Requests : Records(t, s) => Records(t, s)'
      BY <1>1, <1>2 DEF Records
    <2>6. \A t \in Requests : Up(s)' /\ Attends(t, s) => Attends(t, s)'
      BY <1>1, <1>2, <2>3 DEF Attends
    <2>7. Up(s)' => rows'[s].replicas = 1 \/ \E t \in Requests : Records(t, s)'
      BY <2>1, <2>2, <2>5 DEF Rises
    <2>8. Up(s)' /\ Called(s)' => \E t \in Requests : Attends(t, s)'
      BY <2>1, <2>2, <2>4, <2>6 DEF Rises
    <2> QED
      BY <2>7, <2>8 DEF Rises
  <1> QED
    BY <1>3, <1>6, <1>7, OthersRouse

LEMMA ReapFacts ==
    ASSUME FromZeroOrOne, Inv, Cold, NEW r \in Requests,
           pc[r] \in {"list", "reap", "setreplicas"} \cup CreatingLabels
    PROVE  /\ TypeOK /\ Scene /\ Rouses(r) /\ req[r] \in Request /\ Aims(req[r])
           /\ Knows(pc[r], req[r]) /\ ~RemovesAll(r) /\ Target(r) = 1
           /\ req[r].job = "wake" /\ Service(r) \in DOMAIN rows
           /\ ~req[r].cancelled /\ ~Refused(r)
           /\ Net(r) = req[r].row.network /\ Net(r) \in DOMAIN networks
           /\ req[r].missing # {} => req[r].missing = {0} /\ NextReplica(r) = 0
  <1>1. pc[r] \notin {"idle", "lookup", "done"}
    BY DEF CreatingLabels
  <1> QED
    BY <1>1, RouseFacts, NoFaults DEF Refused, Rouses, Stored

LEMMA NoVictimIsStopped ==
    ASSUME FromZeroOrOne, Inv, Cold, NEW r \in Requests
    PROVE  ~StopVictim(r)
  <1> SUFFICES ASSUME StopVictim(r)
               PROVE  FALSE
    OBVIOUS
  <1>1. pc[r] = "reap"
    BY DEF StopVictim
  <1>2. ~RemovesAll(r) /\ Rouses(r)
    BY <1>1, ReapFacts
  <1>3. PICK v \in req[r].victims : Stops(r, v)
    BY DEF StopVictim, NextVictims
  <1> QED
    BY <1>2, <1>3 DEF Stops, IsRunning, IsStale, Rouses

LEMMA RemoveVictimCold ==
    ASSUME FromZeroOrOne, Inv, Cold, NEW r \in Requests, RemoveVictim(r), HandlerStep(r)
    PROVE  Cold'
  <1>1. pc[r] = "reap" /\ UNCHANGED rows
    <2>1. pc[r] \in {"reap", "remove"} /\ UNCHANGED rows
      BY DEF RemoveVictim
    <2> QED
      BY <2>1 DEF Cold, Rouses
  <1>2. /\ TypeOK /\ Rouses(r) /\ req[r] \in Request /\ ~Refused(r) /\ req[r].job = "wake"
    BY <1>1, ReapFacts
  <1>3. PICK s : s = Service(r)
    OBVIOUS
  <1>4. PICK v \in req[r].victims : ContainerRemove(v.id) /\ Goto(r, "reap", Gone(r, v))
    BY <1>2 DEF RemoveVictim
  <1>5. CreatedFor(v.id, s) /\ req[r].missing = {0}
    BY <1>2, <1>3, VictimIsOwn DEF Rouses, FromZeroOrOne
  <1> DEFINE q == Gone(r, v)
  <1>6. /\ q.call = req[r].call /\ q.job = req[r].job /\ q.row = req[r].row
        /\ q.cancelled = req[r].cancelled /\ q.missing = req[r].missing
        /\ q.victims \subseteq req[r].victims
    BY <1>2 DEF Gone, Request
  <1> HIDE DEF q
  <1>7. pc'[r] = "reap" /\ req'[r] = q /\ Service(r)' = s
    BY <1>2, <1>3, <1>4, <1>6 DEF Goto, TypeOK, Service, q
  <1>8. UNCHANGED <<networks, attached>>
    BY <1>4 DEF ContainerRemove
  <1>9. Rouses(r)'
    BY <1>1, <1>2, <1>3, <1>5, <1>6, <1>7, <1>8 DEF Rouses, Stored
  <1>10. Starts(r, s)' /\ ~Records(r, s)
    BY <1>1, <1>5, <1>6, <1>7 DEF Starts, Records
  <1>11. ~Attends(r, s)
    BY <1>1, <1>5 DEF Attends
  <1> QED
    BY <1>1, <1>3, <1>4, <1>5, <1>6, <1>9, <1>10, <1>11, RemovesCold DEF q

LEMMA ReapedCold ==
    ASSUME FromZeroOrOne, Inv, Cold, NEW r \in Requests, Reaped(r), HandlerStep(r)
    PROVE  Cold'
  <1>1. pc[r] = "reap" /\ req[r].victims = {} /\ UNCHANGED <<engineVars, rows>>
    BY DEF Reaped
  <1>2. TypeOK /\ Rouses(r) /\ req[r].job = "wake"
    BY <1>1, ReapFacts
  <1>3. PICK s : s = Service(r)
    OBVIOUS
  <1>4. Goto(r, "create", req[r])
    BY <1>2 DEF Reaped
  <1>5. pc'[r] = "create" /\ req'[r] = req[r] /\ Service(r)' = s
    BY <1>2, <1>3, <1>4 DEF Goto, TypeOK, Service
  <1>6. /\ Starts(r, s) => Starts(r, s)'
        /\ ~Records(r, s)
        /\ Attends(r, s) => Attends(r, s)'
    BY <1>1, <1>5 DEF Starts, Records, Attends
  <1> QED
    BY <1>1, <1>2, <1>3, <1>4, <1>6, GoesOnCold DEF Rouses, Keeps

LEMMA ListNetworksCold ==
    ASSUME FromZeroOrOne, Inv, Cold, NEW r \in Requests, ListNetworks(r), HandlerStep(r)
    PROVE  Cold'
  <1>1. pc[r] = "create" /\ UNCHANGED <<engineVars, rows>> /\ req[r].missing # {}
    BY DEF ListNetworks
  <1>2. /\ TypeOK /\ Rouses(r) /\ ~Refused(r) /\ Net(r) \in DOMAIN networks
        /\ req[r].missing = {0}
    BY <1>1, ReapFacts DEF CreatingLabels
  <1>3. PICK s : s = Service(r)
    OBVIOUS
  <1>4. Goto(r, "connect", req[r])
    BY <1>2 DEF ListNetworks
  <1>5. pc'[r] = "connect" /\ req'[r] = req[r] /\ Service(r)' = s
    BY <1>2, <1>3, <1>4 DEF Goto, TypeOK, Service
  <1>6. /\ Starts(r, s) => Starts(r, s)'
        /\ ~Records(r, s) /\ ~Attends(r, s)
    BY <1>1, <1>2, <1>5 DEF Starts, Records, Attends
  <1> QED
    BY <1>1, <1>2, <1>3, <1>4, <1>6, GoesOnCold DEF Rouses, Keeps

LEMMA ConnectGatewayCold ==
    ASSUME FromZeroOrOne, Inv, Cold, NEW r \in Requests, ConnectGateway(r), HandlerStep(r)
    PROVE  Cold'
  <1>1. pc[r] = "connect" /\ UNCHANGED rows
    BY DEF ConnectGateway
  <1>2. /\ TypeOK /\ Rouses(r) /\ ~Refused(r) /\ Net(r) \in DOMAIN networks
        /\ req[r].missing # {} /\ Net(r) = req[r].row.network
    BY <1>1, ReapFacts DEF CreatingLabels, Knows
  <1>3. PICK s : s = Service(r)
    OBVIOUS
  <1>4. NetworkConnect(Net(r)) /\ Goto(r, "inspect", req[r])
    BY <1>2 DEF ConnectGateway
  <1>5. pc'[r] = "inspect" /\ req'[r] = req[r] /\ Service(r)' = s
    BY <1>2, <1>3, <1>4 DEF Goto, TypeOK, Service
  <1>6. /\ UNCHANGED <<containers, networks>> /\ attached \subseteq attached'
        /\ req[r].row.network \in attached'
    BY <1>2, <1>4 DEF NetworkConnect
  <1>7. Rouses(r)'
    BY <1>1, <1>2, <1>3, <1>5, <1>6 DEF Rouses, Stored
  <1>8. /\ Starts(r, s) => Starts(r, s)'
        /\ ~Records(r, s) /\ ~Attends(r, s)
    BY <1>1, <1>5 DEF Starts, Records, Attends
  <1> QED
    BY <1>1, <1>3, <1>4, <1>6, <1>7, <1>8, LookingOn

LEMMA InspectNameCold ==
    ASSUME FromZeroOrOne, Inv, Cold, NEW r \in Requests, InspectName(r), HandlerStep(r)
    PROVE  Cold'
  <1>1. pc[r] = "inspect" /\ UNCHANGED <<engineVars, rows>>
    BY DEF InspectName
  <1>2. /\ TypeOK /\ Scene /\ Rouses(r) /\ ~Refused(r) /\ req[r] \in Request
        /\ req[r].missing = {0} /\ NextReplica(r) = 0
    BY <1>1, ReapFacts DEF CreatingLabels, Knows
  <1>3. PICK s : s = Service(r)
    OBVIOUS
  <1>4. ~Records(r, s) /\ ~Attends(r, s)
    BY <1>1 DEF Records, Attends
  <1>5. CASE Goto(r, "ccreate", req[r])
    <2>1. pc'[r] = "ccreate" /\ req'[r] = req[r] /\ Service(r)' = s
      BY <1>2, <1>3, <1>5 DEF Goto, TypeOK, Service
    <2>2. Starts(r, s)'
      BY <1>2, <2>1 DEF Starts
    <2> QED
      BY <1>1, <1>2, <1>3, <1>4, <1>5, <2>2, GoesOnCold DEF Rouses, Keeps
  <1>6. ASSUME NEW c, Goto(r, "rmstale", [req[r] EXCEPT !.cur = c])
        PROVE  Cold'
    <2> DEFINE q == [req[r] EXCEPT !.cur = c]
    <2>1. Keeps(r, q) /\ q.cancelled = req[r].cancelled /\ q.missing = req[r].missing
          /\ q.victims = req[r].victims /\ q.call = req[r].call
      BY <1>2 DEF Keeps, Request
    <2> HIDE DEF q
    <2>2. Goto(r, "rmstale", q)
      BY <1>6 DEF q
    <2>3. pc'[r] = "rmstale" /\ req'[r] = q /\ Service(r)' = s
      BY <1>2, <1>3, <2>1, <2>2 DEF Goto, TypeOK, Service
    <2>4. Starts(r, s)'
      BY <1>2, <2>1, <2>3 DEF Starts
    <2> QED
      BY <1>1, <1>2, <1>3, <1>4, <2>1, <2>2, <2>4, GoesOnCold DEF Rouses
  <1>7. ASSUME NEW c \in Named(s, 0), ~IsStale(containers[c].state), Answer(r, 500)
        PROVE  Cold'
    <2>1. c \in ContainersOf(s) /\ c \in Existing
      BY <1>7, OwnersByLabel DEF ContainersOf, FromZeroOrOne
    <2>2. containers[c].state = "running"
      BY <1>2, <1>7, <2>1 DEF Scene, IsStale
    <2>3. Up(s)
      BY <2>1, <2>2 DEF Up, Running
    <2> QED
      BY <1>1, <1>3, <1>4, <1>7, <2>3, AnswersCold
  <1>8. \/ Goto(r, "ccreate", req[r])
        \/ \E c \in Named(s, 0) :
             \/ Goto(r, "rmstale", [req[r] EXCEPT !.cur = c])
             \/ ~IsStale(containers[c].state) /\ Answer(r, 500)
    BY <1>2, <1>3 DEF InspectName
  <1> QED
    BY <1>5, <1>6, <1>7, <1>8

LEMMA RemoveStaleCold ==
    ASSUME FromZeroOrOne, Inv, Cold, NEW r \in Requests, RemoveStale(r), HandlerStep(r)
    PROVE  Cold'
  <1>1. pc[r] = "rmstale" /\ UNCHANGED rows
    BY DEF RemoveStale
  <1>2. /\ TypeOK /\ Rouses(r) /\ ~Refused(r) /\ req[r] \in Request
        /\ req[r].missing = {0} /\ req[r].cur # NoContainer /\ Aims(req[r])
    BY <1>1, ReapFacts DEF CreatingLabels, Knows
  <1>3. PICK s : s = Service(r)
    OBVIOUS
  <1>4. PICK c : c = req[r].cur
    OBVIOUS
  <1> DEFINE q == [req[r] EXCEPT !.cur = NoContainer]
  <1>5. ContainerRemove(c) /\ Goto(r, "ccreate", q)
    BY <1>2, <1>4 DEF RemoveStale
  <1>6. /\ q.call = req[r].call /\ q.job = req[r].job /\ q.row = req[r].row
        /\ q.cancelled = req[r].cancelled /\ q.missing = req[r].missing
        /\ q.victims = req[r].victims
    BY <1>2 DEF Request
  <1> HIDE DEF q
  <1>7. pc'[r] = "ccreate" /\ req'[r] = q /\ Service(r)' = s
    BY <1>2, <1>3, <1>5, <1>6 DEF Goto, TypeOK, Service
  <1>8. UNCHANGED <<networks, attached>>
    BY <1>5 DEF ContainerRemove
  <1>9. Rouses(r)'
    BY <1>1, <1>2, <1>3, <1>6, <1>7, <1>8 DEF Rouses, Stored
  <1>10. Starts(r, s)' /\ ~Records(r, s) /\ ~Attends(r, s)
    BY <1>1, <1>2, <1>6, <1>7 DEF Starts, Records, Attends
  <1>11. CreatedFor(c, s)
    BY <1>2, <1>3, <1>4 DEF Aims, Service, FromZeroOrOne
  <1> QED
    BY <1>1, <1>3, <1>5, <1>6, <1>9, <1>10, <1>11, RemovesCold

LEMMA CreateContainerCold ==
    ASSUME FromZeroOrOne, Inv, Cold, NEW r \in Requests, CreateContainer(r), HandlerStep(r)
    PROVE  Cold'
  <1>1. pc[r] = "ccreate" /\ UNCHANGED rows
    BY DEF CreateContainer
  <1>2. /\ TypeOK /\ Scene /\ Rouses(r) /\ ~Refused(r)
        /\ req[r].missing = {0} /\ NextReplica(r) = 0 /\ Net(r) = req[r].row.network
    BY <1>1, ReapFacts DEF CreatingLabels, Knows
  <1>3. PICK s : s = Service(r)
    OBVIOUS
  <1>4. ~Records(r, s) /\ ~Attends(r, s)
    BY <1>1 DEF Records, Attends
  <1>5. ASSUME NEW c \in Named(s, 0), Answer(r, 500), UNCHANGED engineVars
        PROVE  Cold'
    <2>1. c \in ContainersOf(s)
      BY <1>5, OwnersByLabel DEF FromZeroOrOne
    <2>2. Up(s) \/ \E t \in Requests : t # r /\ Starts(t, s)
      BY <1>1, <2>1, SomebodyStarts
    <2> QED
      BY <1>1, <1>3, <1>4, <1>5, <2>2, AnswersCold
  <1>6. ASSUME NEW c, c = <<r, 0>>, NEW dep, dep = DeploymentOf(r),
               ContainerCreate(c, dep, 0), Goto(r, "cstart", req[r])
        PROVE  Cold'
    <2>1. pc'[r] = "cstart" /\ req'[r] = req[r] /\ Service(r)' = s
      BY <1>2, <1>3, <1>6 DEF Goto, TypeOK, Service
    <2>2. \A t \in Requests : t # r => pc'[t] = pc[t]
      BY <1>2, <1>6 DEF Goto, TypeOK
    <2>3. /\ dep.service = s /\ dep.network \in attached
          /\ dep.labels = OwnLabels(s) /\ dep.labels[0] = <<s, 0>>
      <3>1. dep.service = s /\ dep.network \in attached
        BY <1>1, <1>2, <1>3, <1>6 DEF DeploymentOf, Net, Rouses
      <3>2. dep.labels = OwnLabels(s)
        BY <1>1, <1>3, <1>6, DeploymentIsOwn DEF CreatingLabels, FromZeroOrOne
      <3>3. 0 \in Replicas
        BY MaxReplicasAssumption DEF Replicas
      <3> QED
        BY <3>1, <3>2, <3>3 DEF OwnLabels
    <2>4. /\ Existing' = Existing \cup {c} /\ UNCHANGED <<networks, attached>>
          /\ \A d \in Existing : d # c => containers'[d] = containers[d]
          /\ containers'[c].service = s /\ containers'[c].replica = 0
          /\ containers'[c].network = dep.network /\ containers'[c].state = "created"
      <3>1. containers' = [d \in Existing \cup {c} |-> IF d = c THEN Made(dep, 0) ELSE containers[d]]
        BY <1>6 DEF ContainerCreate
      <3>2. /\ Made(dep, 0).service = s /\ Made(dep, 0).replica = 0
            /\ Made(dep, 0).network = dep.network /\ Made(dep, 0).state = "created"
        BY <2>3 DEF Made
      <3> QED
        BY <1>6, <3>1, <3>2 DEF ContainerCreate, Existing
    <2>5. \A d \in Existing : containers[d].service # s
      <3>1. {d \in ContainersOf(s) : containers[d].replica = 0} = {}
        BY <1>6, <2>3, OwnersByLabel DEF ContainerCreate, FromZeroOrOne
      <3> QED
        BY <1>2, <3>1 DEF ContainersOf, Scene
    <2>6. \A d \in Existing' : d = c \/ (d \in Existing /\ containers'[d] = containers[d])
      BY <2>4
    <2>7. \A d \in Existing' :
             /\ containers'[d].replica = 0
             /\ containers'[d].network \in attached'
             /\ \/ containers'[d].state = "running"
                \/ /\ containers'[d].state = "created"
                   /\ d[1] \in Requests /\ pc'[d[1]] = "cstart" /\ d[2] = 0
      <3> TAKE d \in Existing'
      <3>1. CASE d = c
        BY <1>6, <2>1, <2>3, <2>4, <3>1
      <3>2. CASE d # c
        <4>1. d \in Existing /\ containers'[d] = containers[d]
          BY <2>6, <3>2
        <4>2. d[1] \in Requests /\ pc[d[1]] = "cstart" => pc'[d[1]] = "cstart"
          BY <1>1, <2>2
        <4> QED
          BY <1>2, <2>4, <4>1, <4>2 DEF Scene
      <3> QED
        BY <3>1, <3>2
    <2>8. \A d, e \in Existing' : containers'[d].service = containers'[e].service => d = e
      BY <1>2, <2>4, <2>5, <2>6 DEF Scene
    <2>9. Scene'
      BY <1>1, <1>2, <2>4, <2>7, <2>8 DEF Scene
    <2>10. Rouses(r)'
      BY <1>1, <1>2, <1>3, <2>1, <2>4 DEF Rouses, Stored
    <2>11. Starts(r, s)'
      BY <1>6, <2>1, <2>4 DEF Starts
    <2>12. ~Up(s)'
      BY <2>4, <2>5, <2>6 DEF Up, Running, ContainersOf
    <2>13. Rises(s)'
      BY <2>11, <2>12 DEF Rises
    <2> QED
      BY <1>1, <1>3, <2>4, <2>9, <2>10, <2>13, OthersRouse
  <1> QED
    BY <1>2, <1>3, <1>5, <1>6 DEF CreateContainer, NewContainer

LEMMA StartContainerCold ==
    ASSUME FromZeroOrOne, Inv, Cold, NEW r \in Requests, StartContainer(r), HandlerStep(r)
    PROVE  Cold'
  <1>1. pc[r] = "cstart" /\ UNCHANGED rows
    BY DEF StartContainer
  <1>2. /\ TypeOK /\ Scene /\ Rouses(r) /\ ~Refused(r) /\ req[r] \in Request
        /\ req[r].missing = {0} /\ NextReplica(r) = 0
    BY <1>1, ReapFacts DEF CreatingLabels, Knows
  <1>3. PICK s : s = Service(r)
    OBVIOUS
  <1>4. ~Records(r, s) /\ ~Attends(r, s)
    BY <1>1 DEF Records, Attends
  <1>5. PICK c : c = <<r, 0>> /\ c = NewContainer(r)
    BY <1>2 DEF NewContainer
  <1>6. CASE c \notin Existing
    <2>1. Answer(r, 500) /\ UNCHANGED engineVars
      BY <1>2, <1>5, <1>6 DEF StartContainer, ContainerStart, Startable
    <2>2. ~Starts(r, s)
      BY <1>1, <1>5, <1>6 DEF Starts
    <2> QED
      BY <1>1, <1>3, <1>4, <1>5, <1>6, <2>1, <2>2, AnswersCold
  <1>7. CASE c \in Existing
    <2>1. Startable(c)
      BY <1>2, <1>7 DEF Startable, Scene, TypeOK, EngineTypeOK
    <2> DEFINE q == [req[r] EXCEPT !.missing = @ \ {NextReplica(r)}]
    <2>2. ContainerStart(c) /\ Goto(r, "create", q)
      BY <1>2, <1>5, <2>1 DEF StartContainer
    <2>3. /\ q.call = req[r].call /\ q.job = req[r].job /\ q.row = req[r].row
          /\ q.cancelled = req[r].cancelled /\ q.missing = {}
          /\ q.victims = req[r].victims
      BY <1>2 DEF Request
    <2> HIDE DEF q
    <2>4. pc'[r] = "create" /\ req'[r] = q /\ Service(r)' = s
      BY <1>2, <1>3, <2>2, <2>3 DEF Goto, TypeOK, Service
    <2>5. \A t \in Requests : t # r => pc'[t] = pc[t]
      BY <1>2, <2>2 DEF Goto, TypeOK
    <2>6. /\ Existing' = Existing /\ UNCHANGED <<networks, attached>>
          /\ \A d \in Existing :
                /\ d # c => containers'[d] = containers[d]
                /\ containers'[d].service = containers[d].service
                /\ containers'[d].replica = containers[d].replica
                /\ containers'[d].network = containers[d].network
          /\ containers'[c].state = "running"
      BY <1>2, <1>7, <2>2
      DEF ContainerStart, SetState, Existing, TypeOK, EngineTypeOK, Container
    <2>7. containers[c].service = s
      <3>1. CreatedFor(c, containers[c].service)
        BY <1>7, OwnersByLabel DEF FromZeroOrOne
      <3>2. CreatedFor(c, s)
        BY <1>1, <1>3, <1>5, NewContainerIsOwn
      <3> QED
        BY <3>1, <3>2, OneOwner
    <2>8. \A d \in Existing :
             \/ containers'[d].state = "running"
             \/ /\ containers'[d].state = "created"
                /\ d[1] \in Requests /\ pc'[d[1]] = "cstart" /\ d[2] = 0
      <3> TAKE d \in Existing
      <3>1. CASE d = c
        BY <2>6, <3>1
      <3>2. CASE d # c /\ containers[d].state # "running"
        <4>1. /\ containers[d].state = "created" /\ d[1] \in Requests
              /\ pc[d[1]] = "cstart" /\ d[2] = 0
          BY <1>2, <3>2 DEF Scene
        <4>2. d = <<d[1], 0>>
          BY <1>2, <4>1 DEF TypeOK, EngineTypeOK, Existing, ContainerIds
        <4>3. d[1] # r
          BY <1>5, <3>2, <4>2
        <4> QED
          BY <2>5, <2>6, <3>2, <4>1, <4>3
      <3> QED
        BY <2>6, <3>1, <3>2
    <2>9. Scene'
      BY <1>1, <1>2, <2>6, <2>8 DEF Scene
    <2>10. Rouses(r)'
      <3>1. \A v \in q.victims : IsStale(v.state) /\ q.missing = {0}
        BY <1>1, <1>2, <2>3 DEF Rouses
      <3> QED
        BY <1>1, <1>2, <1>3, <2>3, <2>4, <2>6, <3>1 DEF Rouses, Stored
    <2>11. Records(r, s)' /\ Attends(r, s)'
      BY <2>3, <2>4 DEF Records, Attends
    <2>12. Up(s)'
      BY <1>7, <2>6, <2>7 DEF Up, Running, ContainersOf
    <2>13. Rises(s)'
      BY <2>11, <2>12 DEF Rises
    <2> QED
      BY <1>1, <1>3, <2>6, <2>9, <2>10, <2>13, OthersRouse
  <1> QED
    BY <1>6, <1>7

LEMMA CreatedCold ==
    ASSUME FromZeroOrOne, Inv, Cold, NEW r \in Requests, Created(r), HandlerStep(r)
    PROVE  Cold'
  <1>1. pc[r] = "create" /\ req[r].missing = {} /\ UNCHANGED <<engineVars, rows>>
    BY DEF Created
  <1>2. TypeOK /\ Rouses(r) /\ req[r].job = "wake"
    BY <1>1, ReapFacts DEF CreatingLabels
  <1>3. PICK s : s = Service(r)
    OBVIOUS
  <1>4. Goto(r, "setreplicas", req[r])
    BY <1>2 DEF Created
  <1>5. pc'[r] = "setreplicas" /\ req'[r] = req[r] /\ Service(r)' = s
    BY <1>2, <1>3, <1>4 DEF Goto, TypeOK, Service
  <1>6. ~Starts(r, s) /\ Records(r, s)' /\ Attends(r, s)'
    BY <1>1, <1>5 DEF Starts, Records, Attends
  <1> QED
    BY <1>1, <1>2, <1>3, <1>4, <1>6, GoesOnCold DEF Rouses, Keeps

LEMMA SetReplicasCold ==
    ASSUME FromZeroOrOne, Inv, Cold, NEW r \in Requests, SetReplicas(r), HandlerStep(r)
    PROVE  Cold'
  <1>1. pc[r] = "setreplicas" /\ UNCHANGED engineVars
    BY DEF SetReplicas
  <1>2. /\ TypeOK /\ Scene /\ Rouses(r) /\ req[r].job = "wake" /\ Target(r) = 1
    BY <1>1, ReapFacts
  <1>3. PICK s : s = Service(r)
    OBVIOUS
  <1>4. s \in DOMAIN rows
    BY <1>1, <1>3, ReapFacts
  <1>5. UpdateReplicas(s, 1) /\ Goto(r, "wait", req[r])
    BY <1>2, <1>3, <1>4, NoFaults DEF SetReplicas, Stored
  <1>6. /\ pc'[r] = "wait" /\ req'[r] = req[r] /\ Service(r)' = s
        /\ \A t \in Requests : t # r => pc'[t] = pc[t] /\ req'[t] = req[t]
    BY <1>2, <1>3, <1>5 DEF Goto, TypeOK, Service
  <1>7. UNCHANGED <<containers, networks, attached>>
    BY <1>1 DEF engineVars
  <1>8. /\ DOMAIN rows' = DOMAIN rows /\ rows'[s].replicas = 1
        /\ \A u \in DOMAIN rows : /\ rows'[u].network = rows[u].network
                                  /\ rows'[u].replicas \in {0, 1}
    BY <1>2, <1>4, <1>5 DEF UpdateReplicas, TypeOK, StoreTypeOK, Row, Scene
  <1>9. Scene'
    <2>1. \A c \in Existing :
             c[1] \in Requests /\ pc[c[1]] = "cstart" => pc'[c[1]] = "cstart"
      BY <1>1, <1>6
    <2> QED
      BY <1>2, <1>7, <1>8, <2>1 DEF Scene, Existing
  <1>10. Rouses(r)'
    BY <1>1, <1>2, <1>3, <1>6, <1>7, <1>8 DEF Rouses, Stored
  <1>11. Rises(s)'
    <2>1. Rises(s)
      BY <1>4 DEF Cold
    <2>2. \A t \in Requests : Service(t)' = Service(t) /\ req'[t].call = req[t].call
      BY <1>3, <1>6 DEF Service
    <2>3. Called(s)' => Called(s)
      BY <2>2 DEF Called
    <2>4. Running(s)' = Running(s) /\ Up(s)' = Up(s) /\ Existing' = Existing
      BY <1>7 DEF Running, Up, ContainersOf, Existing
    <2>5. ~Starts(r, s) /\ Attends(r, s)'
      BY <1>1, <1>6 DEF Starts, Attends
    <2>6. \A t \in Requests : Starts(t, s) => Starts(t, s)'
      BY <1>6, <2>2, <2>4, <2>5 DEF Starts
    <2> QED
      BY <1>8, <2>1, <2>3, <2>4, <2>5, <2>6 DEF Rises
  <1> QED
    BY <1>1, <1>3, <1>7, <1>8, <1>9, <1>10, <1>11, OthersRouse

LEMMA ServingFacts ==
    ASSUME FromZeroOrOne, Inv, Cold, NEW r \in Requests,
           pc[r] \in {"probe", "wait", "accept", "route", "forward"}
    PROVE  /\ TypeOK /\ Scene /\ Rouses(r) /\ req[r] \in Request
           /\ ~req[r].cancelled /\ ~Refused(r)
           /\ \A s : ~Records(r, s)
           /\ pc[r] # "probe" => \A s : ~Starts(r, s)
  <1>1. TypeOK /\ Scene /\ Rouses(r) /\ req[r] \in Request
    BY RouseFacts
  <1> QED
    BY <1>1, NoFaults DEF Refused, Rouses, Records, Starts

LEMMA ProbeCold ==
    ASSUME FromZeroOrOne, Inv, Cold, NEW r \in Requests, Probe(r), HandlerStep(r)
    PROVE  Cold'
  <1>1. pc[r] = "probe" /\ UNCHANGED <<engineVars, rows>>
    BY DEF Probe
  <1>2. TypeOK /\ Rouses(r) /\ req[r] \in Request /\ ~Refused(r) /\ \A s : ~Records(r, s)
    BY <1>1, ServingFacts
  <1>3. PICK s : s = Service(r)
    OBVIOUS
  <1>4. CASE Up(s)
    <2>1. PICK label \in {"accept", "route"} : Goto(r, label, req[r])
      BY <1>2, <1>3, <1>4, NoFaults DEF Probe, Ready
    <2>2. pc'[r] = label /\ req'[r] = req[r] /\ Service(r)' = s
      BY <1>2, <1>3, <2>1 DEF Goto, TypeOK, Service
    <2>3. Attends(r, s)'
      BY <2>2 DEF Attends
    <2> QED
      BY <1>1, <1>2, <1>3, <1>4, <2>1, <2>3, GoesOnCold DEF Rouses, Keeps
  <1>5. CASE ~Up(s)
    <2> DEFINE q == [req[r] EXCEPT !.job = "wake", !.row = req[r].row]
    <2>1. /\ q.job = "wake" /\ q.row = req[r].row /\ q.call = req[r].call
          /\ q.cancelled = req[r].cancelled /\ q.victims = req[r].victims
          /\ q.missing = req[r].missing
      BY <1>2 DEF Request
    <2>2. Goto(r, "list", q)
      BY <1>2, <1>3, <1>5 DEF Probe, Begin
    <2> HIDE DEF q
    <2>3. pc'[r] = "list" /\ req'[r] = q /\ Service(r)' = s
      BY <1>2, <1>3, <2>1, <2>2 DEF Goto, TypeOK, Service
    <2>4. UNCHANGED <<containers, networks, attached, rows>>
      BY <1>1 DEF engineVars
    <2>5. Stored(s)
      BY <1>1, <1>3, RouseFacts
    <2>6. req[r].row.network \in DOMAIN networks
      BY <1>1, <1>2, RouseFacts DEF Rouses, Knows
    <2>7. Rouses(r)'
      BY <1>1, <1>2, <1>3, <2>1, <2>3, <2>4, <2>5, <2>6 DEF Rouses, Stored
    <2>8. Starts(r, s)'
      BY <2>3 DEF Starts
    <2> QED
      BY <1>1, <1>2, <1>3, <1>5, <2>1, <2>2, <2>4, <2>7, <2>8, LookingOn
  <1> QED
    BY <1>4, <1>5

LEMMA PollCold ==
    ASSUME FromZeroOrOne, Inv, Cold, NEW r \in Requests, Poll(r), HandlerStep(r)
    PROVE  Cold'
  <1>1. pc[r] = "wait" /\ UNCHANGED <<engineVars, rows>>
    BY DEF Poll
  <1>2. /\ TypeOK /\ Rouses(r) /\ req[r] \in Request
        /\ \A s : ~Records(r, s) /\ ~Starts(r, s)
    BY <1>1, ServingFacts
  <1>3. PICK s : s = Service(r)
    OBVIOUS
  <1>4. PICK label \in {"accept", "route"} : Goto(r, label, req[r])
    BY DEF Poll, Ready
  <1>5. pc'[r] = label /\ req'[r] = req[r] /\ Service(r)' = s
    BY <1>2, <1>3, <1>4 DEF Goto, TypeOK, Service
  <1>6. Attends(r, s)'
    BY <1>5 DEF Attends
  <1> QED
    BY <1>1, <1>2, <1>3, <1>4, <1>6, GoesOnCold DEF Rouses, Keeps

LEMMA WaitTimeoutCold ==
    ASSUME FromZeroOrOne, Inv, Cold, NEW r \in Requests, WaitTimeout(r), HandlerStep(r)
    PROVE  Cold'
  <1>1. pc[r] = "wait" /\ UNCHANGED <<engineVars, rows>>
    BY DEF WaitTimeout
  <1>2. ~Refused(r) /\ \A s : ~Records(r, s) /\ ~Starts(r, s)
    BY <1>1, ServingFacts
  <1>3. PICK s : s = Service(r)
    OBVIOUS
  <1>4. ~Up(s) /\ Answer(r, 504)
    BY <1>2, <1>3 DEF WaitTimeout
  <1> QED
    BY <1>1, <1>2, <1>3, <1>4, AnswersCold

LEMMA AcceptCold ==
    ASSUME FromZeroOrOne, Inv, Cold, NEW r \in Requests, Accept(r), HandlerStep(r)
    PROVE  Cold'
  <1>1. pc[r] = "accept" /\ UNCHANGED <<engineVars, rows>>
    BY DEF Accept
  <1>2. /\ TypeOK /\ Rouses(r) /\ req[r] \in Request
        /\ \A s : ~Records(r, s) /\ ~Starts(r, s)
    BY <1>1, ServingFacts
  <1>3. PICK s : s = Service(r)
    OBVIOUS
  <1> DEFINE q == [req[r] EXCEPT !.answer = 202, !.cancelled = FALSE]
  <1>4. /\ q.job = req[r].job /\ q.row = req[r].row /\ q.call = req[r].call
        /\ q.cancelled = FALSE /\ q.victims = req[r].victims
        /\ q.missing = req[r].missing
    BY <1>2 DEF Request
  <1>5. Goto(r, "route", q)
    BY DEF Accept
  <1> HIDE DEF q
  <1>6. pc'[r] = "route" /\ req'[r] = q /\ Service(r)' = s
    BY <1>2, <1>3, <1>4, <1>5 DEF Goto, TypeOK, Service
  <1>7. UNCHANGED <<containers, networks, attached, rows>>
    BY <1>1 DEF engineVars
  <1>8. Rouses(r)'
    BY <1>1, <1>2, <1>3, <1>4, <1>6, <1>7 DEF Rouses, Stored
  <1>9. Attends(r, s)'
    BY <1>6 DEF Attends
  <1> QED
    BY <1>1, <1>2, <1>3, <1>4, <1>5, <1>7, <1>8, <1>9, LookingOn

LEMMA RouteCold ==
    ASSUME FromZeroOrOne, Inv, Cold, NEW r \in Requests, Route(r), HandlerStep(r)
    PROVE  Cold'
  <1>1. pc[r] = "route" /\ UNCHANGED <<engineVars, rows>>
    BY DEF Route
  <1>2. /\ TypeOK /\ Scene /\ Rouses(r) /\ req[r] \in Request /\ ~Refused(r)
        /\ \A s : ~Records(r, s) /\ ~Starts(r, s)
    BY <1>1, ServingFacts
  <1>3. PICK s : s = Service(r)
    OBVIOUS
  <1>4. CASE ContainersOf(s) = {} /\ Answer(r, 500)
    <2>1. ~Up(s)
      BY <1>4 DEF Up, Running
    <2> QED
      BY <1>1, <1>2, <1>3, <1>4, <2>1, AnswersCold
  <1>5. ASSUME NEW c, NEW d \in ContainersOf(s), d \in Running(s) => c = d,
               Goto(r, "forward", [req[r] EXCEPT !.cur = c])
        PROVE  Cold'
    <2> DEFINE q == [req[r] EXCEPT !.cur = c]
    <2>1. Keeps(r, q) /\ q.cancelled = req[r].cancelled /\ q.missing = req[r].missing
          /\ q.victims = req[r].victims /\ q.call = req[r].call /\ q.cur = c
      BY <1>2 DEF Keeps, Request
    <2> HIDE DEF q
    <2>2. Goto(r, "forward", q)
      BY <1>5 DEF q
    <2>3. pc'[r] = "forward" /\ req'[r] = q /\ Service(r)' = s
      BY <1>2, <1>3, <2>1, <2>2 DEF Goto, TypeOK, Service
    <2>4. Up(s) => c \in Running(s)
      BY <1>2, <1>5 DEF Up, Running, ContainersOf, Scene
    <2>5. Running(s)' = Running(s)
      BY <1>1 DEF engineVars, Running, ContainersOf, Existing
    <2>6. Up(s) => Attends(r, s)'
      BY <2>1, <2>3, <2>4, <2>5 DEF Attends
    <2> QED
      BY <1>1, <1>2, <1>3, <2>1, <2>2, <2>6, GoesOnCold DEF Rouses
  <1>6. \/ ContainersOf(s) = {} /\ Answer(r, 500)
        \/ \E d \in ContainersOf(s) :
              Goto(r, "forward", [req[r] EXCEPT !.cur = IF d \in Running(s) THEN d ELSE NoContainer])
    BY <1>2, <1>3 DEF Route
  <1> QED
    BY <1>4, <1>5, <1>6

LEMMA ForwardCold ==
    ASSUME FromZeroOrOne, Inv, Cold, NEW r \in Requests, Forward(r), HandlerStep(r)
    PROVE  Cold'
  <1>1. pc[r] = "forward" /\ UNCHANGED <<engineVars, rows>>
    BY DEF Forward
  <1>2. /\ Scene /\ ~req[r].cancelled
        /\ \A s : ~Records(r, s) /\ ~Starts(r, s)
    BY <1>1, ServingFacts
  <1>3. PICK s : s = Service(r)
    OBVIOUS
  <1>4. PICK arrived \in BOOLEAN : arrived = Arrives(r) /\ \E code : Finish(r, code, arrived)
    <2>1. Arrives(r) \in BOOLEAN
      BY DEF Arrives, Reachable
    <2> QED
      BY <2>1 DEF Forward
  <1>5. Attends(r, s) => arrived
    BY <1>1, <1>2, <1>4
    DEF Attends, Arrives, Reachable, Running, ContainersOf, Scene
  <1> QED
    BY <1>1, <1>2, <1>3, <1>4, <1>5, EndsCold

--------------------------------------------------------------------------------
(* The invariant *)

LEMMA HandleCold ==
    ASSUME FromZeroOrOne, Inv, OnlyInvoked, Cold, NEW r \in Requests, Handle(r), HandlerStep(r)
    PROVE  Cold'
  <1>1. pc[r] \notin {"pull", "remove", "netcreate", "insert", "save", "deleterow", "netinspect",
                      "disconnect", "netreinspect", "netremove"}
    BY RouseFacts DEF Rouses
  <1>2. CASE Lookup(r)
    <2>1. req[r].call # NoCall
      BY <1>2, RouseFacts DEF Lookup, Knows
    <2> QED
      BY <1>2, <2>1, LookupCold DEF OnlyInvoked
  <1>3. CASE Remove(r)
    BY <1>3, ListCold, NoVictimIsStopped, RemoveVictimCold, ReapedCold DEF Remove
  <1>4. CASE Create(r)
    BY <1>1, <1>4, ListNetworksCold, ConnectGatewayCold, InspectNameCold, RemoveStaleCold,
       CreateContainerCold, StartContainerCold, CreatedCold
    DEF Create, PullImage, CreateNetwork
  <1>5. CASE Store(r)
    BY <1>1, <1>5, SetReplicasCold DEF Store, InsertRow, SaveRow, DeleteRow
  <1>6. ~Cleanup(r)
    BY <1>1 DEF Cleanup, InspectNetwork, DisconnectGateway, ReinspectNetwork, RemoveNetwork
  <1>7. CASE Invoke(r)
    BY <1>7, ProbeCold, PollCold, WaitTimeoutCold, AcceptCold, RouteCold, ForwardCold DEF Invoke
  <1> QED
    BY <1>2, <1>3, <1>4, <1>5, <1>6, <1>7 DEF Handle

LEMMA ArriveCold ==
    ASSUME Inv, Cold, NEW r \in Requests, Arrive(r)
    PROVE  Cold'
  <1>1. PICK call \in Calls : Goto(r, "lookup", Blank(call, NoAnswer, FALSE))
    BY DEF Arrive
  <1>2. pc[r] = "idle" /\ UNCHANGED <<containers, networks, attached, rows>>
    BY DEF Arrive, engineVars
  <1> DEFINE q == Blank(call, NoAnswer, FALSE)
  <1>3. /\ q.call = call /\ q.job = "none" /\ q.victims = {} /\ q.missing = {}
        /\ q.cancelled = FALSE
    BY DEF Blank
  <1>4. /\ pc'[r] = "lookup" /\ req'[r] = q
        /\ \A t \in Requests : t # r => pc'[t] = pc[t] /\ req'[t] = req[t]
    BY <1>1 DEF Goto, Inv, TypeOK
  <1> HIDE DEF q
  <1>5. Scene'
    <2>1. \A c \in Existing :
             c[1] \in Requests /\ pc[c[1]] = "cstart" => pc'[c[1]] = "cstart"
      BY <1>2, <1>4
    <2> QED
      BY <1>2, <2>1 DEF Cold, Scene, Existing
  <1>6. \A t \in Requests : Rouses(t)'
    <2> TAKE t \in Requests
    <2>1. CASE t = r
      BY <1>3, <1>4, <2>1 DEF Rouses
    <2>2. CASE t # r
      BY <1>2, <1>4, <2>2 DEF Cold, Rouses, Stored, Service
    <2> QED
      BY <2>1, <2>2
  <1>7. ASSUME NEW s \in DOMAIN rows
        PROVE  Rises(s)'
    <2>1. Rises(s)
      BY DEF Cold
    <2>2. Running(s)' = Running(s) /\ Up(s)' = Up(s) /\ Existing' = Existing
      BY <1>2 DEF Running, Up, ContainersOf, Existing
    <2>3. \A t \in Requests : t # r => Service(t)' = Service(t)
      BY <1>4 DEF Service
    <2>4. ~Starts(r, s) /\ ~Records(r, s) /\ ~Attends(r, s)
      BY <1>2 DEF Starts, Records, Attends
    <2>5. \A t \in Requests : Starts(t, s) => Starts(t, s)'
      BY <1>4, <2>2, <2>3, <2>4 DEF Starts
    <2>6. \A t \in Requests : Records(t, s) => Records(t, s)'
      BY <1>4, <2>3, <2>4 DEF Records
    <2>7. \A t \in Requests : Attends(t, s) => Attends(t, s)'
      BY <1>4, <2>2, <2>3, <2>4 DEF Attends
    <2>8. CASE call.service = s
      <3>1. Service(r)' = s
        BY <1>3, <1>4, <2>8 DEF Service
      <3>2. Starts(r, s)' /\ Attends(r, s)'
        BY <1>4, <3>1 DEF Starts, Attends
      <3> QED
        BY <1>2, <2>1, <2>2, <2>6, <3>2 DEF Rises
    <2>9. CASE call.service # s
      <3>1. Called(s)' => Called(s)
        BY <1>3, <1>4, <2>3, <2>9 DEF Called, Service
      <3> QED
        BY <1>2, <2>1, <2>2, <2>5, <2>6, <2>7, <3>1 DEF Rises
    <2> QED
      BY <2>8, <2>9
  <1> QED
    BY <1>2, <1>5, <1>6, <1>7 DEF Cold

LEMMA StutterCold ==
    ASSUME Cold, UNCHANGED vars
    PROVE  Cold'
  <1>1. UNCHANGED <<containers, networks, attached, rows, pc, req>>
    BY DEF vars
  <1>2. Scene' /\ \A r : Rouses(r)' = Rouses(r)
    BY <1>1 DEF Cold, Scene, Existing, Rouses, Stored, Service
  <1>3. \A s : Rises(s)' = Rises(s)
    BY <1>1 DEF Rises, Called, Starts, Records, Attends, Up, Running, ContainersOf, Existing, Service
  <1> QED
    BY <1>1, <1>2, <1>3 DEF Cold

LEMMA NextCold ==
    ASSUME FromZeroOrOne, Inv, ColdInv, [Next]_vars
    PROVE  ColdInv'
  <1> SUFFICES ASSUME OnlyInvoked'
               PROVE  Cold'
    BY DEF ColdInv
  <1>1. ~CrashAndRestart /\ (\A r : ~HangUp(r)) /\ (\A c : ~Exit(c))
    BY NoFaults DEF CrashAndRestart, HangUp, Exit
  <1>2. ASSUME NEW r \in Requests, Handle(r)
        PROVE  Cold'
    <2>1. HandlerStep(r)
      BY <1>2, HandleSteps
    <2>2. PICK label \in Labels, q \in Request : q.call = req[r].call /\ Goto(r, label, q)
      BY <2>1 DEF HandlerStep, Advances
    <2>3. \A t \in Requests : req'[t].call = req[t].call
      BY <2>2 DEF Goto, Inv, TypeOK
    <2>4. OnlyInvoked
      BY <2>3 DEF OnlyInvoked, Op
    <2> QED
      BY <1>2, <2>1, <2>4, HandleCold DEF ColdInv
  <1>3. ASSUME NEW r \in Requests, Arrive(r)
        PROVE  Cold'
    <2>1. pc[r] = "idle" /\ req[r].call = NoCall
      BY <1>3, RequestFacts DEF Arrive, Knows
    <2>2. \A t \in Requests : t # r => req'[t] = req[t]
      BY <1>3 DEF Arrive, Goto, Inv, TypeOK
    <2>3. OnlyInvoked
      BY <2>1, <2>2 DEF OnlyInvoked, Op
    <2> QED
      BY <1>3, <2>3, ArriveCold DEF ColdInv
  <1>4. CASE UNCHANGED vars
    BY <1>4, StutterCold DEF ColdInv, OnlyInvoked, Op, vars
  <1>5. ASSUME NEW c, Restart(c)
        PROVE  Cold'
    <2>1. UNCHANGED req /\ c \in Existing /\ containers[c].state = "restarting"
      BY <1>5 DEF Restart, ContainerRestarts, Startable
    <2>2. Cold
      BY <2>1 DEF ColdInv, OnlyInvoked, Op
    <2> QED
      BY <2>1, <2>2 DEF Cold, Scene
  <1> QED
    BY <1>1, <1>2, <1>3, <1>4, <1>5 DEF Next, Disturb, Quiesced

LEMMA InitCold ==
    ASSUME FromZeroOrOne, Init
    PROVE  ColdInv
  <1>1. PICK R \in InitialRows : Deployed(R)
    BY DEF Init
  <1>2. \A s \in DOMAIN R : R[s].replicas \in {0, 1}
    BY DEF FromZeroOrOne
  <1>3. rows = R
    BY <1>1 DEF Deployed
  <1>4. /\ Existing = {d \in Services \X Replicas : d[1] \in DOMAIN R /\ d[2] < R[d[1]].replicas}
        /\ \A c \in Existing :
              /\ containers[c].service = c[1] /\ containers[c].replica = c[2]
              /\ containers[c].network = R[c[1]].network
              /\ containers[c].state = "running"
    BY <1>1, DeployedContainers DEF FromZeroOrOne
  <1>5. DOMAIN networks = {R[s].network : s \in DOMAIN R} /\ attached = DOMAIN networks
    BY <1>1 DEF Deployed
  <1>6. \A c \in Existing : c[2] = 0 /\ R[c[1]].replicas = 1 /\ c[1] \in DOMAIN R
    BY <1>2, <1>4, MaxReplicasAssumption DEF Replicas
  <1>7. \A c, d \in Existing : c[1] = d[1] => c = d
    BY <1>4, <1>6
  <1>8. Scene
    BY <1>2, <1>3, <1>4, <1>5, <1>6, <1>7 DEF Scene
  <1>9. \A r \in Requests : /\ pc[r] = "idle" /\ req[r].call = NoCall /\ req[r].job = "none"
                            /\ req[r].victims = {} /\ req[r].missing = {} /\ ~req[r].cancelled
    BY DEF Init, Blank
  <1>10. \A r \in Requests : Rouses(r)
    BY <1>9 DEF Rouses
  <1>11. \A s \in DOMAIN rows : Rises(s)
    <2> TAKE s \in DOMAIN rows
    <2>1. ~Called(s)
      BY <1>9 DEF Called
    <2>2. Up(s) => rows[s].replicas = 1
      BY <1>3, <1>4, <1>6 DEF Up, Running, ContainersOf
    <2> QED
      BY <2>1, <2>2 DEF Rises
  <1> QED
    BY <1>8, <1>10, <1>11 DEF ColdInv, Cold

\* The invariant of racing invocations holds as long as there are no other calls.
LEMMA ColdInvariance ==
    ASSUME FromZeroOrOne
    PROVE  Spec => [](Inv /\ ColdInv)
  <1>1. Init => Inv /\ ColdInv
    BY InitInv, InitCold
  <1>2. Inv /\ ColdInv /\ [Next]_vars => (Inv /\ ColdInv)'
    BY NextInv, NextCold
  <1> QED
    BY <1>1, <1>2, PTL DEF Spec

\* When all calls are answered and were invocations, their functions are up.
LEMMA AllServed ==
    ASSUME Inv, ColdInv, AllServedCalls({"invoke", "async"}),
           NEW s \in DOMAIN rows, NEW r \in Requests, Service(r) = s
    PROVE  /\ Running(s) = ContainersOf(s) /\ Cardinality(Running(s)) = 1
           /\ rows[s].replicas = 1
           /\ \E t \in Requests : Service(t) = s /\ req[t].arrived
  <1>1. \A t \in Requests : pc[t] = "done" /\ Op(t) \in {"invoke", "async"}
    BY DEF AllServedCalls
  <1>2. Cold
    BY <1>1 DEF ColdInv, OnlyInvoked
  <1>3. Called(s)
    BY <1>1, RequestFacts DEF Called, Knows
  <1>4. \A t \in Requests : ~Starts(t, s) /\ ~Records(t, s)
    BY <1>1 DEF Starts, Records
  <1>5. Up(s) /\ rows[s].replicas = 1 /\ \E t \in Requests : Attends(t, s)
    BY <1>2, <1>3, <1>4 DEF Cold, Rises
  <1>6. PICK c : c \in Running(s)
    BY <1>5 DEF Up
  <1>7. Running(s) = {c} /\ ContainersOf(s) = {c}
    BY <1>2, <1>6 DEF Cold, Scene, Running, ContainersOf
  <1>8. Cardinality({c}) = 1
    BY FS_Singleton
  <1> QED
    BY <1>1, <1>5, <1>7, <1>8 DEF Attends

\* However many invocations race to start a function that has no replica or one, and in
\* whatever order they list, remove, create, start and store, once they are answered the
\* function has one container, it is up, and the row says one replica.
THEOREM ColdStartsSettle ==
    ASSUME FromZeroOrOne
    PROVE  Spec => []ColdStartSettles
  <1>1. Inv /\ ColdInv => ColdStartSettles
    BY AllServed DEF ColdStartSettles, Stored
  <1> QED
    BY <1>1, ColdInvariance, PTL

\* ... and one of the invocations of the function has arrived at it: they do not all fail on
\* each other's half-made containers.
THEOREM ColdStartsArrive ==
    ASSUME FromZeroOrOne
    PROVE  Spec => []ColdStartArrives
  <1>1. Inv /\ ColdInv => ColdStartArrives
    BY AllServed DEF ColdStartArrives, Stored
  <1> QED
    BY <1>1, ColdInvariance, PTL
================================================================================
