---------------------------- MODULE LifecycleProofs ----------------------------
(***************************************************************************)
(* FunctionLifecycle keeps its types, and a handler touches nothing of any *)
(* service but its own, however many requests, services and replicas there *)
(* are, however calls interleave and whatever fails.                       *)
(*                                                                         *)
(* Both follow from one inductive invariant: what a handler knows at each  *)
(* of its calls, and whom every container was created for.  Isolation adds *)
(* a second: a container id a handler has listed still bears its service's *)
(* label, because no id is made twice.  Where clients leave the labels of  *)
(* the gateway alone (OwnLabelsOnly), the first says more: label and name  *)
(* of every container agree.                                               *)
(*                                                                         *)
(* The second part: FunctionLifecycle implements FunctionRegistry.  Each   *)
(* step of a handler is a step of the registry or leaves what the registry *)
(* sees as it is.  Which step it is depends on what a handler's job says   *)
(* of its call, an invariant added to the first.                           *)
(*                                                                         *)
(* On what the registry sees the third part counts: only Register and      *)
(* Remove move a row, and each moves one request into the sets of answered *)
(* calls.  So the answers of deploys and deletes add up to the row,        *)
(* RowLedger, with every fault short of a crash of the gateway.  (A crash  *)
(* between the deletion of a row and its answer loses the answer, and the  *)
(* answer of a build does not tell whether it made the row.)               *)
(***************************************************************************)
EXTENDS LifecycleProperties, FiniteSetTheorems, WellFoundedInduction, TLAPS

\* What a handler whose next call is label knows: its call, the row it read when
\* the job needs one, and an index to create while it is creating.
Knows(label, q) ==
    /\ label # "idle" => q.call # NoCall
    /\ label = "idle" => q.call = NoCall
    /\ q.job \in {"update", "delete", "scale", "wake", "invoke"} => q.row # NoRow
    /\ label \in {"pull", "create", "netcreate", "connect", "inspect", "rmstale", "ccreate",
                  "cstart"} =>
          /\ q.job \in {"deploy", "update", "scale", "wake"}
          /\ q.call.op = "update" => q.job = "update"
    /\ label \in {"netcreate", "connect", "inspect", "rmstale", "ccreate", "cstart"} =>
          q.missing # {}
    /\ label = "rmstale" => q.cur # NoContainer
    /\ label \in {"list", "reap", "remove"} =>
          /\ q.job \in {"update", "delete", "rollback", "scale", "wake"}
          /\ q.call.op = "update" => q.job = "update"
    /\ label = "insert" => q.job = "deploy" /\ q.call.op # "update"
    /\ label = "save" => q.job = "update"
    /\ label = "setreplicas" => q.job \in {"scale", "wake"}
    /\ label \in {"deleterow", "netinspect", "disconnect", "netreinspect", "netremove"} =>
          q.job = "delete"
    /\ label \in {"probe", "wait", "accept", "route", "forward"} => q.job \in {"invoke", "wake"}
    /\ q.call # NoCall /\ q.job \in {"scale", "wake", "invoke"} => q.call.op # "update"

\* Container id c was created for service s: by a request whose call names s, or
\* before the behaviour began.
CreatedFor(c, s) ==
    /\ c \in ContainerIds
    /\ \/ c[1] \in Services /\ c[1] = s
       \/ c[1] \in Requests /\ req[c[1]].call # NoCall /\ req[c[1]].call.service = s

\* No client's labels, and no row's of the beginning, say anything but what createContainer
\* labels its containers with itself.
OwnLabelsOnly ==
    /\ \A call \in Calls : call.labels = OwnLabels(call.service)
    /\ \A R \in InitialRows : \A s \in DOMAIN R : R[s].labels = OwnLabels(s)

\* The containers a handler is about to act on are its own service's.
Aims(q) ==
    OwnLabelsOnly =>
       /\ \A v \in q.victims : CreatedFor(v.id, q.call.service)
       /\ q.cur # NoContainer => CreatedFor(q.cur, q.call.service)
       /\ q.row # NoRow => q.row.labels = OwnLabels(q.call.service)

\* A container is named for its creator's service and its index, and labelled so.
Marked(c, x) ==
    /\ CreatedFor(c, x.name[1]) /\ x.name[2] = c[2]
    /\ OwnLabelsOnly => x.service = x.name[1] /\ x.replica = x.name[2]

Ownership ==
    /\ \A c \in Existing : Marked(c, containers[c])
    /\ OwnLabelsOnly => \A s \in DOMAIN rows : rows[s].labels = OwnLabels(s)

Inv ==
    /\ TypeOK
    /\ \A r \in Requests : Knows(pc[r], req[r])
    /\ \A r \in Requests : Aims(req[r])
    /\ Ownership

--------------------------------------------------------------------------------
(* What one step of a handler does, seen from outside *)

\* It goes on to a call it knows enough for, with its client's call unchanged.
Advances(r) ==
    \E label \in Labels, q \in Request :
       /\ label # "idle" /\ Knows(label, q) /\ Aims(q)
       /\ q.call = req[r].call /\ q.call # NoCall
       /\ Goto(r, label, q)

\* What it does to containers it does to those of service s.
EngineStep(s) ==
    /\ EngineTypeOK'
    /\ \A c \in Existing' : Marked(c, containers'[c])
    /\ OwnLabelsOnly =>
          \A c \in Existing \cup Existing' :
             \/ CreatedFor(c, s)
             \/ c \in Existing /\ c \in Existing' /\ containers'[c] = containers[c]

\* What it does to rows it does to that of service s.
StoreStep(s) ==
    /\ StoreTypeOK'
    /\ \A t \in Services : t # s => GetFunction(t)' = GetFunction(t)
    /\ OwnLabelsOnly => \A t \in DOMAIN rows' : rows'[t].labels = OwnLabels(t)

HandlerStep(r) ==
    /\ Advances(r)
    /\ EngineStep(Service(r))
    /\ StoreStep(Service(r))
    /\ faults' \in 0 .. MaxFaults

--------------------------------------------------------------------------------
(* Lemmas: what a handler knows next *)

\* Whom a container was created for does not depend on the service asked about.
LEMMA OneOwner ==
    ASSUME NEW c, NEW s, NEW t, CreatedFor(c, s), CreatedFor(c, t)
    PROVE  s = t
  BY LifecycleAssumption DEF CreatedFor

\* As long as labels are the functions' own, a container is listed as what it was
\* created for, by its name.
LEMMA OwnersByLabel ==
    ASSUME Inv, OwnLabelsOnly
    PROVE  /\ \A c \in Existing :
                 /\ c \in ContainerIds /\ containers[c] \in Container
                 /\ CreatedFor(c, containers[c].service)
                 /\ containers[c].replica = c[2]
                 /\ containers[c].name = <<containers[c].service, containers[c].replica>>
           /\ \A s, i : Named(s, i) = {c \in ContainersOf(s) : containers[c].replica = i}
  <1>1. \A c \in Existing : /\ Marked(c, containers[c]) /\ c \in ContainerIds
                            /\ containers[c] \in Container
    BY DEF Inv, Ownership, TypeOK, EngineTypeOK, Existing
  <1>2. \A c \in Existing : containers[c].name = <<containers[c].service, containers[c].replica>>
    <2> SUFFICES ASSUME NEW c \in Existing
                 PROVE  containers[c].name = <<containers[c].service, containers[c].replica>>
      OBVIOUS
    <2>1. containers[c].name \in Services \X Replicas
      BY <1>1 DEF Container
    <2>2. containers[c].service = containers[c].name[1] /\ containers[c].replica = containers[c].name[2]
      BY <1>1 DEF Marked
    <2> QED
      BY <2>1, <2>2
  <1>3. \A c \in Existing : CreatedFor(c, containers[c].service) /\ containers[c].replica = c[2]
    BY <1>1 DEF Marked
  <1>4. \A s, i : Named(s, i) = {c \in ContainersOf(s) : containers[c].replica = i}
    BY <1>2 DEF Named, ContainersOf
  <1> QED
    BY <1>1, <1>2, <1>3, <1>4

\* The request record of the invariant.
LEMMA RequestFacts ==
    ASSUME Inv, NEW r \in Requests
    PROVE  /\ pc[r] \in Labels /\ req[r] \in Request
           /\ Knows(pc[r], req[r]) /\ Aims(req[r])
           /\ faults \in 0 .. MaxFaults
           /\ pc[r] # "idle" => req[r].call \in Call
           /\ pc[r] # "idle" => Service(r) \in Services
           /\ req[r].row # NoRow => req[r].row \in Row
  BY LifecycleAssumption DEF Inv, TypeOK, Request, Knows, Service, Call

LEMMA CallLabels ==
    ASSUME Inv, NEW r \in Requests, pc[r] # "idle", OwnLabelsOnly
    PROVE  req[r].call.labels = OwnLabels(Service(r))
  <1>1. req[r].call \in Calls
    BY RequestFacts DEF Request, Knows
  <1> QED
    BY <1>1 DEF OwnLabelsOnly, Service

\* A handler goes on with what it knows.
LEMMA GoesOn ==
    ASSUME NEW r, NEW label \in Labels, NEW q \in Request,
           label # "idle", Knows(label, q), Aims(q),
           q.call = req[r].call, q.call # NoCall, Goto(r, label, q)
    PROVE  Advances(r)
  BY DEF Advances

LEMMA GoesOnUnchanged ==
    ASSUME Inv, NEW r \in Requests, pc[r] # "idle",
           NEW label \in Labels, label # "idle", Knows(label, req[r]),
           Goto(r, label, req[r])
    PROVE  Advances(r)
  BY RequestFacts, GoesOn DEF Knows

\* It answers, and forgets all but the call.
LEMMA Finishes ==
    ASSUME Inv, NEW r \in Requests, pc[r] # "idle", NEW code \in Answers,
           NEW arrived \in BOOLEAN, Finish(r, code, arrived)
    PROVE  Advances(r)
  <1> DEFINE q == Blank(req[r].call, code, arrived)
  <1>1. req[r] \in Request /\ req[r].call # NoCall
    BY RequestFacts DEF Knows
  <1>2. q \in Request
    BY <1>1 DEF Request, Blank, Jobs
  <1>3. /\ q.call = req[r].call /\ q.job = "none" /\ q.victims = {} /\ q.cur = NoContainer
        /\ q.row = NoRow
    BY DEF Blank
  <1>4. Knows("done", q) /\ Aims(q)
    BY <1>1, <1>3 DEF Knows, Aims
  <1>5. Goto(r, "done", q)
    BY DEF Finish
  <1>6. "done" \in Labels
    BY DEF Labels
  <1> HIDE DEF q
  <1> QED
    BY <1>1, <1>2, <1>3, <1>4, <1>5, <1>6, GoesOn

LEMMA AnswersClient ==
    ASSUME Inv, NEW r \in Requests, pc[r] # "idle", NEW code \in Answers, Answer(r, code)
    PROVE  Advances(r)
  <1>1. req[r].answer \in Answers
    BY RequestFacts DEF Request
  <1>2. CASE req[r].answer = NoAnswer
    BY <1>2, Finishes DEF Answer
  <1>3. CASE req[r].answer # NoAnswer
    BY <1>1, <1>3, Finishes DEF Answer
  <1> QED
    BY <1>2, <1>3

\* It starts a job, with a row it read.
LEMMA Begins ==
    ASSUME Inv, NEW r \in Requests, pc[r] # "idle",
           NEW label \in Labels, label # "idle", NEW job \in Jobs,
           NEW row \in {req[r].row, GetFunction(Service(r)), NoRow},
           Knows(label, [req[r] EXCEPT !.job = job, !.row = row]),
           Begin(r, label, job, row)
    PROVE  Advances(r)
  <1> DEFINE q == [req[r] EXCEPT !.job = job, !.row = row]
  <1>1. /\ req[r] \in Request /\ req[r].call # NoCall /\ Aims(req[r])
        /\ row \in Row \cup {NoRow}
    BY RequestFacts DEF Knows, Request, GetFunction, Stored, Inv, TypeOK, StoreTypeOK
  <1>2. /\ q \in Request /\ q.call = req[r].call /\ q.victims = req[r].victims
        /\ q.cur = req[r].cur /\ q.row = row
    BY <1>1 DEF Request
  <1>3. OwnLabelsOnly /\ row # NoRow => row.labels = OwnLabels(req[r].call.service)
    BY <1>1 DEF Aims, GetFunction, Stored, Service, Inv, Ownership
  <1> HIDE DEF q
  <1>5. Aims(q)
    BY <1>1, <1>2, <1>3 DEF Aims
  <1>4. Goto(r, label, q)
    BY DEF Begin, q
  <1> QED
    BY <1>1, <1>2, <1>5, <1>4, GoesOn DEF q

\* It turns to a container of its service.
LEMMA TurnsTo ==
    ASSUME Inv, NEW r \in Requests, pc[r] # "idle",
           NEW label \in Labels, label # "idle", NEW c \in ContainerIds \cup {NoContainer},
           OwnLabelsOnly /\ c # NoContainer => CreatedFor(c, Service(r)),
           Knows(label, [req[r] EXCEPT !.cur = c]),
           Goto(r, label, [req[r] EXCEPT !.cur = c])
    PROVE  Advances(r)
  <1> DEFINE q == [req[r] EXCEPT !.cur = c]
  <1>1. req[r] \in Request /\ req[r].call # NoCall /\ Aims(req[r])
    BY RequestFacts DEF Knows
  <1>2. /\ q \in Request /\ q.call = req[r].call /\ q.victims = req[r].victims /\ q.cur = c
        /\ q.row = req[r].row
    BY <1>1 DEF Request
  <1>3. Aims(q)
    BY <1>1, <1>2 DEF Aims, Service
  <1> HIDE DEF q
  <1> QED
    BY <1>1, <1>2, <1>3, GoesOn DEF q

\* It has other replica indices to create.
LEMMA Misses ==
    ASSUME Inv, NEW r \in Requests, pc[r] # "idle",
           NEW label \in Labels, label # "idle", NEW M \in SUBSET Replicas,
           Knows(label, [req[r] EXCEPT !.missing = M]),
           Goto(r, label, [req[r] EXCEPT !.missing = M])
    PROVE  Advances(r)
  <1> DEFINE q == [req[r] EXCEPT !.missing = M]
  <1>1. req[r] \in Request /\ req[r].call # NoCall /\ Aims(req[r])
    BY RequestFacts DEF Knows
  <1>2. /\ q \in Request /\ q.call = req[r].call /\ q.victims = req[r].victims
        /\ q.cur = req[r].cur /\ q.row = req[r].row
    BY <1>1 DEF Request
  <1>3. Aims(q)
    BY <1>1, <1>2 DEF Aims
  <1> HIDE DEF q
  <1> QED
    BY <1>1, <1>2, <1>3, GoesOn DEF q

--------------------------------------------------------------------------------
(* Lemmas: what the engine's operations do *)

LEMMA EngineIdle ==
    ASSUME Inv, NEW s, UNCHANGED engineVars
    PROVE  EngineStep(s)
  BY DEF Inv, TypeOK, EngineTypeOK, EngineStep, Ownership, engineVars, Existing

\* What createContainer makes is named for its service, and labelled as asked.
LEMMA MadeIsMarked ==
    ASSUME NEW c \in ContainerIds, NEW dep \in Deployment, NEW i \in Replicas,
           CreatedFor(c, dep.service), c[2] = i,
           OwnLabelsOnly => dep.labels = OwnLabels(dep.service)
    PROVE  Made(dep, i) \in Container /\ Marked(c, Made(dep, i))
  <1>1. dep.labels[i] \in Services \X Replicas /\ dep.service \in Services
    BY DEF Deployment, LabelMaps
  <1>2. Made(dep, i) \in Container
    BY <1>1 DEF Made, Deployment, Container, EngineStates
  <1>3. OwnLabelsOnly => dep.labels[i] = <<dep.service, i>>
    BY DEF OwnLabels
  <1>4. Marked(c, Made(dep, i))
    BY <1>3 DEF Marked, Made
  <1> QED
    BY <1>2, <1>4

LEMMA CreateIsOwn ==
    ASSUME Inv, NEW c \in ContainerIds, NEW dep \in Deployment, NEW i \in Replicas,
           CreatedFor(c, dep.service), c[2] = i,
           OwnLabelsOnly => dep.labels = OwnLabels(dep.service), ContainerCreate(c, dep, i)
    PROVE  EngineStep(dep.service)
  <1> DEFINE new == Made(dep, i)
  <1>1. EngineTypeOK
    BY DEF Inv, TypeOK
  <1>2. new \in Container /\ Marked(c, new)
    BY MadeIsMarked
  <1> HIDE DEF new
  <1>3. containers' = [d \in Existing \cup {c} |-> IF d = c THEN new ELSE containers[d]]
    BY DEF ContainerCreate, new
  <1>4. UNCHANGED <<networks, attached>>
    BY DEF ContainerCreate
  <1>5. EngineTypeOK'
    BY <1>1, <1>2, <1>3, <1>4 DEF EngineTypeOK, Existing
  <1> QED
    BY <1>2, <1>3, <1>5 DEF EngineStep, Existing, Inv, Ownership

LEMMA SetStateIsOwn ==
    ASSUME Inv, NEW c, NEW s, OwnLabelsOnly => CreatedFor(c, s), NEW state \in EngineStates,
           SetState(c, state), UNCHANGED <<networks, attached>>
    PROVE  EngineStep(s)
  <1>1. EngineTypeOK
    BY DEF Inv, TypeOK
  <1>2. Existing' = Existing
    BY DEF SetState, Existing
  <1>3. \A d \in Existing :
          /\ d # c => containers'[d] = containers[d]
          /\ containers'[d] \in Container
          /\ containers'[d].name = containers[d].name
          /\ containers'[d].service = containers[d].service
          /\ containers'[d].replica = containers[d].replica
    BY <1>1 DEF SetState, Existing, EngineTypeOK, Container
  <1>4. EngineTypeOK'
    BY <1>1, <1>2, <1>3 DEF EngineTypeOK, Existing
  <1> QED
    BY <1>2, <1>3, <1>4 DEF EngineStep, Inv, Ownership, Marked

LEMMA StartIsOwn ==
    ASSUME Inv, NEW c, NEW s, OwnLabelsOnly => CreatedFor(c, s), ContainerStart(c)
    PROVE  EngineStep(s)
  BY SetStateIsOwn DEF ContainerStart, EngineStates

LEMMA StopIsOwn ==
    ASSUME Inv, NEW c, NEW s, OwnLabelsOnly => CreatedFor(c, s), ContainerStop(c)
    PROVE  EngineStep(s)
  BY SetStateIsOwn, EngineIdle DEF ContainerStop, EngineStates, engineVars

LEMMA RemoveIsOwn ==
    ASSUME Inv, NEW c, NEW s, OwnLabelsOnly => CreatedFor(c, s), ContainerRemove(c)
    PROVE  EngineStep(s)
  <1>1. Existing' = Existing \ {c} /\ \A d \in Existing' : containers'[d] = containers[d]
    BY DEF ContainerRemove, Existing
  <1>2. EngineTypeOK'
    BY DEF Inv, TypeOK, EngineTypeOK, ContainerRemove, Existing
  <1> QED
    BY <1>1, <1>2 DEF Inv, Ownership, EngineStep

LEMMA NetworksAreNoContainers ==
    ASSUME Inv, NEW s \in Services, NEW n \in Networks,
           NetworkCreate(n, s) \/ NetworkConnect(n) \/ NetworkDisconnect(n) \/ NetworkRemove(n)
    PROVE  EngineStep(s)
  <1>1. EngineTypeOK /\ UNCHANGED containers
    BY DEF Inv, TypeOK, NetworkCreate, NetworkConnect, NetworkDisconnect, NetworkRemove
  <1>2. NetworkCreate(n, s) => EngineTypeOK'
    BY <1>1 DEF EngineTypeOK, NetworkCreate
  <1>3. NetworkConnect(n) => EngineTypeOK'
    BY <1>1 DEF EngineTypeOK, NetworkConnect
  <1>4. NetworkDisconnect(n) => EngineTypeOK'
    BY <1>1 DEF EngineTypeOK, NetworkDisconnect
  <1>5. NetworkRemove(n) => EngineTypeOK'
    BY <1>1 DEF EngineTypeOK, NetworkRemove, InUse
  <1>6. EngineTypeOK'
    BY <1>2, <1>3, <1>4, <1>5
  <1> QED
    BY <1>1, <1>6 DEF EngineStep, Existing, Inv, Ownership

--------------------------------------------------------------------------------
(* Lemmas: what the store's statements do *)

LEMMA StoreIdle ==
    ASSUME Inv, NEW s, UNCHANGED rows
    PROVE  StoreStep(s)
  BY DEF Inv, Ownership, TypeOK, StoreTypeOK, StoreStep, GetFunction, Stored

LEMMA StatementIsOwn ==
    ASSUME Inv, NEW s \in Services, NEW row \in Row, NEW n \in 0 .. MaxReplicas,
           \/ CreateFunction(s, row) \/ UpdateFunction(s, row)
           \/ UpdateReplicas(s, n) \/ DeleteFunction(s),
           OwnLabelsOnly => row.labels = OwnLabels(s)
    PROVE  StoreStep(s)
  <1>1. StoreTypeOK /\ (OwnLabelsOnly => \A t \in DOMAIN rows : rows[t].labels = OwnLabels(t))
    BY DEF Inv, TypeOK, Ownership
  <1>2. CASE CreateFunction(s, row)
    BY <1>1, <1>2 DEF StoreTypeOK, StoreStep, GetFunction, Stored, CreateFunction
  <1>3. CASE UpdateFunction(s, row)
    BY <1>1, <1>3 DEF StoreTypeOK, StoreStep, GetFunction, Stored, UpdateFunction
  <1>4. CASE UpdateReplicas(s, n)
    BY <1>1, <1>4 DEF StoreTypeOK, StoreStep, GetFunction, Stored, UpdateReplicas, Row
  <1>5. CASE DeleteFunction(s)
    BY <1>1, <1>5 DEF StoreTypeOK, StoreStep, GetFunction, Stored, DeleteFunction
  <1> QED
    BY <1>2, <1>3, <1>4, <1>5

LEMMA FaultsAreCounted ==
    ASSUME Inv, NEW kind, Fault(kind) \/ UNCHANGED faults
    PROVE  faults' \in 0 .. MaxFaults
  BY LifecycleAssumption DEF Inv, TypeOK, Fault

--------------------------------------------------------------------------------
(* The handlers *)

LEMMA HandlerFrame ==
    ASSUME Inv, NEW r \in Requests, pc[r] # "idle", Advances(r),
           UNCHANGED <<engineVars, rows>>, faults' \in 0 .. MaxFaults
    PROVE  HandlerStep(r)
  BY EngineIdle, StoreIdle DEF HandlerStep

LEMMA LookupStep ==
    ASSUME Inv, NEW r \in Requests, Lookup(r)
    PROVE  HandlerStep(r)
  <1>1. pc[r] # "idle" /\ UNCHANGED <<engineVars, rows>>
    BY DEF Lookup
  <1>2. PICK row \in {GetFunction(Service(r)), NoRow} :
          /\ LookedUp(r, row)
          /\ \/ Op(r) = "deploy" /\ HandleDeployFunction(r, row)
             \/ Op(r) = "update" /\ HandleUpdateFunction(r, row)
             \/ Op(r) = "build"  /\ DeployBuiltImage(r, row)
             \/ Op(r) = "delete" /\ HandleDeleteFunction(r, row)
             \/ Op(r) = "scale"  /\ HandleScaleFunction(r, row)
             \/ Op(r) \in {"invoke", "async"} /\ HandleInvokeFunction(r, row)
    BY DEF Lookup
  <1>3. row \in Row \cup {NoRow} /\ faults' \in 0 .. MaxFaults
    BY <1>2, FaultsAreCounted DEF GetFunction, Stored, Inv, TypeOK, StoreTypeOK, LookedUp
  <1>4. req[r] \in Request /\ req[r].call # NoCall
    BY <1>1, RequestFacts DEF Knows
  <1>5. \A job \in Jobs :
           LET q == [req[r] EXCEPT !.job = job, !.row = row]
           IN  /\ q.job = job /\ q.row = row /\ q.call = req[r].call
               /\ q.missing = req[r].missing /\ q.cur = req[r].cur
    BY <1>4 DEF Request
  <1>6. CASE row = NoRow /\ (Op(r) = "deploy" \/ Op(r) = "build")
              /\ Begin(r, "pull", "deploy", row)
    <2>1. Knows("pull", [req[r] EXCEPT !.job = "deploy", !.row = row])
      BY <1>4, <1>5, <1>6 DEF Knows, Op, Jobs
    <2> QED
      BY <1>1, <1>3, <1>6, <2>1, Begins, HandlerFrame DEF Labels, Jobs
  <1>7. CASE row # NoRow /\ \E job \in {"update", "delete", "scale"} :
                /\ Op(r) = "update" => job = "update"
                /\ Begin(r, "list", job, row)
    <2>1. PICK job \in {"update", "delete", "scale"} :
             (Op(r) = "update" => job = "update") /\ Begin(r, "list", job, row)
      BY <1>7
    <2>2. Knows("list", [req[r] EXCEPT !.job = job, !.row = row])
      BY <1>4, <1>5, <1>7, <2>1 DEF Knows, Op, Jobs
    <2> QED
      BY <1>1, <1>3, <2>1, <2>2, Begins, HandlerFrame DEF Labels, Jobs
  <1>8. CASE row # NoRow /\ Op(r) \in {"invoke", "async"} /\ Begin(r, "probe", "invoke", row)
    <2>1. Knows("probe", [req[r] EXCEPT !.job = "invoke", !.row = row])
      BY <1>4, <1>5, <1>8 DEF Knows, Op, Jobs
    <2> QED
      BY <1>1, <1>3, <1>8, <2>1, Begins, HandlerFrame DEF Labels, Jobs
  <1>9. CASE Answer(r, 404) \/ Answer(r, 409)
    BY <1>1, <1>3, <1>9, AnswersClient, HandlerFrame DEF Answers
  <1> QED
    BY <1>2, <1>6, <1>7, <1>8, <1>9
    DEF HandleDeployFunction, HandleUpdateFunction, DeployBuiltImage, HandleDeleteFunction,
        HandleScaleFunction, HandleInvokeFunction

LEMMA Fields ==
    ASSUME NEW q \in Request, NEW x
    PROVE  /\ LET p == [q EXCEPT !.cur = x]
              IN  /\ p.cur = x /\ p.call = q.call /\ p.job = q.job /\ p.row = q.row
                  /\ p.missing = q.missing /\ p.victims = q.victims
           /\ LET p == [q EXCEPT !.missing = x]
              IN  /\ p.missing = x /\ p.call = q.call /\ p.job = q.job /\ p.row = q.row
                  /\ p.cur = q.cur /\ p.victims = q.victims
           /\ LET p == [q EXCEPT !.victims = x]
              IN  /\ p.victims = x /\ p.call = q.call /\ p.job = q.job /\ p.row = q.row
                  /\ p.missing = q.missing /\ p.cur = q.cur
  BY DEF Request

\* The target of a scale and the replicas of a deploy are within the bound.
LEMMA TargetBound ==
    ASSUME Inv, NEW r \in Requests, pc[r] # "idle"
    PROVE  /\ Target(r) \in 0 .. MaxReplicas
           /\ req[r].job = "update" => DeployReplicas(r) \in 0 .. MaxReplicas
           /\ req[r].job = "deploy" => DeployReplicas(r) \in 0 .. MaxReplicas
  BY RequestFacts, MaxReplicasAssumption DEF Target, DeployReplicas, Call, Row, Knows

LEMMA ListingIsOwn ==
    ASSUME Inv, NEW s
    PROVE  /\ Listing(s) \in SUBSET Summaries
           /\ OwnLabelsOnly => \A v \in Listing(s) : CreatedFor(v.id, s)
  <1>1. \A c \in Existing : containers[c] \in Container /\ c \in ContainerIds
                           /\ (OwnLabelsOnly => CreatedFor(c, containers[c].service))
    BY DEF Inv, TypeOK, EngineTypeOK, Existing, Ownership, Marked
  <1> QED
    BY <1>1 DEF Listing, Summary, Summaries, Container, ContainersOf

LEMMA ListStep ==
    ASSUME Inv, NEW r \in Requests, List(r)
    PROVE  HandlerStep(r)
  <1>1. pc[r] = "list" /\ UNCHANGED <<engineVars, rows>> /\ faults' \in 0 .. MaxFaults
    BY FaultsAreCounted DEF List, Reaches, Refused
  <1>2. /\ req[r] \in Request /\ req[r].call # NoCall /\ Knows("list", req[r])
        /\ Aims(req[r])
    BY <1>1, RequestFacts DEF Knows
  <1>3. CASE req[r].job = "update" /\ Goto(r, "pull", req[r])
    <2>1. Knows("pull", req[r])
      BY <1>2, <1>3 DEF Knows
    <2> QED
      BY <1>1, <1>3, <2>1, GoesOnUnchanged, HandlerFrame DEF Labels
  <1>4. CASE Answer(r, 500)
    BY <1>1, <1>4, AnswersClient, HandlerFrame DEF Answers
  <1> DEFINE listed == Listing(Service(r))
             plan   == ScalePlan(listed, Target(r))
  <1>5. CASE RemovesAll(r) /\ Goto(r, "reap", [req[r] EXCEPT !.victims = listed])
    <2> DEFINE q == [req[r] EXCEPT !.victims = listed]
    <2>1. q \in Request
      BY <1>2, ListingIsOwn DEF Request
    <2>2. Knows("reap", q)
      BY <1>2, Fields DEF Knows
    <2>3. Aims(q)
      BY <1>2, Fields, ListingIsOwn DEF Aims, Service
    <2>4. q.call = req[r].call
      BY <1>2, Fields
    <2>5. Goto(r, "reap", q)
      BY <1>5
    <2> HIDE DEF q
    <2>6. Advances(r)
      BY <1>2, <2>1, <2>2, <2>3, <2>4, <2>5, GoesOn DEF Labels
    <2> QED
      BY <1>1, <2>6, HandlerFrame
  <1>6. CASE Goto(r, "reap", [req[r] EXCEPT !.victims = plan.stale \cup plan.active,
                                            !.missing = plan.missing])
    <2> DEFINE q == [req[r] EXCEPT !.victims = plan.stale \cup plan.active,
                                   !.missing = plan.missing]
    <2>1. plan.stale \cup plan.active \subseteq listed
      BY DEF ScalePlan, Live
    <2>2. plan.missing \in SUBSET Replicas
      BY <1>1, TargetBound, MaxReplicasAssumption DEF ScalePlan, Replicas
    <2>3. q \in Request
      BY <1>2, <2>1, <2>2, ListingIsOwn DEF Request
    <2> HIDE DEF plan
    <2>4. /\ q.call = req[r].call /\ q.job = req[r].job /\ q.row = req[r].row
          /\ q.cur = req[r].cur /\ q.victims \subseteq listed
      BY <1>2, <2>1 DEF Request
    <2>5. Goto(r, "reap", q)
      BY <1>6
    <2> HIDE DEF q
    <2>6. Knows("reap", q)
      BY <1>2, <2>4 DEF Knows
    <2>7. Aims(q)
      BY <1>2, <2>4, ListingIsOwn DEF Aims, Service
    <2>8. Advances(r)
      BY <1>2, <2>3, <2>4, <2>5, <2>6, <2>7, GoesOn DEF Labels
    <2> QED
      BY <1>1, <2>8, HandlerFrame
  <1> QED
    BY <1>1, <1>3, <1>4, <1>5, <1>6 DEF List

\* The containers a handler may remove next are its own service's.
LEMMA VictimIsOwn ==
    ASSUME Inv, NEW r \in Requests, NEW v \in req[r].victims
    PROVE  v.id \in ContainerIds /\ (OwnLabelsOnly => CreatedFor(v.id, Service(r)))
  BY RequestFacts DEF Aims, Service, Request, Summaries

LEMMA StopVictimStep ==
    ASSUME Inv, NEW r \in Requests, StopVictim(r)
    PROVE  HandlerStep(r)
  <1>1. /\ pc[r] = "reap" /\ UNCHANGED rows /\ faults' \in 0 .. MaxFaults
    BY FaultsAreCounted DEF StopVictim, Reaches, Refused
  <1>2. req[r] \in Request /\ Knows("reap", req[r])
    BY <1>1, RequestFacts
  <1>3. PICK v \in req[r].victims :
          \/ ContainerStop(v.id) /\ Goto(r, "remove", [req[r] EXCEPT !.cur = v.id])
          \/ Goto(r, "remove", [req[r] EXCEPT !.cur = v.id]) /\ UNCHANGED engineVars
          \/ Answer(r, 500) /\ UNCHANGED engineVars
    BY DEF StopVictim, NextVictims
  <1>4. v.id \in ContainerIds /\ (OwnLabelsOnly => CreatedFor(v.id, Service(r)))
    BY VictimIsOwn
  <1>5. EngineStep(Service(r))
    BY <1>3, <1>4, StopIsOwn, EngineIdle
  <1>6. Knows("remove", [req[r] EXCEPT !.cur = v.id])
    BY <1>2, Fields DEF Knows
  <1>7. Advances(r)
    <2>1. CASE Goto(r, "remove", [req[r] EXCEPT !.cur = v.id])
      BY <1>1, <1>4, <1>6, <2>1, TurnsTo DEF Labels
    <2>2. CASE Answer(r, 500)
      BY <1>1, <2>2, AnswersClient DEF Answers
    <2> QED
      BY <1>3, <2>1, <2>2
  <1> QED
    BY <1>1, <1>5, <1>7, StoreIdle DEF HandlerStep

LEMMA RemoveVictimStep ==
    ASSUME Inv, NEW r \in Requests, RemoveVictim(r)
    PROVE  HandlerStep(r)
  <1>1. /\ pc[r] \in {"reap", "remove"} /\ UNCHANGED rows /\ faults' \in 0 .. MaxFaults
    BY FaultsAreCounted DEF RemoveVictim, Reaches, Refused
  <1>2. req[r] \in Request /\ Knows("reap", req[r]) /\ Aims(req[r])
    BY <1>1, RequestFacts DEF Knows
  <1>3. PICK v \in req[r].victims :
          \/ ContainerRemove(v.id) /\ Goto(r, "reap", Gone(r, v))
          \/ Goto(r, "reap", Gone(r, v)) /\ UNCHANGED engineVars
          \/ Answer(r, 500) /\ UNCHANGED engineVars
    BY DEF RemoveVictim
  <1>4. EngineStep(Service(r))
    BY <1>3, VictimIsOwn, RemoveIsOwn, EngineIdle
  <1>5. ASSUME Goto(r, "reap", Gone(r, v))
        PROVE  Advances(r)
    <2> DEFINE q == Gone(r, v)
    <2>1. /\ q \in Request /\ q.call = req[r].call /\ q.job = req[r].job
          /\ q.row = req[r].row /\ q.victims \subseteq req[r].victims /\ q.cur = NoContainer
      BY <1>2 DEF Gone, Request
    <2>2. Goto(r, "reap", q)
      BY <1>5
    <2> HIDE DEF q
    <2>3. Knows("reap", q)
      BY <1>2, <2>1 DEF Knows
    <2>4. Aims(q)
      BY <1>2, <2>1 DEF Aims
    <2> QED
      BY <1>2, <2>1, <2>2, <2>3, <2>4, GoesOn DEF Labels, Knows
  <1>6. ASSUME Answer(r, 500)
        PROVE  Advances(r)
    BY <1>1, <1>6, AnswersClient DEF Answers
  <1> QED
    BY <1>1, <1>3, <1>4, <1>5, <1>6, StoreIdle DEF HandlerStep

LEMMA ReapedStep ==
    ASSUME Inv, NEW r \in Requests, Reaped(r)
    PROVE  HandlerStep(r)
  <1>1. pc[r] = "reap" /\ UNCHANGED <<engineVars, rows>> /\ faults' \in 0 .. MaxFaults
    BY FaultsAreCounted DEF Reaped
  <1>2. Knows("reap", req[r])
    BY <1>1, RequestFacts
  <1>3. CASE req[r].job = "update" /\ Goto(r, "pull", req[r])
    <2>1. Knows("pull", req[r])
      BY <1>2, <1>3 DEF Knows
    <2> QED
      BY <1>1, <1>3, <2>1, GoesOnUnchanged, HandlerFrame DEF Labels
  <1>4. CASE req[r].job = "delete" /\ Goto(r, "deleterow", req[r])
    <2>1. Knows("deleterow", req[r])
      BY <1>2, <1>4 DEF Knows
    <2> QED
      BY <1>1, <1>4, <2>1, GoesOnUnchanged, HandlerFrame DEF Labels
  <1>5. CASE req[r].job \in {"scale", "wake"} /\ Goto(r, "create", req[r])
    <2>1. Knows("create", req[r])
      BY <1>2, <1>5 DEF Knows
    <2> QED
      BY <1>1, <1>5, <2>1, GoesOnUnchanged, HandlerFrame DEF Labels
  <1>6. CASE Answer(r, 500)
    BY <1>1, <1>6, AnswersClient, HandlerFrame DEF Answers
  <1>7. req[r].job \in {"update", "delete", "rollback", "scale", "wake"}
    BY <1>2 DEF Knows
  <1> QED
    BY <1>3, <1>4, <1>5, <1>6, <1>7 DEF Reaped

LEMMA RemoveSteps ==
    ASSUME Inv, NEW r \in Requests, Remove(r)
    PROVE  HandlerStep(r)
  BY ListStep, StopVictimStep, RemoveVictimStep, ReapedStep DEF Remove

\* A handler that is creating replicas has a least index to create next.
LEMMA NextReplicaIsMissing ==
    ASSUME Inv, NEW r \in Requests, req[r].missing # {}
    PROVE  /\ NextReplica(r) \in req[r].missing /\ NextReplica(r) \in Replicas
           /\ \A j \in req[r].missing : NextReplica(r) <= j
  <1>1. req[r].missing \subseteq Nat /\ req[r].missing \subseteq Replicas
    BY RequestFacts, MaxReplicasAssumption DEF Request, Replicas
  <1> DEFINE R == {ij \in Nat \X Nat : ij[1] < ij[2]}
  <1>2. IsWellFoundedOn(R, Nat)
    BY NatLessThanWellFounded DEF OpToRel
  <1>3. PICK i \in req[r].missing : \A j \in req[r].missing : <<j, i>> \notin R
    <2> HIDE DEF R
    <2> QED
      BY <1>1, <1>2, WFMin
  <1>4. \A j, k \in Nat : j < k => <<j, k>> \in R
    OBVIOUS
  <1>5. \A j \in req[r].missing : i <= j
    <2> HIDE DEF R
    <2> TAKE j \in req[r].missing
    <2>1. i \in Nat /\ j \in Nat /\ ~(j < i)
      BY <1>1, <1>3, <1>4
    <2> QED
      BY <2>1
  <1> QED
    BY <1>1, <1>5 DEF NextReplica

CreatingLabels == {"create", "netcreate", "connect", "inspect", "rmstale", "ccreate", "cstart"}

LEMMA DeploymentIsOwn ==
    ASSUME Inv, NEW r \in Requests, pc[r] \in CreatingLabels
    PROVE  /\ DeploymentOf(r) \in Deployment /\ DeploymentOf(r).service = Service(r)
           /\ Net(r) \in Networks
           /\ Service(r) \in Services
           /\ req[r] \in Request /\ Knows(pc[r], req[r]) /\ Knows("create", req[r])
           /\ OwnLabelsOnly => DeploymentOf(r).labels = OwnLabels(Service(r))
  <1>1. /\ req[r] \in Request /\ req[r].call \in Call /\ Knows(pc[r], req[r])
        /\ Service(r) \in Services
        /\ req[r].row # NoRow => req[r].row \in Row
        /\ OwnLabelsOnly => req[r].call.labels = OwnLabels(Service(r))
        /\ OwnLabelsOnly /\ req[r].row # NoRow => req[r].row.labels = OwnLabels(Service(r))
    BY RequestFacts, CallLabels DEF CreatingLabels, Aims, Service
  <1>2. Knows("create", req[r])
    BY <1>1 DEF Knows, CreatingLabels
  <1>3. CASE req[r].job \in {"scale", "wake"}
    <2>1. req[r].row \in Row
      BY <1>1, <1>2, <1>3 DEF Knows
    <2>2. /\ DeploymentOf(r).service = Service(r)
          /\ DeploymentOf(r).network = req[r].row.network
          /\ DeploymentOf(r).labels = req[r].row.labels
      BY <1>3 DEF DeploymentOf
    <2>3. DeploymentOf(r) \in Deployment
      BY <1>1, <1>3, <2>1 DEF DeploymentOf, Deployment, Row
    <2>4. req[r].row # NoRow
      BY <2>1, NoRowAssumption
    <2> QED
      BY <1>1, <1>2, <2>1, <2>2, <2>3, <2>4 DEF Net, Deployment
  <1>4. CASE req[r].job \in {"deploy", "update"}
    <2>1. req[r].job = "update" => req[r].row \in Row
      BY <1>1, <1>2, <1>4 DEF Knows
    <2>2. Op(r) = "update" => req[r].job = "update"
      BY <1>1, <1>2 DEF Knows, Op
    <2>3. NetworkFor(r) \in Networks
      BY <1>1, <2>1, <2>2, LifecycleAssumption DEF NetworkFor, Call, Row
    <2> QED
      BY <1>1, <1>2, <1>4, <2>3 DEF DeploymentOf, Deployment, Call, Net
  <1> QED
    BY <1>2, <1>3, <1>4 DEF Knows

LEMMA NewContainerIsOwn ==
    ASSUME Inv, NEW r \in Requests, pc[r] \in {"ccreate", "cstart"}
    PROVE  /\ NewContainer(r) \in ContainerIds
           /\ CreatedFor(NewContainer(r), Service(r))
           /\ NextReplica(r) \in Replicas /\ NewContainer(r)[2] = NextReplica(r)
  <1>1. req[r].missing # {} /\ req[r].call # NoCall
    BY RequestFacts DEF Knows
  <1>2. NextReplica(r) \in Replicas
    BY <1>1, NextReplicaIsMissing
  <1>3. NewContainer(r) = <<r, NextReplica(r)>> /\ r \in Creators
    BY LifecycleAssumption DEF NewContainer
  <1> QED
    BY <1>1, <1>2, <1>3 DEF CreatedFor, ContainerIds, Service

LEMMA PullImageStep ==
    ASSUME Inv, NEW r \in Requests, PullImage(r)
    PROVE  HandlerStep(r)
  <1>1. pc[r] = "pull" /\ UNCHANGED <<engineVars, rows>> /\ faults' \in 0 .. MaxFaults
    BY FaultsAreCounted DEF PullImage, Reaches, Refused
  <1>2. req[r] \in Request /\ Knows("pull", req[r])
    BY <1>1, RequestFacts
  <1> DEFINE M == 0 .. DeployReplicas(r) - 1
  <1>3. DeployReplicas(r) \in 0 .. MaxReplicas
    BY <1>1, TargetBound, MaxReplicasAssumption DEF DeployReplicas
  <1>4. M \in SUBSET Replicas
    BY <1>3, MaxReplicasAssumption DEF Replicas
  <1>5. Knows("create", [req[r] EXCEPT !.missing = M])
    BY <1>2, Fields DEF Knows
  <1>6. CASE Goto(r, "create", [req[r] EXCEPT !.missing = M])
    BY <1>1, <1>4, <1>5, <1>6, Misses, HandlerFrame DEF Labels
  <1>7. CASE Answer(r, 500)
    BY <1>1, <1>7, AnswersClient, HandlerFrame DEF Answers
  <1> QED
    BY <1>6, <1>7 DEF PullImage

\* A creating handler goes on to the next call of createContainer, or gives up.
LEMMA CreatingGoesOn ==
    ASSUME Inv, NEW r \in Requests, pc[r] \in CreatingLabels,
           NEW label \in CreatingLabels \ {"rmstale"}, req[r].missing # {},
           Goto(r, label, req[r]) \/ Answer(r, 500)
    PROVE  Advances(r)
  <1>1. Knows("create", req[r]) /\ pc[r] # "idle"
    BY DeploymentIsOwn DEF CreatingLabels
  <1>2. Knows(label, req[r])
    BY <1>1 DEF Knows, CreatingLabels
  <1>3. label \in Labels /\ label # "idle" /\ 500 \in Answers
    BY DEF Labels, CreatingLabels, Answers
  <1> QED
    BY <1>1, <1>2, <1>3, GoesOnUnchanged, AnswersClient

LEMMA ListNetworksStep ==
    ASSUME Inv, NEW r \in Requests, ListNetworks(r)
    PROVE  HandlerStep(r)
  <1>1. /\ pc[r] = "create" /\ req[r].missing # {} /\ UNCHANGED <<engineVars, rows>>
        /\ faults' \in 0 .. MaxFaults
    BY FaultsAreCounted DEF ListNetworks, Reaches, Refused
  <1>2. Goto(r, "connect", req[r]) \/ Goto(r, "netcreate", req[r]) \/ Answer(r, 500)
    BY DEF ListNetworks
  <1> QED
    BY <1>1, <1>2, CreatingGoesOn, HandlerFrame DEF CreatingLabels

LEMMA CreateNetworkStep ==
    ASSUME Inv, NEW r \in Requests, CreateNetwork(r)
    PROVE  HandlerStep(r)
  <1>1. pc[r] = "netcreate" /\ UNCHANGED rows /\ faults' \in 0 .. MaxFaults
    BY FaultsAreCounted DEF CreateNetwork, Reaches, Refused
  <1>2. req[r].missing # {} /\ Net(r) \in Networks /\ Service(r) \in Services
    BY <1>1, DeploymentIsOwn DEF CreatingLabels, Knows
  <1>3. EngineStep(Service(r))
    BY <1>2, NetworksAreNoContainers, EngineIdle DEF CreateNetwork
  <1>4. Advances(r)
    BY <1>1, <1>2, CreatingGoesOn DEF CreateNetwork, CreatingLabels
  <1> QED
    BY <1>1, <1>3, <1>4, StoreIdle DEF HandlerStep

LEMMA ConnectGatewayStep ==
    ASSUME Inv, NEW r \in Requests, ConnectGateway(r)
    PROVE  HandlerStep(r)
  <1>1. pc[r] = "connect" /\ UNCHANGED rows /\ faults' \in 0 .. MaxFaults
    BY FaultsAreCounted DEF ConnectGateway, Reaches, Refused
  <1>2. req[r].missing # {} /\ Net(r) \in Networks /\ Service(r) \in Services
    BY <1>1, DeploymentIsOwn DEF CreatingLabels, Knows
  <1>3. EngineStep(Service(r))
    BY <1>2, NetworksAreNoContainers, EngineIdle DEF ConnectGateway
  <1>4. Advances(r)
    BY <1>1, <1>2, CreatingGoesOn DEF ConnectGateway, CreatingLabels
  <1> QED
    BY <1>1, <1>3, <1>4, StoreIdle DEF HandlerStep

LEMMA InspectNameStep ==
    ASSUME Inv, NEW r \in Requests, InspectName(r)
    PROVE  HandlerStep(r)
  <1>1. pc[r] = "inspect" /\ UNCHANGED <<engineVars, rows>> /\ faults' \in 0 .. MaxFaults
    BY FaultsAreCounted DEF InspectName, Reaches, Refused
  <1>2. req[r] \in Request /\ req[r].missing # {} /\ Knows("create", req[r])
    BY <1>1, DeploymentIsOwn DEF CreatingLabels, Knows
  <1>3. CASE Goto(r, "ccreate", req[r]) \/ Answer(r, 500)
    BY <1>1, <1>2, <1>3, CreatingGoesOn, HandlerFrame DEF CreatingLabels
  <1>4. CASE \E c \in Named(Service(r), NextReplica(r)) :
                Goto(r, "rmstale", [req[r] EXCEPT !.cur = c])
    <2>1. PICK c \in Named(Service(r), NextReplica(r)) :
             Goto(r, "rmstale", [req[r] EXCEPT !.cur = c])
      BY <1>4
    <2>2. c \in ContainerIds /\ CreatedFor(c, Service(r))
      BY DEF Named, Existing, Inv, TypeOK, EngineTypeOK, Ownership, Marked
    <2>3. c # NoContainer
      BY <2>2, LifecycleAssumption
    <2>4. Knows("rmstale", [req[r] EXCEPT !.cur = c])
      BY <1>2, <2>3, Fields DEF Knows
    <2> QED
      BY <1>1, <2>1, <2>2, <2>4, TurnsTo, HandlerFrame DEF Labels
  <1> QED
    BY <1>3, <1>4 DEF InspectName

LEMMA RemoveStaleStep ==
    ASSUME Inv, NEW r \in Requests, RemoveStale(r)
    PROVE  HandlerStep(r)
  <1>1. pc[r] = "rmstale" /\ UNCHANGED rows /\ faults' \in 0 .. MaxFaults
    BY FaultsAreCounted DEF RemoveStale, Reaches, Refused
  <1>2. /\ req[r] \in Request /\ Knows("rmstale", req[r]) /\ Aims(req[r])
    BY <1>1, RequestFacts
  <1>3. OwnLabelsOnly => CreatedFor(req[r].cur, Service(r))
    BY <1>2 DEF Knows, Aims, Service
  <1>4. EngineStep(Service(r))
    BY <1>3, RemoveIsOwn, EngineIdle DEF RemoveStale
  <1>5. Knows("ccreate", [req[r] EXCEPT !.cur = NoContainer])
    BY <1>2, Fields DEF Knows
  <1>6. Advances(r)
    <2>1. CASE Goto(r, "ccreate", [req[r] EXCEPT !.cur = NoContainer])
      BY <1>1, <1>5, <2>1, TurnsTo DEF Labels
    <2>2. CASE Answer(r, 500)
      BY <1>1, <2>2, AnswersClient DEF Answers
    <2> QED
      BY <2>1, <2>2 DEF RemoveStale
  <1> QED
    BY <1>1, <1>4, <1>6, StoreIdle DEF HandlerStep

LEMMA CreateContainerStep ==
    ASSUME Inv, NEW r \in Requests, CreateContainer(r)
    PROVE  HandlerStep(r)
  <1>1. pc[r] = "ccreate" /\ UNCHANGED rows /\ faults' \in 0 .. MaxFaults
    BY FaultsAreCounted DEF CreateContainer, Reaches, Refused
  <1>2. /\ req[r].missing # {} /\ DeploymentOf(r) \in Deployment
        /\ DeploymentOf(r).service = Service(r)
        /\ OwnLabelsOnly => DeploymentOf(r).labels = OwnLabels(Service(r))
    BY <1>1, DeploymentIsOwn DEF CreatingLabels, Knows
  <1>3. EngineStep(Service(r))
    BY <1>1, <1>2, NewContainerIsOwn, CreateIsOwn, EngineIdle DEF CreateContainer
  <1>4. Advances(r)
    BY <1>1, <1>2, CreatingGoesOn DEF CreateContainer, CreatingLabels
  <1> QED
    BY <1>1, <1>3, <1>4, StoreIdle DEF HandlerStep

LEMMA StartContainerStep ==
    ASSUME Inv, NEW r \in Requests, StartContainer(r)
    PROVE  HandlerStep(r)
  <1>1. pc[r] = "cstart" /\ UNCHANGED rows /\ faults' \in 0 .. MaxFaults
    BY FaultsAreCounted DEF StartContainer, Reaches, Refused
  <1>2. EngineStep(Service(r))
    BY <1>1, NewContainerIsOwn, StartIsOwn, EngineIdle DEF StartContainer
  <1> DEFINE M == req[r].missing \ {NextReplica(r)}
  <1>3. req[r] \in Request /\ Knows("create", req[r]) /\ M \in SUBSET Replicas
    BY <1>1, DeploymentIsOwn DEF CreatingLabels, Request
  <1>4. Knows("create", [req[r] EXCEPT !.missing = M])
    BY <1>3, Fields DEF Knows
  <1>5. CASE Goto(r, "create", [req[r] EXCEPT !.missing = @ \ {NextReplica(r)}])
    <2>1. Goto(r, "create", [req[r] EXCEPT !.missing = M])
      BY <1>5
    <2>2. Advances(r)
      BY <1>1, <1>3, <1>4, <2>1, Misses DEF Labels
    <2> QED
      BY <1>1, <1>2, <2>2, StoreIdle DEF HandlerStep
  <1>6. CASE Answer(r, 500)
    <2>1. Advances(r)
      BY <1>1, <1>6, AnswersClient DEF Answers
    <2> QED
      BY <1>1, <1>2, <2>1, StoreIdle DEF HandlerStep
  <1> QED
    BY <1>5, <1>6 DEF StartContainer

LEMMA CreatedStep ==
    ASSUME Inv, NEW r \in Requests, Created(r)
    PROVE  HandlerStep(r)
  <1>1. pc[r] = "create" /\ UNCHANGED <<engineVars, rows>> /\ faults' \in 0 .. MaxFaults
    BY FaultsAreCounted DEF Created
  <1>2. Knows("create", req[r])
    BY <1>1, RequestFacts
  <1>3. PICK label \in {"insert", "save", "setreplicas"} :
          Goto(r, label, req[r]) /\ Knows(label, req[r])
    BY <1>2 DEF Created, Knows
  <1> QED
    BY <1>1, <1>3, GoesOnUnchanged, HandlerFrame DEF Labels

LEMMA CreateSteps ==
    ASSUME Inv, NEW r \in Requests, Create(r)
    PROVE  HandlerStep(r)
  BY PullImageStep, ListNetworksStep, CreateNetworkStep, ConnectGatewayStep, InspectNameStep,
     RemoveStaleStep, CreateContainerStep, StartContainerStep, CreatedStep DEF Create

\* The rows a handler writes.
LEMMA StoreSteps ==
    ASSUME Inv, NEW r \in Requests, Store(r)
    PROVE  HandlerStep(r)
  <1>1. /\ pc[r] \in {"insert", "save", "setreplicas", "deleterow"}
        /\ UNCHANGED engineVars /\ faults' \in 0 .. MaxFaults
    BY FaultsAreCounted DEF Store, InsertRow, SaveRow, SetReplicas, DeleteRow
  <1>2. /\ req[r] \in Request /\ req[r].call \in Call /\ Knows(pc[r], req[r])
        /\ Service(r) \in Services
        /\ req[r].row # NoRow => req[r].row \in Row
        /\ OwnLabelsOnly => req[r].call.labels = OwnLabels(Service(r))
    BY <1>1, RequestFacts, CallLabels
  <1>3. EngineStep(Service(r))
    BY <1>1, EngineIdle
  <1>4. ASSUME Answer(r, 202) \/ Answer(r, 500)
        PROVE  Advances(r)
    BY <1>1, <1>4, AnswersClient DEF Answers
  <1>5. CASE InsertRow(r)
    <2>1. Op(r) # "update" /\ Knows("list", [req[r] EXCEPT !.job = "rollback", !.row = NoRow])
      <3> DEFINE q == [req[r] EXCEPT !.job = "rollback", !.row = NoRow]
      <3>1. q.job = "rollback" /\ q.row = NoRow /\ q.call = req[r].call
        BY <1>2 DEF Request
      <3>2. pc[r] = "insert"
        BY <1>5 DEF InsertRow
      <3> HIDE DEF q
      <3>3. Op(r) # "update" /\ Knows("list", q)
        BY <1>2, <3>1, <3>2 DEF Knows, Op
      <3> QED
        BY <3>3 DEF q
    <2>2. NetworkFor(r) \in Networks
      BY <1>2, <2>1, LifecycleAssumption DEF NetworkFor, Call
    <2> DEFINE row == [image |-> req[r].call.image, limited |-> req[r].call.limited,
                       network |-> NetworkFor(r), labels |-> req[r].call.labels,
                       replicas |-> 1]
    <2>3. row \in Row /\ (OwnLabelsOnly => row.labels = OwnLabels(Service(r)))
      BY <1>2, <2>2, MaxReplicasAssumption DEF Row, Call
    <2>4. StoreStep(Service(r))
      <3>1. CreateFunction(Service(r), row) \/ UNCHANGED rows
        BY <1>5 DEF InsertRow
      <3> HIDE DEF row
      <3> QED
        BY <1>2, <2>3, <3>1, StatementIsOwn, StoreIdle, MaxReplicasAssumption
    <2>5. CASE Begin(r, "list", "rollback", NoRow)
      BY <1>1, <2>1, <2>5, Begins, <1>3, <2>4 DEF Labels, Jobs, HandlerStep
    <2> QED
      BY <1>1, <1>3, <1>4, <1>5, <2>4, <2>5 DEF InsertRow, HandlerStep
  <1>6. CASE SaveRow(r)
    <2>1. req[r].row \in Row
      BY <1>2, <1>6 DEF SaveRow, Knows
    <2>2. NetworkFor(r) \in Networks
      BY <1>2, <2>1, LifecycleAssumption DEF NetworkFor, Call, Row
    <2> DEFINE row == [image |-> req[r].call.image,
                       limited |-> req[r].call.limited \/ req[r].row.limited,
                       network |-> NetworkFor(r), labels |-> req[r].call.labels,
                       replicas |-> req[r].row.replicas]
    <2>3. row \in Row /\ (OwnLabelsOnly => row.labels = OwnLabels(Service(r)))
      BY <1>2, <2>1, <2>2 DEF Row, Call
    <2>4. UpdateFunction(Service(r), row) \/ UNCHANGED rows
      BY <1>6 DEF SaveRow
    <2>5. StoreStep(Service(r))
      <3> HIDE DEF row
      <3> QED
        BY <1>2, <2>3, <2>4, StatementIsOwn, StoreIdle, MaxReplicasAssumption
    <2>6. Advances(r)
      BY <1>4, <1>6 DEF SaveRow
    <2> QED
      BY <1>1, <1>3, <2>5, <2>6 DEF HandlerStep
  <1>7. CASE SetReplicas(r)
    <2>1. UpdateReplicas(Service(r), Target(r)) \/ UNCHANGED rows
      BY <1>7 DEF SetReplicas
    <2>2. PICK row : row \in Row /\ (OwnLabelsOnly => row.labels = OwnLabels(Service(r)))
      BY <1>2, <1>7, RequestFacts DEF SetReplicas, Knows, Aims, Service
    <2>3. StoreStep(Service(r))
      BY <1>1, <1>2, <2>1, <2>2, TargetBound, StatementIsOwn, StoreIdle
    <2>4. req[r].job = "wake" => Knows("wait", req[r])
      BY <1>2, <1>7 DEF SetReplicas, Knows
    <2>5. CASE req[r].job = "wake" /\ Goto(r, "wait", req[r])
      BY <1>1, <1>3, <2>3, <2>4, <2>5, GoesOnUnchanged DEF Labels, HandlerStep
    <2> QED
      BY <1>1, <1>3, <1>4, <1>7, <2>3, <2>5 DEF SetReplicas, HandlerStep
  <1>8. CASE DeleteRow(r)
    <2>1. DeleteFunction(Service(r)) \/ UNCHANGED rows
      BY <1>8 DEF DeleteRow
    <2>2. /\ req[r].row \in Row
          /\ OwnLabelsOnly => req[r].row.labels = OwnLabels(Service(r))
      BY <1>2, <1>8, RequestFacts DEF DeleteRow, Knows, Aims, Service
    <2>3. StoreStep(Service(r))
      BY <1>2, <2>1, <2>2, StatementIsOwn, StoreIdle, MaxReplicasAssumption
    <2>4. Knows("netinspect", req[r])
      BY <1>2, <1>8 DEF DeleteRow, Knows
    <2>5. CASE Goto(r, "netinspect", req[r])
      BY <1>1, <1>3, <2>3, <2>4, <2>5, GoesOnUnchanged DEF Labels, HandlerStep
    <2> QED
      BY <1>1, <1>3, <1>4, <1>8, <2>3, <2>5 DEF DeleteRow, HandlerStep
  <1> QED
    BY <1>5, <1>6, <1>7, <1>8 DEF Store

LEMMA CleanupSteps ==
    ASSUME Inv, NEW r \in Requests, Cleanup(r)
    PROVE  HandlerStep(r)
  <1>1. /\ pc[r] \in {"netinspect", "disconnect", "netreinspect", "netremove"}
        /\ UNCHANGED rows /\ faults' \in 0 .. MaxFaults
    BY FaultsAreCounted
    DEF Cleanup, InspectNetwork, DisconnectGateway, ReinspectNetwork, RemoveNetwork, Reaches, Refused
  <1>2. /\ Knows(pc[r], req[r]) /\ Service(r) \in Services
        /\ req[r].row # NoRow => req[r].row \in Row
    BY <1>1, RequestFacts
  <1>3. OldNet(r) \in Networks
    BY <1>1, <1>2 DEF Knows, OldNet, Row
  <1>4. EngineStep(Service(r))
    BY <1>2, <1>3, NetworksAreNoContainers, EngineIdle
    DEF Cleanup, InspectNetwork, DisconnectGateway, ReinspectNetwork, RemoveNetwork
  <1>5. CASE Answer(r, 202)
    <2>1. Advances(r)
      BY <1>1, <1>5, AnswersClient DEF Answers
    <2> QED
      BY <1>1, <1>4, <2>1, StoreIdle DEF HandlerStep
  <1>6. CASE \E label \in {"disconnect", "netreinspect", "netremove"} : Goto(r, label, req[r])
    <2>1. PICK label \in {"disconnect", "netreinspect", "netremove"} : Goto(r, label, req[r])
      BY <1>6
    <2>2. Knows(label, req[r])
      BY <1>1, <1>2 DEF Knows
    <2>3. Advances(r)
      BY <1>1, <2>1, <2>2, GoesOnUnchanged DEF Labels
    <2> QED
      BY <1>1, <1>4, <2>3, StoreIdle DEF HandlerStep
  <1> QED
    BY <1>5, <1>6
    DEF Cleanup, InspectNetwork, DisconnectGateway, ReinspectNetwork, RemoveNetwork

LEMMA InvokeSteps ==
    ASSUME Inv, NEW r \in Requests, Invoke(r)
    PROVE  HandlerStep(r)
  <1>1. /\ pc[r] \in {"probe", "wait", "accept", "route", "forward"}
        /\ UNCHANGED <<engineVars, rows>> /\ faults' \in 0 .. MaxFaults
    BY FaultsAreCounted
    DEF Invoke, Probe, Poll, WaitTimeout, Accept, Route, Forward, Reaches, Refused
  <1>2. req[r] \in Request /\ Knows(pc[r], req[r]) /\ Aims(req[r])
    BY <1>1, RequestFacts
  <1>3. ASSUME NEW code \in Answers, Answer(r, code)
        PROVE  Advances(r)
    BY <1>1, <1>3, AnswersClient
  <1>4. ASSUME NEW label \in {"accept", "route"}, Goto(r, label, req[r])
        PROVE  Advances(r)
    <2>1. Knows(label, req[r])
      BY <1>1, <1>2 DEF Knows
    <2> QED
      BY <1>1, <1>4, <2>1, GoesOnUnchanged DEF Labels
  <1>5. Ready(r) \in {"accept", "route"} /\ 500 \in Answers /\ 504 \in Answers /\ 200 \in Answers
    BY DEF Ready, Answers
  <1>6. CASE Probe(r)
    <2>1. CASE Begin(r, "list", "wake", req[r].row)
      <3> DEFINE q == [req[r] EXCEPT !.job = "wake", !.row = req[r].row]
      <3>1. q.job = "wake" /\ q.row = req[r].row /\ q.call = req[r].call
        BY <1>2 DEF Request
      <3> HIDE DEF q
      <3>3. Knows("list", q)
        BY <1>1, <1>2, <3>1 DEF Knows
      <3>4. Knows("list", [req[r] EXCEPT !.job = "wake", !.row = req[r].row])
        BY <3>3 DEF q
      <3> QED
        BY <1>1, <2>1, <3>4, Begins, HandlerFrame DEF Labels, Jobs
    <2> QED
      BY <1>1, <1>3, <1>4, <1>5, <1>6, <2>1, HandlerFrame DEF Probe
  <1>7. CASE Poll(r) \/ WaitTimeout(r)
    BY <1>1, <1>3, <1>4, <1>5, <1>7, HandlerFrame DEF Poll, WaitTimeout
  <1>8. CASE Accept(r)
    <2> DEFINE q == [req[r] EXCEPT !.answer = 202, !.cancelled = FALSE]
    <2>1. /\ q \in Request /\ q.call = req[r].call /\ q.job = req[r].job /\ q.row = req[r].row
          /\ q.missing = req[r].missing /\ q.victims = req[r].victims /\ q.cur = req[r].cur
      <3>1. 202 \in Answers
        BY DEF Answers
      <3>2. q \in Request
        BY <1>2, <3>1 DEF Request
      <3>3. /\ q.call = req[r].call /\ q.job = req[r].job /\ q.row = req[r].row
            /\ q.missing = req[r].missing /\ q.victims = req[r].victims /\ q.cur = req[r].cur
        BY <1>2 DEF Request
      <3> QED
        BY <3>2, <3>3
    <2>2. Goto(r, "route", q)
      BY <1>8 DEF Accept
    <2> HIDE DEF q
    <2>3. Knows("route", q) /\ Aims(q)
      BY <1>1, <1>2, <2>1 DEF Knows, Aims
    <2>4. Advances(r)
      BY <1>1, <1>2, <2>1, <2>2, <2>3, GoesOn DEF Labels, Knows
    <2> QED
      BY <1>1, <2>4, HandlerFrame
  <1>9. CASE Route(r)
    <2>1. ASSUME NEW c \in ContainersOf(Service(r)) \cup {NoContainer},
                 Goto(r, "forward", [req[r] EXCEPT !.cur = c])
          PROVE  Advances(r)
      <3>1. /\ c \in ContainerIds \cup {NoContainer}
            /\ OwnLabelsOnly /\ c # NoContainer => CreatedFor(c, Service(r))
        BY DEF ContainersOf, Existing, Inv, TypeOK, EngineTypeOK, Ownership, Marked
      <3>2. Knows("forward", [req[r] EXCEPT !.cur = c])
        BY <1>1, <1>2, Fields DEF Knows
      <3> QED
        BY <1>1, <2>1, <3>1, <3>2, TurnsTo DEF Labels
    <2>2. \/ \E c \in ContainersOf(Service(r)) :
                Goto(r, "forward", [req[r] EXCEPT !.cur =
                    IF c \in Running(Service(r)) THEN c ELSE NoContainer])
          \/ Answer(r, 500)
      BY <1>9 DEF Route
    <2>3. \/ \E c \in ContainersOf(Service(r)) \cup {NoContainer} :
                Goto(r, "forward", [req[r] EXCEPT !.cur = c])
          \/ Answer(r, 500)
      <3>1. CASE Answer(r, 500)
        BY <3>1
      <3>2. ASSUME NEW c \in ContainersOf(Service(r)),
                   Goto(r, "forward", [req[r] EXCEPT !.cur =
                       IF c \in Running(Service(r)) THEN c ELSE NoContainer])
            PROVE  \E d \in ContainersOf(Service(r)) \cup {NoContainer} :
                      Goto(r, "forward", [req[r] EXCEPT !.cur = d])
        <4>1. CASE c \in Running(Service(r))
          BY <3>2, <4>1
        <4>2. CASE c \notin Running(Service(r))
          BY <3>2, <4>2
        <4> QED
          BY <4>1, <4>2
      <3> QED
        BY <2>2, <3>1, <3>2
    <2>4. Advances(r)
      <3>1. CASE Answer(r, 500)
        BY <1>1, <3>1, AnswersClient DEF Answers
      <3>2. CASE \E c \in ContainersOf(Service(r)) \cup {NoContainer} :
                    Goto(r, "forward", [req[r] EXCEPT !.cur = c])
        BY <2>1, <3>2
      <3> QED
        BY <2>3, <3>1, <3>2
    <2> QED
      BY <1>1, <1>3, <2>4, HandlerFrame
  <1>10. CASE Forward(r)
    <2>1. req[r].answer \in Answers /\ Arrives(r) \in BOOLEAN
      BY <1>2 DEF Request, Arrives, Reachable
    <2>2. PICK code \in Answers : Finish(r, code, Arrives(r))
      BY <1>5, <1>10, <2>1 DEF Forward
    <2>3. Advances(r)
      BY <1>1, <2>1, <2>2, Finishes
    <2> QED
      BY <1>1, <2>3, HandlerFrame
  <1> QED
    BY <1>6, <1>7, <1>8, <1>9, <1>10 DEF Invoke

\* A step of a handler, whatever call it makes.
LEMMA HandlesInFlight ==
    ASSUME NEW r \in Requests, Handle(r)
    PROVE  r \in InFlight
  <1>1. pc[r] \notin {"idle", "done"}
    BY DEF Handle, Lookup, Remove, List, StopVictim, RemoveVictim, Reaped, Create, PullImage,
           ListNetworks, CreateNetwork, ConnectGateway, InspectName, RemoveStale,
           CreateContainer, StartContainer, Created, Store, InsertRow, SaveRow, SetReplicas,
           DeleteRow, Cleanup, InspectNetwork, DisconnectGateway, ReinspectNetwork,
           RemoveNetwork, Invoke, Probe, Poll, WaitTimeout, Accept, Route, Forward
  <1> QED
    BY <1>1 DEF InFlight

LEMMA HandleSteps ==
    ASSUME Inv, NEW r \in Requests, Handle(r)
    PROVE  HandlerStep(r)
  BY LookupStep, RemoveSteps, CreateSteps, StoreSteps, CleanupSteps, InvokeSteps DEF Handle

--------------------------------------------------------------------------------
(* The invariant *)

\* When a request goes on, the others know what they knew, and nothing changes hands.
LEMMA OthersStand ==
    ASSUME Inv, NEW r \in Requests, NEW label \in Labels, NEW q \in Request,
           Knows(label, q), Aims(q), Goto(r, label, q),
           req[r].call = NoCall \/ q.call = req[r].call
    PROVE  /\ pc' \in [Requests -> Labels] /\ req' \in [Requests -> Request]
           /\ \A t \in Requests : Knows(pc'[t], req'[t])
           /\ \A c, s : CreatedFor(c, s) => CreatedFor(c, s)'
           /\ \A t \in Requests : Aims(req[t])'
  <1>1. /\ pc \in [Requests -> Labels] /\ req \in [Requests -> Request]
        /\ \A t \in Requests : Knows(pc[t], req[t]) /\ Aims(req[t])
    BY DEF Inv, TypeOK
  <1>2. /\ pc' = [pc EXCEPT ![r] = label] /\ req' = [req EXCEPT ![r] = q]
    BY DEF Goto
  <1>3. pc' \in [Requests -> Labels] /\ req' \in [Requests -> Request]
    BY <1>1, <1>2
  <1>4. \A t \in Requests : IF t = r THEN pc'[t] = label /\ req'[t] = q
                                       ELSE pc'[t] = pc[t] /\ req'[t] = req[t]
    BY <1>1, <1>2
  <1>5. \A c, s : CreatedFor(c, s) => CreatedFor(c, s)'
    BY <1>4 DEF CreatedFor
  <1>6. \A t \in Requests : Aims(req'[t])
    BY <1>1, <1>4
  <1>7. \A t \in Requests : Aims(req[t])'
    BY <1>5, <1>6 DEF Aims
  <1> QED
    BY <1>1, <1>3, <1>4, <1>5, <1>7

\* What happens to containers leaves every container with the service it was created for.
LEMMA OwnersStand ==
    ASSUME Inv, NEW s, EngineStep(s), StoreStep(s),
           \A c, t : CreatedFor(c, t) => CreatedFor(c, t)'
    PROVE  Ownership'
  <1>1. \A c \in Existing' : Marked(c, containers'[c])
    BY DEF EngineStep
  <1>2. \A c \in Existing' : Marked(c, containers[c])'
    BY <1>1 DEF Marked
  <1> QED
    BY <1>2 DEF Ownership, StoreStep

\* A step for one service leaves the containers and the row of every other as they are.
LEMMA OthersUntouched ==
    ASSUME Inv, OwnLabelsOnly,
           NEW s \in Services, NEW t \in Services, s # t, EngineStep(t), StoreStep(t)
    PROVE  /\ ContainersOf(s)' = ContainersOf(s)
           /\ \A c \in ContainersOf(s) : containers'[c] = containers[c]
           /\ Stored(s)' = Stored(s)
           /\ Stored(s) => rows'[s] = rows[s]
  <1>1. \A c \in Existing : CreatedFor(c, containers[c].service)
    BY OwnersByLabel
  <1>2. \A c : CreatedFor(c, s) => ~CreatedFor(c, t)
    BY OneOwner
  <1>3. \A c \in ContainersOf(s) : c \in Existing' /\ containers'[c] = containers[c]
    BY <1>1, <1>2 DEF EngineStep, ContainersOf
  <1>4. \A c \in Existing' : containers'[c].service = s => c \in Existing /\ containers'[c] = containers[c]
    BY <1>1, <1>2 DEF EngineStep, Marked
  <1>5. ContainersOf(s)' = ContainersOf(s)
    BY <1>3, <1>4 DEF ContainersOf
  <1>6. StoreTypeOK /\ StoreTypeOK' /\ GetFunction(s)' = GetFunction(s)
    BY DEF Inv, TypeOK, StoreStep
  <1>7. Stored(s)' = Stored(s) /\ (Stored(s) => rows'[s] = rows[s])
    BY <1>6, NoRowAssumption DEF GetFunction, Stored, StoreTypeOK
  <1> QED
    BY <1>3, <1>5, <1>7

LEMMA HandlerStepPreserves ==
    ASSUME Inv, NEW r \in Requests, HandlerStep(r)
    PROVE  Inv'
  <1>1. PICK label \in Labels, q \in Request :
          /\ Knows(label, q) /\ Aims(q) /\ q.call = req[r].call /\ Goto(r, label, q)
    BY DEF HandlerStep, Advances
  <1>2. /\ pc' \in [Requests -> Labels] /\ req' \in [Requests -> Request]
        /\ \A t \in Requests : Knows(pc'[t], req'[t])
        /\ \A c, s : CreatedFor(c, s) => CreatedFor(c, s)'
        /\ \A t \in Requests : Aims(req[t])'
    BY <1>1, OthersStand
  <1>3. Ownership'
    BY <1>2, OwnersStand DEF HandlerStep
  <1>4. TypeOK'
    BY <1>2 DEF HandlerStep, EngineStep, StoreStep, TypeOK
  <1> QED
    BY <1>2, <1>3, <1>4 DEF Inv, Knows

LEMMA ArrivePreserves ==
    ASSUME Inv, NEW r \in Requests, Arrive(r)
    PROVE  Inv'
  <1>1. PICK call \in Calls : Goto(r, "lookup", Blank(call, NoAnswer, FALSE))
    BY DEF Arrive
  <1> DEFINE q == Blank(call, NoAnswer, FALSE)
  <1>2. /\ q \in Request /\ q.call = call /\ q.job = "none" /\ q.victims = {}
        /\ q.cur = NoContainer /\ q.row = NoRow
    <2>1. NoAnswer \in Answers /\ "none" \in Jobs
      BY DEF Answers, Jobs
    <2> QED
      BY <2>1 DEF Blank, Request
  <1>3. Goto(r, "lookup", q) /\ "lookup" \in Labels /\ call # NoCall
    BY <1>1, LifecycleAssumption DEF Labels
  <1> HIDE DEF q
  <1>4. Knows("lookup", q) /\ Aims(q)
    BY <1>2, <1>3 DEF Knows, Aims
  <1>5. req[r].call = NoCall
    BY RequestFacts DEF Arrive, Knows
  <1>6. UNCHANGED <<engineVars, rows, faults>>
    BY DEF Arrive
  <1>7. /\ pc' \in [Requests -> Labels] /\ req' \in [Requests -> Request]
        /\ \A t \in Requests : Knows(pc'[t], req'[t])
        /\ \A c, s : CreatedFor(c, s) => CreatedFor(c, s)'
        /\ \A t \in Requests : Aims(req[t])'
    BY <1>2, <1>3, <1>4, <1>5, OthersStand
  <1>8. EngineStep(Service(r)) /\ StoreStep(Service(r))
    BY <1>6, EngineIdle, StoreIdle
  <1>9. Ownership'
    BY <1>7, <1>8, OwnersStand
  <1>10. TypeOK'
    BY <1>6, <1>7, <1>8 DEF EngineStep, StoreStep, TypeOK, Inv
  <1> QED
    BY <1>7, <1>9, <1>10 DEF Inv

LEMMA HangUpPreserves ==
    ASSUME Inv, NEW r \in Requests, HangUp(r)
    PROVE  Inv'
  <1> DEFINE q == [req[r] EXCEPT !.cancelled = TRUE]
  <1>1. /\ pc[r] \in Labels /\ req[r] \in Request /\ Knows(pc[r], req[r]) /\ Aims(req[r])
        /\ pc[r] # "idle" /\ req[r].call # NoCall
    BY RequestFacts DEF HangUp, InFlight, Knows
  <1>2. q \in Request
    BY <1>1 DEF Request
  <1>3. /\ q.call = req[r].call /\ q.job = req[r].job /\ q.row = req[r].row
        /\ q.missing = req[r].missing /\ q.victims = req[r].victims /\ q.cur = req[r].cur
    BY <1>1 DEF Request
  <1>4. Goto(r, pc[r], q)
    BY DEF HangUp
  <1> HIDE DEF q
  <1>5. Knows(pc[r], q) /\ Aims(q)
    BY <1>1, <1>3 DEF Knows, Aims
  <1>6. UNCHANGED <<engineVars, rows>> /\ faults' \in 0 .. MaxFaults
    BY FaultsAreCounted DEF HangUp
  <1>7. Advances(r)
    BY <1>1, <1>2, <1>3, <1>4, <1>5, GoesOn
  <1> QED
    BY <1>1, <1>6, <1>7, HandlerFrame, HandlerStepPreserves

\* An engine that acts on its own: a container exits and is brought back.
LEMMA ExitRestartPreserves ==
    ASSUME Inv, NEW c \in ContainerIds, Exit(c) \/ Restart(c)
    PROVE  Inv'
  <1>1. /\ c \in Existing /\ UNCHANGED <<networks, attached>>
        /\ SetState(c, "running") \/ SetState(c, "restarting")
    BY DEF Exit, Restart, ContainerExits, ContainerRestarts, Startable
  <1>2. UNCHANGED <<rows, pc, req>> /\ faults' \in 0 .. MaxFaults
    BY FaultsAreCounted DEF Exit, Restart
  <1>3. CreatedFor(c, containers[c].name[1])
    BY <1>1 DEF Inv, Ownership, Marked
  <1>4. EngineStep(containers[c].name[1])
    BY <1>1, <1>3, SetStateIsOwn DEF EngineStates
  <1>5. StoreStep(containers[c].name[1])
    BY <1>2, StoreIdle
  <1>6. \A d, t : CreatedFor(d, t) => CreatedFor(d, t)'
    BY <1>2 DEF CreatedFor
  <1>7. Ownership'
    BY <1>4, <1>5, <1>6, OwnersStand
  <1>8. TypeOK'
    BY <1>2, <1>4, <1>5 DEF Inv, TypeOK, EngineStep, StoreStep
  <1> QED
    BY <1>2, <1>6, <1>7, <1>8 DEF Inv, Aims

LEMMA CrashPreserves ==
    ASSUME Inv, CrashAndRestart
    PROVE  Inv'
  <1>1. /\ pc \in [Requests -> Labels] /\ req \in [Requests -> Request]
        /\ \A r \in Requests : Knows(pc[r], req[r]) /\ Aims(req[r])
        /\ EngineTypeOK /\ StoreTypeOK /\ faults' \in 0 .. MaxFaults
    BY FaultsAreCounted DEF Inv, TypeOK, CrashAndRestart
  <1>2. \A r \in Requests :
           \/ pc'[r] = pc[r] /\ req'[r] = req[r]
           \/ /\ pc'[r] = "done" /\ req[r].call # NoCall
              /\ req'[r] = Blank(req[r].call, req[r].answer, FALSE)
    BY <1>1 DEF CrashAndRestart, InFlight, Knows
  <1>3. \A r \in Requests : req'[r] \in Request /\ req'[r].call = req[r].call
    <2> SUFFICES ASSUME NEW r \in Requests
                 PROVE  req'[r] \in Request /\ req'[r].call = req[r].call
      OBVIOUS
    <2>1. req[r].call \in Calls \cup {NoCall} /\ req[r].answer \in Answers /\ "none" \in Jobs
      BY <1>1 DEF Request, Jobs
    <2>2. LET q == Blank(req[r].call, req[r].answer, FALSE) IN q \in Request /\ q.call = req[r].call
      BY <2>1 DEF Blank, Request
    <2> QED
      BY <1>1, <1>2, <2>2
  <1>4. \A r \in Requests : pc'[r] \in Labels /\ Knows(pc'[r], req'[r]) /\ Aims(req'[r])
    <2> SUFFICES ASSUME NEW r \in Requests, pc'[r] = "done", req[r].call # NoCall,
                        req'[r] = Blank(req[r].call, req[r].answer, FALSE)
                 PROVE  pc'[r] \in Labels /\ Knows(pc'[r], req'[r]) /\ Aims(req'[r])
      BY <1>1, <1>2
    <2>1. /\ req'[r].call = req[r].call /\ req'[r].job = "none" /\ req'[r].victims = {}
          /\ req'[r].cur = NoContainer /\ req'[r].row = NoRow
      BY DEF Blank
    <2> QED
      BY <2>1 DEF Knows, Aims, Labels
  <1>5. \A c, s : CreatedFor(c, s) => CreatedFor(c, s)'
    BY <1>3 DEF CreatedFor
  <1>6. \A r \in Requests : Aims(req[r])'
    BY <1>4, <1>5 DEF Aims
  <1>7. Ownership'
    BY <1>5 DEF Inv, Ownership, Marked, CrashAndRestart, Existing
  <1>8. EngineTypeOK' /\ StoreTypeOK'
    BY <1>1 DEF CrashAndRestart, EngineTypeOK, StoreTypeOK
  <1>9. pc' \in [Requests -> Labels] /\ req' \in [Requests -> Request]
    BY <1>3, <1>4 DEF CrashAndRestart
  <1> QED
    BY <1>1, <1>4, <1>6, <1>7, <1>8, <1>9 DEF Inv, TypeOK

\* The containers that exist when the behaviour begins.
LEMMA DeployedContainers ==
    ASSUME OwnLabelsOnly, NEW R \in InitialRows, Deployed(R)
    PROVE  /\ Existing = {d \in Services \X Replicas : d[1] \in DOMAIN R /\ d[2] < R[d[1]].replicas}
           /\ \A c \in Existing :
                 /\ containers[c].service = c[1] /\ containers[c].replica = c[2]
                 /\ containers[c].image = R[c[1]].image /\ containers[c].network = R[c[1]].network
                 /\ containers[c].state = "running"
  <1> DEFINE D == {d \in Services \X Replicas : d[1] \in DOMAIN R /\ d[2] < R[d[1]].replicas}
             C(c) == Made(DeploymentIn(R, c[1]), c[2])
  <1>1. containers = [c \in D |-> [C(c) EXCEPT !.state = "running"]]
    BY DEF Deployed
  <1>2. Existing = D /\ \A c \in D : containers[c] = [C(c) EXCEPT !.state = "running"]
    BY <1>1 DEF Existing
  <1>3. ASSUME NEW c \in D
        PROVE  /\ C(c).service = c[1] /\ C(c).replica = c[2]
               /\ C(c).image = R[c[1]].image /\ C(c).network = R[c[1]].network
    <2>0. c[1] \in DOMAIN R /\ c[2] \in Replicas
      OBVIOUS
    <2>1. R[c[1]].labels = OwnLabels(c[1])
      BY <2>0 DEF OwnLabelsOnly
    <2>2. OwnLabels(c[1])[c[2]] = <<c[1], c[2]>>
      BY <2>0 DEF OwnLabels
    <2>3. R[c[1]].labels[c[2]][1] = c[1] /\ R[c[1]].labels[c[2]][2] = c[2]
      BY <2>1, <2>2
    <2> QED
      BY <2>3 DEF Made, DeploymentIn
  <1>4. ASSUME NEW c \in D
        PROVE  /\ containers[c].service = C(c).service /\ containers[c].replica = C(c).replica
               /\ containers[c].image = C(c).image /\ containers[c].network = C(c).network
               /\ containers[c].state = "running"
    <2>1. PICK new : new = C(c)
      OBVIOUS
    <2>2. containers[c] = [new EXCEPT !.state = "running"]
      BY <1>2, <2>1
    <2>3. DOMAIN new = {"name", "service", "replica", "image", "limited", "network", "state"}
      BY <2>1 DEF Made
    <2> QED
      BY <2>1, <2>2, <2>3
  <1> QED
    BY <1>2, <1>3, <1>4

LEMMA InitInv ==
    ASSUME Init
    PROVE  Inv
  <1>1. PICK R \in InitialRows : Deployed(R)
    BY DEF Init
  <1>2. DOMAIN R \subseteq Services /\ \A s \in DOMAIN R : R[s] \in Row
    BY LifecycleAssumption
  <1>3. StoreTypeOK
    BY <1>1, <1>2 DEF Deployed, StoreTypeOK
  <1> DEFINE ids == {d \in Services \X Replicas : d[1] \in DOMAIN R /\ d[2] < R[d[1]].replicas}
             made(c) == [Made(DeploymentIn(R, c[1]), c[2]) EXCEPT !.state = "running"]
  <1>4. containers = [c \in ids |-> made(c)]
    BY <1>1 DEF Deployed
  <1>5. \A c \in ids : /\ c \in ContainerIds /\ c[1] \in Services
                       /\ made(c) \in Container /\ Marked(c, made(c))
    <2> SUFFICES ASSUME NEW c \in ids
                 PROVE  /\ c \in ContainerIds /\ c[1] \in Services
                        /\ made(c) \in Container /\ Marked(c, made(c))
      OBVIOUS
    <2>1. /\ c \in Services \X Replicas /\ R[c[1]] \in Row
          /\ OwnLabelsOnly => R[c[1]].labels = OwnLabels(c[1])
      BY <1>2 DEF OwnLabelsOnly
    <2>2. c \in ContainerIds
      BY <2>1, LifecycleAssumption DEF ContainerIds
    <2> DEFINE dep == DeploymentIn(R, c[1])
    <2>3. /\ dep \in Deployment /\ dep.service = c[1]
          /\ OwnLabelsOnly => dep.labels = OwnLabels(dep.service)
      BY <2>1 DEF Row, Deployment, DeploymentIn
    <2>4. CreatedFor(c, c[1]) /\ c[2] \in Replicas
      BY <2>1, <2>2 DEF CreatedFor
    <2> HIDE DEF dep
    <2>5. Made(dep, c[2]) \in Container /\ Marked(c, Made(dep, c[2]))
      BY <2>2, <2>3, <2>4, MadeIsMarked
    <2>6. "running" \in EngineStates
      BY DEF EngineStates
    <2>7. made(c) \in Container /\ Marked(c, made(c))
      BY <2>5, <2>6 DEF Container, Marked, dep
    <2> QED
      BY <2>1, <2>2, <2>7
  <1> HIDE DEF ids, made
  <1>6. networks \in [{R[s].network : s \in DOMAIN R} -> DOMAIN R] /\ attached = DOMAIN networks
    BY <1>1 DEF Deployed
  <1>7. EngineTypeOK
    BY <1>2, <1>4, <1>5, <1>6 DEF EngineTypeOK, Row
  <1>8. Ownership
    BY <1>1, <1>4, <1>5 DEF Ownership, Existing, Deployed, OwnLabelsOnly
  <1>9. /\ pc = [r \in Requests |-> "idle"]
        /\ req = [r \in Requests |-> Blank(NoCall, NoAnswer, FALSE)]
        /\ faults \in 0 .. MaxFaults
    BY LifecycleAssumption DEF Init
  <1> DEFINE q == Blank(NoCall, NoAnswer, FALSE)
  <1>10. q \in Request /\ Knows("idle", q) /\ Aims(q) /\ "idle" \in Labels
    <2>1. NoAnswer \in Answers /\ "none" \in Jobs
      BY DEF Answers, Jobs
    <2>2. q \in Request
      BY <2>1 DEF Blank, Request
    <2>3. /\ q.call = NoCall /\ q.job = "none" /\ q.victims = {} /\ q.cur = NoContainer
          /\ q.row = NoRow
      BY DEF Blank
    <2> HIDE DEF q
    <2> QED
      BY <2>2, <2>3 DEF Knows, Aims, Labels
  <1> HIDE DEF q
  <1>11. /\ pc \in [Requests -> Labels] /\ req \in [Requests -> Request]
         /\ \A r \in Requests : Knows(pc[r], req[r]) /\ Aims(req[r])
    BY <1>9, <1>10 DEF q
  <1> QED
    BY <1>3, <1>7, <1>8, <1>9, <1>11 DEF Inv, TypeOK

LEMMA StutterPreserves ==
    ASSUME Inv, UNCHANGED vars
    PROVE  Inv'
  BY DEF Inv, TypeOK, EngineTypeOK, StoreTypeOK, Ownership, Marked, Existing, CreatedFor, Aims, vars

LEMMA NextInv ==
    ASSUME Inv, [Next]_vars
    PROVE  Inv'
  <1>1. ASSUME NEW r \in Requests, Arrive(r)
        PROVE  Inv'
    BY <1>1, ArrivePreserves
  <1>2. ASSUME NEW r \in Requests, Handle(r)
        PROVE  Inv'
    BY <1>2, HandleSteps, HandlerStepPreserves
  <1>3. CASE Disturb
    BY <1>3, HangUpPreserves, ExitRestartPreserves DEF Disturb
  <1>4. CASE CrashAndRestart
    BY <1>4, CrashPreserves
  <1>5. CASE UNCHANGED vars
    BY <1>5, StutterPreserves
  <1> QED
    BY <1>1, <1>2, <1>3, <1>4, <1>5 DEF Next, Quiesced

\* The invariant holds in every state of every behaviour.
THEOREM Invariance == Spec => []Inv
  <1>1. Init => Inv
    BY InitInv
  <1>2. Inv /\ [Next]_vars => Inv'
    BY NextInv
  <1> QED
    BY <1>1, <1>2, PTL DEF Spec

\* Every value the gateway, the store and the engine hold has its type: in particular
\* no handler asks for more replicas than a client may, and the gateway is attached
\* to existing networks only.
THEOREM TypeCorrect == Spec => []TypeOK
  <1>1. Inv => TypeOK
    BY DEF Inv
  <1> QED
    BY <1>1, Invariance, PTL

--------------------------------------------------------------------------------
(* Isolation *)

\* A handler whose next call is label has not made the container of index i, and may.
Unmaking(label, q, i) ==
    \/ label \in {"idle", "lookup", "pull", "probe"}
    \/ label \in {"list", "reap", "remove"} /\ q.job # "rollback"
    \/ /\ label \in CreatingLabels /\ i \in q.missing
       /\ label = "cstart" => \E j \in q.missing : j < i

Unmade(r, i) == Unmaking(pc[r], req[r], i)

\* What a handler acts on by id: the containers it listed, as long as they exist, bear its
\* service's label, for no id is used twice; one it found by name was made for its service.
Familiar ==
    /\ \A r \in Requests : \A v \in req[r].victims :
          v.id \in Existing => containers[v.id].service = Service(r)
    /\ \A r \in Requests : pc[r] = "rmstale" => CreatedFor(req[r].cur, Service(r))
    /\ \A r \in Requests, i \in Replicas : Unmade(r, i) =>
          /\ <<r, i>> \notin Existing
          /\ \A t \in Requests : \A v \in req[t].victims : v.id # <<r, i>>

\* What a step of r does to a container: it bears the service's label or name.
OwnTouch(r) ==
    /\ \A c \in Existing : c \in Existing' =>
          containers'[c].service = containers[c].service
    /\ \A c \in Existing :
          \/ c \in Existing' /\ containers'[c] = containers[c]
          \/ containers[c].service = Service(r)
          \/ CreatedFor(c, Service(r))
    /\ \A c \in Existing' \ Existing :
          /\ CreatedFor(c, Service(r))
          /\ c[1] = r
          /\ c[2] \in Replicas
          /\ Unmade(r, c[2]) /\ ~Unmade(r, c[2])'

\* What it knows afterwards.
OwnKnowledge(r) ==
    /\ \/ req'[r].victims \subseteq req[r].victims
       \/ UNCHANGED containers /\ req'[r].victims \subseteq Listing(Service(r))
    /\ \A i \in Replicas : Unmade(r, i)' => Unmade(r, i)
    /\ pc'[r] = "rmstale" => CreatedFor(req'[r].cur, Service(r))

LEMMA NoTouch ==
    ASSUME NEW r \in Requests, UNCHANGED containers
    PROVE  OwnTouch(r)
  BY DEF OwnTouch, Existing

LEMMA StateTouch ==
    ASSUME NEW r \in Requests, NEW c, NEW state, SetState(c, state), EngineTypeOK,
           c \in Existing => containers[c].service = Service(r) \/ CreatedFor(c, Service(r))
    PROVE  OwnTouch(r)
  <1>1. Existing' = Existing
    BY DEF SetState, Existing
  <1>2. \A d \in Existing : /\ d # c => containers'[d] = containers[d]
                            /\ containers'[d].service = containers[d].service
    BY DEF SetState, Existing, EngineTypeOK, Container
  <1> QED
    BY <1>1, <1>2 DEF OwnTouch

LEMMA RemovalTouch ==
    ASSUME NEW r \in Requests, NEW c, ContainerRemove(c),
           c \in Existing => containers[c].service = Service(r) \/ CreatedFor(c, Service(r))
    PROVE  OwnTouch(r)
  <1>1. Existing' = Existing \ {c} /\ \A d \in Existing' : containers'[d] = containers[d]
    BY DEF ContainerRemove, Existing
  <1> QED
    BY <1>1 DEF OwnTouch

\* Where a handler goes it has not made more than it had not made before.
LEMMA KnowsOn ==
    ASSUME Inv, NEW r \in Requests, NEW label, NEW q, Goto(r, label, q),
           \/ q.victims \subseteq req[r].victims
           \/ UNCHANGED containers /\ q.victims \subseteq Listing(Service(r)),
           \A i \in Replicas : Unmaking(label, q, i) => Unmade(r, i),
           label = "rmstale" => CreatedFor(q.cur, Service(r))
    PROVE  OwnKnowledge(r)
  <1>1. pc'[r] = label /\ req'[r] = q
    BY DEF Goto, Inv, TypeOK
  <1> QED
    BY <1>1 DEF OwnKnowledge, Unmade

LEMMA EndKnown ==
    ASSUME Inv, NEW r \in Requests, NEW code, NEW arrived, Finish(r, code, arrived)
    PROVE  OwnKnowledge(r)
  <1>1. Goto(r, "done", Blank(req[r].call, code, arrived))
    BY DEF Finish
  <1>2. Blank(req[r].call, code, arrived).victims = {}
    BY DEF Blank
  <1>3. \A q, i : ~Unmaking("done", q, i)
    BY DEF Unmaking, CreatingLabels
  <1> QED
    BY <1>1, <1>2, <1>3, KnowsOn

LEMMA AnswerKnown ==
    ASSUME Inv, NEW r \in Requests, NEW code, Answer(r, code)
    PROVE  OwnKnowledge(r)
  BY EndKnown DEF Answer

\* A step that leaves the handler with the victims it had.
LEMMA OnwardKnown ==
    ASSUME Inv, NEW r \in Requests, NEW label, label # "rmstale", NEW q, Goto(r, label, q),
           q.victims = req[r].victims,
           \A i \in Replicas : Unmaking(label, q, i) => Unmade(r, i)
    PROVE  OwnKnowledge(r)
  BY KnowsOn

LEMMA EarlyIsUnmade ==
    ASSUME NEW r \in Requests, NEW i,
           \/ pc[r] \in {"idle", "lookup", "pull", "probe"}
           \/ pc[r] \in {"list", "reap", "remove"} /\ req[r].job # "rollback"
    PROVE  Unmade(r, i)
  BY DEF Unmade, Unmaking

LEMMA LookupFamiliar ==
    ASSUME Inv, NEW r \in Requests, Lookup(r)
    PROVE  OwnTouch(r) /\ OwnKnowledge(r)
  <1>1. pc[r] = "lookup" /\ UNCHANGED containers
    BY DEF Lookup, engineVars
  <1>2. \/ \E label \in {"pull", "list", "probe"} : \E job, row : Begin(r, label, job, row)
        \/ \E code : Answer(r, code)
    BY DEF Lookup, HandleDeployFunction, HandleUpdateFunction, DeployBuiltImage,
           HandleDeleteFunction, HandleScaleFunction, HandleInvokeFunction
  <1>3. ASSUME NEW label \in {"pull", "list", "probe"}, NEW job, NEW row, Begin(r, label, job, row)
        PROVE  OwnKnowledge(r)
    <2>1. [req[r] EXCEPT !.job = job, !.row = row].victims = req[r].victims
      BY DEF Inv, TypeOK, Request
    <2> QED
      BY <1>1, <1>3, <2>1, EarlyIsUnmade, OnwardKnown DEF Begin
  <1> QED
    BY <1>1, <1>2, <1>3, NoTouch, AnswerKnown

LEMMA VictimTouch ==
    ASSUME Familiar, NEW r \in Requests, NEW v \in req[r].victims
    PROVE  v.id \in Existing => containers[v.id].service = Service(r)
  BY DEF Familiar

LEMMA RemoveFamiliar ==
    ASSUME Inv, Familiar, NEW r \in Requests, Remove(r)
    PROVE  OwnTouch(r) /\ OwnKnowledge(r)
  <1>1. /\ req[r] \in Request /\ EngineTypeOK
        /\ pc[r] \in {"list", "reap", "remove"}
    BY DEF Inv, TypeOK, Remove, List, StopVictim, RemoveVictim, Reaped
  <1>2. ASSUME NEW label \in {"list", "reap", "remove"}, NEW q, Goto(r, label, q), q.job = req[r].job,
               \/ q.victims \subseteq req[r].victims
               \/ UNCHANGED containers /\ q.victims \subseteq Listing(Service(r))
        PROVE  OwnKnowledge(r)
    <2>1. \A i \in Replicas : Unmaking(label, q, i) => Unmade(r, i)
      BY <1>1, <1>2 DEF Unmaking, Unmade, CreatingLabels
    <2> QED
      BY <1>2, <2>1, KnowsOn
  <1>3. CASE List(r)
    <2>1. UNCHANGED containers
      BY <1>3 DEF List, engineVars
    <2>2. CASE Goto(r, "pull", req[r]) /\ req[r].job = "update"
      BY <1>1, <2>1, <2>2, OnwardKnown, EarlyIsUnmade, NoTouch
    <2>3. CASE Answer(r, 500)
      BY <2>1, <2>3, AnswerKnown, NoTouch
    <2> DEFINE listed == Listing(Service(r))
               plan   == ScalePlan(listed, Target(r))
    <2>4. CASE Goto(r, "reap", [req[r] EXCEPT !.victims = listed])
      <3>1. LET q == [req[r] EXCEPT !.victims = listed] IN q.job = req[r].job /\ q.victims = listed
        BY <1>1 DEF Request
      <3> QED
        BY <1>2, <2>1, <2>4, <3>1, NoTouch
    <2>5. CASE Goto(r, "reap", [req[r] EXCEPT !.victims = plan.stale \cup plan.active,
                                              !.missing = plan.missing])
      <3>1. plan.stale \cup plan.active \subseteq listed
        BY DEF ScalePlan, Live
      <3> HIDE DEF plan, listed
      <3>2. LET q == [req[r] EXCEPT !.victims = plan.stale \cup plan.active,
                                    !.missing = plan.missing]
            IN  q.job = req[r].job /\ q.victims = plan.stale \cup plan.active
        BY <1>1 DEF Request
      <3> QED
        BY <1>2, <2>1, <2>5, <3>1, <3>2, NoTouch DEF listed
    <2> QED
      BY <1>3, <2>1, <2>2, <2>3, <2>4, <2>5, NoTouch DEF List
  <1>4. CASE StopVictim(r)
    <2>1. PICK v \in req[r].victims :
            \/ ContainerStop(v.id) /\ Goto(r, "remove", [req[r] EXCEPT !.cur = v.id])
            \/ Goto(r, "remove", [req[r] EXCEPT !.cur = v.id]) /\ UNCHANGED engineVars
            \/ Answer(r, 500) /\ UNCHANGED engineVars
      BY <1>4 DEF StopVictim, NextVictims
    <2>2. OwnTouch(r)
      BY <1>1, <2>1, VictimTouch, StateTouch, NoTouch DEF ContainerStop, engineVars
    <2>3. LET q == [req[r] EXCEPT !.cur = v.id] IN q.job = req[r].job /\ q.victims = req[r].victims
      BY <1>1 DEF Request
    <2> QED
      BY <1>2, <2>1, <2>2, <2>3, AnswerKnown
  <1>5. CASE RemoveVictim(r)
    <2>1. PICK v \in req[r].victims :
            \/ ContainerRemove(v.id) /\ Goto(r, "reap", Gone(r, v))
            \/ Goto(r, "reap", Gone(r, v)) /\ UNCHANGED engineVars
            \/ Answer(r, 500) /\ UNCHANGED engineVars
      BY <1>5 DEF RemoveVictim
    <2>2. OwnTouch(r)
      BY <2>1, VictimTouch, RemovalTouch, NoTouch DEF engineVars
    <2>3. Gone(r, v).job = req[r].job /\ Gone(r, v).victims \subseteq req[r].victims
      BY <1>1 DEF Request, Gone
    <2> QED
      BY <1>2, <2>1, <2>2, <2>3, AnswerKnown
  <1>6. CASE Reaped(r)
    <2>1. UNCHANGED containers /\ pc[r] = "reap"
      BY <1>6 DEF Reaped, engineVars
    <2>2. \/ req[r].job = "update" /\ Goto(r, "pull", req[r])
          \/ req[r].job = "delete" /\ Goto(r, "deleterow", req[r])
          \/ Answer(r, 500)
          \/ req[r].job \in {"scale", "wake"} /\ Goto(r, "create", req[r])
      <3>1. req[r].job \in {"update", "delete", "rollback", "scale", "wake"}
        BY <2>1, RequestFacts DEF Knows
      <3> QED
        BY <1>6, <3>1 DEF Reaped
    <2> QED
      BY <1>1, <2>1, <2>2, OnwardKnown, EarlyIsUnmade, NoTouch, AnswerKnown
  <1> QED
    BY <1>3, <1>4, <1>5, <1>6 DEF Remove

LEMMA CreateFamiliar ==
    ASSUME Inv, Familiar, NEW r \in Requests, Create(r)
    PROVE  OwnTouch(r) /\ OwnKnowledge(r)
  <1>1. req[r] \in Request /\ EngineTypeOK
    BY DEF Inv, TypeOK
  <1>2. CASE Answer(r, 500) /\ UNCHANGED containers
    BY <1>2, AnswerKnown, NoTouch
  <1>3. ASSUME NEW label \in CreatingLabels \ {"rmstale", "cstart"}, Goto(r, label, req[r]),
               pc[r] \in CreatingLabels \ {"cstart"}
        PROVE  OwnKnowledge(r)
    BY <1>3, OnwardKnown DEF Unmade, Unmaking, CreatingLabels
  <1>4. CASE PullImage(r)
    <2>1. [req[r] EXCEPT !.missing = 0 .. DeployReplicas(r) - 1].victims = req[r].victims
      BY <1>1, Fields
    <2>2. pc[r] = "pull" /\ UNCHANGED containers
      BY <1>4 DEF PullImage, engineVars
    <2>3. CASE Goto(r, "create", [req[r] EXCEPT !.missing = 0 .. DeployReplicas(r) - 1])
      BY <2>1, <2>2, <2>3, EarlyIsUnmade, OnwardKnown, NoTouch
    <2> QED
      BY <1>2, <1>4, <2>2, <2>3 DEF PullImage
  <1>5. CASE ListNetworks(r) \/ CreateNetwork(r) \/ ConnectGateway(r)
    <2>1. UNCHANGED containers /\ pc[r] \in CreatingLabels \ {"cstart"}
      BY <1>5 DEF ListNetworks, CreateNetwork, ConnectGateway, NetworkCreate, NetworkConnect,
                  engineVars, CreatingLabels
    <2>2. \/ Answer(r, 500)
          \/ \E label \in {"connect", "netcreate", "inspect"} : Goto(r, label, req[r])
      BY <1>5 DEF ListNetworks, CreateNetwork, ConnectGateway
    <2> QED
      BY <1>2, <1>3, <2>1, <2>2, NoTouch DEF CreatingLabels
  <1>6. CASE InspectName(r)
    <2>1. UNCHANGED containers /\ pc[r] = "inspect"
      BY <1>6 DEF InspectName, engineVars
    <2>2. \/ Answer(r, 500)
          \/ Goto(r, "ccreate", req[r])
          \/ \E c \in Named(Service(r), NextReplica(r)) :
                Goto(r, "rmstale", [req[r] EXCEPT !.cur = c])
      BY <1>6 DEF InspectName
    <2>3. ASSUME NEW c \in Named(Service(r), NextReplica(r)),
                 Goto(r, "rmstale", [req[r] EXCEPT !.cur = c])
          PROVE  OwnKnowledge(r)
      <3>1. CreatedFor(c, Service(r))
        BY DEF Named, Inv, Ownership, Marked
      <3> DEFINE q == [req[r] EXCEPT !.cur = c]
      <3>2. q.cur = c /\ q.victims = req[r].victims /\ q.missing = req[r].missing
        BY <1>1, Fields
      <3>3. Goto(r, "rmstale", q)
        BY <2>3
      <3> HIDE DEF q
      <3>4. \A i \in Replicas : Unmaking("rmstale", q, i) => Unmade(r, i)
        BY <2>1, <3>2 DEF Unmaking, Unmade, CreatingLabels
      <3> QED
        BY <3>1, <3>2, <3>3, <3>4, KnowsOn
    <2> QED
      BY <1>2, <1>3, <2>1, <2>2, <2>3, NoTouch DEF CreatingLabels
  <1>7. CASE RemoveStale(r)
    <2>1. /\ pc[r] = "rmstale" /\ CreatedFor(req[r].cur, Service(r))
          /\ ContainerRemove(req[r].cur) \/ UNCHANGED containers
      BY <1>7 DEF RemoveStale, Familiar, engineVars
    <2>2. OwnTouch(r)
      BY <2>1, RemovalTouch, NoTouch
    <2>3. CASE Goto(r, "ccreate", [req[r] EXCEPT !.cur = NoContainer])
      <3> DEFINE q == [req[r] EXCEPT !.cur = NoContainer]
      <3>1. q.victims = req[r].victims /\ q.missing = req[r].missing
        BY <1>1, Fields
      <3>2. Goto(r, "ccreate", q)
        BY <2>3
      <3> HIDE DEF q
      <3>3. \A i \in Replicas : Unmaking("ccreate", q, i) => Unmade(r, i)
        BY <2>1, <3>1 DEF Unmaking, Unmade, CreatingLabels
      <3> QED
        BY <2>2, <3>1, <3>2, <3>3, OnwardKnown
    <2> QED
      BY <1>7, <2>2, <2>3, AnswerKnown DEF RemoveStale
  <1>8. CASE CreateContainer(r)
    <2>1. pc[r] = "ccreate" /\ pc[r] # "idle"
      BY <1>8 DEF CreateContainer
    <2>2. PICK k : /\ k = NextReplica(r) /\ k \in req[r].missing /\ k \in Replicas
                   /\ \A i \in req[r].missing : k <= i
      BY <2>1, NextReplicaIsMissing, RequestFacts DEF Knows
    <2> DEFINE c == <<r, k>>
    <2>3. c = NewContainer(r) /\ CreatedFor(c, Service(r))
      BY <2>1, <2>2, NewContainerIsOwn DEF NewContainer
    <2>4. CASE ContainerCreate(c, DeploymentOf(r), k) /\ Goto(r, "cstart", req[r])
      <3>1. pc'[r] = "cstart" /\ req'[r] = req[r]
        BY <2>4 DEF Goto, Inv, TypeOK
      <3>2. Unmade(r, k)
        BY <2>1, <2>2 DEF Unmade, Unmaking, CreatingLabels
      <3>3. req[r].missing \subseteq Nat
        BY <1>1, MaxReplicasAssumption DEF Request, Replicas
      <3>4. ~Unmade(r, k)'
        BY <2>2, <3>1, <3>3 DEF Unmade, Unmaking, CreatingLabels
      <3>5. \A i \in Replicas : Unmaking("cstart", req[r], i) => Unmade(r, i)
        BY <2>1 DEF Unmade, Unmaking, CreatingLabels
      <3>6. c \notin Existing
        BY <2>2, <2>3, <3>2 DEF Familiar
      <3>7. Existing' = Existing \cup {c} /\ \A d \in Existing : containers'[d] = containers[d]
        BY <2>4, <3>6 DEF ContainerCreate, Existing
      <3>8. c[1] = r /\ c[2] = k
        OBVIOUS
      <3> HIDE DEF c
      <3>9. OwnTouch(r)
        BY <2>2, <2>3, <3>2, <3>4, <3>7, <3>8 DEF OwnTouch
      <3> QED
        BY <2>4, <3>5, <3>9, OnwardKnown
    <2> QED
      BY <1>2, <1>8, <2>2, <2>3, <2>4 DEF CreateContainer, engineVars
  <1>9. CASE StartContainer(r)
    <2>1. pc[r] = "cstart" /\ pc[r] # "idle"
      BY <1>9 DEF StartContainer
    <2>2. /\ NextReplica(r) \in req[r].missing /\ NextReplica(r) \in Replicas
          /\ \A i \in req[r].missing : NextReplica(r) <= i
      BY <2>1, NextReplicaIsMissing, RequestFacts DEF Knows
    <2>3. CreatedFor(NewContainer(r), Service(r))
      BY <2>1, NewContainerIsOwn
    <2>4. CASE /\ ContainerStart(NewContainer(r))
               /\ Goto(r, "create", [req[r] EXCEPT !.missing = @ \ {NextReplica(r)}])
      <3> DEFINE q == [req[r] EXCEPT !.missing = @ \ {NextReplica(r)}]
      <3>1. q.missing = req[r].missing \ {NextReplica(r)} /\ q.victims = req[r].victims
        BY <1>1, Fields
      <3>2. Goto(r, "create", q)
        BY <2>4
      <3> HIDE DEF q
      <3>3. req[r].missing \subseteq Nat
        BY <1>1, MaxReplicasAssumption DEF Request, Replicas
      <3>4. \A i \in Replicas : Unmaking("create", q, i) => Unmade(r, i)
        BY <2>1, <2>2, <3>1, <3>3 DEF Unmade, Unmaking, CreatingLabels
      <3>5. OwnTouch(r)
        BY <1>1, <2>3, <2>4, StateTouch DEF ContainerStart
      <3> QED
        BY <3>1, <3>2, <3>4, <3>5, OnwardKnown
    <2> QED
      BY <1>2, <1>9, <2>4 DEF StartContainer, engineVars
  <1>10. CASE Created(r)
    <2>1. UNCHANGED containers
      BY <1>10 DEF Created, engineVars
    <2>2. \E label \in {"insert", "save", "setreplicas"} : Goto(r, label, req[r])
      BY <1>10 DEF Created
    <2>3. \A label \in {"insert", "save", "setreplicas"} : \A q, i : ~Unmaking(label, q, i)
      BY DEF Unmaking, CreatingLabels
    <2> QED
      BY <2>1, <2>2, <2>3, OnwardKnown, NoTouch
  <1> QED
    BY <1>4, <1>5, <1>6, <1>7, <1>8, <1>9, <1>10 DEF Create

\* The rest of a handler's calls are about rows, networks and containers it only looks at.
LEMMA OtherFamiliar ==
    ASSUME Inv, NEW r \in Requests, Store(r) \/ Cleanup(r) \/ Invoke(r)
    PROVE  OwnTouch(r) /\ OwnKnowledge(r)
  <1>1. req[r] \in Request
    BY DEF Inv, TypeOK
  <1>2. UNCHANGED containers
    BY DEF Store, InsertRow, SaveRow, SetReplicas, DeleteRow, Cleanup, InspectNetwork,
           DisconnectGateway, ReinspectNetwork, RemoveNetwork, NetworkDisconnect, NetworkRemove,
           Invoke, Probe, Poll, WaitTimeout, Accept, Route, Forward, engineVars
  <1>3. ASSUME NEW label \in {"netinspect", "disconnect", "netreinspect", "netremove", "wait",
                              "accept", "route"}, Goto(r, label, req[r])
        PROVE  OwnKnowledge(r)
    BY <1>3, OnwardKnown DEF Unmaking, CreatingLabels
  <1>4. ASSUME NEW job, NEW row, Begin(r, "list", job, row), job = "rollback" \/ pc[r] = "probe"
        PROVE  OwnKnowledge(r)
    <2> DEFINE q == [req[r] EXCEPT !.job = job, !.row = row]
    <2>1. q.victims = req[r].victims /\ q.job = job
      BY <1>1 DEF Request
    <2>2. Goto(r, "list", q)
      BY <1>4 DEF Begin
    <2> HIDE DEF q
    <2>3. \A i \in Replicas : Unmaking("list", q, i) => Unmade(r, i)
      BY <1>4, <2>1, EarlyIsUnmade DEF Unmaking, CreatingLabels
    <2> QED
      BY <2>1, <2>2, <2>3, OnwardKnown
  <1>5. CASE Store(r)
    <2>1. \/ \E code : Answer(r, code)
          \/ Begin(r, "list", "rollback", NoRow)
          \/ \E label \in {"wait", "netinspect"} : Goto(r, label, req[r])
      BY <1>5 DEF Store, InsertRow, SaveRow, SetReplicas, DeleteRow
    <2> QED
      BY <1>2, <1>3, <1>4, <2>1, NoTouch, AnswerKnown
  <1>6. CASE Cleanup(r)
    <2>1. \/ \E code : Answer(r, code)
          \/ \E label \in {"disconnect", "netreinspect", "netremove"} : Goto(r, label, req[r])
      BY <1>6 DEF Cleanup, InspectNetwork, DisconnectGateway, ReinspectNetwork, RemoveNetwork
    <2> QED
      BY <1>2, <1>3, <2>1, NoTouch, AnswerKnown
  <1>7. CASE Probe(r) \/ Poll(r) \/ WaitTimeout(r)
    <2>1. Ready(r) \in {"accept", "route"}
      BY DEF Ready
    <2>2. \/ \E code : Answer(r, code)
          \/ Goto(r, Ready(r), req[r])
          \/ pc[r] = "probe" /\ Begin(r, "list", "wake", req[r].row)
      BY <1>7 DEF Probe, Poll, WaitTimeout
    <2> QED
      BY <1>2, <1>3, <1>4, <2>1, <2>2, NoTouch, AnswerKnown
  <1>8. ASSUME NEW label \in {"route", "forward"}, NEW q, Goto(r, label, q),
               q.victims = req[r].victims
        PROVE  OwnKnowledge(r)
    BY <1>8, OnwardKnown DEF Unmaking, CreatingLabels
  <1>9. CASE Accept(r)
    <2>1. [req[r] EXCEPT !.answer = 202, !.cancelled = FALSE].victims = req[r].victims
      BY <1>1 DEF Request
    <2> QED
      BY <1>2, <1>8, <1>9, <2>1, NoTouch DEF Accept
  <1>10. CASE Route(r)
    <2>1. \/ Answer(r, 500)
          \/ \E c : Goto(r, "forward", [req[r] EXCEPT !.cur = c])
      BY <1>10 DEF Route
    <2>2. \A c : [req[r] EXCEPT !.cur = c].victims = req[r].victims
      BY <1>1, Fields
    <2> QED
      BY <1>2, <1>8, <2>1, <2>2, NoTouch, AnswerKnown
  <1>11. CASE Forward(r)
    BY <1>2, <1>11, NoTouch, EndKnown DEF Forward
  <1> QED
    BY <1>5, <1>6, <1>7, <1>9, <1>10, <1>11 DEF Invoke

LEMMA HandleFamiliar ==
    ASSUME Inv, Familiar, NEW r \in Requests, Handle(r)
    PROVE  OwnTouch(r) /\ OwnKnowledge(r)
  BY LookupFamiliar, RemoveFamiliar, CreateFamiliar, OtherFamiliar DEF Handle

LEMMA HandlePreservesFamiliar ==
    ASSUME Inv, Familiar, NEW r \in Requests, OwnTouch(r), OwnKnowledge(r), HandlerStep(r)
    PROVE  Familiar'
  <1>1. PICK label, q : /\ Goto(r, label, q) /\ q.call = req[r].call
    BY DEF HandlerStep, Advances
  <1>2. /\ \A t \in Requests \ {r} : pc'[t] = pc[t] /\ req'[t] = req[t]
        /\ req'[r].call = req[r].call
    BY <1>1 DEF Goto, Inv, TypeOK
  <1>3. \A t \in Requests : Service(t)' = Service(t)
    BY <1>2 DEF Service
  <1>4. \A t \in Requests, i \in Replicas : Unmade(t, i)' => Unmade(t, i)
    BY <1>2 DEF OwnKnowledge, Unmade
  \* A victim still listed had not been made by anyone when it was listed.
  <1>6. \A t \in Requests : \A v \in req'[t].victims :
           \/ v \in req[t].victims
           \/ /\ t = r /\ UNCHANGED containers
              /\ v.id \in Existing /\ containers[v.id].service = Service(r)
    BY <1>2 DEF OwnKnowledge, Listing, Summary, ContainersOf
  <1>7. ASSUME NEW t \in Requests, NEW v \in req'[t].victims, v.id \in Existing'
        PROVE  containers'[v.id].service = Service(t)'
    <2>1. CASE v \in req[t].victims /\ v.id \in Existing
      BY <1>3, <1>7, <2>1 DEF Familiar, OwnTouch
    <2>2. CASE v \in req[t].victims /\ v.id \notin Existing
      <3>1. v.id \in ContainerIds /\ v.id[1] = r /\ v.id[2] \in Replicas /\ Unmade(r, v.id[2])
        BY <1>7, <2>2 DEF OwnTouch, CreatedFor
      <3>2. v.id = <<r, v.id[2]>>
        BY <3>1 DEF ContainerIds
      <3> QED
        BY <2>2, <3>1, <3>2 DEF Familiar
    <2>3. CASE t = r /\ UNCHANGED containers /\ containers[v.id].service = Service(r)
      BY <1>3, <2>3
    <2> QED
      BY <1>6, <2>1, <2>2, <2>3
  <1>8. ASSUME NEW t \in Requests, pc'[t] = "rmstale"
        PROVE  CreatedFor(req[t].cur, Service(t))'
    <2>1. CreatedFor(req'[t].cur, Service(t))
      BY <1>2, <1>8 DEF OwnKnowledge, Familiar
    <2> QED
      BY <1>2, <1>3, <2>1 DEF CreatedFor
  <1>9. ASSUME NEW t \in Requests, NEW i \in Replicas, Unmade(t, i)'
        PROVE  /\ <<t, i>> \notin Existing'
               /\ \A u \in Requests : \A v \in req'[u].victims : v.id # <<t, i>>
    <2>1. Unmade(t, i)
      BY <1>4, <1>9
    <2>2. /\ <<t, i>> \notin Existing
          /\ \A u \in Requests : \A v \in req[u].victims : v.id # <<t, i>>
      BY <2>1 DEF Familiar
    <2>3. <<t, i>> \notin Existing'
      BY <1>9, <2>2 DEF OwnTouch
    <2> QED
      BY <1>6, <2>2, <2>3
  <1> QED
    BY <1>7, <1>8, <1>9 DEF Familiar

\* What happens to a request whose handler makes no call.
Still(t) ==
    /\ req[t].call # NoCall => req'[t].call = req[t].call
    /\ \/ req'[t].victims = {}
       \/ req'[t].call = req[t].call /\ req'[t].victims \subseteq req[t].victims
    /\ \A i \in Replicas : Unmade(t, i)' => Unmade(t, i)
    /\ pc'[t] = "rmstale" =>
          pc[t] = "rmstale" /\ req'[t].cur = req[t].cur /\ req'[t].call = req[t].call

LEMMA EnvironmentPreservesFamiliar ==
    ASSUME Familiar, \A t \in Requests : Still(t),
           \A c \in Existing' : c \in Existing /\ containers'[c].service = containers[c].service
    PROVE  Familiar'
  <1>1. ASSUME NEW t \in Requests, NEW v \in req'[t].victims, v.id \in Existing'
        PROVE  containers'[v.id].service = Service(t)'
    BY <1>1 DEF Familiar, Service, Still
  <1>2. ASSUME NEW t \in Requests, pc'[t] = "rmstale"
        PROVE  CreatedFor(req[t].cur, Service(t))'
    <2>1. PICK c : c = req[t].cur /\ CreatedFor(c, Service(t))
      BY <1>2 DEF Familiar, Still
    <2>2. req'[t].cur = c /\ Service(t)' = Service(t)
      BY <1>2, <2>1 DEF Still, Service
    <2>3. \A u \in Requests : req[u].call # NoCall => req'[u].call = req[u].call
      BY DEF Still
    <2>4. CreatedFor(c, Service(t))'
      BY <2>1, <2>2, <2>3 DEF CreatedFor
    <2> QED
      BY <2>2, <2>4
  <1>3. ASSUME NEW t \in Requests, NEW i \in Replicas, Unmade(t, i)'
        PROVE  /\ <<t, i>> \notin Existing'
               /\ \A u \in Requests : \A v \in req'[u].victims : v.id # <<t, i>>
    BY <1>3 DEF Familiar, Still
  <1> QED
    BY <1>1, <1>2, <1>3 DEF Familiar

LEMMA InitFamiliar ==
    ASSUME Init
    PROVE  Familiar
  <1>1. \A r \in Requests : req[r].victims = {} /\ pc[r] = "idle"
    BY DEF Init, Blank
  <1>2. \A c \in Existing : c[1] \in Services
    BY DEF Init, Deployed, Existing
  <1>3. \A r \in Requests, i \in Replicas : <<r, i>>[1] \notin Services
    BY LifecycleAssumption
  <1> QED
    BY <1>1, <1>2, <1>3 DEF Familiar

LEMMA NextFamiliar ==
    ASSUME Inv, Familiar, [Next]_vars
    PROVE  Familiar'
  <1>1. /\ pc \in [Requests -> Labels] /\ req \in [Requests -> Request]
        /\ EngineTypeOK /\ \A t \in Requests : Knows(pc[t], req[t])
    BY DEF Inv, TypeOK
  <1>2. ASSUME NEW t \in Requests, pc'[t] = pc[t], req'[t] = req[t]
        PROVE  Still(t)
    BY <1>2 DEF Still, Unmade
  <1>3. UNCHANGED containers =>
           \A c \in Existing' : c \in Existing /\ containers'[c].service = containers[c].service
    BY DEF Existing
  <1>4. ASSUME NEW r \in Requests, Arrive(r)
        PROVE  Familiar'
    <2>1. PICK call \in Calls : Goto(r, "lookup", Blank(call, NoAnswer, FALSE))
      BY <1>4 DEF Arrive
    <2>2. /\ pc[r] = "idle" /\ req[r].call = NoCall /\ pc'[r] = "lookup" /\ req'[r].victims = {}
          /\ \A t \in Requests \ {r} : pc'[t] = pc[t] /\ req'[t] = req[t]
      BY <1>1, <1>4, <2>1 DEF Arrive, Goto, Blank, Knows
    <2>3. Still(r)
      BY <2>2, EarlyIsUnmade DEF Still
    <2> QED
      BY <1>2, <1>3, <1>4, <2>2, <2>3, EnvironmentPreservesFamiliar DEF Arrive, engineVars
  <1>5. ASSUME NEW r \in Requests, Handle(r)
        PROVE  Familiar'
    BY <1>5, HandleFamiliar, HandleSteps, HandlePreservesFamiliar
  <1>6. ASSUME NEW r \in Requests, HangUp(r)
        PROVE  Familiar'
    <2> DEFINE q == [req[r] EXCEPT !.cancelled = TRUE]
    <2>1. /\ q.call = req[r].call /\ q.job = req[r].job /\ q.missing = req[r].missing
          /\ q.victims = req[r].victims /\ q.cur = req[r].cur
      BY <1>1 DEF Request
    <2>2. pc'[r] = pc[r] /\ req'[r] = q /\ \A t \in Requests \ {r} : pc'[t] = pc[t] /\ req'[t] = req[t]
      BY <1>1, <1>6 DEF HangUp, Goto
    <2> HIDE DEF q
    <2>3. Still(r)
      BY <2>1, <2>2 DEF Still, Unmade, Unmaking
    <2> QED
      BY <1>2, <1>3, <1>6, <2>2, <2>3, EnvironmentPreservesFamiliar DEF HangUp, engineVars
  <1>7. ASSUME NEW c \in ContainerIds, Exit(c) \/ Restart(c)
        PROVE  Familiar'
    <2>1. UNCHANGED <<pc, req>> /\ \E state : SetState(c, state)
      BY <1>7 DEF Exit, Restart, ContainerExits, ContainerRestarts
    <2>2. \A d \in Existing' : d \in Existing /\ containers'[d].service = containers[d].service
      BY <1>1, <2>1 DEF SetState, Existing, EngineTypeOK, Container
    <2> QED
      BY <1>2, <2>1, <2>2, EnvironmentPreservesFamiliar
  <1>8. CASE CrashAndRestart
    <2>1. ASSUME NEW t \in Requests
          PROVE  Still(t)
      <3>1. CASE t \in InFlight
        <4>1. pc'[t] = "done" /\ req'[t] = Blank(req[t].call, req[t].answer, FALSE)
          BY <1>8, <3>1 DEF CrashAndRestart
        <4>2. req'[t].call = req[t].call /\ req'[t].victims = {}
          BY <4>1 DEF Blank
        <4> QED
          BY <4>1, <4>2 DEF Still, Unmade, Unmaking, CreatingLabels
      <3>2. CASE t \notin InFlight
        BY <1>2, <1>8, <3>2 DEF CrashAndRestart
      <3> QED
        BY <3>1, <3>2
    <2> QED
      BY <1>3, <1>8, <2>1, EnvironmentPreservesFamiliar DEF CrashAndRestart
  <1>9. CASE UNCHANGED vars
    BY <1>2, <1>3, <1>9, EnvironmentPreservesFamiliar DEF vars
  <1> QED
    BY <1>4, <1>5, <1>6, <1>7, <1>8, <1>9 DEF Next, Disturb, Quiesced

\* A handler's step touches no row and no container of another service: however calls
\* interleave, fail or are retried, and whatever labels clients give their own functions,
\* no handler acts on a container id that came to belong to another function (the
\* handlers of pkg/gateway over the provider).
THEOREM HandlersAreIsolated == Spec => Isolation
  <1> DEFINE Step == \A r \in Requests, s \in Services :
                        Handle(r) /\ Service(r) # s =>
                           /\ OwnContainers(s)' = OwnContainers(s)
                           /\ \A c \in OwnContainers(s) : containers'[c] = containers[c]
                           /\ GetFunction(s)' = GetFunction(s)
  <1>1. Inv /\ Familiar /\ [Next]_vars => Step
    <2> SUFFICES ASSUME Inv, Familiar, NEW r \in Requests, NEW s \in Services,
                        Handle(r), Service(r) # s
                 PROVE  /\ OwnContainers(s)' = OwnContainers(s)
                        /\ \A c \in OwnContainers(s) : containers'[c] = containers[c]
                        /\ GetFunction(s)' = GetFunction(s)
      OBVIOUS
    <2>1. /\ StoreStep(Service(r)) /\ OwnTouch(r)
          /\ \A c \in Existing' : CreatedFor(c, containers'[c].name[1])
      BY HandleSteps, HandleFamiliar DEF HandlerStep, EngineStep, Marked
    <2>2. \A c \in Existing : CreatedFor(c, containers[c].name[1])
      BY DEF Inv, Ownership, Marked
    <2>3. \A c : CreatedFor(c, s) => ~CreatedFor(c, Service(r))
      BY OneOwner
    <2>4. \A c \in OwnContainers(s) : c \in Existing' /\ containers'[c] = containers[c]
      BY <2>1, <2>2, <2>3 DEF OwnTouch, OwnContainers, ContainersOf
    <2>5. ASSUME NEW c \in Existing', containers'[c].service = s, containers'[c].name[1] = s
          PROVE  c \in Existing /\ containers'[c] = containers[c]
      BY <2>1, <2>3, <2>5 DEF OwnTouch
    <2>6. OwnContainers(s)' = OwnContainers(s)
      BY <2>4, <2>5 DEF OwnContainers, ContainersOf
    <2> QED
      BY <2>1, <2>4, <2>6 DEF StoreStep
  <1>2. Init => Familiar
    BY InitFamiliar
  <1>3. Inv /\ Familiar /\ [Next]_vars => Familiar'
    BY NextFamiliar
  <1>4. Isolation <=> [][Step]_vars
    BY DEF Isolation
  <1> QED
    BY <1>1, <1>2, <1>3, <1>4, Invariance, PTL DEF Spec

--------------------------------------------------------------------------------

\* What a handler at this label, with its job, knows of its client's call.
Serves(label, q) ==
    /\ q.job = "deploy" => q.call.op \in {"deploy", "build"} /\ q.row = NoRow
    /\ q.job = "update" => q.call.op \in {"update", "build"}
    /\ q.job = "delete" => q.call.op = "delete"
    /\ q.job = "scale" => q.call.op = "scale"
    /\ q.job \in {"wake", "invoke"} => q.call.op \in {"invoke", "async"}
    /\ label = "accept" => q.call.op = "async"
    /\ label \notin {"route", "forward", "done"} => q.answer = NoAnswer

Serving == \A r \in Requests : Serves(pc[r], req[r])

\* The labels of a handler that works on its call.
Working == {"list", "reap", "remove", "pull", "create", "netcreate", "connect", "inspect",
            "rmstale", "ccreate", "cstart", "insert", "save", "setreplicas", "deleterow",
            "probe"}

\* What the registry sees of a request at label, with q.
Seen(label, q) ==
    [phase |-> Phase(label), call |-> q.call, read |-> q.row, answer |-> q.answer]

\* It goes on, and what it knows of its call remains true ...
GoesOnServing(r) ==
    \E label, q : Goto(r, label, q) /\ Serves(label, q)

\* ... and the registry sees one of its own steps, or nothing.
Simulates(r) ==
    GoesOnServing(r) /\ (Registry!Turn(r) \/ UNCHANGED <<rows, Asks>>)

\* It goes on working, with its call, job, row and answer unchanged.
Keeps(r, q) ==
    /\ q.call = req[r].call /\ q.job = req[r].job
    /\ q.row = req[r].row /\ q.answer = req[r].answer

Works(r) == \E label, q : label \in Working /\ Goto(r, label, q) /\ Keeps(r, q)

--------------------------------------------------------------------------------
(* What the registry sees *)

LEMMA Phases ==
    /\ \A label \in Working : Phase(label) = "read"
    /\ \A label \in Settled : Phase(label) = "settled"
    /\ Phase("idle") = "idle" /\ Phase("lookup") = "called" /\ Phase("done") = "answered"
    /\ Labels = {"idle", "lookup", "done"} \cup Working \cup Settled
  <1>1. /\ \A label \in Settled : Phase(label) = "settled"
        /\ Phase("idle") = "idle" /\ Phase("lookup") = "called" /\ Phase("done") = "answered"
    BY DEF Phase, Settled
  <1>2. \A label \in Working : Phase(label) = "read"
    BY DEF Phase, Working, Settled
  <1>3. Labels = {"idle", "lookup", "done"} \cup Working \cup Settled
    BY DEF Labels, Working, Settled
  <1> QED
    BY <1>1, <1>2, <1>3

LEMMA SeenOf ==
    ASSUME NEW r \in Requests
    PROVE  /\ Asks[r] = Seen(pc[r], req[r])
           /\ Asks[r].phase = Phase(pc[r]) /\ Asks[r].call = req[r].call
           /\ Asks[r].read = req[r].row /\ Asks[r].answer = req[r].answer
  BY DEF Asks, Seen

LEMMA SeenMoves ==
    ASSUME TypeOK, NEW r \in Requests, NEW label, NEW q, Goto(r, label, q)
    PROVE  Asks' = [Asks EXCEPT ![r] = Seen(label, q)]
  <1>1. pc' = [pc EXCEPT ![r] = label] /\ req' = [req EXCEPT ![r] = q]
    BY DEF Goto
  <1>2. \A t \in Requests : IF t = r THEN pc'[t] = label /\ req'[t] = q
                                       ELSE pc'[t] = pc[t] /\ req'[t] = req[t]
    BY <1>1 DEF TypeOK
  <1>3. Asks' = [t \in Requests |-> Seen(pc'[t], req'[t])]
    BY DEF Asks, Seen
  <1>4. Asks = [t \in Requests |-> Seen(pc[t], req[t])]
    BY DEF Asks, Seen
  <1> QED
    BY <1>2, <1>3, <1>4

\* Nothing it sees has changed.
LEMMA SeenStands ==
    ASSUME TypeOK, NEW r \in Requests, NEW label, NEW q, Goto(r, label, q),
           Phase(label) = Phase(pc[r]),
           q.call = req[r].call, q.row = req[r].row, q.answer = req[r].answer
    PROVE  Asks' = Asks
  <1>1. Seen(label, q) = Asks[r]
    BY SeenOf DEF Seen
  <1>2. Asks' = [Asks EXCEPT ![r] = Asks[r]]
    BY <1>1, SeenMoves
  <1>3. Asks = [t \in Requests |-> Asks[t]]
    BY DEF Asks
  <1> QED
    BY <1>2, <1>3

\* An answer.
LEMMA SeenFinishes ==
    ASSUME TypeOK, NEW r \in Requests, NEW code, NEW served,
           Finish(r, IF req[r].answer = NoAnswer THEN code ELSE req[r].answer, served)
    PROVE  Registry!Answered(r, code) /\ GoesOnServing(r)
  <1> DEFINE last == IF req[r].answer = NoAnswer THEN code ELSE req[r].answer
             q    == Blank(req[r].call, last, served)
  <1>1. Goto(r, "done", q)
    BY DEF Finish
  <1>2. q.call = req[r].call /\ q.row = NoRow /\ q.answer = last /\ q.job = "none"
    BY DEF Blank
  <1>3. Serves("done", q)
    BY <1>2 DEF Serves
  <1>4. Asks' = [Asks EXCEPT ![r] = Seen("done", q)]
    BY <1>1, SeenMoves
  <1>5. Seen("done", q) = [phase |-> "answered", call |-> Asks[r].call, read |-> NoRow,
                           answer |-> IF Asks[r].answer = NoAnswer THEN code
                                      ELSE Asks[r].answer]
    BY <1>2, SeenOf, Phases DEF Seen
  <1>6. Registry!Answered(r, code)
    BY <1>4, <1>5 DEF Registry!Answered, Registry!NoAnswer, NoAnswer
  <1> QED
    BY <1>1, <1>3, <1>6 DEF GoesOnServing

LEMMA SeenAnswers ==
    ASSUME TypeOK, NEW r \in Requests, NEW code, Answer(r, code)
    PROVE  Registry!Answered(r, code) /\ GoesOnServing(r)
  BY SeenFinishes DEF Answer

\* A handler that goes on with what it knows, and will not write any more.
LEMMA SettledNow ==
    ASSUME TypeOK, NEW r \in Requests, NEW label \in Settled, Goto(r, label, req[r])
    PROVE  Asks' = [Asks EXCEPT ![r].phase = "settled"]
  <1>1. Asks' = [Asks EXCEPT ![r] = Seen(label, req[r])]
    BY SeenMoves
  <1>2. Phase(label) = "settled"
    BY Phases
  <1>3. Asks[r] = [phase |-> Phase(pc[r]), call |-> req[r].call,
                   read |-> req[r].row, answer |-> req[r].answer]
    BY SeenOf DEF Seen
  <1>4. Asks[r] \in [phase : {Phase(pc[r])}, call : {req[r].call}, read : {req[r].row},
                     answer : {req[r].answer}]
    BY <1>3
  <1> DEFINE h == [Asks[r] EXCEPT !.phase = "settled"]
  <1>5. h \in [phase : {"settled"}, call : {req[r].call}, read : {req[r].row},
               answer : {req[r].answer}]
    BY <1>4
  <1> HIDE DEF h
  <1>6. h = Seen(label, req[r])
    BY <1>2, <1>5 DEF Seen
  <1> QED
    BY <1>1, <1>6 DEF h

--------------------------------------------------------------------------------
(* The steps of a handler *)

LEMMA StillAsked ==
    ASSUME TypeOK, NEW r \in Requests, NEW V, NEW M, NEW c
    PROVE  /\ Keeps(r, req[r])
           /\ Keeps(r, [req[r] EXCEPT !.victims = V])
           /\ Keeps(r, [req[r] EXCEPT !.victims = V, !.missing = M])
           /\ Keeps(r, [req[r] EXCEPT !.victims = V, !.cur = c])
           /\ Keeps(r, [req[r] EXCEPT !.cur = c])
           /\ Keeps(r, [req[r] EXCEPT !.missing = M])
  <1>1. req[r] \in Request
    BY DEF TypeOK
  <1> QED
    BY <1>1 DEF Request, Keeps

LEMMA WorkSimulates ==
    ASSUME TypeOK, NEW r \in Requests, Serves(pc[r], req[r]), pc[r] \in Working,
           Works(r) \/ Answer(r, 500), UNCHANGED rows
    PROVE  Simulates(r)
  <1>1. CASE Works(r)
    <2>1. PICK label, q : label \in Working /\ Goto(r, label, q) /\ Keeps(r, q)
      BY <1>1 DEF Works
    <2>2. Asks' = Asks
      BY <2>1, SeenStands, Phases DEF Keeps
    <2>3. Serves(label, q)
      BY <2>1 DEF Serves, Working, Keeps
    <2> QED
      BY <2>1, <2>2, <2>3 DEF Simulates, GoesOnServing
  <1>2. CASE Answer(r, 500)
    <2>1. Asks[r].phase = "read"
      BY SeenOf, Phases
    <2>2. Registry!Fail(r)
      BY <1>2, <2>1, SeenAnswers DEF Registry!Fail
    <2> QED
      BY <1>2, <2>2, SeenAnswers DEF Simulates, Registry!Turn
  <1> QED
    BY <1>1, <1>2

\* Removing containers.
LEMMA RemoveWorks ==
    ASSUME Inv, NEW r \in Requests, Remove(r)
    PROVE  pc[r] \in Working /\ UNCHANGED rows /\ (Works(r) \/ Answer(r, 500))
  <1>1. TypeOK /\ Knows(pc[r], req[r])
    BY DEF Inv
  <1>2. CASE List(r)
    <2>1. pc[r] \in Working /\ UNCHANGED rows
      BY <1>2 DEF List, Working
    <2>2. \/ \E V, M : \/ Goto(r, "reap", [req[r] EXCEPT !.victims = V])
                     \/ Goto(r, "reap", [req[r] EXCEPT !.victims = V, !.missing = M])
          \/ Goto(r, "pull", req[r])
          \/ Answer(r, 500)
      BY <1>2 DEF List
    <2> QED
      BY <1>1, <2>1, <2>2, StillAsked DEF Works, Working
  <1>3. CASE StopVictim(r)
    BY <1>1, <1>3, StillAsked DEF Works, Working, StopVictim
  <1>4. CASE RemoveVictim(r)
    <2>1. pc[r] \in Working /\ UNCHANGED rows
      BY <1>4 DEF RemoveVictim, Working
    <2>2. (\E v \in req[r].victims : Goto(r, "reap", Gone(r, v))) \/ Answer(r, 500)
      BY <1>4 DEF RemoveVictim
    <2> QED
      BY <1>1, <2>1, <2>2, StillAsked DEF Works, Working, Gone
  <1>5. CASE Reaped(r)
    <2>1. req[r].job \in {"update", "delete", "rollback", "scale", "wake"}
      BY <1>1, <1>5 DEF Reaped, Knows
    <2> QED
      BY <1>1, <1>5, <2>1, StillAsked DEF Works, Working, Reaped
  <1> QED
    BY <1>2, <1>3, <1>4, <1>5 DEF Remove

\* Creating containers.
LEMMA CreateWorks ==
    ASSUME Inv, NEW r \in Requests, Create(r)
    PROVE  pc[r] \in Working /\ UNCHANGED rows /\ (Works(r) \/ Answer(r, 500))
  <1>1. TypeOK /\ Knows(pc[r], req[r])
    BY DEF Inv
  <1>2. CASE PullImage(r)
    BY <1>1, <1>2, StillAsked DEF Works, Working, PullImage
  <1>3. CASE ListNetworks(r)
    BY <1>1, <1>3, StillAsked DEF Works, Working, ListNetworks
  <1>4. CASE CreateNetwork(r)
    BY <1>1, <1>4, StillAsked DEF Works, Working, CreateNetwork
  <1>5. CASE ConnectGateway(r)
    BY <1>1, <1>5, StillAsked DEF Works, Working, ConnectGateway
  <1>6. CASE InspectName(r)
    BY <1>1, <1>6, StillAsked DEF Works, Working, InspectName
  <1>7. CASE RemoveStale(r)
    BY <1>1, <1>7, StillAsked DEF Works, Working, RemoveStale
  <1>8. CASE CreateContainer(r)
    BY <1>1, <1>8, StillAsked DEF Works, Working, CreateContainer
  <1>9. CASE StartContainer(r)
    BY <1>1, <1>9, StillAsked DEF Works, Working, StartContainer
  <1>10. CASE Created(r)
    <2>1. PICK label \in {"insert", "save", "setreplicas"} : Goto(r, label, req[r])
      BY <1>1, <1>10 DEF Created, Knows
    <2> QED
      BY <1>1, <1>10, <2>1, StillAsked DEF Works, Working, Created
  <1> QED
    BY <1>2, <1>3, <1>4, <1>5, <1>6, <1>7, <1>8, <1>9, <1>10 DEF Create

\* The look-up.
LEMMA LookupSimulates ==
    ASSUME Inv, NEW r \in Requests, Serves(pc[r], req[r]), Lookup(r)
    PROVE  Simulates(r)
  <1>1. TypeOK /\ req[r] \in Request /\ pc[r] = "lookup" /\ UNCHANGED rows
    BY DEF Inv, TypeOK, Lookup
  <1>2. PICK row \in {GetFunction(Service(r)), NoRow} :
          \/ Op(r) = "deploy" /\ HandleDeployFunction(r, row)
          \/ Op(r) = "update" /\ HandleUpdateFunction(r, row)
          \/ Op(r) = "build"  /\ DeployBuiltImage(r, row)
          \/ Op(r) = "delete" /\ HandleDeleteFunction(r, row)
          \/ Op(r) = "scale"  /\ HandleScaleFunction(r, row)
          \/ Op(r) \in {"invoke", "async"} /\ HandleInvokeFunction(r, row)
    BY DEF Lookup
  <1>3. /\ Asks[r].phase = "called" /\ Asks[r].answer = req[r].answer
        /\ Registry!Op(r) = Op(r) /\ Registry!Service(r) = Service(r)
    BY <1>1, SeenOf, Phases DEF Registry!Op, Registry!Service, Op, Service
  <1>4. row # NoRow => Registry!Registered(r) /\ row = rows[Service(r)]
    BY <1>2, <1>3 DEF GetFunction, Stored, Registry!Registered
  <1>5. ASSUME NEW label \in Working, NEW job, Begin(r, label, job, row),
               Op(r) = "deploy" => row = NoRow,
               Op(r) \notin {"deploy", "build"} => row # NoRow,
               Serves(label, [req[r] EXCEPT !.job = job, !.row = row])
        PROVE  Simulates(r)
    <2> DEFINE q == [req[r] EXCEPT !.job = job, !.row = row]
    <2>1. Goto(r, label, q)
      BY <1>5 DEF Begin
    <2>2. q.call = req[r].call /\ q.row = row /\ q.answer = req[r].answer
      BY <1>1 DEF Request
    <2> HIDE DEF q
    <2>3. Asks' = [Asks EXCEPT ![r] = Seen(label, q)]
      BY <1>1, <2>1, SeenMoves
    <2>4. Seen(label, q) = [Asks[r] EXCEPT !.phase = "read", !.read = row]
      <3>1. Phase(label) = "read"
        BY <1>5, Phases
      <3>2. Asks[r] = [phase |-> Phase(pc[r]), call |-> req[r].call,
                       read |-> req[r].row, answer |-> req[r].answer]
        BY SeenOf DEF Seen
      <3>3. Asks[r] \in [phase : {Phase(pc[r])}, call : {req[r].call}, read : {req[r].row},
                         answer : {req[r].answer}]
        BY <3>2
      <3> DEFINE h == [Asks[r] EXCEPT !.phase = "read", !.read = row]
      <3>4. h \in [phase : {"read"}, call : {req[r].call}, read : {row},
                   answer : {req[r].answer}]
        BY <3>3
      <3> HIDE DEF h
      <3>5. h = [phase |-> "read", call |-> req[r].call, read |-> row, answer |-> req[r].answer]
        BY <3>4
      <3>6. Seen(label, q) = h
        BY <2>2, <3>1, <3>5 DEF Seen
      <3> QED
        BY <3>6 DEF h
    <2>5. Asks' = [Asks EXCEPT ![r].phase = "read", ![r].read = row]
      BY <2>3, <2>4
    <2>6. Registry!Read(r)
      BY <1>1, <1>3, <1>4, <1>5, <2>5 DEF Registry!Read, Registry!Registered
    <2> QED
      BY <1>5, <2>1, <2>6 DEF Simulates, GoesOnServing, Registry!Turn, q
  <1>6. ASSUME NEW job \in Jobs
        PROVE  LET q == [req[r] EXCEPT !.job = job, !.row = row]
               IN  q.job = job /\ q.row = row /\ q.call = req[r].call /\ q.answer = req[r].answer
    BY <1>1 DEF Request
  <1>7. req[r].answer = NoAnswer
    BY <1>1 DEF Serves
  <1>8. CASE Answer(r, 404) /\ row = NoRow /\ Op(r) \notin {"deploy", "build"}
    <2>1. Registry!Refuse(r)
      BY <1>1, <1>3, <1>8, SeenAnswers DEF Registry!Refuse
    <2> QED
      BY <1>1, <1>8, <2>1, SeenAnswers DEF Simulates, Registry!Turn
  <1>9. CASE Answer(r, 409) /\ row # NoRow /\ Op(r) = "deploy"
    <2>1. Registry!Refuse(r)
      BY <1>1, <1>3, <1>4, <1>9, SeenAnswers DEF Registry!Refuse
    <2> QED
      BY <1>1, <1>9, <2>1, SeenAnswers DEF Simulates, Registry!Turn
  <1>10. CASE row = NoRow /\ Op(r) \in {"deploy", "build"} /\ Begin(r, "pull", "deploy", row)
    <2>1. Serves("pull", [req[r] EXCEPT !.job = "deploy", !.row = row])
      BY <1>6, <1>7, <1>10 DEF Serves, Op, Jobs
    <2> QED
      BY <1>5, <1>10, <2>1 DEF Working
  <1>11. CASE row # NoRow /\ \E job \in {"update", "delete", "scale"} :
                 /\ Op(r) = job \/ (Op(r) = "build" /\ job = "update")
                 /\ Begin(r, "list", job, row)
    <2>1. PICK job \in {"update", "delete", "scale"} :
             /\ Op(r) = job \/ (Op(r) = "build" /\ job = "update")
             /\ Begin(r, "list", job, row)
      BY <1>11
    <2>2. Serves("list", [req[r] EXCEPT !.job = job, !.row = row])
      BY <1>6, <1>7, <1>11, <2>1 DEF Serves, Op, Jobs
    <2> QED
      BY <1>5, <1>11, <2>1, <2>2 DEF Working
  <1>12. CASE row # NoRow /\ Op(r) \in {"invoke", "async"} /\ Begin(r, "probe", "invoke", row)
    <2>1. Serves("probe", [req[r] EXCEPT !.job = "invoke", !.row = row])
      BY <1>6, <1>7, <1>12 DEF Serves, Op, Jobs
    <2> QED
      BY <1>5, <1>12, <2>1 DEF Working
  <1>13. CASE Op(r) = "deploy"
    BY <1>2, <1>9, <1>10, <1>13 DEF HandleDeployFunction
  <1>14. CASE Op(r) = "build"
    BY <1>2, <1>10, <1>11, <1>14 DEF DeployBuiltImage
  <1>15. CASE Op(r) \in {"update", "delete", "scale"}
    <2>1. CASE row = NoRow
      BY <1>2, <1>8, <1>15, <2>1
      DEF HandleUpdateFunction, HandleDeleteFunction, HandleScaleFunction
    <2>2. CASE row # NoRow
      <3>1. Begin(r, "list", Op(r), row)
        BY <1>2, <1>15, <2>2
        DEF HandleUpdateFunction, HandleDeleteFunction, HandleScaleFunction
      <3>2. \E job \in {"update", "delete", "scale"} :
               /\ Op(r) = job \/ (Op(r) = "build" /\ job = "update")
               /\ Begin(r, "list", job, row)
        BY <1>15, <3>1
      <3> QED
        BY <1>11, <2>2, <3>2
    <2> QED
      BY <2>1, <2>2
  <1>16. CASE Op(r) \in {"invoke", "async"}
    BY <1>2, <1>8, <1>12, <1>16 DEF HandleInvokeFunction
  <1> QED
    BY <1>2, <1>13, <1>14, <1>15, <1>16

\* A handler that will not write any more.
LEMMA SettledSimulates ==
    ASSUME Inv, NEW r \in Requests, Serves(pc[r], req[r]), pc[r] \in Settled, UNCHANGED rows,
           NEW label \in Settled, NEW q, Goto(r, label, q), Keeps(r, q),
           label \in {"route", "forward"} \/ (label # "accept" /\ pc[r] \notin {"route", "forward"})
    PROVE  Simulates(r)
  <1>1. TypeOK
    BY DEF Inv
  <1>2. Asks' = Asks
    BY <1>1, SeenStands, Phases DEF Keeps
  <1>3. Serves(label, q)
    BY DEF Serves, Settled, Keeps
  <1> QED
    BY <1>2, <1>3 DEF Simulates, GoesOnServing

\* The writes.
LEMMA StoreSimulates ==
    ASSUME Inv, NEW r \in Requests, Serves(pc[r], req[r]), Store(r)
    PROVE  Simulates(r)
  <1>1. /\ TypeOK /\ Knows(pc[r], req[r]) /\ req[r] \in Request
        /\ pc[r] \in {"insert", "save", "setreplicas", "deleterow"}
    BY DEF Inv, TypeOK, Store, InsertRow, SaveRow, SetReplicas, DeleteRow
  <1>2. /\ Asks[r].phase = "read" /\ Asks[r].call = req[r].call /\ Asks[r].read = req[r].row
        /\ Registry!Op(r) = Op(r) /\ Registry!Service(r) = Service(r)
        /\ Registry!Registered(r) <=> Stored(Service(r))
    <2>1. pc[r] \in Working
      BY <1>1 DEF Working
    <2> QED
      BY <2>1, SeenOf, Phases
      DEF Registry!Op, Registry!Service, Registry!Registered, Op, Service, Stored
  <1>3. CASE UNCHANGED rows /\ Answer(r, 500)
    <2>1. pc[r] \in Working
      BY <1>1 DEF Working
    <2> QED
      BY <1>1, <1>3, <2>1, WorkSimulates
  <1>4. CASE InsertRow(r)
    <2>1. pc[r] = "insert" /\ req[r].job = "deploy"
      BY <1>1, <1>4 DEF InsertRow, Knows
    <2>2. Op(r) \in {"deploy", "build"} /\ req[r].row = NoRow
      BY <2>1 DEF Serves, Op
    <2>3. CASE Begin(r, "list", "rollback", NoRow) /\ UNCHANGED rows
      <3> DEFINE q == [req[r] EXCEPT !.job = "rollback", !.row = NoRow]
      <3>1. q.job = "rollback" /\ q.call = req[r].call /\ q.row = NoRow /\ q.answer = req[r].answer
        BY <1>1 DEF Request
      <3>2. Goto(r, "list", q)
        BY <2>3 DEF Begin
      <3> HIDE DEF q
      <3>3. Phase("list") = Phase(pc[r])
        BY <2>1, Phases DEF Working
      <3>4. Asks' = Asks
        BY <1>1, <2>2, <3>1, <3>2, <3>3, SeenStands
      <3>5. Serves("list", q)
        BY <2>1, <2>2, <3>1 DEF Serves
      <3> QED
        BY <2>3, <3>2, <3>4, <3>5 DEF Simulates, GoesOnServing
    <2>4. CASE Answer(r, 202) /\ CreateFunction(Service(r),
                  [image |-> req[r].call.image, limited |-> req[r].call.limited,
                   network |-> NetworkFor(r), labels |-> req[r].call.labels, replicas |-> 1])
      <3>1. [image |-> req[r].call.image, limited |-> req[r].call.limited,
             network |-> NetworkFor(r), labels |-> req[r].call.labels, replicas |-> 1]
               = Registry!Asked(r, Asks[r].call.limited, OwnNetwork[Service(r)], 1)
        BY <1>2, <2>2 DEF Registry!Asked, NetworkFor
      <3>2. Registry!Register(r)
        BY <1>1, <1>2, <2>2, <2>4, <3>1, SeenAnswers DEF CreateFunction, Registry!Register
      <3> QED
        BY <1>1, <2>4, <3>2, SeenAnswers DEF Simulates, Registry!Turn
    <2> QED
      BY <1>4, <2>3, <2>4 DEF InsertRow
  <1>5. CASE SaveRow(r)
    <2>1. pc[r] = "save" /\ req[r].job = "update" /\ req[r].row # NoRow
      BY <1>1, <1>5 DEF SaveRow, Knows
    <2>2. Op(r) \in {"update", "build"}
      BY <2>1 DEF Serves, Op
    <2> DEFINE row == [image |-> req[r].call.image,
                       limited |-> req[r].call.limited \/ req[r].row.limited,
                       network |-> NetworkFor(r), labels |-> req[r].call.labels,
                       replicas |-> req[r].row.replicas]
    <2>3. CASE Answer(r, 202) /\ UpdateFunction(Service(r), row)
      <3>1. row = Registry!Asked(r, Asks[r].call.limited \/ Asks[r].read.limited,
                     IF Op(r) = "update" THEN Asks[r].read.network ELSE OwnNetwork[Service(r)],
                     Asks[r].read.replicas)
        BY <1>2, <2>2 DEF Registry!Asked, NetworkFor
      <3> HIDE DEF row
      <3>2. Registry!Modify(r)
        BY <1>1, <1>2, <2>1, <2>2, <2>3, <3>1, SeenAnswers DEF UpdateFunction, Registry!Modify
      <3> QED
        BY <1>1, <2>3, <3>2, SeenAnswers DEF Simulates, Registry!Turn
    <2> QED
      BY <1>3, <1>5, <2>3 DEF SaveRow
  <1>6. CASE SetReplicas(r)
    <2>1. pc[r] = "setreplicas" /\ req[r].job \in {"scale", "wake"}
      BY <1>1, <1>6 DEF SetReplicas, Knows
    <2>2. CASE req[r].job = "scale"
      <3>1. Op(r) = "scale" /\ Target(r) = req[r].call.target
        BY <2>2 DEF Serves, Op, Target
      <3>2. CASE Answer(r, 202) /\ UpdateReplicas(Service(r), Target(r))
        <4>1. Registry!Scale(r)
          BY <1>1, <1>2, <3>1, <3>2, SeenAnswers DEF UpdateReplicas, Registry!Scale
        <4> QED
          BY <1>1, <3>2, <4>1, SeenAnswers DEF Simulates, Registry!Turn
      <3> QED
        BY <1>3, <1>6, <2>2, <3>2 DEF SetReplicas
    <2>3. CASE req[r].job = "wake"
      <3>1. Op(r) \in {"invoke", "async"} /\ Target(r) = 1
        BY <2>3 DEF Serves, Op, Target
      <3>2. /\ Goto(r, "wait", req[r])
            /\ \/ UNCHANGED rows
               \/ UpdateReplicas(Service(r), 1)
        BY <1>6, <2>3, <3>1 DEF SetReplicas
      <3>3. Asks' = [Asks EXCEPT ![r].phase = "settled"]
        BY <1>1, <3>2, SettledNow DEF Settled
      <3>4. Registry!Settle(r)
        BY <1>2, <3>1, <3>2, <3>3 DEF UpdateReplicas, Registry!Settle
      <3>5. Serves("wait", req[r])
        BY <2>1, <2>3, <3>1 DEF Serves, Op
      <3> QED
        BY <3>2, <3>4, <3>5 DEF Simulates, GoesOnServing, Registry!Turn
    <2> QED
      BY <2>1, <2>2, <2>3
  <1>7. CASE DeleteRow(r)
    <2>1. pc[r] = "deleterow" /\ req[r].job = "delete"
      BY <1>1, <1>7 DEF DeleteRow, Knows
    <2>2. Op(r) = "delete"
      BY <2>1 DEF Serves, Op
    <2>3. CASE DeleteFunction(Service(r)) /\ Goto(r, "netinspect", req[r])
      <3>1. Asks' = [Asks EXCEPT ![r].phase = "settled"]
        BY <1>1, <2>3, SettledNow DEF Settled
      <3>2. Registry!Remove(r)
        BY <1>2, <2>2, <2>3, <3>1 DEF DeleteFunction, Registry!Remove
      <3>3. Serves("netinspect", req[r])
        BY <2>1 DEF Serves
      <3> QED
        BY <2>3, <3>2, <3>3 DEF Simulates, GoesOnServing, Registry!Turn
    <2> QED
      BY <1>3, <1>7, <2>3 DEF DeleteRow
  <1> QED
    BY <1>4, <1>5, <1>6, <1>7 DEF Store

\* The cleanup of a network.
LEMMA CleanupSimulates ==
    ASSUME Inv, NEW r \in Requests, Serves(pc[r], req[r]), Cleanup(r)
    PROVE  Simulates(r)
  <1>1. /\ TypeOK /\ Knows(pc[r], req[r]) /\ UNCHANGED rows
        /\ pc[r] \in {"netinspect", "disconnect", "netreinspect", "netremove"}
    BY DEF Inv, Cleanup, InspectNetwork, DisconnectGateway, ReinspectNetwork, RemoveNetwork
  <1>2. pc[r] \in Settled /\ Op(r) = "delete"
    BY <1>1 DEF Settled, Knows, Serves, Op
  <1>3. \/ Answer(r, 202)
        \/ \E label \in {"disconnect", "netreinspect", "netremove"} : Goto(r, label, req[r])
    BY DEF Cleanup, InspectNetwork, DisconnectGateway, ReinspectNetwork, RemoveNetwork
  <1>4. CASE Answer(r, 202)
    <2>1. Asks[r].phase = "settled" /\ Registry!Op(r) = "delete"
      BY <1>2, SeenOf, Phases DEF Registry!Op, Op
    <2>2. Registry!Complete(r)
      BY <1>1, <1>4, <2>1, SeenAnswers DEF Registry!Complete
    <2> QED
      BY <1>1, <1>4, <2>2, SeenAnswers DEF Simulates, Registry!Turn
  <1>5. CASE \E label \in {"disconnect", "netreinspect", "netremove"} : Goto(r, label, req[r])
    BY <1>1, <1>2, <1>5, StillAsked, SettledSimulates DEF Settled
  <1> QED
    BY <1>3, <1>4, <1>5

\* An invocation is over.
LEMMA InvocationEnds ==
    ASSUME TypeOK, NEW r \in Requests, pc[r] \in Settled, Op(r) \in {"invoke", "async"},
           UNCHANGED rows, NEW code \in {200, 500, 504},
           Registry!Answered(r, code), GoesOnServing(r)
    PROVE  Simulates(r)
  <1>1. Asks[r].phase = "settled" /\ Registry!Op(r) \in {"invoke", "async"}
    BY SeenOf, Phases DEF Registry!Op, Op
  <1>2. Registry!Complete(r)
    BY <1>1 DEF Registry!Complete
  <1> QED
    BY <1>2 DEF Simulates, Registry!Turn

\* Invocations.
LEMMA InvokeSimulates ==
    ASSUME Inv, NEW r \in Requests, Serves(pc[r], req[r]), Invoke(r)
    PROVE  Simulates(r)
  <1>1. /\ TypeOK /\ Knows(pc[r], req[r]) /\ req[r] \in Request /\ UNCHANGED rows
        /\ pc[r] \in {"probe", "wait", "accept", "route", "forward"}
    BY DEF Inv, TypeOK, Invoke, Probe, Poll, WaitTimeout, Accept, Route, Forward
  <1>2. Op(r) \in {"invoke", "async"}
    BY <1>1 DEF Knows, Serves, Op
  <1>3. Asks[r].call = req[r].call /\ Asks[r].answer = req[r].answer /\ Registry!Op(r) = Op(r)
    BY SeenOf DEF Registry!Op, Op
  <1>4. \/ Ready(r) \in Settled /\ Serves(Ready(r), req[r])
        \/ pc[r] \in {"route", "forward"}
    BY <1>1, <1>2 DEF Ready, Settled, Serves, Op
  <1>5. ASSUME NEW code \in {200, 500, 504}, Answer(r, code), pc[r] # "probe"
        PROVE  Simulates(r)
    <2>1. pc[r] \in Settled
      BY <1>1, <1>5 DEF Settled
    <2> QED
      BY <1>1, <1>2, <1>5, <2>1, SeenAnswers, InvocationEnds
  <1>6. CASE Probe(r)
    <2>1. pc[r] = "probe" /\ pc[r] \in Working
      BY <1>6 DEF Probe, Working
    <2>2. CASE Answer(r, 500)
      BY <1>1, <2>1, <2>2, WorkSimulates
    <2>3. CASE Goto(r, Ready(r), req[r])
      <3>1. Asks' = [Asks EXCEPT ![r].phase = "settled"] /\ Asks[r].phase = "read"
        BY <1>1, <1>4, <2>1, <2>3, SettledNow, SeenOf, Phases
      <3>2. Registry!Settle(r)
        BY <1>1, <1>2, <1>3, <3>1 DEF Registry!Settle
      <3> QED
        BY <1>4, <2>1, <2>3, <3>2 DEF Simulates, GoesOnServing, Registry!Turn
    <2>4. CASE Begin(r, "list", "wake", req[r].row)
      <3> DEFINE q == [req[r] EXCEPT !.job = "wake", !.row = req[r].row]
      <3>1. q.job = "wake" /\ q.call = req[r].call /\ q.row = req[r].row /\ q.answer = req[r].answer
        BY <1>1 DEF Request
      <3>2. Goto(r, "list", q)
        BY <2>4 DEF Begin
      <3> HIDE DEF q
      <3>3. Phase("list") = Phase(pc[r])
        BY <2>1, Phases DEF Working
      <3>4. Asks' = Asks
        BY <1>1, <3>1, <3>2, <3>3, SeenStands
      <3>5. Serves("list", q)
        BY <1>2, <2>1, <3>1 DEF Serves, Op
      <3> QED
        BY <1>1, <3>2, <3>4, <3>5 DEF Simulates, GoesOnServing
    <2> QED
      BY <1>6, <2>2, <2>3, <2>4 DEF Probe
  <1>7. CASE Poll(r)
    <2>1. Goto(r, Ready(r), req[r]) /\ pc[r] = "wait"
      BY <1>7 DEF Poll
    <2>2. Ready(r) \in Settled /\ Serves(Ready(r), req[r])
      BY <1>4, <2>1
    <2>3. Phase(pc[r]) = "settled" /\ Phase(Ready(r)) = "settled"
      BY <2>1, <2>2, Phases DEF Settled
    <2>4. Asks' = Asks
      BY <1>1, <2>1, <2>3, SeenStands
    <2> QED
      BY <1>1, <2>1, <2>2, <2>4 DEF Simulates, GoesOnServing
  <1>8. CASE WaitTimeout(r)
    BY <1>5, <1>8 DEF WaitTimeout
  <1>9. CASE Accept(r)
    <2> DEFINE q == [req[r] EXCEPT !.answer = 202, !.cancelled = FALSE]
    <2>1. q.call = req[r].call /\ q.job = req[r].job /\ q.row = req[r].row /\ q.answer = 202
      BY <1>1 DEF Request
    <2>2. pc[r] = "accept" /\ Goto(r, "route", q)
      BY <1>9 DEF Accept
    <2> HIDE DEF q
    <2>3. Op(r) = "async" /\ req[r].answer = NoAnswer
      BY <2>2 DEF Serves, Op
    <2>4. Asks' = [Asks EXCEPT ![r] = Seen("route", q)]
      BY <1>1, <2>2, SeenMoves
    <2>5. Phase(pc[r]) = "settled" /\ Phase("route") = "settled"
      BY <2>2, Phases DEF Settled
    <2>6. Seen("route", q) = [Asks[r] EXCEPT !.answer = 202]
      <3>1. Asks[r] = [phase |-> "settled", call |-> req[r].call, read |-> req[r].row,
                       answer |-> req[r].answer]
        BY <2>5, SeenOf DEF Seen
      <3>2. Asks[r] \in [phase : {"settled"}, call : {req[r].call}, read : {req[r].row},
                         answer : {req[r].answer}]
        BY <3>1
      <3> DEFINE h == [Asks[r] EXCEPT !.answer = 202]
      <3>3. h \in [phase : {"settled"}, call : {req[r].call}, read : {req[r].row}, answer : {202}]
        BY <3>2
      <3> HIDE DEF h
      <3>4. Seen("route", q) = h
        BY <2>1, <2>5, <3>3 DEF Seen
      <3> QED
        BY <3>4 DEF h
    <2>7. Asks' = [Asks EXCEPT ![r].answer = 202]
      BY <2>4, <2>6
    <2>8. Asks[r].phase = "settled"
      BY <2>5, SeenOf
    <2>9. Registry!Accept(r)
      BY <1>1, <1>3, <2>3, <2>7, <2>8
      DEF Registry!Accept, Registry!NoAnswer, NoAnswer
    <2>10. Serves("route", q)
      BY <2>1, <2>2 DEF Serves
    <2> QED
      BY <2>2, <2>9, <2>10 DEF Simulates, GoesOnServing, Registry!Turn
  <1>10. CASE Route(r)
    <2>1. pc[r] = "route"
      BY <1>10 DEF Route
    <2>2. ASSUME NEW c, Goto(r, "forward", [req[r] EXCEPT !.cur = c])
          PROVE  Simulates(r)
      BY <1>1, <2>1, <2>2, StillAsked, SettledSimulates DEF Settled
    <2> QED
      BY <1>5, <1>10, <2>1, <2>2 DEF Route
  <1>11. CASE Forward(r)
    <2>1. pc[r] = "forward" /\ pc[r] \in Settled
      BY <1>11 DEF Forward, Settled
    <2>2. PICK code \in {200, 500} :
             Finish(r, IF req[r].answer = NoAnswer THEN code ELSE req[r].answer, Arrives(r))
      BY <1>11 DEF Forward
    <2>3. Registry!Answered(r, code) /\ GoesOnServing(r)
      BY <1>1, <2>2, SeenFinishes
    <2> QED
      BY <1>1, <1>2, <2>1, <2>3, InvocationEnds
  <1> QED
    BY <1>6, <1>7, <1>8, <1>9, <1>10, <1>11 DEF Invoke

LEMMA HandleSimulates ==
    ASSUME Inv, NEW r \in Requests, Serves(pc[r], req[r]), Handle(r)
    PROVE  Simulates(r)
  <1>1. TypeOK
    BY DEF Inv
  <1> QED
    BY <1>1, LookupSimulates, RemoveWorks, CreateWorks, WorkSimulates, StoreSimulates,
       CleanupSimulates, InvokeSimulates
    DEF Handle

--------------------------------------------------------------------------------
(* Whole steps *)

LEMMA ServingGoesOn ==
    ASSUME TypeOK, Serving, NEW r \in Requests, GoesOnServing(r)
    PROVE  Serving'
  <1>1. PICK label, q : Goto(r, label, q) /\ Serves(label, q)
    BY DEF GoesOnServing
  <1>2. \A t \in Requests : IF t = r THEN pc'[t] = label /\ req'[t] = q
                                       ELSE pc'[t] = pc[t] /\ req'[t] = req[t]
    BY <1>1 DEF Goto, TypeOK
  <1>3. \A t \in Requests : Serves(pc'[t], req'[t])
    BY <1>1, <1>2 DEF Serving
  <1> QED
    BY <1>3 DEF Serving, Serves

LEMMA ArriveSimulates ==
    ASSUME Inv, NEW r \in Requests, Arrive(r)
    PROVE  Simulates(r)
  <1>1. TypeOK /\ pc[r] = "idle" /\ UNCHANGED rows
    BY DEF Inv, Arrive
  <1>2. PICK call \in Calls : Goto(r, "lookup", Blank(call, NoAnswer, FALSE))
    BY DEF Arrive
  <1> DEFINE q == Blank(call, NoAnswer, FALSE)
  <1>3. q.call = call /\ q.job = "none" /\ q.row = NoRow /\ q.answer = NoAnswer
    BY DEF Blank
  <1>4. Serves("lookup", q)
    BY <1>3 DEF Serves
  <1>5. Goto(r, "lookup", q)
    BY <1>2
  <1> HIDE DEF q
  <1>6. Asks' = [Asks EXCEPT ![r] = Seen("lookup", q)]
    BY <1>1, <1>5, SeenMoves
  <1>7. Seen("lookup", q) = [phase |-> "called", call |-> call, read |-> NoRow, answer |-> 0]
    BY <1>3, Phases DEF Seen, NoAnswer
  <1>8. Asks[r].phase = "idle"
    BY <1>1, SeenOf, Phases
  <1> DEFINE h == [Registry!Unasked EXCEPT !.phase = "called", !.call = call]
  <1>9. h = [phase |-> "called", call |-> call, read |-> NoRow, answer |-> 0]
    <2>1. Registry!Unasked \in [phase : {"idle"}, call : {NoCall}, read : {NoRow}, answer : {0}]
      BY DEF Registry!Unasked, Registry!NoAnswer
    <2>2. h \in [phase : {"called"}, call : {call}, read : {NoRow}, answer : {0}]
      BY <2>1
    <2> HIDE DEF h
    <2> QED
      BY <2>2
  <1>10. Asks' = [Asks EXCEPT ![r] = h]
    BY <1>6, <1>7, <1>9
  <1> HIDE DEF h
  <1>11. Registry!Ask(r)
    BY <1>1, <1>8, <1>10 DEF Registry!Ask, h
  <1> QED
    BY <1>4, <1>5, <1>11 DEF Simulates, GoesOnServing, Registry!Turn

LEMMA HangUpSimulates ==
    ASSUME Inv, NEW r \in Requests, Serves(pc[r], req[r]), HangUp(r)
    PROVE  Simulates(r)
  <1> DEFINE q == [req[r] EXCEPT !.cancelled = TRUE]
  <1>1. TypeOK /\ req[r] \in Request /\ UNCHANGED rows /\ Goto(r, pc[r], q)
    BY DEF Inv, TypeOK, HangUp
  <1>2. q.call = req[r].call /\ q.job = req[r].job /\ q.row = req[r].row /\ q.answer = req[r].answer
    BY <1>1 DEF Request
  <1> HIDE DEF q
  <1>3. Asks' = Asks
    BY <1>1, <1>2, SeenStands
  <1>4. Serves(pc[r], q)
    BY <1>2 DEF Serves
  <1> QED
    BY <1>1, <1>3, <1>4 DEF Simulates, GoesOnServing

LEMMA Stands ==
    ASSUME Serving, UNCHANGED <<rows, pc, req>>
    PROVE  Serving' /\ UNCHANGED <<rows, Asks>>
  BY DEF Serving, Serves, Asks, Phase, Settled

LEMMA CrashSimulates ==
    ASSUME Inv, Serving, CrashAndRestart
    PROVE  Serving' /\ Registry!Lose
  <1>1. \A r \in Requests :
          IF pc[r] \notin {"idle", "done"}
          THEN pc'[r] = "done" /\ req'[r] = Blank(req[r].call, req[r].answer, FALSE)
          ELSE pc'[r] = pc[r] /\ req'[r] = req[r]
    BY DEF CrashAndRestart, InFlight
  <1>2. ASSUME NEW r \in Requests
        PROVE  /\ Serves(pc'[r], req'[r])
               /\ Seen(pc'[r], req'[r]) =
                    IF Asks[r].phase \in {"idle", "answered"} THEN Asks[r]
                    ELSE [phase |-> "answered", call |-> Asks[r].call, read |-> NoRow,
                          answer |-> Asks[r].answer]
    <2>1. Serves(pc[r], req[r]) /\ pc[r] \in Labels
      BY DEF Serving, Inv, TypeOK
    <2>2. Asks[r].phase = Phase(pc[r])
      BY SeenOf
    <2>3. CASE pc[r] \in {"idle", "done"}
      BY <1>1, <2>1, <2>2, <2>3, SeenOf, Phases
    <2>4. CASE pc[r] \notin {"idle", "done"}
      <3> DEFINE q == Blank(req[r].call, req[r].answer, FALSE)
      <3>1. q.call = req[r].call /\ q.job = "none" /\ q.row = NoRow /\ q.answer = req[r].answer
        BY DEF Blank
      <3>2. pc'[r] = "done" /\ req'[r] = q
        BY <1>1, <2>4
      <3> HIDE DEF q
      <3>3. Serves("done", q)
        BY <3>1 DEF Serves
      <3>4. Phase(pc[r]) \notin {"idle", "answered"}
        BY <2>1, <2>4, Phases
      <3>5. Seen("done", q) = [phase |-> "answered", call |-> Asks[r].call, read |-> NoRow,
                               answer |-> Asks[r].answer]
        BY <3>1, SeenOf, Phases DEF Seen
      <3> QED
        BY <2>2, <3>2, <3>3, <3>4, <3>5
    <2> QED
      BY <2>3, <2>4
  <1>3. Serving'
    BY <1>2 DEF Serving, Serves
  <1>4. Asks' = [r \in Requests |-> Seen(pc'[r], req'[r])]
    BY DEF Asks, Seen, Phase, Settled
  <1>5. Registry!Lose
    BY <1>2, <1>4 DEF Registry!Lose, CrashAndRestart
  <1> QED
    BY <1>3, <1>5

LEMMA NextSimulates ==
    ASSUME Inv, Serving, [Next]_vars
    PROVE  Serving' /\ [Registry!Next]_<<rows, Asks>>
  <1>1. ASSUME NEW r \in Requests, Simulates(r)
        PROVE  Serving' /\ [Registry!Next]_<<rows, Asks>>
    BY <1>1, ServingGoesOn DEF Inv, Simulates, Registry!Next
  <1>2. \A r \in Requests : Serves(pc[r], req[r])
    BY DEF Serving
  <1>3. ASSUME NEW r \in Requests, Arrive(r) \/ Handle(r) \/ HangUp(r)
        PROVE  Serving' /\ [Registry!Next]_<<rows, Asks>>
    BY <1>1, <1>2, <1>3, ArriveSimulates, HandleSimulates, HangUpSimulates
  <1>4. ASSUME NEW c, Exit(c) \/ Restart(c)
        PROVE  Serving' /\ [Registry!Next]_<<rows, Asks>>
    BY <1>4, Stands DEF Exit, Restart
  <1>5. CASE CrashAndRestart
    BY <1>5, CrashSimulates DEF Registry!Next
  <1>6. CASE UNCHANGED vars
    BY <1>6, Stands DEF vars
  <1> QED
    BY <1>3, <1>4, <1>5, <1>6 DEF Next, Disturb, Quiesced

LEMMA InitSimulates ==
    ASSUME Init
    PROVE  Serving /\ Registry!Init
  <1> DEFINE q == Blank(NoCall, NoAnswer, FALSE)
  <1>1. q.call = NoCall /\ q.job = "none" /\ q.row = NoRow /\ q.answer = NoAnswer
    BY DEF Blank
  <1>2. pc = [r \in Requests |-> "idle"] /\ req = [r \in Requests |-> q] /\ rows \in InitialRows
    BY DEF Init, Deployed
  <1> HIDE DEF q
  <1>3. Serving
    BY <1>1, <1>2 DEF Serving, Serves
  <1>4. Asks = [r \in Requests |-> Seen("idle", q)]
    BY <1>2 DEF Asks, Seen
  <1>5. Seen("idle", q) = Registry!Unasked
    BY <1>1, Phases DEF Seen, Registry!Unasked, Registry!NoAnswer, NoAnswer
  <1> QED
    BY <1>2, <1>3, <1>4, <1>5 DEF Registry!Init

\* The handlers implement the registry: a call writes at most once, from the row it
\* read, is accepted with that write or after it, leaves the store alone when it fails
\* or after its answer, and a crash only loses what was under way.
THEOREM HandlersImplementRegistry == Spec => RefinesRegistry
  <1>1. Init => Serving /\ Registry!Init
    BY InitSimulates
  <1>2. Inv /\ Serving /\ [Next]_vars => Serving' /\ [Registry!Next]_<<rows, Asks>>
    BY NextSimulates
  <1> QED
    BY <1>1, <1>2, Invariance, PTL DEF Spec, RefinesRegistry, Registry!Spec

--------------------------------------------------------------------------------
(* The ledger of answers *)

\* What an ask says when it has made the row of s, and when it has removed it.
Makes(a, s) ==
    a.call # NoCall /\ a.call.op = "deploy" /\ a.call.service = s /\ a.answer = 202

Takes(a, s) ==
    /\ a.call # NoCall /\ a.call.op = "delete" /\ a.call.service = s
    /\ a.answer = 202 \/ a.phase = "settled"

Makers(s) == {r \in Requests : Makes(Asks[r], s)}
Takers(s) == {r \in Requests : Takes(Asks[r], s)}

LEMMA MakersAccepted ==
    ASSUME NEW s
    PROVE  Accepted("deploy", s) = Makers(s)
  BY SeenOf DEF Accepted, Makers, Makes, Op, Service

LEMMA TakersAccepted ==
    ASSUME Inv, Serving, NEW s
    PROVE  Accepted("delete", s) \cup Deleting(s) = Takers(s)
  <1> SUFFICES ASSUME NEW r \in Requests
               PROVE  r \in Accepted("delete", s) \cup Deleting(s) <=> Takes(Asks[r], s)
    BY DEF Accepted, Deleting, InFlight, Takers
  <1>1. Knows(pc[r], req[r]) /\ Serves(pc[r], req[r]) /\ pc[r] \in Labels
    BY DEF Inv, TypeOK, Serving
  <1>2. Asks[r].phase = "settled" <=> pc[r] \in Settled
    BY <1>1, SeenOf, Phases DEF Working
  <1>3. CASE pc[r] \in {"netinspect", "disconnect", "netreinspect", "netremove"}
    <2>1. req[r].job = "delete" /\ req[r].call # NoCall /\ req[r].call.op = "delete"
      BY <1>1, <1>3 DEF Knows, Serves
    <2>2. r \in InFlight /\ pc[r] \in Settled
      BY <1>3 DEF InFlight, Settled
    <2> QED
      BY <1>2, <1>3, <2>1, <2>2, SeenOf DEF Accepted, Deleting, Takes, Op, Service
  <1>4. CASE pc[r] \notin {"netinspect", "disconnect", "netreinspect", "netremove"}
    <2>1. pc[r] \in Settled => req[r].job \in {"invoke", "wake"}
      BY <1>1, <1>4 DEF Knows, Settled
    <2>2. req[r].call.op = "delete" => pc[r] \notin Settled
      BY <1>1, <2>1 DEF Serves
    <2> QED
      BY <1>2, <1>4, <2>2, SeenOf DEF Accepted, Deleting, Takes, Op, Service
  <1> QED
    BY <1>3, <1>4

--------------------------------------------------------------------------------
(* What one turn of a request moves *)

Stays(s) ==
    /\ Makers(s)' = Makers(s) /\ Takers(s)' = Takers(s)
    /\ Stored(s)' = Stored(s)

Enters(r, s) ==
    /\ r \in Requests /\ r \notin Makers(s) /\ Makers(s)' = Makers(s) \cup {r}
    /\ Takers(s)' = Takers(s)
    /\ ~Stored(s) /\ Stored(s)'

Leaves(r, s) ==
    /\ r \in Requests /\ r \notin Takers(s) /\ Takers(s)' = Takers(s) \cup {r}
    /\ Makers(s)' = Makers(s)
    /\ Stored(s) /\ ~Stored(s)'

LEMMA AskFacts ==
    ASSUME Inv, Serving, NEW r \in Requests
    PROVE  /\ Asks[r].call \in Calls \cup {NoCall}
           /\ Asks[r].phase = "idle" <=> Asks[r].call = NoCall
           /\ Asks[r].phase \in {"idle", "called", "read"} => Asks[r].answer = NoAnswer
  <1>1. /\ Knows(pc[r], req[r]) /\ Serves(pc[r], req[r]) /\ pc[r] \in Labels
        /\ req[r] \in Request
    BY DEF Inv, TypeOK, Serving
  <1>2. pc[r] \in {"route", "forward", "done"} => Asks[r].phase \in {"settled", "answered"}
    BY SeenOf, Phases DEF Settled
  <1>3. Asks[r].phase = "idle" <=> pc[r] = "idle"
    BY <1>1, SeenOf, Phases
  <1> QED
    BY <1>1, <1>2, <1>3, SeenOf DEF Knows, Serves, Request

\* A turn changes the ask of its request only.
LEMMA OthersAsk ==
    ASSUME NEW r \in Requests, Registry!Turn(r)
    PROVE  \A t \in Requests \ {r} : Asks'[t] = Asks[t]
  <1> SUFFICES ASSUME NEW t \in Requests, t # r
               PROVE  Asks'[t] = Asks[t]
    OBVIOUS
  <1>1. DOMAIN Asks = Requests
    BY DEF Asks
  <1>2. ASSUME NEW code, Registry!Answered(r, code)
        PROVE  Asks'[t] = Asks[t]
    BY <1>1, <1>2 DEF Registry!Answered
  <1>3. CASE Registry!Ask(r) \/ Registry!Read(r)
    BY <1>1, <1>3 DEF Registry!Ask, Registry!Read
  <1>4. CASE Registry!Remove(r) \/ Registry!Settle(r) \/ Registry!Accept(r)
    BY <1>1, <1>4 DEF Registry!Remove, Registry!Settle, Registry!Accept
  <1>5. CASE \/ Registry!Refuse(r) \/ Registry!Register(r) \/ Registry!Modify(r)
             \/ Registry!Scale(r) \/ Registry!Complete(r) \/ Registry!Fail(r)
    BY <1>2, <1>5
    DEF Registry!Refuse, Registry!Register, Registry!Modify, Registry!Scale,
        Registry!Complete, Registry!Fail
  <1> QED
    BY <1>3, <1>4, <1>5 DEF Registry!Turn

\* A request whose ask neither made nor removed a row, before its turn and after.
LEMMA NothingCounted ==
    ASSUME NEW r \in Requests, \A t \in Requests \ {r} : Asks'[t] = Asks[t], NEW s,
           Makes(Asks'[r], s) <=> Makes(Asks[r], s),
           Takes(Asks'[r], s) <=> Takes(Asks[r], s),
           Stored(s)' = Stored(s)
    PROVE  Stays(s)
  BY DEF Stays, Makers, Takers

LEMMA AnsweredAsk ==
    ASSUME Inv, NEW r \in Requests, NEW code, Registry!Answered(r, code),
           Asks[r].answer = NoAnswer
    PROVE  /\ Asks'[r].call = Asks[r].call /\ Asks'[r].answer = code
           /\ Asks'[r].phase = "answered"
  BY DEF Registry!Answered, Registry!NoAnswer, NoAnswer, Asks

\* A delete that is cleaning up is not answered yet.
LEMMA DeleteUnanswered ==
    ASSUME Inv, Serving, NEW r \in Requests,
           Asks[r].phase = "settled", Asks[r].call.op = "delete"
    PROVE  Asks[r].answer = NoAnswer
  <1>1. Knows(pc[r], req[r]) /\ Serves(pc[r], req[r]) /\ pc[r] \in Labels
    BY DEF Inv, TypeOK, Serving
  <1>2. pc[r] \in Settled /\ req[r].call.op = "delete"
    BY <1>1, SeenOf, Phases DEF Working
  <1>3. pc[r] \notin {"route", "forward", "done"}
    BY <1>1, <1>2 DEF Knows, Serves, Settled
  <1> QED
    BY <1>1, <1>3, SeenOf DEF Serves

\* Only Register and Remove count, each for the service of its request.
LEMMA TurnCounts ==
    ASSUME Inv, Serving, \A call \in Calls : call.op # "build",
           NEW r \in Requests, Registry!Turn(r), NEW s
    PROVE  Stays(s) \/ Enters(r, s) \/ Leaves(r, s)
  <1>1. /\ Asks[r].call \in Calls \cup {NoCall}
        /\ Asks[r].phase = "idle" <=> Asks[r].call = NoCall
        /\ Asks[r].phase \in {"idle", "called", "read"} => Asks[r].answer = NoAnswer
        /\ Asks[r].call # NoCall => Asks[r].call.op # "build"
    BY AskFacts
  <1>2. \A t \in Requests \ {r} : Asks'[t] = Asks[t]
    BY OthersAsk
  <1>3. NoCall \notin Calls
    BY LifecycleAssumption
  <1>4. /\ Asks = [t \in Requests |-> Asks[t]]
        /\ Asks[r] = [phase |-> Asks[r].phase, call |-> Asks[r].call, read |-> Asks[r].read,
                      answer |-> Asks[r].answer]
    BY SeenOf DEF Asks, Seen
  <1>5. CASE Registry!Ask(r)
    <2>1. PICK call \in Calls :
             Asks' = [Asks EXCEPT ![r] = [Registry!Unasked EXCEPT !.phase = "called", !.call = call]]
      BY <1>5 DEF Registry!Ask
    <2>2. Asks'[r].phase = "called" /\ Asks'[r].answer = NoAnswer
      <3> DEFINE h == [Registry!Unasked EXCEPT !.phase = "called", !.call = call]
      <3>1. Registry!Unasked \in [phase : {"idle"}, call : {NoCall}, read : {NoRow}, answer : {0}]
        BY DEF Registry!Unasked, Registry!NoAnswer
      <3>2. h \in [phase : {"called"}, call : {call}, read : {NoRow}, answer : {0}]
        BY <3>1
      <3>3. Asks'[r] = h
        BY <1>4, <2>1
      <3> HIDE DEF h
      <3> QED
        BY <3>2, <3>3 DEF NoAnswer
    <2>3. Stored(s)' = Stored(s) /\ Asks[r].phase = "idle"
      BY <1>5 DEF Registry!Ask, Stored
    <2> QED
      BY <1>1, <1>2, <2>2, <2>3, NothingCounted DEF Makes, Takes, NoAnswer
  <1>6. CASE Registry!Read(r)
    <2>1. /\ Asks'[r].phase = "read" /\ Asks'[r].call = Asks[r].call
          /\ Asks'[r].answer = Asks[r].answer
      BY <1>4, <1>6 DEF Registry!Read
    <2>2. Stored(s)' = Stored(s) /\ Asks[r].phase = "called"
      BY <1>6 DEF Registry!Read, Stored
    <2> QED
      BY <1>2, <2>1, <2>2, NothingCounted DEF Makes, Takes
  <1>7. CASE Registry!Refuse(r) \/ Registry!Fail(r)
    <2>1. PICK code \in {404, 409, 500} : Registry!Answered(r, code)
      BY <1>7 DEF Registry!Refuse, Registry!Fail
    <2>2. Stored(s)' = Stored(s) /\ Asks[r].phase \in {"called", "read"}
      BY <1>7 DEF Registry!Refuse, Registry!Fail, Stored
    <2> QED
      BY <1>1, <1>2, <2>1, <2>2, AnsweredAsk, NothingCounted DEF Makes, Takes, NoAnswer
  <1>8. CASE Registry!Register(r)
    <2>1. Asks[r].phase = "read" /\ Asks[r].call # NoCall /\ Asks[r].call.op = "deploy"
      BY <1>1, <1>8 DEF Registry!Register, Registry!Op
    <2>2. Registry!Answered(r, 202)
      BY <1>8 DEF Registry!Register
    <2>3. /\ Asks'[r].call = Asks[r].call /\ Asks'[r].answer = 202
          /\ Asks'[r].phase = "answered"
      BY <1>1, <2>1, <2>2, AnsweredAsk
    <2>4. DOMAIN rows' = DOMAIN rows \cup {Asks[r].call.service}
          /\ Asks[r].call.service \notin DOMAIN rows
      BY <1>8 DEF Registry!Register, Registry!Registered, Registry!Service
    <2>5. CASE s = Asks[r].call.service
      <3>1. Makers(s)' = Makers(s) \cup {r} /\ r \notin Makers(s) /\ Takers(s)' = Takers(s)
        BY <1>1, <1>2, <2>1, <2>3, <2>5 DEF Makers, Takers, Makes, Takes, NoAnswer
      <3> QED
        BY <2>4, <2>5, <3>1 DEF Enters, Stored
    <2>6. CASE s # Asks[r].call.service
      BY <1>2, <2>1, <2>3, <2>4, <2>6, NothingCounted DEF Makes, Takes, Stored
    <2> QED
      BY <2>5, <2>6
  <1>9. CASE Registry!Modify(r) \/ Registry!Scale(r)
    <2>1. Registry!Answered(r, 202) /\ Asks[r].phase = "read" /\ DOMAIN rows' = DOMAIN rows
      BY <1>9 DEF Registry!Modify, Registry!Scale
    <2>2. Asks[r].call.op \in {"update", "build", "scale"}
      BY <1>9 DEF Registry!Modify, Registry!Scale, Registry!Op
    <2> QED
      BY <1>1, <1>2, <2>1, <2>2, AnsweredAsk, NothingCounted DEF Makes, Takes, Stored
  <1>10. CASE Registry!Remove(r)
    <2>1. Asks[r].phase = "read" /\ Asks[r].call # NoCall /\ Asks[r].call.op = "delete"
      BY <1>1, <1>10 DEF Registry!Remove, Registry!Op
    <2>2. /\ Asks'[r].call = Asks[r].call /\ Asks'[r].answer = Asks[r].answer
          /\ Asks'[r].phase = "settled"
      BY <1>4, <1>10 DEF Registry!Remove
    <2>3. DOMAIN rows' = DOMAIN rows \ {Asks[r].call.service}
          /\ Asks[r].call.service \in DOMAIN rows
      BY <1>10 DEF Registry!Remove, Registry!Registered, Registry!Service
    <2>4. CASE s = Asks[r].call.service
      <3>1. Takers(s)' = Takers(s) \cup {r} /\ r \notin Takers(s) /\ Makers(s)' = Makers(s)
        BY <1>1, <1>2, <2>1, <2>2, <2>4 DEF Makers, Takers, Makes, Takes, NoAnswer
      <3> QED
        BY <2>3, <2>4, <3>1 DEF Leaves, Stored
    <2>5. CASE s # Asks[r].call.service
      BY <1>2, <2>1, <2>2, <2>3, <2>5, NothingCounted DEF Makes, Takes, Stored
    <2> QED
      BY <2>4, <2>5
  <1>11. CASE Registry!Settle(r)
    <2>1. /\ Asks'[r].call = Asks[r].call /\ Asks'[r].answer = Asks[r].answer
          /\ Asks[r].call.op \in {"invoke", "async"} /\ DOMAIN rows' = DOMAIN rows
      BY <1>4, <1>11 DEF Registry!Settle, Registry!Op
    <2> QED
      BY <1>2, <2>1, NothingCounted DEF Makes, Takes, Stored
  <1>12. CASE Registry!Accept(r)
    <2>1. /\ Asks'[r].call = Asks[r].call /\ Asks[r].call.op = "async"
          /\ DOMAIN rows' = DOMAIN rows
      BY <1>4, <1>12 DEF Registry!Accept, Registry!Op
    <2> QED
      BY <1>2, <2>1, NothingCounted DEF Makes, Takes, Stored
  <1>13. CASE Registry!Complete(r)
    <2>1. rows' = rows /\ Asks[r].phase = "settled"
      BY <1>13 DEF Registry!Complete
    <2>2. CASE Asks[r].call.op = "delete"
      <3>1. Registry!Answered(r, 202)
        BY <1>13, <2>2 DEF Registry!Complete, Registry!Op
      <3>2. Asks'[r].call = Asks[r].call
            /\ (Asks[r].answer = NoAnswer => Asks'[r].answer = 202)
        BY <1>4, <3>1, AnsweredAsk DEF Registry!Answered
      <3>3. Asks[r].answer = NoAnswer
        BY <2>1, <2>2, DeleteUnanswered
      <3> QED
        BY <1>2, <2>1, <2>2, <3>2, <3>3, NothingCounted DEF Makes, Takes, Stored
    <2>3. CASE Asks[r].call.op \in {"invoke", "async"}
      <3>1. PICK code : Registry!Answered(r, code)
        BY <1>13 DEF Registry!Complete
      <3>2. Asks'[r].call = Asks[r].call
        BY <1>4, <3>1 DEF Registry!Answered
      <3> QED
        BY <1>2, <2>1, <2>3, <3>2, NothingCounted DEF Makes, Takes, Stored
    <2> QED
      BY <1>13, <2>2, <2>3 DEF Registry!Complete, Registry!Op
  <1> QED
    BY <1>5, <1>6, <1>7, <1>8, <1>9, <1>10, <1>11, <1>12, <1>13 DEF Registry!Turn

--------------------------------------------------------------------------------
(* The count *)

Count(s) == Cardinality(Makers(s)) - Cardinality(Takers(s)) - (IF Stored(s) THEN 1 ELSE 0)

LEMMA BalanceCounts ==
    ASSUME Inv, Serving, NEW s \in Services
    PROVE  Balance(s) = Count(s)
  BY MakersAccepted, TakersAccepted DEF Balance, Count

LEMMA CountKept ==
    ASSUME IsFiniteSet(Requests), NEW s,
           Stays(s) \/ (\E r : Enters(r, s)) \/ (\E r : Leaves(r, s))
    PROVE  Count(s)' = Count(s)
  <1>1. IsFiniteSet(Makers(s)) /\ IsFiniteSet(Takers(s))
    BY FS_Subset DEF Makers, Takers
  <1>2. Cardinality(Makers(s)) \in Nat /\ Cardinality(Takers(s)) \in Nat
    BY <1>1, FS_CardinalityType
  <1>3. CASE Stays(s)
    BY <1>3 DEF Stays, Count
  <1>4. CASE \E r : Enters(r, s)
    <2>1. Cardinality(Makers(s)') = Cardinality(Makers(s)) + 1 /\ Takers(s)' = Takers(s)
      BY <1>1, <1>4, FS_AddElement DEF Enters
    <2> QED
      BY <1>2, <1>4, <2>1 DEF Enters, Count
  <1>5. CASE \E r : Leaves(r, s)
    <2>1. Cardinality(Takers(s)') = Cardinality(Takers(s)) + 1 /\ Makers(s)' = Makers(s)
      BY <1>1, <1>5, FS_AddElement DEF Leaves
    <2> QED
      BY <1>2, <1>5, <2>1 DEF Leaves, Count
  <1> QED
    BY <1>3, <1>4, <1>5

LEMMA NothingMoves ==
    ASSUME UNCHANGED <<rows, Asks>>, NEW s
    PROVE  Stays(s)
  BY DEF Stays, Makers, Takers, Stored

LEMMA StepCounts ==
    ASSUME Inv, Serving, "crash" \notin Faults, \A call \in Calls : call.op # "build",
           [Next]_vars, NEW s
    PROVE  Stays(s) \/ (\E r : Enters(r, s)) \/ (\E r : Leaves(r, s))
  <1>1. ASSUME NEW r \in Requests, Arrive(r) \/ Handle(r) \/ HangUp(r)
        PROVE  Stays(s) \/ Enters(r, s) \/ Leaves(r, s)
    <2>1. Simulates(r)
      BY <1>1, ArriveSimulates, HandleSimulates, HangUpSimulates DEF Serving
    <2> QED
      BY <2>1, TurnCounts, NothingMoves DEF Simulates
  <1>2. ASSUME NEW c, Exit(c) \/ Restart(c)
        PROVE  Stays(s)
    BY <1>2, Stands, NothingMoves DEF Exit, Restart
  <1>3. ~CrashAndRestart
    BY DEF CrashAndRestart, Fault
  <1>4. CASE UNCHANGED vars
    BY <1>4, Stands, NothingMoves DEF vars
  <1> QED
    BY <1>1, <1>2, <1>3, <1>4 DEF Next, Disturb, Quiesced

\* However deploys and deletes of one name interleave, and whatever the engine, the
\* store and the clients do to them, the accepted ones add up to the row: no two
\* deploys are accepted for one vacancy of the name and no two deletes for one row
\* (HandleDeployFunction, HandleDeleteFunction over CreateFunction, DeleteFunction).
THEOREM AnswersAddUp ==
    ASSUME IsFiniteSet(Requests), "crash" \notin Faults, \A call \in Calls : call.op # "build"
    PROVE  Spec => RowLedger
  <1> DEFINE Counted == \A s \in Services : Balance(s) = Count(s)
             Step    == \A s \in Services : Balance(s)' = Balance(s)
  <1>1. Init => Serving
    BY InitSimulates
  <1>2. Inv /\ Serving /\ [Next]_vars => Serving' /\ \A s \in Services : Count(s)' = Count(s)
    BY NextSimulates, StepCounts, CountKept
  <1>3. Inv /\ Serving => Counted
    BY BalanceCounts
  <1>4. Counted /\ Counted' /\ (\A s \in Services : Count(s)' = Count(s)) => Step
    OBVIOUS
  <1>5. RowLedger <=> [][Step]_vars
    BY DEF RowLedger
  <1> QED
    BY <1>1, <1>2, <1>3, <1>4, <1>5, Invariance, PTL DEF Spec
================================================================================
