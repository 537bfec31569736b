# Docker FaaS in TLA+

Docker FaaS is a gateway that deploys functions as Docker containers, keeps a row per
function in SQLite, scales and invokes them, and can build them from source. This directory
specifies the parts of it in which the order of events matters, model-checks them with TLC on
small instances, and proves some results for instances of every size with TLAPS.

Contents: [the system](#1-the-system), [the modules](#2-the-modules),
[how the models correspond to the code](#3-the-models-and-the-code),
[the runs](#4-the-runs), [where code and documentation disagree](#5-where-code-and-documentation-disagree),
[the proofs](#6-the-proofs), [what is left out](#7-what-is-left-out), [the plan](#8-the-plan).

## 1. The system

| component | state | operations | what makes it correct |
|---|---|---|---|
| gateway handlers (`pkg/gateway/handlers.go`, `async_handlers.go`, `build_handlers.go`) | none of their own; one goroutine per request, no lock across calls | deploy, update, delete, scale, invoke, asynchronous invoke, build-and-deploy | rows and containers agree between calls; an accepted call has done what it says; every call is answered |
| provider (`pkg/provider/docker_provider.go`) | none; talks to the engine | pull, ensure network, create and start, stop and remove, scale plan, network cleanup | a scale reaches its target from any leftover; a function touches only its own containers |
| Docker engine (external) | containers, networks, the gateway's attachments | as called by the provider | a name is used once; a network in use is not removed |
| store (`pkg/store/store.go`) | table `functions` | insert, select, two updates, delete: one SQL statement each | a name has one row; answers to clients add up to the rows |
| migrations (`pkg/store/migrations.go`) | schema version | apply, roll back | each version applied once, in order |
| reconciler (`pkg/provider/reconciler.go`) | one pass: what it saw, what is left to do | inspect gateway, list networks, connect | a function cut off comes back; a deleted network does not |
| router (`pkg/router/router.go`) | a counter per function, in a map without a lock | choose a container, read its address, forward | gets to a running container of the function |
| build tracker (`pkg/gateway/build_tracker.go`, `builds_handlers.go`) | history, index, subscribers' channels, under one mutex | add, update, list, get, clear, subscribe, cancel | the index is exact; the history tells what became of each build; what a stream has room for it tells, and last how an entry is |
| build pipeline (`pkg/builder`, `build_handlers.go`) | files of one build | prepare context, build image | text and archive handling |
| authentication (`pkg/auth`, `pkg/middleware`, `auth_handlers.go`) | tokens with their expiry; a count and a reset time per client address; each map under its mutex | login (issue), logout (revoke), validate, allow, reset | a live token is let in and no other; failures on the paths the middleware checks (`/auth/login` is not one) are limited per address, and nobody pays for another's |
| secrets (`pkg/secrets`, `secrets_handlers.go`) | one file per secret, under a lock per call | create, update, delete, list, ensure | what a client stored stays until it changes it; a loss is told; missing secrets do not fail a deployment |
| configuration, CORS, logging, metrics, web UI | read once, or written only | | no other component depends on their state |

**How they interact.** A client's request runs in a goroutine of `net/http`. The handler reads
the row of the function, has the provider make a sequence of engine calls, and writes the row
*last*. Nothing holds a lock over two of these calls, so two requests interleave between any two
calls, and a failure or crash leaves whatever the calls before it did. An invocation of a function
without a running container scales it from zero, polls its status for 30 seconds and forwards the
request; whether its process listens by then nobody looks.
An asynchronous invocation answers first and forwards in a goroutine of its own. The reconciler
runs next to the handlers and repairs the gateway's network attachments. Builds report to the
tracker, whose history clients list or follow as a stream.

**Hard behaviours.** Concurrent handlers of one name; a container another handler created but has
not started, which looks stale; ids and rows read several calls ago; roll-back by name; a network
removed while somebody connects to it; faults between the engine and the store; a gateway that dies
half-way; a cold start raced by several invocations; labels a client gives a function, copied over those by which
the gateway finds its containers; the history trimmed or expired under a running
build; a clock read before the lock that the decision is made under; a secret created, deleted or half
written while a deployment ensures it. `PROJECT.json` lists them one by one with the line where each bites and the properties that
watch it.

## 2. The modules

| module | what it is |
|---|---|
| `FaasTypes` | replicas, labels, deployments and rows (`pkg/types`) |
| `ReplicaPlan` | the scale plan as sets: which containers go, which indices are missing |
| `ReplicaPlanList` | the Go loops over lists, as recursive functions, and `ScaleFunction` applied twice; checked against `ReplicaPlan` and proved to compute it |
| `DockerEngine` | external: containers, networks, the gateway's attachments and the engine's calls on them |
| `FunctionStore` | the `functions` table and its statements |
| `FunctionLifecycle` | every handler, one action per store or engine call; composes the three above |
| `FunctionRegistry` | abstract: what calls may do to the rows and what their clients are told, without containers |
| `LifecycleRefinement` | the refinement mapping from `FunctionLifecycle` to `FunctionRegistry` |
| `LifecycleProperties` | what is promised about the lifecycle |
| `NetworkReconciler` | the reconciler composed with `FunctionLifecycle` |
| `BuildTracker` | history, index and streams of builds |
| `Admission` | tokens, the limiter of failed attempts, and the middleware that uses both |
| `Secrets` | the secret files, the handlers that write them, and deployments that ensure and mount them |
| `LifecycleProofs`, `SerialProofs`, `RepairProofs` | theorems about the lifecycle, the last one about the scale plan first |
| `ReconcilerProofs` | theorems about the lifecycle next to the reconciler |
| `ReplicaPlanProofs`, `AdmissionProofs`, `SecretsProofs`, `BuildTrackerProofs` | theorems about the modules they are named after |
| `MCLifecycle`, `MCNetworkReconciler`, `MCReplicaPlan`, `MCBuildTracker`, `MCAdmission`, `MCSecrets` | instances for TLC |

`FunctionLifecycle` extends `ReplicaPlan`, `DockerEngine` and `FunctionStore`; `LifecycleRefinement`
extends it and instantiates `FunctionRegistry`; `LifecycleProperties` and `LifecycleProofs` extend
each other in this order, `SerialProofs` and `RepairProofs` extend the last of them, `NetworkReconciler`
composes the handlers with the reconciler, and `ReconcilerProofs` extends it and `LifecycleProofs`.
`ReplicaPlanList` extends `ReplicaPlan` only. `BuildTracker`, `Admission` and `Secrets` share no state
with them.

A definition called a *mutant* in its comment is a plausible bug in the definition after it, which
no specification here uses; substituting it shows that a property can fail.

## 3. The models and the code

**Processes.** A request `r` has a program counter `pc[r]`, named after the call it makes next, and
a record `req[r]`, the handler's locals: the client's `call`, the `job` the provider is doing for
it, the `row` it read, the `victims` still to be removed, the indices `missing`, the container
`cur` it inspected or chose, whether its context is `cancelled`, what it has answered, and whether its
forward `arrived` at a running container. What a handler
computes between two calls is part of the step of the first one; locals are forgotten when it ends.

**Jobs.** Handlers share the provider's code, so the model does, too: a job says for which purpose.

| handler | steps |
|---|---|
| `HandleDeployFunction` | lookup → pull → create* → insert; a failing insert → list → reap* (`rollback`) |
| `HandleUpdateFunction` | lookup → list → reap* → pull → create* → save |
| `deployBuiltImage` | as deploy or as update, by what lookup finds |
| `HandleDeleteFunction` | lookup → list → reap* → deleterow → network cleanup |
| `HandleScaleFunction` | lookup → list → reap* → create* → setreplicas |
| `HandleInvokeFunction` | lookup → probe → route → forward; nothing up: list → reap* → create* → setreplicas → wait (`wake`) |
| `HandleInvokeFunctionAsync` | the same, with accept before route |

`create*` is `createContainer` per missing index: list networks, create the network, connect the
gateway, inspect the name, remove a stale container, create, start. `reap*` is stop and remove per
victim. Network cleanup is `CleanupFunctionNetwork`: inspect, disconnect, inspect, remove.

**Engine.** A container is identified by the request that created it and its index, a Docker id
that is never reused; its *name* is service and index, and the engine refuses a second container of
a name. Its *labels* name a service and an index as well. `createContainer` sets both and then copies
the `labels` of the client's call over them, which nothing validates; so a call, a row and a deployment
carry `labels`, the service and index its containers are labelled with in the end, and `OwnLabels` are
those of a client that sets neither. Listing goes by label, creating and removing a stale container by
name. Containers of the restart policy `unless-stopped` that exit become `restarting` and run
again; `Startable` keeps one whose network is gone from starting.

**Faults**, bounded by `MaxFaults` and chosen per run from `Faults`: `engine` (a call refused
without effect), `store` (a statement fails), `hangup` (the client leaves, its context is cancelled and
engine calls under it fail), `exit` (a function's process ends), `crash` (the gateway dies: requests in flight are lost, rows and containers stay; it
comes back in its old container or in a new one without networks, and `main` reconciles before it
serves). A listing that succeeds and an inspection of one of its containers that fails hides the
container: `Probe` may then wake a function that is up, one `engine` fault.

**Forwarding.** `Route` reads the list and chooses any container of it; the address is the one listed,
and a container that is not running has none (`cur = NoContainer`). `Forward` *arrives* if the container
is running when the call is made, on a network the gateway is on, and the address was read while it ran.
What comes back is open: `waitForFunctionReady` and `isContainerHealthy` look at the status of a container
and at nothing else, so any forward may end in 500, with no fault. Without an address the URL is
`http://:8080`, the gateway's own port; what that answers is passed on and is not the function's, so the
call has not arrived.

**Build tracker.** `entries`, `index` and the streams' channels are the tracker's fields. Every
method runs under its mutex from start to end and is one action; a build is the steps of
`HandleBuildFunction` that touch the tracker. `Subscribe` registers a channel and sends nothing of what
there is, as the code does; a client that wants to know lists the history in a request of its own.
`Broadcast` drops a change for which a channel has no room. `added`, `sent` (the builds whose latest change
since the subscription the channel had room for) and `seen` (what the client was told of those last) are
history variables, and so is a build's `late`. The finish time of a build is read before the mutex is taken:
`End` records any reading from the build's start to now.

**Refinement.** `FunctionRegistry` says what a client may rely on whatever containers do. A call is
*called*, has *read*, is *settled* (it will not write any more) and is *answered*; it looks its
function up once, writes at most once and as a whole, is accepted in the step that writes or after
it, and is answered 500 only without having written. An update writes over the row it *read*: the
replica count of a concurrent scale can be lost, and the limits, labels and network of a concurrent update,
but no row appears, disappears or mixes the writes of two calls. A crash loses what was under way.
`LifecycleRefinement` maps `functions` to `rows` and each request's `pc`, `call`, `row` and `answer` to `ask`; pulling, reaping, creating, polling and routing are stutters, and
`insert`, `save`, `setreplicas`, `deleterow` are where `Register`, `Modify`, `Scale`
(or `Settle`, when waking) and `Remove` happen.

**Admission.** A request goes through the middleware in at most four steps, each a method under a
mutex or a reading of the clock. `Issue`, `Validate` and `allow` call `time.Now` before they lock, so
`req[r].reading` is taken a step earlier than it is used, and time and other requests go on in
between. The token a login gets is named by its request. A client sends only tokens it was told, or
rubbish. `failed`, the requests the limiter answered 401 under each key since its last success, is a
history variable.

**Secrets.** A method of `SecretManager` holds the mutex from start to end and is one step;
`EnsureSecrets` looks, creates and looks again under separate locks and is as many steps per name.
`write` fails a file operation or cuts it short, leaving the old file, none, or an incomplete one
as the method's order of removal and writing allows; `crash` stops the gateway between methods or
in the middle of one. A file created empty for a deployment is complete as soon as it exists. `meant`
(what the answers to clients say is stored) and `doubt` (the names whose last write did not succeed)
are history variables.

## 4. The runs

| run | instance | states | shows |
|---|---|---|---|
| `replica_plan` | all lists of ≤ 3 containers, 3 states, indices none, 0, 1, 2, 2 ages; targets 0–2 | 46 537 | one pass reaches the target, a second does nothing, a best container of each index stays, the lists agree with `ReplicaPlan` |
| `lifecycle_serial` | 1 function, 4 calls one after the other, all operations, own or other network; deployed with 0–2 replicas or not at all | 273 491 | the registry is implemented; row and containers agree between calls, no call fails before it forwards, a delete releases, an invocation gets to a running container |
| `lifecycle_faults` | 1 function, 3 calls one after the other, 2 faults of any kind | 713 365 | the registry is implemented under faults; an accepted scale or update holds whatever was left behind before |
| `lifecycle_race` | 2 functions, 3 concurrent calls, among them a deploy of `f` labelled as `g`'s first replica | 587 730 | what survives without locks: the registry, the ledger of rows, cold starts, and that no handler touches what is another function's by name and label |
| `network_reconciler` | 2 functions, one on its own and one on a shared network, 2 concurrent calls, the reconciler, 1 fault | 115 366 | liveness: cut-off functions come back, every call is answered; safety: deletes leave no network of their own behind |
| `builds` | 3 builds, history of 2, retention 2, channel of 1, clock 0–2, 1 stream | 1 943 673 | index, history, retention, streams |
| `admission` | 3 requests under 2 addresses, all at a time; a token's life and a window of 1, a limit of 1, clock 0–4 | 451 355 | tokens admit while they live and no longer, under stale readings, too; what the limiter limits, and that nobody is refused for another address or an old window |
| `secrets` | 4 concurrent requests on 2 secrets, 2 faults | 2 168 168 | stored values stand, losses are told, creations and deletions add up, deployments get through |
| `finding_*` | the smallest instance of each | | section 5 |

**Bounds.** `Requests` bounds the calls of a behaviour, `MaxInFlight` the calls at a time,
`MaxReplicas` the replicas, `MaxFaults` the faults, `MaxListed` and `MaxTarget` the lists and targets
of the plan, `MaxTime` the clock of the builds. Why they are enough to be interesting:
two replicas are the least with which one can be missing, in excess or stale while the other is not;
four calls reach a state in two, disturb it, and look; the longest serial behaviour has 86 states.
Two faults allow a failure in the roll-back of a failure. With three concurrent calls two can
race while a third changes what they read. Three builds in a history of two force trimming under a
running build, and a clock up to the retention lets an entry expire; a channel of one is full after one
entry, so that changes are dropped, and later ones of the same entry are not. `TwiceLimitPerWindow` is about
2 * `Limit` + 1 failures in a row under one key: with a limit of one, three, of which the limiter lets the
second through only more than a window after the first, and the third after the second, so the requests read
the clock at 0, 2 and 4 at least, and the clock runs to 4 (that three failures in a row happen was checked by
claiming they do not). With the same clock a token of life 1 is used before, at and after its last moment, and
a login, a logout and a late use of its token are three requests. Calls that reach neither the manager nor the limiter are left out of that instance. Four requests on
secrets are a create, an update or delete, and two deployments. Requests and builds are
interchangeable, so runs of invariants and action properties use symmetry sets; the run with liveness does not.

**Fairness.** Only `NetworkReconciler` states any, and only its run has liveness properties. Each
request's handler is weakly fair (goroutines are scheduled, the engine answers or its call fails,
and the poll of a cold start has a deadline), and so is the reconciler's loop (its ticker fires
again and again, and a pass never waits for anything but the engine). Clients are not made to call, and nothing
is assumed of function processes: `Restart` is not fair, so a function may be `restarting` for ever.

**What a property's environment says.** Each promise is checked in the environment in which the
code keeps it. `StoreAndEngineAgree`, `NoCallFails` and `InvokeArrives` hold for calls one at a time without
faults; with concurrent calls or faults they do not, and the code does not say they should. Two
concurrent updates can both fail, an update writes the replica count it read over that of a scale
that ran meanwhile, a fault can leave a row with no container. Stating those as properties would
only restate that there is no lock. `NoCallFails` ends where the call is forwarded, and `InvokeArrives` and
`ColdStartArrives` with the call at a running container: what comes back depends on a process the gateway
knows nothing of. `Isolation` protects what is a function's by name *and* label: a function whose client labels
it as another's has given its containers away, and the other's calls may list, scale and delete them.
`StreamsCatchUp` is about the changes a channel had room for; the others are never told. `ScaleConverges` and `UpdateRecreates` are what a client can
rely on instead: whatever happened, sending the call again until it is accepted repairs the function.
`SecretLedger` and `DeploysGetThrough` count answers and are stated for behaviours up to the first
fault; `LossIsTold` is the one under faults.
`OwnNetworksReleased` is for functions whose calls are deletes only (or turned away), while nothing
fails. A gateway that dies between deleting the row and removing the network leaves the network, and
nothing looks for it later. So does a deploy that overlaps a delete and fails afterwards, and so can a
pass of the reconciler that inspected the gateway before a deploy connected it and listed the rows after:
it connects the gateway once more, maybe between the disconnect and the removal of a later delete. An
instance with three calls of one function (not among the runs) shows both.

## 5. Where code and documentation disagree

Each run checks one sentence of `docs/ARCHITECTURE.md` and is violated by what the code does.

- `finding_rollback`, line 329, "Failed deployments rolled back". Of two concurrent deploys of a
  name, one is accepted; the other, which took its container for a stale one and removed it, fails to insert
  its row and rolls back by *name*, removing every container of it. The accepted function is left without any.
- `finding_orphan`, line 330, "Orphaned containers cleaned up". A gateway that dies between starting
  the container and inserting the row leaves a running container nobody removes: delete answers 404,
  and every later deploy of the name fails, because a running container of the name is not stale.
- `finding_limits`, line 279, "Resource limits enforced". `HandleScaleFunction` rebuilds the
  deployment from the row without the limits; the replicas it adds run without them.
- `finding_routing`, line 74, "Filters for running containers only". The filter compares Docker's
  status text ("Up 5 minutes") with "running" and "Up", finds none, and falls back to all containers
  listed: an invocation may go to one that never started although another runs.

Other lines the code contradicts, or that say more than it does, which no run checks:

- `docs/SCALE_FROM_ZERO.md:146-147` promises that an invocation of a function scaled to zero succeeds if
  the function is up within 30 seconds. `waitForFunctionReady` (`handlers.go:789-829`) waits for the status
  of a container only, and the forward may find nobody listening and answer 500; lines 208 and
  215-218 of the same page concede it, and `tests/integration/integration_test.go` sleeps before it invokes.
- `docs/API.md:396-398` says "Currently no rate limiting is implemented". The middleware limits failed
  attempts per address (`rate_limiter.go`), as `docs/CONFIGURATION.md:32-33` says; `/auth/login`, whose
  handler checks credentials itself, is let past both the check and the limiter.
- Nothing documents that the `labels` of a deployment can replace `com.docker-faas.function` and `.replica`
  (`docker_provider.go:290-299`): a deploy of `f` labelled as `g` makes a container that calls of `g`
  list, scale and delete, and that calls of `f` do not find except by its name.

## 6. The proofs

`LifecycleProofs` proves, for every set of requests, services, networks, images and calls, every
bound and every set of faults that satisfies the assumptions `MaxReplicasAssumption`,
`NoRowAssumption` and `LifecycleAssumption`:

- `TypeCorrect`: `Spec => []TypeOK`;
- `HandlersAreIsolated`: `Spec => Isolation`, no step of a handler touches a row of another service or a
  container that is the other's by name and label, or makes one, whatever labels clients give their own
  functions; `lifecycle_race` shows it for three calls.

Neither is inductive. A handler acts on ids it listed or inspected many steps ago; that they are
still its own service's needs the invariant `Inv`, whose parts are

- `TypeOK`;
- `Knows(pc[r], req[r])`: at each call, what the handler must know to make it: that it has read a row
  when the call uses one, an index to create when it creates, which jobs can be there;
- `Aims(req[r])`: if all labels are the functions' own (`OwnLabelsOnly`), the listed victims and the current
  container were created for the request's service;
- `Ownership`: every container is named after the service of the call that created it and its index
  (`Marked`), and, if all labels are the functions' own, labelled so.

`CreatedFor` reads the owner off the *id*, and a request's call never changes, so the fact survives
the removal and recreation of containers by others. `Invariance` is `Spec => []Inv`; one lemma per
action shows that the action `Advances` the handler to a call it knows enough for and changes the
engine (`EngineStep`) and the store (`StoreStep`) only for its own service.

Where clients set the labels, who *created* a container a handler has listed says nothing. Isolation
therefore rests on a second invariant, `Familiar`: a container that somebody has listed, as long as it exists,
still bears the label of the service it was listed for. It holds because no id is used twice, which the
invariant says as well: an index that a request may yet create (`Unmaking`) does not exist under its id and
is on nobody's list. So whatever a handler stops or removes by id bears its service's label, and what it
creates or removes by name bears its service's name (`OwnTouch`); a container that is another's by both is
neither.

The second part of the module proves `HandlersImplementRegistry`: `Spec => RefinesRegistry`, from the same
assumptions. That a step of a handler is a step of the registry depends on what its job says
about its client's call: that `save` is reached by an update or a build only, that a deploy has read
no row, that only asynchronous calls are accepted early, that nobody who still writes has been
answered. These are `Serving`, an invariant next to `Inv`. Each step is shown to keep it and to be one of
the registry's (`Simulates`): removing and creating containers need one lemma together, because they
leave all the registry sees alone or answer 500 (`RemoveWorks`, `CreateWorks`, `WorkSimulates`); the
look-up, the four writes, the cleanup, invocations and the environment have one each.

Its third part proves `AnswersAddUp`: `Spec => RowLedger`, no step changes the `Balance` of answers and row of
a service, for every finite set of requests and any interleaving, if no crash is among the faults and no build among the calls: a crash between the
deletion of a row and its answer loses the answer, and the answer of a build does not tell whether it
made the row. Engine and store may fail and clients may leave. The argument counts on what the registry
sees, not on the handlers: of the registry's steps only `Register` and `Remove` move a row, and each
moves one request into one of the two sets that are counted (`Stays`, `Enters`, `Leaves`). That each
step of a handler is one of the registry's is the second part.

`SerialProofs` is about the promises kept by calls made one at a time. From the hypothesis `OneByOne`
(`MaxInFlight` at most 1, no faults, `OwnLabelsOnly`, no two functions with a network in common;
`lifecycle_serial` is an instance) it proves

- `CallsLeaveNothingOpen` (`StoreAndEngineAgree`) and `NoSequenceFails` (`NoCallFails`);
- `InvocationsArrive` (`InvokeArrives`) and `DeletesRelease` (`DeleteReleases`),

for any number of calls and functions. The invariant `SerialInv` says of the engine and the store that
containers of a function have different indices and networks belong to one function (`World`), that
one request is in flight (`Alone`), that a function nobody handles is as its row says (`Agreed`), and,
for each call a handler makes, which replicas exist by then (`Stage`): while it creates, its containers
are exactly the indices not `missing`, all running the wanted image on the wanted network; while it
removes, those that are no victims are. The separation of networks is not a convenience: the cleanup
after a delete disconnects the gateway from the function's network, and a function that shares it would
lose its invocations. TLC checked the invariant on the states of `lifecycle_serial` before the proof.

Its second part is about cold starts that race. From `FromZeroOrOne` (no faults, `OwnLabelsOnly`, and every
row of the initial states has one replica or none; `lifecycle_race` without its mislabelled deploy is an
instance) it proves `ColdStartsSettle` (`ColdStartSettles`) and `ColdStartsArrive` (`ColdStartArrives`), for any number of invocations, waiting or
asynchronous, of any number of functions at the same time. Without the hypothesis on the rows no
invocation need wake anything, and a function with two replicas keeps them. What an invocation has done of a
wake-up says little here, because another one may undo it: each removes what it finds created and not yet
started. The invariant `ColdInv` holds as long as nothing but invocations have been called, and says

- of the engine (`Scene`): a function has one container at most; it is up, or its creator is about to
  start it, and stands on a network the gateway is attached to;
- of each invocation (`Rouses`): it works from a stored row, never to remove what runs, and wants one replica;
- of each function (`Rises`), that somebody always goes on: until it is up, an invocation may yet start a
  container for it (`Starts`); until the row says one replica, one is about to store that (`Records`); and
  one of those that called it has arrived, or will if it stays up: it has still to be routed, or was routed to
  the container when that ran and had an address (`Attends`).

An invocation that gives up, because its name is taken or its container is gone, therefore has to leave
another one behind (`EndsCold`, `SomebodyStarts`): a name that is taken is the name of a container that is
up or about to be started, and who removed a container goes on to create one. TLC checked the invariant
on the states of `lifecycle_race` with own labels, on four invocations of one function and on three of two
functions before the proof.

`RepairProofs` proves `ScalesConverge` (`ScaleConverges`) and `UpdatesRecreate` (`UpdateRecreates`) from
`OwnLabelsOnly`: `Spec /\ []NoOverlap => ...`, for every number of requests, replicas, faults and crashes. `NoOverlap` says
that no two calls of *one* function are handled at the same time; calls of different functions may be, and
`OneAtATime` shows that `MaxInFlight` at most 1 implies it. It is needed: of two overlapping scales each
removes what the other creates. Nothing is assumed of what earlier calls left: containers of any state,
number and index, a row with other replicas, a gateway that is not connected.

The first part of the module is about `ReplicaPlan` alone. `PlanReachesTargetAlways`: for every finite set of
containers and every target, removing what the plan removes and creating what it misses leaves every
index below the target exactly once, keeps a best container of each index that had one, and leaves
nothing else (`PlanReachesTarget` of the run, there for the lists of the code and here for the sets of
`ReplicaPlan`). That a non-empty finite group has a best container (`NewestExists`, `KeeperExists`) is the
lemma under it. The second part carries that through the handler's steps. `Underway(r)` says of a scale that
the containers it will not remove are the indices below the target that are not `missing`, none stale, and
of an update that every index below the row's count is `missing` or has a container the update itself made;
`Identified` that a container carries the index and the image of its creation. An update does not know that
the old containers are gone (`RemoveFunction` only warns), but a leftover that is up makes it fail, and one that
is stale is removed by its *name*, which `Identified` shows not to be a container the update has just made.
A container that exits is `restarting`, which is not stale: that is why faults of this kind do no harm
between the plan and the answer. `AcceptedByTheStore` shows that the step that answers 202 is a statement
of the store, at which both facts hold of everything. TLC checked the invariant on the states of
`lifecycle_faults` before the proof.

`ReconcilerProofs` is about `ReconcilerSpec`, the handlers next to the reconciler. `HandlersGoTogether` carries
`Inv` and the refinement of the registry over to it, and `ReconcilerTypeCorrect` adds the reconciler's own
state (`ReconcilerTypeOK`, with the strengthening that nothing is left to be connected between two passes).
`DeletesReleaseNetworks` is `OwnNetworksReleased` for any number of requests, services, containers and
passes, under the hypothesis `OwnNetworksApart`: no call and no initial row puts a function on the own
network of another one or labels it as another. Own networks are named after their functions, but a call may name any network, and
the hypothesis is needed: a function that joined the network of another one keeps it in use when that one is
deleted, and its own delete later does not take the network for its own (`isManagedFunctionNetwork`).
`network_reconciler` satisfies the hypothesis.

The property is about quiet states; the invariant follows a function that is only deleted (`OnlyDeletes`)
through its deletes. `Clears(r)` says what a delete may rely on at each call: the row it read is the stored
one, its victims are all the containers there are, none is left when it deletes the row, and from its
disconnect on the gateway is off the network. `Watched(s)` says why the reconciler does not interfere: the
gateway is on the function's own network as long as the function is stored on it, and a pass that has
inspected knows that, so the network never comes to be among those to connect; and while the network exists
without its function, the delete that removed the row is still on its way to removing it (`Releases`). Steps
of other functions' handlers leave the network alone, because what a handler uses is in `Uses` of its
service (`KeepsToUses`, an invariant whatever fails). TLC checked the invariant on the states of
`network_reconciler` and on an instance with three requests before the proof.

`AdmissionProofs` proves, for every number of requests and addresses, every token life, window and
limit that satisfies `AdmissionAssumption`, `AdmissionTypeCorrect` (`AdmissionTypeOK`),
`LiveTokensOnly` (`OnlyLiveTokensAdmit`) and `NoLiveTokenRefused` (`LiveTokensAdmit`). Validation
looks at nothing but the table and a reading of the clock that may be old, so both action properties
need an invariant that says what an entry, and the lack of one, means: the parts of `Inv` beyond the
types are

- `Flow(pc[r], req[r])`: which calls reach which step, and that nobody is answered before the last;
- `ReadingsPast`: no request decides on a reading of the future;
- `TokensKnown`: bearers carry tokens of completed logins only;
- `EntriesLive`: an entry belongs to a completed login, no logout has revoked it, and it ends at that
  login's reading plus the life of a token;
- `LossExplained`: the token of a login without an entry was revoked or is over, because the reading
  that let `Validate` delete it is past.

Its second part is about the limiter: `FailuresAreSpread` (`TwiceLimitPerWindow`) and `RefusalsAreDue`
(`RefusedInFullWindow`). Readings reach the limiter out of order, so the readings of the failures under
a key are not sorted and a window cannot be read off their first and last. The invariant `LimiterInv`
says what a bucket stands for instead: its `count` is the number of the last failures that belong to its
window, and its `reset` is the reading of the first of them plus the window (`Windowed`); and of the
failures up to any one, one fewer than `Limit` back or itself *opened* a window, because it was the first
since a success or read the clock more than a window after one at most `Limit` before it (`Opens`,
`Spaced`). Two openings next to each other are therefore among any 2 * `Limit` + 1 failures in a row
(`SpacedApart`), which is the property. TLC checked `LimiterInv` on the states of `admission` and on an
instance with a limit of 2.

`SecretsProofs` proves every property of `secrets`, for any requests, names, values and number of
faults: `SecretsTypesCorrect` (`SecretsTypeOK`), `LossesAreTold` (`LossIsTold`),
`OnlyUpdatesAndDeletesWrite` (`ClientsValuesStand`), `OnlyDeletesRefuse` (`DeploysGetThrough`) and, for
a finite set of requests, `SecretsAddUp` (`SecretLedger`). Every step of a handler is one of five
turns: it creates a secret, replaces one, deletes one, only looks, or fails. `Flow` says what a request
knows at each of its calls; that the names it still has to ensure differ from each other and from
those it created is what makes the counting sound. `OnlyDeletesRefuse` needs an invariant of its own,
`StillThere`: what a deployment has looked at and passed still exists, or somebody was told it is
deleted.

`BuildTrackerProofs` proves every property of `builds`, for any builds, clients, limit, retention and
channel capacity that satisfy `BuildTrackerAssumption`: `TrackerTypesCorrect`, `IndexStaysExact`
(`IndexIsExact`), `HistoryIsTrue` (`HistoryTellsOutcome`), `RecentBuildsStay`
(`RecentBuildsAreListed`) and `StreamsTellAll` (`StreamsCatchUp`). The invariant has three ideas.
`Ranked`: an entry stands no further back than the number of builds added after it, so that what
`trimLocked` cuts off is not among the last `Limit`. `Expired`: a build missing from the last `Limit`
may have been pruned by its own times, which stays true as time passes and, for a build that ends later,
becomes its having taken too long. `Knows`: of every entry
whose latest change a client's channel had room for, the last message about it in the channel, or what the client
was told last if there is none, is the entry as it stands. `Prune` is a loop, here a
recursive function; what it keeps (`PruneKeeps`) is proved by induction over the elements passed
(`Induction`, from the well-foundedness of the natural numbers, for a set of numbers instead of a
predicate), after showing that the function exists (`StepsExist`). TLC checked the invariant on all
states of `builds` first.

`ReplicaPlanProofs` is about the loops of `buildReplicaScalePlan` and `selectReplicaKeeper` over the list
the engine returns, and proves every property of `replica_plan` for lists of any length and any target, from
`ReplicaPlanListAssumption` alone: `OnePassIsEnough` (`PlanReachesTarget`), `SecondPassDoesNothing`
(`PlanIsStable`), `BestIsKept` (`KeepsTheBest`) and `LoopsComputeThePlan` (`AgreesWithScalePlan`). The
assumption takes the replica indices for natural numbers, as every container the gateway creates has one in
its label; a label somebody else set to a negative number would be an index no target reaches. The argument
has three stages.

- *Loops.* Each is a recursive function on the positions of its list, which first has to be shown to exist
  (`TurnsExist`, `ChoicesExist`; a `CHOOSE` is nothing without it). By induction over the positions passed,
  a loop that appends what passes a test yields exactly those elements, without repetition if the list has
  none (`AppendedIs`), and comparing each container with the best so far ends at one that no other beats
  (`SelectReplicaKeeperIs`), because no better than a beaten one is no better either (`PreferredIsOrder`).
  `AscendingExists` constructs the sorted list of a finite set of indices, by counting, for `sort.Ints`.
- *Plan.* `PlanIs` puts them together: the three lists of the plan, as sets, are those of `ScalePlan` for *some* choice
  of keepers, and have no repetitions. From there on the proofs are about sets.
- *Scaling.* `ScaleIs` says what a scale leaves; the invariant `Inv` says that ids are unique, that those of new
  containers appear with the first round, and that from then on the target is reached. `NothingToDo` shows that
  the plan of such a state is empty.

Which of several equally good containers stays is the order of the engine's list in the code and a
`CHOOSE` in `ScalePlan`. That both remove the same number is a bijection between what two
choices of keepers remove (`SameNumber`): a container the one keeps stands for the one of its index the other
keeps. TLC checked `Inv` on the 46 537 states of `replica_plan`.

Only model-checked: liveness (`CutOffIsRepaired`, `EveryCallAnswered`), which TLAPS cannot prove here. Every
invariant and every action property of the passing runs is a theorem.

## 7. What is left out

- Of the provider: parsing of memory and CPU limits, environment, debug ports, logs, health checks of
  the container. Limits are a flag.
- Lost answers: an engine call either happens and is answered, or is refused. `engine` is a fault
  without effect.
- The asynchronous call's own HTTP time-out, and the body of requests.
- Readiness: when a process begins to listen on port 8080. No step of the gateway depends on it before the
  forward, whose outcome is open.
- Addresses: an address read at routing that has passed to another container by the time of the forward. The
  model has such a call fail.
- Labels other than those of function and replica: a client can replace the type label, which nothing reads,
  and the network label, which chooses among the networks of a container that has one only. A function
  label that names no function, and a replica label beyond the bound, are not among the model's either; an
  unreadable replica label is the index of the name again (`containerReplicaIndex`).
- The web client: it lists the builds and subscribes to the stream in two requests (`app.js:232-269`), and
  nothing orders them. `Subscribe`, `List` and `Receive` are what it can see.
- A failure of the engine during the reconciliation at start-up. `main` ignores it, and the next
  periodic pass repeats it; the model starts after a successful one.
- A gateway outside Docker, or with the reconciler disabled: the model has the default set-up,
  in which it runs in a container.
- `MaxReplicas` is a bound of the model. The configuration's `MAX_REPLICAS` is read and
  shown to clients (`cmd/gateway/main.go`, `auth_types.go`) but no handler compares a count with it.
- Stopping the reconciler: `Stop` ends the loop on shutdown.
- `GetFunctionContainers` lists the containers and then inspects each for its address; the model
  reads ids, states and addresses at once, and an inspection that fails as one that hides every container
  that is up.
- The finish time of a build is any reading between its start and its end, also one from before its last step.
- The filters of `List` of the build tracker, and the output buffer of builds.
- The router's counter and the map it is kept in: `Route` chooses any container, which is every value
  of the counter. The map is written without a lock; what the Go runtime does about it at worst,
  stopping the process, is `CrashAndRestart`.
- Schema migrations. Each one runs in a transaction with the version it sets, before the gateway
  serves and in one process, so no two steps interleave and none is seen half done; `Rollback` has no
  caller. What remains is the text of the SQL. (`Down` of version 2 rebuilds
  `functions` without its primary key and `UNIQUE`; nothing in the repository runs it.)
- Of authentication: `lastSeen`, which is written and never read; configurations without credentials,
  limiter or manager, which decide nothing; the `Retry-After` header; entries that are never looked at
  again and never deleted. Of secrets: blank names and names listed twice, list and get, and the path on the host.
- The build pipeline (context preparation, templates, manifests, image build), configuration, logging,
  CORS, metrics and the web UI: text and file handling, or no state another component depends on.

## 8. The plan

Done: the types, plan, engine, store, lifecycle, reconciler, build tracker, admission and secrets; the
abstract registry, model-checked and proved; and a proof of every safety and action property the passing runs
check. What could come next is more of the system and no more proofs of this model: the router's counter
with the calls that read its map, the output buffer of builds, and a web client that lists and subscribes.
