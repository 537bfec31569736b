---------------------------- MODULE NetworkReconciler ----------------------------
(***************************************************************************)
(* The periodic reconciler (pkg/provider/reconciler.go) next to the        *)
(* handlers: a goroutine that inspects the gateway's container, lists the  *)
(* networks of the rows and connects the gateway to those it was not on.   *)
(* Each is one call, and handlers run in between: what it inspected and    *)
(* listed may have changed by the time it connects.                        *)
(***************************************************************************)
EXTENDS LifecycleProperties

VARIABLES rpc,           \* the call ReconcileOnce makes next
          known,         \* attachedNetworks: what the inspection showed
          todo           \* functions still to be looked at, with the networks listed

reconcilerVars == <<rpc, known, todo>>
allVars == <<vars, reconcilerVars>>

ReconcilerTypeOK ==
    /\ rpc \in {"tick", "listrows", "connect"}
    /\ known \subseteq Networks
    /\ todo \subseteq Services \X (Networks \ known)

AtRest == rpc = "tick" /\ known = {} /\ todo = {}

Reset == rpc' = "tick" /\ known' = {} /\ todo' = {}

\* Mutant of InspectGateway: networks that exist are taken for attached ones.
InspectGatewayKnowsAll ==
    /\ rpc = "tick" /\ rpc' = "listrows"
    /\ known' = DOMAIN networks
    /\ UNCHANGED <<todo, engineVars, rows, pc, req, faults>>

\* The ticker fires: ContainerInspect of the gateway.
InspectGateway ==
    /\ rpc = "tick"
    /\ \/ rpc' = "listrows" /\ known' = attached /\ UNCHANGED faults
       \/ Fault("engine") /\ UNCHANGED <<rpc, known>>
    /\ UNCHANGED <<todo, engineVars, rows, pc, req>>

\* Mutant of ListRowNetworks: attached networks are connected again.
ListRowNetworksAll ==
    /\ rpc = "listrows" /\ rpc' = "connect"
    /\ todo' = {<<s, rows[s].network>> : s \in DOMAIN rows}
    /\ UNCHANGED <<known, engineVars, rows, pc, req, faults>>

\* listNetworks: one network per row, a shared one as often as rows name it, less the
\* attached ones.
ListRowNetworks ==
    /\ rpc = "listrows"
    /\ \/ /\ rpc' = "connect"
          /\ todo' = {<<s, rows[s].network>> :
                         s \in {t \in DOMAIN rows : rows[t].network \notin known}}
          /\ UNCHANGED <<known, faults>>
       \/ Fault("store") /\ Reset
    /\ UNCHANGED <<engineVars, rows, pc, req>>

\* connectToNetwork: a network that is gone and every other error only skip it.
ConnectNext ==
    /\ rpc = "connect"
    /\ \E entry \in todo :
          /\ todo' = todo \ {entry}
          /\ \/ NetworkConnect(entry[2]) /\ UNCHANGED faults
             \/ /\ IF entry[2] \notin DOMAIN networks THEN UNCHANGED faults ELSE Fault("engine")
                /\ UNCHANGED engineVars
    /\ UNCHANGED <<rpc, known, rows, pc, req>>

EndOfPass ==
    /\ rpc = "connect" /\ todo = {}
    /\ Reset
    /\ UNCHANGED vars

ReconcileOnce == InspectGateway \/ ListRowNetworks \/ ConnectNext \/ EndOfPass

ReconcilerInit == Init /\ AtRest

ReconcilerNext ==
    \/ ((\E r \in Requests : Arrive(r) \/ Handle(r)) \/ Disturb) /\ UNCHANGED reconcilerVars
    \/ CrashAndRestart /\ Reset
    \/ ReconcileOnce

\* The Go scheduler runs every goroutine, the engine answers every call, a polling
\* handler reaches its deadline, and the ticker fires again and again.  Nothing
\* makes clients call, and nothing keeps a function from exiting whenever the
\* engine restarts it: a container may be "restarting" for ever.
ReconcilerSpec ==
    /\ ReconcilerInit /\ [][ReconcilerNext]_allVars
    /\ \A r \in Requests : WF_allVars(Handle(r) /\ UNCHANGED reconcilerVars)
    /\ WF_allVars(ReconcileOnce)

--------------------------------------------------------------------------------

CutOff(s) ==
    Stored(s) /\ rows[s].network \in DOMAIN networks /\ rows[s].network \notin attached

\* Whatever detaches the gateway from the network of a stored function, a restart in
\* a new container or the deletion of another function on the same network
\* (CleanupFunctionNetwork disconnects before it looks who else is there), the
\* function does not stay out of reach.
CutOffIsRepaired == \A s \in Services : CutOff(s) ~> ~CutOff(s)

\* Every call made for s is a delete, or was turned away before it did anything.
OnlyDeleted(s) ==
    \A r \in Requests : req[r].call # NoCall /\ Service(r) = s =>
        Op(r) = "delete" \/ req[r].answer \in {404, 409}

\* Deletes, also concurrent ones of one function and of functions it shares nothing with,
\* leave no function's own network behind without its function as long as nothing fails,
\* whatever passes of the reconciler run in between: a pass that still knows the row does
\* not bring the gateway back between the disconnect and the removal, because it connects
\* only what it found detached.  (It would after a deploy: a pass that inspected the
\* gateway before the deploy connected it, and lists the row after, does.  A crash between
\* the row's deletion and the cleanup leaves the network as well.)
OwnNetworksReleased ==
    Quiet /\ faults = 0 =>
       \A s \in Services :
          OnlyDeleted(s) /\ OwnNetwork[s] \in DOMAIN networks => OwnNetwork[s] \in RowNetworks

\* Every call is answered in the end: no handler waits for ever, not even for a
\* function that never comes up.
EveryCallAnswered == \A r \in Requests : pc[r] = "lookup" ~> pc[r] = "done"
================================================================================
