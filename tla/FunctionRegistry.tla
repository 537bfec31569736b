----------------------------- MODULE FunctionRegistry -----------------------------
(***************************************************************************)
(* What calls may do to the registry of functions, whatever becomes of     *)
(* containers, networks and the gateway itself: the specification the      *)
(* handlers of FunctionLifecycle implement.                                *)
(*                                                                         *)
(* A call looks its function up once and writes at most once, as a whole.  *)
(* It is accepted in the step that writes, or after it; a call that fails  *)
(* has written nothing, and no call writes after its answer.  An update    *)
(* writes what the call sets over the row the call READ, not over the row  *)
(* stored by then: the replica count of a scale in between is lost, and so *)
(* is everything a concurrent update stored (image, limits, network,       *)
(* labels).                                                                *)
(***************************************************************************)
EXTENDS FaasTypes

CONSTANTS Requests, Calls, NoCall, NoNetwork, OwnNetwork, NoRow, InitialRows

VARIABLES functions,     \* service -> row, the registry
          ask            \* request -> what its client and the registry know of it

NoAnswer == 0

Unasked == [phase |-> "idle", call |-> NoCall, read |-> NoRow, answer |-> NoAnswer]

Init ==
    /\ functions \in InitialRows
    /\ ask = [r \in Requests |-> Unasked]

Op(r)      == ask[r].call.op
Service(r) == ask[r].call.service

Registered(r) == Service(r) \in DOMAIN functions

Answered(r, code) ==
    ask' = [ask EXCEPT ![r] = [phase |-> "answered", call |-> ask[r].call, read |-> NoRow,
                               answer |-> IF ask[r].answer = NoAnswer THEN code
                                          ELSE ask[r].answer]]

\* What the call asks the registry to hold, with a replica count.
Asked(r, limited, network, n) ==
    [image |-> ask[r].call.image, limited |-> limited, replicas |-> n,
     labels |-> ask[r].call.labels,
     network |-> IF ask[r].call.network # NoNetwork THEN ask[r].call.network ELSE network]

--------------------------------------------------------------------------------

Ask(r) ==
    /\ ask[r].phase = "idle"
    /\ \E call \in Calls :
          ask' = [ask EXCEPT ![r] = [Unasked EXCEPT !.phase = "called", !.call = call]]
    /\ UNCHANGED functions

\* The look-up that lets the call go on; one that fails reads nothing.
Read(r) ==
    /\ ask[r].phase = "called"
    /\ \E row \in {NoRow} \cup {functions[s] : s \in DOMAIN functions \cap {Service(r)}} :
          /\ Op(r) = "deploy" => row = NoRow
          /\ Op(r) \notin {"deploy", "build"} => row # NoRow
          /\ ask' = [ask EXCEPT ![r].phase = "read", ![r].read = row]
    /\ UNCHANGED functions

\* The look-up that ends it.
Refuse(r) ==
    /\ ask[r].phase = "called"
    /\ \/ Op(r) = "deploy" /\ Registered(r) /\ Answered(r, 409)
       \/ Op(r) \notin {"deploy", "build"} /\ Answered(r, 404)
    /\ UNCHANGED functions

Register(r) ==
    /\ ask[r].phase = "read"
    /\ Op(r) \in {"deploy", "build"} /\ ask[r].read = NoRow /\ ~Registered(r)
    /\ functions' = [s \in DOMAIN functions \cup {Service(r)} |->
                       IF s # Service(r) THEN functions[s]
                       ELSE Asked(r, ask[r].call.limited, OwnNetwork[s], 1)]
    /\ Answered(r, 202)

Modify(r) ==
    LET read == ask[r].read
    IN  /\ ask[r].phase = "read"
        /\ Op(r) \in {"update", "build"} /\ read # NoRow /\ Registered(r)
        /\ functions' = [functions EXCEPT ![Service(r)] =
              Asked(r, ask[r].call.limited \/ read.limited,
                    IF Op(r) = "update" THEN read.network ELSE OwnNetwork[Service(r)],
                    read.replicas)]
        /\ Answered(r, 202)

Scale(r) ==
    /\ ask[r].phase = "read"
    /\ Op(r) = "scale" /\ Registered(r)
    /\ functions' = [functions EXCEPT ![Service(r)].replicas = ask[r].call.target]
    /\ Answered(r, 202)

\* A delete is answered once its network is cleaned up, too.
Remove(r) ==
    /\ ask[r].phase = "read"
    /\ Op(r) = "delete" /\ Registered(r)
    /\ functions' = [s \in DOMAIN functions \ {Service(r)} |-> functions[s]]
    /\ ask' = [ask EXCEPT ![r].phase = "settled"]

\* An invocation may wake its function, and goes on all the same when it cannot.
Settle(r) ==
    /\ ask[r].phase = "read"
    /\ Op(r) \in {"invoke", "async"}
    /\ \/ UNCHANGED functions
       \/ Registered(r) /\ functions' = [functions EXCEPT ![Service(r)].replicas = 1]
    /\ ask' = [ask EXCEPT ![r].phase = "settled"]

\* An asynchronous invocation is answered before it is carried out.
Accept(r) ==
    /\ ask[r].phase = "settled" /\ Op(r) = "async" /\ ask[r].answer = NoAnswer
    /\ ask' = [ask EXCEPT ![r].answer = 202]
    /\ UNCHANGED functions

Complete(r) ==
    /\ ask[r].phase = "settled"
    /\ \/ Op(r) = "delete" /\ Answered(r, 202)
       \/ Op(r) \in {"invoke", "async"} /\ \E code \in {200, 500, 504} : Answered(r, code)
    /\ UNCHANGED functions

Fail(r) ==
    /\ ask[r].phase = "read"
    /\ Answered(r, 500)
    /\ UNCHANGED functions

\* The gateway stops: the calls under way are never answered, or were already.
Lose ==
    /\ ask' = [r \in Requests |->
                 IF ask[r].phase \in {"idle", "answered"} THEN ask[r]
                 ELSE [phase |-> "answered", call |-> ask[r].call, read |-> NoRow,
                       answer |-> ask[r].answer]]
    /\ UNCHANGED functions

Turn(r) ==
    \/ Ask(r) \/ Read(r) \/ Refuse(r)
    \/ Register(r) \/ Modify(r) \/ Scale(r) \/ Remove(r) \/ Settle(r)
    \/ Accept(r) \/ Complete(r) \/ Fail(r)

Next == (\E r \in Requests : Turn(r)) \/ Lose

Spec == Init /\ [][Next]_<<functions, ask>>
================================================================================
