------------------------------- MODULE MCLifecycle -------------------------------
(***************************************************************************)
(* Instances of FunctionLifecycle for TLC: the services f and g on their   *)
(* own networks nf and ng, a third network nx, and the sets of calls of    *)
(* the runs.                                                               *)
(***************************************************************************)
EXTENDS LifecycleProperties, TLC

CONSTANTS f, g, nf, ng, nx, v1, v2, r1, r2, r3, r4

MCServices  == {f, g}
MCNetworks  == {nf, ng, nx}
MCImages    == {v1, v2}
OneService  == {f}
TwoNetworks == {nf, nx}
TwoRequests   == {r1, r2}
ThreeRequests == {r1, r2, r3}
FourRequests  == {r1, r2, r3, r4}
MCOwnNetwork  == f :> nf @@ g :> ng
FOwnNetwork   == f :> nf

TwoCreators   == TwoRequests \cup Services
ThreeCreators == ThreeRequests \cup Services
FourCreators  == FourRequests \cup Services

RequestSymmetry == Permutations(Requests)

MkCall(op, s, image, limited, network, n) ==
    [op |-> op, service |-> s, image |-> image, limited |-> limited,
     network |-> network, labels |-> OwnLabels(s), target |-> n]

\* Calls that need no more than a name, and those that carry a deployment.
Plain(op, s)  == MkCall(op, s, v1, FALSE, NoNetwork, 0)
Scale(s, n)   == MkCall("scale", s, v1, FALSE, NoNetwork, n)
Put(op, s, image) == MkCall(op, s, image, FALSE, NoNetwork, 0)

Empty == [s \in {} |-> NoRow]

RowOf(s, image, network, n) ==
    [image |-> image, limited |-> FALSE, network |-> network, labels |-> OwnLabels(s),
     replicas |-> n]

NothingDeployed == {Empty}
ScaledToZero    == {f :> RowOf(f, v1, nf, 0)}
AnyScale        == {Empty} \cup {f :> RowOf(f, v1, nf, n) : n \in 0 .. MaxReplicas}
BothDeployed    == {f :> RowOf(f, v1, nf, 1) @@ g :> RowOf(g, v1, ng, 1)}
RaceFrom        == NothingDeployed \cup ScaledToZero \cup BothDeployed

\* One after another: every operation on f, onto its own or the third network.
SerialCalls ==
    {Plain(op, f) : op \in {"delete", "invoke", "async"}} \cup
    {Scale(f, n) : n \in 0 .. MaxReplicas} \cup
    {MkCall(op, f, v2, FALSE, n, 0) : op \in {"deploy", "update", "build"},
                                      n \in {NoNetwork, nx}}

\* Retried after faults: what a client sends again until it is accepted.
RetriedCalls ==
    {Plain("delete", f), Plain("invoke", f), Scale(f, 0), Scale(f, 2),
     Put("deploy", f, v2), Put("update", f, v2), Put("build", f, v2)}

\* A deploy of f with labels of g's first replica.
Mislabelled == [Put("deploy", f, v2) EXCEPT !.labels = [i \in Replicas |-> <<g, 0>>]]

\* Concurrent: every operation that changes containers on f, and some on g.
RacingCalls ==
    {Plain("delete", f), Scale(f, 2), Put("deploy", f, v2), Put("update", f, v2),
     Plain("invoke", f), Plain("delete", g), Put("deploy", g, v2), Mislabelled}

Deploys      == {Put("deploy", f, v2)}
LimitedCalls == {MkCall("deploy", f, v1, TRUE, NoNetwork, 0), Scale(f, 2)}
RoutedCalls  == {Scale(f, 2), Plain("invoke", f)}
OneDeployed  == {f :> RowOf(f, v1, nf, 1)}
================================================================================
