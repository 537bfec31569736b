--------------------------- MODULE MCNetworkReconciler ---------------------------
(***************************************************************************)
(* Instance of NetworkReconciler for TLC: f on its own network nf or on    *)
(* the shared nx, g on the shared nx.                                      *)
(***************************************************************************)
EXTENDS NetworkReconciler, TLC

CONSTANTS f, g, nf, ng, nx, v1, r1, r2

MCServices == {f, g}
MCNetworks == {nf, ng, nx}
MCImages   == {v1}
MCRequests == {r1, r2}
MCCreators == MCRequests \cup MCServices
MCOwnNetwork == f :> nf @@ g :> ng

MkCall(op, s, network) ==
    [op |-> op, service |-> s, image |-> v1, limited |-> FALSE,
     network |-> network, labels |-> OwnLabels(s), target |-> 0]

MCCalls == {MkCall("deploy", f, NoNetwork), MkCall("deploy", g, nx),
            MkCall("delete", f, NoNetwork), MkCall("delete", g, NoNetwork),
            MkCall("invoke", g, NoNetwork), MkCall("scale", g, NoNetwork)}

RowOn(s, network) ==
    [image |-> v1, limited |-> FALSE, network |-> network, labels |-> OwnLabels(s),
     replicas |-> 1]

MCInitialRows == {f :> RowOn(f, nf), f :> RowOn(f, nx) @@ g :> RowOn(g, nx)}
================================================================================
