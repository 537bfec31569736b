-------------------------------- MODULE MCSecrets --------------------------------
(* Instance of Secrets for TLC. *)
EXTENDS Secrets, TLC

CONSTANTS r1, r2, r3, r4, n1, n2, v1, v2, c1, c2

MCRequests == {r1, r2, r3, r4}
MCNames    == {n1, n2}
MCValues   == {v1, v2}
MCContents == {c1, c2, Empty}
MCDecode   == v1 :> c1 @@ v2 :> c2

\* Every call on the first secret, and deployments and a delete of both.
MCCalls ==
    {[op |-> "create", name |-> n1, value |-> v1], [op |-> "update", name |-> n1, value |-> v2]} \cup
    {[op |-> "delete", name |-> n] : n \in Names} \cup
    {[op |-> "deploy", secrets |-> s] : s \in {<<n1>>, <<n1, n2>>, <<n2, n1>>}}

Symmetry == Permutations(Requests)
================================================================================
