------------------------------ MODULE FunctionStore ------------------------------
(***************************************************************************)
(* The functions table of the SQLite store (pkg/store/store.go).  Every    *)
(* operation is one SQL statement and therefore atomic; name is UNIQUE.    *)
(* A row keeps what the lifecycle of a function depends on; the columns    *)
(* the gateway only copies through (environment, secrets, debug) are left  *)
(* out, the labels column is reduced to the labels that identify           *)
(* containers, and the limits column to whether limits are set.            *)
(***************************************************************************)
EXTENDS FaasTypes

CONSTANT NoRow           \* what GetFunction's error stands for

VARIABLE rows            \* service -> row, for the services that have one

ASSUME NoRowAssumption == NoRow \notin Row

StoreTypeOK ==
    /\ DOMAIN rows \subseteq Services
    /\ \A s \in DOMAIN rows : rows[s] \in Row

Stored(s) == s \in DOMAIN rows

\* GetFunction: the callers treat "no such row" and a failed query alike.
GetFunction(s) == IF Stored(s) THEN rows[s] ELSE NoRow

\* INSERT: violates UNIQUE when the row exists.
CreateFunction(s, row) ==
    /\ ~Stored(s)
    /\ rows' = [t \in DOMAIN rows \cup {s} |-> IF t = s THEN row ELSE rows[t]]

\* UPDATE of every column, the replica count included.
UpdateFunction(s, row) == Stored(s) /\ rows' = [rows EXCEPT ![s] = row]

UpdateReplicas(s, n) == Stored(s) /\ rows' = [rows EXCEPT ![s].replicas = n]

DeleteFunction(s) ==
    Stored(s) /\ rows' = [t \in DOMAIN rows \ {s} |-> rows[t]]
================================================================================
