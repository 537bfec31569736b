--------------------------- MODULE LifecycleRefinement ---------------------------
(***************************************************************************)
(* FunctionLifecycle implements FunctionRegistry: what the store and the   *)
(* clients see of a handler is one look-up, at most one write and one      *)
(* answer, however its engine calls fare and interleave.                   *)
(***************************************************************************)
EXTENDS FunctionLifecycle

\* The labels of a handler that will not write any more.
Settled == {"netinspect", "disconnect", "netreinspect", "netremove",
            "wait", "accept", "route", "forward"}

\* Where a handler at this label stands with the registry.
Phase(label) ==
    IF label = "idle" THEN "idle"
    ELSE IF label = "lookup" THEN "called"
    ELSE IF label = "done" THEN "answered"
    ELSE IF label \in Settled THEN "settled"
    ELSE "read"

Asks ==
    [r \in Requests |-> [phase |-> Phase(pc[r]), call |-> req[r].call,
                         read |-> req[r].row, answer |-> req[r].answer]]

Registry == INSTANCE FunctionRegistry WITH functions <- rows, ask <- Asks

\* Every behaviour of the handlers, with crashes, failing calls and clients that hang
\* up, is one the registry allows.  In particular a call answered with an error (409,
\* 404, 500) has left the store as it was, an accepted one has written exactly once
\* and from the row it read, and nothing is written for a call after its answer.
RefinesRegistry == Registry!Spec
================================================================================
