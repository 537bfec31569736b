------------------------------- MODULE MCAdmission -------------------------------
(* Instance of Admission for TLC. *)
EXTENDS Admission, TLC

CONSTANTS r1, r2, r3, k1, k2

MCRequests == {r1, r2, r3}
MCKeys     == {k1, k2}

\* Those that reach the manager or the limiter, once each.
MCKinds ==
    {[op |-> "login", cred |-> "good"], [op |-> "logout", cred |-> "bearer"],
     [op |-> "logout", cred |-> "good"]} \cup
    {[op |-> "other", cred |-> c] : c \in {"good", "bad", "bearer"}}

Symmetry == Permutations(Requests) \cup Permutations(Keys)
================================================================================
