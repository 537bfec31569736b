----------------------------- MODULE ReplicaPlanList -----------------------------
(***************************************************************************)
(* buildReplicaScalePlan and selectReplicaKeeper as the code runs them,    *)
(* over the list the engine returns, and ScaleFunction as one step that    *)
(* carries the plan out.  What ReplicaPlan says of sets is checked against *)
(* these.  A list may hold several containers of one replica index: those  *)
(* an earlier version, or a hand, created with the function's label.       *)
(***************************************************************************)
EXTENDS ReplicaPlan, Sequences, Functions

CONSTANTS States, Indexes, Ages, MaxListed, MaxTarget

ASSUME ReplicaPlanListAssumption ==
    /\ States \subseteq ContainerStates
    /\ Indexes \subseteq Nat \cup {NoIndex}
    /\ Ages \subseteq Nat
    /\ MaxListed \in Nat /\ MaxTarget \in Nat

VARIABLES listed,        \* the containers, in the engine's order
          target,        \* the replicas asked for
          rounds         \* how often the function was scaled to the target

vars == <<listed, target, rounds>>

\* The elements of list that are in S, in their order: what a loop over list appends.
Appended(list, S) ==
    LET kept[k \in 0 .. Len(list)] ==
          IF k = 0 THEN <<>>
          ELSE IF list[k] \in S THEN Append(kept[k - 1], list[k]) ELSE kept[k - 1]
    IN  kept[Len(list)]

\* Mutants of SelectReplicaKeeper: the newest, running or not; a running one, however old.
KeeperNewest(group) ==
    LET keeper[k \in 1 .. Len(group)] ==
          IF k # 1 /\ group[k].created <= keeper[k - 1].created THEN keeper[k - 1] ELSE group[k]
    IN  keeper[Len(group)]
KeeperRunning(group) ==
    LET keeper[k \in 1 .. Len(group)] ==
          IF k # 1 /\ (IsRunning(group[k].state) => IsRunning(keeper[k - 1].state))
          THEN keeper[k - 1] ELSE group[k]
    IN  keeper[Len(group)]

\* The first of the group, unless a later one is better than the best so far.
SelectReplicaKeeper(group) ==
    LET keeper[k \in 1 .. Len(group)] ==
          IF k # 1 /\ ~Preferred(group[k], keeper[k - 1]) THEN keeper[k - 1] ELSE group[k]
    IN  keeper[Len(group)]

\* sort.Ints of a list without repetitions.
Ascending(S) ==
    CHOOSE s \in [1 .. Cardinality(S) -> S] : \A j, k \in DOMAIN s : j < k => s[j] < s[k]

\* Mutant of Excess: the target index itself is kept.
ExcessAbove(indices, n) == Ascending({i \in indices : i > n})

Excess(indices, n) == Ascending({i \in indices : i >= n})

\* Mutant of Missing: the loop starts at 1.
MissingFromOne(indices, n) == Appended([k \in 1 .. n |-> k], Nat \ indices)

Missing(indices, n) == Appended([k \in 1 .. n |-> k - 1], Nat \ indices)

BuildReplicaScalePlan(list, n) ==
    LET S          == Range(list)
        live       == Appended(list, {c \in S : ~IsStale(c.state)})
        indices    == {c.replica : c \in Range(live)} \ {NoIndex}
        keeper     == [i \in indices |->
                          SelectReplicaKeeper(Appended(live, {c \in S : c.replica = i}))]
        unindexed  == Appended(live, {c \in S : n = 0 /\ c.replica = NoIndex})
        duplicates == Appended(live, {c \in Range(live) :
                          c.replica # NoIndex /\ c.id # keeper[c.replica].id})
        excess     == Excess(indices, n)
    IN  [ stale   |-> Appended(list, {c \in S : IsStale(c.state)}),
          active  |-> unindexed \o duplicates \o [k \in DOMAIN excess |-> keeper[excess[k]]],
          missing |-> Missing(indices, n) ]

Plan == BuildReplicaScalePlan(listed, target)

\* What createContainer starts for index i: newer than everything listed.
NewReplica(i) == [id |-> <<"new", i>>, state |-> "running", replica |-> i, created |-> 100]

\* A container's id is its place in the first list.
WithIds(list) ==
    [k \in DOMAIN list |-> [id |-> <<"old", k>>, state |-> list[k].state,
                            replica |-> list[k].replica, created |-> list[k].created]]

Init ==
    /\ target \in 0 .. MaxTarget
    /\ rounds = 0
    /\ \E n \in 0 .. MaxListed :
          \E list \in [1 .. n -> [state : States, replica : Indexes, created : Ages]] :
             listed = WithIds(list)

\* ScaleFunction: remove the stale, remove the active, create the missing.
ScaleFunction ==
    /\ rounds < 2
    /\ LET removed == Range(Plan.stale) \cup Range(Plan.active)
           created == [k \in DOMAIN Plan.missing |-> NewReplica(Plan.missing[k])]
       IN  listed' = created \o Appended(listed, Range(listed) \ removed)
    /\ rounds' = rounds + 1
    /\ UNCHANGED target

Done == rounds = 2 /\ UNCHANGED vars

Next == ScaleFunction \/ Done

Spec == Init /\ [][Next]_vars

--------------------------------------------------------------------------------

Containers == Range(listed)

\* One scale-up or scale-down is enough: every index below the target is there once
\* and is not stale, and no other index is left.
PlanReachesTarget ==
    rounds > 0 =>
       /\ \A c \in Containers : ~IsStale(c.state) /\ c.replica < target
       /\ \A i \in 0 .. target - 1 : Cardinality(Group(Containers, i)) = 1
       /\ target = 0 => Containers = {}

\* Scaling again to the same target finds nothing to do.
PlanIsStable ==
    rounds > 0 => Plan = [stale |-> <<>>, active |-> <<>>, missing |-> <<>>]

\* Of several containers of an index the code keeps one that is running if any is,
\* and the newest of those: a loop over pairs finds the best of the group.
KeepsTheBest ==
    [][\A i \in Indices(Containers) : i < target =>
          \E k \in Group(Containers, i) : k \in Containers' /\ IsKeeper(k, Group(Containers, i))]_vars

\* The lists of the code are the sets of ScalePlan, without repetition; among
\* equally good containers of an index the two may keep different ones.
AgreesWithScalePlan ==
    LET sets  == ScalePlan(Containers, target)
        tied  == \E c, d \in Containers : c # d /\ c.replica = d.replica
                    /\ IsRunning(c.state) = IsRunning(d.state) /\ c.created = d.created
    IN  /\ Range(Plan.stale) = sets.stale
        /\ Range(Plan.missing) = sets.missing
        /\ IsInjective(Plan.active)
        /\ Len(Plan.active) = Cardinality(sets.active)
        /\ tied \/ Range(Plan.active) = sets.active
================================================================================
