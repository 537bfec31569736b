------------------------------ MODULE ReplicaPlan ------------------------------
(***************************************************************************)
(* The pure part of DockerProvider.ScaleFunction: which of the containers  *)
(* listed for a function have to go and which replica indices have to be   *)
(* created to reach a target (pkg/provider/docker_provider.go,             *)
(* buildReplicaScalePlan).                                                 *)
(*                                                                         *)
(* The plan is stated on the set of listed containers.  ReplicaPlanList    *)
(* translates the Go loops over the list; that the two agree is checked by *)
(* its run and proved.  A container summary is a record                    *)
(*    [id, state, replica, created]                                        *)
(* where replica is what containerReplicaIndex finds in the label or in    *)
(* the name, or NoIndex.                                                   *)
(***************************************************************************)
EXTENDS Integers, FiniteSets

NoIndex == -1

\* The states the Docker engine reports.
ContainerStates ==
    {"created", "running", "paused", "restarting", "removing", "exited", "dead"}

\* isContainerStaleState: created, exited and dead, in the state or the status.
IsStale(state) == state \in {"created", "exited", "dead"}

\* isContainerRunningState: a paused container's status reads "Up ... (Paused)".
IsRunning(state) == state \in {"running", "paused"}

\* The order of selectReplicaKeeper: running first, then the newest.
Preferred(a, b) ==
    \/ IsRunning(a.state) /\ ~IsRunning(b.state)
    \/ IsRunning(a.state) = IsRunning(b.state) /\ a.created > b.created

IsKeeper(k, group) == k \in group /\ \A c \in group : ~Preferred(c, k)

Keeper(group) == CHOOSE k \in group : IsKeeper(k, group)

Live(listed) == {c \in listed : ~IsStale(c.state)}

Group(listed, i) == {c \in Live(listed) : c.replica = i}

Indices(listed) == {c.replica : c \in Live(listed)} \ {NoIndex}

Kept(listed) == {Keeper(Group(listed, i)) : i \in Indices(listed)}

\* Every stale container goes; of the others, the duplicates of an index, the
\* indices from the target up and, when scaling to zero, those without an index.
ScalePlan(listed, target) ==
    [ stale   |-> listed \ Live(listed),
      active  |-> {c \in Live(listed) :
                     IF c.replica = NoIndex THEN target = 0
                     ELSE c \notin Kept(listed) \/ c.replica >= target},
      missing |-> (0 .. target - 1) \ Indices(listed) ]
================================================================================
