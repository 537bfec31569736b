-------------------------------- MODULE FaasTypes --------------------------------
(***************************************************************************)
(* The data the gateway, the provider and the store pass to each other     *)
(* (pkg/types/types.go), reduced to what the lifecycle of a function       *)
(* depends on.                                                             *)
(***************************************************************************)
EXTENDS Integers

CONSTANTS Services,      \* function names
          Networks,      \* Docker network names
          Images,        \* image references
          MaxReplicas    \* bound: replica counts are 0 .. MaxReplicas

ASSUME MaxReplicasAssumption == MaxReplicas \in Nat \ {0}

Replicas == 0 .. MaxReplicas - 1

\* The labels of a deployment, reduced to the function and the replica the container of
\* each index is labelled with in the end.  createContainer sets both and then copies the
\* client's labels over its own, so a client's labels can name anything.
LabelMaps == [Replicas -> Services \X Replicas]

\* They do not, unless the client sets one of the two.
OwnLabels(s) == [i \in Replicas |-> <<s, i>>]

\* FunctionDeployment: limited is whether resource limits are requested.
Deployment == [service : Services, image : Images, limited : BOOLEAN,
               network : Networks, labels : LabelMaps]

\* FunctionMetadata, a row of the store.
Row == [image : Images, limited : BOOLEAN, network : Networks,
        labels : LabelMaps, replicas : 0 .. MaxReplicas]
================================================================================
