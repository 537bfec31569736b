------------------------------ MODULE MCReplicaPlan ------------------------------
\* Instance of ReplicaPlanList for TLC.
EXTENDS ReplicaPlanList

MCIndexes == {NoIndex, 0, 1, 2}
================================================================================
