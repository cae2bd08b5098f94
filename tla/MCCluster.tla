------------------------------ MODULE MCCluster ------------------------------
(* Instances of Cluster for TLC: a path whose key is nearest to NearServer. *)
EXTENDS Cluster, TLC

CONSTANTS NearServer

RankOf == [p \in Path |-> [s \in Server |-> IF s = NearServer THEN 0 ELSE 1]]
=============================================================================
