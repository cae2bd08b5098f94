----------------------------- MODULE MCNamespace -----------------------------
(* Instances of Namespace for TLC: a directory and the file below it. *)
EXTENDS Namespace, TLC

CONSTANTS TheDir, TheFile

ChildrenOf == [p \in Path |-> IF p = TheDir THEN Path \cap {TheFile} ELSE {}]

Symmetric == {p @@ q : p \in Permutations(Thread), q \in Permutations(Mount)}
=============================================================================
