----------------------------- MODULE MCAttrCache -----------------------------
(* Instances of AttrCache for TLC: a directory and, where the instance has   *)
(* it, the file below it.                                                    *)
EXTENDS AttrCache, TLC

CONSTANTS TheDir, TheFile

ChildrenOf == [p \in Path |-> IF p = TheDir THEN Path \cap {TheFile} ELSE {}]

AllOps == OpName

Symmetric == {p @@ q : p \in Permutations(Thread), q \in Permutations(Time)}
=============================================================================
