----------------------------- MODULE MCFileHandle -----------------------------
(* Instances of FileHandle for TLC. *)
EXTENDS FileHandle, TLC

Symmetric == Permutations(Handle) \cup Permutations(Reader)
=============================================================================
