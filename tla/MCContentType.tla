---------------------------- MODULE MCContentType ----------------------------
(* An instance of ContentType for TLC, with ints of three bits. *)
EXTENDS ContentType, TLC

\* No content type; the media type text/plain (its letter is a key); and what
\* has one of the four fields, behind another word.
ForeignTypes ==
  {<<>>, <<Key("t")>>, <<Key("other"), Key("u"), Number(3)>>,
   <<Number(3), Key("t"), Number(2)>>}

\* The times around the largest int.
Times == {3, 4}

StrayWords == {Key("m")}

Symmetric == Permutations(Thread)
=============================================================================
