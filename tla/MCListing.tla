------------------------------ MODULE MCListing ------------------------------
(* An instance of Listing for TLC: a directory, one below it, and one whose  *)
(* name with its braces spells the name of the first.                        *)
EXTENDS Listing, TLC

CONSTANTS TheDir, TheBelow, TheBraced, ThePlain1, ThePlain2, TheDeep, TheHidden

ParentOf == ThePlain1 :> TheDir @@ ThePlain2 :> TheDir @@ TheDeep :> TheBelow
              @@ TheHidden :> TheBraced

AboveOf == [n \in Name |-> IF n = TheDeep THEN TheDir ELSE None]

SpelledOf == [d \in Dir |-> IF d = TheBraced THEN TheDir ELSE d]
=============================================================================
