------------------------------- MODULE Listing -------------------------------
(***************************************************************************)
(* How a directory is listed (directory.cpp; opendir, readdir, releasedir  *)
(* and rmdir of filesystem_operations.cpp).  A listing is a query for the  *)
(* documents whose names match a regular expression.  Its cursor comes in  *)
(* batches, while other handlers and mounts upload and delete, and a name  *)
(* has a document for each of its versions.                                *)
(***************************************************************************)
EXTENDS Naturals, FiniteSets, Sequences, SequencesExt

CONSTANTS
  Lister,      \* FUSE worker threads
  Dir,         \* directories
  Name,        \* names of other documents
  Parent,      \* Parent[n]: the directory that n is directly below
  Spelled,     \* Spelled[d]: the directory whose name matches pathregex() of d
  Above,       \* Above[n]: the directory that Parent[n] is directly below
  None,        \* no directory, no result
  BatchSize,   \* documents in a batch of the cursor
  MaxDocs,     \* bound: documents at a time
  MaxUploads,  \* bound: uploads in a behaviour
  MaxCalls     \* bound: queries in a behaviour

ASSUME ConstantsAssumption ==
  /\ Parent \in [Name -> Dir] /\ Above \in [Name -> Dir \cup {None}]
  /\ Spelled \in [Dir -> Dir]
  /\ None \notin Dir \cup Name
  /\ BatchSize \in Nat \ {0} /\ {MaxDocs, MaxUploads, MaxCalls} \subseteq Nat

VARIABLES
  docs,     \* the documents below the directories; these themselves are there
  uploads,  \* source of _id
  lister,   \* lister[l]: the handle and the listing of l
  calls     \* queries so far

vars == <<docs, uploads, lister, calls>>

Doc == [id: Nat, name: Name]

Handle ==
  [dir: Dir \cup {None}, op: {"none", "list", "isEmpty"},
   batch: SUBSET Doc, seen: SUBSET Doc, lEntries: SUBSET Name, filled: Seq(Name),
   result: {None, "listed", "empty", "not empty", "EIO"},
   stayed: SUBSET Doc, met: SUBSET Name]

Closed ==
  [dir |-> None,    \* lInfo->directory
   op |-> "none",   \* the handler at work: readdir, or isEmpty for rmdir
   batch |-> {},    \* documents fetched and not yet looked at
   seen |-> {},     \* documents fetched
   lEntries |-> {},
   filled |-> <<>>, \* what filler() was given
   result |-> None, \* of the last readdir or isEmpty
   \* History, read by properties only:
   stayed |-> {},   \* documents that have been there since the query
   met |-> {}]      \* names that have had a document since then

Init ==
  /\ docs = {} /\ uploads = 0 /\ calls = 0
  /\ lister = [l \in Lister |-> Closed]

-----------------------------------------------------------------------------
(* The query *)

\* Mutant of Matches: the expression is not anchored at the end.
MatchesBelow(n, d) == Parent[n] = Spelled[d] \/ Above[n] = Spelled[d]

\* "^" + pathregex() + "/[^/]*$".  Braces are not escaped: {2} repeats what is
\* before it, and the expression spells the name of another directory.
Matches(n, d) == Parent[n] = Spelled[d]

\* What the cursor of l may return next.
Ahead(l) == {d \in docs : Matches(d.name, lister[l].dir)} \ lister[l].seen

\* The server fills a batch.  It need not return what was uploaded after the
\* query, but it does return what has been there all the time.
Fetched(l) ==
  {S \in SUBSET Ahead(l) :
     /\ Cardinality(S) <= BatchSize
     /\ S = {} => Ahead(l) \cap lister[l].stayed = {}}

-----------------------------------------------------------------------------
(* Handlers *)

\* opendir(): the handle's object, for a directory that exists.
Opendir(l) ==
  /\ lister[l].dir = None
  /\ \E d \in Dir : lister' = [lister EXCEPT ![l].dir = d]
  /\ UNCHANGED <<docs, uploads, calls>>

\* Mutant of Query: the set of entries belongs to the Directory object.
QueryAgain(l, op) ==
  /\ lister[l].dir # None /\ lister[l].op = "none" /\ calls < MaxCalls
  /\ calls' = calls + 1
  /\ lister' = [lister EXCEPT ![l] =
                  [Closed EXCEPT !.dir = lister[l].dir, !.op = op,
                                 !.lEntries = lister[l].lEntries,
                                 !.stayed = docs, !.met = {d.name : d \in docs}]]
  /\ UNCHANGED <<docs, uploads>>

\* readdir() or isEmpty() begins: Directory::list().  (rmdir() has a Directory
\* of its own, which lives like one that is opened for a single call.)
Query(l, op) ==
  /\ lister[l].dir # None /\ lister[l].op = "none" /\ calls < MaxCalls
  /\ calls' = calls + 1
  /\ lister' = [lister EXCEPT ![l] =
                  [Closed EXCEPT !.dir = lister[l].dir, !.op = op,
                                 !.stayed = docs, !.met = {d.name : d \in docs}]]
  /\ UNCHANGED <<docs, uploads>>

Done(l, result) ==
  [lister EXCEPT ![l].op = "none", ![l].batch = {}, ![l].result = result]

\* Mutant of More: what is left in the batch is taken for all there is.
MoreInBatch(l) ==
  /\ lister[l].op # "none" /\ lister[l].batch = {}
  /\ lister' = IF lister[l].seen # {}
               THEN Done(l, IF lister[l].op = "list" THEN "listed" ELSE "empty")
               ELSE LET S == CHOOSE S \in Fetched(l) : TRUE IN
                      IF S = {} THEN Done(l, "listed")
                      ELSE [lister EXCEPT ![l].batch = S, ![l].seen = S]
  /\ UNCHANGED <<docs, uploads, calls>>

\* The cursor's more(): the next batch, or the end.
More(l) ==
  /\ lister[l].op # "none" /\ lister[l].batch = {}
  /\ \E S \in Fetched(l) :
       lister' = IF S # {}
                 THEN [lister EXCEPT ![l].batch = S, ![l].seen = @ \cup S]
                 ELSE Done(l, IF lister[l].op = "list" THEN "listed" ELSE "empty")
  /\ UNCHANGED <<docs, uploads, calls>>

\* Directory::isEmpty: one document is enough.
NotEmpty(l) ==
  /\ lister[l].op = "isEmpty" /\ lister[l].batch # {}
  /\ lister' = Done(l, "not empty")
  /\ UNCHANGED <<docs, uploads, calls>>

\* Mutant of Next1: duplicates are not eliminated.
Next1All(l) ==
  /\ lister[l].op = "list"
  /\ \E d \in lister[l].batch :
       lister' = [lister EXCEPT ![l].batch = @ \ {d},
                                ![l].lEntries = @ \cup {d.name},
                                ![l].filled = Append(@, d.name)]
  /\ UNCHANGED <<docs, uploads, calls>>

\* Directory::list, the next document: its name is filled in if it is new.
Next1(l) ==
  /\ lister[l].op = "list"
  /\ \E d \in lister[l].batch :
       lister' = [lister EXCEPT
                    ![l].batch = @ \ {d},
                    ![l].lEntries = @ \cup {d.name},
                    ![l].filled = IF d.name \in lister[l].lEntries THEN @
                                  ELSE Append(@, d.name)]
  /\ UNCHANGED <<docs, uploads, calls>>

\* The name is cut off where that of the directory would end.  That may be
\* beyond the end of a name that is not below it; or the cursor fails.
Throws(l) ==
  /\ lister[l].op # "none"
  /\ lister' = Done(l, "EIO")
  /\ UNCHANGED <<docs, uploads, calls>>

\* releasedir()
Releasedir(l) ==
  /\ lister[l].dir # None /\ lister[l].op = "none"
  /\ lister' = [lister EXCEPT ![l] = Closed]
  /\ UNCHANGED <<docs, uploads, calls>>

-----------------------------------------------------------------------------
(* Other handlers and mounts *)

Upload(n) ==
  /\ uploads < MaxUploads /\ Cardinality(docs) < MaxDocs
  /\ uploads' = uploads + 1
  /\ docs' = docs \cup {[id |-> uploads + 1, name |-> n]}
  /\ lister' = [l \in Lister |->
                  IF lister[l].op = "none" THEN lister[l]
                  ELSE [lister[l] EXCEPT !.met = @ \cup {n}]]
  /\ UNCHANGED calls

Delete(d) ==
  /\ docs' = docs \ {d}
  /\ lister' = [l \in Lister |->
                  IF lister[l].op = "none" THEN lister[l]
                  ELSE [lister[l] EXCEPT !.stayed = @ \ {d}]]
  /\ UNCHANGED <<uploads, calls>>

-----------------------------------------------------------------------------
(* Specification *)

Next ==
  \/ \E l \in Lister :
       \/ Opendir(l) \/ Query(l, "list") \/ Query(l, "isEmpty")
       \/ More(l) \/ NotEmpty(l) \/ Next1(l) \/ Throws(l) \/ Releasedir(l)
  \/ \E n \in Name : Upload(n)
  \/ \E d \in docs : Delete(d)

Spec == Init /\ [][Next]_vars

-----------------------------------------------------------------------------
(* Properties *)

\* The types; every document that was fetched and is not in the batch any more
\* has its name among the entries, and those are what was filled in.
TypeOK ==
  /\ docs \subseteq Doc
  /\ uploads \in Nat /\ calls \in Nat
  /\ lister \in [Lister -> Handle]
  /\ \A l \in Lister :
       LET s == lister[l] IN
         /\ s.op # "none" => s.dir # None
         /\ s.batch \subseteq s.seen
         /\ s.lEntries = ToSet(s.filled)
         /\ s.op = "list" =>
              {d.name : d \in s.seen \ s.batch} = s.lEntries

Listed(l) == ToSet(lister[l].filled)

\* A name is listed once, however many versions it has and whichever of them
\* come in one batch (duplicates are eliminated over the whole cursor).
ListedOnce == \A l \in Lister : IsInjective(lister[l].filled)

\* What is listed was there while it was listed, and directly below the
\* directory.  Exempt are directories whose names have braces.
ListedWasThere ==
  \A l \in Lister :
    LET d == lister[l].dir IN
      d # None /\ Spelled[d] = d
        => \A n \in Listed(l) : n \in lister[l].met /\ Parent[n] = d

\* What stays in a directory while it is listed is listed, and no directory is
\* taken to be empty for which something stays below it, whatever else is
\* uploaded and deleted meanwhile.  Exempt are again names with braces.
StayersAreListed ==
  \A l \in Lister :
    LET s == lister[l]
        stayers == {d.name : d \in {e \in s.stayed : Parent[e.name] = s.dir}}
    IN  s.op = "none" /\ s.dir # None /\ Spelled[s.dir] = s.dir
          => /\ s.result = "listed" => stayers \subseteq Listed(l)
             /\ s.result = "empty" => stayers = {}

=============================================================================
