----------------------------- MODULE ListingProofs -----------------------------
(***************************************************************************)
(* For any directories, names, documents, batches and listings at a time:  *)
(* what Directory::list lists, and what Directory::isEmpty takes to be     *)
(* empty, while documents are uploaded and deleted.                        *)
(***************************************************************************)
EXTENDS Listing, SequenceTheorems, TLAPS

-----------------------------------------------------------------------------
(* The entries *)

LEMMA ClosedType == Closed \in Handle
<1>1. <<>> \in Seq(Name)
  BY EmptySeq
<1> QED BY <1>1 DEF Closed, Handle

LEMMA ToSetAppend ==
  ASSUME NEW t \in Seq(Name), NEW n \in Name
  PROVE  ToSet(Append(t, n)) = ToSet(t) \cup {n}
<1>1. /\ Len(t) \in Nat /\ DOMAIN t = 1 .. Len(t)
      /\ DOMAIN Append(t, n) = 1 .. Len(t) + 1
      /\ Append(t, n)[Len(t) + 1] = n
      /\ \A i \in 1 .. Len(t) : Append(t, n)[i] = t[i]
  BY AppendProperties, LenProperties
<1>2. \A i \in 1 .. Len(t) + 1 : i \in 1 .. Len(t) \/ i = Len(t) + 1
  BY <1>1
<1> QED BY <1>1, <1>2 DEF ToSet

LEMMA InjectiveAppend ==
  ASSUME NEW t \in Seq(Name), NEW n \in Name, IsInjective(t), n \notin ToSet(t)
  PROVE  IsInjective(Append(t, n))
<1>1. /\ Len(t) \in Nat /\ DOMAIN t = 1 .. Len(t)
      /\ DOMAIN Append(t, n) = 1 .. Len(t) + 1
      /\ Append(t, n)[Len(t) + 1] = n
      /\ \A i \in 1 .. Len(t) : Append(t, n)[i] = t[i]
  BY AppendProperties, LenProperties
<1>2. \A i \in 1 .. Len(t) : t[i] # n
  BY <1>1 DEF ToSet
<1>3. \A i \in 1 .. Len(t) + 1 : i \in 1 .. Len(t) \/ i = Len(t) + 1
  BY <1>1
<1> QED BY <1>1, <1>2, <1>3 DEF IsInjective

-----------------------------------------------------------------------------
(* The inductive invariant *)

\* TypeOK of one handle s.
Shape(s) ==
  /\ s \in Handle
  /\ s.op # "none" => s.dir # None
  /\ s.batch \subseteq s.seen
  /\ s.lEntries = ToSet(s.filled)
  /\ s.op = "list" => {d.name : d \in s.seen \ s.batch} = s.lEntries

\* Where a listing at work has got to, the documents being D: what has stayed is
\* there, what is there has been met, and isEmpty has looked at nothing yet.
Progress(s, D) ==
  s.op # "none" =>
    /\ s.result = None
    /\ s.stayed \subseteq D
    /\ \A d \in D : d.name \in s.met
    /\ \A d \in s.seen : d.name \in s.met /\ Matches(d.name, s.dir)
    /\ s.op = "isEmpty" => s.batch = s.seen /\ s.lEntries = {}

\* What it has listed so far, and what it has missed when it is over.
Outcome(s) ==
  /\ s.dir = None => s = Closed
  /\ IsInjective(s.filled)
  /\ \A n \in s.lEntries : n \in s.met /\ Matches(n, s.dir)
  /\ s.op = "none" =>
       \A d \in s.stayed : Matches(d.name, s.dir) =>
         /\ s.result = "listed" => d.name \in s.lEntries
         /\ s.result # "empty"

LInv ==
  TypeOK /\ \A l \in Lister : Progress(lister[l], docs) /\ Outcome(lister[l])

LEMMA Shapes ==
  ASSUME TypeOK, NEW l \in Lister
  PROVE  Shape(lister[l])
BY DEF TypeOK, Shape

\* A step of one lister, x being its handle afterwards.
LEMMA Moves ==
  ASSUME LInv, NEW l \in Lister, NEW x, lister' = [lister EXCEPT ![l] = x],
         UNCHANGED <<docs, uploads>>, calls' \in Nat,
         Shape(x), Progress(x, docs), Outcome(x)
  PROVE  LInv'
<1>1. /\ lister'[l] = x /\ \A k \in Lister \ {l} : lister'[k] = lister[k]
      /\ lister' \in [Lister -> Handle]
  BY DEF LInv, TypeOK, Shape
<1>2. \A k \in Lister : Shape(lister'[k]) /\ Progress(lister'[k], docs) /\ Outcome(lister'[k])
  BY <1>1, Shapes DEF LInv
<1> QED BY <1>1, <1>2 DEF LInv, TypeOK, Shape

-----------------------------------------------------------------------------
(* Handlers *)

LEMMA OpendirStep ==
  ASSUME LInv, NEW l \in Lister, Opendir(l)
  PROVE  LInv'
<1>1. PICK d \in Dir : lister' = [lister EXCEPT ![l].dir = d]
  BY DEF Opendir
<1> DEFINE x == [Closed EXCEPT !.dir = d]
<1>2. lister' = [lister EXCEPT ![l] = x]
  BY <1>1 DEF Opendir, LInv, Outcome, TypeOK
<1>3. /\ x \in Handle /\ x.dir = d /\ x.op = "none" /\ x.batch = {} /\ x.seen = {}
      /\ x.lEntries = {} /\ x.filled = <<>> /\ x.stayed = {}
  BY ClosedType DEF Closed, Handle
<1> HIDE DEF x
<1>4. ToSet(<<>>) = {} /\ IsInjective(<<>>)
  BY DEF ToSet, IsInjective
<1>5. d # None
  BY ConstantsAssumption
<1>6. Shape(x) /\ Progress(x, docs) /\ Outcome(x)
  BY <1>3, <1>4, <1>5 DEF Shape, Progress, Outcome
<1> QED BY <1>2, <1>6, Moves DEF Opendir, LInv, TypeOK

LEMMA QueryStep ==
  ASSUME LInv, NEW l \in Lister, NEW op \in {"list", "isEmpty"}, Query(l, op)
  PROVE  LInv'
<1> DEFINE d == lister[l].dir
           m == {e.name : e \in docs}
           x == [Closed EXCEPT !.dir = d, !.op = op, !.stayed = docs, !.met = m]
<1>1. lister' = [lister EXCEPT ![l] = x] /\ UNCHANGED <<docs, uploads>> /\ d # None
  BY DEF Query
<1>2. d \in Dir \cup {None} /\ docs \subseteq Doc /\ m \subseteq Name /\ calls' \in Nat
      /\ \A e \in docs : e.name \in m
  <2>1. lister[l] \in Handle /\ docs \subseteq Doc /\ calls' \in Nat
    BY DEF LInv, TypeOK, Query
  <2> QED BY <2>1 DEF Handle, Doc
<1> HIDE DEF d, m
<1>3. /\ x \in Handle /\ x.dir = d /\ x.op = op /\ x.batch = {} /\ x.seen = {}
      /\ x.lEntries = {} /\ x.filled = <<>> /\ x.stayed = docs /\ x.met = m
      /\ x.result = None
  BY <1>2, ClosedType DEF Closed, Handle
<1> HIDE DEF x
<1>4. ToSet(<<>>) = {} /\ IsInjective(<<>>)
  BY DEF ToSet, IsInjective
<1>5. Shape(x) /\ Progress(x, docs) /\ Outcome(x)
  BY <1>1, <1>2, <1>3, <1>4 DEF Shape, Progress, Outcome
<1> QED BY <1>1, <1>2, <1>5, Moves

\* The listing is over: what may be said of its result decides.
LEMMA DoneStep ==
  ASSUME LInv, NEW l \in Lister, lister[l].op # "none",
         NEW result \in {"listed", "empty", "not empty", "EIO"},
         lister' = Done(l, result), UNCHANGED <<docs, uploads, calls>>,
         \A d \in lister[l].stayed : Matches(d.name, lister[l].dir) =>
           /\ result = "listed" => d.name \in lister[l].lEntries
           /\ result # "empty"
  PROVE  LInv'
<1> DEFINE s == lister[l]
           x == [s EXCEPT !.op = "none", !.batch = {}, !.result = result]
<1>1. lister' = [lister EXCEPT ![l] = x] /\ s \in Handle /\ Shape(s) /\ Outcome(s)
      /\ calls' \in Nat
  BY Shapes DEF Done, LInv, TypeOK
<1> HIDE DEF s
<1>2. /\ x \in Handle /\ x.dir = s.dir /\ x.op = "none" /\ x.batch = {}
      /\ x.seen = s.seen /\ x.lEntries = s.lEntries /\ x.filled = s.filled
      /\ x.stayed = s.stayed /\ x.met = s.met /\ x.result = result
  BY <1>1 DEF Handle
<1> HIDE DEF x
<1>3. Shape(x) /\ Progress(x, docs) /\ Outcome(x)
  BY <1>1, <1>2 DEF Shape, Progress, Outcome, s
<1> QED BY <1>1, <1>3, Moves

LEMMA MoreStep ==
  ASSUME LInv, NEW l \in Lister, More(l)
  PROVE  LInv'
<1> DEFINE s == lister[l]
<1>1. PICK S \in Fetched(l) :
        lister' = IF S # {} THEN [lister EXCEPT ![l].batch = S, ![l].seen = @ \cup S]
                  ELSE Done(l, IF s.op = "list" THEN "listed" ELSE "empty")
  BY DEF More
<1>2. /\ s.op # "none" /\ s.batch = {} /\ UNCHANGED <<docs, uploads, calls>>
      /\ s \in Handle /\ Shape(s) /\ Outcome(s) /\ Progress(s, docs) /\ calls' \in Nat
      /\ docs \subseteq Doc
  BY Shapes DEF More, LInv, TypeOK
<1>3. /\ S \subseteq docs /\ \A d \in S : Matches(d.name, s.dir)
      /\ S = {} => \A d \in docs : Matches(d.name, s.dir) /\ d \in s.stayed => d \in s.seen
  BY DEF Fetched, Ahead
<1>4. CASE S # {}
  <2> DEFINE x == [s EXCEPT !.batch = S, !.seen = s.seen \cup S]
  <2>1. lister' = [lister EXCEPT ![l] = x]
    BY <1>1, <1>4 DEF LInv, TypeOK
  <2> HIDE DEF s
  <2>2. /\ x \in Handle /\ x.dir = s.dir /\ x.op = s.op /\ x.batch = S
        /\ x.seen = s.seen \cup S /\ x.lEntries = s.lEntries /\ x.filled = s.filled
        /\ x.stayed = s.stayed /\ x.met = s.met /\ x.result = s.result
    BY <1>2, <1>3 DEF Handle
  <2> HIDE DEF x
  <2>3. s.op = "list" => {d.name : d \in x.seen \ x.batch} = s.lEntries
    <3>1. ASSUME s.op = "list" PROVE {d.name : d \in x.seen \ x.batch} = s.lEntries
      <4>1. {d.name : d \in s.seen} = s.lEntries
        BY <1>2, <3>1 DEF Shape
      <4>2. S \cap s.seen = {}
        BY DEF Fetched, Ahead, s
      <4>3. x.seen \ x.batch = s.seen
        BY <2>2, <4>2
      <4> QED BY <4>1, <4>3
    <3> QED BY <3>1
  <2>4. s.op = "isEmpty" => s.seen = {}
    BY <1>2 DEF Progress
  <2>5. Shape(x) /\ Progress(x, docs) /\ Outcome(x)
    BY <1>2, <1>3, <2>2, <2>3, <2>4 DEF Shape, Progress, Outcome
  <2> QED BY <1>2, <2>1, <2>5, Moves
<1>5. CASE S = {}
  <2> DEFINE result == IF s.op = "list" THEN "listed" ELSE "empty"
  <2>1. ASSUME NEW d \in s.stayed, Matches(d.name, s.dir)
        PROVE  s.op = "list" /\ d.name \in s.lEntries
    <3>1. d \in s.seen
      BY <1>2, <1>3, <1>5, <2>1 DEF Progress
    <3>2. s.op # "isEmpty"
      BY <1>2, <3>1 DEF Progress
    <3>3. s.op = "list"
      BY <1>2, <3>2 DEF Handle
    <3> QED BY <1>2, <3>1, <3>3 DEF Shape
  <2> QED BY <1>1, <1>2, <1>5, <2>1, DoneStep
<1> QED BY <1>4, <1>5

LEMMA EndStep ==
  ASSUME LInv, NEW l \in Lister, NotEmpty(l) \/ Throws(l)
  PROVE  LInv'
BY DoneStep DEF NotEmpty, Throws

LEMMA NextStep ==
  ASSUME LInv, NEW l \in Lister, Next1(l)
  PROVE  LInv'
<1> DEFINE s == lister[l]
<1>1. PICK d \in s.batch :
        lister' = [lister EXCEPT ![l].batch = @ \ {d},
                                 ![l].lEntries = @ \cup {d.name},
                                 ![l].filled = IF d.name \in s.lEntries THEN @
                                               ELSE Append(@, d.name)]
  BY DEF Next1
<1>2. /\ s.op = "list" /\ UNCHANGED <<docs, uploads, calls>> /\ calls' \in Nat
      /\ s \in Handle /\ Shape(s) /\ Outcome(s) /\ Progress(s, docs)
  BY Shapes DEF Next1, LInv, TypeOK
<1> DEFINE n == d.name
           b == s.batch \ {d}
           e == s.lEntries \cup {n}
           t == IF n \in s.lEntries THEN s.filled ELSE Append(s.filled, n)
           x == [s EXCEPT !.batch = b, !.lEntries = e, !.filled = t]
<1>3. lister' = [lister EXCEPT ![l] = x]
  BY <1>1 DEF LInv, TypeOK
<1> HIDE DEF s
<1>4. d \in s.seen /\ n \in Name /\ s.filled \in Seq(Name) /\ s.lEntries = ToSet(s.filled)
      /\ IsInjective(s.filled)
  BY <1>2 DEF Shape, Handle, Doc, Outcome
<1>5. t \in Seq(Name) /\ ToSet(t) = e /\ IsInjective(t)
  <2>1. CASE n \in s.lEntries
    BY <1>4, <2>1
  <2>2. CASE n \notin s.lEntries
    BY <1>4, <2>2, ToSetAppend, InjectiveAppend, AppendProperties
  <2> QED BY <2>1, <2>2
<1>6. b \subseteq s.batch /\ e \subseteq Name /\ n \in e
  BY <1>2, <1>4 DEF Handle
<1>7. {c.name : c \in s.seen \ b} = e
  <2>1. {c.name : c \in s.seen \ s.batch} = s.lEntries
    BY <1>2 DEF Shape
  <2>2. s.seen \ b = (s.seen \ s.batch) \cup {d}
    BY <1>4
  <2> QED BY <2>1, <2>2
<1> HIDE DEF n, b, t
<1>8. /\ x \in Handle /\ x.dir = s.dir /\ x.op = s.op /\ x.batch = b
      /\ x.seen = s.seen /\ x.lEntries = e /\ x.filled = t
      /\ x.stayed = s.stayed /\ x.met = s.met /\ x.result = s.result
  BY <1>2, <1>5, <1>6 DEF Handle
<1> HIDE DEF x
<1>9. n \in s.met /\ Matches(n, s.dir)
  BY <1>2, <1>4 DEF Progress, n
<1>10. Shape(x)
  BY <1>2, <1>5, <1>6, <1>7, <1>8 DEF Shape
<1>11. Progress(x, docs) /\ Outcome(x)
  BY <1>2, <1>5, <1>8, <1>9 DEF Progress, Outcome, Shape
<1> QED BY <1>2, <1>3, <1>10, <1>11, Moves

LEMMA ReleasedirStep ==
  ASSUME LInv, NEW l \in Lister, Releasedir(l)
  PROVE  LInv'
<1>1. ToSet(<<>>) = {} /\ IsInjective(<<>>)
  BY DEF ToSet, IsInjective
<1>2. Shape(Closed) /\ Progress(Closed, docs) /\ Outcome(Closed)
  BY <1>1, ClosedType DEF Shape, Progress, Outcome, Closed
<1> QED BY <1>2, Moves DEF Releasedir, LInv, TypeOK

-----------------------------------------------------------------------------
(* Other handlers and mounts *)

\* The documents change, and the history of the listings at work with them.
LEMMA DocsMove ==
  ASSUME LInv, uploads' \in Nat, calls' = calls, docs' \subseteq Doc,
         lister' \in [Lister -> Handle],
         \A l \in Lister : LET s == lister[l]
                               x == lister'[l] IN
           /\ s.op = "none" => x = s
           /\ s.op # "none" =>
                /\ x.dir = s.dir /\ x.op = s.op /\ x.batch = s.batch /\ x.seen = s.seen
                /\ x.lEntries = s.lEntries /\ x.filled = s.filled /\ x.result = s.result
                /\ x.stayed \subseteq docs' /\ s.met \subseteq x.met
                /\ \A d \in docs' : d.name \in x.met
  PROVE  LInv'
<1>1. ASSUME NEW l \in Lister
      PROVE  Shape(lister'[l]) /\ Progress(lister'[l], docs') /\ Outcome(lister'[l])
  <2> DEFINE s == lister[l]
             x == lister'[l]
  <2>1. Shape(s) /\ Progress(s, docs) /\ Outcome(s) /\ x \in Handle
    BY Shapes DEF LInv
  <2>2. CASE s.op = "none"
    BY <2>1, <2>2 DEF Progress
  <2>3. CASE s.op # "none"
    <3> HIDE DEF s, x
    <3>1. /\ x.dir = s.dir /\ x.op = s.op /\ x.batch = s.batch /\ x.seen = s.seen
          /\ x.lEntries = s.lEntries /\ x.filled = s.filled /\ x.result = s.result
          /\ x.stayed \subseteq docs' /\ s.met \subseteq x.met
          /\ \A d \in docs' : d.name \in x.met
      BY <2>3 DEF s, x
    <3>2. x.dir # None
      BY <2>1, <2>3, <3>1 DEF Shape
    <3>3. Shape(x)
      BY <2>1, <3>1 DEF Shape
    <3>4. Progress(x, docs')
      BY <2>1, <2>3, <3>1 DEF Progress
    <3>5. Outcome(x)
      BY <2>1, <2>3, <3>1, <3>2 DEF Outcome
    <3> QED BY <3>3, <3>4, <3>5 DEF x
  <2> QED BY <2>2, <2>3
<1> QED BY <1>1 DEF LInv, TypeOK, Shape

LEMMA UploadStep ==
  ASSUME LInv, NEW n \in Name, Upload(n)
  PROVE  LInv'
<1> DEFINE new(s) == IF s.op = "none" THEN s ELSE [s EXCEPT !.met = @ \cup {n}]
<1>1. lister' = [l \in Lister |-> new(lister[l])] /\ calls' = calls
  BY DEF Upload
<1>2. ASSUME NEW s \in Handle
      PROVE  /\ new(s) \in Handle
             /\ s.op = "none" => new(s) = s
             /\ s.op # "none" =>
                  /\ new(s).dir = s.dir /\ new(s).op = s.op /\ new(s).batch = s.batch
                  /\ new(s).seen = s.seen /\ new(s).lEntries = s.lEntries
                  /\ new(s).filled = s.filled /\ new(s).result = s.result
                  /\ new(s).stayed = s.stayed /\ new(s).met = s.met \cup {n}
  BY DEF Handle
<1> HIDE DEF new
<1>3. /\ uploads' \in Nat /\ docs' = docs \cup {[id |-> uploads + 1, name |-> n]}
      /\ docs' \subseteq Doc
  BY DEF Upload, LInv, TypeOK, Doc
<1>4. lister' \in [Lister -> Handle]
  BY <1>1, <1>2 DEF LInv, TypeOK
<1>5. ASSUME NEW l \in Lister, lister[l].op # "none"
      PROVE  /\ lister[l].stayed \subseteq docs'
             /\ \A d \in docs' : d.name \in lister[l].met \cup {n}
  BY <1>3, <1>5 DEF LInv, Progress
<1>6. \A l \in Lister : lister[l] \in Handle /\ lister'[l] = new(lister[l])
  BY <1>1 DEF LInv, TypeOK
<1> QED BY <1>1, <1>2, <1>3, <1>4, <1>5, <1>6, DocsMove

LEMMA DeleteStep ==
  ASSUME LInv, NEW e \in docs, Delete(e)
  PROVE  LInv'
<1> DEFINE new(s) == IF s.op = "none" THEN s ELSE [s EXCEPT !.stayed = @ \ {e}]
<1>1. lister' = [l \in Lister |-> new(lister[l])] /\ calls' = calls
  BY DEF Delete
<1>2. ASSUME NEW s \in Handle
      PROVE  /\ new(s) \in Handle
             /\ s.op = "none" => new(s) = s
             /\ s.op # "none" =>
                  /\ new(s).dir = s.dir /\ new(s).op = s.op /\ new(s).batch = s.batch
                  /\ new(s).seen = s.seen /\ new(s).lEntries = s.lEntries
                  /\ new(s).filled = s.filled /\ new(s).result = s.result
                  /\ new(s).stayed = s.stayed \ {e} /\ new(s).met = s.met
  BY DEF Handle
<1> HIDE DEF new
<1>3. uploads' \in Nat /\ docs' = docs \ {e} /\ docs' \subseteq Doc
  BY DEF Delete, LInv, TypeOK
<1>4. lister' \in [Lister -> Handle]
  BY <1>1, <1>2 DEF LInv, TypeOK
<1>5. ASSUME NEW l \in Lister, lister[l].op # "none"
      PROVE  /\ lister[l].stayed \ {e} \subseteq docs'
             /\ \A d \in docs' : d.name \in lister[l].met
  BY <1>3, <1>5 DEF LInv, Progress
<1>6. \A l \in Lister : lister[l] \in Handle /\ lister'[l] = new(lister[l])
  BY <1>1 DEF LInv, TypeOK
<1> QED BY <1>1, <1>2, <1>3, <1>4, <1>5, <1>6, DocsMove

LEMMA ListingStep ==
  ASSUME LInv, [Next]_vars
  PROVE  LInv'
<1>1. CASE UNCHANGED vars
  BY <1>1 DEF vars, LInv, TypeOK
<1> QED BY <1>1, OpendirStep, QueryStep, MoreStep, EndStep, NextStep, ReleasedirStep,
           UploadStep, DeleteStep DEF Next

LEMMA ListingInit ==
  ASSUME Init
  PROVE  LInv
<1>1. ToSet(<<>>) = {} /\ IsInjective(<<>>)
  BY DEF ToSet, IsInjective
<1>2. Shape(Closed) /\ Progress(Closed, docs) /\ Outcome(Closed)
  BY <1>1, ClosedType DEF Shape, Progress, Outcome, Closed
<1> QED BY <1>2 DEF Init, LInv, TypeOK, Shape

LEMMA ListingInvariance == Spec => []LInv
BY ListingInit, ListingStep, PTL DEF Spec

-----------------------------------------------------------------------------
(* The theorems *)

\* Every variable has its type, and what was filled in is what Directory::list has
\* looked at: the names of the documents that have left the batch.
THEOREM TypeCorrect == Spec => []TypeOK
<1>1. LInv => TypeOK
  BY DEF LInv
<1> QED BY <1>1, ListingInvariance, PTL

\* A name is listed once, however many versions it has and however the cursor is cut
\* into batches (the duplicate elimination of Directory::list).
THEOREM OnceOnly == Spec => []ListedOnce
<1>1. LInv => ListedOnce
  BY DEF LInv, Outcome, ListedOnce
<1> QED BY <1>1, ListingInvariance, PTL

\* What is listed was there while it was listed, directly below the directory, unless
\* the name of the directory has braces (Directory::list, pathregex()).
THEOREM NothingElse == Spec => []ListedWasThere
<1>1. LInv => ListedWasThere
  BY Shapes DEF LInv, Shape, Outcome, ListedWasThere, Listed, Matches
<1> QED BY <1>1, ListingInvariance, PTL

\* What stays in the directory while it is listed is listed, and a directory is not
\* taken to be empty while something stays below it, whatever else is uploaded and
\* deleted meanwhile (Directory::list, Directory::isEmpty).
THEOREM NothingMissed == Spec => []StayersAreListed
<1>1. LInv => StayersAreListed
  <2> SUFFICES ASSUME LInv, NEW l \in Lister, lister[l].op = "none",
                      Spelled[lister[l].dir] = lister[l].dir,
                      NEW d \in lister[l].stayed, Parent[d.name] = lister[l].dir
               PROVE  /\ lister[l].result = "listed" => d.name \in Listed(l)
                      /\ lister[l].result # "empty"
    BY DEF StayersAreListed
  <2> QED BY Shapes DEF LInv, Shape, Outcome, Matches, Listed
<1> QED BY <1>1, ListingInvariance, PTL

=============================================================================
